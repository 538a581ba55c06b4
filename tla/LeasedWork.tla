----------------------------- MODULE LeasedWork -----------------------------
(***************************************************************************)
(* What Relay promises about a job, with none of its mechanism: work is    *)
(* granted to one worker at a time and a bounded number of times; only a   *)
(* worker that was given the latest grant can report on it; complete and   *)
(* cancelled are final.  A failure that Relay assumed (the worker was      *)
(* silent) may still be corrected by that same worker.                     *)
(* JobDispatch implements this specification.                              *)
(***************************************************************************)
EXTENDS Naturals

CONSTANTS
  Job,
  Device,
  MaxAttempts   \* how often a job may be granted

VARIABLES
  phase,     \* what the owner of each job is told
  grants,    \* how often each job was granted so far
  working    \* the grants whose workers may still be heard from

workVars == <<phase, grants, working>>

Phases == {"absent", "refused", "queued", "leased", "complete", "failed", "cancelled"}

Init ==
  /\ phase = [j \in Job |-> "absent"]
  /\ grants = [j \in Job |-> 0]
  /\ working = {}

Submit(j) ==
  /\ phase[j] = "absent"
  /\ \E p \in {"queued", "refused"} : phase' = [phase EXCEPT ![j] = p]
  /\ UNCHANGED <<grants, working>>

(* The grant may be lost on the way: then nobody works.                    *)
Grant(j, d) ==
  /\ phase[j] \in {"absent", "queued"}
  /\ grants[j] < MaxAttempts
  /\ phase' = [phase EXCEPT ![j] = "leased"]
  /\ grants' = [grants EXCEPT ![j] = grants[j] + 1]
  /\ working' \in {working,
                   working \cup {[dev |-> d, job |-> j, lease |-> grants[j] + 1]}}

(* Workers went silent, some of them for good: each of their jobs is       *)
(* granted anew later, if it may be, or is given up.                       *)
Recall ==
  /\ UNCHANGED grants
  /\ working' \in SUBSET working
  /\ phase' \in [Job -> Phases]
  /\ \A j \in Job :
       \/ phase'[j] = phase[j]
       \/ phase[j] = "leased" /\ phase'[j] = "failed"
       \/ phase[j] = "leased" /\ phase'[j] = "queued" /\ grants[j] < MaxAttempts

Report(w) ==
  /\ w \in working
  /\ w.lease = grants[w.job]
  /\ phase[w.job] \in {"leased", "failed"}
  /\ \E p \in {"leased", "complete", "failed"} : phase' = [phase EXCEPT ![w.job] = p]
  /\ working' \in {working, working \ {w}}
  /\ UNCHANGED grants

(* Workers end, and what they sent is lost or comes too late.              *)
Fade ==
  /\ UNCHANGED <<phase, grants>>
  /\ working' \in SUBSET working

Cancel(j) ==
  /\ phase[j] \in {"queued", "leased"}
  /\ phase' = [phase EXCEPT ![j] = "cancelled"]
  /\ UNCHANGED <<grants, working>>

Next ==
  \/ Fade
  \/ Recall
  \/ \E j \in Job : Submit(j) \/ Cancel(j)
  \/ \E j \in Job, d \in Device : Grant(j, d)
  \/ \E w \in working : Report(w)

Spec == Init /\ [][Next]_workVars
=============================================================================
