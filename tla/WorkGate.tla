------------------------------ MODULE WorkGate ------------------------------
(***************************************************************************)
(* DeviceWorkGate (node/src-tauri/src/work_gate.rs): the gate every        *)
(* request of a node passes before it may use the device.  It is a         *)
(* semaphore of one permit and a watched state                             *)
(* {busy, accepting, source, work_id}.  The two are not changed together:  *)
(* a task takes the permit first and then asks the state whether it may    *)
(* start; a finished task publishes its state first and returns the permit *)
(* after it; drain and resume change the state while tasks are in between. *)
(*                                                                         *)
(* Each action is a piece of code between two points where another thread  *)
(* may run.  (source, work_id) is abstracted to `owner': the task itself   *)
(* for relay work, Drain for ("node-control", "draining"), None for idle.  *)
(* The semaphore is tokio's: it is modelled by what acquire_owned,         *)
(* try_acquire_owned and dropping a permit do; its FIFO order is weakened  *)
(* to strong fairness of each waiter.                                      *)
(*                                                                         *)
(* A definition Name_what is a mutant of Name: the bug that shows that a   *)
(* property below depends on the code as it is.                            *)
(***************************************************************************)
CONSTANTS
  Worker,   \* tasks that execute relay work
  Barrier,  \* tasks that acquire as "node-control" (stop, sign-out)
  None,     \* nobody
  Drain     \* the owner the state names while an idle gate drains

ASSUME GateConstants ==
  /\ Worker \cap Barrier = {}
  /\ None \notin Worker \cup Barrier
  /\ Drain \notin Worker \cup Barrier
  /\ None # Drain

Task == Worker \cup Barrier

VARIABLES
  pc,      \* where each task is in acquire / try_acquire / its work
  permit,  \* the task that owns the semaphore's permit, or None
  gate     \* the watched WorkGateState

gateVars == <<pc, permit, gate>>

Waiting == {"gating", "queued", "checking"}
Holding == {"checking", "tryChecking", "running", "releasing"}

PC == {"off", "probing"} \cup Waiting \cup Holding

Idle == [busy |-> FALSE, accepting |-> TRUE, owner |-> None]
Drained == [busy |-> TRUE, accepting |-> FALSE, owner |-> Drain]

(* state.source = "node-control" *)
ControlOwned == gate.owner \in Barrier \cup {Drain}

Init ==
  /\ pc = [t \in Task |-> "off"]
  /\ permit = None
  /\ gate = Idle

Goto(t, label) == pc' = [pc EXCEPT ![t] = label]

-----------------------------------------------------------------------------
(* acquire: wait for the state to accept, take the permit, ask again.      *)

Call(t) ==
  /\ pc[t] = "off"
  /\ Goto(t, "gating")
  /\ UNCHANGED <<permit, gate>>

SeeAccepting(t) ==
  /\ pc[t] = "gating"
  /\ gate.accepting
  /\ Goto(t, "queued")
  /\ UNCHANGED <<permit, gate>>

Grab(t) ==
  /\ pc[t] = "queued"
  /\ permit = None
  /\ permit' = t
  /\ Goto(t, "checking")
  /\ UNCHANGED gate

(* The send_if_modified of acquire and of try_acquire: the state takes the *)
(* task only if it accepts at that moment.                                 *)
Admit_unchecked(t) ==
  /\ pc[t] \in {"checking", "tryChecking"}
  /\ gate' = [gate EXCEPT !.busy = TRUE, !.owner = t]
  /\ Goto(t, "running")
  /\ UNCHANGED permit

Admit(t) ==
  /\ pc[t] \in {"checking", "tryChecking"}
  /\ gate.accepting
  /\ gate' = [busy |-> TRUE, accepting |-> TRUE, owner |-> t]
  /\ Goto(t, "running")
  /\ UNCHANGED permit

Refuse_keepsPermit(t) ==
  /\ pc[t] \in {"checking", "tryChecking"}
  /\ ~gate.accepting
  /\ Goto(t, IF pc[t] = "checking" THEN "gating" ELSE "off")
  /\ UNCHANGED <<permit, gate>>

Refuse(t) ==
  /\ pc[t] \in {"checking", "tryChecking"}
  /\ ~gate.accepting
  /\ permit' = None
  /\ Goto(t, IF pc[t] = "checking" THEN "gating" ELSE "off")
  /\ UNCHANGED gate

(* The future of acquire is dropped at an await: the job was cancelled     *)
(* while it was queued, or its connection ended.                           *)
Cancel(t) ==
  /\ pc[t] \in {"gating", "queued"}
  /\ Goto(t, "off")
  /\ UNCHANGED <<permit, gate>>

-----------------------------------------------------------------------------
(* try_acquire: live speech sessions never wait.                           *)

TryCall(t) ==
  /\ pc[t] = "off"
  /\ gate.accepting
  /\ Goto(t, "probing")
  /\ UNCHANGED <<permit, gate>>

TryGrab(t) ==
  /\ pc[t] = "probing"
  /\ permit = None
  /\ permit' = t
  /\ Goto(t, "tryChecking")
  /\ UNCHANGED gate

TryBusy(t) ==
  /\ pc[t] = "probing"
  /\ permit # None
  /\ Goto(t, "off")
  /\ UNCHANGED <<permit, gate>>

-----------------------------------------------------------------------------
(* WorkPermit::drop: the state changes in the body of drop, the semaphore  *)
(* permit is a field and goes after it.                                    *)

Finish_forgetsDrain(t) ==
  /\ pc[t] = "running"
  /\ gate' = [Idle EXCEPT !.accepting = gate.accepting]
  /\ Goto(t, "releasing")
  /\ UNCHANGED permit

Finish(t) ==
  /\ pc[t] = "running"
  /\ gate' = IF gate.accepting THEN Idle ELSE Drained
  /\ Goto(t, "releasing")
  /\ UNCHANGED permit

Release_leaks(t) ==
  /\ pc[t] = "releasing"
  /\ Goto(t, "off")
  /\ UNCHANGED <<permit, gate>>

Release(t) ==
  /\ pc[t] = "releasing"
  /\ permit' = None
  /\ Goto(t, "off")
  /\ UNCHANGED gate

-----------------------------------------------------------------------------
AfterBeginDrain_silent == [gate EXCEPT !.accepting = FALSE]

AfterResume_resets == Idle

AfterBeginDrain ==
  [busy |-> TRUE, accepting |-> FALSE, owner |-> IF gate.busy THEN gate.owner ELSE Drain]

AfterResume ==
  IF ControlOwned THEN Idle
                  ELSE [busy |-> gate.busy, accepting |-> TRUE, owner |-> gate.owner]

BeginDrain == gate' = AfterBeginDrain /\ UNCHANGED <<pc, permit>>

Resume == gate' = AfterResume /\ UNCHANGED <<pc, permit>>

TaskStep(t) ==
  \/ Call(t) \/ SeeAccepting(t) \/ Grab(t) \/ Cancel(t)
  \/ TryCall(t) \/ TryGrab(t) \/ TryBusy(t)
  \/ Admit(t) \/ Refuse(t) \/ Finish(t) \/ Release(t)

Next ==
  \/ \E t \in Task : TaskStep(t)
  \/ BeginDrain
  \/ Resume

(* The runtime keeps polling ready tasks and work comes to an end; nobody  *)
(* owes us a request, a cancellation, a drain or a resume.                 *)
TaskFairness(t) ==
  /\ WF_gateVars(SeeAccepting(t))
  /\ SF_gateVars(Grab(t))
  /\ WF_gateVars(Admit(t))
  /\ WF_gateVars(Refuse(t))
  /\ WF_gateVars(TryGrab(t) \/ TryBusy(t))
  /\ WF_gateVars(Finish(t))
  /\ WF_gateVars(Release(t))

Spec == Init /\ [][Next]_gateVars

FairSpec == Spec /\ \A t \in Task : TaskFairness(t)

-----------------------------------------------------------------------------
(* The shape of what the gate publishes: idle is accepting, an empty gate  *)
(* that refuses calls itself busy, and anything else names a task.         *)
TypeOK ==
  /\ pc \in [Task -> PC]
  /\ permit \in Task \cup {None}
  /\ gate \in {Idle, Drained} \cup [busy : {TRUE}, accepting : BOOLEAN, owner : Task]

(* The permit belongs to exactly the task that took it, through every      *)
(* refusal, early return and two-stage drop: no permit leaks (the device   *)
(* would never work again) and none is doubled.                            *)
PermitAccounted == \A t \in Task : pc[t] \in Holding <=> permit = t

(* What the gate publishes is the truth about the device, in every         *)
(* interleaving of work with drain and resume: it names a request exactly  *)
(* while that request executes, and a barrier only while the barrier is    *)
(* held.  Relay placement, the health file and the daemon's shutdown all   *)
(* read it.                                                                *)
GateTellsTruth ==
  /\ \A w \in Worker : pc[w] = "running" <=> gate.owner = w
  /\ gate.owner \in Barrier => pc[gate.owner] = "running"

(* The gate implements the one-slot promise of WorkSlot: two requests      *)
(* never execute at once, and none starts between a drain and the resume   *)
(* after it, however late it was queued before the drain.                  *)
occupant == IF permit \in Worker /\ pc[permit] = "running" THEN permit ELSE None

Slot == INSTANCE WorkSlot WITH accepting <- gate.accepting

ImplementsSlot == Slot!Spec

(* Once the gate accepts for good, a request waiting in acquire starts, no *)
(* matter how often live sessions overtake it with try_acquire (or it is   *)
(* withdrawn).                                                             *)
WaiterStarts ==
  \A t \in Task :
    <>[](gate.accepting) => (pc[t] \in Waiting ~> pc[t] \in {"running", "off"})

(* A drain that is not taken back ends with the device quiet and saying    *)
(* so: work in progress finishes, work in the queue stays out.             *)
DrainQuiesces == <>[](~gate.accepting) => <>[](gate.owner = Drain)
=============================================================================
