---------------------------- MODULE JobDispatch ----------------------------
(***************************************************************************)
(* The life of generation jobs in one account's Durable Object: submission *)
(* (relay-api-jobs.ts), placement (relay-queue.ts), the messages of nodes  *)
(* (relay-agent-job.ts, relay-agent-auth.ts), loss of nodes                *)
(* (relay-lifecycle.ts, relay-websocket.ts, relay-api-status.ts), the      *)
(* object's own hibernation, and the part of a node's agent (agent.rs)     *)
(* whose timing Relay depends on: its tasks, its work gate and its         *)
(* availability publisher.                                                 *)
(*                                                                         *)
(* A step is what the object does without yielding.  Storage awaits do not *)
(* yield (input gates); the R2 upload of an inline input image does, and   *)
(* is modelled by Park / Resume.  The placement loop takes one step per    *)
(* job, and no other handler runs while it has jobs to place.              *)
(* Relay's messages to a node arrive at once (or never); a node's messages *)
(* take any time, and results overtake availability frames and vice versa. *)
(*                                                                         *)
(* lease ids are numbers, a job's n-th dispatch carrying n (the code draws *)
(* a fresh UUID for each); 0 is null.  An agent's status 'busy' is         *)
(* reserved[d] # None: the code always sets status and current_job_id      *)
(* together.  mem holds jobs that may still change: a terminal job that is *)
(* retained for 30 s serves reads only.                                    *)
(* A definition Name_what is a mutant of Name.                             *)
(***************************************************************************)
EXTENDS Naturals, FiniteSets

CONSTANTS
  Job,          \* jobs, numbered in the order of created_at
  Device,
  CanRun,       \* the devices each job's capability check accepts
  LeaseAware,   \* devices with capacity.lease_protocol
  LocalUse,     \* devices whose owner also uses the gate (Animatic, drain)
  InlineInput,  \* jobs with input_image_data
  Uncancelled,  \* jobs of a kind the node's agent does not keep track of (music)
  MaxAttempts,  \* max_attempts: the fleet's retry_limit + 1
  DispatchCap,  \* bound on dispatches of one job (bites only if InlineInput # {})
  None,
  Local         \* a reservation local:<source>:<id>, or node-control's

ASSUME DispatchConstants ==
  /\ Job \subseteq Nat
  /\ CanRun \in [Job -> SUBSET Device]
  /\ LeaseAware \subseteq Device
  /\ LocalUse \subseteq Device
  /\ InlineInput \subseteq Job
  /\ Uncancelled \subseteq Job
  /\ MaxAttempts \in Nat \ {0}
  /\ DispatchCap \in Nat /\ DispatchCap >= MaxAttempts
  /\ None \notin Job \cup Device \cup {Local}
  /\ Local \notin Job

VARIABLES
  job,        \* the durable record of each job
  mem,        \* ctx.jobs: jobs the object has in memory
  connected,  \* devices with an attached, not superseded socket
  reserved,   \* current_job_id in each device's attachment
  todo,       \* what is left of the running assignQueuedWork
  parked,     \* dispatches suspended in IMAGES.put
  linked,     \* devices whose agent believes it has a connection
  tasks,      \* generation tasks of the nodes
  gate,       \* the task that has each node's work gate, or Local
  last,       \* last_current_job_id of each availability publisher
  dirty,      \* has the gate changed since the publisher looked?
  wire        \* results sent and not yet handled

relayVars == <<job, mem, connected, reserved, todo, parked>>
nodeVars == <<linked, tasks, gate, last, dirty, wire>>
dispatchVars == <<relayVars, nodeVars>>

Active == {"assigned", "generating"}
Status == {"new", "queued", "complete", "failed", "cancelled", "deleted"} \cup Active

Lease == 1 .. DispatchCap

JobRecord ==
  [status : Status, agent : Device \cup {None}, lease : 0 .. DispatchCap,
   aware : BOOLEAN, attempts : 0 .. DispatchCap]

Task == [dev : Device, job : Job, lease : Lease]

Blank == [status |-> "new", agent |-> None, lease |-> 0, aware |-> FALSE, attempts |-> 0]

Init ==
  /\ job = [j \in Job |-> Blank]
  /\ mem = {}
  /\ connected = {}
  /\ reserved = [d \in Device |-> None]
  /\ todo = {}
  /\ parked = {}
  /\ linked = {}
  /\ tasks = {}
  /\ gate = [d \in Device |-> None]
  /\ last = [d \in Device |-> None]
  /\ dirty = {}
  /\ wire = {}

-----------------------------------------------------------------------------
(* Helpers of the handlers                                                 *)

WithStatus(r, s) ==
  [status |-> s, agent |-> r.agent, lease |-> r.lease, aware |-> r.aware,
   attempts |-> r.attempts]

SetStatus(j, s) == job' = [job EXCEPT ![j] = WithStatus(job[j], s)]

(* No handler runs while the placement loop is busy.                       *)
Quiet == todo = {}

(* assignQueuedWork starts: the queued jobs the object has in memory.      *)
AssignQueued == todo' = {j \in mem' : job'[j].status = "queued"}

(* getOnlineAgent: which of the candidates wins is the scorer's business.  *)
Candidates(j) == {d \in CanRun[j] : d \in connected /\ reserved[d] = None}

Release_zero(d) ==
  reserved' = [e \in Device |-> IF e = d /\ e \in connected THEN 0 ELSE reserved[e]]

(* releaseAgent and the release in sendCancelToAgent: whatever the device  *)
(* was reserved for.                                                       *)
Release(d) ==
  reserved' = [e \in Device |-> IF e = d /\ e \in connected THEN None ELSE reserved[e]]

(* hasCurrentLease on a message of task t: only lease-aware nodes echo it. *)
HasCurrentLease_any(t) == TRUE

HasCurrentLease(t) ==
  IF t.dev \in LeaseAware THEN t.lease = job[t.job].lease ELSE ~job[t.job].aware

(* failInProgressWorkForAgent for the devices D: the job each is reserved  *)
(* for, if it is in memory, still theirs and under way.                    *)
Lost(D) ==
  {j \in mem : job[j].status \in Active /\ job[j].agent \in D /\ reserved[job[j].agent] = j}

Retryable(j) == job[j].aware /\ job[j].attempts < MaxAttempts

AfterLoss_always(D) ==
  [j \in Job |-> IF j \notin Lost(D) THEN job[j]
                 ELSE [status |-> "queued", agent |-> None, lease |-> 0,
                       aware |-> job[j].aware, attempts |-> job[j].attempts]]

AfterLoss(D) ==
  [j \in Job |->
     IF j \notin Lost(D) THEN job[j]
     ELSE IF Retryable(j)
     THEN [status |-> "queued", agent |-> None, lease |-> 0,
           aware |-> job[j].aware, attempts |-> job[j].attempts]
     ELSE WithStatus(job[j], "failed")]

FailWork(D) ==
  /\ job' = AfterLoss(D)
  /\ mem' = mem \ {j \in Lost(D) : ~Retryable(j)}

-----------------------------------------------------------------------------
(* Placement                                                               *)

(* The end of sendJobToAgent: the message goes out, the job and the        *)
(* reservation are written.  A node runs an image or a video once at a     *)
(* time and drops a second message for it silently; other jobs it takes a  *)
(* second time, and both of their tasks want the gate.                     *)
Takes(j, d) == j \in Uncancelled \/ ~\E t \in tasks : t.dev = d /\ t.job = j

Deliver(j, d, lease) ==
  tasks' = IF d \in linked /\ Takes(j, d)
           THEN tasks \cup {[dev |-> d, job |-> j, lease |-> lease]}
           ELSE tasks

Dispatch_sameLease(j, d) ==
  /\ job[j].attempts < DispatchCap
  /\ job' = [job EXCEPT ![j] = [status |-> "assigned", agent |-> d, lease |-> 1,
                                aware |-> d \in LeaseAware,
                                attempts |-> job[j].attempts + 1]]
  /\ mem' = mem \cup {j}
  /\ reserved' = [reserved EXCEPT ![d] = j]
  /\ Deliver(j, d, 1)

Dispatch(j, d) ==
  /\ job[j].attempts < DispatchCap
  /\ job' = [job EXCEPT ![j] = [status |-> "assigned", agent |-> d,
                                lease |-> job[j].attempts + 1,
                                aware |-> d \in LeaseAware,
                                attempts |-> job[j].attempts + 1]]
  /\ mem' = mem \cup {j}
  /\ reserved' = [reserved EXCEPT ![d] = j]
  /\ Deliver(j, d, job[j].attempts + 1)

(* A suspended dispatch remembers its job, the socket it chose (None once  *)
(* that socket is gone), what the loop has still to place, and whether a   *)
(* submission waits for it.                                                *)
Park(j, d, rest, submit) ==
  /\ parked' = parked \cup {[job |-> j, dev |-> d, rest |-> rest, submit |-> submit]}
  /\ UNCHANGED <<job, mem, reserved, tasks>>

SocketsGone(D) ==
  parked' = {[job |-> p.job, dev |-> IF p.dev \in D THEN None ELSE p.dev,
              rest |-> p.rest, submit |-> p.submit] : p \in parked}

(* One round of assignQueuedWork's loop, oldest first.  The loop asks the  *)
(* map for the job and not the job for its status.                         *)
PlaceNext ==
  \E j \in todo :
    /\ \A k \in todo : j <= k
    /\ \/ /\ j \notin mem \/ Candidates(j) = {}
          /\ todo' = todo \ {j}
          /\ UNCHANGED <<job, mem, reserved, parked, tasks>>
       \/ /\ j \in mem \ InlineInput
          /\ \E d \in Candidates(j) : Dispatch(j, d)
          /\ todo' = todo \ {j}
          /\ UNCHANGED parked
       \/ /\ j \in mem \cap InlineInput
          /\ \E d \in Candidates(j) : Park(j, d, todo \ {j}, FALSE)
          /\ todo' = {}
    /\ UNCHANGED <<connected, linked, gate, last, dirty, wire>>

(* finishSubmission when the job was not assigned.                         *)
Refused(j) == connected \cap CanRun[j] = {}

(* handleSubmitJob, one submission per job id, in order of created_at.     *)
Submit(j) ==
  /\ Quiet
  /\ job[j].status = "new"
  /\ \A k \in Job : k < j => job[k].status # "new"
  /\ \/ /\ j \notin InlineInput
        /\ \E d \in Candidates(j) : Dispatch(j, d)
        /\ UNCHANGED parked
     \/ /\ j \in InlineInput
        /\ \E d \in Candidates(j) :
             parked' = parked \cup {[job |-> j, dev |-> d, rest |-> {}, submit |-> TRUE]}
        /\ SetStatus(j, "queued")
        /\ mem' = mem \cup {j}
        /\ UNCHANGED <<reserved, tasks>>
     \/ /\ Candidates(j) = {}
        /\ SetStatus(j, IF Refused(j) THEN "deleted" ELSE "queued")
        /\ mem' = IF Refused(j) THEN mem ELSE mem \cup {j}
        /\ UNCHANGED <<reserved, parked, tasks>>
  /\ UNCHANGED <<connected, todo, linked, gate, last, dirty, wire>>

(* The R2 upload of a suspended dispatch is done: it goes on with the      *)
(* socket and the job object it had, whatever happened to them meanwhile.  *)
(* A send on a closed socket throws, and the job is "not assigned".        *)
Resume ==
  /\ Quiet
  /\ \E p \in parked :
       /\ parked' = parked \ {p}
       /\ todo' = p.rest
       /\ \/ p.dev # None /\ Dispatch(p.job, p.dev)
          \/ /\ p.dev = None
             /\ p.submit => ~Refused(p.job)
             /\ UNCHANGED <<job, mem, reserved, tasks>>
          \/ /\ p.dev = None
             /\ p.submit /\ Refused(p.job)
             /\ SetStatus(p.job, "deleted")
             /\ mem' = mem \ {p.job}
             /\ UNCHANGED <<reserved, tasks>>
  /\ UNCHANGED <<connected, linked, gate, last, dirty, wire>>

-----------------------------------------------------------------------------
(* The owner: cancel, and reads that load a job into memory.  The owner    *)
(* knows a job by the answer to its submission.                            *)

Answered(j) == ~\E p \in parked : p.job = j /\ p.submit

Cancel(j) ==
  /\ Quiet
  /\ Answered(j)
  /\ job[j].status \in Active \cup {"queued"}
  /\ SetStatus(j, "cancelled")
  /\ mem' = mem \ {j}
  /\ Release(job[j].agent)
  /\ AssignQueued
  /\ UNCHANGED <<connected, parked, nodeVars>>

Poll(j) ==
  /\ Quiet
  /\ Answered(j)
  /\ job[j].status \in Active \cup {"queued"}
  /\ mem' = mem \cup {j}
  /\ UNCHANGED <<job, connected, reserved, todo, parked, nodeVars>>

-----------------------------------------------------------------------------
(* Messages of nodes                                                       *)

(* Progress comes from a task at work, or precedes the result on the wire. *)
HandleProgress(t) ==
  /\ Quiet
  /\ t \in wire \/ (t \in tasks /\ t.dev \in linked /\ gate[t.dev] = t)
  /\ t.dev \in connected
  /\ HasCurrentLease(t)
  /\ job[t.job].status \notin {"new", "deleted", "cancelled"}
  /\ SetStatus(t.job, "generating")
  /\ mem' = mem \cup {t.job}
  /\ UNCHANGED <<connected, reserved, todo, parked, nodeVars>>

HandleResult_revives(t) ==
  /\ Quiet
  /\ t \in wire /\ t.dev \in connected
  /\ wire' = wire \ {t}
  /\ HasCurrentLease(t)
  /\ job[t.job].status \notin {"new", "deleted"}
  /\ \E s \in {"complete", "failed"} : SetStatus(t.job, s)
  /\ mem' = mem \ {t.job}
  /\ Release(job[t.job].agent)
  /\ AssignQueued
  /\ UNCHANGED <<connected, parked, linked, tasks, gate, last, dirty>>

HandleResult(t) ==
  /\ Quiet
  /\ t \in wire /\ t.dev \in connected
  /\ wire' = wire \ {t}
  /\ HasCurrentLease(t)
  /\ job[t.job].status \notin {"new", "deleted", "cancelled"}
  /\ \E s \in {"complete", "failed"} : SetStatus(t.job, s)
  /\ mem' = mem \ {t.job}
  /\ Release(job[t.job].agent)
  /\ AssignQueued
  /\ UNCHANGED <<connected, parked, linked, tasks, gate, last, dirty>>

IgnoreResult(t) ==
  /\ Quiet
  /\ t \in wire /\ t.dev \in connected
  /\ \/ ~HasCurrentLease(t)
     \/ job[t.job].status \in {"new", "deleted", "cancelled"}
  /\ wire' = wire \ {t}
  /\ UNCHANGED <<relayVars, linked, tasks, gate, last, dirty>>

(* What the gate of a node says of its owner.                              *)
Owner(d) == IF gate[d] \in {None, Local} THEN gate[d] ELSE gate[d].job

(* The publisher's frame: it names the owner of the gate, or the last one  *)
(* it saw.  Relay lets it replace or clear only the reservation it names.  *)
HandleAvailability(d) ==
  LET id == IF gate[d] # None THEN Owner(d) ELSE last[d]
      accepted == d \in connected /\ reserved[d] \in {None, id}
  IN /\ Quiet
     /\ d \in linked \cap dirty
     /\ dirty' = dirty \ {d}
     /\ last' = [last EXCEPT ![d] = id]
     /\ \/ ~accepted /\ UNCHANGED <<reserved, todo>>
        \/ accepted /\ gate[d] # None /\ reserved' = [reserved EXCEPT ![d] = id]
           /\ UNCHANGED todo
        \/ accepted /\ gate[d] = None /\ reserved' = [reserved EXCEPT ![d] = None]
           /\ todo' = {j \in mem : job[j].status = "queued"}
     /\ UNCHANGED <<job, mem, connected, parked, linked, tasks, gate, wire>>

(* handleInventoryUpdate.                                                  *)
HandleInventory(d) ==
  /\ Quiet
  /\ d \in linked \cap connected
  /\ UNCHANGED <<job, mem>>
  /\ AssignQueued
  /\ UNCHANGED <<connected, reserved, parked, nodeVars>>

(* handleAuth on a new connection: a socket the same device still has is   *)
(* superseded, and its work fails first; what it still brings is ignored.  *)
HandleAuth(d) ==
  /\ Quiet
  /\ d \notin linked
  /\ linked' = linked \cup {d}
  /\ FailWork({d} \cap connected)
  /\ connected' = connected \cup {d}
  /\ reserved' = [reserved EXCEPT ![d] = Owner(d)]
  /\ IF gate[d] = None THEN AssignQueued ELSE UNCHANGED todo
  /\ SocketsGone({d})
  /\ wire' = {t \in wire : t.dev # d}
  /\ UNCHANGED <<tasks, gate, last, dirty>>

-----------------------------------------------------------------------------
(* Loss                                                                    *)

(* handleRelayWebSocketClose: Relay learns that a device's socket is gone. *)
HandleClose(d) ==
  /\ Quiet
  /\ d \in connected \ linked
  /\ FailWork({d})
  /\ connected' = connected \ {d}
  /\ reserved' = [reserved EXCEPT ![d] = None]
  /\ AssignQueued
  /\ SocketsGone({d})
  /\ UNCHANGED nodeVars

(* GET /status: busy agents without a ping for two minutes lose their work *)
(* but keep their sockets; then the queue is tried in any case.            *)
CleanupStale(D) ==
  /\ Quiet
  /\ \A d \in D : d \in connected /\ reserved[d] # None
  /\ FailWork(D)
  /\ reserved' = [d \in Device |-> IF d \in D THEN None ELSE reserved[d]]
  /\ AssignQueued
  /\ UNCHANGED <<connected, parked, nodeVars>>

(* The object leaves memory between events: hibernation keeps the sockets  *)
(* and their attachments, and needs no I/O under way.                      *)
Hibernate ==
  /\ Quiet
  /\ parked = {}
  /\ mem' = {}
  /\ UNCHANGED <<job, connected, reserved, todo, parked, nodeVars>>

(* The object is replaced (a deployment, a crash): no handler sees it.     *)
Restart ==
  /\ mem' = {}
  /\ connected' = {}
  /\ reserved' = [d \in Device |-> None]
  /\ todo' = {}
  /\ parked' = {}
  /\ UNCHANGED <<job, nodeVars>>

-----------------------------------------------------------------------------
(* Nodes (agent.rs)                                                        *)

(* The publisher is woken for a change of the gate while it is connected.  *)
GateChanged(d) == dirty' = dirty \cup ({d} \cap linked)

(* connect_and_serve ends, for whatever reason: its tasks and its          *)
(* publisher end with it.                                                  *)
NodeDrop(d) ==
  /\ d \in linked
  /\ linked' = linked \ {d}
  /\ tasks' = {t \in tasks : t.dev # d}
  /\ gate' = [gate EXCEPT ![d] = IF gate[d] = Local THEN Local ELSE None]
  /\ last' = [last EXCEPT ![d] = None]
  /\ dirty' = dirty \ {d}
  /\ UNCHANGED <<relayVars, wire>>

TaskStarts(t) ==
  /\ t \in tasks
  /\ gate[t.dev] = None
  /\ gate' = [gate EXCEPT ![t.dev] = t]
  /\ GateChanged(t.dev)
  /\ UNCHANGED <<relayVars, linked, tasks, last, wire>>

(* The task ends, in whatever way: its permit is dropped, then the result  *)
(* is queued.                                                              *)
TaskEnds(t) ==
  /\ t \in tasks
  /\ gate[t.dev] = t
  /\ gate' = [gate EXCEPT ![t.dev] = None]
  /\ GateChanged(t.dev)
  /\ tasks' = tasks \ {t}
  /\ wire' = wire \cup {t}
  /\ UNCHANGED <<relayVars, linked, last>>

(* An image or a video that waits for the gate is cancelled, by Relay or   *)
(* because the connection closes: it too sends a result, a failure.        *)
TaskAbandoned(t) ==
  /\ t \in tasks
  /\ t.job \notin Uncancelled /\ gate[t.dev] # t
  /\ tasks' = tasks \ {t}
  /\ wire' = wire \cup {t}
  /\ UNCHANGED <<relayVars, linked, gate, last, dirty>>

ResultLost(t) ==
  /\ t \in wire
  /\ t.dev \notin linked \cap connected
  /\ wire' = wire \ {t}
  /\ UNCHANGED <<relayVars, linked, tasks, gate, last, dirty>>

LocalStarts(d) ==
  /\ d \in LocalUse
  /\ gate[d] = None
  /\ gate' = [gate EXCEPT ![d] = Local]
  /\ GateChanged(d)
  /\ UNCHANGED <<relayVars, linked, tasks, last, wire>>

LocalEnds(d) ==
  /\ gate[d] = Local
  /\ gate' = [gate EXCEPT ![d] = None]
  /\ GateChanged(d)
  /\ UNCHANGED <<relayVars, linked, tasks, last, wire>>

-----------------------------------------------------------------------------
JobStep(j) == Submit(j) \/ Cancel(j) \/ Poll(j)

DeviceStep(d) ==
  \/ HandleAvailability(d) \/ HandleInventory(d) \/ HandleAuth(d) \/ HandleClose(d)
  \/ NodeDrop(d) \/ LocalStarts(d) \/ LocalEnds(d)

TaskStep(t) ==
  \/ HandleProgress(t) \/ HandleResult(t) \/ IgnoreResult(t)
  \/ TaskStarts(t) \/ TaskEnds(t) \/ TaskAbandoned(t) \/ ResultLost(t)

Next ==
  \/ PlaceNext \/ Resume \/ Hibernate
  \/ \E j \in Job : JobStep(j)
  \/ \E d \in Device : DeviceStep(d)
  \/ \E t \in tasks \cup wire : TaskStep(t)
  \/ \E D \in SUBSET Device : CleanupStale(D)
  \/ Restart

Spec == Init /\ [][Next]_dispatchVars

-----------------------------------------------------------------------------
Dispatched == [job : Job, dev : Device \cup {None}, rest : SUBSET Job, submit : BOOLEAN]

TypeOK ==
  /\ job \in [Job -> JobRecord]
  /\ mem \in SUBSET Job /\ todo \in SUBSET Job
  /\ connected \in SUBSET Device /\ linked \in SUBSET Device /\ dirty \in SUBSET Device
  /\ reserved \in [Device -> Job \cup {None, Local}]
  /\ parked \in SUBSET Dispatched
  /\ tasks \in SUBSET Task /\ wire \in SUBSET Task
  /\ gate \in [Device -> Task \cup {None, Local}]
  /\ last \in [Device -> Job \cup {None, Local}]

(* The lease of a job says where it is: a queued job belongs to nobody and *)
(* may still be retried, one under way carries the lease of its last       *)
(* dispatch, and no job is dispatched more often than the fleet allows.    *)
LeaseDiscipline ==
  \A j \in Job :
    /\ job[j].attempts <= MaxAttempts
    /\ job[j].status = "queued" =>
         /\ job[j].lease = 0 /\ job[j].agent = None
         /\ job[j].attempts < MaxAttempts
         /\ job[j].attempts > 0 => job[j].aware
    /\ job[j].status \in Active =>
         /\ job[j].lease = job[j].attempts
         /\ job[j].agent \in Device

(* Whoever can still make Relay believe something about a job is the       *)
(* device the job was last given to: work of an expired lease, running or  *)
(* already on the wire, is fenced off from the next device's work.         *)
LeaseNamesHolder ==
  \A t \in tasks \cup wire :
    /\ t.lease <= job[t.job].attempts
    /\ HasCurrentLease(t) /\ job[t.job].status \in Active \cup {"queued"}
         => t.dev = job[t.job].agent

Phase(r) ==
  CASE r.status = "new" -> "absent"
    [] r.status = "deleted" -> "refused"
    [] r.status \in Active -> "leased"
    [] OTHER -> r.status

phase == [j \in Job |-> Phase(job[j])]
grants == [j \in Job |-> job[j].attempts]

Work == INSTANCE LeasedWork WITH working <- tasks \cup wire

(* Jobs without an inline image are leased work: whatever is lost,         *)
(* delayed or forgotten, cancelled and complete are final, only the holder *)
(* of the latest lease is believed, and retries end.                       *)
ImplementsLeasedWork == Work!Spec

-----------------------------------------------------------------------------
(* What the repository says of the program and the code does not do.       *)

(* DECISIONS.md, ADR-003: cancellation remains terminal even if a node     *)
(* later reports success or failure.  A job that waits for the R2 upload   *)
(* of its input image when it is cancelled is dispatched afterwards.       *)
CancelFinal ==
  [][\A j \in Job : job[j].status = "cancelled" => job'[j].status = "cancelled"]_job

(* test/fleet.test.ts: 'requeues lease-aware work after disconnect and     *)
(* ignores stale results'.  A job is only looked for in memory, which is   *)
(* empty if the object hibernated since the node last spoke of the job.    *)
DisconnectRequeues ==
  [][\A d \in Device : HandleClose(d) =>
       \A j \in Job : job[j].status \in Active /\ job[j].agent = d /\ Retryable(j)
                        => job'[j].status = "queued"]_dispatchVars
=============================================================================
