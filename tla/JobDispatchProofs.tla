------------------------- MODULE JobDispatchProofs -------------------------
(***************************************************************************)
(* Proofs about JobDispatch, for any jobs, devices and retry limit.  Most  *)
(* are for jobs without an inline input image (InlineInput = {}): with     *)
(* one, LeaseDiscipline and the refinement are false, as run job_cancel    *)
(* shows.  What still holds with inline images comes last.                 *)
(*                                                                         *)
(* The invariant relates the record of a job to the leases that are still  *)
(* at work.  It says of each record what its status means for its lease    *)
(* (JobOK), of each task or result how old its lease may be and whose the  *)
(* newest is (TaskOK), and of the placement loop that what it holds is     *)
(* still queued (nothing else runs while it is busy).                      *)
(***************************************************************************)
EXTENDS JobDispatch, TLAPS

JobOK(r) ==
  /\ r.attempts <= MaxAttempts
  /\ r.status \in {"new", "deleted"} => r.attempts = 0 /\ r.lease = 0 /\ r.agent = None
  /\ r.status = "queued" =>
       /\ r.lease = 0 /\ r.agent = None
       /\ r.attempts < MaxAttempts
       /\ r.attempts > 0 => r.aware
  /\ r.status \in Active \cup {"complete", "failed"} =>
       /\ r.lease = r.attempts
       /\ r.agent \in Device

(* A device that does not know leases is given a job last: what it sends   *)
(* is never older than the job's newest lease.                             *)
TaskOK(t, r) ==
  /\ t.lease <= r.attempts
  /\ t.lease = r.lease => t.dev = r.agent
  /\ t.dev \notin LeaseAware =>
       /\ t.lease = r.attempts /\ ~r.aware
       /\ r.status \notin {"new", "queued", "deleted"}

Core ==
  /\ parked = {}
  /\ \A j \in todo : job[j].status = "queued"
  /\ \A j \in Job : JobOK(job[j])
  /\ \A t \in tasks \cup wire : TaskOK(t, job[t.job])

DispatchInv == TypeOK /\ Core

-----------------------------------------------------------------------------
(* Steps that leave the job records alone and start no work.               *)
LEMMA CoreKept ==
  ASSUME Core, job' = job, parked' = {},
         \A j \in todo' : job[j].status = "queued",
         tasks' \cup wire' \subseteq tasks \cup wire
  PROVE  Core'
BY DEF Core

(* A node says of its gate which job, or who else, has it.                 *)
LEMMA OwnerIsTyped ==
  ASSUME TypeOK
  PROVE  \A d \in Device : Owner(d) \in Job \cup {None, Local}
BY DEF TypeOK, Owner, Task

(* A job that was never dispatched has no lease at work.                   *)
LEMMA NoLeaseYet ==
  ASSUME TypeOK, Core, NEW j \in Job, job[j].attempts = 0,
         NEW t \in tasks \cup wire
  PROVE  t.job # j
<1>1. t \in Task /\ t.lease <= job[t.job].attempts
  BY DEF TypeOK, Core, TaskOK
<1>. QED BY <1>1 DEF Task, Lease

(* One job changes its status, to one it may have with the lease it has.   *)
LEMMA StatusChange ==
  ASSUME TypeOK, Core, NEW j \in Job, NEW s \in Status, SetStatus(j, s),
         JobOK(WithStatus(job[j], s)),
         s \in {"new", "queued", "deleted"} => job[j].attempts = 0,
         parked' = {},
         \A k \in todo' : job'[k].status = "queued",
         tasks' \cup wire' \subseteq tasks \cup wire
  PROVE  Core' /\ job' \in [Job -> JobRecord]
<1>1. WithStatus(job[j], s) \in JobRecord
  BY DEF TypeOK, WithStatus, JobRecord
<1>2. job' = [job EXCEPT ![j] = WithStatus(job[j], s)] /\ job \in [Job -> JobRecord]
  BY DEF SetStatus, TypeOK
<1>3. job' \in [Job -> JobRecord]
  BY <1>1, <1>2
<1>4. \A k \in Job : JobOK(job'[k])
  BY <1>2 DEF Core
<1>5. ASSUME NEW t \in tasks' \cup wire' PROVE TaskOK(t, job'[t.job])
  <2>1. t \in tasks \cup wire /\ t.job \in Job /\ TaskOK(t, job[t.job])
    BY <1>5 DEF TypeOK, Task, Core
  <2>2. CASE t.job # j
    BY <2>1, <2>2, <1>2
  <2>3. CASE t.job = j
    <3>1. s \notin {"new", "queued", "deleted"}
      BY <2>1, <2>3, NoLeaseYet
    <3>2. job'[t.job] = WithStatus(job[j], s)
      BY <1>2, <2>3
    <3>. QED BY <2>1, <2>3, <3>1, <3>2 DEF TaskOK, WithStatus
  <2>. QED BY <2>2, <2>3
<1>. QED BY <1>3, <1>4, <1>5 DEF Core

(* A dispatch of a queued or new job: the new lease is newer than all.     *)
LEMMA DispatchStep ==
  ASSUME TypeOK, Core, NEW j \in Job, NEW d \in Device,
         job[j].status \in {"new", "queued"}, Dispatch(j, d),
         parked' = {}, wire' = wire,
         \A k \in todo' : k # j /\ job[k].status = "queued", todo' \subseteq Job
  PROVE  Core' /\ job' \in [Job -> JobRecord] /\ tasks' \in SUBSET Task
<1> DEFINE n == job[j].attempts + 1
           r == [status |-> "assigned", agent |-> d, lease |-> n,
                 aware |-> d \in LeaseAware, attempts |-> n]
           u == [dev |-> d, job |-> j, lease |-> n]
<1>1. job' = [job EXCEPT ![j] = r] /\ job \in [Job -> JobRecord]
  BY DEF Dispatch, TypeOK
<1>2. /\ job[j] \in JobRecord /\ JobOK(job[j])
      /\ DispatchCap \in Nat /\ MaxAttempts \in Nat \ {0}
      /\ job[j].attempts < DispatchCap
  BY DispatchConstants DEF DispatchConstants, Dispatch, TypeOK, Core
<1>3. n \in 1 .. DispatchCap /\ n <= MaxAttempts
  BY <1>2 DEF JobRecord, JobOK
<1>4. r \in JobRecord
  BY <1>3 DEF JobRecord, Status, Active
<1>5. u \in Task
  BY <1>3 DEF Task, Lease
<1>6. job' \in [Job -> JobRecord] /\ tasks' \in SUBSET Task
  BY <1>1, <1>4, <1>5 DEF Dispatch, Deliver, TypeOK
<1>7. tasks' \cup wire' \subseteq tasks \cup wire \cup {u}
  BY DEF Dispatch, Deliver
<1>8. JobOK(r)
  BY <1>3 DEF JobOK, Active
<1>9. \A k \in Job : JobOK(job'[k])
  BY <1>1, <1>8 DEF Core
<1>10. ASSUME NEW t \in tasks' \cup wire' PROVE TaskOK(t, job'[t.job])
  <2>1. CASE t = u
    <3>1. job'[t.job] = r
      BY <2>1, <1>1
    <3>2. t.lease = n /\ t.dev = d
      BY <2>1
    <3>3. r.lease = n /\ r.attempts = n /\ r.agent = d /\ r.status = "assigned"
      OBVIOUS
    <3>4. r.aware = (d \in LeaseAware)
      BY Zenon
    <3>5. n <= n
      BY <1>3
    <3>. QED BY <3>1, <3>2, <3>3, <3>4, <3>5, Zenon DEF TaskOK
  <2>2. CASE t \in tasks \cup wire
    <3>1. t \in Task /\ TaskOK(t, job[t.job])
      BY <2>2 DEF TypeOK, Core
    <3>2. CASE t.job # j
      BY <3>1, <3>2, <1>1 DEF Task
    <3>3. CASE t.job = j
      <4>1. job'[t.job] = r
        BY <3>3, <1>1
      <4>2. t.lease < n /\ t.lease \in Nat
        BY <3>1, <3>3, <1>2 DEF TaskOK, Task, Lease, JobRecord
      <4>3. t.dev \in LeaseAware
        BY <3>1, <3>3 DEF TaskOK
      <4>. QED BY <4>1, <4>2, <4>3, <1>3 DEF TaskOK
    <3>. QED BY <3>2, <3>3
  <2>. QED BY <2>1, <2>2, <1>7
<1>11. \A k \in todo' : job'[k].status = "queued"
  BY <1>1
<1>. QED BY <1>6, <1>9, <1>10, <1>11 DEF Core

(* The loss of devices: a job that may be retried gives its lease back.    *)
LEMMA LossStep ==
  ASSUME TypeOK, Core, NEW D, FailWork(D), parked' = {},
         \A k \in todo' : job'[k].status = "queued",
         tasks' \cup wire' \subseteq tasks \cup wire
  PROVE  Core' /\ job' \in [Job -> JobRecord] /\ mem' \in SUBSET Job
<1>1. job' = AfterLoss(D) /\ mem' \subseteq mem
  BY DEF FailWork
<1>2. Lost(D) \subseteq Job
  BY DEF Lost, TypeOK
<1>3. ASSUME NEW j \in Job
      PROVE  /\ job'[j] \in JobRecord /\ JobOK(job'[j])
             /\ \A t \in Task : TaskOK(t, job[j]) => TaskOK(t, job'[j])
  <2>1. job[j] \in JobRecord /\ JobOK(job[j])
    BY DEF TypeOK, Core
  <2>2. CASE j \notin Lost(D)
    <3>1. job'[j] = job[j]
      BY <1>1, <2>2 DEF AfterLoss
    <3>. QED BY <2>1, <3>1
  <2>3. CASE j \in Lost(D) /\ Retryable(j)
    <3> DEFINE r == [status |-> "queued", agent |-> None, lease |-> 0,
                     aware |-> job[j].aware, attempts |-> job[j].attempts]
    <3>1. job'[j] = r
      BY <1>1, <2>3 DEF AfterLoss
    <3>2. r \in JobRecord
      BY <2>1, DispatchConstants DEF JobRecord, Status, DispatchConstants
    <3>3. job[j].aware /\ job[j].attempts < MaxAttempts
      BY <2>3 DEF Retryable
    <3>4. /\ r.status = "queued" /\ r.agent = None /\ r.lease = 0
          /\ r.aware = job[j].aware /\ r.attempts = job[j].attempts
      OBVIOUS
    <3>5. JobOK(r)
      BY <2>1, <3>3, <3>4 DEF JobOK, Active
    <3>6. \A t \in Task : TaskOK(t, job[j]) => TaskOK(t, r)
      BY <3>3, <3>4 DEF TaskOK, Task, Lease
    <3>. QED BY <3>1, <3>2, <3>5, <3>6
  <2>4. CASE j \in Lost(D) /\ ~Retryable(j)
    <3>1. job'[j] = WithStatus(job[j], "failed")
      BY <1>1, <2>4 DEF AfterLoss
    <3>2. WithStatus(job[j], "failed") \in JobRecord
      BY <2>1 DEF WithStatus, JobRecord, Status
    <3>3. job[j].status \in Active
      BY <2>4 DEF Lost
    <3>4. JobOK(WithStatus(job[j], "failed"))
      BY <2>1, <3>3 DEF JobOK, WithStatus
    <3>5. \A t \in Task : TaskOK(t, job[j]) => TaskOK(t, WithStatus(job[j], "failed"))
      BY DEF TaskOK, WithStatus
    <3>. QED BY <3>1, <3>2, <3>4, <3>5
  <2>. QED BY <2>2, <2>3, <2>4
<1>4. job' \in [Job -> JobRecord]
  BY <1>1, <1>3 DEF AfterLoss
<1>5. \A t \in tasks' \cup wire' : TaskOK(t, job'[t.job])
  BY <1>3 DEF Core, TypeOK, Task
<1>6. mem' \in SUBSET Job
  BY <1>1 DEF TypeOK
<1>. QED BY <1>3, <1>4, <1>5, <1>6 DEF Core

-----------------------------------------------------------------------------
(* Every action keeps the invariant.                                       *)
LEMMA PlaceNextKeeps ==
  ASSUME InlineInput = {}, DispatchInv, PlaceNext
  PROVE  DispatchInv'
<1>. USE DEF DispatchInv
<1>1. PICK j \in todo :
        /\ \/ /\ todo' = todo \ {j}
              /\ UNCHANGED <<job, mem, reserved, parked, tasks>>
           \/ /\ j \in mem
              /\ \E d \in Candidates(j) : Dispatch(j, d)
              /\ todo' = todo \ {j}
              /\ UNCHANGED parked
        /\ UNCHANGED <<connected, linked, gate, last, dirty, wire>>
  BY DEF PlaceNext
<1>2. CASE UNCHANGED <<job, mem, reserved, parked, tasks>> /\ todo' = todo \ {j}
  <2>1. TypeOK'
    BY <1>1, <1>2 DEF TypeOK
  <2>2. Core'
    BY <1>1, <1>2, CoreKept DEF Core
  <2>. QED BY <2>1, <2>2
<1>3. ASSUME NEW d \in Candidates(j), Dispatch(j, d), todo' = todo \ {j},
             UNCHANGED parked
      PROVE  DispatchInv'
  <2>1. j \in Job /\ d \in Device /\ job[j].status = "queued"
    BY <1>3, DispatchConstants DEF TypeOK, Core, Candidates, DispatchConstants
  <2>2. Core' /\ job' \in [Job -> JobRecord] /\ tasks' \in SUBSET Task
    BY <1>1, <1>3, <2>1, DispatchStep DEF Core, TypeOK
  <2>3. mem' = mem \cup {j} /\ reserved' = [reserved EXCEPT ![d] = j]
    BY <1>3 DEF Dispatch
  <2>4. TypeOK'
    BY <1>1, <1>3, <2>1, <2>2, <2>3 DEF TypeOK
  <2>. QED BY <2>2, <2>4
<1>. QED BY <1>1, <1>2, <1>3

LEMMA SubmitKeeps ==
  ASSUME InlineInput = {}, DispatchInv, NEW j \in Job, Submit(j)
  PROVE  DispatchInv'
<1>. USE DEF DispatchInv
<1>1. /\ todo = {} /\ todo' = {} /\ parked = {} /\ job[j].status = "new"
      /\ UNCHANGED <<connected, linked, gate, last, dirty, wire>>
  BY DEF Submit, Quiet, Core
<1>2. ASSUME NEW d \in Candidates(j), Dispatch(j, d), UNCHANGED parked
      PROVE  DispatchInv'
  <2>1. d \in Device
    BY <1>2, DispatchConstants DEF Candidates, DispatchConstants
  <2>2. Core' /\ job' \in [Job -> JobRecord] /\ tasks' \in SUBSET Task
    BY <1>1, <1>2, <2>1, DispatchStep
  <2>3. mem' = mem \cup {j} /\ reserved' = [reserved EXCEPT ![d] = j]
    BY <1>2 DEF Dispatch
  <2>4. TypeOK'
    BY <1>1, <1>2, <2>1, <2>2, <2>3 DEF TypeOK
  <2>. QED BY <2>2, <2>4
<1>3. ASSUME NEW s \in {"deleted", "queued"}, SetStatus(j, s),
             mem' \in {mem, mem \cup {j}}, UNCHANGED <<reserved, parked, tasks>>
      PROVE  DispatchInv'
  <2>1. JobOK(job[j]) /\ job[j] \in JobRecord
    BY DEF Core, TypeOK
  <2>2. JobOK(WithStatus(job[j], s)) /\ job[j].attempts = 0 /\ s \in Status
    BY <1>1, <1>3, <2>1, DispatchConstants
    DEF JobOK, WithStatus, Status, Active, DispatchConstants
  <2>3. Core' /\ job' \in [Job -> JobRecord]
    BY <1>1, <1>3, <2>2, StatusChange
  <2>4. TypeOK'
    BY <1>1, <1>3, <2>3 DEF TypeOK
  <2>. QED BY <2>3, <2>4
<1>. QED
  <2>1. CASE \E d \in Candidates(j) : Dispatch(j, d) /\ UNCHANGED parked
    BY <2>1, <1>2
  <2>2. CASE ~\E d \in Candidates(j) : Dispatch(j, d) /\ UNCHANGED parked
    BY <2>2, <1>3 DEF Submit
  <2>. QED BY <2>1, <2>2

LEMMA CancelKeeps ==
  ASSUME InlineInput = {}, DispatchInv, NEW j \in Job, Cancel(j)
  PROVE  DispatchInv'
<1>. USE DEF DispatchInv
<1>1. /\ SetStatus(j, "cancelled") /\ mem' = mem \ {j} /\ Release(job[j].agent)
      /\ AssignQueued /\ UNCHANGED <<connected, parked, nodeVars>>
  BY DEF Cancel
<1>2. mem' \subseteq Job /\ todo' \subseteq Job /\ \A k \in todo' : job'[k].status = "queued"
  BY <1>1 DEF AssignQueued, TypeOK
<1>3. reserved' \in [Device -> Job \cup {None, Local}]
  BY <1>1 DEF Release, TypeOK
<1>4. JobOK(WithStatus(job[j], "cancelled")) /\ "cancelled" \in Status
  BY DEF Core, JobOK, WithStatus, Status, Active
<1>5. Core' /\ job' \in [Job -> JobRecord]
  BY <1>1, <1>2, <1>4, StatusChange DEF Core, nodeVars
<1>6. TypeOK'
  BY <1>1, <1>2, <1>3, <1>5 DEF TypeOK, nodeVars
<1>. QED BY <1>5, <1>6

(* Progress and results are believed only from a task whose job is not     *)
(* waiting in the queue, so the lease they were sent under stays in place. *)
LEMMA BelievedTask ==
  ASSUME TypeOK, Core, NEW t \in tasks \cup wire, HasCurrentLease(t),
         job[t.job].status \notin {"new", "deleted", "cancelled"}
  PROVE  /\ t \in Task
         /\ job[t.job].status \in Active \cup {"complete", "failed"}
         /\ t.lease = job[t.job].lease
<1>1. /\ t \in Task /\ t.job \in Job /\ t.lease \in Nat \ {0}
      /\ TaskOK(t, job[t.job]) /\ JobOK(job[t.job]) /\ job[t.job] \in JobRecord
  <2>1. t \in Task
    BY DEF TypeOK
  <2>2. t.job \in Job /\ t.lease \in Nat \ {0}
    BY <2>1, DispatchConstants DEF Task, Lease, DispatchConstants
  <2>3. TaskOK(t, job[t.job])
    BY DEF Core
  <2>4. JobOK(job[t.job]) /\ job[t.job] \in JobRecord
    BY <2>2 DEF TypeOK, Core
  <2>. QED BY <2>1, <2>2, <2>3, <2>4
<1>2. job[t.job].status # "queued"
  <2>1. CASE t.dev \in LeaseAware
    BY <1>1, <2>1 DEF JobOK, HasCurrentLease
  <2>2. CASE t.dev \notin LeaseAware
    BY <1>1, <2>2 DEF TaskOK
  <2>. QED BY <2>1, <2>2
<1>3. job[t.job].status \in Active \cup {"complete", "failed"}
  BY <1>1, <1>2 DEF JobRecord, Status
<1>4. t.lease = job[t.job].lease
  <2>1. CASE t.dev \in LeaseAware
    BY <2>1 DEF HasCurrentLease
  <2>2. CASE t.dev \notin LeaseAware
    BY <1>1, <1>3, <2>2 DEF TaskOK, JobOK
  <2>. QED BY <2>1, <2>2
<1>. QED BY <1>1, <1>3, <1>4

LEMMA HandleProgressKeeps ==
  ASSUME InlineInput = {}, DispatchInv, NEW t \in tasks \cup wire, HandleProgress(t)
  PROVE  DispatchInv'
<1>. USE DEF DispatchInv
<1>1. /\ SetStatus(t.job, "generating") /\ mem' = mem \cup {t.job} /\ todo = {}
      /\ UNCHANGED <<connected, reserved, todo, parked, nodeVars>>
  BY DEF HandleProgress, Quiet
<1>2. t \in Task /\ t.job \in Job
      /\ job[t.job].status \in Active \cup {"complete", "failed"}
  BY BelievedTask DEF HandleProgress, Task
<1>3. JobOK(WithStatus(job[t.job], "generating")) /\ "generating" \in Status
  BY <1>2 DEF Core, JobOK, WithStatus, Status, Active
<1>4. Core' /\ job' \in [Job -> JobRecord]
  BY <1>1, <1>2, <1>3, StatusChange DEF Core, nodeVars
<1>5. TypeOK'
  BY <1>1, <1>2, <1>4 DEF TypeOK, nodeVars
<1>. QED BY <1>4, <1>5

LEMMA HandleResultKeeps ==
  ASSUME InlineInput = {}, DispatchInv, NEW t \in wire, HandleResult(t)
  PROVE  DispatchInv'
<1>. USE DEF DispatchInv
<1>1. PICK s \in {"complete", "failed"} : SetStatus(t.job, s)
  BY DEF HandleResult
<1>2. /\ wire' = wire \ {t} /\ mem' = mem \ {t.job} /\ Release(job[t.job].agent)
      /\ AssignQueued /\ UNCHANGED <<connected, parked, linked, tasks, gate, last, dirty>>
  BY DEF HandleResult
<1>3. t \in Task /\ t.job \in Job
      /\ job[t.job].status \in Active \cup {"complete", "failed"}
  BY BelievedTask DEF HandleResult, Task
<1>4. JobOK(WithStatus(job[t.job], s)) /\ s \in Status
  BY <1>3 DEF Core, JobOK, WithStatus, Status, Active
<1>5. mem' \subseteq Job /\ todo' \subseteq Job /\ \A k \in todo' : job'[k].status = "queued"
  BY <1>2 DEF AssignQueued, TypeOK
<1>6. reserved' \in [Device -> Job \cup {None, Local}]
  BY <1>2 DEF Release, TypeOK
<1>7. Core' /\ job' \in [Job -> JobRecord]
  BY <1>1, <1>2, <1>3, <1>4, <1>5, StatusChange DEF Core
<1>8. TypeOK'
  BY <1>2, <1>5, <1>6, <1>7 DEF TypeOK
<1>. QED BY <1>7, <1>8

LEMMA LossKeeps ==
  ASSUME InlineInput = {}, DispatchInv, NEW D \in SUBSET Device, FailWork(D),
         connected' \in SUBSET Device, linked' \in SUBSET Device,
         reserved' \in [Device -> Job \cup {None, Local}],
         AssignQueued \/ todo' = {}, parked' = {}, wire' \subseteq wire,
         UNCHANGED <<tasks, gate, last, dirty>>
  PROVE  DispatchInv'
<1>. USE DEF DispatchInv
<1>1. \A k \in todo' : job'[k].status = "queued"
  BY DEF AssignQueued
<1>2. Core' /\ job' \in [Job -> JobRecord] /\ mem' \in SUBSET Job
  BY <1>1, LossStep
<1>3. todo' \in SUBSET Job
  BY <1>2 DEF AssignQueued
<1>4. TypeOK'
  BY <1>2, <1>3 DEF TypeOK
<1>. QED BY <1>2, <1>4

LEMMA HandleAuthKeeps ==
  ASSUME InlineInput = {}, DispatchInv, NEW d \in Device, HandleAuth(d)
  PROVE  DispatchInv'
<1>1. /\ FailWork({d} \cap connected) /\ linked' = linked \cup {d}
      /\ connected' = connected \cup {d} /\ reserved' = [reserved EXCEPT ![d] = Owner(d)]
      /\ wire' \subseteq wire /\ UNCHANGED <<tasks, gate, last, dirty>>
  BY DEF HandleAuth
<1>2. AssignQueued \/ todo' = {}
  BY DEF HandleAuth, Quiet
<1>3. parked' = {}
  BY DEF HandleAuth, SocketsGone, DispatchInv, Core
<1>4. reserved' \in [Device -> Job \cup {None, Local}] /\ connected' \in SUBSET Device
      /\ linked' \in SUBSET Device
  BY <1>1, OwnerIsTyped DEF DispatchInv, TypeOK
<1>. QED BY <1>1, <1>2, <1>3, <1>4, LossKeeps

LEMMA HandleCloseKeeps ==
  ASSUME InlineInput = {}, DispatchInv, NEW d \in Device, HandleClose(d)
  PROVE  DispatchInv'
<1>1. /\ FailWork({d}) /\ connected' = connected \ {d} /\ AssignQueued
      /\ reserved' = [reserved EXCEPT ![d] = None]
      /\ UNCHANGED <<linked, tasks, gate, last, dirty, wire>>
  BY DEF HandleClose, nodeVars
<1>2. parked' = {}
  BY DEF HandleClose, SocketsGone, DispatchInv, Core
<1>3. reserved' \in [Device -> Job \cup {None, Local}] /\ connected' \in SUBSET Device
      /\ linked' \in SUBSET Device
  BY <1>1 DEF DispatchInv, TypeOK
<1>. QED BY <1>1, <1>2, <1>3, LossKeeps

LEMMA CleanupStaleKeeps ==
  ASSUME InlineInput = {}, DispatchInv, NEW D \in SUBSET Device, CleanupStale(D)
  PROVE  DispatchInv'
<1>1. /\ FailWork(D) /\ AssignQueued
      /\ reserved' = [d \in Device |-> IF d \in D THEN None ELSE reserved[d]]
      /\ UNCHANGED <<connected, parked, linked, tasks, gate, last, dirty, wire>>
  BY DEF CleanupStale, nodeVars
<1>2. parked' = {}
  BY <1>1 DEF DispatchInv, Core
<1>3. reserved' \in [Device -> Job \cup {None, Local}] /\ connected' \in SUBSET Device
      /\ linked' \in SUBSET Device
  BY <1>1 DEF DispatchInv, TypeOK
<1>. QED BY <1>1, <1>2, <1>3, LossKeeps

(* The other handlers, and the nodes, write no job record.                 *)
LEMMA RelayKeeps ==
  ASSUME InlineInput = {}, DispatchInv,
         \/ \E j \in Job : Poll(j)
         \/ \E t \in wire : IgnoreResult(t)
         \/ \E d \in Device : HandleAvailability(d)
         \/ \E d \in Device : HandleInventory(d)
         \/ Hibernate
         \/ Restart
  PROVE  DispatchInv'
<1>. USE DEF DispatchInv
<1>1. ASSUME NEW j \in Job, Poll(j) PROVE DispatchInv'
  <2>1. TypeOK'
    BY <1>1 DEF Poll, TypeOK, nodeVars
  <2>2. Core'
    BY <1>1, CoreKept DEF Poll, Core, nodeVars
  <2>. QED BY <2>1, <2>2
<1>2. ASSUME NEW t \in wire, IgnoreResult(t) PROVE DispatchInv'
  <2>1. TypeOK'
    BY <1>2 DEF IgnoreResult, TypeOK, relayVars
  <2>2. Core'
    BY <1>2, CoreKept DEF IgnoreResult, Core, relayVars
  <2>. QED BY <2>1, <2>2
<1>3. ASSUME NEW d \in Device, HandleAvailability(d) PROVE DispatchInv'
  <2> DEFINE id == IF gate[d] # None THEN Owner(d) ELSE last[d]
  <2>1. /\ UNCHANGED <<job, mem, connected, parked, linked, tasks, gate, wire>>
        /\ dirty' = dirty \ {d} /\ last' = [last EXCEPT ![d] = id]
        /\ \/ UNCHANGED <<reserved, todo>>
           \/ reserved' = [reserved EXCEPT ![d] = id] /\ todo' = todo
           \/ /\ reserved' = [reserved EXCEPT ![d] = None]
              /\ todo' = {j \in mem : job[j].status = "queued"}
    BY <1>3 DEF HandleAvailability
  <2>2. id \in Job \cup {None, Local}
    BY OwnerIsTyped DEF TypeOK
  <2>3. TypeOK'
    BY <2>1, <2>2 DEF TypeOK
  <2>4. Core'
    BY <2>1, CoreKept DEF Core
  <2>. QED BY <2>3, <2>4
<1>4. ASSUME NEW d \in Device, HandleInventory(d) PROVE DispatchInv'
  <2>1. TypeOK'
    BY <1>4 DEF HandleInventory, AssignQueued, TypeOK, nodeVars
  <2>2. Core'
    BY <1>4, CoreKept DEF HandleInventory, AssignQueued, Core, nodeVars
  <2>. QED BY <2>1, <2>2
<1>5. ASSUME Hibernate PROVE DispatchInv'
  <2>1. TypeOK'
    BY <1>5 DEF Hibernate, TypeOK, nodeVars
  <2>2. Core'
    BY <1>5, CoreKept DEF Hibernate, Core, nodeVars
  <2>. QED BY <2>1, <2>2
<1>6. ASSUME Restart PROVE DispatchInv'
  <2>1. TypeOK'
    BY <1>6 DEF Restart, TypeOK, nodeVars
  <2>2. Core'
    BY <1>6, CoreKept DEF Restart, Core, nodeVars
  <2>. QED BY <2>1, <2>2
<1>. QED BY <1>1, <1>2, <1>3, <1>4, <1>5, <1>6

LEMMA NodeKeeps ==
  ASSUME InlineInput = {}, DispatchInv,
         \/ \E d \in Device : NodeDrop(d) \/ LocalStarts(d) \/ LocalEnds(d)
         \/ \E t \in tasks : TaskStarts(t) \/ TaskEnds(t) \/ TaskAbandoned(t)
         \/ \E t \in wire : ResultLost(t)
  PROVE  DispatchInv'
<1>. USE DEF DispatchInv
<1>1. UNCHANGED relayVars
  BY DEF NodeDrop, LocalStarts, LocalEnds, TaskStarts, TaskEnds, TaskAbandoned, ResultLost
<1>2. tasks' \cup wire' \subseteq tasks \cup wire
  BY DEF NodeDrop, LocalStarts, LocalEnds, TaskStarts, TaskEnds, TaskAbandoned, ResultLost
<1>3. Core'
  BY <1>1, <1>2, CoreKept DEF Core, relayVars
<1>4. linked' \in SUBSET Device /\ dirty' \in SUBSET Device
      /\ tasks' \in SUBSET Task /\ wire' \in SUBSET Task
  BY DEF NodeDrop, LocalStarts, LocalEnds, TaskStarts, TaskEnds, TaskAbandoned, ResultLost,
         GateChanged, TypeOK
<1>5. gate' \in [Device -> Task \cup {None, Local}]
  BY DEF NodeDrop, LocalStarts, LocalEnds, TaskStarts, TaskEnds, TaskAbandoned, ResultLost,
         TypeOK
<1>6. last' \in [Device -> Job \cup {None, Local}]
  BY DEF NodeDrop, LocalStarts, LocalEnds, TaskStarts, TaskEnds, TaskAbandoned, ResultLost,
         TypeOK
<1>7. TypeOK'
  BY <1>1, <1>4, <1>5, <1>6 DEF TypeOK, relayVars
<1>. QED BY <1>3, <1>7

LEMMA ResumeNever ==
  ASSUME DispatchInv PROVE ~Resume
BY DEF Resume, DispatchInv, Core

-----------------------------------------------------------------------------
LEMMA InitDispatchInv ==
  ASSUME Init PROVE DispatchInv
<1>1. Blank \in JobRecord /\ JobOK(Blank)
  BY DispatchConstants DEF Blank, JobRecord, JobOK, Status, Active, DispatchConstants
<1>2. TypeOK
  BY <1>1 DEF Init, TypeOK
<1>3. Core
  BY <1>1 DEF Init, Core
<1>. QED BY <1>2, <1>3 DEF DispatchInv

LEMMA StepDispatchInv ==
  ASSUME InlineInput = {}, DispatchInv, [Next]_dispatchVars
  PROVE  DispatchInv'
<1>1. CASE UNCHANGED dispatchVars
  <2>1. TypeOK'
    BY <1>1 DEF DispatchInv, TypeOK, dispatchVars, relayVars, nodeVars
  <2>2. Core'
    BY <1>1, CoreKept DEF DispatchInv, Core, dispatchVars, relayVars, nodeVars
  <2>. QED BY <2>1, <2>2 DEF DispatchInv
<1>2. CASE PlaceNext \/ Resume \/ Hibernate \/ Restart
  BY <1>2, PlaceNextKeeps, ResumeNever, RelayKeeps
<1>3. CASE \E j \in Job : JobStep(j)
  BY <1>3, SubmitKeeps, CancelKeeps, RelayKeeps DEF JobStep
<1>4. CASE \E d \in Device : DeviceStep(d)
  BY <1>4, HandleAuthKeeps, HandleCloseKeeps, RelayKeeps, NodeKeeps DEF DeviceStep
<1>5. CASE \E t \in tasks \cup wire : TaskStep(t)
  <2>1. PICK t : TaskStep(t)
    BY <1>5
  <2>2. t \in tasks \/ t \in wire
    BY <2>1 DEF TaskStep, HandleProgress, HandleResult, IgnoreResult, TaskStarts, TaskEnds,
                TaskAbandoned, ResultLost
  <2>3. CASE HandleProgress(t)
    BY <2>3, HandleProgressKeeps DEF HandleProgress
  <2>4. CASE HandleResult(t)
    BY <2>4, HandleResultKeeps DEF HandleResult
  <2>5. CASE IgnoreResult(t)
    BY <2>5, RelayKeeps DEF IgnoreResult
  <2>6. CASE TaskStarts(t) \/ TaskEnds(t) \/ TaskAbandoned(t)
    BY <2>6, NodeKeeps DEF TaskStarts, TaskEnds, TaskAbandoned
  <2>7. CASE ResultLost(t)
    BY <2>7, NodeKeeps DEF ResultLost
  <2>. QED BY <2>1, <2>3, <2>4, <2>5, <2>6, <2>7 DEF TaskStep
<1>6. CASE \E D \in SUBSET Device : CleanupStale(D)
  BY <1>6, CleanupStaleKeeps
<1>. QED BY <1>1, <1>2, <1>3, <1>4, <1>5, <1>6 DEF Next

LEMMA DispatchInvImplies ==
  ASSUME DispatchInv
  PROVE  TypeOK /\ LeaseDiscipline /\ LeaseNamesHolder
<1>1. LeaseDiscipline
  BY DEF DispatchInv, Core, JobOK, LeaseDiscipline
<1>2. ASSUME NEW t \in tasks \cup wire
      PROVE  /\ t.lease <= job[t.job].attempts
             /\ HasCurrentLease(t) /\ job[t.job].status \in Active \cup {"queued"}
                  => t.dev = job[t.job].agent
  <2>1. TypeOK /\ Core /\ TaskOK(t, job[t.job])
    BY DEF DispatchInv, Core
  <2>2. t.lease <= job[t.job].attempts
    BY <2>1 DEF TaskOK
  <2>3. ASSUME HasCurrentLease(t), job[t.job].status \in Active \cup {"queued"}
        PROVE  t.dev = job[t.job].agent
    <3>1. t.lease = job[t.job].lease
      BY <2>1, <2>3, BelievedTask DEF Active
    <3>. QED BY <2>1, <3>1 DEF TaskOK
  <2>. QED BY <2>2, <2>3
<1>. QED BY <1>1, <1>2 DEF DispatchInv, LeaseNamesHolder

(* Relay's record of a job and the leases at work agree, for any number of *)
(* jobs and devices and any retry limit: a queued job has no lease and a   *)
(* retry left, work under way carries its last lease, dispatches stay      *)
(* within the limit, and only the device a job was last given to is        *)
(* believed.                                                               *)
THEOREM DispatchSafety ==
  ASSUME InlineInput = {}
  PROVE  Spec => [](TypeOK /\ LeaseDiscipline /\ LeaseNamesHolder)
<1>1. Init => DispatchInv
  BY InitDispatchInv
<1>2. DispatchInv /\ [Next]_dispatchVars => DispatchInv'
  BY StepDispatchInv
<1>3. DispatchInv => TypeOK /\ LeaseDiscipline /\ LeaseNamesHolder
  BY DispatchInvImplies
<1>. QED BY <1>1, <1>2, <1>3, PTL DEF Spec

-----------------------------------------------------------------------------
(***************************************************************************)
(* JobDispatch implements LeasedWork, for any jobs, devices and retry      *)
(* limit, and for jobs without an inline input image (InlineInput = {}).   *)
(*                                                                         *)
(* Every step maps to a step of LeasedWork or to a stutter, given          *)
(* DispatchInv and one fact more: a worker is gone once its result made    *)
(* the job complete (Believable), so that no message of the latest lease   *)
(* can reopen it.                                                          *)
(***************************************************************************)

Believable ==
  /\ tasks \cap wire = {}
  /\ \A t \in tasks \cup wire :
       job[t.job].status = "complete" => t.lease # job[t.job].lease

RefinementInv == DispatchInv /\ Believable

Step == [Work!Next]_(Work!workVars)

-----------------------------------------------------------------------------
(* What the mapping makes of one job's record.                             *)
LEMMA PhaseType ==
  ASSUME NEW r \in JobRecord
  PROVE  Phase(r) \in Work!Phases
BY DEF Phase, Work!Phases, JobRecord, Status, Active

LEMMA Mapping ==
  ASSUME TypeOK, NEW j \in Job, job' = [job EXCEPT ![j] = job'[j]]
  PROVE  /\ phase' = [phase EXCEPT ![j] = Phase(job'[j])]
         /\ grants' = [grants EXCEPT ![j] = job'[j].attempts]
         /\ phase[j] = Phase(job[j]) /\ grants[j] = job[j].attempts
BY DEF phase, grants, TypeOK

(* A step that writes no record and starts no work is a Fade.              *)
LEMMA FadeStep ==
  ASSUME Believable, job' = job, tasks' \cup wire' \subseteq tasks \cup wire,
         tasks' \cap wire' = {}
  PROVE  Believable' /\ Step
<1>1. Believable'
  BY DEF Believable
<1>2. Work!Fade
  BY DEF Work!Fade, phase, grants
<1>. QED BY <1>1, <1>2 DEF Step, Work!Next

(* A dispatch is a grant, whether the message arrives or not.              *)
LEMMA GrantStep ==
  ASSUME TypeOK, Core, Believable, NEW j \in Job, NEW d \in Device,
         job[j].status \in {"new", "queued"}, Dispatch(j, d), wire' = wire
  PROVE  Believable' /\ Step
<1> DEFINE n == job[j].attempts + 1
           u == [dev |-> d, job |-> j, lease |-> n]
<1>1. job' = [job EXCEPT ![j] = job'[j]] /\ job'[j].status = "assigned"
      /\ job'[j].attempts = n /\ job'[j].lease = n
  BY DEF Dispatch, TypeOK
<1>2. /\ job[j] \in JobRecord /\ JobOK(job[j]) /\ job[j].attempts \in Nat
      /\ MaxAttempts \in Nat \ {0}
  BY DispatchConstants DEF DispatchConstants, TypeOK, Core, JobRecord
<1>3. job[j].attempts < MaxAttempts
  BY <1>2 DEF JobOK
<1>4. tasks' \in {tasks, tasks \cup {u}}
  BY DEF Dispatch, Deliver
<1>5. ASSUME NEW t \in wire PROVE t # u
  <2>1. t.lease <= job[t.job].attempts
    BY DEF Core, TaskOK
  <2>. QED BY <2>1, <1>2
<1>6. Believable'
  <2>1. tasks' \cap wire' = {}
    BY <1>4, <1>5 DEF Believable
  <2>2. ASSUME NEW t \in tasks' \cup wire', job'[t.job].status = "complete"
        PROVE  t.lease # job'[t.job].lease
    <3>1. t.job # j
      BY <2>2, <1>1
    <3>2. t \in tasks \cup wire /\ t.job \in Job
      BY <2>2, <3>1, <1>4 DEF TypeOK, Task
    <3>3. job'[t.job] = job[t.job]
      BY <3>1, <3>2, <1>1 DEF TypeOK
    <3>. QED BY <2>2, <3>2, <3>3 DEF Believable
  <2>. QED BY <2>1, <2>2 DEF Believable
<1>7. Work!Grant(j, d)
  <2>1. phase[j] \in {"absent", "queued"}
    BY <1>1, Mapping DEF Phase, Active
  <2>2. grants[j] < MaxAttempts
    BY <1>1, <1>3, Mapping
  <2>3. phase' = [phase EXCEPT ![j] = "leased"]
    BY <1>1, Mapping DEF Phase, Active
  <2>4. grants' = [grants EXCEPT ![j] = grants[j] + 1]
    BY <1>1, Mapping
  <2>5. grants[j] + 1 = n
    BY <1>1, Mapping
  <2>6. tasks' \cup wire' \in {tasks \cup wire, tasks \cup wire \cup {u}}
    BY <1>4
  <2>. QED BY <2>1, <2>2, <2>3, <2>4, <2>5, <2>6 DEF Work!Grant
<1>. QED BY <1>6, <1>7 DEF Step, Work!Next

(* The loss of devices recalls their work.                                 *)
LEMMA RecallStep ==
  ASSUME TypeOK, Core, Believable, NEW D, FailWork(D), tasks' = tasks, wire' \subseteq wire
  PROVE  Believable' /\ Step
<1>1. job' = AfterLoss(D)
  BY DEF FailWork
<1>2. ASSUME NEW j \in Job
      PROVE  /\ job'[j].attempts = job[j].attempts
             /\ job'[j].status = "complete" => job'[j] = job[j]
             /\ \/ Phase(job'[j]) = Phase(job[j])
                \/ Phase(job[j]) = "leased" /\ Phase(job'[j]) = "failed"
                \/ /\ Phase(job[j]) = "leased" /\ Phase(job'[j]) = "queued"
                   /\ job[j].attempts < MaxAttempts
  <2>1. CASE j \notin Lost(D)
    <3>1. job'[j] = job[j]
      BY <1>1, <2>1 DEF AfterLoss
    <3>. QED BY <3>1
  <2>2. CASE j \in Lost(D) /\ Retryable(j)
    <3>1. /\ job'[j].status = "queued" /\ job'[j].attempts = job[j].attempts
      BY <1>1, <2>2 DEF AfterLoss
    <3>2. job[j].status \in Active /\ job[j].attempts < MaxAttempts
      BY <2>2 DEF Lost, Retryable
    <3>. QED BY <3>1, <3>2 DEF Phase, Active
  <2>3. CASE j \in Lost(D) /\ ~Retryable(j)
    <3>1. job'[j].status = "failed" /\ job'[j].attempts = job[j].attempts
      BY <1>1, <2>3 DEF AfterLoss, WithStatus
    <3>2. job[j].status \in Active
      BY <2>3 DEF Lost
    <3>. QED BY <3>1, <3>2 DEF Phase, Active
  <2>. QED BY <2>1, <2>2, <2>3
<1>3. Believable'
  BY <1>2 DEF Believable, TypeOK, Task
<1>4. Work!Recall
  <2>1. grants' = grants
    BY <1>2 DEF grants
  <2>2. job' \in [Job -> JobRecord]
    <3>1. \A j \in Job : job[j] \in JobRecord
      BY DEF TypeOK
    <3>2. ASSUME NEW j \in Job PROVE AfterLoss(D)[j] \in JobRecord
      BY <3>1, DispatchConstants
      DEF AfterLoss, WithStatus, JobRecord, Status, DispatchConstants
    <3>. QED BY <1>1, <3>2 DEF AfterLoss
  <2>3. phase' \in [Job -> Work!Phases]
    BY <2>2, PhaseType DEF phase
  <2>4. \A j \in Job :
          \/ phase'[j] = phase[j]
          \/ phase[j] = "leased" /\ phase'[j] = "failed"
          \/ phase[j] = "leased" /\ phase'[j] = "queued" /\ grants[j] < MaxAttempts
    BY <1>2 DEF phase, grants
  <2>. QED BY <2>1, <2>3, <2>4 DEF Work!Recall
<1>. QED BY <1>3, <1>4 DEF Step, Work!Next

(* A message that is believed is a report of the latest grant.             *)
LEMMA ReportStep ==
  ASSUME TypeOK, Core, Believable, NEW t \in tasks \cup wire, HasCurrentLease(t),
         job[t.job].status \notin {"new", "deleted", "cancelled"},
         NEW s \in {"generating", "complete", "failed"}, SetStatus(t.job, s),
         tasks' = tasks,
         \/ s = "generating" /\ wire' = wire
         \/ t \in wire /\ wire' = wire \ {t}
  PROVE  Believable' /\ Step
<1> DEFINE j == t.job
<1>1. /\ t \in Task /\ j \in Job /\ t.lease = job[j].lease
      /\ job[j].status \in Active \cup {"complete", "failed"}
  BY BelievedTask DEF Task
<1>2. job[j].status # "complete"
  BY <1>1 DEF Believable
<1>3. /\ job' = [job EXCEPT ![j] = job'[j]] /\ job'[j].status = s
      /\ job'[j].attempts = job[j].attempts /\ job'[j].lease = job[j].lease
  BY <1>1 DEF SetStatus, WithStatus, TypeOK
<1>4. /\ JobOK(job[j]) /\ job[j].lease = job[j].attempts
  BY <1>1 DEF Core, JobOK
<1>5. ASSUME NEW v \in tasks' \cup wire', job'[v.job].status = "complete"
      PROVE  v.lease # job'[v.job].lease
  <2>1. v \in tasks \cup wire /\ v \in Task /\ v.job \in Job
    BY DEF TypeOK, Task
  <2>2. CASE v.job # j
    BY <1>3, <1>5, <2>1, <2>2 DEF Believable, TypeOK
  <2>3. CASE v.job = j
    <3>1. s = "complete" /\ t \in wire /\ wire' = wire \ {t}
      BY <1>3, <1>5, <2>3
    <3>2. v # t
      BY <3>1 DEF Believable
    <3>3. ASSUME v.lease = job[j].lease PROVE FALSE
      <4>1. v.dev = job[j].agent /\ t.dev = job[j].agent
        BY <1>1, <2>1, <2>3, <3>3 DEF Core, TaskOK
      <4>2. v = [dev |-> v.dev, job |-> v.job, lease |-> v.lease]
            /\ t = [dev |-> t.dev, job |-> t.job, lease |-> t.lease]
        BY <1>1, <2>1 DEF Task
      <4>. QED BY <4>1, <4>2, <3>2, <3>3, <1>1, <2>3
    <3>. QED BY <3>3, <1>3, <2>3
  <2>. QED BY <2>2, <2>3
<1>6. Believable'
  BY <1>5 DEF Believable
<1>7. Work!Report(t)
  <2>1. grants[j] = t.lease
    BY <1>1, <1>3, <1>4, Mapping
  <2>2. phase[j] \in {"leased", "failed"}
    BY <1>1, <1>2, <1>3, Mapping DEF Phase, Active
  <2>3. Phase(job'[j]) \in {"leased", "complete", "failed"}
    BY <1>3 DEF Phase, Active
  <2>4. phase' = [phase EXCEPT ![j] = Phase(job'[j])]
    BY <1>1, <1>3, Mapping
  <2>5. grants' = grants
    BY <1>3 DEF grants, TypeOK
  <2>6. tasks' \cup wire' \in {tasks \cup wire, (tasks \cup wire) \ {t}}
    BY DEF Believable
  <2>. QED BY <2>1, <2>2, <2>3, <2>4, <2>5, <2>6 DEF Work!Report
<1>. QED BY <1>6, <1>7 DEF Step, Work!Next

(* The owner's submissions and cancellations.                              *)
LEMMA OwnerStep ==
  ASSUME TypeOK, Core, Believable, NEW j \in Job, NEW s \in {"queued", "deleted", "cancelled"},
         SetStatus(j, s), tasks' = tasks, wire' = wire,
         \/ s # "cancelled" /\ job[j].status = "new"
         \/ s = "cancelled" /\ job[j].status \in Active \cup {"queued"}
  PROVE  Believable' /\ Step
<1>1. /\ job' = [job EXCEPT ![j] = job'[j]] /\ job'[j].status = s
      /\ job'[j].attempts = job[j].attempts
  BY DEF SetStatus, WithStatus, TypeOK
<1>2. Believable'
  BY <1>1 DEF Believable, TypeOK, Task
<1>3. phase' = [phase EXCEPT ![j] = Phase(job'[j])] /\ phase[j] = Phase(job[j])
  BY <1>1, Mapping
<1>4. grants' = grants
  BY <1>1 DEF grants, TypeOK
<1>5. CASE s # "cancelled" /\ job[j].status = "new"
  <2>1. Work!Submit(j)
    BY <1>1, <1>3, <1>4, <1>5 DEF Work!Submit, Phase, Active
  <2>. QED BY <1>2, <2>1 DEF Step, Work!Next
<1>6. CASE s = "cancelled" /\ job[j].status \in Active \cup {"queued"}
  <2>1. Work!Cancel(j)
    BY <1>1, <1>3, <1>4, <1>6 DEF Work!Cancel, Phase, Active
  <2>. QED BY <1>2, <2>1 DEF Step, Work!Next
<1>. QED BY <1>5, <1>6

-----------------------------------------------------------------------------
(* Every step of JobDispatch.                                              *)
LEMMA InitStep ==
  ASSUME Init PROVE Believable /\ Work!Init
<1>1. Believable
  BY DEF Init, Believable
<1>2. \A j \in Job : job[j].status = "new" /\ job[j].attempts = 0
  BY DEF Init, Blank
<1>3. phase = [j \in Job |-> "absent"] /\ grants = [j \in Job |-> 0]
  <2>1. \A j \in Job : Phase(job[j]) = "absent"
    BY <1>2 DEF Phase, Active
  <2>2. phase = [j \in Job |-> "absent"]
    BY <2>1 DEF phase
  <2>3. grants = [j \in Job |-> 0]
    BY <1>2 DEF grants
  <2>. QED BY <2>2, <2>3
<1>. QED BY <1>1, <1>3 DEF Init, Work!Init

LEMMA JobStepRefines ==
  ASSUME InlineInput = {}, DispatchInv, Believable, NEW j \in Job, JobStep(j)
  PROVE  Believable' /\ Step
<1>. USE DEF DispatchInv
<1>1. CASE Submit(j)
  <2>1. job[j].status = "new" /\ wire' = wire
    BY <1>1 DEF Submit
  <2>2. ASSUME NEW d \in Candidates(j), Dispatch(j, d) PROVE Believable' /\ Step
    <3>1. d \in Device
      BY DispatchConstants DEF Candidates, DispatchConstants
    <3>. QED BY <2>1, <2>2, <3>1, GrantStep
  <2>3. ASSUME NEW s \in {"queued", "deleted"}, SetStatus(j, s), tasks' = tasks
        PROVE  Believable' /\ Step
    BY <2>1, <2>3, OwnerStep
  <2>4. CASE \E d \in Candidates(j) : Dispatch(j, d)
    BY <2>2, <2>4
  <2>5. CASE ~\E d \in Candidates(j) : Dispatch(j, d)
    BY <1>1, <2>3, <2>5 DEF Submit
  <2>. QED BY <2>4, <2>5
<1>2. CASE Cancel(j)
  <2>1. /\ SetStatus(j, "cancelled") /\ job[j].status \in Active \cup {"queued"}
        /\ tasks' = tasks /\ wire' = wire
    BY <1>2 DEF Cancel, nodeVars
  <2>. QED BY <2>1, OwnerStep
<1>3. CASE Poll(j)
  BY <1>3, FadeStep DEF Poll, nodeVars, Believable
<1>. QED BY <1>1, <1>2, <1>3 DEF JobStep

LEMMA DeviceStepRefines ==
  ASSUME DispatchInv, Believable, NEW d \in Device, DeviceStep(d)
  PROVE  Believable' /\ Step
<1>. USE DEF DispatchInv
<1>1. CASE HandleAvailability(d)
  BY <1>1, FadeStep DEF HandleAvailability, Believable
<1>2. CASE HandleInventory(d)
  BY <1>2, FadeStep DEF HandleInventory, nodeVars, Believable
<1>3. CASE HandleAuth(d)
  <2>1. FailWork({d} \cap connected) /\ tasks' = tasks /\ wire' \subseteq wire
    BY <1>3 DEF HandleAuth
  <2>. QED BY <2>1, RecallStep
<1>4. CASE HandleClose(d)
  <2>1. FailWork({d}) /\ tasks' = tasks /\ wire' \subseteq wire
    BY <1>4 DEF HandleClose, nodeVars
  <2>. QED BY <2>1, RecallStep
<1>5. CASE NodeDrop(d)
  <2>1. job' = job /\ wire' = wire /\ tasks' \subseteq tasks
    BY <1>5 DEF NodeDrop, relayVars
  <2>. QED BY <2>1, FadeStep DEF Believable
<1>6. CASE LocalStarts(d) \/ LocalEnds(d)
  BY <1>6, FadeStep DEF LocalStarts, LocalEnds, relayVars, Believable
<1>. QED BY <1>1, <1>2, <1>3, <1>4, <1>5, <1>6 DEF DeviceStep

LEMMA TaskStepRefines ==
  ASSUME DispatchInv, Believable, NEW t \in tasks \cup wire, TaskStep(t)
  PROVE  Believable' /\ Step
<1>. USE DEF DispatchInv
<1>1. CASE HandleProgress(t)
  <2>1. /\ HasCurrentLease(t) /\ job[t.job].status \notin {"new", "deleted", "cancelled"}
        /\ SetStatus(t.job, "generating") /\ tasks' = tasks /\ wire' = wire
    BY <1>1 DEF HandleProgress, nodeVars
  <2>. QED BY <2>1, ReportStep
<1>2. CASE HandleResult(t)
  <2>1. PICK s \in {"complete", "failed"} : SetStatus(t.job, s)
    BY <1>2 DEF HandleResult
  <2>2. /\ HasCurrentLease(t) /\ job[t.job].status \notin {"new", "deleted", "cancelled"}
        /\ t \in wire /\ wire' = wire \ {t} /\ tasks' = tasks
    BY <1>2 DEF HandleResult
  <2>. QED BY <2>1, <2>2, ReportStep
<1>3. CASE IgnoreResult(t) \/ ResultLost(t)
  BY <1>3, FadeStep DEF IgnoreResult, ResultLost, relayVars, Believable
<1>4. CASE TaskStarts(t)
  BY <1>4, FadeStep DEF TaskStarts, relayVars, Believable
<1>5. CASE TaskEnds(t) \/ TaskAbandoned(t)
  <2>1. job' = job /\ t \in tasks /\ tasks' = tasks \ {t} /\ wire' = wire \cup {t}
    BY <1>5 DEF TaskEnds, TaskAbandoned, relayVars
  <2>. QED BY <2>1, FadeStep DEF Believable
<1>. QED BY <1>1, <1>2, <1>3, <1>4, <1>5 DEF TaskStep

LEMMA NextRefines ==
  ASSUME InlineInput = {}, DispatchInv, Believable, [Next]_dispatchVars
  PROVE  Believable' /\ Step
<1>. USE DEF DispatchInv
<1>1. CASE UNCHANGED dispatchVars
  BY <1>1, FadeStep DEF dispatchVars, relayVars, nodeVars, Believable
<1>2. CASE PlaceNext
  <2>1. PICK j \in todo :
          /\ \/ job' = job /\ tasks' = tasks
             \/ \E d \in Candidates(j) : Dispatch(j, d)
          /\ wire' = wire
    BY <1>2 DEF PlaceNext
  <2>2. CASE job' = job /\ tasks' = tasks
    BY <2>1, <2>2, FadeStep DEF Believable
  <2>3. ASSUME NEW d \in Candidates(j), Dispatch(j, d) PROVE Believable' /\ Step
    <3>1. j \in Job /\ d \in Device /\ job[j].status = "queued"
      BY DispatchConstants DEF TypeOK, Core, Candidates, DispatchConstants
    <3>. QED BY <2>1, <2>3, <3>1, GrantStep
  <2>. QED BY <2>1, <2>2, <2>3
<1>3. CASE Hibernate \/ Restart
  BY <1>3, FadeStep DEF Hibernate, Restart, nodeVars, Believable
<1>4. CASE \E j \in Job : JobStep(j)
  BY <1>4, JobStepRefines
<1>5. CASE \E d \in Device : DeviceStep(d)
  BY <1>5, DeviceStepRefines
<1>6. CASE \E t \in tasks \cup wire : TaskStep(t)
  BY <1>6, TaskStepRefines
<1>7. CASE \E D \in SUBSET Device : CleanupStale(D)
  <2>1. PICK D : FailWork(D) /\ tasks' = tasks /\ wire' = wire
    BY <1>7 DEF CleanupStale, nodeVars
  <2>. QED BY <2>1, RecallStep
<1>. QED BY <1>1, <1>2, <1>3, <1>4, <1>5, <1>6, <1>7, ResumeNever DEF Next

(* Relay's handling of jobs, with its cache, queue, sockets, leases and    *)
(* late messages, implements leased work for any number of jobs and        *)
(* devices and any retry limit: one holder at a time, a bounded number of  *)
(* grants, reports by the latest holder only, cancelled and complete final.*)
THEOREM DispatchImplementsLeasedWork ==
  ASSUME InlineInput = {}
  PROVE  Spec => ImplementsLeasedWork
<1>1. Init => RefinementInv /\ Work!Init
  BY InitDispatchInv, InitStep DEF RefinementInv
<1>2. RefinementInv /\ [Next]_dispatchVars => RefinementInv' /\ Step
  BY StepDispatchInv, NextRefines DEF RefinementInv
<1>. QED BY <1>1, <1>2, PTL DEF Spec, ImplementsLeasedWork, Work!Spec, Step

-----------------------------------------------------------------------------
(* Inline input images                                                     *)
(*                                                                         *)
(* A job with an inline image can be placed twice, and again when it is    *)
(* over; so can what the loop had still to place when it was suspended.    *)
(* Its record then says little, but every dispatch draws a new lease, and  *)
(* a node that echoes leases is believed of the last one only.  A node     *)
(* that does not is believed as long as the last dispatch went to such a   *)
(* node, which is the same one only if there is no other.                  *)

OneWithoutLeases == \A j \in Job : \A d, e \in CanRun[j] \ LeaseAware : d = e

Fenced(t, r) ==
  /\ t.dev \in CanRun[t.job]
  /\ t.lease <= r.attempts
  /\ t.lease = r.lease => t.dev = r.agent
  /\ t.dev \notin LeaseAware /\ ~r.aware => t.dev = r.agent

LeasesFenced ==
  /\ \A p \in parked : p.dev # None => p.dev \in CanRun[p.job]
  /\ \A t \in tasks \cup wire : Fenced(t, job[t.job])

FenceInv == TypeOK /\ LeasesFenced

Anyone == Job \cup {None, Local}

LEMMA FreshTypes ==
  ASSUME TypeOK
  PROVE  /\ \A j \in Job : job[j] \in JobRecord
         /\ \A t \in tasks \cup wire : t \in Task /\ t.dev \in Device /\ t.job \in Job
                                       /\ t.lease \in Nat \ {0}
         /\ \A d \in Device : Owner(d) \in Anyone /\ last[d] \in Anyone
BY DispatchConstants, OwnerIsTyped DEF TypeOK, Task, Lease, Anyone

(* One job changes its status; what it has of leases stays.                *)
LEMMA StatusFences ==
  ASSUME FenceInv, NEW j \in Job, NEW s \in Status, SetStatus(j, s),
         tasks' \cup wire' \subseteq tasks \cup wire,
         \A p \in parked' : p.dev # None => p.dev \in CanRun[p.job]
  PROVE  LeasesFenced' /\ job' \in [Job -> JobRecord]
<1>1. /\ job' = [job EXCEPT ![j] = WithStatus(job[j], s)]
      /\ WithStatus(job[j], s) \in JobRecord /\ job \in [Job -> JobRecord]
  BY DEF SetStatus, FenceInv, TypeOK, WithStatus, JobRecord
<1>2. \A k \in Job : /\ job'[k].attempts = job[k].attempts
                     /\ job'[k].lease = job[k].lease /\ job'[k].agent = job[k].agent
                     /\ job'[k].aware = job[k].aware
  BY <1>1 DEF WithStatus
<1>3. \A t \in tasks \cup wire : t.job \in Job
  BY FreshTypes DEF FenceInv
<1>4. \A t \in tasks' \cup wire' : Fenced(t, job'[t.job])
  BY <1>2, <1>3 DEF FenceInv, LeasesFenced, Fenced
<1>. QED BY <1>1, <1>4 DEF LeasesFenced

(* A job that is lost gives its lease back, or keeps it as a failed one.   *)
LEMMA LossFences ==
  ASSUME FenceInv, NEW D, FailWork(D), tasks' \cup wire' \subseteq tasks \cup wire,
         \A p \in parked' : p.dev # None => p.dev \in CanRun[p.job]
  PROVE  LeasesFenced' /\ job' \in [Job -> JobRecord] /\ mem' \in SUBSET Job
<1>1. job' = AfterLoss(D) /\ mem' \subseteq mem
  BY DEF FailWork
<1>2. ASSUME NEW k \in Job
      PROVE  /\ AfterLoss(D)[k] \in JobRecord
             /\ AfterLoss(D)[k].attempts = job[k].attempts
             /\ AfterLoss(D)[k].aware = job[k].aware
             /\ \/ AfterLoss(D)[k].lease = 0 /\ AfterLoss(D)[k].aware
                \/ AfterLoss(D)[k].lease = job[k].lease /\ AfterLoss(D)[k].agent = job[k].agent
  <2>1. job[k] \in JobRecord /\ DispatchCap \in Nat
    BY DispatchConstants DEF FenceInv, TypeOK, DispatchConstants
  <2>2. CASE k \notin Lost(D)
    BY <2>1, <2>2 DEF AfterLoss
  <2>3. CASE k \in Lost(D) /\ Retryable(k)
    <3> DEFINE r == [status |-> "queued", agent |-> None, lease |-> 0,
                     aware |-> job[k].aware, attempts |-> job[k].attempts]
    <3>1. AfterLoss(D)[k] = r /\ job[k].aware
      BY <2>3 DEF AfterLoss, Retryable
    <3>2. r \in JobRecord
      BY <2>1 DEF JobRecord, Status
    <3>3. r.attempts = job[k].attempts /\ r.aware = job[k].aware /\ r.lease = 0
      OBVIOUS
    <3>. QED BY <3>1, <3>2, <3>3
  <2>4. CASE k \in Lost(D) /\ ~Retryable(k)
    BY <2>1, <2>4 DEF AfterLoss, WithStatus, JobRecord, Status
  <2>. QED BY <2>2, <2>3, <2>4
<1>3. job' \in [Job -> JobRecord]
  BY <1>1, <1>2 DEF AfterLoss
<1>4. \A t \in tasks \cup wire : t.job \in Job /\ t.lease # 0
  BY FreshTypes DEF FenceInv
<1>5. \A t \in tasks' \cup wire' : Fenced(t, job'[t.job])
  BY <1>1, <1>2, <1>4 DEF FenceInv, LeasesFenced, Fenced
<1>. QED BY <1>1, <1>3, <1>5 DEF LeasesFenced, FenceInv, TypeOK

(* A dispatch, of a job in any state: the new lease is newer than all.     *)
LEMMA DispatchFences ==
  ASSUME OneWithoutLeases, FenceInv, NEW j \in Job, NEW d \in CanRun[j], d \in Device,
         Dispatch(j, d), wire' = wire, \A p \in parked' : p.dev # None => p.dev \in CanRun[p.job]
  PROVE  /\ LeasesFenced' /\ job' \in [Job -> JobRecord] /\ tasks' \in SUBSET Task
         /\ mem' \in SUBSET Job /\ reserved' \in [Device -> Anyone]
<1> DEFINE n == job[j].attempts + 1
           r == [status |-> "assigned", agent |-> d, lease |-> n,
                 aware |-> d \in LeaseAware, attempts |-> n]
           u == [dev |-> d, job |-> j, lease |-> n]
<1>1. job' = [job EXCEPT ![j] = r] /\ job \in [Job -> JobRecord]
  BY DEF Dispatch, FenceInv, TypeOK
<1>2. n \in 1 .. DispatchCap /\ job[j].attempts \in Nat
  BY DispatchConstants DEF DispatchConstants, Dispatch, FenceInv, TypeOK, JobRecord
<1>3. r \in JobRecord
  BY <1>2 DEF JobRecord, Status, Active
<1>4. u \in Task /\ u.dev = d /\ u.job = j /\ u.lease = n
  BY <1>2 DEF Task, Lease
<1>5. r.lease = n /\ r.attempts = n /\ r.agent = d /\ (r.aware <=> d \in LeaseAware)
  OBVIOUS
<1>6. tasks' \cup wire' \subseteq tasks \cup wire \cup {u} /\ tasks' \subseteq tasks \cup {u}
  BY DEF Dispatch, Deliver
<1> HIDE DEF n, r, u
<1>7. job' \in [Job -> JobRecord] /\ tasks' \in SUBSET Task
  BY <1>1, <1>3, <1>4, <1>6 DEF FenceInv, TypeOK
<1>8. mem' \in SUBSET Job /\ reserved' \in [Device -> Anyone]
  BY DEF Dispatch, FenceInv, TypeOK, Anyone
<1>9. ASSUME NEW t \in tasks' \cup wire' PROVE Fenced(t, job'[t.job])
  <2>1. CASE t = u
    <3>1. job'[t.job] = r /\ n <= n
      BY <1>1, <1>2, <1>4, <2>1
    <3>. QED BY <1>4, <1>5, <2>1, <3>1 DEF Fenced
  <2>2. CASE t \in tasks \cup wire
    <3>1. t.job \in Job /\ t.lease \in Nat /\ Fenced(t, job[t.job])
      BY <2>2, FreshTypes DEF FenceInv, LeasesFenced
    <3>2. CASE t.job # j
      BY <1>1, <3>1, <3>2
    <3>3. CASE t.job = j
      <4>1. t.lease < n
        BY <1>2, <3>1, <3>3 DEF Fenced, n
      <4>2. job'[t.job] = r
        BY <1>1, <3>3
      <4>3. t.lease <= n /\ t.lease # n
        BY <1>2, <3>1, <4>1
      <4>4. t.dev \notin LeaseAware /\ d \notin LeaseAware => t.dev = d
        BY <3>1, <3>3 DEF OneWithoutLeases, Fenced
      <4>. QED BY <1>5, <3>1, <4>2, <4>3, <4>4 DEF Fenced
    <3>. QED BY <3>2, <3>3
  <2>. QED BY <1>6, <2>1, <2>2
<1>. QED BY <1>7, <1>8, <1>9 DEF LeasesFenced

(* Steps that write no record.                                             *)
LEMMA QuietFences ==
  ASSUME FenceInv, job' = job, tasks' \cup wire' \subseteq tasks \cup wire,
         \A p \in parked' : p.dev # None => p.dev \in CanRun[p.job]
  PROVE  LeasesFenced'
BY DEF FenceInv, LeasesFenced

LEMMA GoneSockets ==
  ASSUME FenceInv, NEW D, SocketsGone(D)
  PROVE  /\ parked' \in SUBSET Dispatched
         /\ \A p \in parked' : p.dev # None => p.dev \in CanRun[p.job]
<1>1. ASSUME NEW q \in parked'
      PROVE  q \in Dispatched /\ (q.dev # None => q.dev \in CanRun[q.job])
  <2>1. PICK p \in parked :
          q = [job |-> p.job, dev |-> IF p.dev \in D THEN None ELSE p.dev,
               rest |-> p.rest, submit |-> p.submit]
    BY DEF SocketsGone
  <2>2. p \in Dispatched /\ (p.dev # None => p.dev \in CanRun[p.job])
    BY DEF FenceInv, LeasesFenced, TypeOK
  <2>. QED BY <2>1, <2>2 DEF Dispatched
<1>. QED BY <1>1

(* The placement loop, a submission and a suspended dispatch.              *)
LEMMA PlacementFences ==
  ASSUME OneWithoutLeases, FenceInv, PlaceNext \/ Resume \/ \E j \in Job : Submit(j)
  PROVE  FenceInv'
<1>1. UNCHANGED <<connected, linked, gate, last, dirty, wire>>
  BY DEF PlaceNext, Resume, Submit
<1>2. /\ todo \subseteq Job /\ mem \subseteq Job /\ None \notin Device
      /\ \A j \in Job : \A d \in Candidates(j) : d \in Device /\ d \in CanRun[j]
  BY DispatchConstants DEF FenceInv, TypeOK, Candidates, DispatchConstants
<1>3. \A p \in parked : /\ p.job \in Job /\ p.dev \in Device \cup {None}
                        /\ p.rest \subseteq Job
                        /\ p.dev # None => p.dev \in CanRun[p.job]
  BY DEF FenceInv, LeasesFenced, TypeOK, Dispatched
<1>4. ASSUME NEW j \in Job, NEW d \in CanRun[j], d \in Device, Dispatch(j, d),
             todo' \subseteq Job, parked' \subseteq parked
      PROVE  FenceInv'
  <2>1. /\ LeasesFenced' /\ job' \in [Job -> JobRecord] /\ tasks' \in SUBSET Task
        /\ mem' \in SUBSET Job /\ reserved' \in [Device -> Anyone]
    BY <1>1, <1>3, <1>4, DispatchFences
  <2>2. TypeOK'
    BY <1>1, <1>4, <2>1 DEF FenceInv, TypeOK, Anyone
  <2>. QED BY <2>1, <2>2 DEF FenceInv
<1>5. ASSUME NEW j \in Job, NEW s \in Status, SetStatus(j, s), todo' \subseteq Job,
             mem' \subseteq Job, UNCHANGED <<reserved, tasks>>, parked' \in SUBSET Dispatched,
             \A p \in parked' : p.dev # None => p.dev \in CanRun[p.job]
      PROVE  FenceInv'
  <2>1. LeasesFenced' /\ job' \in [Job -> JobRecord]
    BY <1>1, <1>5, StatusFences
  <2>2. TypeOK'
    BY <1>1, <1>5, <2>1 DEF FenceInv, TypeOK
  <2>. QED BY <2>1, <2>2 DEF FenceInv
<1>6. ASSUME UNCHANGED <<job, mem, reserved, tasks>>, todo' \subseteq Job,
             parked' \in SUBSET Dispatched,
             \A p \in parked' : p.dev # None => p.dev \in CanRun[p.job]
      PROVE  FenceInv'
  <2>1. LeasesFenced'
    BY <1>1, <1>6, QuietFences
  <2>2. TypeOK'
    BY <1>1, <1>6 DEF FenceInv, TypeOK
  <2>. QED BY <2>1, <2>2 DEF FenceInv
<1>7. ASSUME NEW j \in Job, NEW d \in Candidates(j), NEW rest \in SUBSET Job,
             NEW b \in BOOLEAN,
             parked' = parked \cup {[job |-> j, dev |-> d, rest |-> rest, submit |-> b]}
      PROVE  /\ parked' \in SUBSET Dispatched
             /\ \A p \in parked' : p.dev # None => p.dev \in CanRun[p.job]
  BY <1>2, <1>3, <1>7 DEF Dispatched, FenceInv, TypeOK
<1>8. CASE PlaceNext
  <2>1. PICK j \in todo :
          \/ /\ todo' = todo \ {j}
             /\ UNCHANGED <<job, mem, reserved, parked, tasks>>
          \/ /\ \E d \in Candidates(j) : Dispatch(j, d)
             /\ todo' = todo \ {j}
             /\ UNCHANGED parked
          \/ /\ \E d \in Candidates(j) : Park(j, d, todo \ {j}, FALSE)
             /\ todo' = {}
    BY <1>8 DEF PlaceNext
  <2>2. CASE todo' = todo \ {j} /\ UNCHANGED <<job, mem, reserved, parked, tasks>>
    BY <1>2, <1>3, <1>6, <2>2 DEF FenceInv, TypeOK
  <2>3. CASE /\ \E d \in Candidates(j) : Dispatch(j, d)
             /\ todo' = todo \ {j} /\ UNCHANGED parked
    BY <1>2, <1>4, <2>3
  <2>4. ASSUME NEW d \in Candidates(j), Park(j, d, todo \ {j}, FALSE), todo' = {}
        PROVE  FenceInv'
    <3>1. /\ parked' \in SUBSET Dispatched
          /\ \A p \in parked' : p.dev # None => p.dev \in CanRun[p.job]
      BY <1>2, <1>7, <2>4 DEF Park
    <3>. QED BY <1>6, <2>4, <3>1 DEF Park
  <2>. QED BY <2>1, <2>2, <2>3, <2>4
<1>9. CASE Resume
  <2>1. PICK p \in parked :
          /\ parked' = parked \ {p} /\ todo' = p.rest
          /\ \/ p.dev # None /\ Dispatch(p.job, p.dev)
             \/ UNCHANGED <<job, mem, reserved, tasks>>
             \/ SetStatus(p.job, "deleted") /\ mem' = mem \ {p.job}
                /\ UNCHANGED <<reserved, tasks>>
    BY <1>9 DEF Resume
  <2>2. /\ parked' \in SUBSET Dispatched /\ parked' \subseteq parked
        /\ \A q \in parked' : q.dev # None => q.dev \in CanRun[q.job]
    BY <1>3, <2>1 DEF FenceInv, TypeOK
  <2>3. p.job \in Job /\ todo' \subseteq Job
    BY <1>3, <2>1
  <2>4. CASE p.dev # None /\ Dispatch(p.job, p.dev)
    BY <1>3, <1>4, <2>2, <2>3, <2>4
  <2>5. CASE UNCHANGED <<job, mem, reserved, tasks>>
    BY <1>6, <2>2, <2>3, <2>5
  <2>6. CASE SetStatus(p.job, "deleted") /\ mem' = mem \ {p.job}
             /\ UNCHANGED <<reserved, tasks>>
    <3>1. "deleted" \in Status /\ mem' \subseteq Job
      BY <1>2, <2>6 DEF Status
    <3>. QED BY <1>5, <2>2, <2>3, <2>6, <3>1
  <2>. QED BY <2>1, <2>4, <2>5, <2>6
<1>10. ASSUME NEW j \in Job, Submit(j) PROVE FenceInv'
  <2>1. todo' \subseteq Job
    BY <1>2, <1>10 DEF Submit
  <2>2. CASE \E d \in Candidates(j) : Dispatch(j, d) /\ UNCHANGED parked
    BY <1>2, <1>4, <2>1, <2>2
  <2>3. CASE \E d \in Candidates(j) :
               /\ parked' = parked \cup {[job |-> j, dev |-> d, rest |-> {}, submit |-> TRUE]}
               /\ SetStatus(j, "queued") /\ mem' = mem \cup {j}
               /\ UNCHANGED <<reserved, tasks>>
    <3>1. PICK d \in Candidates(j) :
            parked' = parked \cup {[job |-> j, dev |-> d, rest |-> {}, submit |-> TRUE]}
      BY <2>3
    <3>2. /\ parked' \in SUBSET Dispatched
          /\ \A p \in parked' : p.dev # None => p.dev \in CanRun[p.job]
      BY <1>7, <3>1
    <3>3. "queued" \in Status /\ mem' \subseteq Job
      BY <1>2, <2>3 DEF Status
    <3>. QED BY <1>5, <2>1, <2>3, <3>2, <3>3
  <2>4. CASE /\ \E s \in {"deleted", "queued"} : SetStatus(j, s)
             /\ mem' \in {mem, mem \cup {j}} /\ UNCHANGED <<reserved, parked, tasks>>
    <3>1. PICK s \in {"deleted", "queued"} : SetStatus(j, s)
      BY <2>4
    <3>2. s \in Status /\ mem' \subseteq Job /\ parked' \in SUBSET Dispatched
      BY <1>2, <2>4 DEF Status, FenceInv, TypeOK
    <3>. QED BY <1>3, <1>5, <2>1, <2>4, <3>1, <3>2
  <2>. QED BY <1>10, <2>2, <2>3, <2>4 DEF Submit
<1>. QED BY <1>8, <1>9, <1>10

(* The owner's cancel, and what nodes say of their jobs.                   *)
LEMMA AnswerFences ==
  ASSUME FenceInv,
         \/ \E j \in Job : Cancel(j)
         \/ \E t \in tasks \cup wire : HandleProgress(t) \/ HandleResult(t)
  PROVE  FenceInv'
<1>1. ASSUME NEW j \in Job, NEW s \in Status, SetStatus(j, s), mem' \subseteq Job,
             todo' \subseteq Job, reserved' \in [Device -> Anyone], wire' \subseteq wire,
             UNCHANGED <<connected, parked, linked, tasks, gate, last, dirty>>
      PROVE  FenceInv'
  <2>1. LeasesFenced' /\ job' \in [Job -> JobRecord]
    BY <1>1, StatusFences DEF FenceInv, LeasesFenced
  <2>2. TypeOK'
    BY <1>1, <2>1 DEF FenceInv, TypeOK, Anyone
  <2>. QED BY <2>1, <2>2 DEF FenceInv
<1>2. ASSUME NEW d, Release(d) PROVE reserved' \in [Device -> Anyone]
  BY <1>2 DEF Release, FenceInv, TypeOK, Anyone
<1>3. ASSUME NEW j \in Job, Cancel(j) PROVE FenceInv'
  <2>1. mem' \subseteq Job /\ todo' \subseteq Job
    BY <1>3 DEF Cancel, AssignQueued, FenceInv, TypeOK
  <2>. QED BY <1>1, <1>2, <1>3, <2>1 DEF Cancel, nodeVars, Status
<1>4. ASSUME NEW t \in tasks \cup wire, HandleProgress(t) PROVE FenceInv'
  <2>1. t.job \in Job
    BY FreshTypes DEF FenceInv
  <2>2. mem' \subseteq Job /\ todo' \subseteq Job /\ reserved' \in [Device -> Anyone]
    BY <1>4, <2>1 DEF HandleProgress, FenceInv, TypeOK, Anyone
  <2>. QED BY <1>1, <1>4, <2>1, <2>2 DEF HandleProgress, nodeVars, Status, Active
<1>5. ASSUME NEW t \in tasks \cup wire, HandleResult(t) PROVE FenceInv'
  <2>1. t.job \in Job
    BY FreshTypes DEF FenceInv
  <2>2. mem' \subseteq Job /\ todo' \subseteq Job
    BY <1>5 DEF HandleResult, AssignQueued, FenceInv, TypeOK
  <2>3. PICK s \in {"complete", "failed"} : SetStatus(t.job, s)
    BY <1>5 DEF HandleResult
  <2>4. s \in Status
    BY DEF Status
  <2>. QED BY <1>1, <1>2, <1>5, <2>1, <2>2, <2>3, <2>4 DEF HandleResult
<1>. QED BY <1>3, <1>4, <1>5

(* Lost and returning nodes.                                               *)
LEMMA LossKeepsFences ==
  ASSUME FenceInv,
         \/ \E d \in Device : HandleAuth(d) \/ HandleClose(d)
         \/ \E D \in SUBSET Device : CleanupStale(D)
  PROVE  FenceInv'
<1>1. ASSUME NEW D, FailWork(D), wire' \subseteq wire, connected' \in SUBSET Device,
             linked' \in SUBSET Device, reserved' \in [Device -> Anyone],
             AssignQueued \/ todo' \subseteq Job, UNCHANGED <<tasks, gate, last, dirty>>,
             parked' \in SUBSET Dispatched,
             \A p \in parked' : p.dev # None => p.dev \in CanRun[p.job]
      PROVE  FenceInv'
  <2>1. LeasesFenced' /\ job' \in [Job -> JobRecord] /\ mem' \in SUBSET Job
    BY <1>1, LossFences
  <2>2. todo' \in SUBSET Job
    BY <1>1, <2>1 DEF AssignQueued
  <2>3. TypeOK'
    BY <1>1, <2>1, <2>2 DEF FenceInv, TypeOK, Anyone
  <2>. QED BY <2>1, <2>3 DEF FenceInv
<1>2. \A d \in Device : Owner(d) \in Anyone /\ None \in Anyone
  BY FreshTypes DEF FenceInv, Anyone
<1>3. ASSUME NEW d \in Device, HandleAuth(d) PROVE FenceInv'
  <2>1. /\ FailWork({d} \cap connected) /\ wire' \subseteq wire
        /\ UNCHANGED <<tasks, gate, last, dirty>>
        /\ AssignQueued \/ todo' \subseteq Job
    BY <1>3 DEF HandleAuth, FenceInv, TypeOK
  <2>2. /\ connected' \in SUBSET Device /\ linked' \in SUBSET Device
        /\ reserved' \in [Device -> Anyone]
    BY <1>2, <1>3 DEF HandleAuth, FenceInv, TypeOK, Anyone
  <2>3. /\ parked' \in SUBSET Dispatched
        /\ \A p \in parked' : p.dev # None => p.dev \in CanRun[p.job]
    BY <1>3, GoneSockets DEF HandleAuth
  <2>. QED BY <1>1, <2>1, <2>2, <2>3
<1>4. ASSUME NEW d \in Device, HandleClose(d) PROVE FenceInv'
  <2>1. /\ FailWork({d}) /\ wire' \subseteq wire /\ AssignQueued
        /\ UNCHANGED <<tasks, gate, last, dirty>>
    BY <1>4 DEF HandleClose, nodeVars
  <2>2. /\ connected' \in SUBSET Device /\ linked' \in SUBSET Device
        /\ reserved' \in [Device -> Anyone]
    BY <1>2, <1>4 DEF HandleClose, nodeVars, FenceInv, TypeOK, Anyone
  <2>3. /\ parked' \in SUBSET Dispatched
        /\ \A p \in parked' : p.dev # None => p.dev \in CanRun[p.job]
    BY <1>4, GoneSockets DEF HandleClose
  <2>. QED BY <1>1, <2>1, <2>2, <2>3
<1>5. ASSUME NEW D \in SUBSET Device, CleanupStale(D) PROVE FenceInv'
  <2>1. /\ FailWork(D) /\ wire' \subseteq wire /\ AssignQueued
        /\ UNCHANGED <<tasks, gate, last, dirty, parked>>
    BY <1>5 DEF CleanupStale, nodeVars
  <2>2. /\ connected' \in SUBSET Device /\ linked' \in SUBSET Device
        /\ reserved' \in [Device -> Anyone]
    BY <1>2, <1>5 DEF CleanupStale, nodeVars, FenceInv, TypeOK, Anyone
  <2>3. /\ parked' \in SUBSET Dispatched
        /\ \A p \in parked' : p.dev # None => p.dev \in CanRun[p.job]
    BY <2>1 DEF FenceInv, LeasesFenced, TypeOK
  <2>. QED BY <1>1, <2>1, <2>2, <2>3
<1>. QED BY <1>3, <1>4, <1>5

(* The other handlers, and the nodes.                                      *)
LEMMA RelayFences ==
  ASSUME FenceInv,
         \/ \E j \in Job : Poll(j)
         \/ \E t \in wire : IgnoreResult(t)
         \/ \E d \in Device : HandleAvailability(d)
         \/ \E d \in Device : HandleInventory(d)
         \/ Hibernate
         \/ Restart
  PROVE  FenceInv'
<1>. USE DEF FenceInv
<1>1. /\ job' = job /\ tasks' \cup wire' \subseteq tasks \cup wire /\ parked' \subseteq parked
  BY DEF Poll, IgnoreResult, HandleAvailability, HandleInventory, Hibernate, Restart,
         nodeVars, relayVars
<1>2. LeasesFenced'
  BY <1>1, QuietFences DEF LeasesFenced
<1>3. CASE \E j \in Job : Poll(j)
  BY <1>2, <1>3 DEF Poll, TypeOK, nodeVars
<1>4. CASE \E t \in wire : IgnoreResult(t)
  BY <1>2, <1>4 DEF IgnoreResult, TypeOK, relayVars
<1>5. ASSUME NEW d \in Device, HandleAvailability(d) PROVE FenceInv'
  <2> DEFINE id == IF gate[d] # None THEN Owner(d) ELSE last[d]
  <2>1. /\ UNCHANGED <<job, mem, connected, parked, linked, tasks, gate, wire>>
        /\ dirty' = dirty \ {d} /\ last' = [last EXCEPT ![d] = id]
        /\ \/ UNCHANGED <<reserved, todo>>
           \/ reserved' = [reserved EXCEPT ![d] = id] /\ todo' = todo
           \/ /\ reserved' = [reserved EXCEPT ![d] = None]
              /\ todo' = {j \in mem : job[j].status = "queued"}
    BY <1>5 DEF HandleAvailability
  <2>2. id \in Job \cup {None, Local}
    BY OwnerIsTyped DEF TypeOK
  <2>3. TypeOK'
    BY <2>1, <2>2 DEF TypeOK
  <2>. QED BY <1>2, <2>3
<1>6. CASE \E d \in Device : HandleInventory(d)
  BY <1>2, <1>6 DEF HandleInventory, AssignQueued, TypeOK, nodeVars
<1>7. CASE Hibernate
  BY <1>2, <1>7 DEF Hibernate, TypeOK, nodeVars
<1>8. CASE Restart
  BY <1>2, <1>8 DEF Restart, TypeOK, nodeVars
<1>. QED BY <1>3, <1>4, <1>5, <1>6, <1>7, <1>8

LEMMA NodeFences ==
  ASSUME FenceInv,
         \/ \E d \in Device : NodeDrop(d) \/ LocalStarts(d) \/ LocalEnds(d)
         \/ \E t \in tasks : TaskStarts(t) \/ TaskEnds(t) \/ TaskAbandoned(t)
         \/ \E t \in wire : ResultLost(t)
  PROVE  FenceInv'
<1>. USE DEF FenceInv
<1>1. UNCHANGED relayVars
  BY DEF NodeDrop, LocalStarts, LocalEnds, TaskStarts, TaskEnds, TaskAbandoned, ResultLost
<1>2. tasks' \cup wire' \subseteq tasks \cup wire
  BY DEF NodeDrop, LocalStarts, LocalEnds, TaskStarts, TaskEnds, TaskAbandoned, ResultLost
<1>3. LeasesFenced'
  BY <1>1, <1>2, QuietFences DEF relayVars, LeasesFenced
<1>4. linked' \in SUBSET Device /\ dirty' \in SUBSET Device
      /\ tasks' \in SUBSET Task /\ wire' \in SUBSET Task
  BY DEF NodeDrop, LocalStarts, LocalEnds, TaskStarts, TaskEnds, TaskAbandoned, ResultLost,
         GateChanged, TypeOK
<1>5. gate' \in [Device -> Task \cup {None, Local}]
  BY DEF NodeDrop, LocalStarts, LocalEnds, TaskStarts, TaskEnds, TaskAbandoned, ResultLost,
         TypeOK
<1>6. last' \in [Device -> Job \cup {None, Local}]
  BY DEF NodeDrop, LocalStarts, LocalEnds, TaskStarts, TaskEnds, TaskAbandoned, ResultLost,
         TypeOK
<1>7. TypeOK'
  BY <1>1, <1>4, <1>5, <1>6 DEF TypeOK, relayVars
<1>. QED BY <1>3, <1>7

LEMMA StepFences ==
  ASSUME OneWithoutLeases, FenceInv, [Next]_dispatchVars
  PROVE  FenceInv'
<1>1. CASE UNCHANGED dispatchVars
  <2>1. TypeOK'
    BY <1>1 DEF FenceInv, TypeOK, dispatchVars, relayVars, nodeVars
  <2>2. LeasesFenced'
    BY <1>1 DEF FenceInv, LeasesFenced, dispatchVars, relayVars, nodeVars
  <2>. QED BY <2>1, <2>2 DEF FenceInv
<1>2. CASE PlaceNext \/ Resume \/ Hibernate \/ Restart
  BY <1>2, PlacementFences, RelayFences
<1>3. CASE \E j \in Job : JobStep(j)
  BY <1>3, PlacementFences, AnswerFences, RelayFences DEF JobStep
<1>4. CASE \E d \in Device : DeviceStep(d)
  BY <1>4, LossKeepsFences, RelayFences, NodeFences DEF DeviceStep
<1>5. CASE \E t \in tasks \cup wire : TaskStep(t)
  <2>1. PICK t \in tasks \cup wire : TaskStep(t)
    BY <1>5
  <2>2. CASE HandleProgress(t) \/ HandleResult(t)
    BY <2>2, AnswerFences
  <2>3. CASE IgnoreResult(t)
    BY <2>3, RelayFences DEF IgnoreResult
  <2>4. CASE TaskStarts(t) \/ TaskEnds(t) \/ TaskAbandoned(t)
    BY <2>4, NodeFences DEF TaskStarts, TaskEnds, TaskAbandoned
  <2>5. CASE ResultLost(t)
    BY <2>5, NodeFences DEF ResultLost
  <2>. QED BY <2>1, <2>2, <2>3, <2>4, <2>5 DEF TaskStep
<1>6. CASE \E D \in SUBSET Device : CleanupStale(D)
  BY <1>6, LossKeepsFences
<1>. QED BY <1>1, <1>2, <1>3, <1>4, <1>5, <1>6 DEF Next

(* With inline images too, where a job may be given out twice and a result *)
(* may come for a job that waits, only the device a job was last given to  *)
(* is believed, and no lease is newer than the record: provided that all   *)
(* but one of the devices a job may go to echo leases.  (Of two that do    *)
(* not, both given the same job, both would be believed.)                  *)
THEOREM LeasesFenceInlineWork ==
  ASSUME OneWithoutLeases
  PROVE  Spec => [](TypeOK /\ LeaseNamesHolder)
<1>1. Init => FenceInv
  <2>1. ASSUME Init PROVE FenceInv
    <3>1. TypeOK
      BY <2>1, InitDispatchInv DEF DispatchInv
    <3>2. LeasesFenced
      BY <2>1 DEF Init, LeasesFenced
    <3>. QED BY <3>1, <3>2 DEF FenceInv
  <2>. QED BY <2>1
<1>2. FenceInv /\ [Next]_dispatchVars => FenceInv'
  BY StepFences
<1>3. FenceInv => TypeOK /\ LeaseNamesHolder
  BY DEF FenceInv, LeasesFenced, Fenced, LeaseNamesHolder, HasCurrentLease
<1>. QED BY <1>1, <1>2, <1>3, PTL DEF Spec
=============================================================================
