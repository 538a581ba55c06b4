--------------------------- MODULE WorkGateProofs ---------------------------
(* Theorems about the device work gate, for any number of tasks.           *)
EXTENDS WorkGate, TLAPS

(* Permit accounting and the truth of the published state only hold        *)
(* together: a running worker keeps its name on the gate because nobody    *)
(* else can own the permit, and the permit is accounted for because every  *)
(* task that owns it is in one of four places.                             *)
GateInv == TypeOK /\ PermitAccounted /\ GateTellsTruth

LEMMA InitGateInv == Init => GateInv
BY GateConstants DEF GateConstants, Init, GateInv, TypeOK, PermitAccounted, GateTellsTruth, Task, PC,
   Waiting, Holding, Idle, Drained

LEMMA StepGateInv == GateInv /\ [Next]_gateVars => GateInv'
<1> SUFFICES ASSUME GateInv, [Next]_gateVars PROVE GateInv'
  OBVIOUS
<1> USE GateConstants DEF GateConstants
<1>1. ASSUME NEW t \in Task, TaskStep(t) PROVE GateInv'
  <2> USE <1>1 DEF GateInv, TypeOK, PermitAccounted, GateTellsTruth, Task, PC,
                   Waiting, Holding, Idle, Drained, Goto
  <2>1. CASE Call(t)         BY <2>1 DEF Call
  <2>2. CASE SeeAccepting(t) BY <2>2 DEF SeeAccepting
  <2>3. CASE Grab(t)         BY <2>3 DEF Grab
  <2>4. CASE Cancel(t)       BY <2>4 DEF Cancel
  <2>5. CASE TryCall(t)      BY <2>5 DEF TryCall
  <2>6. CASE TryGrab(t)      BY <2>6 DEF TryGrab
  <2>7. CASE TryBusy(t)      BY <2>7 DEF TryBusy
  <2>8. CASE Admit(t)        BY <2>8 DEF Admit
  <2>9. CASE Refuse(t)       BY <2>9 DEF Refuse
  <2>10. CASE Finish(t)      BY <2>10 DEF Finish
  <2>11. CASE Release(t)     BY <2>11 DEF Release
  <2>12. QED
    BY <1>1, <2>1, <2>2, <2>3, <2>4, <2>5, <2>6, <2>7, <2>8, <2>9, <2>10, <2>11
    DEF TaskStep
<1>2. CASE BeginDrain
  <2>1. pc' = pc /\ permit' = permit
    BY <1>2 DEF BeginDrain
  <2>2. gate \in {Idle, Drained} => gate' = Drained
    <3>1. gate = Idle => gate.busy = FALSE
      BY DEF Idle
    <3>2. gate = Drained => gate.owner = Drain
      BY DEF Drained
    <3>3. gate \in {Idle, Drained} => (IF gate.busy THEN gate.owner ELSE Drain) = Drain
      BY <3>1, <3>2
    <3>4. QED
      BY <1>2, <3>3, Zenon DEF BeginDrain, AfterBeginDrain, Drained
  <2>3. gate \in [busy : {TRUE}, accepting : BOOLEAN, owner : Task]
          => /\ gate' \in [busy : {TRUE}, accepting : BOOLEAN, owner : Task]
             /\ gate'.owner = gate.owner
    BY <1>2 DEF BeginDrain, AfterBeginDrain
  <2>4. Idle.owner \notin Task /\ Drained.owner \notin Task
    BY DEF Idle, Drained, Task
  <2>5. TypeOK'
    BY <2>1, <2>2, <2>3 DEF GateInv, TypeOK
  <2>6. GateTellsTruth'
    BY <2>1, <2>2, <2>3, <2>4 DEF GateInv, TypeOK, GateTellsTruth, Task
  <2>7. QED
    BY <2>1, <2>5, <2>6 DEF GateInv, PermitAccounted
<1>3. CASE Resume
  <2>1. pc' = pc /\ permit' = permit
    BY <1>3 DEF Resume
  <2>2. Idle.owner \notin Task /\ Drained.owner \notin Task
    BY DEF Idle, Drained, Task
  <2>3. CASE ControlOwned \/ gate = Idle
    <3>1. gate' = Idle
      <4>1. CASE ControlOwned
        BY <1>3, <4>1 DEF Resume, AfterResume
      <4>2. CASE gate = Idle
        BY <1>3, <4>2, Zenon DEF Resume, AfterResume, Idle
      <4>3. QED
        BY <2>3, <4>1, <4>2
    <3>2. \A w \in Worker : pc[w] # "running"
      BY <2>2, <2>3 DEF ControlOwned, GateInv, GateTellsTruth, Task
    <3>3. QED
      BY <2>1, <2>2, <3>1, <3>2 DEF GateInv, TypeOK, PermitAccounted, GateTellsTruth, Task
  <2>4. CASE ~(ControlOwned \/ gate = Idle)
    <3>1. gate \in [busy : {TRUE}, accepting : BOOLEAN, owner : Task]
      <4>1. gate = Drained => ControlOwned
        BY DEF Drained, ControlOwned
      <4>2. QED
        BY <2>4, <4>1, Zenon DEF GateInv, TypeOK
    <3>2. /\ gate' \in [busy : {TRUE}, accepting : BOOLEAN, owner : Task]
          /\ gate'.owner = gate.owner
      BY <1>3, <2>4, <3>1 DEF Resume, AfterResume
    <3>3. QED
      BY <2>1, <3>2 DEF GateInv, TypeOK, PermitAccounted, GateTellsTruth
  <2>5. QED
    BY <2>3, <2>4
<1>4. CASE UNCHANGED gateVars
  BY <1>4 DEF gateVars, GateInv, TypeOK, PermitAccounted, GateTellsTruth
<1>5. QED
  BY <1>1, <1>2, <1>3, <1>4 DEF Next

(* No interleaving of requests, live sessions, drains and resumes leaks or *)
(* doubles the permit, or makes the gate publish something untrue.         *)
THEOREM GateInvariant == Spec => [](TypeOK /\ PermitAccounted /\ GateTellsTruth)
<1>1. Init => GateInv
  BY InitGateInv
<1>2. GateInv /\ [Next]_gateVars => GateInv'
  BY StepGateInv
<1>3. GateInv => TypeOK /\ PermitAccounted /\ GateTellsTruth
  BY DEF GateInv
<1>4. QED
  BY <1>1, <1>2, <1>3, PTL DEF Spec

(* Who occupies the slot: the one worker whose work is executing.          *)
LEMMA OccupantIsRunning ==
  ASSUME GateInv, NEW w \in Worker
  PROVE  occupant = w <=> pc[w] = "running"
BY GateConstants DEF GateConstants, GateInv, TypeOK, PermitAccounted, occupant, Task, Holding

LEMMA OccupantType == GateInv => occupant \in Worker \cup {None}
BY DEF occupant

(* A step that leaves every worker's "running" alone leaves the occupant   *)
(* alone.                                                                  *)
LEMMA OccupantUnchanged ==
  ASSUME GateInv, GateInv', \A w \in Worker : pc'[w] = "running" <=> pc[w] = "running"
  PROVE  occupant' = occupant
<1>1. \A w \in Worker : occupant = w <=> pc[w] = "running"
  BY OccupantIsRunning
<1>2. \A w \in Worker : occupant' = w <=> pc'[w] = "running"
  BY GateConstants DEF GateConstants, GateInv, TypeOK, PermitAccounted, occupant, Task, Holding
<1>3. occupant \in Worker \cup {None} /\ occupant' \in Worker \cup {None}
  BY DEF occupant
<1>4. None \notin Worker
  BY GateConstants DEF GateConstants
<1>5. QED
  BY <1>1, <1>2, <1>3, <1>4

(* Every step of the gate is a step of the slot or invisible to it.        *)
LEMMA StepImplementsSlot == GateInv /\ GateInv' /\ [Next]_gateVars => [Slot!Next]_(Slot!slotVars)
<1> SUFFICES ASSUME GateInv, GateInv', [Next]_gateVars
             PROVE  [Slot!Next]_(Slot!slotVars)
  OBVIOUS
<1> USE GateConstants DEF GateConstants
<1>1. ASSUME NEW t \in Task, TaskStep(t), ~Admit(t), ~Finish(t)
      PROVE  UNCHANGED Slot!slotVars
  <2>1. gate' = gate /\ \A u \in Task : pc'[u] = "running" <=> pc[u] = "running"
    BY <1>1 DEF TaskStep, Call, SeeAccepting, Grab, Cancel, TryCall, TryGrab, TryBusy,
       Refuse, Release, Goto, GateInv, TypeOK
  <2>2. occupant' = occupant
    BY <2>1, OccupantUnchanged DEF Task
  <2>3. QED
    BY <2>1, <2>2 DEF Slot!slotVars
<1>2. ASSUME NEW t \in Task, Admit(t)
      PROVE  [Slot!Next]_(Slot!slotVars)
  <2>1. permit = t /\ gate.accepting /\ gate'.accepting = gate.accepting
    BY <1>2 DEF Admit, GateInv, TypeOK, PermitAccounted, Holding
  <2>2. pc'[t] = "running" /\ pc[t] # "running" /\ permit' = permit
    BY <1>2 DEF Admit, Goto, GateInv, TypeOK
  <2>3. CASE t \in Worker
    <3>1. occupant = None /\ occupant' = t
      BY <2>1, <2>2, <2>3 DEF occupant
    <3>2. Slot!Start(t)
      BY <2>1, <3>1 DEF Slot!Start
    <3>3. QED
      BY <2>3, <3>2 DEF Slot!Next
  <2>4. CASE t \notin Worker
    <3>1. occupant = None /\ occupant' = None
      BY <2>1, <2>2, <2>4 DEF occupant
    <3>2. QED
      BY <2>1, <3>1 DEF Slot!slotVars
  <2>5. QED
    BY <2>3, <2>4
<1>3. ASSUME NEW t \in Task, Finish(t)
      PROVE  [Slot!Next]_(Slot!slotVars)
  <2>1. permit = t /\ pc[t] = "running" /\ permit' = t /\ pc'[t] # "running"
    BY <1>3 DEF Finish, Goto, GateInv, TypeOK, PermitAccounted, Holding
  <2>2. gate'.accepting = gate.accepting
    <3>1. Idle.accepting = TRUE /\ Drained.accepting = FALSE
      BY DEF Idle, Drained
    <3>2. gate.accepting \in BOOLEAN
      BY <3>1, Zenon DEF GateInv, TypeOK
    <3>3. gate' = IF gate.accepting THEN Idle ELSE Drained
      BY <1>3 DEF Finish
    <3>4. QED
      BY <3>1, <3>2, <3>3, Zenon
  <2>3. occupant' = None
    BY <2>1 DEF occupant
  <2>4. CASE t \in Worker
    <3>1. occupant # None
      BY <2>1, <2>4 DEF occupant
    <3>2. QED
      BY <2>2, <2>3, <3>1 DEF Slot!End, Slot!Next
  <2>5. CASE t \notin Worker
    <3>1. occupant = None
      BY <2>1, <2>5 DEF occupant
    <3>2. QED
      BY <2>2, <2>3, <3>1 DEF Slot!slotVars
  <2>6. QED
    BY <2>4, <2>5
<1>4. CASE BeginDrain \/ Resume
  <2>1. gate'.accepting \in BOOLEAN
    <3>1. gate' \in {Idle, Drained}
            \/ gate' \in [busy : {TRUE}, accepting : BOOLEAN, owner : Task]
      BY DEF GateInv, TypeOK
    <3>2. Idle.accepting \in BOOLEAN /\ Drained.accepting \in BOOLEAN
      BY DEF Idle, Drained
    <3>3. gate' \in [busy : {TRUE}, accepting : BOOLEAN, owner : Task]
            => gate'.accepting \in BOOLEAN
      OBVIOUS
    <3>4. QED
      BY <3>1, <3>2, <3>3
  <2>2. occupant' = occupant
    BY <1>4 DEF BeginDrain, Resume, occupant
  <2>3. QED
    BY <2>1, <2>2 DEF Slot!Switch, Slot!Next
<1>5. CASE UNCHANGED gateVars
  BY <1>5 DEF gateVars, occupant, Slot!slotVars
<1>6. QED
  BY <1>1, <1>2, <1>3, <1>4, <1>5 DEF Next

(* The gate keeps the promise of WorkSlot: one request executes at a time  *)
(* and none starts while the gate drains, for any number of requests,      *)
(* live sessions and stop barriers.                                        *)
THEOREM GateImplementsSlot == Spec => ImplementsSlot
<1>1. Init => Slot!Init
  BY GateConstants DEF GateConstants, Init, Slot!Init, Idle, occupant
<1>2. GateInv /\ GateInv' /\ [Next]_gateVars => [Slot!Next]_(Slot!slotVars)
  BY StepImplementsSlot
<1>3. Init => GateInv
  BY InitGateInv
<1>4. GateInv /\ [Next]_gateVars => GateInv'
  BY StepGateInv
<1>5. QED
  BY <1>1, <1>2, <1>3, <1>4, PTL DEF Spec, ImplementsSlot, Slot!Spec
=============================================================================
