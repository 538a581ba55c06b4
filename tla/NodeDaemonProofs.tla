-------------------------- MODULE NodeDaemonProofs --------------------------
(***************************************************************************)
(* Theorems about the headless daemon, for any number of tasks.            *)
(*                                                                         *)
(* What the gate alone guarantees (GateInv) goes through every step of the *)
(* daemon, restarts and kills included.  What the daemon adds is that a    *)
(* shutdown is a drain nobody takes back: the tick, which alone resumes    *)
(* the gate, no longer looks at the drain file once stopping is set, and   *)
(* the agent is only told to stop when the drained gate is empty.          *)
(***************************************************************************)
EXTENDS NodeDaemon, WorkGateProofs

DaemonTypes ==
  /\ drainFile \in BOOLEAN
  /\ agent \in {"off", "up", "closing", "gone"}
  /\ stopping \in BOOLEAN /\ stopSent \in BOOLEAN
  /\ tick \in {"idle", "drain", "none", "health"}

(* A signal came in between two ticks, and drained the gate.               *)
StoppingDrains == stopping => ~gate.accepting /\ tick \in {"idle", "health"}

(* The agent is told to stop by a daemon that stops and whose gate is      *)
(* drained and empty.                                                      *)
StopFindsDrained == stopSent => stopping /\ gate = Drained

DaemonInv == GateInv /\ DaemonTypes /\ StoppingDrains /\ StopFindsDrained

-----------------------------------------------------------------------------
(* What the gate's steps mean for a gate that refuses work.                *)

LEMMA GateShapes ==
  /\ Idle.accepting = TRUE /\ Drained.accepting = FALSE
  /\ Idle.owner = None /\ Drained.owner = Drain
BY DEF Idle, Drained

(* Only resume and a new process make a gate accept work again.            *)
LEMMA RefusingStays ==
  ASSUME GateInv, ~gate.accepting, NEW t \in Task, TaskStep(t) \/ BeginDrain
  PROVE  ~gate'.accepting
<1>1. CASE TaskStep(t)
  <2>1. CASE Finish(t)
    BY <2>1, GateShapes DEF Finish
  <2>2. CASE ~Finish(t)
    BY <1>1, <2>2 DEF TaskStep, Call, SeeAccepting, Grab, Cancel, TryCall, TryGrab, TryBusy,
       Admit, Refuse, Release
  <2> QED
    BY <2>1, <2>2
<1>2. CASE BeginDrain
  BY <1>2 DEF BeginDrain, AfterBeginDrain
<1> QED
  BY <1>1, <1>2

(* Nothing happens on the device behind a drained gate.                    *)
LEMMA DrainedStays ==
  ASSUME GateInv, gate = Drained, NEW t \in Task, TaskStep(t)
  PROVE  gate' = Drained
<1>1. pc[t] # "running"
  BY GateShapes, GateConstants, DaemonConstants
  DEF GateConstants, DaemonConstants, GateInv, GateTellsTruth, Task
<1>2. ~gate.accepting
  BY GateShapes
<1> QED
  BY <1>1, <1>2 DEF TaskStep, Call, SeeAccepting, Grab, Cancel, TryCall, TryGrab, TryBusy,
     Admit, Refuse, Finish, Release

LEMMA QuietMeansDrained ==
  ASSUME GateInv, ControlOwned
  PROVE  gate = Drained
<1>1. gate.owner = Drain
  BY DaemonConstants DEF DaemonConstants, ControlOwned
<1>2. gate # Idle
  BY <1>1, GateShapes, GateConstants DEF GateConstants
<1>3. gate \notin [busy : {TRUE}, accepting : BOOLEAN, owner : Task]
  BY <1>1, GateConstants DEF GateConstants, Task
<1> QED
  BY <1>2, <1>3 DEF GateInv, TypeOK

LEMMA GateUntouched ==
  ASSUME GateInv, UNCHANGED gateVars
  PROVE  GateInv'
BY DEF gateVars, GateInv, TypeOK, PermitAccounted, GateTellsTruth

LEMMA FreshGateInv ==
  ASSUME Fresh, gate' \in {Idle, Drained}
  PROVE  GateInv'
<1>1. pc' = [t \in Task |-> "off"] /\ permit' = None
  BY DEF Fresh
<1>2. gate'.owner \in {None, Drain}
  BY GateShapes
<1>3. TypeOK'
  BY <1>1 DEF TypeOK, PC
<1>4. PermitAccounted'
  BY <1>1, GateConstants DEF GateConstants, PermitAccounted, Task, Holding
<1>5. GateTellsTruth'
  BY <1>1, <1>2, GateConstants DEF GateConstants, GateTellsTruth, Task
<1> QED
  BY <1>3, <1>4, <1>5 DEF GateInv

-----------------------------------------------------------------------------
(* Each step keeps the invariant                                           *)

LEMMA InitDaemonInv == DaemonInit => DaemonInv
BY InitGateInv DEF DaemonInit, DaemonInv, DaemonTypes, StoppingDrains, StopFindsDrained

(* A new process, or none.                                                 *)
LEMMA FreshDaemonInv ==
  ASSUME DaemonInv, Boot \/ Exit \/ Kill
  PROVE  DaemonInv'
<1>1. Fresh /\ gate' \in {Idle, Drained} /\ drainFile' = drainFile /\ agent' \in {"up", "off"}
  BY DEF Boot, Exit, Kill
<1>2. GateInv'
  BY <1>1, FreshGateInv
<1> QED
  BY <1>1, <1>2 DEF DaemonInv, DaemonTypes, StoppingDrains, StopFindsDrained, Fresh

(* What the gate's tasks do.                                               *)
LEMMA WorkDaemonInv ==
  ASSUME DaemonInv, NEW t \in Task, NewWork(t) \/ OldWork(t)
  PROVE  DaemonInv'
<1>1. TaskStep(t) /\ UNCHANGED daemonVars
  BY DEF NewWork, OldWork, TaskStep
<1>2. GateInv'
  BY <1>1, StepGateInv DEF DaemonInv, Next
<1>3. StoppingDrains'
  BY <1>1, RefusingStays DEF DaemonInv, StoppingDrains, daemonVars
<1>4. StopFindsDrained'
  BY <1>1, DrainedStays DEF DaemonInv, StopFindsDrained, daemonVars
<1> QED
  BY <1>1, <1>2, <1>3, <1>4 DEF DaemonInv, DaemonTypes, daemonVars

LEMMA StepDaemonInv == DaemonInv /\ [DaemonNext]_vars => DaemonInv'
<1> SUFFICES ASSUME DaemonInv, [DaemonNext]_vars PROVE DaemonInv'
  OBVIOUS
<1> USE DEF DaemonInv, DaemonTypes, StoppingDrains, StopFindsDrained
<1>1. CASE Boot \/ Exit \/ Kill
  BY <1>1, FreshDaemonInv
<1>2. CASE OperatorDrain \/ OperatorResume
  <2>1. UNCHANGED <<gateVars, agent, stopping, stopSent, tick>> /\ drainFile' \in BOOLEAN
    BY <1>2 DEF OperatorDrain, OperatorResume
  <2>2. GateInv'
    BY <2>1, GateUntouched
  <2> QED
    BY <2>1, <2>2 DEF gateVars
<1>3. CASE Signal
  <2>1. BeginDrain /\ tick = "idle" /\ ~stopping /\ stopping' /\ tick' = tick
        /\ stopSent' = stopSent /\ drainFile' = drainFile /\ agent' = agent
    BY <1>3 DEF Signal
  <2>2. GateInv'
    BY <2>1, StepGateInv DEF Next
  <2>3. ~gate'.accepting
    BY <2>1 DEF BeginDrain, AfterBeginDrain
  <2>4. stopping' \in BOOLEAN
    BY <1>3 DEF Signal
  <2> QED
    BY <2>1, <2>2, <2>3, <2>4
<1>4. CASE TickLooks
  BY <1>4, GateUntouched DEF TickLooks, gateVars
<1>5. CASE TickObeys
  <2>1. ~stopping /\ ~stopSent /\ tick' = "health"
        /\ UNCHANGED <<drainFile, agent, stopping, stopSent>>
    BY <1>5 DEF TickObeys
  <2>2. BeginDrain \/ Resume \/ UNCHANGED gateVars
    BY <1>5 DEF TickObeys
  <2>3. GateInv'
    BY <2>2, StepGateInv DEF Next
  <2> QED
    BY <2>1, <2>3
<1>6. CASE TickEnds
  <2>1. UNCHANGED <<gateVars, drainFile, agent, stopping>> /\ tick' = "idle"
        /\ stopSent' = (stopSent \/ (stopping /\ ControlOwned))
    BY <1>6 DEF TickEnds
  <2>2. GateInv'
    BY <2>1, GateUntouched
  <2>3. stopSent' => stopping /\ gate = Drained
    BY <2>1, QuietMeansDrained
  <2>4. gate' = gate
    BY <2>1 DEF gateVars
  <2> QED
    BY <2>1, <2>2, <2>3, <2>4
<1>7. CASE AgentStops \/ SignInRequired \/ AgentEnds
  BY <1>7, GateUntouched DEF AgentStops, SignInRequired, AgentEnds, gateVars
<1>8. ASSUME NEW t \in Task, NewWork(t) \/ OldWork(t) PROVE DaemonInv'
  BY <1>8, WorkDaemonInv
<1>9. CASE UNCHANGED vars
  BY <1>9, GateUntouched DEF vars, daemonVars, gateVars
<1> QED
  BY <1>1, <1>2, <1>3, <1>4, <1>5, <1>6, <1>7, <1>8, <1>9 DEF DaemonNext

-----------------------------------------------------------------------------
(* Through boots, kills, signals, ticks and the operator's commands, in    *)
(* any order, the gate stays sound, and an agent that was told to stop     *)
(* finds nothing running on the device and a gate that lets nothing in.    *)
THEOREM DaemonStopsQuietly ==
  DaemonSpec => [](DaemonTypeOK /\ PermitAccounted /\ GateTellsTruth /\ StopIsQuiet)
<1>1. DaemonInit => DaemonInv
  BY InitDaemonInv
<1>2. DaemonInv /\ [DaemonNext]_vars => DaemonInv'
  BY StepDaemonInv
<1>3. ASSUME DaemonInv, stopSent PROVE ~gate.accepting /\ \A t \in Task : pc[t] # "running"
  <2>1. gate = Drained
    BY <1>3 DEF DaemonInv, StopFindsDrained
  <2> QED
    BY <2>1, <1>3, GateShapes, GateConstants, DaemonConstants
    DEF GateConstants, DaemonConstants, DaemonInv, GateInv, GateTellsTruth, Task
<1>4. DaemonInv => DaemonTypeOK /\ PermitAccounted /\ GateTellsTruth /\ StopIsQuiet
  BY <1>3 DEF DaemonInv, DaemonTypes, DaemonTypeOK, GateInv, StopIsQuiet
<1> QED
  BY <1>1, <1>2, <1>4, PTL DEF DaemonSpec

(* A refusal outlives the tick that looked before the file was written,    *)
(* the process, and its successors: only the file's removal ends it.       *)
LEMMA DrainStep ==
  ASSUME DaemonInv, [DaemonNext]_vars, drainFile, drainFile',
         ~Running \/ (~gate.accepting /\ tick # "none"),
         agent' # "off"
  PROVE  ~gate'.accepting
<1>1. CASE Boot
  BY <1>1, GateShapes DEF Boot
<1>2. CASE Exit \/ Kill
  BY <1>2 DEF Exit, Kill
<1>3. CASE OperatorDrain \/ OperatorResume \/ TickLooks \/ TickEnds
  BY <1>3 DEF OperatorDrain, OperatorResume, TickLooks, TickEnds, gateVars, Running
<1>4. CASE Signal
  BY <1>4 DEF Signal, BeginDrain, AfterBeginDrain
<1>5. CASE TickObeys
  <2>1. agent' = agent
    BY <1>5 DEF TickObeys
  <2>2. BeginDrain
    BY <1>5, <2>1 DEF TickObeys, Running
  <2> QED
    BY <2>2 DEF BeginDrain, AfterBeginDrain
<1>6. CASE AgentStops \/ SignInRequired \/ AgentEnds
  BY <1>6 DEF AgentStops, SignInRequired, AgentEnds, gateVars, Running
<1>7. ASSUME NEW t \in Task, NewWork(t) \/ OldWork(t) PROVE ~gate'.accepting
  <2>1. TaskStep(t) /\ UNCHANGED daemonVars
    BY <1>7 DEF NewWork, OldWork, TaskStep
  <2>2. ~gate.accepting
    BY <2>1 DEF daemonVars, Running
  <2> QED
    BY <2>1, <2>2, RefusingStays DEF DaemonInv
<1>8. CASE UNCHANGED vars
  BY <1>8 DEF vars, daemonVars, gateVars, Running
<1> QED
  BY <1>1, <1>2, <1>3, <1>4, <1>5, <1>6, <1>7, <1>8 DEF DaemonNext

(* Drain intent persists on disk: see DrainPersists.                       *)
THEOREM DrainIntentPersists == DaemonSpec => DrainPersists
<1>1. DaemonInit => DaemonInv
  BY InitDaemonInv
<1>2. DaemonInv /\ [DaemonNext]_vars => DaemonInv'
  BY StepDaemonInv
<1>3. DaemonInv /\ [DaemonNext]_vars
        => [drainFile /\ drainFile' /\ (~Running \/ (~gate.accepting /\ tick # "none"))
              => ~(agent' # "off" /\ gate'.accepting)]_vars
  BY DrainStep
<1> QED
  BY <1>1, <1>2, <1>3, PTL DEF DaemonSpec, DrainPersists
=============================================================================
