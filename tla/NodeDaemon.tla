----------------------------- MODULE NodeDaemon -----------------------------
(***************************************************************************)
(* The headless node daemon (node/headless/src/daemon.rs, serve, and the   *)
(* drain and resume subcommands): one process that composes the device     *)
(* work gate with the agent, a one-second ticker, the drain file an        *)
(* operator writes and removes from another process, and SIGTERM.          *)
(*                                                                         *)
(* The gate is WorkGate's, with its actions; nobody acquires as a barrier  *)
(* here.  The agent is reduced to what the daemon sees of it: while it is  *)
(* up, work arrives; it ends by itself only when sign-in is required; once *)
(* it closes, its tasks are cancelled and it ends when they are gone.      *)
(* The tick reads the drain file and acts on what it read: the operator's  *)
(* commands may come in between.                                           *)
(* A definition Name_what is a mutant of Name.                             *)
(***************************************************************************)
EXTENDS WorkGate

(* Nothing in serve acquires the gate as "node-control".                   *)
ASSUME DaemonConstants == Barrier = {}

VARIABLES
  drainFile,  \* does <state-dir>/drain exist?
  agent,      \* "off", "up", "closing", "gone"
  stopping,   \* SIGTERM or Ctrl-C was received
  stopSent,   \* the value of the agent's stop channel
  tick        \* "idle", what the tick saw ("drain", "none"), or "health"

daemonVars == <<drainFile, agent, stopping, stopSent, tick>>
vars == <<gateVars, daemonVars>>

Running == agent # "off"

DaemonInit ==
  /\ Init
  /\ drainFile = FALSE
  /\ agent = "off"
  /\ stopping = FALSE
  /\ stopSent = FALSE
  /\ tick = "idle"

Fresh ==
  /\ pc' = [t \in Task |-> "off"]
  /\ permit' = None
  /\ stopping' = FALSE
  /\ stopSent' = FALSE
  /\ tick' = "idle"

-----------------------------------------------------------------------------
Boot_ignoresFile ==
  /\ agent = "off"
  /\ Fresh
  /\ gate' = Idle
  /\ agent' = "up"
  /\ UNCHANGED drainFile

(* serve up to its loop: the gate drains before the agent is spawned.      *)
Boot ==
  /\ agent = "off"
  /\ Fresh
  /\ gate' = IF drainFile THEN Drained ELSE Idle
  /\ agent' = "up"
  /\ UNCHANGED drainFile

(* The operator's subcommands, in a process of their own.                  *)
OperatorDrain ==
  /\ drainFile' = TRUE
  /\ UNCHANGED <<gateVars, agent, stopping, stopSent, tick>>

OperatorResume ==
  /\ drainFile' = FALSE
  /\ UNCHANGED <<gateVars, agent, stopping, stopSent, tick>>

Signal ==
  /\ agent \in {"up", "closing"}
  /\ tick = "idle"
  /\ ~stopping
  /\ stopping' = TRUE
  /\ BeginDrain
  /\ UNCHANGED <<drainFile, agent, stopSent, tick>>

-----------------------------------------------------------------------------
(* One tick: look for the file, obey it, write the health file, and stop   *)
(* the agent once the gate shows that a shutdown may go on.                *)
TickLooks ==
  /\ agent \in {"up", "closing"}
  /\ tick = "idle"
  /\ tick' = IF stopping THEN "health" ELSE IF drainFile THEN "drain" ELSE "none"
  /\ UNCHANGED <<gateVars, drainFile, agent, stopping, stopSent>>

TickObeys_never ==
  /\ tick \in {"drain", "none"}
  /\ tick' = "health"
  /\ \/ tick = "drain" /\ BeginDrain
     \/ tick = "none" /\ UNCHANGED gateVars
  /\ UNCHANGED <<drainFile, agent, stopping, stopSent>>

TickObeys ==
  /\ tick \in {"drain", "none"}
  /\ tick' = "health"
  /\ \/ tick = "drain" /\ BeginDrain
     \/ tick = "none" /\ ~gate.accepting /\ Resume
     \/ tick = "none" /\ gate.accepting /\ UNCHANGED gateVars
  /\ UNCHANGED <<drainFile, agent, stopping, stopSent>>

TickEnds_atOnce ==
  /\ tick = "health"
  /\ tick' = "idle"
  /\ stopSent' = (stopSent \/ stopping)
  /\ UNCHANGED <<gateVars, drainFile, agent, stopping>>

TickEnds_neverStops ==
  /\ tick = "health"
  /\ tick' = "idle"
  /\ UNCHANGED <<gateVars, drainFile, agent, stopping, stopSent>>

TickEnds ==
  /\ tick = "health"
  /\ tick' = "idle"
  /\ stopSent' = (stopSent \/ (stopping /\ ControlOwned))
  /\ UNCHANGED <<gateVars, drainFile, agent, stopping>>

-----------------------------------------------------------------------------
(* The agent: it closes its connection when it is told to stop, or when    *)
(* the broker asks for a new sign-in.  Teardown cancels what waits.        *)
AgentStops ==
  /\ agent = "up"
  /\ stopSent
  /\ agent' = "closing"
  /\ UNCHANGED <<gateVars, drainFile, stopping, stopSent, tick>>

SignInRequired ==
  /\ agent = "up"
  /\ agent' = "closing"
  /\ UNCHANGED <<gateVars, drainFile, stopping, stopSent, tick>>

AgentEnds ==
  /\ agent = "closing"
  /\ \A t \in Task : pc[t] = "off"
  /\ agent' = "gone"
  /\ UNCHANGED <<gateVars, drainFile, stopping, stopSent, tick>>

(* serve returns (the last health file is written) between two ticks, or   *)
(* the process is killed.                                                  *)
Exit ==
  /\ agent = "gone"
  /\ tick = "idle"
  /\ agent' = "off"
  /\ Fresh
  /\ gate' = Idle
  /\ UNCHANGED drainFile

Kill ==
  /\ Running
  /\ agent' = "off"
  /\ Fresh
  /\ gate' = Idle
  /\ UNCHANGED drainFile

(* New work arrives over the connection only; the rest of a task goes on.  *)
NewWork(t) ==
  /\ agent = "up"
  /\ Call(t) \/ TryCall(t)
  /\ UNCHANGED daemonVars

OldWork(t) ==
  /\ Running
  /\ \/ SeeAccepting(t) \/ Grab(t) \/ TryGrab(t) \/ TryBusy(t)
     \/ Admit(t) \/ Refuse(t) \/ Cancel(t) \/ Finish(t) \/ Release(t)
  /\ UNCHANGED daemonVars

DaemonNext ==
  \/ Boot \/ OperatorDrain \/ OperatorResume \/ Signal
  \/ TickLooks \/ TickObeys \/ TickEnds
  \/ AgentStops \/ SignInRequired \/ AgentEnds \/ Exit \/ Kill
  \/ \E t \in Task : NewWork(t) \/ OldWork(t)

DaemonSpec == DaemonInit /\ [][DaemonNext]_vars

(* The select loop polls its ticker, tasks are polled, work ends, and      *)
(* teardown cancels waiting tasks.  Nobody owes us signals, operator       *)
(* commands, work or restarts.                                             *)
Fairness ==
  /\ WF_vars(TickLooks) /\ WF_vars(TickObeys) /\ WF_vars(TickEnds)
  /\ WF_vars(AgentStops) /\ WF_vars(AgentEnds) /\ WF_vars(Exit)
  /\ \A t \in Task :
       /\ WF_vars(Running /\ (Admit(t) \/ Refuse(t)) /\ UNCHANGED daemonVars)
       /\ WF_vars(Running /\ (Finish(t) \/ Release(t)) /\ UNCHANGED daemonVars)
       /\ WF_vars(Running /\ (TryGrab(t) \/ TryBusy(t)) /\ UNCHANGED daemonVars)
       /\ WF_vars(agent = "closing" /\ Cancel(t) /\ UNCHANGED daemonVars)

FairDaemonSpec == DaemonSpec /\ Fairness

-----------------------------------------------------------------------------
DaemonTypeOK ==
  /\ TypeOK
  /\ drainFile \in BOOLEAN
  /\ agent \in {"off", "up", "closing", "gone"}
  /\ stopping \in BOOLEAN /\ stopSent \in BOOLEAN
  /\ tick \in {"idle", "drain", "none", "health"}

(* node/headless/README.md: SIGTERM keeps the Relay connection alive until *)
(* active work releases its permit.  Once the agent is told to stop,       *)
(* nothing executes, and nothing can start although tasks may still wait.  *)
StopIsQuiet ==
  stopSent => /\ ~gate.accepting
              /\ \A t \in Task : pc[t] # "running"

(* Drain intent persists on disk: a daemon that once refuses work, or that *)
(* starts under the file, takes work again only after an operator removed  *)
(* the file, through restarts and kills.                                   *)
DrainPersists ==
  [][drainFile /\ drainFile' /\ (~Running \/ (~gate.accepting /\ tick # "none"))
       => ~(agent' # "off" /\ gate'.accepting)]_vars

(* A signalled daemon is gone in the end, whatever waits in the gate.      *)
SignalEnds == stopping ~> ~Running

(* The file is obeyed both ways: while it stays, the device becomes quiet; *)
(* when it is gone for good, a daemon that keeps running accepts again.    *)
FileIsObeyed ==
  /\ <>[](drainFile /\ Running) => <>[](gate.owner = Drain)
  /\ <>[](~drainFile /\ agent = "up" /\ ~stopping) => <>[](gate.accepting)
=============================================================================
