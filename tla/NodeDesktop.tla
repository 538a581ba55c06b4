---------------------------- MODULE NodeDesktop ----------------------------
(***************************************************************************)
(* The desktop node: the commands of node/src-tauri/src/lib.rs over the    *)
(* device work gate, called one at a time by node/src/App.tsx, which       *)
(* disables its buttons from a click until the command returns (`busy').   *)
(* stop and sign-out begin a drain and then acquire the gate as a barrier, *)
(* "node-control", to learn that the active work is over.                  *)
(***************************************************************************)
EXTENDS WorkGate

(* The barrier task of the command under way.                              *)
control == CHOOSE b \in Barrier : TRUE

VARIABLES
  ui,        \* busy in App.tsx: "", "stop" or "sign-out"
  signedIn,  \* is there a broker session?
  running,   \* NodeState.running: run_agent has not returned
  stopTx     \* NodeState.stop_tx: "none", "armed", "sent" (taken and used)

deskVars == <<ui, signedIn, running, stopTx>>
vars == <<gateVars, deskVars>>

DeskInit ==
  /\ Init
  /\ ui = ""
  /\ signedIn = TRUE
  /\ running = FALSE
  /\ stopTx = "none"

start_node ==
  /\ ui = "" /\ signedIn /\ ~running
  /\ running' = TRUE
  /\ stopTx' = "armed"
  /\ Resume
  /\ UNCHANGED <<ui, signedIn>>

drain_node == ui = "" /\ running /\ BeginDrain /\ UNCHANGED deskVars

resume_node == ui = "" /\ running /\ Resume /\ UNCHANGED deskVars

(* begin_drain, and the call of acquire that follows without a pause.      *)
DrainThenAcquire ==
  /\ gate' = AfterBeginDrain
  /\ Goto(control, "gating")
  /\ UNCHANGED permit

StopAgent == stopTx' = IF stopTx = "armed" THEN "sent" ELSE stopTx

stop_node ==
  /\ ui = "" /\ running
  /\ ui' = "stop"
  /\ DrainThenAcquire
  /\ UNCHANGED <<signedIn, running, stopTx>>

(* sign_out stops the agent first and waits afterwards.                    *)
sign_out ==
  /\ ui = "" /\ signedIn
  /\ ui' = "sign-out"
  /\ DrainThenAcquire
  /\ StopAgent
  /\ UNCHANGED <<signedIn, running>>

(* The barrier is held: stop_node stops the agent now; the barrier drops.  *)
BarrierHeld ==
  /\ Finish(control)
  /\ IF ui = "stop" THEN StopAgent ELSE UNCHANGED stopTx
  /\ UNCHANGED <<ui, signedIn, running>>

CommandReturns ==
  /\ ui # "" /\ pc[control] = "off"
  /\ ui' = ""
  /\ signedIn' = (signedIn /\ ui # "sign-out")
  /\ UNCHANGED <<gateVars, running, stopTx>>

ControlStep ==
  /\ SeeAccepting(control) \/ Grab(control) \/ Admit(control)
     \/ Refuse(control) \/ Release(control)
  /\ UNCHANGED deskVars

(* run_agent returns once it was told to stop and its tasks have ended.    *)
AgentExits ==
  /\ running /\ stopTx = "sent"
  /\ \A w \in Worker : pc[w] = "off"
  /\ running' = FALSE
  /\ UNCHANGED <<gateVars, ui, signedIn, stopTx>>

NewWork(w) ==
  /\ running /\ stopTx = "armed"
  /\ Call(w) \/ TryCall(w)
  /\ UNCHANGED deskVars

OldWork(w) ==
  /\ \/ SeeAccepting(w) \/ Grab(w) \/ Admit(w) \/ Refuse(w) \/ Cancel(w)
     \/ TryGrab(w) \/ TryBusy(w) \/ Finish(w) \/ Release(w)
  /\ UNCHANGED deskVars

DeskNext ==
  \/ start_node \/ drain_node \/ resume_node \/ stop_node \/ sign_out
  \/ BarrierHeld \/ CommandReturns \/ ControlStep \/ AgentExits
  \/ \E w \in Worker : NewWork(w) \/ OldWork(w)

(* Every future that is ready is polled, work ends, and a stopping agent   *)
(* cancels its waiting tasks.                                              *)
Fairness ==
  /\ WF_vars(BarrierHeld) /\ WF_vars(CommandReturns)
  /\ SF_vars(ControlStep) /\ WF_vars(AgentExits)
  /\ \A w \in Worker :
       /\ WF_vars((Admit(w) \/ Refuse(w) \/ TryGrab(w) \/ TryBusy(w)) /\ UNCHANGED deskVars)
       /\ WF_vars((Finish(w) \/ Release(w)) /\ UNCHANGED deskVars)
       /\ WF_vars(stopTx = "sent" /\ Cancel(w) /\ UNCHANGED deskVars)

DeskSpec == DeskInit /\ [][DeskNext]_vars /\ Fairness

-----------------------------------------------------------------------------
(* node/README.md: "Stop drains the current job; sign-out cancels active   *)
(* child processes before clearing the broker session, so a stalled render *)
(* cannot trap the UI."  A command the operator gave returns.  It does     *)
(* not: begin_drain closes the gate that acquire then waits to see open,   *)
(* and the button that would open it is disabled until acquire returns.    *)
CommandsReturn == ui # "" ~> ui = ""
=============================================================================
