------------------------------ MODULE Account ------------------------------
(***************************************************************************)
(* One account's Durable Object and its nodes: requests, a model plan and  *)
(* a live speech session share the devices, their connections and their    *)
(* gates.  What ends a connection concerns all three.                      *)
(***************************************************************************)
EXTENDS ModelPlans, SpeechStreams

accountVars == <<requestVars, planVars, streamVars>>

AccountInit == RequestInit /\ PlanInit /\ StreamInit

(* handleRelayWebSocketClose.                                              *)
Closes(d) == HandleClose(d) /\ CloseForAgent(d) /\ UNCHANGED planVars

(* connect_and_serve ends.                                                 *)
Drops(d) == NodeDrop(d) /\ PlanLosesNodes({d}) /\ LiveLoses(d)

Restarts == Restart /\ PlanLosesNodes(Device) /\ StreamRestarts

AccountNext ==
  \/ RequestStep /\ UNCHANGED <<planVars, streamVars>>
  \/ PlanStep /\ UNCHANGED streamVars
  \/ StreamStep /\ UNCHANGED planVars
  \/ \E d \in Device : Closes(d) \/ Drops(d)
  \/ Restarts

AccountSpec == AccountInit /\ [][AccountNext]_accountVars

AccountTypeOK == RequestTypeOK /\ PlanTypeOK /\ StreamTypeOK
=============================================================================
