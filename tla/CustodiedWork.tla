---------------------------- MODULE CustodiedWork ---------------------------
(***************************************************************************)
(* What Relay promises for a graph under local custody                     *)
(* (docs/local-custody.md), with none of its mechanism: Relay holds the    *)
(* payload only until a node confirms that it has it; a payload Relay gave *)
(* up comes back only when the owner submits the request again; work is    *)
(* only placed with its payload, and only finishes on the node that        *)
(* confirmed it; terminal jobs stay terminal and keep no payload.          *)
(* GraphJobs implements this specification.                                *)
(***************************************************************************)

CONSTANTS
  Device,
  None

VARIABLES
  stage,    \* what the owner is told
  payload,  \* does Relay hold the payload?
  holder    \* the device the work is placed on

custodyVars == <<stage, payload, holder>>

Terminal == {"finished", "failed", "cancelled"}

Init ==
  /\ stage = "absent"
  /\ payload = FALSE
  /\ holder = None

(* A first submission, or an exact resubmission after a loss.              *)
Receive ==
  /\ stage = "absent" \/ (stage = "waiting" /\ ~payload)
  /\ stage' = "waiting"
  /\ payload' = TRUE
  /\ holder' = None

(* Work whose payload nobody confirmed may also be moved.                  *)
Place(d) ==
  /\ stage \in {"waiting", "placed"}
  /\ payload
  /\ stage' = "placed"
  /\ payload' = TRUE
  /\ holder' = d

(* A resubmission is placed at once if a node is free.                     *)
ReceiveAndPlace(d) ==
  /\ stage = "waiting" /\ ~payload
  /\ stage' = "placed"
  /\ payload' = TRUE
  /\ holder' = d

Confirm ==
  /\ stage = "placed"
  /\ payload' = FALSE
  /\ UNCHANGED <<stage, holder>>

Recall ==
  /\ stage = "placed"
  /\ stage' = "waiting"
  /\ holder' = None
  /\ UNCHANGED payload

End(s) ==
  /\ \/ s = "finished" /\ stage = "placed" /\ ~payload
     \/ s = "failed" /\ stage = "placed"
     \/ s = "cancelled" /\ stage \in {"waiting", "placed"}
  /\ stage' = s
  /\ payload' = FALSE
  /\ holder' = None

Next ==
  \/ Receive \/ Confirm \/ Recall
  \/ \E d \in Device : Place(d) \/ ReceiveAndPlace(d)
  \/ \E s \in Terminal : End(s)

Spec == Init /\ [][Next]_custodyVars
=============================================================================
