------------------------------ MODULE WorkSlot ------------------------------
(***************************************************************************)
(* What the device work gate of a node promises, with none of its          *)
(* mechanism: one execution slot, and an operator's switch that keeps new  *)
(* work out while the work already running goes on to its end.             *)
(* WorkGate implements this specification (WorkGateProofs).                *)
(***************************************************************************)
CONSTANTS
  Worker,   \* requests that execute on the device
  None      \* nobody

VARIABLES
  accepting,   \* may new work start?
  occupant     \* the work that is executing, or None

slotVars == <<accepting, occupant>>

Init == accepting = TRUE /\ occupant = None

Start(w) ==
  /\ accepting
  /\ occupant = None
  /\ occupant' = w
  /\ UNCHANGED accepting

End ==
  /\ occupant # None
  /\ occupant' = None
  /\ UNCHANGED accepting

Switch(on) ==
  /\ accepting' = on
  /\ UNCHANGED occupant

Next ==
  \/ \E w \in Worker : Start(w)
  \/ End
  \/ \E on \in BOOLEAN : Switch(on)

Spec == Init /\ [][Next]_slotVars
=============================================================================
