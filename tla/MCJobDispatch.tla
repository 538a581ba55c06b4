---------------------------- MODULE MCJobDispatch ----------------------------
(* Instances of JobDispatch for TLC.                                       *)
EXTENDS JobDispatch

(* Job 2 needs one of the devices with the lease protocol; the others run  *)
(* anywhere.                                                               *)
MCCanRun == [j \in Job |-> IF j = 2 THEN {CHOOSE d \in LeaseAware : TRUE} ELSE Device]
=============================================================================
