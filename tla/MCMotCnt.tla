------------------------------ MODULE MCMotCnt ------------------------------
(* Instances of the motor controller for TLC: see the .cfg files. *)
EXTENDS MotCnt

(* A provisioned device: the run time is that of the motor, and no         *)
(* distance takes exactly RELAY_DELAY.                                     *)
MCRunTimes == {6}

(* STOP, both ends, and positions between them; 5 is beyond MAX_VAL, which *)
(* coap.c does not reject.                                                 *)
MCTargets == {-1, 0, 1, 3, 4, 5}
=============================================================================
