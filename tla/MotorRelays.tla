---------------------------- MODULE MotorRelays ----------------------------
(***************************************************************************)
(* What the shades controller promises to the motor: two relays, one for   *)
(* the power and one for the direction, of which the direction one is only *)
(* ever switched while the power one is open.  A motor whose direction is  *)
(* reversed under power is what the whole of shcnt/src/mot_cnt.c avoids.   *)
(***************************************************************************)
VARIABLES
  sw,       \* TRUE while the power relay is closed
  dirRelay  \* "DOWN" (relay released, the default) or "UP"

relays == <<sw, dirRelay>>

Init == sw = FALSE /\ dirRelay = "DOWN"

PowerOn  == ~sw /\ sw' = TRUE /\ UNCHANGED dirRelay
PowerOff == sw /\ sw' = FALSE /\ UNCHANGED dirRelay
Reverse  == ~sw /\ dirRelay' \in {"DOWN", "UP"} /\ UNCHANGED sw

Next == PowerOn \/ PowerOff \/ Reverse

Spec == Init /\ [][Next]_relays
=============================================================================
