----------------------------- MODULE MCHeatCtlr -----------------------------
(* Instances of HeatCtlr for TLC. *)
EXTENDS HeatCtlr

Temperatures == {-1, 1, 3}
TwoSettings == {2, 3}
OnOff == [mode |-> ONOFF, p |-> 0, i |-> 1]
Pid == [mode |-> PID, p |-> 1, i |-> 1]
OnOffAndPid == {OnOff, Pid}
=============================================================================
