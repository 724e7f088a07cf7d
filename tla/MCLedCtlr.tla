----------------------------- MODULE MCLedCtlr -----------------------------
(* An instance of LedCtlr for TLC. *)
EXTENDS LedCtlr

RedAndWhite == {"red", "white"}
White == [red |-> 0, white |-> 1]
Red == [red |-> 1, white |-> 0]
SomeOfThem == {Red, [white |-> 1], [red |-> 2, white |-> 0]}
=============================================================================
