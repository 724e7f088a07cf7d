--------------------------- MODULE MCContinuousSD ---------------------------
(* Instances of continuous service discovery for TLC: see the .cfg files. *)
EXTENDS ContinuousSD

(* A key with a type, a key without one (prjcnt registers such), and a key *)
(* that no service answers to; one more than there are entries.            *)
MCKeys     == {<<"a", "x">>, <<"b", NULL>>, <<"c", "x">>}
MCServices == {<<"a", "x">>, <<"b", "y">>}
=============================================================================
