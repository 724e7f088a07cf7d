--------------------------- MODULE MCAnalogSwitch ---------------------------
(***************************************************************************)
(* AnalogSwitch with windows of one to four samples, a mean of two, a      *)
(* counter that wraps around after four presses, and widths that matter:   *)
(* configurations that are cut, and others that are refused.               *)
(***************************************************************************)
EXTENDS AnalogSwitch

MCDefault == [iters |-> 2, threshold |-> 2, debounce |-> 1]

MCConfigs == {[iters |-> 6, threshold |-> 2, debounce |-> 5],
              [iters |-> 2, threshold |-> 3, debounce |-> 0],
              [iters |-> 7, threshold |-> 3, debounce |-> 0],
              [iters |-> 2, threshold |-> 4, debounce |-> 0],
              [iters |-> 2, threshold |-> 3, debounce |-> ABSENT]}
=============================================================================
