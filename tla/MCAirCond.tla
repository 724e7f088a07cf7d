----------------------------- MODULE MCAirCond -----------------------------
(***************************************************************************)
(* AirCond with one request of each kind: POSTs that switch on, set a      *)
(* temperature between two of the air conditioner's, or are wrong, and raw *)
(* frames of which the answer is, or is not, waited for.                   *)
(***************************************************************************)
EXTENDS AirCond

MCRequests == {Get, Ready, Temp, Raw(TRUE), Raw(FALSE),
               Post(TRUE, NULL), Post(NULL, 223), Post(NULL, WRONG)}
=============================================================================
