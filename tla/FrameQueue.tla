----------------------------- MODULE FrameQueue -----------------------------
(***************************************************************************)
(* What duart.c promises to the threads that talk to the air conditioner:  *)
(* the frames that arrive while there is room are handed out one by one,   *)
(* each to a single reader, in the order in which they came.  A frame that *)
(* comes when the queue is full is not there at all.                       *)
(***************************************************************************)
EXTENDS Naturals, Sequences

CONSTANTS
  NUM_FRAMES,   \* slots of the ring, of which one stays free
  Frames,       \* what can be received
  Readers,      \* the threads that call duart_rx and duart_tx
  NoFrame       \* a reader has not got any yet

VARIABLES queue, got

Init == queue = <<>> /\ got = [t \in Readers |-> NoFrame]

HasRoom == Len(queue) < NUM_FRAMES - 1

Enqueue(f) == HasRoom /\ queue' = Append(queue, f)
Dequeue    == queue # <<>> /\ queue' = Tail(queue)

Put(f) == Enqueue(f) /\ UNCHANGED got
Get(t) == Dequeue /\ got' = [got EXCEPT ![t] = Head(queue)]

Next ==
  \/ \E f \in Frames : Put(f)
  \/ \E t \in Readers : Get(t)

Spec == Init /\ [][Next]_<<queue, got>>
=============================================================================
