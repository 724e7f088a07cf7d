---------------------------- MODULE AirCond_proofs ----------------------------
(***************************************************************************)
(* Proofs about the air conditioner controller.  First that the ring of    *)
(* Duart is the queue of FrameQueue, for rings and frames of any length    *)
(* and any number of readers.  Then the dialogues of AirCond over that     *)
(* queue, for any number of servers, temperatures and kinds of requests.   *)
(*                                                                         *)
(* Nothing in a frame tells which question it answers, so that what makes  *)
(* a dialogue right is that it is alone: while it is calm, the frames      *)
(* under way are the one that its thread has sent, or those that answer    *)
(* it, and no others (CalmInv).                                            *)
(***************************************************************************)
EXTENDS Duart, AirCond, SequenceTheorems, FiniteSetTheorems, TLAPS

N == NUM_FRAMES

Wrap(i) == IF i < N THEN i ELSE i - N

(* A remainder, for what is at most once around the ring.                  *)
LEMMA Around ==
  ASSUME NEW n \in Nat, n >= 1, NEW x \in 0..(2 * n - 1)
  PROVE  x % n = IF x < n THEN x ELSE x - n
  BY SMTT(30)

LEMMA AroundN ==
  ASSUME NEW x \in 0..(2 * N - 1)
  PROVE  x % N = Wrap(x)
<1>1. N \in Nat /\ N >= 1
  BY DuartAssumption DEF N
<1> QED
  BY <1>1, Around DEF Wrap

(* The next index is an index.                                             *)
LEMMA Incr ==
  ASSUME NEW i \in Indexes
  PROVE  incr_idx(i) = Wrap(i + 1) /\ incr_idx(i) \in Indexes
<1>1. i + 1 \in 0..(2 * N - 1)
  BY DuartAssumption DEF Indexes, N
<1>2. incr_idx(i) = Wrap(i + 1)
  BY <1>1, AroundN DEF incr_idx, N
<1> QED
  BY <1>2, DuartAssumption DEF Wrap, N, Indexes

(* A reader that has copied a frame is the only one, and has not run past  *)
(* the writer.                                                             *)
Copying ==
  /\ \A t, u \in Readers : pc[t] = "copied" /\ pc[u] = "copied" => t = u
  /\ \A t \in Readers : pc[t] = "copied" => r_idx # w_idx

Inv == TypeOK /\ Copying

-----------------------------------------------------------------------------
(* Types. *)

LEMMA FrameType == \A s \in Slots : Frame(s) \in Received
  BY DEF Received

LEMMA InitInv == Init => Inv
<1> SUFFICES ASSUME Init PROVE Inv
  OBVIOUS
<1>1. w_idx \in Indexes /\ r_idx \in Indexes
  BY DuartAssumption DEF Init, Indexes
<1> QED
  BY <1>1 DEF Init, Inv, TypeOK, Copying, Slots

(* What the semaphore does to the readers.                                 *)
LEMMA GiveKeeps ==
  ASSUME TypeOK, Give
  PROVE  /\ pc' \in [Readers -> {"out", "test", "take", "wait", "copied"}]
         /\ rx_sem' \in {0, 1}
         /\ \A t \in Readers : pc'[t] = "copied" <=> pc[t] = "copied"
  BY DEF TypeOK, Give

LEMMA InsertSlot ==
  ASSUME NEW s \in Slots, NEW b \in Bytes, s.len < MAX_FRAME_LEN
  PROVE  [len |-> s.len + 1, byte |-> IF s.len = 0 THEN b ELSE s.byte] \in Slots
  BY DuartAssumption DEF Slots

LEMMA ResetSlot ==
  ASSUME NEW s \in Slots
  PROVE  /\ [s EXCEPT !.len = 0] \in Slots
         /\ s.len > 0 => [s EXCEPT !.len = s.len - 1] \in Slots
  BY DuartAssumption DEF Slots

(* The receiver changes only the slot that it fills.                       *)
LEMMA ReceiverFrames ==
  ASSUME TypeOK, Receiver
  PROVE  /\ frames' \in [Indexes -> Slots]
         /\ \A i \in Indexes : i # w_idx => frames'[i] = frames[i]
<1>1. frames[w_idx] \in Slots
  BY DEF TypeOK
<1>2. /\ [frames[w_idx] EXCEPT !.len = 0] \in Slots
      /\ frames[w_idx].len > 0 =>
           [frames[w_idx] EXCEPT !.len = frames[w_idx].len - 1] \in Slots
  BY <1>1, ResetSlot
<1>3. CASE ack_received
  BY <1>2, <1>3 DEF ack_received, TypeOK
<1>4. CASE start_received
  BY <1>2, <1>4 DEF start_received, TypeOK
<1>5. ASSUME NEW b \in Bytes, insert_payload(b) PROVE
      /\ frames' \in [Indexes -> Slots]
      /\ \A i \in Indexes : i # w_idx => frames'[i] = frames[i]
  <2>1. frames[w_idx].len < MAX_FRAME_LEN =>
          [len |-> frames[w_idx].len + 1,
           byte |-> IF frames[w_idx].len = 0 THEN b ELSE frames[w_idx].byte] \in Slots
    BY <1>1, InsertSlot
  <2> QED
    BY <1>2, <1>5, <2>1 DEF insert_payload, TypeOK
<1>6. ASSUME NEW c \in BOOLEAN, finish_frame(c) PROVE
      /\ frames' \in [Indexes -> Slots]
      /\ \A i \in Indexes : i # w_idx => frames'[i] = frames[i]
  BY <1>2, <1>6 DEF finish_frame, TypeOK
<1> QED
  BY <1>3, <1>4, <1>5, <1>6 DEF Receiver

(* A publication moves the writer on, to where no reader is.               *)
LEMMA NotFull ==
  ASSUME TypeOK
  PROVE  queue_is_full <=> Wrap(N + r_idx - w_idx) = 1
<1>1. N + r_idx - w_idx \in 0..(2 * N - 1)
  BY DuartAssumption DEF TypeOK, Indexes, N
<1> QED
  BY <1>1, AroundN DEF queue_is_full, N

LEMMA PublishKeeps ==
  ASSUME Inv, Publish, ~queue_is_full
  PROVE  /\ w_idx' \in Indexes /\ state' = "IDLE" /\ rx_sem' \in {0, 1}
         /\ w_idx' = Wrap(w_idx + 1) /\ w_idx' # r_idx
         /\ r_idx' = r_idx /\ payload' = payload
         /\ pc' \in [Readers -> {"out", "test", "take", "wait", "copied"}]
         /\ \A t \in Readers : pc'[t] = "copied" <=> pc[t] = "copied"
<1>1. w_idx' = Wrap(w_idx + 1) /\ w_idx' \in Indexes
  BY Incr DEF Publish, Inv, TypeOK
<1>2. w_idx' # r_idx
  BY <1>1, NotFull, DuartAssumption DEF Inv, TypeOK, Wrap, Indexes, N
<1> QED
  BY <1>1, <1>2, GiveKeeps DEF Publish, Inv

(* What the receiver does to everything but the frames.                    *)
LEMMA ReceiverKeeps ==
  ASSUME Inv, Receiver
  PROVE  /\ state' \in {"IDLE", "PAYLOAD"} /\ rx_sem' \in {0, 1}
         /\ w_idx' \in Indexes /\ r_idx' = r_idx /\ payload' = payload
         /\ pc' \in [Readers -> {"out", "test", "take", "wait", "copied"}]
         /\ \A t \in Readers : pc'[t] = "copied" <=> pc[t] = "copied"
         /\ w_idx' = w_idx \/ (Publish /\ ~queue_is_full)
<1>1. CASE Publish /\ ~queue_is_full
  BY <1>1, PublishKeeps
<1>2. CASE Ignore /\ state' \in {"IDLE", "PAYLOAD"}
  BY <1>2 DEF Ignore, readers, Inv, TypeOK
<1>3. CASE ack_received
  BY <1>1, <1>3 DEF ack_received
<1>4. CASE start_received
  BY <1>2, <1>4 DEF start_received
<1>5. ASSUME NEW b \in Bytes, insert_payload(b)
      PROVE  Ignore /\ state' \in {"IDLE", "PAYLOAD"}
  BY <1>5 DEF insert_payload, Inv, TypeOK
<1>6. ASSUME NEW c \in BOOLEAN, finish_frame(c)
      PROVE  \/ Publish /\ ~queue_is_full
             \/ Ignore /\ state' \in {"IDLE", "PAYLOAD"}
  BY <1>6 DEF finish_frame
<1> QED
  BY <1>1, <1>2, <1>3, <1>4, <1>5, <1>6 DEF Receiver

LEMMA ReceiverInv == ASSUME Inv, Receiver PROVE Inv'
<1>1. frames' \in [Indexes -> Slots]
  BY ReceiverFrames DEF Inv
<1>2. TypeOK'
  BY <1>1, ReceiverKeeps DEF TypeOK, Inv
<1>3. \A t \in Readers : pc'[t] = "copied" => r_idx' # w_idx'
  BY ReceiverKeeps, PublishKeeps DEF Inv, Copying
<1>4. \A t, u \in Readers : pc'[t] = "copied" /\ pc'[u] = "copied" => t = u
  BY ReceiverKeeps DEF Inv, Copying
<1> QED
  BY <1>2, <1>3, <1>4 DEF Inv, Copying

LEMMA ReaderInv == ASSUME Inv, NEW t \in Readers, Reader(t) PROVE Inv'
<1> USE DEF Inv, TypeOK, Copying, ring
<1>1. CASE Call(t)
  BY <1>1 DEF Call
<1>2. CASE Test(t)
  <2>1. Frame(frames[r_idx]) \in Received
    BY FrameType
  <2>2. TypeOK'
    BY <1>2, <2>1 DEF Test
  <2>3. \A u, v \in Readers : pc'[u] = "copied" /\ pc'[v] = "copied" => u = v
    BY <1>2 DEF Test, Runs
  <2>4. \A u \in Readers : pc'[u] = "copied" => r_idx' # w_idx'
    BY <1>2 DEF Test, queue_is_empty
  <2> QED
    BY <2>2, <2>3, <2>4
<1>3. CASE Take(t)
  BY <1>3 DEF Take
<1>4. CASE Timeout(t)
  BY <1>4 DEF Timeout
<1>5. CASE Release(t)
  <2>1. r_idx' \in Indexes
    BY <1>5, Incr DEF Release
  <2>2. \A u \in Readers : pc'[u] # "copied"
    BY <1>5 DEF Release
  <2> QED
    BY <1>5, <2>1, <2>2 DEF Release
<1> QED
  BY <1>1, <1>2, <1>3, <1>4, <1>5 DEF Reader

LEMMA NextInv == Inv /\ [Next]_vars => Inv'
<1> SUFFICES ASSUME Inv, [Next]_vars PROVE Inv'
  OBVIOUS
<1>1. CASE UNCHANGED vars
  BY <1>1 DEF vars, ring, readers, Inv, TypeOK, Copying
<1> QED
  BY <1>1, ReceiverInv, ReaderInv DEF Next

(* Indexes, the semaphore and the frames stay in their ranges, whatever    *)
(* comes over the line and whoever reads.                                  *)
THEOREM TypeCorrect == Spec => []TypeOK
<1>1. Inv => TypeOK
  BY DEF Inv
<1> QED
  BY <1>1, InitInv, NextInv, PTL DEF Spec

-----------------------------------------------------------------------------
(* The queue: what is between First and w_idx.                             *)

LEMMA FirstType ==
  ASSUME Inv
  PROVE  /\ First \in Indexes
         /\ Copied => First = Wrap(r_idx + 1)
  BY Incr DEF First, Inv, TypeOK

LEMMA WaitingIs ==
  ASSUME Inv
  PROVE  Waiting = Wrap(N + w_idx - First) /\ Waiting \in 0..N-1
<1>1. N + w_idx - First \in 0..(2 * N - 1)
  BY FirstType, DuartAssumption DEF Inv, TypeOK, Indexes, N
<1>2. Waiting = Wrap(N + w_idx - First)
  BY <1>1, AroundN DEF Waiting, N
<1> QED
  BY <1>2, FirstType, DuartAssumption DEF Wrap, Inv, TypeOK, Indexes, N

(* The i-th slot of the queue is not the one that is being filled.         *)
LEMMA SlotIs ==
  ASSUME Inv, NEW i \in 1..Waiting
  PROVE  /\ (First + i - 1) % NUM_FRAMES = Wrap(First + i - 1)
         /\ Wrap(First + i - 1) \in Indexes \ {w_idx}
<1>1. First + i - 1 \in 0..(2 * N - 1)
  BY FirstType, WaitingIs, DuartAssumption DEF Indexes, N
<1>2. (First + i - 1) % NUM_FRAMES = Wrap(First + i - 1)
  BY <1>1, AroundN DEF N
<1>3. Wrap(First + i - 1) \in Indexes \ {w_idx}
  BY FirstType, WaitingIs, DuartAssumption DEF Wrap, Inv, TypeOK, Indexes, N
<1> QED
  BY <1>2, <1>3

LEMMA LastSlotIs ==
  ASSUME Inv
  PROVE  (First + Waiting) % NUM_FRAMES = w_idx
<1>1. First + Waiting \in 0..(2 * N - 1)
  BY FirstType, WaitingIs, DuartAssumption DEF Indexes, N
<1>2. (First + Waiting) % NUM_FRAMES = Wrap(First + Waiting)
  BY <1>1, AroundN DEF N
<1>3. Wrap(First + Waiting) = w_idx
  BY FirstType, WaitingIs, DuartAssumption DEF Wrap, Inv, TypeOK, Indexes, N
<1> QED
  BY <1>2, <1>3

(* A slot is written only where the abstract queue has room.               *)
LEMMA Room == ASSUME Inv, ~queue_is_full PROVE Waiting < N - 1
<1>1. Wrap(N + r_idx - w_idx) # 1
  BY NotFull DEF Inv
<1>2. CASE Copied
  <2>1. First = Wrap(r_idx + 1) /\ r_idx # w_idx
    BY <1>2, FirstType DEF Copied, Inv, Copying
  <2> QED
    BY <1>1, <2>1, WaitingIs, DuartAssumption DEF Wrap, Inv, TypeOK, Indexes, N
<1>3. CASE ~Copied
  BY <1>1, <1>3, WaitingIs, DuartAssumption DEF First, Wrap, Inv, TypeOK, Indexes, N
<1> QED
  BY <1>2, <1>3

LEMMA QueueType == Inv => Queue \in Seq(Received) /\ Len(Queue) = Waiting
<1> SUFFICES ASSUME Inv PROVE Queue \in Seq(Received) /\ Len(Queue) = Waiting
  OBVIOUS
<1>1. Waiting \in Nat
  BY WaitingIs, DuartAssumption DEF N
<1>2. ASSUME NEW i \in 1..Waiting
      PROVE  Frame(frames[(First + i - 1) % NUM_FRAMES]) \in Received
  <2>1. frames[(First + i - 1) % NUM_FRAMES] \in Slots
    BY SlotIs DEF Inv, TypeOK
  <2> QED
    BY <2>1, FrameType
<1> QED
  BY <1>1, <1>2 DEF Queue

(* What the receiver writes into the slot that it fills does not matter.   *)
LEMMA Unseen ==
  ASSUME Inv, First' = First, w_idx' = w_idx,
         \A i \in Indexes : i # w_idx => frames'[i] = frames[i]
  PROVE  Queue' = Queue
<1>1. Waiting' = Waiting
  BY DEF Waiting
<1>2. \A i \in 1..Waiting : frames'[(First + i - 1) % NUM_FRAMES]
                              = frames[(First + i - 1) % NUM_FRAMES]
  BY SlotIs
<1> QED
  BY <1>1, <1>2 DEF Queue

LEMMA OneMore ==
  ASSUME Inv, Publish, ~queue_is_full, First' = First
  PROVE  Waiting' = Waiting + 1
<1>1. Waiting < N - 1 /\ Waiting \in Nat
  BY Room, WaitingIs, DuartAssumption DEF N
<1>2. w_idx' = Wrap(w_idx + 1) /\ w_idx' \in Indexes
  BY PublishKeeps
<1>3. N + w_idx' - First \in 0..(2 * N - 1)
  BY <1>2, FirstType, DuartAssumption DEF Indexes, N
<1>4. Waiting' = Wrap(N + w_idx' - First)
  BY <1>3, AroundN DEF Waiting, N
<1>5. N \in Nat /\ w_idx \in 0..N-1 /\ First \in 0..N-1
  BY FirstType, DuartAssumption DEF Inv, TypeOK, Indexes, N
<1>6. Waiting = Wrap(N + w_idx - First)
  BY WaitingIs
<1>7. CASE w_idx + 1 < N
  BY <1>1, <1>2, <1>4, <1>5, <1>6, <1>7 DEF Wrap
<1>8. CASE w_idx + 1 = N
  <2>1. w_idx' = 0
    BY <1>2, <1>5, <1>8 DEF Wrap
  <2> QED
    BY <1>1, <1>4, <1>5, <1>6, <1>8, <2>1 DEF Wrap
<1> QED
  BY <1>5, <1>7, <1>8

(* A publication appends the frame that has been written.                  *)
LEMMA Grown ==
  ASSUME Inv, Publish, ~queue_is_full, First' = First,
         \A i \in Indexes : i # w_idx => frames'[i] = frames[i]
  PROVE  Queue' = Append(Queue, Frame(frames'[w_idx]))
<1>1. Waiting < N - 1 /\ Waiting \in Nat
  BY Room, WaitingIs, DuartAssumption DEF N
<1>3. Waiting' = Waiting + 1
  BY OneMore
<1>4. \A i \in 1..Waiting : frames'[(First + i - 1) % NUM_FRAMES]
                              = frames[(First + i - 1) % NUM_FRAMES]
  BY SlotIs
<1>5. (First + (Waiting + 1) - 1) % NUM_FRAMES = w_idx
  BY <1>1, LastSlotIs, FirstType DEF Indexes
<1>6. Queue' = [i \in 1..Waiting+1 |->
                  Frame(frames'[(First + i - 1) % NUM_FRAMES])]
  BY <1>3 DEF Queue
<1>7. Queue \in Seq(Received) /\ Len(Queue) = Waiting
  BY QueueType
<1>8. Append(Queue, Frame(frames'[w_idx])) =
        [i \in 1..Waiting+1 |-> IF i = Waiting + 1 THEN Frame(frames'[w_idx])
                                 ELSE Queue[i]]
  BY <1>1, <1>7
<1>9. ASSUME NEW i \in 1..Waiting+1
      PROVE  Frame(frames'[(First + i - 1) % NUM_FRAMES])
             = IF i = Waiting + 1 THEN Frame(frames'[w_idx]) ELSE Queue[i]
  <2>1. CASE i = Waiting + 1
    BY <1>5, <2>1
  <2>2. CASE i # Waiting + 1
    <3>1. i \in 1..Waiting
      BY <1>1, <2>2
    <3> QED
      BY <1>4, <2>2, <3>1 DEF Queue
  <2> QED
    BY <2>1, <2>2
<1> QED
  BY <1>6, <1>8, <1>9

LEMMA OneLess ==
  ASSUME Inv, NEW t \in Readers, Test(t), ~queue_is_empty
  PROVE  /\ First = r_idx /\ First' = Wrap(First + 1) /\ First' \in Indexes
         /\ Waiting \in Nat /\ Waiting >= 1 /\ Waiting' = Waiting - 1
<1>1. ~Copied
  BY DEF Test, Runs, Copied
<1>2. First = r_idx /\ First' = incr_idx(r_idx)
  <2>1. pc'[t] = "copied" /\ r_idx' = r_idx
    BY DEF Test, ring, Inv, TypeOK
  <2> QED
    BY <1>1, <2>1 DEF First, Copied, incr_idx
<1>3. First' = Wrap(First + 1) /\ First' \in Indexes /\ w_idx' = w_idx
  BY <1>2, Incr DEF Test, ring, Inv, TypeOK
<1>4. Waiting \in Nat /\ Waiting >= 1
  BY <1>2, WaitingIs, DuartAssumption DEF queue_is_empty, Wrap, Inv, TypeOK, Indexes, N
<1>5. N + w_idx - First' \in 0..(2 * N - 1)
  BY <1>3, DuartAssumption DEF Inv, TypeOK, Indexes, N
<1>6. Waiting' = Wrap(N + w_idx - First')
  BY <1>3, <1>5, AroundN DEF Waiting, N
<1>7. Waiting' = Waiting - 1
  BY <1>2, <1>3, <1>4, <1>6, WaitingIs, DuartAssumption
     DEF queue_is_empty, Wrap, Inv, TypeOK, Indexes, N
<1> QED
  BY <1>2, <1>3, <1>4, <1>7

(* A copy takes the head.                                                  *)
LEMMA Taken ==
  ASSUME Inv, NEW t \in Readers, Test(t), ~queue_is_empty
  PROVE  /\ Queue # <<>> /\ Queue' = Tail(Queue)
         /\ payload' = [payload EXCEPT ![t] = Head(Queue)]
<1>2. First = r_idx
  BY OneLess
<1>3. First' = Wrap(First + 1) /\ First' \in Indexes /\ w_idx' = w_idx /\ frames' = frames
  BY OneLess DEF Test, ring
<1>4. Waiting \in Nat /\ Waiting >= 1
  BY OneLess
<1>5. Waiting' = Waiting - 1
  BY OneLess
<1>6. Queue \in Seq(Received) /\ Len(Queue) = Waiting
  BY QueueType
<1>7. Queue # <<>>
  BY <1>4, <1>6
<1>8. /\ Tail(Queue) \in Seq(Received) /\ Len(Tail(Queue)) = Waiting - 1
      /\ \A i \in 1..Waiting-1 : Tail(Queue)[i] = Queue[i + 1]
  BY <1>6, <1>7, HeadTailProperties
<1>9. Queue' = [i \in 1..Waiting-1 |-> Frame(frames[(First' + i - 1) % NUM_FRAMES])]
  BY <1>3, <1>5 DEF Queue
<1>10. ASSUME NEW i \in 1..Waiting-1
       PROVE  Frame(frames[(First' + i - 1) % NUM_FRAMES]) = Queue[i + 1]
  <2>1. i + 1 \in 1..Waiting
    BY <1>4
  <2>2. (First + (i + 1) - 1) % NUM_FRAMES = Wrap(First + (i + 1) - 1)
    BY <2>1, SlotIs
  <2>3. First' + i - 1 \in 0..(2 * N - 1)
    BY <1>3, <1>4, WaitingIs, DuartAssumption DEF Indexes, N
  <2>4. (First' + i - 1) % NUM_FRAMES = Wrap(First' + i - 1)
    BY <2>3, AroundN DEF N
  <2>5. Wrap(First' + i - 1) = Wrap(First + (i + 1) - 1)
    BY <1>3, <1>4, WaitingIs, FirstType, DuartAssumption DEF Wrap, Indexes, N
  <2> QED
    BY <2>1, <2>2, <2>4, <2>5 DEF Queue
<1>11. Queue' = Tail(Queue)
  <2>1. \A i \in 1..Waiting-1 : Queue'[i] = Tail(Queue)[i]
    BY <1>8, <1>9, <1>10
  <2>2. ASSUME NEW i \in 1..Waiting-1
        PROVE  Frame(frames[(First' + i - 1) % NUM_FRAMES]) \in Received
    BY <1>4, <1>6, <1>10
  <2>3. Waiting - 1 \in Nat
    BY <1>4
  <2>4. Queue' \in Seq(Received) /\ Len(Queue') = Waiting - 1
    BY <1>9, <2>2, <2>3
  <2> QED
    BY <1>4, <1>8, <2>1, <2>4, SeqEqual
<1>12. Head(Queue) = Frame(frames[r_idx])
  <2>1. 1 \in 1..Waiting
    BY <1>4
  <2>2. (First + 1 - 1) % NUM_FRAMES = Wrap(First + 1 - 1)
    BY <2>1, SlotIs
  <2>3. Wrap(First + 1 - 1) = r_idx
    BY <1>2, DuartAssumption DEF Wrap, Inv, TypeOK, Indexes, N
  <2>4. Queue[1] = Frame(frames[r_idx])
    BY <2>1, <2>2, <2>3 DEF Queue
  <2> QED
    BY <1>6, <1>7, <2>4
<1> QED
  BY <1>7, <1>11, <1>12 DEF Test

-----------------------------------------------------------------------------
LEMMA FifoInit == Init => Fifo!Init
<1> SUFFICES ASSUME Init PROVE Fifo!Init
  OBVIOUS
<1>1. First = 0 /\ w_idx = 0
  BY DEF Init, First, Copied
<1>2. Waiting = 0
  BY <1>1, InitInv, WaitingIs, DuartAssumption DEF Wrap, N
<1> QED
  BY <1>2 DEF Init, Fifo!Init, Queue

LEMMA ReceiverFifo ==
  ASSUME Inv, Receiver
  PROVE  (\E f \in Received : Fifo!Put(f)) \/ UNCHANGED <<Queue, payload>>
<1>1. First' = First
  BY ReceiverKeeps DEF First, Copied, incr_idx
<1>2. \A i \in Indexes : i # w_idx => frames'[i] = frames[i]
  BY ReceiverFrames DEF Inv
<1>3. CASE w_idx' = w_idx
  BY <1>1, <1>2, <1>3, Unseen, ReceiverKeeps
<1>4. CASE Publish /\ ~queue_is_full
  <2>1. Queue' = Append(Queue, Frame(frames'[w_idx]))
    BY <1>1, <1>2, <1>4, Grown
  <2>2. frames'[w_idx] \in Slots
    BY ReceiverFrames DEF Inv, TypeOK
  <2>3. Frame(frames'[w_idx]) \in Received
    BY <2>2, FrameType
  <2>4. Len(Queue) < NUM_FRAMES - 1
    BY <1>4, Room, QueueType DEF N
  <2>5. payload' = payload
    BY <1>4, PublishKeeps
  <2> QED
    BY <2>1, <2>3, <2>4, <2>5 DEF Fifo!Put, Fifo!Enqueue, Fifo!HasRoom
<1> QED
  BY <1>3, <1>4, ReceiverKeeps

LEMMA ReaderFifo ==
  ASSUME Inv, NEW t \in Readers, Reader(t)
  PROVE  Fifo!Get(t) \/ UNCHANGED <<Queue, payload>>
<1>1. CASE Test(t) /\ ~queue_is_empty
  BY <1>1, Taken DEF Fifo!Get, Fifo!Dequeue
<1>2. CASE Release(t)
  <2>1. First = incr_idx(r_idx) /\ First' = r_idx'
    BY <1>2 DEF Release, First, Copied, Inv, TypeOK, Copying
  <2>2. First' = First /\ w_idx' = w_idx /\ frames' = frames /\ payload' = payload
    BY <1>2, <2>1 DEF Release
  <2> QED
    BY <2>2 DEF Queue, Waiting
<1>3. CASE Call(t) \/ (Test(t) /\ queue_is_empty) \/ Take(t) \/ Timeout(t)
  <2>1. /\ frames' = frames /\ w_idx' = w_idx /\ r_idx' = r_idx /\ payload' = payload
        /\ \A u \in Readers : pc'[u] = "copied" <=> pc[u] = "copied"
    BY <1>3 DEF Call, Test, Take, Timeout, ring, Inv, TypeOK
  <2>2. First' = First
    BY <2>1 DEF First, Copied, incr_idx
  <2> QED
    BY <2>1, <2>2 DEF Queue, Waiting
<1> QED
  BY <1>1, <1>2, <1>3 DEF Reader

(* The ring is a queue, see ImplementsFifo: every step of the receiver or  *)
(* of a reader appends a frame, takes the oldest, or changes nothing.      *)
THEOREM RingIsFifo == Spec => ImplementsFifo
<1>1. Inv /\ [Next]_vars => [Fifo!Next]_<<Queue, payload>>
  <2> SUFFICES ASSUME Inv, [Next]_vars PROVE [Fifo!Next]_<<Queue, payload>>
    OBVIOUS
  <2>1. CASE UNCHANGED vars
    <3>1. UNCHANGED <<frames, w_idx, r_idx, pc, payload>>
      BY <2>1 DEF vars, ring, readers
    <3>2. First' = First
      BY <3>1 DEF First, Copied, incr_idx
    <3> QED
      BY <3>1, <3>2 DEF Queue, Waiting
  <2>2. CASE Receiver
    BY <2>2, ReceiverFifo DEF Fifo!Next
  <2>3. ASSUME NEW t \in Readers, Reader(t) PROVE [Fifo!Next]_<<Queue, payload>>
    BY <2>3, ReaderFifo DEF Fifo!Next
  <2> QED
    BY <2>1, <2>2, <2>3 DEF Next
<1> QED
  BY <1>1, InitInv, NextInv, FifoInit, PTL DEF Spec, ImplementsFifo, Fifo!Spec

-----------------------------------------------------------------------------
(* Wake-ups.  One reader at a time is between its test and k_sem_take: if  *)
(* a frame has come since, it finds the semaphore given, or another one    *)
(* has been woken up for it.                                               *)

Coming == {t \in Readers : pc[t] \in {"test", "take"}}

Wakeful ==
  /\ \A t, u \in Readers :
       pc[t] \in {"take", "copied"} /\ pc[u] \in {"take", "copied"} => t = u
  /\ (\E t \in Readers : pc[t] = "take") /\ rx_sem = 0 =>
       Waiting < Cardinality(Coming)
  /\ (\E t \in Readers : pc[t] = "wait") =>
       rx_sem = 0 /\ Waiting =< Cardinality(Coming)

LEMMA ComingIsFinite == IsFiniteSet(Coming) /\ Cardinality(Coming) \in Nat
<1>1. IsFiniteSet(Coming)
  BY DuartAssumption, FS_Subset DEF Coming
<1> QED
  BY <1>1, FS_CardinalityType

LEMMA OneComes ==
  ASSUME TypeOK, NEW t \in Readers, pc[t] \notin {"test", "take"},
         pc' = [pc EXCEPT ![t] = "test"]
  PROVE  Cardinality(Coming') = Cardinality(Coming) + 1
<1>1. Coming' = Coming \cup {t} /\ t \notin Coming
  BY DEF Coming, TypeOK
<1> QED
  BY <1>1, ComingIsFinite, FS_AddElement

LEMMA OneGoes ==
  ASSUME TypeOK, NEW t \in Readers, pc[t] \in {"test", "take"},
         NEW p, p \notin {"test", "take"}, pc' = [pc EXCEPT ![t] = p]
  PROVE  Cardinality(Coming') = Cardinality(Coming) - 1
<1>1. Coming' = Coming \ {t} /\ t \in Coming
  BY DEF Coming, TypeOK
<1> QED
  BY <1>1, ComingIsFinite, FS_RemoveElement

LEMMA WakefulInit == Init => Wakeful
  BY DEF Init, Wakeful

LEMMA ReceiverWakeful ==
  ASSUME Inv, Wakeful, Receiver
  PROVE  Wakeful'
<1>1. First' = First
  BY ReceiverKeeps DEF First, Copied, incr_idx
<1>2. CASE Publish /\ ~queue_is_full
  <2>1. Waiting' = Waiting + 1 /\ Waiting \in Nat
    BY <1>1, <1>2, OneMore, WaitingIs, DuartAssumption DEF N
  <2>2. ASSUME NEW t \in Readers, pc[t] = "wait", pc' = [pc EXCEPT ![t] = "test"],
               rx_sem' = rx_sem
        PROVE  Wakeful'
    <3>1. Cardinality(Coming') = Cardinality(Coming) + 1
      BY <2>2, OneComes DEF Inv
    <3> QED
      BY <2>1, <2>2, <3>1, ComingIsFinite DEF Wakeful, Inv, TypeOK
  <2>3. CASE (\A t \in Readers : pc[t] # "wait") /\ rx_sem' = 1 /\ pc' = pc
    BY <2>3 DEF Wakeful
  <2> QED
    BY <1>2, <2>2, <2>3 DEF Publish, Give
<1>3. CASE Ignore
  <2>1. Waiting' = Waiting /\ Coming' = Coming /\ pc' = pc /\ rx_sem' = rx_sem
    BY <1>1, <1>3 DEF Ignore, readers, Waiting, Coming
  <2> QED
    BY <2>1 DEF Wakeful
<1>4. (Publish /\ ~queue_is_full) \/ Ignore
  BY DEF Receiver, ack_received, start_received, insert_payload, finish_frame
<1> QED
  BY <1>2, <1>3, <1>4

LEMMA ReaderWakeful ==
  ASSUME Inv, Wakeful, NEW t \in Readers, Reader(t)
  PROVE  Wakeful'
<1> USE DEF Inv, TypeOK
<1>1. Waiting \in Nat
  BY WaitingIs, DuartAssumption DEF N
<1>2. CASE Call(t)
  <2>1. Waiting' = Waiting
    BY <1>2 DEF Call, ring, Waiting, First, Copied, incr_idx
  <2>2. Cardinality(Coming') = Cardinality(Coming) + 1
    BY <1>2, OneComes DEF Call
  <2> QED
    BY <1>1, <1>2, <2>1, <2>2, ComingIsFinite DEF Call, Wakeful
<1>3. CASE Test(t) /\ queue_is_empty
  <2>1. ~Copied
    BY <1>3 DEF Test, Runs, Copied
  <2>2. Waiting = 0
    BY <2>1, WaitingIs, <1>3, DuartAssumption DEF First, queue_is_empty, Wrap, Indexes, N
  <2>3. Waiting' = Waiting
    BY <1>3 DEF Test, ring, Waiting, First, Copied, incr_idx
  <2>4. Coming' = Coming /\ t \in Coming
    BY <1>3 DEF Test, Coming
  <2>5. Cardinality(Coming) > 0
    <3>1. Cardinality(Coming) # 0
      BY <2>4, ComingIsFinite, FS_EmptySet
    <3> QED
      BY <3>1, ComingIsFinite
  <2>6. \A u \in Readers \ {t} : pc'[u] \notin {"take", "copied"}
    BY <1>3 DEF Test, Runs
  <2>7. \A u \in Readers : pc'[u] = "wait" => pc[u] = "wait"
    BY <1>3 DEF Test
  <2> QED
    BY <1>3, <2>2, <2>3, <2>4, <2>5, <2>6, <2>7 DEF Wakeful, Test
<1>4. CASE Test(t) /\ ~queue_is_empty
  <2>1. Waiting' = Waiting - 1
    BY <1>4, OneLess
  <2>2. Cardinality(Coming') = Cardinality(Coming) - 1
    BY <1>4, OneGoes DEF Test
  <2>3. \A u \in Readers \ {t} : pc'[u] \notin {"take", "copied"}
    BY <1>4 DEF Test, Runs
  <2>4. pc'[t] = "copied" /\ rx_sem' = rx_sem
    BY <1>4 DEF Test
  <2>5. \A u \in Readers : pc'[u] = "wait" => pc[u] = "wait"
    BY <1>4 DEF Test
  <2> QED
    BY <1>1, <2>1, <2>2, <2>3, <2>4, <2>5, ComingIsFinite DEF Wakeful
<1>5. CASE Take(t)
  <2>1. Waiting' = Waiting
    BY <1>5 DEF Take, ring, Waiting, First, Copied, incr_idx
  <2>2. \A u \in Readers \ {t} : pc'[u] = pc[u] /\ pc[u] \notin {"take", "copied"}
    BY <1>5 DEF Take, Wakeful
  <2>3. CASE rx_sem = 1
    BY <1>5, <2>2, <2>3 DEF Take, Wakeful
  <2>4. CASE rx_sem = 0
    <3>1. pc[t] = "take" /\ pc' = [pc EXCEPT ![t] = "wait"]
      BY <1>5, <2>4 DEF Take
    <3>2. Cardinality(Coming') = Cardinality(Coming) - 1
      BY <3>1, OneGoes
    <3>3. Waiting < Cardinality(Coming)
      BY <1>5, <2>4 DEF Take, Wakeful
    <3>4. pc'[t] = "wait" /\ rx_sem' = 0
      BY <1>5, <2>4 DEF Take
    <3> QED
      BY <1>1, <2>1, <2>2, <3>2, <3>3, <3>4, ComingIsFinite DEF Wakeful
  <2> QED
    BY <2>3, <2>4
<1>6. CASE Timeout(t)
  <2>1. Waiting' = Waiting
    BY <1>6 DEF Timeout, ring, Waiting, First, Copied, incr_idx
  <2>2. Coming' = Coming
    BY <1>6 DEF Timeout, Coming
  <2> QED
    BY <1>6, <2>1, <2>2 DEF Timeout, Wakeful
<1>7. CASE Release(t)
  <2>1. First = incr_idx(r_idx) /\ First' = r_idx'
    BY <1>7 DEF Release, First, Copied, Copying
  <2>2. Waiting' = Waiting
    BY <1>7, <2>1 DEF Release, Waiting
  <2>3. Coming' = Coming
    BY <1>7 DEF Release, Coming
  <2> QED
    BY <1>7, <2>2, <2>3 DEF Release, Wakeful
<1> QED
  BY <1>2, <1>3, <1>4, <1>5, <1>6, <1>7 DEF Reader

(* No reader waits while a frame is in the ring that nobody else is on the *)
(* way to fetch, for any number of readers.                                *)
THEOREM NoMissedWakeupHolds == Spec => []NoMissedWakeup
<1>1. Inv /\ Wakeful /\ [Next]_vars => Wakeful'
  <2> SUFFICES ASSUME Inv, Wakeful, [Next]_vars PROVE Wakeful'
    OBVIOUS
  <2>1. CASE UNCHANGED vars
    <3>1. UNCHANGED <<w_idx, r_idx, pc, rx_sem>>
      BY <2>1 DEF vars, ring, readers
    <3>2. Waiting' = Waiting /\ Coming' = Coming
      BY <3>1 DEF Waiting, First, Copied, incr_idx, Coming
    <3> QED
      BY <3>1, <3>2 DEF Wakeful
  <2> QED
    BY <2>1, ReceiverWakeful, ReaderWakeful DEF Next
<1>2. Wakeful => NoMissedWakeup
  BY DEF Wakeful, NoMissedWakeup, Coming
<1> QED
  BY <1>1, <1>2, InitInv, NextInv, WakefulInit, PTL DEF Spec

-----------------------------------------------------------------------------
(* Tenths of Celsius to and from the unit of the air conditioner: what it  *)
(* answers comes back unchanged from 0 degrees on, and a target that a     *)
(* byte holds is rounded.                                                  *)
LEMMA Wraps ==
  ASSUME NEW d \in Int, NEW m \in Nat, m > 0
  PROVE  /\ d % m \in 0..(m - 1)
         /\ d \in Nat /\ d < m => d % m = d
  OBVIOUS

LEMMA Fifths ==
  /\ \A d \in Int : By5(d) \in Int
  /\ \A d \in Nat : By5(d) \in Nat /\ 5 * By5(d) =< d /\ d < 5 * By5(d) + 5
<1>1. \A d \in Nat : /\ d \div 5 \in Nat
                     /\ 5 * (d \div 5) =< d /\ d < 5 * (d \div 5) + 5
  OBVIOUS
<1>2. \A d \in Nat : By5(d) = d \div 5
  BY DEF By5
<1>3. \A d \in Int : d < 0 => By5(d) = -((-d) \div 5) /\ -d \in Nat
  BY DEF By5
<1> QED
  BY <1>1, <1>2, <1>3

LEMMA Units ==
  /\ \A d \in Int : int16(d) \in Int /\ dc_to_f(d) \in 0..255
  /\ \A f \in 0..255 : f_to_dc(f) \in Int
  /\ \A f \in 28..255 : dc_to_f(f_to_dc(f)) = f
  /\ \A d \in Holds : int16(d) = d /\ f_to_dc(dc_to_f(d)) - d \in -1..3
<1>1. ASSUME NEW d \in Int PROVE int16(d) \in Int /\ (d \in Holds => int16(d) = d)
  <2>1. 32768 \in Nat /\ 65536 \in Nat /\ 65536 > 0
    OBVIOUS
  <2>2. (d + 32768) % 65536 \in Int
    BY <2>1, Wraps
  <2>3. ASSUME d \in Holds PROVE (d + 32768) % 65536 = d + 32768
    <3>1. d \in Int /\ d >= 0 /\ d =< 1136
      BY <2>3 DEF Holds
    <3>2. d + 32768 \in Nat /\ d + 32768 < 65536
      BY <3>1
    <3> QED
      BY <2>1, <3>2, Wraps
  <2> QED
    BY <2>2, <2>3 DEF int16
<1>2. ASSUME NEW d \in Int PROVE dc_to_f(d) \in 0..255
  <2>1. d + 3 \in Int
    OBVIOUS
  <2>2. By5(d + 3) \in Int
    BY <2>1, Fifths
  <2>3. By5(d + 3) + 28 \in Int /\ 256 \in Nat /\ 256 > 0
    BY <2>2
  <2>4. dc_to_f(d) \in 0..(256 - 1)
    BY <2>3, Wraps DEF dc_to_f
  <2> QED
    BY <2>4
<1>3. \A f \in 0..255 : f_to_dc(f) \in Int
  BY DEF f_to_dc
<1>4. ASSUME NEW f \in 28..255 PROVE dc_to_f(f_to_dc(f)) = f
  <2> DEFINE x == f_to_dc(f) + 3
  <2>1. x \in Nat /\ x = 5 * (f - 28) + 3
    BY DEF f_to_dc
  <2> HIDE DEF x
  <2>4. By5(x) \in Nat /\ 5 * By5(x) =< x /\ x < 5 * By5(x) + 5
    BY <2>1, Fifths
  <2>2. By5(x) = f - 28
    BY <2>1, <2>4
  <2>3. By5(x) + 28 = f /\ f \in Nat /\ f < 256 /\ 256 \in Nat /\ 256 > 0
    BY <2>2
  <2> QED
    BY <2>3, Wraps DEF dc_to_f, x
<1>5. ASSUME NEW d \in Holds PROVE f_to_dc(dc_to_f(d)) - d \in -1..3
  <2>1. d \in Nat /\ d =< 1136 /\ d + 3 \in Nat
    BY DEF Holds
  <2>2. By5(d + 3) \in Nat /\ 5 * By5(d + 3) =< d + 3 /\ d + 3 < 5 * By5(d + 3) + 5
    BY <2>1, Fifths
  <2>3. /\ By5(d + 3) + 28 \in Nat /\ By5(d + 3) + 28 < 256
        /\ 256 \in Nat /\ 256 > 0
    BY <2>1, <2>2
  <2>4. dc_to_f(d) = By5(d + 3) + 28
    BY <2>3, Wraps DEF dc_to_f
  <2> QED
    BY <2>1, <2>2, <2>4 DEF f_to_dc
<1> QED
  <2>1. \A d \in Holds : d \in Int
    BY DEF Holds
  <2> QED
    BY <1>1, <1>2, <1>3, <1>4, <1>5, <2>1

Wanted == [on : BOOLEAN, temp : Int]

LEMMA States ==
  /\ \A s \in AcStates : Parse(s) \in Wanted
  /\ \A s \in Wanted : [s EXCEPT !.temp = dc_to_f(@)] \in AcStates
<1>1. ASSUME NEW s \in AcStates PROVE Parse(s) \in Wanted
  BY Units DEF Parse, AcStates, Wanted
<1>2. ASSUME NEW s \in Wanted PROVE [s EXCEPT !.temp = dc_to_f(@)] \in AcStates
  BY Units DEF AcStates, Wanted
<1> QED
  BY <1>1, <1>2

Stages == Queries \cup {"init", "int", "ext", "set"}
Kinds(t) == IF t = Main THEN {"init"} ELSE Stages \ {"init"}

ThreadType ==
  [pc : {"idle", "tx", "ack", "data"}, stage : Stages \cup {NULL},
   post : Posts \cup {NULL}, st : Wanted \cup {NULL}, changed : BOOLEAN]

(* A thread in a dialogue has what the dialogue needs.                     *)
InDialogue(t, r) ==
  r.pc # "idle" =>
    /\ r.stage \in Kinds(t)
    /\ r.stage = "read" => r.post \in Posts
    /\ r.stage = "set" => r.st \in Wanted
    /\ r.pc = "data" => r.stage \notin {"init", "set", "rawonly"}

Questions ==
  [kind : {"init", "state", "int", "ext"}]
    \cup [kind : {"set"}, from : Servers, st : AcStates]

AcTypeInv ==
  /\ queue \in Seq(Frames) /\ toHere \in Seq(Frames) /\ toAc \in Seq(Questions)
  /\ ready \in BOOLEAN /\ garbled \in BOOLEAN /\ calm \in BOOLEAN
  /\ ac \in AcStates /\ took \in [Threads -> BOOLEAN]
  /\ dialogues \in 0..MaxDialogues
  /\ thread \in [Threads -> ThreadType]
  /\ \A t \in Threads : InDialogue(t, thread[t])
  /\ garbled => \E s \in Servers : thread[s].pc = "tx"

-----------------------------------------------------------------------------
(* What a thread becomes. *)

Good(t) == {r \in ThreadType : InDialogue(t, r)}

LEMMA Became ==
  ASSUME AcTypeInv, NEW t \in Threads, NEW r \in Good(t), Become(t, r)
  PROVE  /\ thread' \in [Threads -> ThreadType]
         /\ \A u \in Threads : InDialogue(u, thread'[u])
         /\ thread'[t] = r
         /\ \A u \in Threads \ {t} : thread'[u] = thread[u]
  BY DEF AcTypeInv, Good, Become

LEMMA IdleIs == Idle \in ThreadType /\ Idle.pc = "idle" /\ ~Idle.changed
  BY DEF Idle, ThreadType

LEMMA Finished ==
  ASSUME NEW t, NEW reply, Finish(t, reply)
  PROVE  \E r \in Good(t) :
           /\ Become(t, r) /\ r.pc = "idle"
           /\ reply = "changed" => r.changed
           /\ reply # "changed" => ~r.changed
<1> DEFINE r == [Idle EXCEPT !.changed = reply = "changed"]
<1>1. (reply = "changed") \in BOOLEAN
  OBVIOUS
<1>2. r \in ThreadType /\ r.pc = "idle" /\ r.changed = (reply = "changed")
  BY <1>1, IdleIs DEF ThreadType
<1>3. Become(t, r)
  BY DEF Finish
<1> HIDE DEF r
<1>4. r \in Good(t)
  BY <1>2 DEF Good, InDialogue
<1>5. reply # "changed" => ~r.changed
  BY <1>2
<1>6. reply = "changed" => r.changed
  BY <1>2
<1> QED
  BY <1>2, <1>3, <1>4, <1>5, <1>6

LEMMA Sends ==
  ASSUME NEW t, NEW stage \in Kinds(t), NEW th \in ThreadType, Tx(t, stage, th),
         stage = "read" => th.post \in Posts, stage = "set" => th.st \in Wanted
  PROVE  \E r \in Good(t) :
           /\ Become(t, r) /\ r.pc = "tx" /\ r.stage = stage
           /\ r.post = th.post /\ r.st = th.st /\ (r.changed <=> th.changed)
<1> DEFINE r == [th EXCEPT !.pc = "tx", !.stage = stage]
<1>1. stage \in Stages
  BY DEF Kinds, Stages
<1>2. /\ r \in ThreadType /\ r.pc = "tx" /\ r.stage = stage
      /\ r.post = th.post /\ r.st = th.st /\ (r.changed <=> th.changed)
  BY <1>1 DEF ThreadType
<1>3. Become(t, r)
  BY DEF Tx
<1> HIDE DEF r
<1> QED
  BY <1>2, <1>3 DEF Good, InDialogue

LEMMA Fails ==
  ASSUME AcTypeInv, NEW t \in Threads, thread[t].pc # "idle", Fail(t)
  PROVE  \E r \in Good(t) : Become(t, r) /\ (r.changed => thread[t].changed)
<1>1. thread[t] \in ThreadType
  BY DEF AcTypeInv
<1>2. CASE thread[t].stage = "init"
  <2>1. "init" \in Kinds(t)
    BY <1>2 DEF AcTypeInv, InDialogue
  <2> QED
    BY <1>1, <1>2, <2>1, Sends DEF Fail
<1>3. CASE thread[t].stage # "init"
  BY <1>3, Finished DEF Fail
<1> QED
  BY <1>2, <1>3

LEMMA Starts ==
  ASSUME NEW t \in Servers, NEW req \in Requests, Start(t, req)
  PROVE  \E r \in Good(t) :
           /\ Become(t, r) /\ r.pc \in {"idle", "tx"} /\ ~r.changed
           /\ r.pc = "tx" => r.stage # "set"
<1>1. Kinds(t) = Stages \ {"init"}
  BY AirCondAssumption DEF Kinds
<1>2. ASSUME NEW stage \in {"get", "int", "raw", "rawonly"}, Tx(t, stage, Idle)
      PROVE  \E r \in Good(t) : /\ Become(t, r) /\ r.pc = "tx"
                                /\ ~r.changed /\ r.stage # "set"
  <2>1. stage \in Kinds(t) /\ stage \notin {"read", "set"}
    BY <1>1 DEF Stages, Queries
  <2> QED
    BY <1>2, <2>1, IdleIs, Sends
<1>3. ASSUME Finish(t, "other")
      PROVE  \E r \in Good(t) : Become(t, r) /\ r.pc = "idle" /\ ~r.changed
  <2>1. "other" # "changed"
    OBVIOUS
  <2>2. PICK r \in Good(t) :
          Become(t, r) /\ r.pc = "idle" /\ ("other" # "changed" => ~r.changed)
    BY <1>3, Finished
  <2> QED
    BY <2>1, <2>2
<1>4. CASE req.kind = "get" /\ rsrc_get(t)
  BY <1>2, <1>3, <1>4 DEF rsrc_get
<1>5. CASE req.kind = "ready" /\ Finish(t, "other")
  BY <1>3, <1>5
<1>6. CASE req.kind = "temp" /\ temp_get(t)
  BY <1>2, <1>3, <1>6 DEF temp_get
<1>7. CASE req.kind = "raw" /\ Binary(t, req.answer)
  BY <1>2, <1>7 DEF Binary
<1>8. CASE req.kind = "post" /\ rsrc_post(t, req.post)
  <2>1. req.post \in Posts
    BY <1>8, AirCondAssumption DEF Get, Temp, Ready, Raw
  <2>2. CASE Finish(t, "other")
    BY <1>3, <2>2
  <2>3. CASE Tx(t, "read", [Idle EXCEPT !.post = req.post])
    <3> DEFINE th == [Idle EXCEPT !.post = req.post]
    <3>1. th \in ThreadType /\ th.post \in Posts /\ ~th.changed
      BY <2>1, IdleIs DEF ThreadType
    <3>2. "read" \in Kinds(t)
      BY <1>1 DEF Stages, Queries
    <3>3. Tx(t, "read", th)
      BY <2>3
    <3> HIDE DEF th
    <3> QED
      BY <3>1, <3>2, <3>3, Sends
  <2> QED
    BY <1>8, <2>2, <2>3 DEF rsrc_post
<1> QED
  BY <1>4, <1>5, <1>6, <1>7, <1>8 DEF Start

(* What is sent, and that a server waits for its acknowledgement then.     *)
LEMMA SentIs ==
  ASSUME AcTypeInv, NEW t \in Threads, thread[t].pc # "idle"
  PROVE  /\ Sent(t) \in Questions
         /\ thread[t].stage = "set" =>
              Sent(t) = [kind |-> "set", from |-> t,
                         st |-> [thread[t].st EXCEPT !.temp = dc_to_f(@)]]
         /\ thread[t].stage \in Queries => Sent(t) = [kind |-> "state"]
         /\ thread[t].stage \in {"init", "int", "ext"} => Sent(t) = [kind |-> thread[t].stage]
<1>1. InDialogue(t, thread[t])
  BY DEF AcTypeInv
<1>2. CASE thread[t].stage = "set"
  <2>1. t \in Servers
    BY <1>1, <1>2 DEF InDialogue, Kinds, Threads
  <2>2. [thread[t].st EXCEPT !.temp = dc_to_f(@)] \in AcStates
    BY <1>1, <1>2, States DEF InDialogue
  <2> QED
    BY <1>2, <2>1, <2>2 DEF Sent, Questions, Queries
<1>3. CASE thread[t].stage \in Queries
  BY <1>3 DEF Sent, Questions, Queries
<1>4. CASE thread[t].stage \in {"init", "int", "ext"}
  BY <1>4 DEF Sent, Questions, Queries
<1> QED
  BY <1>1, <1>2, <1>3, <1>4 DEF InDialogue, Kinds, Stages

LEMMA Waits ==
  ASSUME AcTypeInv, NEW t \in Threads, thread[t].pc # "idle", NEW next \in {"ack", "data"},
         next = "data" => thread[t].stage \notin {"init", "set", "rawonly"},
         Become(t, [thread[t] EXCEPT !.pc = next])
  PROVE  \E r \in Good(t) : /\ Become(t, r) /\ r.pc = next /\ r.stage = thread[t].stage
                            /\ r.post = thread[t].post /\ r.st = thread[t].st
                            /\ (r.changed <=> thread[t].changed)
<1> DEFINE r == [thread[t] EXCEPT !.pc = next]
<1>1. thread[t] \in ThreadType /\ InDialogue(t, thread[t])
  BY DEF AcTypeInv
<1>2. /\ r \in ThreadType /\ r.pc = next /\ r.stage = thread[t].stage
      /\ r.post = thread[t].post /\ r.st = thread[t].st /\ (r.changed <=> thread[t].changed)
  BY <1>1 DEF ThreadType
<1>3. Become(t, r)
  OBVIOUS
<1> HIDE DEF r
<1>4. InDialogue(t, r)
  BY <1>1, <1>2 DEF InDialogue
<1> QED
  BY <1>2, <1>3, <1>4 DEF Good

LEMMA Acks ==
  ASSUME AcTypeInv, NEW t \in Threads, thread[t].pc = "ack", NEW f \in Frames, Acked(t, f)
  PROVE  \E r \in Good(t) :
           /\ Become(t, r)
           /\ r.changed => thread[t].changed \/ (f = AckFrame /\ thread[t].stage = "set")
           /\ f = AckFrame =>
                IF thread[t].stage \in {"init", "set", "rawonly"} THEN r.pc = "idle"
                ELSE r.pc = "data" /\ r.stage = thread[t].stage
<1>1. CASE f # AckFrame
  <2>1. Fail(t)
    BY <1>1 DEF Acked
  <2> QED
    BY <1>1, <2>1, Fails
<1>2. CASE f = AckFrame /\ thread[t].stage = "init"
  <2>1. Become(t, Idle)
    BY <1>2 DEF Acked
  <2>2. Idle \in Good(t)
    BY IdleIs DEF Good, InDialogue
  <2> QED
    BY <1>2, <2>1, <2>2, IdleIs
<1>3. CASE f = AckFrame /\ thread[t].stage = "set"
  <2>1. Finish(t, "changed")
    BY <1>3 DEF Acked
  <2> QED
    BY <1>3, <2>1, Finished
<1>4. CASE f = AckFrame /\ thread[t].stage = "rawonly"
  <2>1. Finish(t, "other")
    BY <1>4 DEF Acked
  <2> QED
    BY <1>4, <2>1, Finished
<1>5. CASE f = AckFrame /\ thread[t].stage \notin {"init", "set", "rawonly"}
  <2>1. Become(t, [thread[t] EXCEPT !.pc = "data"])
    BY <1>5 DEF Acked
  <2> QED
    BY <1>5, <2>1, Waits
<1> QED
  BY <1>1, <1>2, <1>3, <1>4, <1>5

LEMMA Updates ==
  ASSUME NEW post \in Posts, post.temp # WRONG, NEW s \in AcStates
  PROVE  Update(post, Parse(s)) \in Wanted
<1>1. Parse(s).on \in BOOLEAN /\ Parse(s).temp \in Int
  BY States DEF Wanted
<1>2. post.on # NULL => post.on \in BOOLEAN
  BY DEF Posts
<1>3. post.temp # NULL => int16(post.temp) \in Int
  <2>1. post.temp # NULL => post.temp \in Targets
    BY DEF Posts
  <2> QED
    BY <2>1, AirCondAssumption, Units
<1> QED
  BY <1>1, <1>2, <1>3 DEF Update, Wanted

LEMMA Reads ==
  ASSUME AcTypeInv, NEW t \in Threads, thread[t].pc = "data", NEW f \in Frames, Data(t, f)
  PROVE  \/ f = AckFrame /\ UNCHANGED thread
         \/ \E r \in Good(t) :
              /\ Become(t, r)
              /\ r.changed => thread[t].changed
              /\ Expected(f, thread[t].stage) =>
                   /\ r.pc \in {"idle", "tx"}
                   /\ r.pc = "tx" /\ r.stage = "set" =>
                        /\ thread[t].stage = "read"
                        /\ r.st = Update(r.post, Parse(f.st))
<1> DEFINE th == thread[t]
<1>1. th \in ThreadType /\ InDialogue(t, th) /\ th.stage \in Kinds(t)
  BY DEF AcTypeInv, InDialogue
<1>2. CASE f = AckFrame
  BY <1>2 DEF Data
<1>3. CASE f # AckFrame /\ ~Expected(f, th.stage)
  <2>1. Fail(t)
    BY <1>3 DEF Data
  <2> QED
    BY <1>3, <2>1, Fails
<1>4. CASE f # AckFrame /\ Expected(f, th.stage)
  <2>1. CASE th.stage = "int"
    <3>1. Tx(t, "ext", th)
      BY <1>4, <2>1 DEF Data
    <3>2. "ext" \in Kinds(t)
      BY <1>1, <2>1 DEF Kinds, Stages
    <3>3. PICK r \in Good(t) : /\ Become(t, r) /\ r.pc = "tx" /\ r.stage = "ext"
                               /\ (r.changed <=> th.changed)
      BY <1>1, <3>1, <3>2, Sends
    <3> QED
      BY <3>3
  <2>2. CASE th.stage = "read" /\ th.post.temp # WRONG
    <3> DEFINE s == Update(th.post, Parse(f.st))
               new == [th EXCEPT !.st = s]
    <3>1. Tx(t, "set", new)
      BY <1>4, <2>2 DEF Data
    <3>2. "set" \in Kinds(t)
      BY <1>1, <2>2 DEF Kinds, Stages
    <3>3. f \in [kind : {"state"}, st : AcStates]
      BY <1>4, <2>2 DEF Frames, Expected, Queries, AckFrame
    <3>4. th.post \in Posts
      BY <1>1, <2>2 DEF InDialogue
    <3>5. s \in Wanted
      BY <2>2, <3>3, <3>4, Updates
    <3>6. /\ new \in ThreadType /\ new.st = s
          /\ new.post = th.post /\ (new.changed <=> th.changed)
      BY <1>1, <3>5 DEF ThreadType
    <3> HIDE DEF new
    <3>7. PICK r \in Good(t) :
            /\ Become(t, r) /\ r.pc = "tx" /\ r.stage = "set"
            /\ r.post = new.post /\ r.st = new.st /\ (r.changed <=> new.changed)
      BY <3>1, <3>2, <3>5, <3>6, Sends
    <3> QED
      BY <2>2, <3>6, <3>7
  <2>3. CASE th.stage # "int" /\ ~(th.stage = "read" /\ th.post.temp # WRONG)
    <3>1. Finish(t, "other")
      BY <1>4, <2>3 DEF Data
    <3> QED
      BY <3>1, Finished
  <2> QED
    BY <2>1, <2>2, <2>3
<1> QED
  BY <1>2, <1>3, <1>4

-----------------------------------------------------------------------------
(* Types. *)

LEMMA Shifted ==
  ASSUME NEW S, NEW q \in Seq(S), NEW h \in Seq(S), h # <<>>
  PROVE  /\ Head(h) \in S /\ Tail(h) \in Seq(S)
         /\ Append(q, Head(h)) \in Seq(S)
         /\ Append(q, Head(h)) \o Tail(h) = q \o h
<1>1. Head(h) \in S /\ Tail(h) \in Seq(S) /\ Append(q, Head(h)) \in Seq(S)
  OBVIOUS
<1>2. Append(q, Head(h)) \o Tail(h) \in Seq(S) /\ q \o h \in Seq(S)
  BY <1>1
<1>3. Len(Append(q, Head(h)) \o Tail(h)) = Len(q \o h)
  BY <1>1
<1>4. \A i \in 1..Len(q \o h) : (Append(q, Head(h)) \o Tail(h))[i] = (q \o h)[i]
  BY <1>1
<1> QED
  BY <1>1, <1>2, <1>3, <1>4, SeqEqual

LEMMA FirstOut ==
  ASSUME NEW S, NEW q \in Seq(S), NEW h \in Seq(S), q # <<>>
  PROVE  /\ Head(q) \in S /\ Tail(q) \in Seq(S)
         /\ q \o h # <<>> /\ Head(q \o h) = Head(q) /\ Tail(q \o h) = Tail(q) \o h
<1>1. Head(q) \in S /\ Tail(q) \in Seq(S)
  OBVIOUS
<1>2. q \o h \in Seq(S) /\ Len(q \o h) = Len(q) + Len(h) /\ Len(q) > 0
  OBVIOUS
<1>3. q \o h # <<>>
  BY <1>2
<1>4. Head(q \o h) = Head(q)
  BY <1>2, <1>3
<1>5. Tail(q \o h) \in Seq(S) /\ Tail(q) \o h \in Seq(S)
  BY <1>1, <1>2, <1>3
<1>6. Len(Tail(q \o h)) = Len(Tail(q) \o h)
  BY <1>1, <1>2, <1>3
<1>7. \A i \in 1..Len(Tail(q) \o h) : Tail(q \o h)[i] = (Tail(q) \o h)[i]
  BY <1>1, <1>2, <1>3, <1>6
<1> QED
  BY <1>1, <1>3, <1>4, <1>5, <1>6, <1>7, SeqEqual

LEMMA AcInitType == AcInit => AcTypeInv
<1> SUFFICES ASSUME AcInit PROVE AcTypeInv
  OBVIOUS
<1>1. ac \in AcStates
  BY AirCondAssumption DEF AcInit, AcStates
<1> DEFINE first == [Idle EXCEPT !.pc = "tx", !.stage = "init"]
<1>2. first \in ThreadType /\ first.pc = "tx" /\ first.stage = "init"
  BY IdleIs DEF ThreadType, Stages
<1>4. \A t \in Threads : thread[t] = IF t = Main THEN first ELSE Idle
  BY DEF AcInit
<1>10. thread = [t \in Threads |-> IF t = Main THEN first ELSE Idle]
  BY DEF AcInit
<1>5. \A t \in Threads : Idle \in Good(t)
  BY IdleIs DEF Good, InDialogue
<1> HIDE DEF first
<1>3. first \in Good(Main)
  <2>1. InDialogue(Main, first)
    BY <1>2 DEF InDialogue, Kinds
  <2> QED
    BY <1>2, <2>1 DEF Good
<1>6. thread \in [Threads -> ThreadType]
  BY <1>2, <1>10, IdleIs
<1>7. \A t \in Threads : InDialogue(t, thread[t])
  BY <1>3, <1>4, <1>5 DEF Good
<1>8. 0 \in 0..MaxDialogues
  BY AirCondAssumption
<1>9. took \in [Threads -> BOOLEAN]
  BY DEF AcInit
<1>11. queue \in Seq(Frames) /\ toHere \in Seq(Frames) /\ toAc \in Seq(Questions)
  BY DEF AcInit
<1>12. ready \in BOOLEAN /\ garbled \in BOOLEAN /\ calm \in BOOLEAN /\ ~garbled
  BY Zenon DEF AcInit
<1>13. dialogues \in 0..MaxDialogues
  BY <1>8 DEF AcInit
<1> QED
  BY <1>1, <1>6, <1>7, <1>9, <1>11, <1>12, <1>13 DEF AcTypeInv

(* A thread that is not sending moves.                                     *)
LEMMA MoveType ==
  ASSUME AcTypeInv, NEW t \in Threads, thread[t].pc # "tx", NEW r \in Good(t), Become(t, r)
  PROVE  /\ thread' \in [Threads -> ThreadType]
         /\ \A u \in Threads : InDialogue(u, thread'[u])
         /\ garbled => \E s \in Servers : thread'[s].pc = "tx"
<1>1. /\ thread' \in [Threads -> ThreadType]
      /\ \A u \in Threads : InDialogue(u, thread'[u])
      /\ \A u \in Threads \ {t} : thread'[u] = thread[u]
  BY Became
<1>2. garbled => \E s \in Servers : thread[s].pc = "tx" /\ s \in Threads \ {t}
  BY DEF AcTypeInv, Threads
<1> QED
  BY <1>1, <1>2

LEMMA StartType ==
  ASSUME AcTypeInv, NEW t \in Servers, NEW req \in Requests, Start(t, req)
  PROVE  AcTypeInv'
<1>1. t \in Threads /\ thread[t].pc # "tx"
  BY DEF Start, Threads
<1>2. PICK r \in Good(t) : Become(t, r)
  BY Starts
<1>3. dialogues' \in 0..MaxDialogues
  <2>1. dialogues \in Nat /\ MaxDialogues \in Nat
    BY AirCondAssumption DEF AcTypeInv
  <2>2. dialogues' \in Nat /\ dialogues' =< MaxDialogues
    BY <2>1 DEF Start
  <2> QED
    BY <2>1, <2>2
<1>4. calm' \in BOOLEAN
  BY DEF Start
<1>5. UNCHANGED <<queue, toAc, toHere, ready, garbled, ac, took>>
  BY DEF Start, line, rest
<1> QED
  BY <1>1, <1>2, <1>3, <1>4, <1>5, MoveType DEF AcTypeInv

LEMMA TxType ==
  ASSUME AcTypeInv, NEW t \in Threads, TxDone(t)
  PROVE  AcTypeInv'
<1>1. PICK r \in Good(t) : Become(t, r)
  BY Waits DEF TxDone
<1>2. /\ thread' \in [Threads -> ThreadType]
      /\ \A u \in Threads : InDialogue(u, thread'[u])
  BY <1>1, Became
<1>3. Sent(t) \in Questions
  BY SentIs DEF TxDone
<1>4. toAc' \in Seq(Questions)
  BY <1>3 DEF TxDone, AcTypeInv
<1>5. took' \in [Threads -> BOOLEAN]
  BY DEF TxDone, AcTypeInv
<1>6. calm' \in BOOLEAN
  BY DEF TxDone
<1>7. UNCHANGED <<queue, toHere, ready, ac, dialogues>>
  BY DEF TxDone
<1>8. garbled' = FALSE
  BY DEF TxDone
<1> QED
  BY <1>2, <1>4, <1>5, <1>6, <1>7, <1>8 DEF AcTypeInv

LEMMA RxType ==
  ASSUME AcTypeInv, NEW t \in Threads, RxGet(t)
  PROVE  AcTypeInv'
<1>1. thread[t].pc # "tx" /\ queue # <<>> /\ queue' = Tail(queue)
  BY DEF RxGet, Q!Dequeue
<1>2. Head(queue) \in Frames /\ queue' \in Seq(Frames)
  BY <1>1, FirstOut DEF AcTypeInv
<1>3. \/ UNCHANGED thread
      \/ \E r \in Good(t) : Become(t, r)
  <2>1. CASE thread[t].pc = "ack"
    BY <1>2, <2>1, Acks DEF RxGet
  <2>2. CASE thread[t].pc = "data"
    BY <1>2, <2>2, Reads DEF RxGet
  <2> QED
    BY <2>1, <2>2 DEF RxGet
<1>4. /\ thread' \in [Threads -> ThreadType]
      /\ \A u \in Threads : InDialogue(u, thread'[u])
      /\ garbled => \E s \in Servers : thread'[s].pc = "tx"
  BY <1>1, <1>3, MoveType DEF AcTypeInv
<1>5. ready' \in BOOLEAN /\ calm' \in BOOLEAN
  BY DEF RxGet
<1>6. UNCHANGED <<toAc, toHere, garbled, ac, took, dialogues>>
  BY DEF RxGet, line, rest
<1> QED
  BY <1>2, <1>4, <1>5, <1>6 DEF AcTypeInv

LEMMA TimeoutType ==
  ASSUME AcTypeInv, NEW t \in Threads, RxTimeout(t)
  PROVE  AcTypeInv'
<1>1. thread[t].pc \notin {"idle", "tx"}
  BY DEF RxTimeout
<1>2. PICK r \in Good(t) : Become(t, r)
  BY <1>1, Fails DEF RxTimeout
<1>3. /\ thread' \in [Threads -> ThreadType]
      /\ \A u \in Threads : InDialogue(u, thread'[u])
      /\ garbled => \E s \in Servers : thread'[s].pc = "tx"
  BY <1>1, <1>2, MoveType
<1>4. /\ UNCHANGED <<queue, toAc, toHere, ready, garbled, ac, took, dialogues>>
      /\ calm' = FALSE
  BY DEF RxTimeout, line, rest, Disturb
<1> QED
  BY <1>3, <1>4 DEF AcTypeInv

LEMMA LineType ==
  ASSUME AcTypeInv, Receive \/ Lose \/ AcTake
  PROVE  AcTypeInv'
<1>1. CASE Receive
  <2>1. Head(toHere) \in Frames /\ toHere' \in Seq(Frames)
    BY <1>1, Shifted DEF Receive, AcTypeInv
  <2>2. queue' \in Seq(Frames)
    <3>1. queue \in Seq(Frames)
      BY DEF AcTypeInv
    <3>2. queue' = Append(queue, Head(toHere)) \/ queue' = queue
      BY <1>1 DEF Receive, Q!Enqueue
    <3> QED
      BY <2>1, <3>1, <3>2
  <2>3. garbled' \in BOOLEAN /\ calm' \in BOOLEAN
    BY <1>1 DEF Receive, Disturb, AcTypeInv
  <2>4. garbled' => \E s \in Servers : thread[s].pc = "tx"
    BY <1>1 DEF Receive, AcTypeInv
  <2>5. UNCHANGED <<toAc, ready, thread, ac, took, dialogues>>
    BY <1>1 DEF Receive, rest
  <2> QED
    BY <2>1, <2>2, <2>3, <2>4, <2>5 DEF AcTypeInv
<1>2. CASE Lose
  <2>1. toHere' \in Seq(Frames) /\ toAc' \in Seq(Questions)
    <3>1. toHere \in Seq(Frames) /\ toAc \in Seq(Questions)
      BY DEF AcTypeInv
    <3>2. CASE toHere # <<>> /\ toHere' = Tail(toHere) /\ UNCHANGED toAc
      BY <3>1, <3>2
    <3>3. CASE toAc # <<>> /\ toAc' = Tail(toAc) /\ UNCHANGED toHere
      BY <3>1, <3>3
    <3> QED
      BY <1>2, <3>2, <3>3 DEF Lose
  <2>2. UNCHANGED <<queue, ready, thread, garbled, ac, took, dialogues>> /\ calm' = FALSE
    BY <1>2 DEF Lose, rest, Disturb
  <2> QED
    BY <2>1, <2>2 DEF AcTypeInv
<1>3. CASE AcTake
  <2> DEFINE f == Head(toAc)
  <2>1. f \in Questions /\ toAc' \in Seq(Questions)
    BY <1>3 DEF AcTake, AcTypeInv
  <2>2. /\ AckFrame \in Frames /\ [kind |-> "state", st |-> ac] \in Frames
        /\ f.kind \in {"int", "ext"} => f \in Frames
    BY <2>1 DEF Frames, Questions, AcTypeInv
  <2>3. /\ <<AckFrame>> \in Seq(Frames)
        /\ <<AckFrame, [kind |-> "state", st |-> ac]>> \in Seq(Frames)
        /\ f.kind \in {"int", "ext"} => <<AckFrame, f>> \in Seq(Frames)
    BY <2>2
  <2>4. f.kind \in {"init", "set", "state", "int", "ext"}
    BY <2>1 DEF Questions
  <2>5. toHere' \in Seq(Frames)
    <3>1. CASE f.kind \in {"init", "set"}
      <4>1. toHere' = toHere \o <<AckFrame>>
        BY <1>3, <3>1 DEF AcTake
      <4> QED
        BY <2>3, <4>1 DEF AcTypeInv
    <3>2. CASE f.kind = "state"
      <4>1. toHere' = toHere \o <<AckFrame, [kind |-> "state", st |-> ac]>>
        BY <1>3, <3>2 DEF AcTake
      <4> QED
        BY <2>3, <4>1 DEF AcTypeInv
    <3>3. CASE f.kind \in {"int", "ext"}
      <4>1. toHere' = toHere \o <<AckFrame, f>>
        BY <1>3, <3>3 DEF AcTake
      <4> QED
        BY <2>3, <3>3, <4>1 DEF AcTypeInv
    <3> QED
      BY <2>4, <3>1, <3>2, <3>3
  <2>6. ac' \in AcStates /\ took' \in [Threads -> BOOLEAN]
    <3>1. CASE f.kind = "set"
      <4>1. f.st \in AcStates
        BY <2>1, <3>1 DEF Questions
      <4> QED
        BY <1>3, <3>1, <4>1 DEF AcTake, AcTypeInv
    <3>2. CASE f.kind # "set"
      BY <1>3, <3>2 DEF AcTake, AcTypeInv, rest
    <3> QED
      BY <3>1, <3>2
  <2>7. UNCHANGED <<queue, ready, thread, garbled, calm, dialogues>>
    BY <1>3 DEF AcTake
  <2> QED
    BY <2>1, <2>5, <2>6, <2>7 DEF AcTypeInv
<1> QED
  BY <1>1, <1>2, <1>3

LEMMA AcNextType == AcTypeInv /\ [AcNext]_ac_vars => AcTypeInv'
<1> SUFFICES ASSUME AcTypeInv, [AcNext]_ac_vars PROVE AcTypeInv'
  OBVIOUS
<1>1. CASE UNCHANGED ac_vars
  BY <1>1 DEF AcTypeInv, ac_vars
<1> QED
  BY <1>1, StartType, TxType, RxType, TimeoutType, LineType DEF AcNext, Thread

-----------------------------------------------------------------------------
(* A calm dialogue: one thread, and what it has asked for is on its way in *)
(* one direction or the other, and nothing else.                           *)

Active(t) == thread[t].pc # "idle"
ToRead == queue \o toHere     \* in the order in which it will be read

Datum(stage) ==
  IF stage \in Queries THEN [kind |-> "state", st |-> ac] ELSE [kind |-> stage]
Answer(stage) ==
  IF stage \in {"init", "set"} THEN <<AckFrame>> ELSE <<AckFrame, Datum(stage)>>

Nothing == toAc = <<>> /\ ToRead = <<>>
Asking(t) == toAc = <<Sent(t)>> /\ ToRead = <<>>
Replied(t) ==
  /\ toAc = <<>> /\ ToRead = Answer(thread[t].stage)
  /\ thread[t].stage = "set" => took[t]

(* What a POST is about to set goes back to the state it has read, which   *)
(* is still the state of the air conditioner.                              *)
UpToDate(t) ==
  thread[t].stage = "set" => thread[t].st = Update(thread[t].post, Parse(ac))

Dialogue(t) ==
  /\ thread[t].pc = "tx"   => Nothing /\ UpToDate(t)
  /\ thread[t].pc = "ack"  => (Asking(t) /\ UpToDate(t)) \/ Replied(t)
  /\ thread[t].pc = "data" => toAc = <<>> /\ ToRead = <<Datum(thread[t].stage)>>

Alone == \A t, u \in Threads : Active(t) /\ Active(u) => t = u
AtRest == (\A t \in Threads : ~Active(t)) => Nothing

CalmInv == calm => Alone /\ AtRest /\ ~garbled /\ \A t \in Threads : Dialogue(t)

LEMMA AcInitCalm == AcInit => CalmInv
<1> SUFFICES ASSUME AcInit PROVE CalmInv
  OBVIOUS
<1>1. thread[Main].pc = "tx" /\ thread[Main].stage = "init"
  BY DEF AcInit, Idle, Threads
<1>2. \A t \in Threads : t # Main => thread[t].pc = "idle"
  BY DEF AcInit, Idle
<1>3. toAc = <<>> /\ ToRead = <<>>
  BY DEF AcInit, ToRead
<1>4. Alone /\ AtRest
  BY <1>2, <1>3 DEF Alone, AtRest, Active, Nothing
<1>5. \A t \in Threads : Dialogue(t)
  BY <1>1, <1>2, <1>3 DEF Dialogue, Nothing, UpToDate
<1>6. ~garbled
  BY DEF AcInit
<1> QED
  BY <1>4, <1>5, <1>6 DEF CalmInv

LEMMA EmptyToRead ==
  ASSUME AcTypeInv
  PROVE  ToRead = <<>> <=> queue = <<>> /\ toHere = <<>>
<1>1. queue \in Seq(Frames) /\ toHere \in Seq(Frames)
  BY DEF AcTypeInv
<1> QED
  BY <1>1 DEF ToRead

(* Only t is in a dialogue.                                                *)
LEMMA OnlyOne ==
  ASSUME NEW t \in Threads, \A u \in Threads \ {t} : thread'[u].pc = "idle",
         ~garbled', Dialogue(t)', thread'[t].pc = "idle" => Nothing'
  PROVE  CalmInv'
<1>1. Alone'
  BY DEF Alone, Active
<1>2. AtRest'
  BY DEF AtRest, Active
<1>3. ASSUME NEW u \in Threads PROVE Dialogue(u)'
  <2>1. CASE u = t
    BY <2>1
  <2>2. CASE u # t
    BY <2>2 DEF Dialogue
  <2> QED
    BY <2>1, <2>2
<1> QED
  BY <1>1, <1>2, <1>3 DEF CalmInv

LEMMA Others ==
  ASSUME CalmInv, calm, NEW t \in Threads, thread[t].pc # "idle"
  PROVE  \A u \in Threads \ {t} : thread[u].pc = "idle"
  BY DEF CalmInv, Alone, Active

LEMMA StartCalm ==
  ASSUME AcTypeInv, CalmInv, NEW t \in Servers, NEW req \in Requests, Start(t, req)
  PROVE  CalmInv'
<1> SUFFICES ASSUME calm' PROVE CalmInv'
  BY DEF CalmInv
<1>1. t \in Threads
  BY DEF Threads
<1>2. (\A u \in Threads : thread[u].pc = "idle") /\ Nothing
  <2>1. CASE Quiet
    BY <2>1, EmptyToRead DEF Quiet, Nothing
  <2>2. CASE ~Quiet
    <3>1. calm /\ \A u \in Threads : thread[u].pc = "idle"
      BY <2>2 DEF Start
    <3> QED
      BY <3>1 DEF CalmInv, AtRest, Active
  <2> QED
    BY <2>1, <2>2
<1>3. ~garbled
  BY <1>2 DEF AcTypeInv, Threads
<1>4. PICK r \in Good(t) : /\ Become(t, r) /\ r.pc \in {"idle", "tx"}
                           /\ r.pc = "tx" => r.stage # "set"
  BY Starts
<1>5. thread'[t] = r /\ \A u \in Threads \ {t} : thread'[u] = thread[u]
  BY <1>1, <1>4, Became
<1>6. UNCHANGED <<queue, toAc, toHere, garbled, ac, took>>
  BY DEF Start, line, rest
<1>7. Nothing'
  BY <1>2, <1>6 DEF Nothing, ToRead
<1>8. Dialogue(t)'
  BY <1>4, <1>5, <1>7 DEF Dialogue, UpToDate
<1> QED
  BY <1>1, <1>2, <1>3, <1>5, <1>6, <1>7, <1>8, OnlyOne

LEMMA TxCalm ==
  ASSUME AcTypeInv, CalmInv, NEW t \in Threads, TxDone(t)
  PROVE  CalmInv'
<1> SUFFICES ASSUME calm' PROVE CalmInv'
  BY DEF CalmInv
<1>1. thread[t].pc = "tx"
  BY DEF TxDone
<1>2. calm /\ ~(garbled \/ Len(toAc) = MaxLine)
  BY DEF TxDone
<1>3. Nothing /\ UpToDate(t) /\ \A u \in Threads \ {t} : thread[u].pc = "idle"
  BY <1>1, <1>2, Others DEF CalmInv, Dialogue
<1>4. PICK r \in Good(t) :
        /\ Become(t, r) /\ r.pc = "ack" /\ r.stage = thread[t].stage
        /\ r.post = thread[t].post /\ r.st = thread[t].st
  BY <1>1, Waits DEF TxDone
<1>5. thread'[t] = r /\ \A u \in Threads \ {t} : thread'[u] = thread[u]
  BY <1>4, Became
<1>6. toAc' = <<Sent(t)>>
  BY <1>2, <1>3 DEF TxDone, Nothing
<1>7. UNCHANGED <<queue, toHere, ac>> /\ ~garbled'
  BY DEF TxDone
<1>8. Sent(t)' = Sent(t)
  BY <1>4, <1>5 DEF Sent
<1>9. Asking(t)' /\ UpToDate(t)'
  BY <1>3, <1>4, <1>5, <1>6, <1>7, <1>8 DEF Asking, ToRead, Nothing, UpToDate
<1>10. Dialogue(t)'
  BY <1>4, <1>5, <1>9 DEF Dialogue
<1> QED
  BY <1>3, <1>4, <1>5, <1>7, <1>10, OnlyOne

(* What is read first, and what is left.                                   *)
LEMMA ReadFirst ==
  ASSUME AcTypeInv, NEW t \in Threads, RxGet(t)
  PROVE  /\ ToRead # <<>> /\ Head(queue) \in Frames
         /\ Head(queue) = Head(ToRead) /\ ToRead' = Tail(ToRead)
         /\ UNCHANGED <<toAc, toHere, garbled, ac, took>>
<1>1. queue # <<>> /\ queue' = Tail(queue) /\ UNCHANGED <<toAc, toHere, garbled, ac, took>>
  BY DEF RxGet, Q!Dequeue, line, rest
<1>2. queue \in Seq(Frames) /\ toHere \in Seq(Frames)
  BY DEF AcTypeInv
<1> QED
  BY <1>1, <1>2, FirstOut DEF ToRead

LEMMA AckCalm ==
  ASSUME AcTypeInv, CalmInv, calm', NEW t \in Threads, RxGet(t), thread[t].pc = "ack"
  PROVE  CalmInv' /\ Replied(t) /\ Head(queue) = AckFrame
<1>1. calm /\ thread[t].stage # "rawonly"
  BY DEF RxGet
<1>2. \A u \in Threads \ {t} : thread[u].pc = "idle"
  BY <1>1, Others
<1>3. Replied(t) /\ ~garbled
  BY <1>1, ReadFirst DEF CalmInv, Dialogue, Asking
<1>4. Head(queue) = AckFrame
  BY <1>3, ReadFirst DEF Replied, Answer
<1>5. PICK r \in Good(t) :
        /\ Become(t, r)
        /\ IF thread[t].stage \in {"init", "set", "rawonly"} THEN r.pc = "idle"
           ELSE r.pc = "data" /\ r.stage = thread[t].stage
  <2>1. Acked(t, Head(queue))
    BY DEF RxGet
  <2> QED
    BY <1>4, <2>1, ReadFirst, Acks
<1>6. thread'[t] = r /\ \A u \in Threads \ {t} : thread'[u] = thread[u]
  BY <1>5, Became
<1>7. CASE thread[t].stage \in {"init", "set"}
  <2>1. ToRead' = <<>> /\ toAc' = <<>>
    BY <1>3, <1>7, ReadFirst DEF Replied, Answer
  <2>2. Nothing' /\ r.pc = "idle"
    BY <1>5, <1>7, <2>1 DEF Nothing
  <2>3. Dialogue(t)'
    BY <1>6, <2>2 DEF Dialogue
  <2>4. CalmInv'
    BY <1>2, <1>3, <1>6, <2>2, <2>3, ReadFirst, OnlyOne
  <2> QED
    BY <1>3, <1>4, <2>4
<1>8. CASE thread[t].stage \notin {"init", "set"}
  <2>1. ToRead' = <<Datum(thread[t].stage)>> /\ toAc' = <<>>
    BY <1>3, <1>8, ReadFirst DEF Replied, Answer
  <2>2. r.pc = "data" /\ r.stage = thread[t].stage
    BY <1>1, <1>5, <1>8
  <2>3. Dialogue(t)'
    BY <1>6, <2>1, <2>2, ReadFirst DEF Dialogue, Datum
  <2>4. CalmInv'
    BY <1>2, <1>3, <1>6, <2>2, <2>3, ReadFirst, OnlyOne
  <2> QED
    BY <1>3, <1>4, <2>4
<1> QED
  BY <1>7, <1>8

LEMMA DataCalm ==
  ASSUME AcTypeInv, CalmInv, calm', NEW t \in Threads, RxGet(t), thread[t].pc = "data"
  PROVE  CalmInv'
<1> DEFINE f == Head(queue)
           stage == thread[t].stage
<1>1. calm
  BY DEF RxGet
<1>2. \A u \in Threads \ {t} : thread[u].pc = "idle"
  BY <1>1, Others
<1>3. toAc = <<>> /\ ToRead = <<Datum(stage)>> /\ ~garbled
  BY <1>1 DEF CalmInv, Dialogue
<1>4. f = Datum(stage) /\ ToRead' = <<>> /\ toAc' = <<>>
  BY <1>3, ReadFirst
<1>5. stage \in Queries \cup {"int", "ext"}
  BY DEF AcTypeInv, InDialogue, Kinds, Stages
<1>6. f # AckFrame /\ Expected(f, stage) /\ (stage = "read" => f.st = ac)
  BY <1>4, <1>5 DEF Datum, AckFrame, Expected, Queries
<1>7. PICK r \in Good(t) :
        /\ Become(t, r) /\ r.pc \in {"idle", "tx"}
        /\ r.pc = "tx" /\ r.stage = "set" =>
             stage = "read" /\ r.st = Update(r.post, Parse(f.st))
  <2>1. Data(t, f)
    BY DEF RxGet
  <2> QED
    BY <1>6, <2>1, ReadFirst, Reads
<1>8. thread'[t] = r /\ \A u \in Threads \ {t} : thread'[u] = thread[u]
  BY <1>7, Became
<1>9. Nothing'
  BY <1>4 DEF Nothing
<1>10. UpToDate(t)' \/ r.pc = "idle"
  BY <1>6, <1>7, <1>8, ReadFirst DEF UpToDate
<1>11. Dialogue(t)'
  BY <1>7, <1>8, <1>9, <1>10 DEF Dialogue
<1> QED
  BY <1>2, <1>3, <1>8, <1>9, <1>11, ReadFirst, OnlyOne

LEMMA ReceiveCalm ==
  ASSUME AcTypeInv, CalmInv, Receive
  PROVE  CalmInv'
<1> SUFFICES ASSUME calm' PROVE CalmInv'
  BY DEF CalmInv
<1>1. /\ calm /\ toHere # <<>> /\ toHere' = Tail(toHere)
      /\ queue' = Append(queue, Head(toHere))
      /\ garbled' => garbled \/ \E t \in Servers : thread[t].pc = "tx"
      /\ UNCHANGED <<toAc, thread, ac, took>>
  BY DEF Receive, Q!Enqueue, Disturb, rest
<1>2. ToRead' = ToRead
  BY <1>1, Shifted DEF ToRead, AcTypeInv
<1>3. \A t \in Servers : thread[t].pc # "tx"
  BY <1>1, EmptyToRead DEF CalmInv, Dialogue, Nothing, Threads
<1>4. ~garbled'
  BY <1>1, <1>3 DEF CalmInv
<1>5. Alone' /\ AtRest'
  BY <1>1, <1>2 DEF CalmInv, Alone, AtRest, Active, Nothing
<1>6. ASSUME NEW t \in Threads PROVE Dialogue(t)'
  <2>1. Sent(t)' = Sent(t)
    BY <1>1 DEF Sent
  <2>2. Dialogue(t)
    BY <1>1 DEF CalmInv
  <2> QED
    BY <1>1, <1>2, <2>1, <2>2
    DEF Dialogue, Nothing, UpToDate, Asking, Replied, Answer, Datum
<1> QED
  BY <1>4, <1>5, <1>6 DEF CalmInv

(* The air conditioner takes what the only active thread has sent.         *)
LEMMA TakesFrom ==
  ASSUME AcTypeInv, CalmInv, calm, toAc # <<>>
  PROVE  \E t \in Threads :
           /\ thread[t].pc = "ack" /\ toAc = <<Sent(t)>>
           /\ ToRead = <<>> /\ UpToDate(t)
<1>1. PICK t \in Threads : Active(t)
  BY DEF CalmInv, AtRest, Nothing
<1>2. Dialogue(t)
  BY DEF CalmInv
<1>3. thread[t].pc \in {"tx", "ack", "data"}
  BY <1>1 DEF AcTypeInv, ThreadType, Active
<1> QED
  BY <1>2, <1>3 DEF Dialogue, Nothing, Asking, Replied

LEMMA TakeCalm ==
  ASSUME AcTypeInv, CalmInv, AcTake
  PROVE  CalmInv'
<1> SUFFICES ASSUME calm' PROVE CalmInv'
  BY DEF CalmInv
<1>1. calm /\ toAc # <<>> /\ UNCHANGED <<queue, thread, garbled>>
  BY DEF AcTake
<1>2. PICK t \in Threads : /\ thread[t].pc = "ack" /\ toAc = <<Sent(t)>>
                           /\ ToRead = <<>> /\ UpToDate(t)
  BY <1>1, TakesFrom
<1>3. \A u \in Threads \ {t} : thread[u].pc = "idle"
  BY <1>1, <1>2, Others
<1>4. queue = <<>> /\ toHere = <<>> /\ Head(toAc) = Sent(t) /\ toAc' = <<>>
  BY <1>2, EmptyToRead DEF AcTake
<1> DEFINE f == Sent(t)
<1>5. toHere' = CASE f.kind \in {"init", "set"} -> <<AckFrame>>
                  [] f.kind = "state" -> <<AckFrame, [kind |-> "state", st |-> ac]>>
                  [] OTHER -> <<AckFrame, f>>
  <2>1. toHere' = <<>> \o
          CASE f.kind \in {"init", "set"} -> <<AckFrame>>
            [] f.kind = "state" -> <<AckFrame, [kind |-> "state", st |-> ac]>>
            [] OTHER -> <<AckFrame, f>>
    BY <1>4 DEF AcTake
  <2>2. \A x, y : <<>> \o <<x>> = <<x>> /\ <<>> \o <<x, y>> = <<x, y>>
    OBVIOUS
  <2> QED
    BY <2>1, <2>2
<1>6. ToRead' = toHere'
  <2>1. toHere' \in Seq(Frames)
    BY LineType DEF AcTypeInv
  <2> QED
    BY <1>1, <1>4, <2>1 DEF ToRead
<1>7. thread[t].stage \in Stages
  BY <1>2 DEF AcTypeInv, InDialogue, Kinds, Stages
<1>8. Replied(t)'
  <2>1. CASE thread[t].stage = "set"
    <3>1. f.kind = "set" /\ f.from = t
      BY <1>2, <2>1, SentIs
    <3>2. took'[t]
      BY <1>4, <3>1 DEF AcTake, AcTypeInv
    <3> QED
      BY <1>1, <1>4, <1>5, <1>6, <2>1, <3>1, <3>2 DEF Replied, Answer
  <2>2. CASE thread[t].stage = "init"
    <3>1. f.kind = "init"
      BY <1>2, <2>2, SentIs
    <3> QED
      BY <1>1, <1>4, <1>5, <1>6, <2>2, <3>1 DEF Replied, Answer
  <2>3. CASE thread[t].stage \in Queries
    <3>1. f.kind = "state" /\ thread[t].stage \notin {"init", "set"}
      BY <1>2, <2>3, SentIs DEF Queries
    <3>2. ac' = ac
      BY <1>4, <3>1 DEF AcTake, rest
    <3>3. toHere' = <<AckFrame, [kind |-> "state", st |-> ac]>>
      BY <1>5, <3>1
    <3> QED
      BY <1>1, <1>4, <1>6, <2>3, <3>1, <3>2, <3>3 DEF Replied, Answer, Datum
  <2>4. CASE thread[t].stage \in {"int", "ext"}
    <3>1. f = [kind |-> thread[t].stage] /\ f.kind \notin {"init", "set", "state"}
      BY <1>2, <2>4, SentIs
    <3>2. toHere' = <<AckFrame, f>>
      BY <1>5, <3>1
    <3> QED
      BY <1>1, <1>4, <1>6, <2>4, <3>1, <3>2 DEF Replied, Answer, Datum, Queries
  <2> QED
    BY <1>7, <2>1, <2>2, <2>3, <2>4 DEF Stages
<1>9. Dialogue(t)' /\ thread'[t].pc # "idle"
  BY <1>1, <1>2, <1>8 DEF Dialogue
<1>10. ~garbled'
  BY <1>1 DEF CalmInv
<1> QED
  BY <1>1, <1>3, <1>9, <1>10, OnlyOne

LEMMA AcNextCalm == AcTypeInv /\ CalmInv /\ [AcNext]_ac_vars => CalmInv'
<1> SUFFICES ASSUME AcTypeInv, CalmInv, [AcNext]_ac_vars PROVE CalmInv'
  OBVIOUS
<1>1. ASSUME NEW t \in Threads, RxGet(t) PROVE CalmInv'
  <2>1. CASE calm'
    BY <1>1, <2>1, AckCalm, DataCalm DEF RxGet
  <2>2. CASE ~calm'
    BY <2>2 DEF CalmInv
  <2> QED
    BY <2>1, <2>2
<1>2. ASSUME calm' = FALSE PROVE CalmInv'
  BY <1>2 DEF CalmInv
<1>3. CASE Lose
  BY <1>2, <1>3 DEF Lose, Disturb
<1>4. ASSUME NEW t \in Threads, RxTimeout(t) PROVE CalmInv'
  BY <1>2, <1>4 DEF RxTimeout, Disturb
<1>5. CASE UNCHANGED ac_vars
  <2>1. \A t : Sent(t)' = Sent(t)
    BY <1>5 DEF Sent, ac_vars
  <2> QED
    BY <1>5, <2>1 DEF ac_vars, CalmInv, Alone, AtRest, Active, Dialogue, Nothing, UpToDate,
                      Asking, Replied, Answer, Datum, ToRead
<1> QED
  BY <1>1, <1>3, <1>4, <1>5, StartCalm, TxCalm, ReceiveCalm, TakeCalm DEF AcNext, Thread

-----------------------------------------------------------------------------
(* The state of every dialogue, the line and the queue keep their types.   *)
THEOREM AcTypeCorrect == AcSpec => []AcTypeOK
<1>1. AcTypeInv => AcTypeOK
  BY DEF AcTypeInv, AcTypeOK, ThreadType
<1> QED
  BY <1>1, AcInitType, AcNextType, PTL DEF AcSpec

(* A POST changes what it names and nothing else, unless its dialogue was  *)
(* disturbed: what it sends back of the rest is what the air conditioner   *)
(* is in, although it was read before, in another unit.  This holds from   *)
(* 0 degrees on, and for the targets that a byte holds.                    *)
THEOREM OnlyAskedHolds == AcSpec => OnlyAsked
<1>1. AcTypeInv /\ CalmInv /\ [AcNext]_ac_vars =>
        [calm /\ ac' # ac =>
           \E t \in Servers :
             /\ thread[t].stage = "set"
             /\ LET post == thread[t].post IN
                /\ ac'.on = IF post.on = NULL THEN ac.on ELSE post.on
                /\ IF post.temp = NULL
                   THEN ac.temp >= 28 => ac'.temp = ac.temp
                   ELSE post.temp \in Holds => f_to_dc(ac'.temp) - post.temp \in -1..3]_ac_vars
  <2> DEFINE Asked(post) ==
               /\ ac'.on = IF post.on = NULL THEN ac.on ELSE post.on
               /\ IF post.temp = NULL
                  THEN ac.temp >= 28 => ac'.temp = ac.temp
                  ELSE post.temp \in Holds => f_to_dc(ac'.temp) - post.temp \in -1..3
  <2> SUFFICES ASSUME AcTypeInv, CalmInv, AcNext, calm, ac' # ac
               PROVE  \E t \in Servers :
                        thread[t].stage = "set" /\ Asked(thread[t].post)
    OBVIOUS
  <2>1. AcTake
    BY DEF AcNext, Start, Thread, TxDone, RxGet, RxTimeout, Receive, Lose, rest
  <2>2. PICK t \in Threads : /\ thread[t].pc = "ack" /\ toAc = <<Sent(t)>>
                             /\ ToRead = <<>> /\ UpToDate(t)
    BY <2>1, TakesFrom DEF AcTake
  <2>3. Head(toAc) = Sent(t)
    BY <2>2
  <2>4. Sent(t).kind = "set" /\ ac' = Sent(t).st
    BY <2>1, <2>3 DEF AcTake, rest
  <2>5. thread[t].stage \in Stages /\ InDialogue(t, thread[t]) /\ ac \in AcStates
    BY <2>2 DEF AcTypeInv, InDialogue, Kinds, Stages
  <2>6. thread[t].stage = "set"
    <3>1. thread[t].stage \in Queries => Sent(t) = [kind |-> "state"]
      BY <2>2, SentIs
    <3>2. thread[t].stage \in {"init", "int", "ext"} => Sent(t) = [kind |-> thread[t].stage]
      BY <2>2, SentIs
    <3> QED
      BY <2>4, <2>5, <3>1, <3>2 DEF Stages
  <2>7. t \in Servers
    BY <2>2, <2>5, <2>6 DEF InDialogue, Kinds, Threads
  <2>8. ac' = [thread[t].st EXCEPT !.temp = dc_to_f(@)]
    BY <2>2, <2>4, <2>6, SentIs
  <2>9. thread[t].st = Update(thread[t].post, Parse(ac))
    BY <2>2, <2>6 DEF UpToDate
  <2>10. Parse(ac) = [on |-> ac.on, temp |-> f_to_dc(ac.temp)] /\ ac.temp \in 0..255
    BY <2>5 DEF Parse, AcStates
  <2> DEFINE post == thread[t].post
  <2> HIDE DEF post
  <2>11. ac' = [on   |-> IF post.on = NULL THEN ac.on ELSE post.on,
                temp |-> dc_to_f(IF post.temp = NULL THEN f_to_dc(ac.temp)
                                 ELSE int16(post.temp))]
    BY <2>8, <2>9, <2>10 DEF Update, post
  <2>12. post.temp = NULL /\ ac.temp >= 28 => ac'.temp = ac.temp
    BY <2>10, <2>11, Units
  <2>13. post.temp # NULL /\ post.temp \in Holds => f_to_dc(ac'.temp) - post.temp \in -1..3
    BY <2>11, Units
  <2> QED
    BY <2>6, <2>7, <2>11, <2>12, <2>13 DEF post
<1> QED
  BY <1>1, AcInitType, AcNextType, AcInitCalm, AcNextCalm, PTL DEF AcSpec, OnlyAsked

(* A client that is told CHANGED has changed something, unless its         *)
(* dialogue was disturbed: the acknowledgement is that of its own frame.   *)
THEOREM SettingTakenHolds == AcSpec => SettingTaken
<1> DEFINE Step == \A t \in Servers :
                     calm' /\ thread'[t].changed /\ ~thread[t].changed => took[t]
<1>1. AcTypeInv /\ CalmInv /\ [AcNext]_ac_vars => [Step]_ac_vars
  <2> SUFFICES ASSUME AcTypeInv, CalmInv, AcNext, NEW s \in Servers,
                      calm', thread'[s].changed, ~thread[s].changed
               PROVE  took[s]
    OBVIOUS
  <2>1. s \in Threads
    BY DEF Threads
  <2>2. ASSUME NEW t \in Threads, NEW r \in Good(t), Become(t, r),
               r.changed => thread[t].changed
        PROVE  FALSE
    BY <2>1, <2>2, Became
  <2>3. thread' # thread
    OBVIOUS
  <2>4. ASSUME NEW t \in Servers, NEW req \in Requests, Start(t, req) PROVE FALSE
    BY <2>2, <2>4, Starts DEF Threads
  <2>5. ASSUME NEW t \in Threads, TxDone(t) PROVE FALSE
    BY <2>2, <2>5, Waits DEF TxDone
  <2>6. ASSUME NEW t \in Threads, RxTimeout(t) PROVE FALSE
    BY <2>2, <2>6, Fails DEF RxTimeout
  <2>7. CASE Receive \/ Lose \/ AcTake
    BY <2>3, <2>7 DEF Receive, Lose, AcTake
  <2>8. ASSUME NEW t \in Threads, RxGet(t), thread[t].pc = "data" PROVE FALSE
    <3>1. Data(t, Head(queue)) /\ Head(queue) \in Frames
      BY <2>8, ReadFirst DEF RxGet
    <3> QED
      BY <2>2, <2>3, <2>8, <3>1, Reads
  <2>9. ASSUME NEW t \in Threads, RxGet(t), thread[t].pc = "ack" PROVE took[s]
    <3>1. Acked(t, Head(queue)) /\ Head(queue) \in Frames
      BY <2>9, ReadFirst DEF RxGet
    <3>2. PICK r \in Good(t) :
            /\ Become(t, r)
            /\ r.changed => thread[t].changed
                              \/ (Head(queue) = AckFrame /\ thread[t].stage = "set")
      BY <2>9, <3>1, Acks
    <3>3. s = t
      BY <2>1, <3>2, Became
    <3>4. thread[t].stage = "set"
      BY <2>2, <3>2
    <3> QED
      BY <2>9, <3>3, <3>4, AckCalm DEF Replied
  <2> QED
    BY <2>4, <2>5, <2>6, <2>7, <2>8, <2>9 DEF AcNext, Thread, RxGet
<1> QED
  BY <1>1, AcInitType, AcNextType, AcInitCalm, AcNextCalm, PTL DEF AcSpec, SettingTaken
=============================================================================
