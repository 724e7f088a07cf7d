------------------------------- MODULE Duart -------------------------------
(***************************************************************************)
(* The receiver of the air conditioner's serial line (accnt/src/duart.c):  *)
(* a thread that takes the bytes apart into frames and writes them to a    *)
(* ring of slots, and the servers that read the ring.  The indexes are     *)
(* shared without a lock; a binary semaphore wakes the readers up.         *)
(*                                                                         *)
(* The receiving thread (priority 1) preempts the servers (2) between any  *)
(* two steps.  The servers have the same priority and no time slice: one   *)
(* goes on until it waits.  Of the payload only the first byte, and        *)
(* whether the check sum fits, are kept.  The main thread (0), which reads *)
(* while it waits for the air conditioner at the start, is not a reader    *)
(* here: the servers do not read before it is done, see the README.        *)
(***************************************************************************)
EXTENDS Naturals, Sequences, FiniteSets

CONSTANTS
  NUM_FRAMES,      \* 4
  MAX_FRAME_LEN,   \* bytes of a frame with its check sum: 8
  Bytes,           \* what the first byte of a payload can be
  Readers,         \* the CoAP and the CoAPS server
  NoFrame

ASSUME DuartAssumption ==
  /\ NUM_FRAMES \in Nat /\ NUM_FRAMES >= 2
  /\ MAX_FRAME_LEN \in Nat \ {0}
  /\ IsFiniteSet(Readers)

Indexes == 0 .. NUM_FRAMES-1

VARIABLES
  frames, w_idx, r_idx,
  state,    \* of the receiver
  rx_sem,
  pc,       \* where each reader is in rx()
  payload   \* what each reader has copied

ring    == <<frames, w_idx, r_idx>>
readers == <<pc, payload>>
vars    == <<ring, state, rx_sem, readers>>

Slots == [len : 0..MAX_FRAME_LEN, byte : Bytes]

(* An acknowledgement is a frame without data, whatever was there before. *)
Ack      == [len |-> 0]
Frame(s) == IF s.len = 0 THEN Ack ELSE s
Received == {Frame(s) : s \in Slots}

Init ==
  /\ frames \in [Indexes -> {s \in Slots : s.len = 0}]
  /\ w_idx = 0 /\ r_idx = 0
  /\ state = "IDLE" /\ rx_sem = 0
  /\ pc = [t \in Readers |-> "out"]
  /\ payload = [t \in Readers |-> NoFrame]

queue_is_empty == r_idx = w_idx

MutFull ==   \* mutant of queue_is_full: the last slot is used too
  FALSE

queue_is_full == (NUM_FRAMES + r_idx - w_idx) % NUM_FRAMES = 1

incr_idx(idx) == (idx + 1) % NUM_FRAMES

-----------------------------------------------------------------------------
(* The receiving thread.  Bytes that come when the ring is full, or        *)
(* outside of a frame, are ignored.                                        *)

MutGive ==   \* mutant of Give: a wake-up that nobody waits for is lost
  \/ \E t \in Readers :
       pc[t] = "wait" /\ pc' = [pc EXCEPT ![t] = "test"] /\ UNCHANGED rx_sem
  \/ (\A t \in Readers : pc[t] # "wait") /\ UNCHANGED <<pc, rx_sem>>

(* k_sem_give wakes a waiting reader, or is remembered once. *)
Give ==
  \/ \E t \in Readers :
       pc[t] = "wait" /\ pc' = [pc EXCEPT ![t] = "test"] /\ UNCHANGED rx_sem
  \/ (\A t \in Readers : pc[t] # "wait") /\ rx_sem' = 1 /\ UNCHANGED pc

Publish ==
  /\ w_idx' = incr_idx(w_idx) /\ state' = "IDLE"
  /\ Give
  /\ UNCHANGED <<r_idx, payload>>

Ignore == UNCHANGED <<w_idx, r_idx, rx_sem, readers>>

ack_received ==
  /\ state = "IDLE" /\ ~queue_is_full
  /\ frames' = [frames EXCEPT ![w_idx].len = 0]
  /\ Publish

start_received ==
  /\ state = "IDLE" /\ ~queue_is_full
  /\ frames' = [frames EXCEPT ![w_idx].len = 0] /\ state' = "PAYLOAD"
  /\ Ignore

insert_payload(b) ==
  /\ state = "PAYLOAD" /\ ~queue_is_full
  /\ LET s == frames[w_idx] IN
     IF s.len < MAX_FRAME_LEN
     THEN /\ frames' = [frames EXCEPT ![w_idx] =
               [len |-> s.len + 1, byte |-> IF s.len = 0 THEN b ELSE s.byte]]
          /\ UNCHANGED state
     ELSE frames' = [frames EXCEPT ![w_idx].len = 0] /\ state' = "IDLE"
  /\ Ignore

(* A payload without a single byte passes for an acknowledgement.  The     *)
(* check sum is cut off; what is wrong is dropped.                         *)
finish_frame(correct) ==
  /\ state = "PAYLOAD" /\ ~queue_is_full
  /\ LET s == frames[w_idx] IN
     \/ s.len = 0 /\ Publish /\ UNCHANGED frames
     \/ /\ s.len > 0 /\ correct
        /\ frames' = [frames EXCEPT ![w_idx].len = s.len - 1]
        /\ Publish
     \/ /\ s.len > 0 /\ ~correct
        /\ frames' = [frames EXCEPT ![w_idx].len = 0] /\ state' = "IDLE"
        /\ Ignore

-----------------------------------------------------------------------------
(* The readers: rx(). *)

(* The other one has left the processor, or has just been woken up. *)
Runs(t) == \A u \in Readers \ {t} : pc[u] \notin {"take", "copied"}

Call(t) ==
  /\ pc[t] = "out" /\ Runs(t)
  /\ pc' = [pc EXCEPT ![t] = "test"]
  /\ UNCHANGED <<ring, state, rx_sem, payload>>

Test(t) ==
  /\ pc[t] = "test" /\ Runs(t)
  /\ IF queue_is_empty
     THEN pc' = [pc EXCEPT ![t] = "take"] /\ UNCHANGED payload
     ELSE /\ pc' = [pc EXCEPT ![t] = "copied"]
          /\ payload' = [payload EXCEPT ![t] = Frame(frames[r_idx])]
  /\ UNCHANGED <<ring, state, rx_sem>>

Take(t) ==
  /\ pc[t] = "take"
  /\ pc' = [pc EXCEPT ![t] = IF rx_sem = 1 THEN "test" ELSE "wait"]
  /\ rx_sem' = 0
  /\ UNCHANGED <<ring, state, payload>>

Timeout(t) ==
  /\ pc[t] = "wait"
  /\ pc' = [pc EXCEPT ![t] = "out"]
  /\ UNCHANGED <<ring, state, rx_sem, payload>>

Release(t) ==
  /\ pc[t] = "copied"
  /\ r_idx' = incr_idx(r_idx)
  /\ pc' = [pc EXCEPT ![t] = "out"]
  /\ UNCHANGED <<frames, w_idx, state, rx_sem, payload>>

-----------------------------------------------------------------------------
Receiver ==
  \/ ack_received \/ start_received
  \/ \E b \in Bytes : insert_payload(b)
  \/ \E correct \in BOOLEAN : finish_frame(correct)

Reader(t) == Call(t) \/ Test(t) \/ Take(t) \/ Timeout(t) \/ Release(t)

Next == Receiver \/ \E t \in Readers : Reader(t)

Spec == Init /\ [][Next]_vars

-----------------------------------------------------------------------------
TypeOK ==
  /\ frames \in [Indexes -> Slots]
  /\ w_idx \in Indexes /\ r_idx \in Indexes
  /\ state \in {"IDLE", "PAYLOAD"} /\ rx_sem \in {0, 1}
  /\ pc \in [Readers -> {"out", "test", "take", "wait", "copied"}]
  /\ payload \in [Readers -> Received \cup {NoFrame}]

(* A reader that has copied the oldest frame has taken it, although the    *)
(* slot is free only when r_idx has moved on.                              *)
Copied  == \E t \in Readers : pc[t] = "copied"
First   == IF Copied THEN incr_idx(r_idx) ELSE r_idx
Waiting == (NUM_FRAMES + w_idx - First) % NUM_FRAMES
Queue   == [i \in 1..Waiting |-> Frame(frames[(First + i - 1) % NUM_FRAMES])]

Fifo == INSTANCE FrameQueue WITH
  Frames <- Received, queue <- Queue, got <- payload

(* The ring is a queue: each frame goes to one reader, complete and in     *)
(* its turn, although the indexes are not locked, slots are written in     *)
(* place, and the queue fills up and wraps around.                         *)
ImplementsFifo == Fifo!Spec

(* No reader sleeps through a frame: while one waits, as many others are   *)
(* on their way as there are frames.  A frame that arrives between the     *)
(* test and k_sem_take, or two frames for one count of the semaphore, must *)
(* not get lost.                                                           *)
NoMissedWakeup ==
  (\E t \in Readers : pc[t] = "wait") =>
    Waiting =< Cardinality({t \in Readers : pc[t] \in {"test", "take"}})
=============================================================================
