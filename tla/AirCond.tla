------------------------------ MODULE AirCond ------------------------------
(***************************************************************************)
(* The air conditioner controller (accnt/src/ds21.c, the callers of        *)
(* duart.c, the resource handlers of coap.c): two servers that ask and set *)
(* an air conditioner over a serial line.  The answers carry nothing that  *)
(* tells which question they belong to, and nothing locks a dialogue.      *)
(*                                                                         *)
(* Frames arrive through the queue of FrameQueue, which Duart implements.  *)
(* The line loses frames, and whatever comes more than 100 ms late is      *)
(* still delivered.  Priorities: main (0), the receiving thread (1), the   *)
(* servers (2); the servers have no time slice, so that one goes on until  *)
(* it waits.  Of the state of the air conditioner the switch and the       *)
(* target temperature are kept (mode and fan are handled as the switch     *)
(* is), of the temperatures which one is answered.                         *)
(***************************************************************************)
EXTENDS Integers, Sequences

CONSTANTS
  RingSize,     \* NUM_FRAMES of duart.c: 4
  Servers,      \* the CoAP and the CoAPS server
  Main,         \* the main thread: ds21_init
  Targets,      \* target temperatures of the clients, in tenths of Celsius
  Settings,     \* those that the air conditioner may start with, in its unit
  Requests,     \* what clients ask for
  NULL, WRONG,  \* no value; not a valid one
  MaxLine,      \* bound of the frames on their way, in each direction
  MaxDialogues  \* bound of the requests until everything is at rest again

Threads == Servers \cup {Main}

(* The fields of a POST: absent (NULL), a value, or not a valid one.       *)
Posts == [on : BOOLEAN \cup {NULL}, temp : Targets \cup {NULL, WRONG}]

Get   == [kind |-> "get"]
Temp  == [kind |-> "temp"]
Ready == [kind |-> "ready"]
Raw(answer)  == [kind |-> "raw", answer |-> answer]
Post(on, temp) == [kind |-> "post", post |-> [on |-> on, temp |-> temp]]

ASSUME AirCondAssumption ==
  /\ Main \notin Servers /\ MaxLine \in Nat /\ MaxLine >= 2
  /\ MaxDialogues \in Nat \ {0}
  /\ Targets \subseteq Int /\ Settings \subseteq 0..255
  /\ Requests \subseteq {Get, Temp, Ready} \cup {Raw(a) : a \in BOOLEAN}
                          \cup [kind : {"post"}, post : Posts]

(* Tenths of Celsius, an int16_t, and the unit of the air conditioner, a   *)
(* uint8_t.  Division truncates towards zero: f_to_dc() and back is the    *)
(* same from 28 (0 degrees) on, and one more below.                        *)
int16(x)    == ((x + 32768) % 65536) - 32768
By5(x)      == IF x < 0 THEN -((-x) \div 5) ELSE x \div 5
dc_to_f(dc) == (By5(dc + 3) + 28) % 256
f_to_dc(f)  == (f - 28) * 5

AcStates == [on : BOOLEAN, temp : 0..255]

AckFrame    == [kind |-> "ack"]
Frames == {AckFrame} \cup [kind : {"int", "ext"}] \cup [kind : {"state"}, st : AcStates]

VARIABLES
  queue,           \* of FrameQueue
  toAc, toHere,    \* the line, in both directions
  ready,
  thread,
  garbled,         \* the receiver has acknowledged in the middle of a frame
  ac,              \* the air conditioner
  took,            \* it has taken the setting that this thread has sent last
  calm,            \* see Disturb
  dialogues        \* since everything was at rest: bounded

ac_vars == <<queue, toAc, toHere, ready, thread, garbled, ac, took, calm, dialogues>>
line == <<toAc, toHere>>
rest == <<ac, took>>

(* Threads look at a frame as soon as they get it. *)
Q == INSTANCE FrameQueue WITH NUM_FRAMES <- RingSize, Readers <- {}, NoFrame <- NULL, got <- NULL

Idle == [pc |-> "idle", stage |-> NULL, post |-> NULL, st |-> NULL, changed |-> FALSE]

AcInit ==
  /\ queue = <<>>
  /\ toAc = <<>> /\ toHere = <<>>
  /\ ready = FALSE /\ garbled = FALSE
  /\ thread = [t \in Threads |->
                 IF t = Main THEN [Idle EXCEPT !.pc = "tx", !.stage = "init"] ELSE Idle]
  /\ ac \in [on : BOOLEAN, temp : Settings]
  /\ took = [t \in Threads |-> FALSE] /\ calm = TRUE /\ dialogues = 0

-----------------------------------------------------------------------------
(* The dialogue is disturbed when a frame is lost, an answer is late or    *)
(* not waited for, or two dialogues overlap.  It is calm again when all    *)
(* threads are idle and no frame is left over.                             *)
Disturb == calm' = FALSE

Quiet == /\ toAc = <<>> /\ toHere = <<>> /\ queue = <<>>
         /\ \A t \in Threads : thread[t].pc = "idle"

-----------------------------------------------------------------------------
(* The thread t: dialogues of ds21.c and of the handlers. *)

(* The other server waits; the receiver cannot interrupt the main thread.  *)
MayRun(t) == t # Main => \A u \in Threads \ {t} : thread[u].pc # "tx"

Become(t, th) == thread' = [thread EXCEPT ![t] = th]

(* A dialogue goes on with the next frame to send. *)
Tx(t, stage, th) == Become(t, [th EXCEPT !.pc = "tx", !.stage = stage])

(* The handler returns: with CHANGED, or with anything else.               *)
Finish(t, reply) == Become(t, [Idle EXCEPT !.changed = reply = "changed"])

MutFail(t) ==   \* mutant of Fail: ds21_init tries only once
  Finish(t, "other")

(* duart_tx or duart_rx has failed: ds21_init tries again, handlers tell   *)
(* the client, except temp_get, which returns without an answer.           *)
Fail(t) ==
  IF thread[t].stage = "init" THEN Tx(t, "init", thread[t]) ELSE Finish(t, "other")

(* What is sent next once the state is read: rsrc_post keeps the fields    *)
(* that the client leaves out.                                             *)
Update(post, st) ==
  [on   |-> IF post.on = NULL THEN st.on ELSE post.on,
   temp |-> IF post.temp = NULL THEN st.temp ELSE int16(post.temp)]

Queries == {"get", "read", "raw", "rawonly"}   \* of the state, also as raw frames

(* What the handlers do first.  Before the air conditioner is ready they   *)
(* fail, and so does a POST without any field.                             *)
rsrc_get(t) == IF ready THEN Tx(t, "get", Idle) ELSE Finish(t, "other")
temp_get(t) == IF ready THEN Tx(t, "int", Idle) ELSE Finish(t, "other")

rsrc_post(t, post) ==
  IF ready /\ {post.on, post.temp} # {NULL}
  THEN Tx(t, "read", [Idle EXCEPT !.post = post])
  ELSE Finish(t, "other")

(* Raw frames are sent without a look at ready; clients are taken to send  *)
(* them only afterwards.                                                   *)
Binary(t, answer) == ready /\ Tx(t, IF answer THEN "raw" ELSE "rawonly", Idle)

Start(t, req) ==
  /\ t # Main /\ thread[t].pc = "idle" /\ MayRun(t)
  /\ \/ req.kind = "get"   /\ rsrc_get(t)
     \/ req.kind = "ready" /\ Finish(t, "other")
     \/ req.kind = "temp"  /\ temp_get(t)
     \/ req.kind = "post"  /\ rsrc_post(t, req.post)
     \/ req.kind = "raw"   /\ Binary(t, req.answer)
  /\ dialogues' = IF Quiet THEN 1 ELSE dialogues + 1
  /\ dialogues' =< MaxDialogues
  /\ calm' = (Quiet \/ (calm /\ \A u \in Threads : thread[u].pc = "idle"))
  /\ UNCHANGED <<queue, line, ready, garbled, rest>>

Sent(t) ==
  LET th == thread[t] IN
  CASE th.stage = "set"      -> [kind |-> "set", from |-> t,
                                 st |-> [th.st EXCEPT !.temp = dc_to_f(@)]]
    [] th.stage \in Queries -> [kind |-> "state"]
    [] OTHER                 -> [kind |-> th.stage]

MutTxDone(t) ==   \* mutant of TxDone: rsrc_post answers without an acknowledgement
  /\ thread[t].pc = "tx"
  /\ LET lost == garbled \/ Len(toAc) = MaxLine IN
     /\ toAc' = IF lost THEN toAc ELSE Append(toAc, Sent(t))
     /\ calm' = (calm /\ ~lost)
  /\ garbled' = FALSE
  /\ took' = IF thread[t].stage = "set" THEN [took EXCEPT ![t] = FALSE] ELSE took
  /\ IF thread[t].stage = "set" THEN Finish(t, "changed")
     ELSE Become(t, [thread[t] EXCEPT !.pc = "ack"])
  /\ UNCHANGED <<queue, toHere, ready, ac, dialogues>>

(* duart_tx has sent its frame, which is lost when the receiver has sent   *)
(* its byte in between, or the line is full, and waits to be acknowledged. *)
TxDone(t) ==
  /\ thread[t].pc = "tx"
  /\ LET lost == garbled \/ Len(toAc) = MaxLine IN
     /\ toAc' = IF lost THEN toAc ELSE Append(toAc, Sent(t))
     /\ calm' = (calm /\ ~lost)
  /\ garbled' = FALSE
  /\ took' = IF thread[t].stage = "set" THEN [took EXCEPT ![t] = FALSE] ELSE took
  /\ Become(t, [thread[t] EXCEPT !.pc = "ack"])
  /\ UNCHANGED <<queue, toHere, ready, ac, dialogues>>

(* The frame after duart_tx: data instead of an acknowledgement is an      *)
(* error, and lost.                                                        *)
Acked(t, f) ==
  LET th == thread[t] IN
  CASE f # AckFrame -> Fail(t)
    [] f = AckFrame /\ th.stage = "init"    -> Become(t, Idle)
    [] f = AckFrame /\ th.stage = "set"     -> Finish(t, "changed")
    [] f = AckFrame /\ th.stage = "rawonly" -> Finish(t, "other")
    [] OTHER -> Become(t, [th EXCEPT !.pc = "data"])

MutParse(st) ==   \* mutant of Parse: the temperature is taken as it comes
  st

Parse(st) == [st EXCEPT !.temp = f_to_dc(@)]

Expected(f, stage) ==
  \/ stage = "raw"
  \/ f.kind = IF stage \in Queries THEN "state" ELSE stage

(* duart_rx skips acknowledgements.  A wrong field is found only when the  *)
(* state has been read.                                                    *)
Data(t, f) ==
  LET th == thread[t] IN
  CASE f = AckFrame -> UNCHANGED thread
    [] f # AckFrame /\ ~Expected(f, th.stage) -> Fail(t)
    [] f # AckFrame /\ Expected(f, th.stage) ->
         CASE th.stage = "int" -> Tx(t, "ext", th)
           [] th.stage = "read" /\ th.post.temp # WRONG ->
                Tx(t, "set", [th EXCEPT !.st = Update(th.post, Parse(f.st))])
           [] OTHER -> Finish(t, "other")

RxGet(t) ==
  /\ thread[t].pc \in {"ack", "data"} /\ MayRun(t)
  /\ Q!Dequeue
  /\ IF thread[t].pc = "ack" THEN Acked(t, Head(queue)) ELSE Data(t, Head(queue))
  /\ ready' = (ready \/ (thread[t].stage = "init" /\ Head(queue) = AckFrame))
  /\ calm' = (calm /\ thread[t].stage # "rawonly")
  /\ UNCHANGED <<line, garbled, rest, dialogues>>

MutTimeout(t) ==   \* mutant of Timeout: k_sem_take waits forever
  FALSE

RxTimeout(t) ==
  /\ thread[t].pc \in {"ack", "data"} /\ MayRun(t)
  /\ queue = <<>>
  /\ Fail(t) /\ Disturb
  /\ UNCHANGED <<queue, line, ready, garbled, rest, dialogues>>

-----------------------------------------------------------------------------
(* The receiving thread, the line and the air conditioner. *)

(* A data frame is acknowledged, also in the middle of a frame that a      *)
(* server is sending; when the queue is full it is ignored.  While the     *)
(* main thread sends, the bytes wait in the UART for the receiver.         *)
Receive ==
  /\ toHere # <<>>
  /\ LET f == Head(toHere) IN
     IF Q!HasRoom
     THEN /\ Q!Enqueue(f)
          /\ garbled' = (garbled \/ (f # AckFrame /\ \E t \in Servers : thread[t].pc = "tx"))
          /\ UNCHANGED calm
     ELSE UNCHANGED <<queue, garbled>> /\ Disturb
  /\ toHere' = Tail(toHere)
  /\ UNCHANGED <<toAc, ready, thread, rest, dialogues>>

Lose ==
  /\ \/ toHere # <<>> /\ toHere' = Tail(toHere) /\ UNCHANGED toAc
     \/ toAc # <<>> /\ toAc' = Tail(toAc) /\ UNCHANGED toHere
  /\ Disturb
  /\ UNCHANGED <<queue, ready, thread, garbled, rest, dialogues>>

AcTake ==
  /\ toAc # <<>> /\ Len(toHere) + 2 =< MaxLine
  /\ LET f == Head(toAc) IN
     /\ toHere' = toHere \o
          CASE f.kind \in {"init", "set"} -> <<AckFrame>>
            [] f.kind = "state"           -> <<AckFrame, [kind |-> "state", st |-> ac]>>
            [] OTHER                      -> <<AckFrame, f>>
     /\ IF f.kind = "set"
        THEN ac' = f.st /\ took' = [took EXCEPT ![f.from] = TRUE]
        ELSE UNCHANGED rest
  /\ toAc' = Tail(toAc)
  /\ UNCHANGED <<queue, ready, thread, garbled, calm, dialogues>>

-----------------------------------------------------------------------------
Thread(t) == TxDone(t) \/ RxGet(t) \/ RxTimeout(t)

AcNext ==
  \/ \E t \in Servers, req \in Requests : Start(t, req)
  \/ \E t \in Threads : Thread(t)
  \/ Receive \/ Lose \/ AcTake

(* Threads go on; a server is not starved by the other, since equal        *)
(* priorities take turns.  The line and the air conditioner work at least  *)
(* from time to time.                                                      *)
Fairness ==
  /\ WF_ac_vars(\E t \in Threads : TxDone(t))
  /\ WF_ac_vars(RxGet(Main) \/ RxTimeout(Main))
  /\ \A t \in Servers : SF_ac_vars(RxGet(t) \/ RxTimeout(t))
  /\ SF_ac_vars(AcTake) /\ SF_ac_vars(Receive)

AcSpec == AcInit /\ [][AcNext]_ac_vars /\ Fairness

-----------------------------------------------------------------------------
AcTypeOK ==
  /\ queue \in Seq(Frames) /\ toHere \in Seq(Frames)
  /\ ready \in BOOLEAN /\ garbled \in BOOLEAN /\ calm \in BOOLEAN
  /\ ac \in AcStates /\ took \in [Threads -> BOOLEAN]
  /\ dialogues \in 0..MaxDialogues
  /\ \A t \in Threads : thread[t].pc \in {"idle", "tx", "ack", "data"}

(* The targets that a byte of half degrees holds: from 0 to 113.6 degrees. *)
Holds == 0..1136

(* A POST changes what it names and nothing else, although the air         *)
(* conditioner takes its state only as a whole, in another unit, and       *)
(* rsrc_post asks for the rest first: unless something is disturbed, what  *)
(* it sends back is the state that the air conditioner is in.  A target    *)
(* is rounded.  Neither holds below 0 degrees, nor for higher targets.     *)
OnlyAsked ==
  [][calm /\ ac' # ac =>
       \E t \in Servers :
         /\ thread[t].stage = "set"
         /\ LET post == thread[t].post IN
            /\ ac'.on = IF post.on = NULL THEN ac.on ELSE post.on
            /\ IF post.temp = NULL
               THEN ac.temp >= 28 => ac'.temp = ac.temp
               ELSE post.temp \in Holds => f_to_dc(ac'.temp) - post.temp \in -1..3]_ac_vars

(* A client that is told CHANGED has changed something, unless its         *)
(* dialogue was disturbed: the acknowledgement is that of its own frame.   *)
SettingTaken ==
  [][\A t \in Servers :
       calm' /\ thread'[t].changed /\ ~thread[t].changed => took[t]]_ac_vars

(* Every handler returns, whatever gets lost: otherwise the server would   *)
(* not take another request.                                               *)
Answered == \A t \in Servers : thread[t].pc # "idle" ~> thread[t].pc = "idle"

(* The air conditioner is found in the end, however long it stays away and *)
(* however late its acknowledgements are.                                  *)
GetsReady == <>ready
=============================================================================
