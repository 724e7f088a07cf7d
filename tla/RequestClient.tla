--------------------------- MODULE RequestClient ---------------------------
(***************************************************************************)
(* The threads of the thermostat that talk to lights, ventilation and      *)
(* shades (temp_tscrn/src/light_conn.c, vent_conn.c, shades_conn.c).  Each *)
(* device type has a thread that sends what the user asks for, and one     *)
(* that polls the state for the display.  They share nothing but the item  *)
(* of the screen that is open, so one of them is modelled at a time:       *)
(* which one is chosen in the initial state.                               *)
(*                                                                         *)
(* The touch thread (priority 0) preempts these threads (1) anywhere; its  *)
(* callbacks are one step.  Requests and answers are lost, late, repeated  *)
(* and reordered, and nobody looks at the tokens of the answers.  An       *)
(* answer that does not parse counts as one that does not come.            *)
(***************************************************************************)
EXTENDS Naturals, FiniteSets

CONSTANTS
  ItemsNum,   \* LIGHT_CONN_ITEM_NUM, DATA_SHADE_ID_NUM
  Values,     \* of lights, positions or modes
  NULL,       \* no value: of an acknowledgement, DATA_SHADES_VAL_UNKNOWN
  ATTEMPTS,   \* 5
  MaxNet,     \* bound of the messages that the network holds
  Moving      \* items that change, or are set, while they are polled: a bound

ASSUME ClientAssumption ==
  /\ ItemsNum \in Nat \ {0} /\ ATTEMPTS \in Nat \ {0} /\ MaxNet \in Nat
  /\ NULL \notin Values

Items == 0..ItemsNum-1

OutThreads   == {"light_out", "vent_out", "shades_out"}
StateThreads == {"light_state", "vent_state", "shades_state"}
Light        == {"light_out", "light_state"}
Vent         == {"vent_out", "vent_state"}
Screened     == Light \cup {"shades_state"}   \* look at the open screen

VARIABLES
  client,              \* the thread
  active,              \* items of the open screen: active_item, polling
  known,               \* items that have been discovered
  sem, slot,           \* *_sem and *_out_val
  pending,             \* the last request of the user has not been sent
  thread, requests, answers,
  dev,                 \* states of the devices that are polled
  shown                \* states for the display: DATA_*_CURR, curr of the shades

vars == <<client, active, known, sem, slot, pending, thread, requests, answers,
          dev, shown>>
user    == <<active, known, slot>>
network == <<requests, answers>>

Message == [item : Items, val : Values \cup {NULL}]
Answer  == Values \cup {NULL}

Room == Cardinality(requests) + Cardinality(answers) < MaxNet

Idle == [pc |-> "wait", cnt |-> 0, item |-> 0, val |-> NULL]

(* There is one ventilation, and it has no screen of its own. *)
Init ==
  /\ client \in OutThreads \cup StateThreads
  /\ active = IF client \in Vent THEN {0} ELSE {}
  /\ known = {} /\ sem = 0 /\ pending = FALSE /\ thread = Idle
  /\ slot = [item |-> 0, val |-> NULL]
  /\ requests = {} /\ answers = {}
  /\ dev \in [Items -> IF client \in StateThreads THEN Values ELSE {NULL}]
  /\ shown = [i \in Items |-> NULL]

-----------------------------------------------------------------------------
(* The user, the discovery and the devices. *)

OnScreen(i) == CASE client \in Light          -> active = {i}
                 [] client \in Vent           -> i = 0
                 [] client = "shades_state"   -> FALSE
                 [] OTHER                     -> TRUE

(* The display shows what has been asked for before it is done (left out   *)
(* for shades, where it is shown until the next answer); light_conn.c does *)
(* not store the light that the value is for.                              *)
Request(i, v) ==
  /\ OnScreen(i)
  /\ IF client \in OutThreads
     THEN /\ slot' = [item |-> IF client = "shades_out" THEN i ELSE 0, val |-> v]
          /\ sem' = 1 /\ pending' = TRUE /\ UNCHANGED shown
     ELSE /\ i \in Moving
          /\ shown' = [shown EXCEPT ![0] = v]
          /\ UNCHANGED <<slot, sem, pending>>
  /\ UNCHANGED <<client, active, known, thread, network, dev>>

enable_polling(i) ==
  /\ client \in Screened /\ active = {}
  /\ active' = IF client \in Light THEN {i} ELSE Items
  /\ shown' = IF client \in Light THEN shown ELSE [j \in Items |-> NULL]
  /\ sem' = IF client \in StateThreads THEN 1 ELSE sem
  /\ UNCHANGED <<client, known, slot, pending, thread, network, dev>>

disable_polling ==
  /\ client \in Screened /\ active # {}
  /\ active' = {}
  /\ UNCHANGED <<client, known, sem, slot, pending, thread, network, dev, shown>>

(* continuous_sd.c finds an item, or forgets it. *)
Discover(k) ==
  /\ known' = k
  /\ UNCHANGED <<client, active, sem, slot, pending, thread, network, dev, shown>>

Change(i, v) ==
  /\ client \in StateThreads /\ i \in Moving
  /\ dev' = [dev EXCEPT ![i] = v]
  /\ UNCHANGED <<client, user, sem, pending, thread, network, shown>>

-----------------------------------------------------------------------------
(* The thread.  That of the shades polls one after the other, with the     *)
(* attempts of all of them counted together.                               *)

Done(cnt) ==
  thread' = IF client = "shades_state" /\ thread.item + 1 \in Items
            THEN [Idle EXCEPT !.pc = "item", !.cnt = cnt, !.item = thread.item + 1]
            ELSE Idle

GiveUp == pending' = (pending /\ sem = 1)   \* unless there is a newer one

Wake ==   \* the state threads wake up after STATE_INTERVAL too
  /\ thread.pc = "wait" /\ (sem = 1 \/ client \in StateThreads)
  /\ sem' = 0 /\ thread' = [Idle EXCEPT !.pc = "item"]
  /\ UNCHANGED <<client, user, pending, network, dev, shown>>

ItemToAsk == CASE client = "shades_out" -> slot.item
               [] client \in Light      -> CHOOSE i \in active : TRUE
               [] OTHER                 -> thread.item

ReadItem ==
  /\ thread.pc = "item"
  /\ \/ /\ client \in Screened /\ active = {}
        /\ thread' = Idle /\ GiveUp
     \/ /\ client \in Screened => active # {}
        /\ thread' = [thread EXCEPT !.pc = "addr", !.item = ItemToAsk]
        /\ UNCHANGED pending
  /\ UNCHANGED <<client, user, sem, network, dev, shown>>

MutBreak ==   \* mutant of GetAddr: an unknown item ends the round
  /\ thread.pc = "addr"
  /\ IF thread.item \notin known THEN thread' = Idle /\ GiveUp
     ELSE /\ thread' = [thread EXCEPT !.pc = "send",
                          !.val = IF client \in {"light_out", "shades_out"}
                                  THEN slot.val ELSE NULL]
          /\ UNCHANGED pending
  /\ UNCHANGED <<client, user, sem, network, dev, shown>>

(* Values of lights and shades are copied after the item.                  *)
GetAddr ==
  /\ thread.pc = "addr"
  /\ IF thread.item \notin known THEN Done(thread.cnt) /\ GiveUp
     ELSE /\ thread' = [thread EXCEPT !.pc = "send",
                          !.val = IF client \in {"light_out", "shades_out"}
                                  THEN slot.val ELSE NULL]
          /\ UNCHANGED pending
  /\ UNCHANGED <<client, user, sem, network, dev, shown>>

(* The mode of the ventilation is read anew for each attempt.              *)
Content ==
  [item |-> thread.item, val |-> IF client = "vent_out" THEN slot.val ELSE thread.val]

CarriesSlot ==
  Content.val = slot.val /\ (client = "shades_out" => Content.item = slot.item)

MutReset(net) ==   \* mutant of Send: the semaphore is reset, not to send twice
  /\ thread.pc = "send" /\ (net # requests => Room)
  /\ thread' = [thread EXCEPT !.pc = "recv"]
  /\ pending' = (pending /\ ~CarriesSlot)
  /\ requests' = net
  /\ sem' = 0
  /\ UNCHANGED <<client, user, answers, dev, shown>>

Send(net) ==
  /\ thread.pc = "send" /\ (net # requests => Room)
  /\ thread' = [thread EXCEPT !.pc = "recv"]
  /\ pending' = (pending /\ ~CarriesSlot)
  /\ requests' = net
  /\ UNCHANGED <<client, user, sem, answers, dev, shown>>

Place(i) == IF client = "shades_state" THEN i ELSE 0   \* of the store

(* The answer is taken for that of the item that has been asked last.      *)
Receive(a) ==
  /\ thread.pc = "recv" /\ a \in answers
  /\ answers' = answers \ {a}
  /\ shown' = IF client \in OutThreads THEN shown
              ELSE [shown EXCEPT ![Place(thread.item)] = a]
  /\ Done(thread.cnt + 1)
  /\ UNCHANGED <<client, user, sem, pending, requests, dev>>

MutForever ==   \* mutant of Timeout: attempts are not counted
  /\ thread.pc = "recv"
  /\ IF client = "shades_state" => active # {}
     THEN thread' = [thread EXCEPT !.pc = "send"]
     ELSE Done(thread.cnt)
  /\ UNCHANGED <<client, user, sem, pending, network, dev, shown>>

Timeout ==
  /\ thread.pc = "recv"
  /\ IF thread.cnt + 1 < ATTEMPTS /\ (client = "shades_state" => active # {})
     THEN thread' = [thread EXCEPT !.pc = "send", !.cnt = @ + 1]
     ELSE Done(thread.cnt + 1)
  /\ UNCHANGED <<client, user, sem, pending, network, dev, shown>>

(* A device serves a request; its answer may be lost, and a copy of the    *)
(* request may come later.                                                 *)
Serve(m, left, answer) ==
  /\ m \in requests
  /\ left = requests => answer = {} \/ Room
  /\ requests' = left
  /\ answers' = answers \cup answer
  /\ UNCHANGED <<client, user, sem, pending, thread, dev, shown>>

AnswerOf(m) == {dev[m.item]}   \* nothing but an acknowledgement to the out threads

-----------------------------------------------------------------------------
User == \E i \in Items :
          \/ \E v \in Values : Request(i, v)
          \/ enable_polling(i)
          \/ disable_polling

Environment == \/ User
               \/ \E k \in SUBSET Items : Discover(k)
               \/ \E i \in Items, v \in Values : Change(i, v)

Thread == Wake \/ ReadItem \/ GetAddr \/ Timeout
          \/ Send(requests) \/ Send(requests \cup {Content})

Deliver == \/ \E m \in Message, n \in SUBSET Message :
                /\ n \in {requests, requests \ {m}}
                /\ Serve(m, n, {}) \/ Serve(m, n, AnswerOf(m))
           \/ \E a \in Answer : Receive(a)

Next == Environment \/ Thread \/ Deliver

Spec == Init /\ [][Next]_vars

FairSpec ==
  /\ Spec /\ WF_vars(Thread)
  /\ \A i \in Items : LET m == [item |-> i, val |-> NULL] IN
       /\ SF_vars(thread.item = i /\ Send(requests \cup {Content}))
       /\ SF_vars(Serve(m, requests \ {m}, AnswerOf(m)))
  /\ SF_vars(\E a \in Answer : Receive(a))

-----------------------------------------------------------------------------
Threads == [pc : {"wait", "item", "addr", "send", "recv"}, cnt : Nat,
            item : Items, val : Values \cup {NULL}]

Limit(i) == ATTEMPTS + (IF client = "shades_state" THEN i + 1 ELSE 0)

(* What the threads keep.  Only requests that the user has made are sent,  *)
(* never a slot nobody has written (the mode of the ventilation is a       *)
(* pointer that is NULL before); the attempts are limited: each item after *)
(* those that have used them up has one left.                              *)
TypeOK ==
  /\ client \in OutThreads \cup StateThreads
  /\ active \subseteq Items /\ known \subseteq Items
  /\ sem \in {0, 1} /\ pending \in BOOLEAN
  /\ slot \in Message /\ (sem = 1 /\ client \in OutThreads => slot.val # NULL)
  /\ thread \in Threads /\ thread.cnt < Limit(thread.item)
  /\ requests \subseteq Message /\ answers \subseteq Answer
  /\ \A m \in requests : m.val # NULL <=> client \in OutThreads
  /\ dev \in [Items -> IF client \in StateThreads THEN Values ELSE {NULL}]
  /\ shown \in [Items -> Answer]

(* The last request of the user that has not been sent to a device yet has *)
(* given the semaphore, or the thread is about to send it: a request that  *)
(* comes while another one is retried is not forgotten.                    *)
NotForgotten ==
  pending => \/ sem = 1
             \/ thread.pc \in {"item", "addr"}
             \/ thread.pc = "send" /\ CarriesSlot

(* Once the user stops, the last request is sent or, without an address,   *)
(* dropped: a device that never answers does not keep the thread from it.  *)
Served == (<>[][~User]_vars) => <>[]~pending

(* When nothing changes anymore, the open screen shows what the devices    *)
(* do.  Late answers are taken for those of the item that is asked at the  *)
(* time, so that the shades, which share a socket, are shown right only if *)
(* in the end no answer takes longer than the timeout.                     *)
Prompt == client = "shades_state" =>
            <>[](thread.pc = "send" => requests = {} /\ answers = {})

Shown ==
  (<>[][~Environment]_vars) /\ Prompt =>
    <>[](client \in StateThreads =>
           \A i \in active \cap known : shown[Place(i)] = dev[i])
=============================================================================
