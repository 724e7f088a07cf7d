----------------------- MODULE RequestClient_proofs ------------------------
(***************************************************************************)
(* Proofs about the request clients, for any numbers of items and of       *)
(* attempts, any values and any bound of the network: type correctness,    *)
(* with it that nothing but what the user has asked for is sent, and that  *)
(* no request is forgotten.                                                *)
(***************************************************************************)
EXTENDS RequestClient, TLAPS

Asking == {"item", "addr", "send", "recv"}

(* What the thread has read: an out thread is awake only after a request.  *)
Read ==
  /\ client \in OutThreads /\ thread.pc \in Asking => slot.val # NULL
  /\ client \in {"light_out", "shades_out"} /\ thread.pc \in {"send", "recv"}
       => thread.val # NULL
  /\ client \in StateThreads => thread.val = NULL

TypeInv == TypeOK /\ Read

LEMMA Clients ==
  /\ OutThreads \cap StateThreads = {}
  /\ Light \cup Vent \cup {"shades_out", "shades_state"} = OutThreads \cup StateThreads
  BY DEF OutThreads, StateThreads, Light, Vent

LEMMA Zero == 0 \in Items /\ 0 < ATTEMPTS /\ ATTEMPTS \in Nat
  BY ClientAssumption DEF Items

LEMMA TypeInit == Init => TypeInv
<1> SUFFICES ASSUME Init PROVE TypeInv
  OBVIOUS
<1>1. thread = [pc |-> "wait", cnt |-> 0, item |-> 0, val |-> NULL]
  BY DEF Init, Idle
<1>2. /\ active \subseteq Items /\ slot \in Message /\ shown \in [Items -> Answer]
      /\ dev \in [Items -> IF client \in StateThreads THEN Values ELSE {NULL}]
  BY Zero DEF Init, Message, Answer
<1>3. TypeOK
  <2>1. thread \in Threads /\ thread.item = 0 /\ thread.cnt = 0
    BY <1>1, Zero DEF Threads
  <2>2. thread.cnt < Limit(thread.item)
    BY <2>1, Zero DEF Limit
  <2>3. /\ requests \subseteq Message /\ answers \subseteq Answer
        /\ \A m \in requests : m.val # NULL <=> client \in OutThreads
    BY DEF Init
  <2>4. /\ client \in OutThreads \cup StateThreads /\ known \subseteq Items
        /\ pending \in BOOLEAN
    BY DEF Init
  <2>5. sem \in {0, 1} /\ sem # 1
    BY DEF Init
  <2> QED
    BY <1>2, <2>1, <2>2, <2>3, <2>4, <2>5 DEF TypeOK
<1>4. Read
  BY DEF Init, Read, Idle, Asking
<1> QED
  BY <1>3, <1>4 DEF TypeInv

(* A thread that goes on to the next item, or back to wait. *)
LEMMA DoneType ==
  ASSUME TypeInv, NEW n \in Nat, Done(n),
         n < Limit(thread.item) + 1,
         client' = client, slot' = slot
  PROVE  /\ thread' \in Threads
         /\ thread'.cnt < Limit(thread'.item)
         /\ Read'
<1>1. thread.item \in Nat
  BY DEF TypeInv, TypeOK, Items, Threads
<1>2. CASE client = "shades_state" /\ thread.item + 1 \in Items
  <2>1. thread' = [pc |-> "item", cnt |-> n, item |-> thread.item + 1, val |-> NULL]
    BY <1>2 DEF Done, Idle
  <2>2. client \notin OutThreads
    BY <1>2 DEF OutThreads
  <2>3. Read'
    BY <1>2, <2>1, <2>2 DEF Read
  <2> QED
    BY <1>1, <1>2, <2>1, <2>3, Zero DEF Threads, Limit
<1>3. CASE ~(client = "shades_state" /\ thread.item + 1 \in Items)
  <2>1. thread' = [pc |-> "wait", cnt |-> 0, item |-> 0, val |-> NULL]
    BY <1>3 DEF Done, Idle
  <2>2. Read'
    BY <2>1 DEF Read, Asking
  <2> QED
    BY <2>1, <2>2, Zero DEF Threads, Limit
<1> QED
  BY <1>2, <1>3

LEMMA TypeNext == TypeInv /\ [Next]_vars => TypeInv'
<1> SUFFICES ASSUME TypeInv, [Next]_vars PROVE TypeInv'
  OBVIOUS
<1> USE DEF TypeInv, Limit
<1>0. /\ thread.item \in Items /\ thread.item \in Nat
      /\ thread.cnt \in Nat /\ Limit(thread.item) \in Nat
  BY Zero DEF TypeOK, Items, Threads, Limit
<1>1. ASSUME NEW i \in Items, NEW v \in Values, Request(i, v) PROVE TypeInv'
  <2>1. CASE client \in OutThreads
    <3>1. slot' \in Message /\ slot'.val # NULL
      BY <1>1, <2>1, Zero, ClientAssumption DEF Request, Message
    <3> QED
      BY <1>1, <2>1, <3>1, Clients DEF Request, TypeOK, Read, network
  <2>2. CASE client \notin OutThreads
    <3>1. shown' \in [Items -> Answer]
      BY <1>1, <2>2, Zero DEF Request, TypeOK, Answer
    <3> QED
      BY <1>1, <2>2, <3>1 DEF Request, TypeOK, Read, network
  <2> QED
    BY <2>1, <2>2
<1>2. ASSUME NEW i \in Items, enable_polling(i) PROVE TypeInv'
  <2>1. shown' \in [Items -> Answer]
    BY <1>2 DEF enable_polling, TypeOK, Answer
  <2>2. sem' \in {0, 1} /\ (sem' = 1 /\ client \in OutThreads => slot.val # NULL)
    BY <1>2, Clients DEF enable_polling, TypeOK
  <2> QED
    BY <1>2, <2>1, <2>2 DEF enable_polling, TypeOK, Read, network
<1>3. CASE disable_polling
  BY <1>3 DEF disable_polling, TypeOK, Read, network
<1>4. ASSUME NEW k \in SUBSET Items, Discover(k) PROVE TypeInv'
  BY <1>4 DEF Discover, TypeOK, Read, network
<1>5. ASSUME NEW i \in Items, NEW v \in Values, Change(i, v) PROVE TypeInv'
  BY <1>5 DEF Change, TypeOK, Read, network, user
<1>6. CASE Wake
  <2>1. thread' = [pc |-> "item", cnt |-> 0, item |-> 0, val |-> NULL]
    BY <1>6 DEF Wake, Idle
  <2>2. client \in OutThreads => slot.val # NULL
    BY <1>6, Clients DEF Wake, TypeOK
  <2>3. Read'
    BY <1>6, <2>1, <2>2 DEF Wake, Read, user
  <2> QED
    <3>1. thread' \in Threads /\ thread'.item = 0 /\ thread'.cnt = 0
      BY <2>1, Zero DEF Threads
    <3>2. (thread.cnt < Limit(thread.item))'
      BY <1>6, <3>1, Zero DEF Limit, Wake
    <3> QED
      BY <1>6, <2>2, <2>3, <3>1, <3>2 DEF Wake, TypeOK, network, user
<1>7. CASE ReadItem
  <2>0. pending' \in BOOLEAN
    BY <1>7 DEF ReadItem, GiveUp, TypeOK
  <2>1. CASE thread' = Idle
    <3>1. thread' = [pc |-> "wait", cnt |-> 0, item |-> 0, val |-> NULL]
      BY <2>1 DEF Idle
    <3>2. thread' \in Threads /\ thread'.item = 0 /\ thread'.cnt = 0 /\ Read'
      BY <3>1, Zero DEF Threads, Read, Asking
    <3>3. (thread.cnt < Limit(thread.item))'
      BY <3>2, Zero DEF Limit
    <3> QED
      BY <1>7, <2>0, <3>2, <3>3 DEF ReadItem, TypeOK, network, user
  <2>2. CASE thread' # Idle
    <3>1. /\ client \in Screened => active # {}
          /\ thread' = [thread EXCEPT !.pc = "addr", !.item = ItemToAsk]
      BY <1>7, <2>2 DEF ReadItem
    <3>2. ItemToAsk \in Items
      BY <3>1, <1>0 DEF ItemToAsk, TypeOK, Screened, Message
    <3>3. client = "shades_state" => ItemToAsk = thread.item
      BY DEF ItemToAsk, Light
    <3>4. thread' \in Threads
      BY <3>1, <3>2 DEF TypeOK, Threads
    <3>5. /\ thread'.cnt = thread.cnt /\ thread'.item = ItemToAsk
          /\ thread'.val = thread.val /\ thread'.pc = "addr"
      BY <3>1 DEF TypeOK, Threads
    <3>6. Read'
      BY <1>7, <3>5 DEF ReadItem, Read, Asking, user
    <3> QED
      BY <1>7, <2>0, <3>3, <3>4, <3>5, <3>6 DEF ReadItem, TypeOK, network, user
  <2> QED
    BY <2>1, <2>2
<1>8. CASE GetAddr
  <2>0. pending' \in BOOLEAN
    BY <1>8 DEF GetAddr, GiveUp, TypeOK
  <2>1. CASE thread.item \notin known
    <3>1. thread.cnt < Limit(thread.item) + 1
      BY <1>0, Zero DEF TypeOK
    <3>2. Done(thread.cnt) /\ client' = client /\ slot' = slot
      BY <1>8, <2>1 DEF GetAddr, user
    <3> QED
      BY <1>0, <1>8, <2>0, <3>1, <3>2, DoneType DEF GetAddr, TypeOK, network, user
  <2>2. CASE thread.item \in known
    <3> DEFINE v == IF client \in {"light_out", "shades_out"} THEN slot.val ELSE NULL
    <3>1. thread' = [thread EXCEPT !.pc = "send", !.val = v]
      BY <1>8, <2>2 DEF GetAddr
    <3>2. v \in Values \cup {NULL}
      BY DEF TypeOK, Message
    <3>3. /\ client \in {"light_out", "shades_out"} => v # NULL
          /\ client \in StateThreads => v = NULL
      BY <1>8 DEF GetAddr, Read, Asking, OutThreads, StateThreads
    <3> HIDE DEF v
    <3>4. /\ thread'.cnt = thread.cnt /\ thread'.item = thread.item
          /\ thread'.val = v /\ thread'.pc = "send"
          /\ thread' \in Threads
      BY <3>1, <3>2 DEF TypeOK, Threads
    <3>5. Read'
      BY <1>8, <3>3, <3>4 DEF GetAddr, Read, Asking, user
    <3> QED
      BY <1>8, <2>0, <3>4, <3>5 DEF GetAddr, TypeOK, network, user
  <2> QED
    BY <2>1, <2>2
<1>9. ASSUME NEW net \in {requests, requests \cup {Content}}, Send(net) PROVE TypeInv'
  <2>1. Content \in Message /\ (Content.val # NULL <=> client \in OutThreads)
    BY <1>0, <1>9, Clients
    DEF Send, Content, TypeOK, Threads, Read, Message, Asking, OutThreads, StateThreads
  <2>2. requests' \subseteq Message /\ \A m \in requests' : m.val # NULL <=> client \in OutThreads
    BY <1>9, <2>1 DEF Send, TypeOK
  <2>3. /\ thread' \in Threads
        /\ thread'.cnt = thread.cnt /\ thread'.item = thread.item
        /\ thread'.val = thread.val /\ thread'.pc = "recv" /\ thread.pc = "send"
    BY <1>9 DEF Send, TypeOK, Threads
  <2>4. Read'
    BY <1>9, <2>3 DEF Send, Read, Asking, user
  <2>5. pending' \in BOOLEAN
    BY <1>9 DEF Send, TypeOK
  <2> QED
    BY <1>9, <2>2, <2>3, <2>4, <2>5 DEF Send, TypeOK, user
<1>10. ASSUME NEW a \in Answer, Receive(a) PROVE TypeInv'
  <2>1. shown' \in [Items -> Answer]
    BY <1>0, <1>10, Zero DEF Receive, TypeOK, Place
  <2>2. thread.cnt + 1 < Limit(thread.item) + 1
    BY <1>0, Zero DEF TypeOK
  <2>3. Done(thread.cnt + 1) /\ client' = client /\ slot' = slot /\ thread.cnt + 1 \in Nat
    BY <1>0, <1>10 DEF Receive, user
  <2> QED
    BY <1>10, <2>1, <2>2, <2>3, DoneType DEF Receive, TypeOK, user
<1>11. CASE Timeout
  <2>1. CASE thread.cnt + 1 < ATTEMPTS /\ (client = "shades_state" => active # {})
    <3> DEFINE n == thread.cnt + 1
    <3>0. thread' = [thread EXCEPT !.pc = "send", !.cnt = n] /\ thread.pc = "recv"
      BY <1>11, <2>1 DEF Timeout, TypeOK, Threads
    <3>1. n \in Nat
      BY <1>0
    <3> HIDE DEF n
    <3>2. /\ thread' \in Threads /\ thread'.cnt = n /\ thread'.item = thread.item
          /\ thread'.val = thread.val /\ thread'.pc = "send"
      BY <3>0, <3>1 DEF TypeOK, Threads
    <3> USE DEF n
    <3>3. Read'
      BY <1>11, <3>0, <3>2 DEF Timeout, Read, Asking, user
    <3> QED
      BY <1>0, <1>11, <2>1, <3>2, <3>3, Zero DEF Timeout, TypeOK, network, user
  <2>2. CASE ~(thread.cnt + 1 < ATTEMPTS /\ (client = "shades_state" => active # {}))
    <3>1. thread.cnt + 1 < Limit(thread.item) + 1
      BY <1>0, Zero DEF TypeOK
    <3>2. Done(thread.cnt + 1) /\ client' = client /\ slot' = slot /\ thread.cnt + 1 \in Nat
      BY <1>0, <1>11, <2>2 DEF Timeout, user
    <3> QED
      BY <1>11, <3>1, <3>2, DoneType DEF Timeout, TypeOK, network, user
  <2> QED
    BY <2>1, <2>2
<1>12. ASSUME NEW m \in Message, NEW n \in {requests, requests \ {m}},
              NEW answer \in {{}, AnswerOf(m)}, Serve(m, n, answer)
       PROVE  TypeInv'
  <2>1. answer \subseteq Answer
    BY DEF AnswerOf, TypeOK, Message, Answer
  <2> QED
    BY <1>12, <2>1 DEF Serve, TypeOK, Read, user
<1>13. CASE UNCHANGED vars
  BY <1>13 DEF vars, TypeOK, Read
<1> QED
  BY <1>1, <1>2, <1>3, <1>4, <1>5, <1>6, <1>7, <1>8, <1>9, <1>10, <1>11, <1>12, <1>13
  DEF Next, Environment, User, Thread, Deliver

(* The attempts are limited, and nothing but what the user has asked for   *)
(* is sent: no out thread sends the slot before it is written.             *)
THEOREM TypeCorrect == Spec => []TypeOK
<1>1. TypeInv => TypeOK
  BY DEF TypeInv
<1> QED
  BY <1>1, TypeInit, TypeNext, PTL DEF Spec

-----------------------------------------------------------------------------
(* A shade thread that has read the item is about to read the value: both  *)
(* are of the last request, or the semaphore has been given since.         *)
PendingInv ==
  pending => /\ client \in OutThreads
             /\ \/ sem = 1
                \/ thread.pc = "item"
                \/ thread.pc = "addr" /\ (client = "shades_out" => thread.item = slot.item)
                \/ thread.pc = "send" /\ CarriesSlot

LEMMA PendingInit == Init => PendingInv
  BY DEF Init, PendingInv

(* PendingInv says nothing of the environment but through these variables. *)
LEMMA PendingStable ==
  ASSUME PendingInv, UNCHANGED <<client, slot, pending, thread>>,
         sem = 1 => sem' = 1
  PROVE  PendingInv'
  BY DEF PendingInv, CarriesSlot, Content

LEMMA PendingNext == TypeInv /\ PendingInv /\ [Next]_vars => PendingInv'
<1> SUFFICES ASSUME TypeInv, PendingInv, [Next]_vars PROVE PendingInv'
  OBVIOUS
<1>1. ASSUME NEW i \in Items, NEW v \in Values, Request(i, v) PROVE PendingInv'
  <2>1. CASE client \in OutThreads
    BY <1>1, <2>1 DEF Request, PendingInv
  <2>2. CASE client \notin OutThreads
    BY <1>1, <2>2 DEF Request, PendingInv
  <2> QED
    BY <2>1, <2>2
<1>2. ASSUME NEW i \in Items, enable_polling(i) PROVE PendingInv'
  BY <1>2, PendingStable DEF enable_polling
<1>3. CASE disable_polling
  BY <1>3, PendingStable DEF disable_polling
<1>4. ASSUME NEW k \in SUBSET Items, Discover(k) PROVE PendingInv'
  BY <1>4, PendingStable DEF Discover
<1>5. ASSUME NEW i \in Items, NEW v \in Values, Change(i, v) PROVE PendingInv'
  BY <1>5, PendingStable DEF Change, user
<1>6. CASE Wake
  BY <1>6 DEF Wake, PendingInv, Idle
<1>7. CASE ReadItem
  <2>1. CASE GiveUp
    BY <1>7, <2>1 DEF ReadItem, GiveUp, PendingInv
  <2>2. CASE thread' = [thread EXCEPT !.pc = "addr", !.item = ItemToAsk]
             /\ pending' = pending
    <3>1. thread'.pc = "addr" /\ thread'.item = ItemToAsk
      BY <2>2 DEF TypeInv, TypeOK, Threads
    <3>2. client = "shades_out" => thread'.item = slot.item
      BY <3>1 DEF ItemToAsk, Light
    <3> QED
      BY <1>7, <2>2, <3>1, <3>2 DEF ReadItem, PendingInv, user
  <2> QED
    BY <1>7, <2>1, <2>2 DEF ReadItem
<1>8. CASE GetAddr
  <2>1. CASE thread.item \notin known
    BY <1>8, <2>1 DEF GetAddr, GiveUp, PendingInv
  <2>2. CASE thread.item \in known
    <3> SUFFICES ASSUME pending', sem' # 1 PROVE PendingInv'
      BY <1>8, <2>2 DEF GetAddr, PendingInv
    <3>1. /\ client \in OutThreads /\ thread.pc = "addr"
          /\ client = "shades_out" => thread.item = slot.item
      BY <1>8, <2>2 DEF GetAddr, PendingInv
    <3>2. /\ thread'.pc = "send" /\ thread'.item = thread.item
          /\ client \in {"light_out", "shades_out"} => thread'.val = slot.val
          /\ client' = client /\ slot' = slot
      BY <1>8, <2>2 DEF GetAddr, TypeInv, TypeOK, Threads, user
    <3>3. CarriesSlot'
      BY <3>1, <3>2 DEF CarriesSlot, Content, OutThreads
    <3> QED
      BY <3>1, <3>2, <3>3 DEF PendingInv
  <2> QED
    BY <2>1, <2>2
<1>9. ASSUME NEW net \in {requests, requests \cup {Content}}, Send(net) PROVE PendingInv'
  BY <1>9 DEF Send, PendingInv, user
<1>10. ASSUME NEW a \in Answer, Receive(a) PROVE PendingInv'
  BY <1>10 DEF Receive, PendingInv
<1>11. CASE Timeout
  BY <1>11 DEF Timeout, PendingInv
<1>12. ASSUME NEW m \in Message, NEW n \in {requests, requests \ {m}},
              NEW answer \in {{}, AnswerOf(m)}, Serve(m, n, answer)
       PROVE  PendingInv'
  BY <1>12, PendingStable DEF Serve, user
<1>13. CASE UNCHANGED vars
  BY <1>13, PendingStable DEF vars
<1> QED
  BY <1>1, <1>2, <1>3, <1>4, <1>5, <1>6, <1>7, <1>8, <1>9, <1>10, <1>11, <1>12, <1>13
  DEF Next, Environment, User, Thread, Deliver

(* A request that comes while the thread is busy with another one, for as  *)
(* many attempts as it takes, is still known to be there.                  *)
THEOREM NotForgottenHolds == Spec => []NotForgotten
<1>1. PendingInv => NotForgotten
  BY DEF PendingInv, NotForgotten
<1> QED
  BY <1>1, TypeInit, TypeNext, PendingInit, PendingNext, PTL DEF Spec
=============================================================================
