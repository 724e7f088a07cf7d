---------------------------- MODULE Switch_proofs ----------------------------
(***************************************************************************)
(* Proofs about the wall switch, for any number of outputs, labels and     *)
(* servers: what is stored is what is used, and every label in use is      *)
(* searched for once, under its own address (module Switch).  At the end   *)
(* the analog inputs and the status LED (module AnalogSwitch).             *)
(*                                                                         *)
(* Both servers provision at the same time, each of them output by output, *)
(* so that at any moment some labels are stored and some are not, and the  *)
(* table holds labels of several requests.  The invariants therefore say   *)
(* of each thing that is wrong which server will put it right: with the    *)
(* lock, the last one to have changed a label is the last one to store it; *)
(* without it, each server clears the whole table and adds all labels      *)
(* again, and whatever one of them adds between is what is used by then.   *)
(***************************************************************************)
EXTENDS Switch, AnalogSwitch, SequenceTheorems, FiniteSetTheorems, WellFoundedInduction, TLAPS

LabelType   == Labels \cup {EMPTY}
PointerType == Outs \cup {NULL}
EntryType   == [name : PointerType, addr : Labels \cup {NULL}]
ServerType  == [pc : {"idle", "save", "clear", "add"}, i : Outs, empty : BOOLEAN]
ThreadType  == [pc : {"wait", "addr", "preset", "series", "number"},
                addr : Labels \cup {NULL}, num : 0..MaxNum]

(* What the assumption says of the outputs: a range from 0. *)
LEMMA Outputs ==
  /\ N \in Nat /\ 0 \in Outs /\ Outs \subseteq Nat
  /\ \A i \in Outs : i < N /\ (i + 1 < N => i + 1 \in Outs) /\ (~(i + 1 < N) => i + 1 = N)
  BY SwitchAssumption DEF Outs

LEMMA NullIsNone == NULL \notin Outs /\ NULL \notin Labels /\ NULL # EMPTY /\ EMPTY \notin Labels
  BY SwitchAssumption, Outputs

-----------------------------------------------------------------------------
(* Types. *)

LEMMA IdleIsServer == Idle \in ServerType /\ Idle.pc = "idle"
  BY Outputs DEF Idle, ServerType

LEMMA WaitingIsThread == Waiting \in ThreadType
  BY SwitchAssumption DEF Waiting, ThreadType

(* What a server is about to store, and where it goes next.               *)
LEMMA ToSaveIs ==
  ASSUME server \in [Servers -> ServerType], NEW s \in Servers, NEW i \in Outs, ToSave(s, i)
  PROVE  /\ server' \in [Servers -> ServerType]
         /\ server'[s].pc = "save" /\ server'[s].i = i
         /\ server'[s].empty = (output_labels'[i] = EMPTY)
         /\ \A u \in Servers \ {s} : server'[u] = server[u]
<1> DEFINE r == [pc |-> "save", i |-> i, empty |-> output_labels'[i] = EMPTY]
<1>1. (output_labels'[i] = EMPTY) \in BOOLEAN
  OBVIOUS
<1>2. r \in ServerType /\ r.pc = "save" /\ r.i = i /\ r.empty = (output_labels'[i] = EMPTY)
  BY <1>1 DEF ServerType
<1>3. server' = [server EXCEPT ![s] = r]
  BY DEF ToSave
<1> HIDE DEF r
<1> QED
  BY <1>2, <1>3

LEMMA NextOutIs ==
  ASSUME server \in [Servers -> ServerType], NEW s \in Servers,
         NEW again \in {"idle", "save", "clear", "add"},
         NEW then \in {"idle", "save", "clear", "add"}, NextOut(s, again, then)
  PROVE  /\ server' \in [Servers -> ServerType]
         /\ \/ /\ server[s].i + 1 < N
               /\ server'[s].pc = again /\ server'[s].i = server[s].i + 1
            \/ /\ server[s].i + 1 = N
               /\ server'[s].pc = then /\ server'[s].i = 0
         /\ \A u \in Servers \ {s} : server'[u] = server[u]
<1> DEFINE i == server[s].i
           r == IF i + 1 < N THEN [Idle EXCEPT !.pc = again, !.i = i + 1]
                ELSE [Idle EXCEPT !.pc = then]
<1>1. i \in Outs
  BY DEF ServerType
<1>2. /\ r \in ServerType
      /\ \/ i + 1 < N /\ r.pc = again /\ r.i = i + 1
         \/ i + 1 = N /\ r.pc = then /\ r.i = 0
  BY <1>1, Outputs DEF Idle, ServerType
<1>3. server' = [server EXCEPT ![s] = r]
  BY DEF NextOut
<1> HIDE DEF r
<1> QED
  BY <1>2, <1>3 DEF i

(* A registration takes a free entry, unless the label has one or there is *)
(* none.                                                                   *)
LEMMA RegisterIs ==
  ASSUME entries \in [Outs -> EntryType], NEW p \in Outs, continuous_sd_register(p)
  PROVE  \/ /\ UNCHANGED entries
            /\ First(output_labels[p]) # {} \/ \A e \in Outs : entries[e].name # NULL
         \/ \E e \in Outs : /\ entries[e].name = NULL
                            /\ First(output_labels[p]) = {}
                            /\ entries' = [entries EXCEPT ![e] = [name |-> p, addr |-> NULL]]
  BY DEF continuous_sd_register, Lowest

Typed ==
  /\ sw1_sem \in {0, 1}
  /\ output_labels \in [Outs -> LabelType] /\ stored \in [Outs -> LabelType]
  /\ entries \in [Outs -> EntryType]
  /\ server \in [Servers -> ServerType]
  /\ lock \in Seq(Servers)
  /\ sw \in ThreadType

(* A thread of the switch, of which the table and the labels do not care.  *)
LEMMA ThreadStep ==
  ASSUME Typed, sw_proc
  PROVE  sw' \in ThreadType /\ sw1_sem' \in {0, 1} /\ UNCHANGED <<prov, entries>>
<1> USE DEF Step
<1>1. sw \in ThreadType /\ sw1_sem \in {0, 1} /\ entries \in [Outs -> EntryType]
  BY DEF Typed
<1>2. CASE TakePress \/ PresetNum
  BY <1>1, <1>2, SwitchAssumption, WaitingIsThread
  DEF TakePress, PresetNum, ThreadType, Waiting
<1>3. CASE GetAddr
  <2>1. CASE Step(Waiting) /\ UNCHANGED sw1_sem
    BY <1>1, <2>1, WaitingIsThread
  <2>2. CASE ~Step(Waiting)
    <3>1. PICK e \in Outs : /\ entries[e].addr # NULL /\ UNCHANGED sw1_sem
                            /\ Step([sw EXCEPT !.pc = "preset", !.addr = entries[e].addr])
      BY <1>3, <2>2 DEF GetAddr, First, Lowest
    <3> QED
      BY <1>1, <3>1 DEF ThreadType, EntryType
  <2> QED
    BY <1>1, <1>3, <2>1, <2>2, WaitingIsThread DEF GetAddr
<1>4. CASE Toggle
  BY <1>1, <1>4, SwitchAssumption DEF Toggle, ThreadType
<1>5. CASE SeriesEnds
  BY <1>1, <1>5, WaitingIsThread DEF SeriesEnds, ThreadType
<1>6. ASSUME NEW ok \in BOOLEAN, Preset0(ok)
      PROVE  sw' \in ThreadType /\ UNCHANGED <<sw1_sem, prov, entries>>
  <2>1. [sw EXCEPT !.pc = "series"] \in ThreadType
    BY <1>1 DEF ThreadType
  <2> QED
    BY <1>6, <2>1, WaitingIsThread DEF Preset0
<1> QED
  BY <1>1, <1>2, <1>3, <1>4, <1>5, <1>6 DEF sw_proc

-----------------------------------------------------------------------------
(* The queue for the lock of the settings.  Those that store hold it or    *)
(* wait for it, each once, and one that comes stands behind all others.    *)

Places(q)       == 1..Len(q)
In(q, s)        == \E j \in Places(q) : q[j] = s
Once(q)         == \A j, k \in Places(q) : q[j] = q[k] => j = k
Behind(q, s, t) == \E j, k \in Places(q) : j < k /\ q[j] = s /\ q[k] = t

LEMMA Pushed ==
  ASSUME NEW q \in Seq(Servers), NEW s \in Servers, ~In(q, s), Once(q),
         NEW r, r = Append(q, s)
  PROVE  /\ r \in Seq(Servers) /\ Once(r)
         /\ \A u \in Servers : In(r, u) <=> In(q, u) \/ u = s
         /\ \A u, t \in Servers : Behind(q, u, t) => Behind(r, u, t)
         /\ \A u \in Servers : In(q, u) => Behind(r, u, s)
<1>1. /\ Len(q) \in Nat /\ Len(r) = Len(q) + 1 /\ r \in Seq(Servers)
      /\ \A j \in Places(q) : r[j] = q[j]
      /\ r[Len(q) + 1] = s
  BY AppendProperties DEF Places
<1>2. /\ Places(r) = Places(q) \cup {Len(q) + 1}
      /\ \A j \in Places(q) : j < Len(q) + 1
  BY <1>1 DEF Places
<1>3. \A j \in Places(q) : r[j] # s
  BY <1>1 DEF In
<1>4. Once(r)
  BY <1>1, <1>2, <1>3 DEF Once
<1>5. \A u \in Servers : In(r, u) <=> In(q, u) \/ u = s
  BY <1>1, <1>2 DEF In
<1>6. \A u, t \in Servers : Behind(q, u, t) => Behind(r, u, t)
  BY <1>1, <1>2 DEF Behind
<1>7. \A u \in Servers : In(q, u) => Behind(r, u, s)
  BY <1>1, <1>2 DEF Behind, In
<1> QED
  BY <1>1, <1>4, <1>5, <1>6, <1>7

LEMMA Popped ==
  ASSUME NEW q \in Seq(Servers), q # <<>>, NEW s \in Servers, Head(q) = s, Once(q),
         NEW r, r = Tail(q)
  PROVE  /\ r \in Seq(Servers) /\ Once(r)
         /\ \A u \in Servers : In(r, u) <=> In(q, u) /\ u # s
         /\ \A u, t \in Servers : Behind(q, u, t) /\ u # s => Behind(r, u, t)
         /\ \A u \in Servers : ~Behind(q, u, s)
<1>1. /\ Len(q) \in Nat \ {0} /\ q[1] = s /\ r \in Seq(Servers)
      /\ Len(r) = Len(q) - 1
      /\ \A j \in 1..(Len(q) - 1) : r[j] = q[j + 1]
  BY HeadTailProperties, EmptySeq
<1>2. /\ 1 \in Places(q)
      /\ \A j \in Places(r) : r[j] = q[j + 1] /\ j + 1 \in Places(q) /\ j + 1 # 1
      /\ \A j \in Places(q) : j # 1 => j - 1 \in Places(r) /\ r[j - 1] = q[j]
  BY <1>1 DEF Places
<1>3. \A j \in Places(q) : j # 1 => q[j] # s
  BY <1>1, <1>2 DEF Once
<1>4. Once(r)
  <2> SUFFICES ASSUME NEW j \in Places(r), NEW k \in Places(r), r[j] = r[k]
               PROVE  j = k
    BY DEF Once
  <2>1. j + 1 \in Places(q) /\ k + 1 \in Places(q) /\ q[j + 1] = q[k + 1]
    BY <1>2
  <2>2. j + 1 = k + 1
    BY <2>1 DEF Once
  <2> QED
    BY <2>2 DEF Places
<1>5. ASSUME NEW u \in Servers
      PROVE  In(r, u) <=> In(q, u) /\ u # s
  <2>1. ASSUME In(r, u) PROVE In(q, u) /\ u # s
    <3>1. PICK j \in Places(r) : r[j] = u
      BY <2>1 DEF In
    <3>2. j + 1 \in Places(q) /\ j + 1 # 1 /\ q[j + 1] = u
      BY <1>2, <3>1
    <3> QED
      BY <1>3, <3>2 DEF In
  <2>2. ASSUME In(q, u), u # s PROVE In(r, u)
    <3>1. PICK j \in Places(q) : q[j] = u
      BY <2>2 DEF In
    <3>2. j - 1 \in Places(r) /\ r[j - 1] = u
      BY <1>1, <1>2, <2>2, <3>1
    <3> QED
      BY <3>2 DEF In
  <2> QED
    BY <2>1, <2>2
<1>6. ASSUME NEW u \in Servers, NEW t \in Servers, Behind(q, u, t)
      PROVE  t # s /\ (u # s => Behind(r, u, t))
  <2>1. PICK j, k \in Places(q) : j < k /\ q[j] = u /\ q[k] = t
    BY <1>6 DEF Behind
  <2>2. k # 1 /\ (j # 1 => j - 1 < k - 1)
    BY <2>1 DEF Places
  <2> QED
    BY <1>1, <1>2, <1>3, <2>1, <2>2 DEF Behind
<1> QED
  BY <1>1, <1>4, <1>5, <1>6

LEMMA Requeued ==
  ASSUME NEW q \in Seq(Servers), q # <<>>, NEW s \in Servers, Head(q) = s, Once(q),
         NEW r, r = Append(Tail(q), s)
  PROVE  /\ r \in Seq(Servers) /\ Once(r)
         /\ \A u \in Servers : In(r, u) <=> In(q, u)
         /\ \A u, t \in Servers : Behind(q, u, t) /\ u # s => Behind(r, u, t)
<1> DEFINE tail == Tail(q)
<1>1. /\ tail \in Seq(Servers) /\ Once(tail)
      /\ \A u \in Servers : In(tail, u) <=> In(q, u) /\ u # s
      /\ \A u, t \in Servers : Behind(q, u, t) /\ u # s => Behind(tail, u, t)
  BY Popped
<1>2. In(q, s)
  BY HeadTailProperties, EmptySeq DEF In, Places
<1>3. r = Append(tail, s)
  OBVIOUS
<1> HIDE DEF tail
<1> QED
  BY <1>1, <1>2, <1>3, Pushed

LockInv == Once(lock) /\ \A s \in Servers : In(lock, s) <=> server[s].pc = "save"

(* What a server does that stores an output, before the next one.         *)
LEMMA SaveIs ==
  ASSUME Typed, LockInv, NEW s \in Servers, Save(s)
  PROVE  /\ server[s].pc = "save" /\ server[s].i \in Outs
         /\ lock # <<>> /\ Head(lock) = s
         /\ stored' = [stored EXCEPT ![server[s].i] =
                         IF server[s].empty THEN EMPTY ELSE output_labels[server[s].i]]
         /\ \/ /\ server[s].i + 1 \in Outs
               /\ ToSave(s, server[s].i + 1) /\ lock' = Append(Tail(lock), s)
            \/ /\ server[s].i + 1 = N
               /\ NextOut(s, "save", "clear") /\ lock' = Tail(lock)
         /\ UNCHANGED <<output_labels, entries, sw1_sem, sw>>
<1>1. server[s].i \in Outs
  BY DEF Typed, ServerType
<1>2. In(lock, s)
  BY DEF LockInv, Save
<1>3. lock # <<>>
  BY <1>2, EmptySeq DEF In, Places
<1> QED
  BY <1>1, <1>3, Outputs DEF Save

TypeInv == Typed /\ LockInv

LEMMA InitType == Init => TypeInv
<1> SUFFICES ASSUME Init PROVE TypeInv
  OBVIOUS
<1>1. entries \in [Outs -> EntryType]
  BY DEF Init, Free, EntryType, PointerType
<1>2. server \in [Servers -> ServerType] /\ \A s \in Servers : server[s].pc = "idle"
  BY IdleIsServer DEF Init
<1>3. lock \in Seq(Servers) /\ Places(lock) = {}
  BY EmptySeq DEF Init, Places
<1>4. LockInv
  BY <1>2, <1>3 DEF LockInv, Once, In
<1> QED
  BY <1>1, <1>2, <1>3, <1>4, WaitingIsThread DEF Init, TypeInv, Typed, LabelType

LEMMA RebootType ==
  ASSUME TypeInv, Reboot
  PROVE  /\ TypeInv'
         /\ output_labels' = stored /\ stored' = stored
         /\ \A s \in Servers : server'[s].pc = "idle"
<1>1. entries' \in [Outs -> EntryType]
  <2>1. PICK t \in [Outs -> {p \in Outs : stored[p] # EMPTY} \cup {NULL}] :
           entries' = [e \in Outs |-> [name |-> t[e], addr |-> NULL]]
    BY DEF Reboot
  <2> QED
    BY <2>1 DEF EntryType, PointerType
<1>2. server' \in [Servers -> ServerType] /\ \A s \in Servers : server'[s].pc = "idle"
  BY IdleIsServer DEF Reboot
<1>3. lock' = <<>> /\ lock' \in Seq(Servers) /\ Places(lock') = {}
  BY EmptySeq DEF Reboot, Places
<1>4. LockInv'
  BY <1>2, <1>3 DEF LockInv, Once, In
<1> QED
  BY <1>1, <1>2, <1>3, <1>4, WaitingIsThread DEF Reboot, TypeInv, Typed, LabelType

LEMMA PostType ==
  ASSUME TypeInv, NEW s \in Servers, NEW req \in Requests, prov_post(s, req)
  PROVE  /\ TypeInv'
         /\ server'[s].pc = "save" /\ server'[s].i = 0
         /\ server'[s].empty = (output_labels'[0] = EMPTY)
         /\ \A u \in Servers \ {s} : server'[u] = server[u]
         /\ \A u \in Servers : server[u].pc = "save" => Behind(lock', u, s)
         /\ \A u, t \in Servers : Behind(lock, u, t) => Behind(lock', u, t)
<1>1. /\ server' \in [Servers -> ServerType]
      /\ server'[s].pc = "save" /\ server'[s].i = 0
      /\ server'[s].empty = (output_labels'[0] = EMPTY)
      /\ \A u \in Servers \ {s} : server'[u] = server[u]
  BY Outputs, ToSaveIs DEF prov_post, TypeInv, Typed
<1>2. output_labels' \in [Outs -> LabelType]
  BY DEF prov_post, TypeInv, Typed, Requests, LabelType
<1>3. lock \in Seq(Servers) /\ ~In(lock, s) /\ Once(lock) /\ lock' = Append(lock, s)
  BY DEF TypeInv, Typed, LockInv, prov_post
<1>4. /\ lock' \in Seq(Servers) /\ LockInv'
      /\ \A u \in Servers : server[u].pc = "save" => Behind(lock', u, s)
      /\ \A u, t \in Servers : Behind(lock, u, t) => Behind(lock', u, t)
  BY <1>1, <1>3, Pushed DEF TypeInv, LockInv
<1> QED
  BY <1>1, <1>2, <1>4 DEF TypeInv, Typed, prov_post

(* What is stored next is in order, and nobody loses his place in the      *)
(* queue, except the one whose turn it was.                                *)
LEMMA SaveType ==
  ASSUME TypeInv, NEW s \in Servers, Save(s)
  PROVE  /\ TypeInv'
         /\ \/ /\ server'[s].pc = "save" /\ server'[s].i = server[s].i + 1
               /\ server'[s].empty = (output_labels[server'[s].i] = EMPTY)
            \/ server[s].i + 1 = N /\ server'[s].pc = "clear" /\ server'[s].i = 0
         /\ \A u \in Servers \ {s} : server'[u] = server[u]
         /\ \A u \in Servers : ~Behind(lock, u, s)
         /\ \A u, t \in Servers : Behind(lock, u, t) /\ u # s => Behind(lock', u, t)
<1>1. Typed /\ LockInv /\ server \in [Servers -> ServerType] /\ lock \in Seq(Servers)
  BY DEF TypeInv, Typed
<1>2. /\ server[s].pc = "save" /\ server[s].i \in Outs
      /\ lock # <<>> /\ Head(lock) = s
      /\ stored' = [stored EXCEPT ![server[s].i] =
                      IF server[s].empty THEN EMPTY ELSE output_labels[server[s].i]]
      /\ UNCHANGED <<output_labels, entries, sw1_sem, sw>>
  BY <1>1, SaveIs
<1>3. stored' \in [Outs -> LabelType]
  BY <1>1, <1>2 DEF Typed, LabelType
<1>4. \A u \in Servers : ~Behind(lock, u, s)
  BY <1>1, <1>2, Popped DEF LockInv
<1>5. CASE server[s].i + 1 \in Outs /\ ToSave(s, server[s].i + 1) /\ lock' = Append(Tail(lock), s)
  <2>1. /\ server' \in [Servers -> ServerType]
        /\ server'[s].pc = "save" /\ server'[s].i = server[s].i + 1
        /\ server'[s].empty = (output_labels'[server'[s].i] = EMPTY)
        /\ \A u \in Servers \ {s} : server'[u] = server[u]
    BY <1>1, <1>5, ToSaveIs
  <2>2. /\ lock' \in Seq(Servers) /\ Once(lock')
        /\ \A u \in Servers : In(lock', u) <=> In(lock, u)
        /\ \A u, t \in Servers : Behind(lock, u, t) /\ u # s => Behind(lock', u, t)
    BY <1>1, <1>2, <1>5, Requeued DEF LockInv
  <2>3. LockInv'
    BY <1>1, <1>2, <2>1, <2>2 DEF LockInv
  <2> QED
    BY <1>1, <1>2, <1>3, <1>4, <2>1, <2>2, <2>3 DEF TypeInv, Typed
<1>6. CASE server[s].i + 1 = N /\ NextOut(s, "save", "clear") /\ lock' = Tail(lock)
  <2>1. /\ server' \in [Servers -> ServerType]
        /\ server'[s].pc = "clear" /\ server'[s].i = 0
        /\ \A u \in Servers \ {s} : server'[u] = server[u]
    BY <1>1, <1>2, <1>6, Outputs, NextOutIs
  <2>2. /\ lock' \in Seq(Servers) /\ Once(lock')
        /\ \A u \in Servers : In(lock', u) <=> In(lock, u) /\ u # s
        /\ \A u, t \in Servers : Behind(lock, u, t) /\ u # s => Behind(lock', u, t)
    BY <1>1, <1>2, <1>6, Popped DEF LockInv
  <2>3. LockInv'
    BY <1>1, <1>2, <2>1, <2>2 DEF LockInv
  <2> QED
    BY <1>1, <1>2, <1>3, <1>4, <1>6, <2>1, <2>2, <2>3 DEF TypeInv, Typed
<1> QED
  BY <1>1, <1>5, <1>6, SaveIs

(* Clearing and registering change the table only.                        *)
LEMMA TableType ==
  ASSUME TypeInv, NEW s \in Servers, ClearEntry(s) \/ Add(s)
  PROVE  /\ TypeInv'
         /\ \/ /\ server[s].i + 1 < N
               /\ server'[s].pc = server[s].pc /\ server'[s].i = server[s].i + 1
            \/ /\ server[s].i + 1 = N /\ server'[s].i = 0
               /\ server'[s].pc = IF ClearEntry(s) THEN "add" ELSE "idle"
         /\ \A u \in Servers \ {s} : server'[u] = server[u]
<1>1. /\ server \in [Servers -> ServerType] /\ entries \in [Outs -> EntryType]
      /\ server[s].i \in Outs
  BY DEF TypeInv, Typed, ServerType
<1>2. entries' \in [Outs -> EntryType]
  <2>1. CASE ClearEntry(s)
    BY <1>1, <2>1 DEF ClearEntry, Free, EntryType, PointerType
  <2>2. CASE Add(s)
    BY <1>1, <2>2, RegisterIs DEF Add, EntryType, PointerType
  <2> QED
    BY <2>1, <2>2
<1>3. /\ server' \in [Servers -> ServerType]
      /\ \/ /\ server[s].i + 1 < N
            /\ server'[s].pc = server[s].pc /\ server'[s].i = server[s].i + 1
         \/ /\ server[s].i + 1 = N /\ server'[s].i = 0
            /\ server'[s].pc = IF ClearEntry(s) THEN "add" ELSE "idle"
      /\ \A u \in Servers \ {s} : server'[u] = server[u]
  <2>1. CASE ClearEntry(s)
    BY <1>1, <2>1, NextOutIs DEF ClearEntry
  <2>2. CASE Add(s)
    BY <1>1, <2>2, NextOutIs DEF Add, ClearEntry
  <2> QED
    BY <2>1, <2>2
<1>4. UNCHANGED <<output_labels, stored, lock, sw1_sem, sw>>
  BY DEF ClearEntry, Add
<1>5. server[s].pc # "save" /\ server'[s].pc # "save"
  BY <1>3 DEF ClearEntry, Add
<1>6. LockInv'
  BY <1>3, <1>4, <1>5 DEF TypeInv, LockInv
<1> QED
  BY <1>2, <1>3, <1>4, <1>6 DEF TypeInv, Typed

(* An address comes or goes.                                              *)
LEMMA AddrType ==
  ASSUME TypeInv, (\E e \in Outs : Expire(e)) \/ (\E l \in Labels : Found(l))
  PROVE  TypeInv'
<1>1. PICK e \in Outs, a \in Labels \cup {NULL} : entries' = [entries EXCEPT ![e].addr = a]
  BY DEF Expire, Found, First, Lowest
<1>2. entries' \in [Outs -> EntryType]
  BY <1>1 DEF TypeInv, Typed, EntryType
<1> QED
  BY <1>2 DEF Expire, Found, TypeInv, Typed, LockInv, prov

LEMMA NextType == TypeInv /\ [Next]_vars => TypeInv'
<1> SUFFICES ASSUME TypeInv, [Next]_vars PROVE TypeInv'
  OBVIOUS
<1>1. ASSUME NEW s \in Servers, prov_store(s) PROVE TypeInv'
  BY <1>1, SaveType, TableType DEF prov_store
<1>2. CASE Press
  BY <1>2 DEF Press, TypeInv, Typed, LockInv, prov
<1>3. CASE sw_proc
  <2>1. sw' \in ThreadType /\ sw1_sem' \in {0, 1} /\ UNCHANGED <<prov, entries>>
    BY <1>3, ThreadStep DEF TypeInv
  <2> QED
    BY <2>1 DEF TypeInv, Typed, LockInv, prov
<1>4. CASE UNCHANGED vars
  BY <1>4 DEF TypeInv, Typed, LockInv, prov, vars
<1> QED
  BY <1>1, <1>2, <1>3, <1>4, PostType, RebootType, AddrType DEF Next
(* Every variable of the switch keeps its type: the places of the table    *)
(* point to outputs, and the queue of the lock to servers.                 *)
THEOREM TypeCorrect == Spec => []TypeOK
<1>1. TypeInv => TypeOK
  BY DEF TypeInv, Typed, TypeOK, LabelType, EntryType, PointerType, ServerType, ThreadType
<1> QED
  BY <1>1, InitType, NextType, PTL DEF Spec

-----------------------------------------------------------------------------
(* What is stored is what is used, or will be: the last server that has    *)
(* overwritten a label is behind all that may store an older one.          *)

Fresh(s, p) ==
  /\ server[s].pc = "save"
  /\ \/ server[s].i < p
     \/ server[s].i = p /\ server[s].empty = (output_labels[p] = EMPTY)

Stale(s) ==
  /\ server[s].pc = "save"
  /\ server[s].empty # (output_labels[server[s].i] = EMPTY)

Followed(s) == \E t \in Servers : Fresh(t, server[s].i) /\ Behind(lock, s, t)

StoredInv ==
  /\ \A p \in Outs : stored[p] = output_labels[p] \/ \E s \in Servers : Fresh(s, p)
  /\ \A s \in Servers : Stale(s) => Followed(s)

LEMMA InitStored == Init => StoredInv
  BY IdleIsServer DEF Init, StoredInv, Stale, Fresh

LEMMA RebootStored == TypeInv /\ Reboot => StoredInv'
  BY RebootType DEF StoredInv, Stale, Fresh

LEMMA SameStored ==
  ASSUME StoredInv, UNCHANGED prov
  PROVE  StoredInv'
  BY DEF StoredInv, Stale, Followed, Fresh, prov

LEMMA TableStored ==
  ASSUME TypeInv, StoredInv, NEW s \in Servers, ClearEntry(s) \/ Add(s)
  PROVE  StoredInv'
<1>1. /\ server[s].pc # "save" /\ server'[s].pc # "save"
      /\ \A u \in Servers \ {s} : server'[u] = server[u]
      /\ UNCHANGED <<output_labels, stored, lock>>
  BY TableType DEF ClearEntry, Add
<1>2. /\ \A u \in Servers, p \in Outs : Fresh(u, p)' <=> Fresh(u, p)
      /\ \A u \in Servers : Stale(u)' <=> Stale(u)
      /\ \A u \in Servers : Stale(u) => server'[u].i = server[u].i
  BY <1>1 DEF Fresh, Stale
<1>3. \A u \in Servers : server[u].i \in Outs
  BY DEF TypeInv, Typed, ServerType
<1> QED
  BY <1>1, <1>2, <1>3 DEF StoredInv, Followed

LEMMA PostStored ==
  ASSUME TypeInv, StoredInv, NEW s \in Servers, NEW req \in Requests, prov_post(s, req)
  PROVE  StoredInv'
<1>1. /\ server'[s].pc = "save" /\ server'[s].i = 0
      /\ server'[s].empty = (output_labels'[0] = EMPTY)
      /\ \A u \in Servers \ {s} : server'[u] = server[u]
      /\ \A u \in Servers : server[u].pc = "save" => Behind(lock', u, s)
  BY PostType
<1>2. \A p \in Outs : Fresh(s, p)'
  <2> SUFFICES ASSUME NEW p \in Outs PROVE Fresh(s, p)'
    OBVIOUS
  <2>1. p = 0 \/ 0 < p
    BY Outputs
  <2> QED
    BY <1>1, <2>1 DEF Fresh
<1>3. ASSUME NEW u \in Servers, Stale(u)'
      PROVE  Followed(u)'
  <2>1. u # s /\ server[u].pc = "save"
    BY <1>1, <1>3 DEF Stale
  <2>2. server'[u].i \in Outs /\ Behind(lock', u, s)
    BY <1>1, <2>1 DEF TypeInv, Typed, ServerType
  <2> QED
    BY <1>2, <2>2 DEF Followed, Fresh
<1> QED
  BY <1>2, <1>3 DEF StoredInv

LEMMA SaveStored ==
  ASSUME TypeInv, StoredInv, NEW s \in Servers, Save(s)
  PROVE  StoredInv'
<1> DEFINE i == server[s].i
<1>1. /\ server[s].pc = "save" /\ i \in Outs
      /\ stored' = [stored EXCEPT ![i] =
                      IF server[s].empty THEN EMPTY ELSE output_labels[i]]
      /\ UNCHANGED output_labels
  BY SaveIs DEF TypeInv
<1>2. /\ \/ /\ server'[s].pc = "save" /\ server'[s].i = i + 1
            /\ server'[s].empty = (output_labels[server'[s].i] = EMPTY)
         \/ i + 1 = N /\ server'[s].pc = "clear" /\ server'[s].i = 0
      /\ \A u \in Servers \ {s} : server'[u] = server[u]
      /\ \A u \in Servers : ~Behind(lock, u, s)
      /\ \A u, t \in Servers : Behind(lock, u, t) /\ u # s => Behind(lock', u, t)
  BY SaveType
<1>3. \A u \in Servers : server[u].i \in Outs
  BY DEF TypeInv, Typed, ServerType
<1>4. \A u \in Servers \ {s}, p \in Outs : Fresh(u, p)' <=> Fresh(u, p)
  BY <1>1, <1>2 DEF Fresh
<1>5. \A p \in Outs : p # i /\ Fresh(s, p) => Fresh(s, p)'
  <2> SUFFICES ASSUME NEW p \in Outs, p # i, Fresh(s, p) PROVE Fresh(s, p)'
    OBVIOUS
  <2>0. i \in Nat /\ p \in Nat /\ p < N /\ N \in Nat
    BY <1>1, Outputs
  <2>1. i < p /\ i + 1 <= p
    BY <2>0 DEF Fresh
  <2>2. /\ server'[s].pc = "save" /\ server'[s].i = i + 1
        /\ server'[s].empty = (output_labels[server'[s].i] = EMPTY)
    BY <1>1, <1>2, <2>0, <2>1
  <2>3. CASE i + 1 = p
    BY <1>1, <2>2, <2>3 DEF Fresh
  <2>4. CASE i + 1 < p
    BY <1>1, <2>2, <2>4 DEF Fresh
  <2>5. i + 1 = p \/ i + 1 < p
    BY <2>0, <2>1
  <2> QED
    BY <2>3, <2>4, <2>5
<1>6. \A p \in Outs : stored'[p] = output_labels'[p] \/ \E u \in Servers : Fresh(u, p)'
  <2> SUFFICES ASSUME NEW p \in Outs, stored'[p] # output_labels'[p]
               PROVE  \E u \in Servers : Fresh(u, p)'
    OBVIOUS
  <2>1. CASE p # i
    <3>1. stored[p] # output_labels[p]
      BY <1>1, <2>1 DEF TypeInv, Typed
    <3>2. PICK u \in Servers : Fresh(u, p)
      BY <3>1 DEF StoredInv
    <3> QED
      BY <1>4, <1>5, <2>1, <3>2
  <2>2. CASE p = i
    <3>1. stored'[i] = IF server[s].empty THEN EMPTY ELSE output_labels[i]
      BY <1>1 DEF TypeInv, Typed
    <3>2. server[s].empty \in BOOLEAN
      BY DEF TypeInv, Typed, ServerType
    <3>3. Stale(s)
      BY <1>1, <2>2, <3>1, <3>2 DEF Stale
    <3>4. PICK t \in Servers : Fresh(t, i) /\ Behind(lock, s, t)
      BY <3>3 DEF StoredInv, Followed
    <3>5. t # s
      BY <1>2, <3>4
    <3> QED
      BY <1>4, <2>2, <3>4, <3>5
  <2> QED
    BY <2>1, <2>2
<1>7. ASSUME NEW u \in Servers, Stale(u)'
      PROVE  Followed(u)'
  <2>1. u # s
    BY <1>1, <1>2, <1>7 DEF Stale
  <2>2. Stale(u)
    BY <1>1, <1>2, <1>7, <2>1 DEF Stale
  <2>3. PICK t \in Servers : Fresh(t, server[u].i) /\ Behind(lock, u, t)
    BY <2>2 DEF StoredInv, Followed
  <2>4. t # s /\ server'[u].i = server[u].i /\ Behind(lock', u, t)
    BY <1>2, <2>1, <2>3
  <2>5. Fresh(t, server[u].i)'
    BY <1>1, <1>2, <2>1, <2>3, <2>4 DEF Fresh
  <2> QED
    BY <2>4, <2>5 DEF Followed
<1> QED
  BY <1>6, <1>7 DEF StoredInv

LEMMA NextStored == TypeInv /\ StoredInv /\ [Next]_vars => StoredInv'
<1> SUFFICES ASSUME TypeInv, StoredInv, [Next]_vars PROVE StoredInv'
  OBVIOUS
<1>1. ASSUME NEW s \in Servers, prov_store(s) PROVE StoredInv'
  BY <1>1, SaveStored, TableStored DEF prov_store
<1>2. CASE UNCHANGED prov
  BY <1>2, SameStored
<1>3. Press \/ sw_proc \/ (\E e \in Outs : Expire(e)) \/ (\E l \in Labels : Found(l))
        \/ UNCHANGED vars => UNCHANGED prov
  <2>1. sw_proc => UNCHANGED prov
    BY ThreadStep DEF TypeInv
  <2> QED
    BY <2>1 DEF Press, Expire, Found, vars
<1> QED
  BY <1>1, <1>2, <1>3, PostStored, RebootStored DEF Next

-----------------------------------------------------------------------------
(* The table.  What is wrong in it will be cleared, what is missing added. *)

WillClear(s, e) ==
  server[s].pc = "save" \/ (server[s].pc = "clear" /\ server[s].i <= e)
WillAdd(s, p) ==
  server[s].pc \in {"save", "clear"} \/ (server[s].pc = "add" /\ server[s].i <= p)

Doomed(e) == \E s \in Servers : WillClear(s, e)
Coming(p) == \E s \in Servers : WillAdd(s, p)

Label(e) == output_labels[entries[e].name]

NamesOnce ==
  \A e, f \in Outs :
    entries[e].name # NULL /\ entries[e].name = entries[f].name => e = f
LabelsOnce ==
  \A e, f \in Outs :
    /\ e # f /\ entries[e].name # NULL /\ entries[f].name # NULL
    /\ Label(e) = Label(f)
    => Doomed(e) \/ Doomed(f)
NoEmpty == \A e \in Outs : Named(e, EMPTY) => Doomed(e)
OwnAddr(e) ==
  entries[e].addr = NULL \/ (entries[e].name # NULL /\ entries[e].addr = Label(e))
Addressed == \A e \in Outs : OwnAddr(e) \/ Doomed(e)
HasEntry(p) ==
  \E e \in Outs : entries[e].name # NULL /\ Label(e) = output_labels[p]
Covered ==
  \A p \in Outs : output_labels[p] # EMPTY => HasEntry(p) \/ Coming(p)

TableInv == NamesOnce /\ LabelsOnce /\ NoEmpty /\ Addressed /\ Covered

(* Outputs are ordered, so a search finds something if there is something. *)
LEMMA NoneIsFirst ==
  ASSUME NEW l, First(l) = {}, NEW e \in Outs
  PROVE  ~Named(e, l)
<1> SUFFICES ASSUME Named(e, l) PROVE FALSE
  OBVIOUS
<1> DEFINE S == {f \in Outs : Named(f, l)}
           R == {ss \in Nat \X Nat : ss[1] < ss[2]}
<1>1. IsWellFoundedOn(R, Nat)
  BY NatLessThanWellFounded DEF OpToRel
<1>2. S \in SUBSET Nat /\ S # {}
  BY Outputs
<1>3. PICK m \in S : \A n \in S : <<n, m>> \notin R
  <2> HIDE DEF S, R
  <2> QED
    BY <1>1, <1>2, WFMin
<1>4. \A n \in S : m <= n
  <2> SUFFICES ASSUME NEW n \in S PROVE m <= n
    OBVIOUS
  <2>1. n \in Nat /\ m \in Nat
    BY <1>2
  <2>2. <<n, m>> \in Nat \X Nat /\ (n < m => <<n, m>> \in R)
    BY <2>1
  <2> QED
    BY <1>3, <2>1, <2>2
<1> QED
  BY <1>3, <1>4 DEF First, Lowest

(* There is room: an output that is not in the table has left an entry to  *)
(* it, since no output is in two of them.                                  *)
LEMMA Room ==
  ASSUME Typed, NamesOnce, NEW p \in Outs,
         \A e \in Outs : entries[e].name # p
  PROVE  \E e \in Outs : entries[e].name = NULL
<1> SUFFICES ASSUME \A e \in Outs : entries[e].name # NULL PROVE FALSE
  OBVIOUS
<1> DEFINE T == Outs \ {p}
           f == [e \in Outs |-> entries[e].name]
<1>1. IsFiniteSet(Outs) /\ Cardinality(Outs) = N
  BY FS_Interval, SwitchAssumption DEF Outs
<1>2. IsFiniteSet(T) /\ Cardinality(T) < Cardinality(Outs)
  <2>1. IsFiniteSet(T) /\ Cardinality(T) = N - 1
    BY <1>1, FS_RemoveElement
  <2> HIDE DEF T
  <2> QED
    BY <1>1, <2>1, Outputs
<1>3. f \in [Outs -> T]
  BY DEF Typed, EntryType, PointerType
<1>4. \E x, y \in Outs : x # y /\ f[x] = f[y]
  <2> HIDE DEF T, f
  <2> QED
    BY <1>1, <1>2, <1>3, FS_PigeonHole
<1> QED
  BY <1>4 DEF NamesOnce

LEMMA InitTable == Init => TableInv
<1> SUFFICES ASSUME Init PROVE TableInv
  OBVIOUS
<1>1. \A e \in Outs : entries[e].name = NULL /\ entries[e].addr = NULL
  BY DEF Init, Free
<1>2. \A p \in Outs : output_labels[p] = EMPTY
  BY DEF Init
<1> QED
  BY <1>1, <1>2 DEF TableInv, NamesOnce, LabelsOnce, NoEmpty, Addressed, OwnAddr,
                      Covered, Named

LEMMA RebootTable == TypeInv /\ Reboot => TableInv'
<1> SUFFICES ASSUME TypeInv, Reboot PROVE TableInv'
  OBVIOUS
<1>1. PICK t \in [Outs -> {p \in Outs : stored[p] # EMPTY} \cup {NULL}] :
         /\ Loaded(t, stored)
         /\ entries' = [e \in Outs |-> [name |-> t[e], addr |-> NULL]]
  BY DEF Reboot
<1>2. /\ output_labels' = stored
      /\ \A e \in Outs : entries'[e].name = t[e] /\ entries'[e].addr = NULL
  BY <1>1 DEF Reboot
<1>3. \A e, f \in Outs : e # f /\ t[e] # NULL /\ t[f] # NULL => stored[t[e]] # stored[t[f]]
  <2> SUFFICES ASSUME NEW e \in Outs, NEW f \in Outs, e # f, t[e] # NULL, t[f] # NULL
               PROVE  stored[t[e]] # stored[t[f]]
    OBVIOUS
  <2>1. e \in Nat /\ f \in Nat
    BY Outputs
  <2>2. e < f \/ f < e
    BY <2>1
  <2> QED
    BY <1>1, <2>2 DEF Loaded
<1>4. \A e \in Outs : t[e] # NULL => stored[t[e]] # EMPTY
  BY <1>1
<1>5. NamesOnce' /\ LabelsOnce'
  BY <1>2, <1>3 DEF NamesOnce, LabelsOnce, Label
<1>6. NoEmpty' /\ Addressed'
  BY <1>2, <1>4 DEF NoEmpty, Addressed, OwnAddr, Named
<1>7. Covered'
  <2> SUFFICES ASSUME NEW p \in Outs, stored[p] # EMPTY
               PROVE  HasEntry(p)'
    BY <1>2 DEF Covered
  <2>1. PICK e \in Outs : t[e] # NULL /\ stored[t[e]] = stored[p]
    BY <1>1 DEF Loaded
  <2> QED
    BY <1>2, <2>1 DEF HasEntry, Label
<1> QED
  BY <1>5, <1>6, <1>7 DEF TableInv

(* What does not touch names, labels or servers.                           *)
LEMMA AddrTable ==
  ASSUME TypeInv, TableInv, UNCHANGED prov,
         NEW e \in Outs, NEW a, a = NULL \/ Named(e, a),
         entries' = [entries EXCEPT ![e].addr = a]
  PROVE  TableInv'
<1>1. /\ \A f \in Outs : entries'[f].name = entries[f].name
      /\ \A f \in Outs \ {e} : entries'[f].addr = entries[f].addr
      /\ entries'[e].addr = a
      /\ UNCHANGED <<output_labels, server>>
  BY DEF TypeInv, Typed, EntryType, prov
<1>2. /\ \A l : \A f \in Outs : Named(f, l)' <=> Named(f, l)
      /\ \A f \in Outs : Label(f)' = Label(f)
      /\ \A f \in Outs : Doomed(f)' <=> Doomed(f)
      /\ \A p \in Outs : Coming(p)' <=> Coming(p)
  BY <1>1 DEF Named, Label, Doomed, WillClear, Coming, WillAdd
<1>3. NamesOnce' /\ LabelsOnce' /\ NoEmpty'
  BY <1>1, <1>2 DEF TableInv, NamesOnce, LabelsOnce, NoEmpty
<1>4. Covered'
  BY <1>1, <1>2 DEF TableInv, Covered, HasEntry
<1>5. Addressed'
  <2>1. OwnAddr(e)'
    BY <1>1, <1>2 DEF OwnAddr, Named, Label
  <2>2. \A f \in Outs \ {e} : OwnAddr(f)' <=> OwnAddr(f)
    BY <1>1, <1>2 DEF OwnAddr
  <2> QED
    BY <1>2, <2>1, <2>2 DEF TableInv, Addressed
<1> QED
  BY <1>3, <1>4, <1>5 DEF TableInv

LEMMA SameTable ==
  ASSUME TableInv, UNCHANGED <<prov, entries>>
  PROVE  TableInv'
  BY DEF TableInv, NamesOnce, LabelsOnce, NoEmpty, Addressed, OwnAddr, Covered, HasEntry,
         Named, Label, Doomed, WillClear, Coming, WillAdd, prov

LEMMA PostTable ==
  ASSUME TypeInv, TableInv, NEW s \in Servers, NEW req \in Requests, prov_post(s, req)
  PROVE  TableInv'
<1>1. server'[s].pc = "save" /\ UNCHANGED entries
  BY PostType DEF prov_post
<1>2. \A e \in Outs : Doomed(e)' /\ Coming(e)'
  BY <1>1 DEF Doomed, WillClear, Coming, WillAdd
<1> QED
  BY <1>1, <1>2 DEF TableInv, NamesOnce, LabelsOnce, NoEmpty, Addressed, Covered

LEMMA SaveTable ==
  ASSUME TypeInv, TableInv, NEW s \in Servers, Save(s)
  PROVE  TableInv'
<1>1. /\ server[s].pc = "save" /\ UNCHANGED <<output_labels, entries>>
      /\ server'[s].pc = "save" \/ (server'[s].pc = "clear" /\ server'[s].i = 0)
      /\ \A u \in Servers \ {s} : server'[u] = server[u]
  BY SaveType DEF Save
<1>2. \A e \in Outs : WillClear(s, e)' /\ WillAdd(s, e)'
  <2> SUFFICES ASSUME NEW e \in Outs PROVE WillClear(s, e)' /\ WillAdd(s, e)'
    OBVIOUS
  <2>1. 0 <= e
    BY Outputs
  <2> QED
    BY <1>1, <2>1 DEF WillClear, WillAdd
<1>3. \A e \in Outs : Doomed(e)' /\ Coming(e)'
  BY <1>2 DEF Doomed, Coming
<1> QED
  BY <1>1, <1>3 DEF TableInv, NamesOnce, LabelsOnce, NoEmpty, Addressed, Covered

LEMMA ClearTable ==
  ASSUME TypeInv, TableInv, NEW s \in Servers, ClearEntry(s)
  PROVE  TableInv'
<1> DEFINE i == server[s].i
<1>1. /\ server[s].pc = "clear" /\ i \in Outs
      /\ \/ i + 1 < N /\ server'[s].pc = "clear" /\ server'[s].i = i + 1
         \/ i + 1 = N /\ server'[s].pc = "add" /\ server'[s].i = 0
      /\ \A u \in Servers \ {s} : server'[u] = server[u]
      /\ UNCHANGED output_labels
  BY TableType DEF ClearEntry, TypeInv, Typed, ServerType
<1>2. /\ entries'[i].name = NULL /\ entries'[i].addr = NULL
      /\ \A e \in Outs \ {i} : entries'[e] = entries[e]
  BY <1>1 DEF ClearEntry, TypeInv, Typed, EntryType, Free
<1>3. \A e \in Outs \ {i} : WillClear(s, e) => WillClear(s, e)'
  <2> SUFFICES ASSUME NEW e \in Outs \ {i}, WillClear(s, e) PROVE WillClear(s, e)'
    OBVIOUS
  <2>1. i \in Nat /\ e \in Nat /\ e < N /\ i <= e
    BY <1>1, Outputs DEF WillClear
  <2>2. i + 1 <= e /\ i + 1 # N
    BY <2>1, Outputs
  <2> QED
    BY <1>1, <2>2 DEF WillClear
<1>4. \A e \in Outs \ {i} : Doomed(e) => Doomed(e)'
  BY <1>1, <1>3 DEF Doomed, WillClear
<1>5. \A p \in Outs : Coming(p)'
  <2> SUFFICES ASSUME NEW p \in Outs PROVE WillAdd(s, p)'
    BY DEF Coming
  <2>1. 0 <= p
    BY Outputs
  <2> QED
    BY <1>1, <2>1 DEF WillAdd
<1>6. NamesOnce' /\ LabelsOnce'
  BY <1>1, <1>2, <1>4 DEF TableInv, NamesOnce, LabelsOnce, Label
<1>7. NoEmpty'
  BY <1>1, <1>2, <1>4 DEF TableInv, NoEmpty, Named
<1>8. Addressed'
  BY <1>1, <1>2, <1>4 DEF TableInv, Addressed, OwnAddr, Label
<1>9. Covered'
  BY <1>5 DEF Covered
<1> QED
  BY <1>6, <1>7, <1>8, <1>9 DEF TableInv

(* The entry of an output that has been added, or was there before.        *)
LEMMA Added ==
  ASSUME TypeInv, TableInv, NEW s \in Servers, Add(s)
  PROVE  LET i == server[s].i IN
         \/ UNCHANGED entries /\ (output_labels[i] = EMPTY \/ HasEntry(i))
         \/ /\ output_labels[i] # EMPTY
            /\ \E e \in Outs :
                 /\ entries[e].name = NULL
                 /\ \A f \in Outs : ~Named(f, output_labels[i])
                 /\ entries' = [entries EXCEPT ![e] = [name |-> i, addr |-> NULL]]
<1> DEFINE i == server[s].i
<1>1. i \in Outs /\ entries \in [Outs -> EntryType] /\ i # NULL
  BY NullIsNone DEF TypeInv, Typed, ServerType
<1>2. CASE output_labels[i] = EMPTY
  BY <1>2 DEF Add
<1>3. CASE output_labels[i] # EMPTY
  <2>1. continuous_sd_register(i)
    BY <1>3 DEF Add
  <2>2. CASE First(output_labels[i]) # {}
    <3>1. UNCHANGED entries
      BY <1>1, <2>1, <2>2, RegisterIs
    <3>2. HasEntry(i)
      BY <2>2 DEF First, Lowest, Named, HasEntry, Label
    <3> QED
      BY <3>1, <3>2
  <2>3. CASE First(output_labels[i]) = {}
    <3>1. \A f \in Outs : ~Named(f, output_labels[i])
      BY <2>3, NoneIsFirst
    <3>2. \A f \in Outs : entries[f].name # i
      BY <1>1, <3>1 DEF Named
    <3>3. \E f \in Outs : entries[f].name = NULL
      BY <1>1, <3>2, Room DEF TypeInv, TableInv
    <3>4. \E e \in Outs : /\ entries[e].name = NULL
                          /\ entries' = [entries EXCEPT ![e] = [name |-> i, addr |-> NULL]]
      BY <1>1, <2>1, <2>3, <3>3, RegisterIs
    <3> QED
      BY <1>3, <3>1, <3>4
  <2> QED
    BY <2>2, <2>3
<1> QED
  BY <1>2, <1>3

LEMMA AddTable ==
  ASSUME TypeInv, TableInv, NEW s \in Servers, Add(s)
  PROVE  TableInv'
<1> DEFINE i == server[s].i
<1>1. /\ server[s].pc = "add" /\ i \in Outs
      /\ \/ i + 1 < N /\ server'[s].pc = "add" /\ server'[s].i = i + 1
         \/ i + 1 = N /\ server'[s].pc = "idle" /\ server'[s].i = 0
      /\ \A u \in Servers \ {s} : server'[u] = server[u]
      /\ UNCHANGED output_labels
  BY TableType DEF Add, ClearEntry, TypeInv, Typed, ServerType
<1>2. \A e \in Outs : Doomed(e)' <=> Doomed(e)
  BY <1>1 DEF Doomed, WillClear
<1>3. \A p \in Outs \ {i} : WillAdd(s, p) => WillAdd(s, p)'
  <2> SUFFICES ASSUME NEW p \in Outs \ {i}, WillAdd(s, p) PROVE WillAdd(s, p)'
    OBVIOUS
  <2>1. i \in Nat /\ p \in Nat /\ p < N /\ i <= p
    BY <1>1, Outputs DEF WillAdd
  <2>2. i + 1 <= p /\ i + 1 # N
    BY <2>1, Outputs
  <2> QED
    BY <1>1, <2>2 DEF WillAdd
<1>4. \A p \in Outs \ {i} : Coming(p) => Coming(p)'
  BY <1>1, <1>3 DEF Coming, WillAdd
<1>5. CASE UNCHANGED entries /\ (output_labels[i] = EMPTY \/ HasEntry(i))
  <2>1. NamesOnce' /\ LabelsOnce' /\ NoEmpty' /\ Addressed'
    BY <1>1, <1>2, <1>5
    DEF TableInv, NamesOnce, LabelsOnce, NoEmpty, Addressed, OwnAddr, Label, Named
  <2>2. \A p \in Outs : HasEntry(p)' <=> HasEntry(p)
    BY <1>1, <1>5 DEF HasEntry, Label
  <2>3. Covered'
    BY <1>1, <1>4, <1>5, <2>2 DEF TableInv, Covered
  <2> QED
    BY <2>1, <2>3 DEF TableInv
<1>6. ASSUME output_labels[i] # EMPTY, NEW e \in Outs, entries[e].name = NULL,
             \A f \in Outs : ~Named(f, output_labels[i]),
             entries' = [entries EXCEPT ![e] = [name |-> i, addr |-> NULL]]
      PROVE  TableInv'
  <2>1. /\ entries'[e].name = i /\ entries'[e].addr = NULL /\ i # NULL
        /\ \A f \in Outs \ {e} : entries'[f] = entries[f]
    BY <1>1, <1>6, NullIsNone DEF TypeInv, Typed
  <2>2. /\ Label(e)' = output_labels[i]
        /\ \A f \in Outs \ {e} : Label(f)' = Label(f)
        /\ \A f \in Outs : entries[f].name # NULL => Label(f) # output_labels[i]
        /\ \A f \in Outs : entries[f].name # i
    BY <1>1, <1>6, <2>1 DEF Label, Named
  <2>3. NamesOnce'
    BY <2>1, <2>2 DEF TableInv, NamesOnce
  <2>4. LabelsOnce'
    BY <1>2, <2>1, <2>2 DEF TableInv, LabelsOnce
  <2>5. NoEmpty'
    BY <1>1, <1>2, <1>6, <2>1, <2>2 DEF TableInv, NoEmpty, Named, Label
  <2>6. Addressed'
    BY <1>2, <2>1, <2>2 DEF TableInv, Addressed, OwnAddr
  <2>7. \A p \in Outs : HasEntry(p) => HasEntry(p)'
    BY <1>1, <1>6, <2>1, <2>2 DEF HasEntry
  <2>8. Covered'
    <3> SUFFICES ASSUME NEW p \in Outs, output_labels[p] # EMPTY
                 PROVE  HasEntry(p)' \/ Coming(p)'
      BY <1>1 DEF Covered
    <3>1. CASE p # i
      BY <1>4, <2>7, <3>1 DEF TableInv, Covered
    <3>2. CASE p = i
      <4>1. PICK f \in Outs : entries'[f].name # NULL /\ Label(f)' = output_labels'[p]
        BY <1>1, <2>1, <2>2, <3>2
      <4> QED
        BY <4>1 DEF HasEntry
    <3> QED
      BY <3>1, <3>2
  <2> QED
    BY <2>3, <2>4, <2>5, <2>6, <2>8 DEF TableInv
<1> QED
  BY <1>5, <1>6, Added

LEMMA NextTable == TypeInv /\ TableInv /\ [Next]_vars => TableInv'
<1> SUFFICES ASSUME TypeInv, TableInv, [Next]_vars PROVE TableInv'
  OBVIOUS
<1>1. ASSUME NEW s \in Servers, prov_store(s) PROVE TableInv'
  BY <1>1, SaveTable, ClearTable, AddTable DEF prov_store
<1>2. ASSUME NEW e \in Outs, Expire(e) PROVE TableInv'
  BY <1>2, AddrTable DEF Expire
<1>3. ASSUME NEW l \in Labels, Found(l) PROVE TableInv'
  BY <1>3, AddrTable DEF Found, First, Lowest
<1>4. Press \/ sw_proc \/ UNCHANGED vars => UNCHANGED <<prov, entries>>
  BY ThreadStep DEF TypeInv, Press, vars
<1> QED
  BY <1>1, <1>2, <1>3, <1>4, PostTable, RebootTable, SameTable DEF Next

-----------------------------------------------------------------------------
(* Once all servers are done, the flash holds the labels in use, also      *)
(* after two of them have stored at the same time and after a restart      *)
(* between two writes, and each of these labels has exactly one entry.     *)
THEOREM StoredWhenDoneHolds == Spec => []StoredWhenDone
<1>1. TypeInv /\ StoredInv /\ TableInv => StoredWhenDone
  <2> SUFFICES ASSUME TypeInv, StoredInv, TableInv, AtRest
               PROVE  /\ stored = output_labels
                      /\ \A p \in Outs : output_labels[p] # EMPTY =>
                           \E e \in Outs : \A f \in Outs :
                             Named(f, output_labels[p]) <=> f = e
                      /\ \A e \in Outs : ~Named(e, EMPTY)
    BY DEF StoredWhenDone
  <2>1. \A p \in Outs : stored[p] = output_labels[p]
    BY DEF AtRest, StoredInv, Fresh
  <2>2. stored = output_labels
    BY <2>1 DEF TypeInv, Typed
  <2>3. \A e \in Outs : ~Doomed(e) /\ ~Coming(e)
    BY DEF AtRest, Doomed, WillClear, Coming, WillAdd
  <2>4. ASSUME NEW p \in Outs, output_labels[p] # EMPTY
        PROVE  \E e \in Outs : \A f \in Outs : Named(f, output_labels[p]) <=> f = e
    <3>1. PICK e \in Outs : entries[e].name # NULL /\ Label(e) = output_labels[p]
      BY <2>3, <2>4 DEF TableInv, Covered, HasEntry
    <3> QED
      BY <2>3, <3>1 DEF TableInv, LabelsOnce, Label, Named
  <2> QED
    BY <2>2, <2>3, <2>4 DEF TableInv, NoEmpty
<1> QED
  BY <1>1, InitType, NextType, InitStored, NextStored, InitTable, NextTable, PTL DEF Spec

(* Once all servers are done, an address in the table belongs to the label *)
(* that its entry is for now, not to one that its output had before.       *)
THEOREM RightAddressHolds == Spec => []RightAddress
<1>1. TypeInv /\ TableInv => RightAddress
  BY DEF TypeInv, TableInv, Addressed, OwnAddr, Label, Named, RightAddress, AtRest,
         Doomed, WillClear
<1> QED
  BY <1>1, InitType, NextType, InitTable, NextTable, PTL DEF Spec

-----------------------------------------------------------------------------
(* The analog inputs and the status LED, for any levels, configurations    *)
(* and widths.                                                             *)

(* A heartbeat thread that is about to wait finds the semaphore given      *)
(* unless the LED is in use.                                               *)
HeartbeatInv ==
  /\ HeartbeatKept
  /\ hb = "take" /\ ~analog_control => led_ctrl_sem = 1

(* A heartbeat thread that waits for the status LED waits only while the   *)
(* analog switch controls it, so that the release of it is yet to come.    *)
THEOREM HeartbeatKeptHolds == AnalogSpec => []HeartbeatKept
<1> USE DEF HeartbeatInv, HeartbeatKept
<1>1. AnalogInit => HeartbeatInv
  BY DEF AnalogInit
<1>2. HeartbeatInv /\ [AnalogNext]_analog_vars => HeartbeatInv'
  <2> SUFFICES ASSUME HeartbeatInv, [AnalogNext]_analog_vars PROVE HeartbeatInv'
    OBVIOUS
  <2>1. CASE UNCHANGED <<analog_control, led_ctrl_sem, hb>>
    BY <2>1
  <2>2. ASSUME NEW use \in BOOLEAN, UseLed(use) PROVE HeartbeatInv'
    BY <2>2 DEF UseLed, led_take_analog_control,
                led_release_analog_control
  <2>3. CASE Heartbeat
    BY <2>3 DEF Heartbeat, HbTest, HbTake
  <2>4. CASE Sample \/ Store \/ Light \/ adc_enable_post
             \/ adc_avg_get \/ UNCHANGED analog_vars
    BY <2>1, <2>4 DEF Sample, Store, Light, adc_enable_post,
                      adc_avg_get, analog_vars, led
  <2>5. CASE Server
    <3>1. ASSUME NEW c, NEW use \in BOOLEAN, set_config(c, use) PROVE HeartbeatInv'
      <4>1. UseLed(use)
        BY <3>1 DEF set_config
      <4> QED
        BY <2>2, <4>1
    <3>2. ASSUME NEW t \in Thresholds, set_threshold(t) PROVE HeartbeatInv'
      <4>1. set_config([cfg EXCEPT !.threshold = t], FALSE)
        BY <3>2 DEF set_threshold
      <4> QED
        BY <3>1, <4>1
    <3>3. ASSUME NEW use \in BOOLEAN, ConfigOther(use) PROVE HeartbeatInv'
      BY <2>2, <3>3 DEF ConfigOther
    <3> QED
      BY <2>4, <2>5, <3>1, <3>2, <3>3 DEF Server, adc_config_post
  <2> QED
    BY <2>3, <2>4, <2>5 DEF AnalogNext
<1> QED
  BY <1>1, <1>2, PTL DEF AnalogSpec

(* The numbers among the constants. *)
LEMMA Numbers ==
  /\ UINT32_MAX \in Nat /\ UINT16_MAX \in Nat /\ UINT8_MAX \in Nat
  /\ AVG_CUTOFF_FACTOR \in Nat \ {0}
  /\ \A l \in Levels : l \in Nat /\ l * AVG_CUTOFF_FACTOR < UINT32_MAX
<1>1. {UINT32_MAX, INT_MAX, UINT16_MAX, UINT8_MAX} \cup Levels \cup Thresholds \subseteq Nat
  BY AnalogAssumption
<1>2. UINT32_MAX \in Nat /\ UINT16_MAX \in Nat /\ UINT8_MAX \in Nat
      /\ Levels \subseteq Nat
  BY <1>1
<1>3. AVG_CUTOFF_FACTOR \in Nat \ {0} /\ \A l \in Levels : l * AVG_CUTOFF_FACTOR < UINT32_MAX
  BY AnalogAssumption
<1> QED
  BY <1>2, <1>3

(* Between the two accesses of the thread, what it has read is no less     *)
(* than the presses since: a reset in between only lowers them.            *)
CountInv ==
  /\ {loaded, events} \subseteq 0..UINT16_MAX /\ seen \in Nat /\ wrapped \in BOOLEAN
  /\ AllReported
  /\ ~wrapped /\ pc = "store" => seen <= loaded

(* Counting up wraps around only at the limit.                             *)
LEMMA Cut ==
  ASSUME NEW n \in Nat, NEW m \in Nat
  PROVE  n % (m + 1) \in 0..m /\ (n <= m => n % (m + 1) = n)
  OBVIOUS

(* No press since the last answer is missing in the counter, although the  *)
(* thread loads and stores it in two steps and answers reset it without a  *)
(* lock, as long as the counter has not wrapped around since, whatever its *)
(* width is.                                                               *)
THEOREM AllReportedHolds == AnalogSpec => []AllReported
<1> USE DEF CountInv, AllReported
<1>1. AnalogInit => CountInv
  <2> SUFFICES ASSUME AnalogInit PROVE CountInv
    OBVIOUS
  <2>1. wrapped \in BOOLEAN /\ pc # "store"
    BY DEF AnalogInit
  <2>2. {loaded, events} \subseteq 0..UINT16_MAX /\ seen \in Nat /\ seen <= events
    BY Numbers DEF AnalogInit
  <2> QED
    BY <2>1, <2>2
<1>2. CountInv /\ [AnalogNext]_analog_vars => CountInv'
  <2> SUFFICES ASSUME CountInv, [AnalogNext]_analog_vars PROVE CountInv'
    OBVIOUS
  <2>1. CASE UNCHANGED <<loaded, events, seen, wrapped>> /\ (pc' = "store" => pc = "store")
    BY <2>1
  <2>2. CASE Sample
    <3> DEFINE a == Average(avg, level)
               p == IF prev_avg = UINT32_MAX THEN a ELSE prev_avg
    <3>1. CASE Detect(a, p)
      BY <2>2, <3>1 DEF Sample, Detect
    <3>2. CASE UNCHANGED <<pc, loaded>>
      BY <2>1, <2>2, <3>2 DEF Sample
    <3> QED
      BY <2>2, <3>1, <3>2 DEF Sample, Steady
  <2>3. CASE Store
    <3>1. /\ events' = (loaded + 1) % (UINT16_MAX + 1) /\ loaded' = 0 /\ pc' = "read"
          /\ seen' = (IF wrapped' THEN 0 ELSE seen + 1)
          /\ wrapped' \in BOOLEAN /\ (~wrapped' => ~wrapped /\ loaded # UINT16_MAX)
      BY <2>3 DEF Store
    <3>2. loaded \in Nat /\ UINT16_MAX \in Nat /\ loaded + 1 \in Nat /\ loaded <= UINT16_MAX
      BY Numbers
    <3>3. events' \in 0..UINT16_MAX /\ (loaded # UINT16_MAX => events' = loaded + 1)
      BY <3>1, <3>2, Cut
    <3>4. ~wrapped' => seen <= loaded
      BY <2>3, <3>1 DEF Store
    <3> QED
      BY <3>1, <3>2, <3>3, <3>4
  <2>4. CASE adc_avg_get
    <3>1. wrapped' \in BOOLEAN /\ pc' = pc /\ loaded' = loaded
      BY <2>4 DEF adc_avg_get, get_events
    <3>2. events' \in 0..UINT16_MAX /\ seen' \in Nat /\ seen' = 0 /\ seen' <= events'
      BY <2>4, Numbers DEF adc_avg_get, get_events
    <3>3. loaded \in 0..UINT16_MAX /\ seen' <= loaded
      BY <3>2
    <3> QED
      BY <3>1, <3>2, <3>3
  <2>5. CASE adc_enable_post
    BY <2>5 DEF adc_enable_post, enable, counter
  <2>6. CASE Heartbeat \/ Light \/ UNCHANGED analog_vars
    BY <2>1, <2>6 DEF Heartbeat, Light, analog_vars, counter
  <2>7. ASSUME NEW c, NEW use, set_config(c, use) \/ ConfigOther(use)
        PROVE  CountInv'
    BY <2>1, <2>7 DEF set_config, ConfigOther, counter
  <2>8. CASE Server
    BY <2>4, <2>5, <2>7, <2>8
    DEF Server, adc_config_post, set_threshold
  <2> QED
    BY <2>2, <2>3, <2>6, <2>8 DEF AnalogNext
<1> QED
  BY <1>1, <1>2, PTL DEF AnalogSpec
(* A quotient, without the division. *)
LEMMA Quotient ==
  ASSUME NEW d \in Nat \ {0}, NEW x \in Nat, NEW q, q = x \div d
  PROVE  q \in Nat /\ d * q =< x /\ x < d * (q + 1)
<1>1. q \in Nat /\ q * d =< x /\ x < q * d + d
  OBVIOUS
<1>2. q * d = d * q /\ q * d + d = d * (q + 1)
  BY <1>1
<1> QED
  BY <1>1, <1>2

(* Factors can be compared by their products with a positive number.       *)
LEMMA Smaller ==
  ASSUME NEW d \in Nat \ {0}, NEW m \in Nat, NEW n \in Nat, d * m < d * (n + 1)
  PROVE  m =< n
<1> SUFFICES ASSUME m >= n + 1 PROVE FALSE
  OBVIOUS
<1> QED
  BY SMTT(30)

(* The weighted mean of two numbers lies between them, rounded down or not. *)
LEMMA Mean ==
  ASSUME NEW d \in Nat \ {0}, NEW a \in Nat, NEW s \in Nat, NEW lo \in Nat, NEW hi \in Nat,
         lo =< a, lo =< s, a =< hi, s =< hi,
         NEW q, q = ((d - 1) * a + s) \div d
  PROVE  q \in Nat /\ lo =< q /\ q =< hi
<1> DEFINE w == d - 1
           x == w * a + s
<1>1. w \in Nat /\ d = w + 1
  OBVIOUS
<1>2. w * lo =< w * a /\ w * a =< w * hi /\ {w * lo, w * a, w * hi} \subseteq Nat
  BY <1>1, SMTT(30)
<1>3. d * lo = w * lo + lo /\ d * hi = w * hi + hi
  BY <1>1, SMTT(30)
<1>4. x \in Nat /\ d * lo =< x /\ x =< d * hi
  <2> HIDE DEF w
  <2> QED
    BY <1>2, <1>3
<1>5. q \in Nat /\ d * q =< x /\ x < d * (q + 1)
  <2>1. q = x \div d
    OBVIOUS
  <2> HIDE DEF x
  <2> QED
    BY <1>4, <2>1, Quotient
<1>6. {d * lo, d * hi, d * q, d * (q + 1), d * (hi + 1)} \subseteq Int
  BY <1>5
<1>7. d * hi < d * (hi + 1)
  BY SMTT(30)
<1>8. d * lo < d * (q + 1) /\ d * q < d * (hi + 1)
  <2> HIDE DEF x
  <2> QED
    BY <1>4, <1>5, <1>6, <1>7
<1> QED
  BY <1>5, <1>8, Smaller

Between(lo, a, hi) == lo =< a /\ a =< hi

MeanInv ==
  /\ level \in Levels
  /\ avg = UINT32_MAX \/ avg \in Nat
  /\ AverageIsMean

(* A level has room for the special value above it. *)
LEMMA LevelFits ==
  ASSUME NEW l \in Levels
  PROVE  l \in Nat /\ l < UINT32_MAX
<1>1. l \in Nat /\ UINT32_MAX \in Nat /\ AVG_CUTOFF_FACTOR \in Nat \ {0}
  BY Numbers
<1>2. l * AVG_CUTOFF_FACTOR < UINT32_MAX
  BY Numbers
<1>3. l =< l * AVG_CUTOFF_FACTOR
  BY <1>1, SMTT(30)
<1> QED
  BY <1>1, <1>2, <1>3

(* The next average lies between levels if this one does. *)
LEMMA NextMean ==
  ASSUME NEW a, NEW s \in Levels,
         a = UINT32_MAX \/ (a \in Nat /\ \E lo, hi \in Levels : lo =< a /\ a =< hi)
  PROVE  LET r == Average(a, s) IN
         /\ r \in Nat /\ r < UINT32_MAX
         /\ \E lo, hi \in Levels : lo =< r /\ r =< hi
<1>1. s \in Nat /\ s < UINT32_MAX
  BY LevelFits
<1>2. ASSUME NEW r, r \in Nat, NEW lo \in Levels, NEW hi \in Levels, lo =< r, r =< hi
      PROVE  r < UINT32_MAX
  BY <1>2, LevelFits, Numbers
<1>3. CASE a = UINT32_MAX
  BY <1>1, <1>3 DEF Average
<1>4. CASE a # UINT32_MAX
  <2>1. PICK lo \in Levels, hi \in Levels : lo =< a /\ a =< hi
    BY <1>4
  <2>2. a \in Nat /\ lo \in Nat /\ hi \in Nat
    BY <1>4, LevelFits
  <2>3. CASE s > a * AVG_CUTOFF_FACTOR
    BY <1>2, <1>4, <2>1, <2>2, <2>3 DEF Average
  <2>4. CASE ~(s > a * AVG_CUTOFF_FACTOR)
    <3> DEFINE r == ((divider - 1) * a + s) \div divider
               low == IF s < lo THEN s ELSE lo
               high == IF s > hi THEN s ELSE hi
    <3>1. Average(a, s) = r
      BY <1>4, <2>4 DEF Average
    <3>2. low \in Levels /\ high \in Levels /\ low \in Nat /\ high \in Nat
          /\ low =< a /\ low =< s /\ a =< high /\ s =< high
      BY <1>1, <2>1, <2>2
    <3> HIDE DEF low, high
    <3>3. r \in Nat /\ low =< r /\ r =< high
      BY <1>1, <2>2, <3>2, Mean, DividerAssumption
    <3> HIDE DEF r
    <3> QED
      BY <1>2, <3>1, <3>2, <3>3
  <2> QED
    BY <2>3, <2>4
<1> QED
  BY <1>3, <1>4

(* The thread adds one level to the average at a time; all other steps     *)
(* leave it alone.                                                         *)
LEMMA MeanNext == MeanInv /\ [AnalogNext]_analog_vars => MeanInv'
<1> SUFFICES ASSUME MeanInv, [AnalogNext]_analog_vars PROVE MeanInv'
  OBVIOUS
<1> USE DEF MeanInv
<1>1. CASE UNCHANGED <<level, avg>>
  BY <1>1 DEF AverageIsMean
<1>2. CASE Sample
  <2> DEFINE r == Average(avg, level)
  <2>1. avg' = r /\ level' = level
    BY <1>2 DEF Sample
  <2>2. r \in Nat /\ \E lo, hi \in Levels : lo =< r /\ r =< hi
    BY NextMean DEF AverageIsMean
  <2> HIDE DEF r
  <2> QED
    BY <2>1, <2>2 DEF AverageIsMean
<1>3. CASE Light
  BY <1>3 DEF Light, detector, AverageIsMean
<1>4. ASSUME NEW c, NEW use, set_config(c, use) \/ ConfigOther(use)
      PROVE  UNCHANGED <<level, avg>>
  BY <1>4 DEF set_config, ConfigOther, detector
<1>5. CASE Server
  BY <1>1, <1>4, <1>5
  DEF Server, adc_config_post, set_threshold, adc_enable_post, adc_avg_get, detector
<1>6. CASE Store \/ Heartbeat \/ UNCHANGED analog_vars
  BY <1>1, <1>6 DEF Store, Heartbeat, analog_vars, detector
<1> QED
  BY <1>2, <1>3, <1>5, <1>6 DEF AnalogNext

LEMMA MeanInit == AnalogInit => MeanInv
  BY DEF AnalogInit, MeanInv, AverageIsMean

(* The average stays between levels of the input, though it feeds back in  *)
(* integers for ever, for any weight and any cutoff.                       *)
THEOREM AverageIsMeanHolds == AnalogSpec => []AverageIsMean
<1>1. MeanInv => AverageIsMean
  BY DEF MeanInv, AverageIsMean
<1> QED
  BY MeanInit, MeanNext, <1>1, PTL DEF AnalogSpec

(* The rest of the type follows with it: an average is below the special   *)
(* value, and what clients send is cut to the widths of the code.          *)
AnalogInv == MeanInv /\ AnalogTypeOK

LEMMA MeanIsWord == MeanInv => avg \in 0..UINT32_MAX
<1> SUFFICES ASSUME MeanInv, avg # UINT32_MAX PROVE avg \in 0..UINT32_MAX
  BY Numbers DEF MeanInv
<1>1. PICK lo \in Levels, hi \in Levels : lo =< avg /\ avg =< hi
  BY DEF MeanInv, AverageIsMean
<1> QED
  BY <1>1, LevelFits, Numbers DEF MeanInv

LEMMA AnalogInitType == AnalogInit => AnalogTypeOK
<1> SUFFICES ASSUME AnalogInit PROVE AnalogTypeOK
  OBVIOUS
<1>1. Default \in Config
  BY AnalogAssumption
<1>2. /\ level \in Levels /\ cfg \in Config
      /\ last_change \in Change /\ pc \in {"off", "read", "store"}
      /\ analog_control \in BOOLEAN /\ led_ctrl_sem \in {0, 1}
      /\ hb \in {"beat", "test", "take", "wait"}
  BY <1>1 DEF AnalogInit, Change
<1>3. /\ {avg, prev_avg} \subseteq 0..UINT32_MAX
      /\ samples \in Nat /\ debouncing \in 0..UINT8_MAX
      /\ {loaded, events} \subseteq 0..UINT16_MAX /\ seen \in Nat
  BY Numbers DEF AnalogInit
<1>4. wrapped \in BOOLEAN
  BY DEF AnalogInit
<1> QED
  BY <1>2, <1>3, <1>4 DEF AnalogTypeOK

LEMMA ConfigIs ==
  ASSUME NEW c, NEW use, set_config(c, use),
         c.iters \in Nat, c.threshold \in Nat, c.debounce \in Nat
  PROVE  cfg' \in Config
<1>1. c.iters % (UINT16_MAX + 1) \in 0..UINT16_MAX /\ c.debounce % (UINT8_MAX + 1) \in 0..UINT8_MAX
  BY Cut, Numbers
<1> DEFINE i == c.iters % (UINT16_MAX + 1)
           t == c.threshold
           d == c.debounce % (UINT8_MAX + 1)
<1>2. cfg' = [iters |-> i, threshold |-> t, debounce |-> d]
  BY DEF set_config
<1>3. i \in 0..UINT16_MAX /\ t \in Nat /\ d \in 0..UINT8_MAX
  BY <1>1
<1> HIDE DEF i, t, d
<1> QED
  BY <1>2, <1>3 DEF Config

LEMMA LedType ==
  ASSUME AnalogTypeOK, NEW use, UseLed(use) \/ HbTest \/ HbTake
  PROVE  /\ analog_control' \in BOOLEAN /\ led_ctrl_sem' \in {0, 1}
         /\ hb' \in {"beat", "test", "take", "wait"}
  BY DEF AnalogTypeOK, UseLed, led_take_analog_control, led_release_analog_control, HbTest, HbTake

LEMMA SampleType == AnalogTypeOK /\ MeanInv /\ MeanInv' /\ Sample => AnalogTypeOK'
<1> SUFFICES ASSUME AnalogTypeOK, MeanInv, MeanInv', Sample PROVE AnalogTypeOK'
  OBVIOUS
<1> DEFINE a == Average(avg, level)
           p == IF prev_avg = UINT32_MAX THEN a ELSE prev_avg
<1>1. avg' = a /\ UNCHANGED <<level, cfg, events, seen, wrapped, analog_control, led_ctrl_sem, hb>>
  BY DEF Sample, led
<1>2. avg' \in 0..UINT32_MAX
  BY MeanIsWord, Numbers, NextMean, <1>1 DEF MeanInv, AverageIsMean
<1>3. p \in 0..UINT32_MAX
  BY <1>1, <1>2 DEF AnalogTypeOK
<1>4. samples' \in Nat
  BY DEF Sample, AnalogTypeOK
<1>5. /\ prev_avg' \in 0..UINT32_MAX /\ debouncing' \in 0..UINT8_MAX /\ last_change' \in Change
      /\ pc' \in {"off", "read", "store"} /\ loaded' \in 0..UINT16_MAX
  <2> HIDE DEF a, p
  <2>1. CASE Detect(a, p)
    BY <1>3, <2>1 DEF Detect, AnalogTypeOK, Change
  <2>2. CASE Steady(a, p)
    <3>1. prev_avg' \in 0..UINT32_MAX
      BY <1>1, <1>2, <2>2 DEF Steady
    <3>2. debouncing' = IF debouncing > 0 THEN debouncing - 1 ELSE 0
      BY <2>2 DEF Steady
    <3>3. debouncing \in 0..UINT8_MAX /\ UINT8_MAX \in Nat
      BY Numbers DEF AnalogTypeOK
    <3>4. debouncing' \in 0..UINT8_MAX
      BY <3>2, <3>3
    <3>5. UNCHANGED <<last_change, pc, loaded>>
      BY <2>2 DEF Steady
    <3> QED
      BY <3>1, <3>4, <3>5 DEF AnalogTypeOK
  <2>3. CASE prev_avg' = p /\ UNCHANGED <<debouncing, last_change, pc, loaded>>
    BY <1>3, <2>3 DEF AnalogTypeOK
  <2> QED
    BY <2>1, <2>2, <2>3 DEF Sample, a, p
<1> QED
  BY <1>1, <1>2, <1>4, <1>5 DEF AnalogTypeOK

LEMMA ServersType == AnalogTypeOK /\ Server => AnalogTypeOK'
<1> SUFFICES ASSUME AnalogTypeOK, Server PROVE AnalogTypeOK'
  OBVIOUS
<1> USE DEF AnalogTypeOK
<1>1. ASSUME NEW c, NEW use, set_config(c, use), cfg' \in Config PROVE AnalogTypeOK'
  BY <1>1, LedType DEF set_config, detector, counter
<1>2. ASSUME NEW c \in Configs, NEW use \in BOOLEAN, adc_config_post(c, use) PROVE AnalogTypeOK'
  <2>1. c \in [iters : Nat \cup {ABSENT}, threshold : Nat \cup {ABSENT},
               debounce : Nat \cup {ABSENT}]
    BY AnalogAssumption
  <2>2. c.iters \in Nat /\ c.threshold \in Nat /\ c.debounce \in Nat /\ set_config(c, use)
    BY <1>2, <2>1 DEF adc_config_post, Valid
  <2> QED
    BY <1>1, <2>2, ConfigIs
<1>3. ASSUME NEW t \in Thresholds, set_threshold(t) PROVE AnalogTypeOK'
  <2> DEFINE c == [cfg EXCEPT !.threshold = t]
  <2>1. t \in Nat
    BY AnalogAssumption
  <2>2. c.iters \in Nat /\ c.threshold \in Nat /\ c.debounce \in Nat
    <3>1. cfg \in [iters : 0..UINT16_MAX, threshold : Nat, debounce : 0..UINT8_MAX]
      BY DEF Config
    <3> HIDE DEF AnalogTypeOK
    <3>2. c = [iters |-> cfg.iters, threshold |-> t, debounce |-> cfg.debounce]
      BY <3>1
    <3>3. cfg.iters \in Nat /\ cfg.debounce \in Nat
      BY <3>1
    <3> HIDE DEF c
    <3> QED
      BY <2>1, <3>2, <3>3
  <2>3. set_config(c, FALSE)
    BY <1>3 DEF set_threshold
  <2> HIDE DEF c
  <2> QED
    BY <1>1, <2>2, <2>3, ConfigIs
<1>4. ASSUME NEW use \in BOOLEAN, ConfigOther(use) PROVE AnalogTypeOK'
  BY <1>4, LedType DEF ConfigOther, detector, counter
<1>5. CASE adc_enable_post
  BY <1>5 DEF adc_enable_post, enable, detector, counter, led
<1>6. CASE adc_avg_get
  <2>1. events' \in 0..UINT16_MAX /\ seen' \in Nat
    BY <1>6, Numbers DEF adc_avg_get, get_events
  <2>2. wrapped' \in BOOLEAN
    BY <1>6 DEF adc_avg_get, get_events
  <2> QED
    BY <1>6, <2>1, <2>2 DEF adc_avg_get, detector, led
<1> QED
  BY <1>2, <1>3, <1>4, <1>5, <1>6 DEF Server

(* The variables keep their types and widths: what clients send is cut to  *)
(* 16 and 8 bits, and the averages are those of 32 bits.                   *)
THEOREM AnalogTypeCorrect == AnalogSpec => []AnalogTypeOK
<1>1. AnalogInit => AnalogInv
  BY MeanInit, AnalogInitType DEF AnalogInv
<1>2. AnalogInv /\ [AnalogNext]_analog_vars => AnalogInv'
  <2> SUFFICES ASSUME AnalogInv, [AnalogNext]_analog_vars PROVE AnalogTypeOK'
    BY MeanNext DEF AnalogInv
  <2> USE DEF AnalogInv
  <2>1. CASE Sample
    BY <2>1, SampleType, MeanNext
  <2>2. CASE Store
    <3>1. events' \in 0..UINT16_MAX /\ seen' \in Nat /\ wrapped' \in BOOLEAN
      <4>1. loaded + 1 \in Nat /\ seen \in Nat
        BY DEF AnalogTypeOK
      <4> QED
        BY <2>2, <4>1, Cut, Numbers DEF Store
    <3>2. debouncing' \in 0..UINT8_MAX
      BY <2>2 DEF Store, AnalogTypeOK, Config
    <3>3. prev_avg' \in 0..UINT32_MAX /\ loaded' \in 0..UINT16_MAX /\ pc' = "read"
      BY <2>2, Numbers DEF Store, AnalogTypeOK
    <3> QED
      BY <2>2, <3>1, <3>2, <3>3 DEF Store, AnalogTypeOK, led
  <2>3. CASE Heartbeat
    BY <2>3, LedType DEF Heartbeat, AnalogTypeOK, detector, counter
  <2>4. CASE Light \/ UNCHANGED analog_vars
    BY <2>4 DEF Light, AnalogTypeOK, analog_vars, detector, counter, led
  <2> QED
    BY <2>1, <2>2, <2>3, <2>4, ServersType DEF AnalogNext
<1> QED
  BY <1>1, <1>2, PTL DEF AnalogSpec, AnalogInv
=============================================================================
