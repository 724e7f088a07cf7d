------------------------ MODULE Notification_proofs ------------------------
(***************************************************************************)
(* Proofs about the projector detector, for any number of outputs and any  *)
(* labels: whatever the order of flash writes, wakeups, discoveries and    *)
(* restarts, provisioning ends with exactly one target for each label, and *)
(* with no address of the device that had a label before.                  *)
(***************************************************************************)
EXTENDS Notification, TLAPS

LabelTypes  == Labels \cup {EMPTY}
PointerType == Outs \cup {NULL}
EntryType   == [name: PointerType, addr: Labels \cup {NULL}]
CoapType    == [pc: {"idle", "set", "save", "add", "reset", "clear", "readd"},
                i: Outs]
OutType     == [pc: {"wait", "read", "send"}, i: Outs, target: PointerType]

TablesTyped == ntf_targets \in [Outs -> PointerType] /\ entries \in [Outs -> EntryType]

Typed ==
  /\ prj_enabled \in BOOLEAN /\ ntf_out_sem \in {0, 1} /\ paused \in BOOLEAN
  /\ out_labels \in [Outs -> LabelTypes] /\ stored \in [Outs -> LabelTypes]
  /\ TablesTyped
  /\ coap \in CoapType
  /\ out \in OutType /\ (out.pc = "send" => out.target # NULL)
  /\ heard \in [Labels -> BOOLEAN]

LEMMA ZeroIsOut == 0 \in Outs
  BY NotificationAssumption DEF Outs

-----------------------------------------------------------------------------
(* Operators. *)

LEMMA AddIsTyped ==
  ASSUME TablesTyped, NEW p \in Outs, notification_add_target(p)
  PROVE  TablesTyped'
<1>1. CASE UNCHANGED tables
  BY <1>1 DEF TablesTyped, tables
<1>2. CASE ~UNCHANGED tables
  <2>1. PICK j \in Outs, e \in Outs :
           /\ ntf_targets' = [ntf_targets EXCEPT ![j] = p]
           /\ entries' = [entries EXCEPT ![e].name = p]
    BY <1>2 DEF notification_add_target, Lowest
  <2> QED
    BY <2>1 DEF TablesTyped, PointerType, EntryType
<1> QED
  BY <1>1, <1>2

LEMMA AddLabelIsTyped ==
  ASSUME TablesTyped, coap.i \in Outs, AddLabel PROVE TablesTyped'
  BY AddIsTyped DEF AddLabel, TablesTyped, tables

LEMMA NextOutIsTyped ==
  ASSUME coap \in CoapType,
         NEW again \in {"idle", "set", "save", "add", "reset", "clear", "readd"},
         NEW then \in {"idle", "set", "save", "add", "reset", "clear", "readd"},
         NextOut(again, then)
  PROVE  /\ coap' \in CoapType
         /\ \/ coap.i + 1 < N /\ coap'.pc = again /\ coap'.i = coap.i + 1
            \/ coap.i + 1 = N /\ coap'.pc = then /\ coap'.i = 0
<1>1. coap.i \in Outs
  BY DEF CoapType
<1>2. CASE coap.i + 1 < N
  BY <1>1, <1>2, NotificationAssumption DEF NextOut, CoapType, Outs
<1>3. CASE ~(coap.i + 1 < N)
  BY <1>1, <1>3, ZeroIsOut, NotificationAssumption DEF NextOut, CoapType, Outs
<1> QED
  BY <1>2, <1>3

LEMMA NextTargetIsTyped ==
  ASSUME out \in OutType, NextTarget
  PROVE  out' \in OutType /\ out'.pc # "send"
<1>1. out.i \in Outs
  BY DEF OutType
<1>2. CASE out.i + 1 < N
  BY <1>1, <1>2, NotificationAssumption DEF NextTarget, OutType, PointerType, Outs
<1>3. CASE ~(out.i + 1 < N)
  BY <1>3, ZeroIsOut DEF NextTarget, OutType, PointerType, Waiting
<1> QED
  BY <1>2, <1>3

-----------------------------------------------------------------------------
(* Types. *)

LEMMA TypeInit == Init => Typed
<1> SUFFICES ASSUME Init PROVE Typed
  OBVIOUS
<1>1. TablesTyped
  BY DEF Init, TablesTyped, PointerType, EntryType, Free
<1>2. coap \in CoapType /\ out \in OutType /\ out.pc # "send"
  BY ZeroIsOut DEF Init, CoapType, OutType, PointerType, Idle, Waiting
<1>3. prj_enabled \in BOOLEAN /\ paused \in BOOLEAN
  BY Zenon DEF Init
<1>4. /\ out_labels \in [Outs -> LabelTypes] /\ stored \in [Outs -> LabelTypes]
      /\ heard \in [Labels -> BOOLEAN] /\ ntf_out_sem \in {0, 1}
  BY DEF Init, LabelTypes
<1> QED
  BY <1>1, <1>2, <1>3, <1>4 DEF Typed

LEMMA TypeNext == Typed /\ [Next]_vars => Typed'
<1> SUFFICES ASSUME Typed, [Next]_vars PROVE Typed'
  OBVIOUS
<1> USE DEF state, labels, tables
<1>1. TablesTyped /\ coap \in CoapType /\ coap.i \in Outs /\ out \in OutType
  BY DEF Typed, CoapType
<1>2. CASE Edge
  <2>1. prj_enabled' \in BOOLEAN /\ ntf_out_sem' = 1
    BY <1>2, Zenon DEF Edge, notification_set_prj_state
  <2> QED
    BY <1>1, <1>2, <2>1 DEF Edge, Typed, TablesTyped
<1>3. CASE FotaStart \/ FotaEnd
  <2>1. paused' \in BOOLEAN
    BY <1>3, Zenon DEF FotaStart, FotaEnd
  <2>2. UNCHANGED <<state, labels, tables, coap, out, heard>>
    BY <1>3, Zenon DEF FotaStart, FotaEnd
  <2> QED
    BY <2>1, <2>2 DEF Typed, TablesTyped
<1>4. CASE Reboot
  <2>1. prj_enabled' \in BOOLEAN /\ paused' \in BOOLEAN
    BY <1>4, Zenon DEF Reboot, Boot
  <2>2. TablesTyped'
    <3>1. PICK t \in [Outs -> {p \in Outs : stored[p] # EMPTY} \cup {NULL}] :
             /\ ntf_targets' = t
             /\ entries' = [e \in Outs |-> [name |-> t[e], addr |-> NULL]]
      BY <1>4 DEF Reboot, Boot
    <3>2. t \in [Outs -> PointerType]
      BY <3>1 DEF PointerType
    <3> QED
      BY <3>1, <3>2 DEF TablesTyped, EntryType
  <2>3. coap' \in CoapType /\ out' \in OutType /\ out'.pc # "send"
    BY <1>4, ZeroIsOut DEF Reboot, Boot, CoapType, OutType, PointerType, Idle, Waiting
  <2>4. ntf_out_sem' = 1 /\ out_labels' = stored /\ UNCHANGED <<stored, heard>>
    BY <1>4 DEF Reboot, Boot
  <2> QED
    BY <2>1, <2>2, <2>3, <2>4 DEF Typed
<1>5. CASE PostProv
  <2>1. coap' \in CoapType
    BY <1>5, ZeroIsOut DEF PostProv, CoapType
  <2> QED
    BY <1>5, <2>1 DEF PostProv, Typed, TablesTyped
<1>6. CASE prov_set_out_label
  <2>1. coap' \in CoapType
    BY <1>1, <1>6, NextOutIsTyped DEF prov_set_out_label
  <2>2. out_labels' \in [Outs -> LabelTypes]
    BY <1>1, <1>6 DEF prov_set_out_label, Typed, LabelTypes
  <2> QED
    BY <1>6, <2>1, <2>2 DEF prov_set_out_label, Typed, TablesTyped
<1>7. CASE Save
  <2>1. coap' \in CoapType /\ stored' \in [Outs -> LabelTypes]
    BY <1>1, <1>7 DEF Save, CoapType, Typed
  <2> QED
    BY <1>7, <2>1 DEF Save, Typed, TablesTyped
<1>8. CASE Add \/ AddAgain
  <2>1. coap' \in CoapType
    BY <1>1, <1>8, NextOutIsTyped DEF Add, AddAgain
  <2>2. TablesTyped'
    BY <1>1, <1>8, AddLabelIsTyped DEF Add, AddAgain
  <2> QED
    BY <1>8, <2>1, <2>2 DEF Add, AddAgain, Typed
<1>9. CASE ResetTarget \/ ClearEntry
  <2>1. coap' \in CoapType
    BY <1>1, <1>9, NextOutIsTyped DEF ResetTarget, ClearEntry
  <2>2. TablesTyped'
    BY <1>1, <1>9 DEF ResetTarget, ClearEntry, TablesTyped, PointerType, EntryType, Free
  <2> QED
    BY <1>9, <2>1, <2>2 DEF ResetTarget, ClearEntry, Typed
<1>10. ASSUME NEW l \in Labels, Found(l) PROVE Typed'
  <2>1. TablesTyped'
    BY <1>1, <1>10 DEF Found, TablesTyped, EntryType
  <2> QED
    BY <1>10, <2>1 DEF Found, Typed
<1>11. ASSUME NEW e \in Outs, Expire(e) PROVE Typed'
  <2>1. TablesTyped'
    BY <1>1, <1>11 DEF Expire, TablesTyped, EntryType
  <2> QED
    BY <1>11, <2>1 DEF Expire, Typed
<1>12. CASE Wake
  <2>1. out' \in OutType /\ out'.pc # "send"
    BY <1>12, ZeroIsOut DEF Wake, OutType, PointerType, Waiting
  <2> QED
    BY <1>12, <2>1 DEF Wake, Typed, TablesTyped
<1>13. CASE ReadTarget
  <2>1. out' \in OutType /\ (out'.pc = "send" => out'.target # NULL)
    <3>1. CASE NextTarget
      BY <1>1, <3>1, NextTargetIsTyped
    <3>2. CASE ~NextTarget
      <4>1. /\ out' = [out EXCEPT !.pc = "send", !.target = ntf_targets[out.i]]
            /\ ntf_targets[out.i] # NULL
        BY <1>13, <3>2 DEF ReadTarget
      <4> QED
        BY <1>1, <4>1 DEF OutType, TablesTyped
    <3> QED
      BY <3>1, <3>2
  <2> QED
    BY <1>13, <2>1 DEF ReadTarget, Typed, TablesTyped
<1>14. CASE Send
  <2>1. out' \in OutType /\ out'.pc # "send"
    BY <1>1, <1>14, NextTargetIsTyped DEF Send
  <2>2. heard' \in [Labels -> BOOLEAN]
    BY <1>14 DEF Send, SendTo, Typed
  <2> QED
    BY <1>14, <2>1, <2>2 DEF Send, SendTo, Typed, TablesTyped
<1>15. CASE UNCHANGED vars
  BY <1>15 DEF vars, Typed, TablesTyped
<1> QED
  BY <1>2, <1>3, <1>4, <1>5, <1>6, <1>7, <1>8, <1>9, <1>10, <1>11, <1>12, <1>13,
     <1>14, <1>15
  DEF Next, Disturbance, CoapStep, prov_store, out_thread_process

(* Every variable keeps its type, and the output thread never follows a    *)
(* pointer that is NULL.                                                   *)
THEOREM TypeCorrect == Spec => []TypeOK
<1>1. Typed => TypeOK
  BY DEF Typed, TypeOK, TablesTyped, LabelTypes, PointerType, EntryType, CoapType,
     OutType
<1> QED
  BY TypeInit, TypeNext, <1>1, PTL DEF Spec

-----------------------------------------------------------------------------
(* No address of another device. *)

Right(e) == entries[e].addr # NULL => Named(e, entries[e].addr)

(* A free entry has no address, and while the table is emptied the entries *)
(* passed already are right.                                               *)
AddressInv ==
  /\ Typed
  /\ \A e \in Outs : entries[e].name = NULL => entries[e].addr = NULL
  /\ coap.pc \in {"idle", "readd"} => \A e \in Outs : Right(e)
  /\ coap.pc = "clear" => \A e \in Outs : e < coap.i => Right(e)

LEMMA AddressNext == AddressInv /\ [Next]_vars => AddressInv'
<1> SUFFICES ASSUME AddressInv, [Next]_vars PROVE AddressInv'
  OBVIOUS
<1> USE DEF state, labels
<1>1. Typed' /\ TablesTyped /\ coap \in CoapType /\ coap.i \in Outs
  BY TypeNext DEF AddressInv, Typed, CoapType
<1>2. CASE UNCHANGED <<out_labels, tables, coap>>
  BY <1>1, <1>2 DEF AddressInv, Right, Named, tables
<1>3. CASE Reboot
  <2>1. PICK t \in [Outs -> {p \in Outs : stored[p] # EMPTY} \cup {NULL}] :
             entries' = [e \in Outs |-> [name |-> t[e], addr |-> NULL]]
    BY <1>3 DEF Reboot, Boot
  <2>2. coap'.pc = "idle" /\ \A e \in Outs : entries'[e].addr = NULL
    BY <1>3, <2>1 DEF Reboot, Boot, Idle
  <2> QED
    BY <1>1, <2>2 DEF AddressInv, Right
<1>4. CASE PostProv \/ prov_set_out_label \/ Save
  <2>1. coap'.pc \in {"set", "save", "add"} /\ UNCHANGED entries
    BY <1>1, <1>4, NextOutIsTyped DEF PostProv, prov_set_out_label, Save, tables,
       CoapType
  <2> QED
    BY <1>1, <2>1 DEF AddressInv
<1>5. CASE Add \/ AddAgain
  <2>1. CASE UNCHANGED tables
    <3>1. \/ coap'.pc \in {"save", "reset"}
          \/ coap.pc = "readd" /\ coap'.pc \in {"readd", "idle"}
      BY <1>1, <1>5, NextOutIsTyped DEF Add, AddAgain
    <3>2. UNCHANGED <<out_labels, entries>>
      BY <1>5, <2>1 DEF Add, AddAgain, tables
    <3> QED
      BY <1>1, <3>1, <3>2 DEF AddressInv, Right, Named
  <2>2. CASE ~UNCHANGED tables
    <3>1. PICK e \in Outs : /\ entries[e].name = NULL
                            /\ entries' = [entries EXCEPT ![e].name = coap.i]
      BY <1>5, <2>2 DEF Add, AddAgain, AddLabel, notification_add_target, Lowest
    <3>2. \A f \in Outs : /\ entries'[f].addr = entries[f].addr
                          /\ f # e => entries'[f].name = entries[f].name
      BY <1>1, <3>1 DEF TablesTyped, EntryType
    <3>3. entries'[e].name = coap.i /\ entries'[e].addr = NULL
      BY <1>1, <3>1, <3>2 DEF TablesTyped, EntryType, AddressInv
    <3>4. coap.i # NULL
      BY <1>1, NotificationAssumption DEF Outs
    <3>5. \/ coap'.pc \in {"save", "reset"}
          \/ coap.pc = "readd" /\ coap'.pc \in {"readd", "idle"}
      BY <1>1, <1>5, NextOutIsTyped DEF Add, AddAgain
    <3>6. UNCHANGED out_labels
      BY <1>5 DEF Add, AddAgain
    <3> QED
      BY <1>1, <3>2, <3>3, <3>4, <3>5, <3>6 DEF AddressInv, Right, Named
  <2> QED
    BY <2>1, <2>2
<1>6. CASE ResetTarget
  <2>1. /\ UNCHANGED entries
        /\ coap'.pc = "reset" \/ (coap'.pc = "clear" /\ coap'.i = 0)
    BY <1>1, <1>6, NextOutIsTyped DEF ResetTarget
  <2>2. \A e \in Outs : ~(e < 0)
    BY NotificationAssumption DEF Outs
  <2> QED
    BY <1>1, <2>1, <2>2 DEF AddressInv
<1>7. CASE ClearEntry
  <2>1. /\ coap.pc = "clear" /\ UNCHANGED out_labels
        /\ entries' = [entries EXCEPT ![coap.i] = Free]
    BY <1>7 DEF ClearEntry
  <2>2. entries'[coap.i] = Free /\ \A e \in Outs : e # coap.i => entries'[e] = entries[e]
    BY <1>1, <2>1 DEF TablesTyped
  <2>3. \A e \in Outs : e < coap.i + 1 => Right(e)'
    <3> SUFFICES ASSUME NEW e \in Outs, e < coap.i + 1 PROVE Right(e)'
      OBVIOUS
    <3>1. CASE e = coap.i
      BY <2>2, <3>1 DEF Right, Free
    <3>2. CASE e # coap.i
      <4>1. e < coap.i
        BY <1>1, <3>2, NotificationAssumption DEF Outs
      <4> QED
        BY <2>1, <2>2, <3>2, <4>1 DEF AddressInv, Right, Named
    <3> QED
      BY <3>1, <3>2
  <2>4. \/ coap'.pc = "clear" /\ coap'.i = coap.i + 1
        \/ coap'.pc = "readd" /\ coap.i + 1 = N
    BY <1>1, <1>7, NextOutIsTyped DEF ClearEntry
  <2>5. coap.i + 1 = N => \A e \in Outs : e < coap.i + 1
    BY NotificationAssumption DEF Outs
  <2> QED
    BY <1>1, <2>2, <2>3, <2>4, <2>5 DEF AddressInv, Free
<1>8. ASSUME NEW l \in Labels, Found(l) PROVE AddressInv'
  <2>1. PICK e \in Outs : Named(e, l) /\ entries' = [entries EXCEPT ![e].addr = l]
    BY <1>8 DEF Found, First
  <2>2. UNCHANGED <<out_labels, coap>>
    BY <1>8 DEF Found
  <2>3. \A f \in Outs : /\ entries'[f].name = entries[f].name
                        /\ f # e => entries'[f].addr = entries[f].addr
    BY <1>1, <2>1 DEF TablesTyped, EntryType
  <2>4. entries'[e].addr = l
    BY <1>1, <2>1 DEF TablesTyped, EntryType
  <2> QED
    BY <1>1, <2>1, <2>2, <2>3, <2>4 DEF AddressInv, Right, Named
<1>9. ASSUME NEW e \in Outs, Expire(e) PROVE AddressInv'
  <2>1. UNCHANGED <<out_labels, coap>>
    BY <1>9 DEF Expire
  <2>2. \A f \in Outs : /\ entries'[f].name = entries[f].name
                        /\ entries'[f].addr \in {entries[f].addr, NULL}
    BY <1>1, <1>9 DEF Expire, TablesTyped, EntryType
  <2> QED
    BY <1>1, <2>1, <2>2 DEF AddressInv, Right, Named
<1>10. CASE Edge \/ FotaStart \/ FotaEnd \/ Wake \/ ReadTarget \/ Send \/ UNCHANGED vars
  BY <1>2, <1>10 DEF Edge, FotaStart, FotaEnd, Wake, ReadTarget, Send, SendTo, vars
<1> QED
  BY <1>3, <1>4, <1>5, <1>6, <1>7, <1>8, <1>9, <1>10
  DEF Next, Disturbance, CoapStep, prov_store, out_thread_process

(* Labels change in place under the table of discovery, but no entry keeps *)
(* the address of the device that had its label before the request.        *)
THEOREM RightAddressHolds == Spec => []RightAddress
<1>1. Init => AddressInv
  <2> SUFFICES ASSUME Init PROVE AddressInv
    OBVIOUS
  <2>1. coap.pc = "idle" /\ \A e \in Outs : entries[e].addr = NULL
    BY DEF Init, Free, Idle
  <2> QED
    BY <2>1, TypeInit DEF AddressInv, Right
<1>2. AddressInv => RightAddress
  BY DEF AddressInv, RightAddress, Right
<1> QED
  BY <1>1, <1>2, AddressNext, PTL DEF Spec

-----------------------------------------------------------------------------
(* One target for each label. *)

HasTarget(label) ==
  \E j \in Outs : ntf_targets[j] # NULL /\ out_labels[ntf_targets[j]] = label

(* The tables agree, and hold no label twice. *)
Agree ==
  /\ \A j \in Outs : /\ entries[j].name = ntf_targets[j]
                     /\ ntf_targets[j] # NULL => out_labels[ntf_targets[j]] # EMPTY
  /\ \A j, k \in Outs :
       /\ ntf_targets[j] # NULL /\ ntf_targets[k] # NULL
       /\ out_labels[ntf_targets[j]] = out_labels[ntf_targets[k]]
       => j = k

(* The labels below i have targets, and no more than i slots are used.     *)
Covered(i) == \A p \in Outs : p < i /\ out_labels[p] # EMPTY => HasTarget(out_labels[p])
Used(m) == \A j \in Outs : ntf_targets[j] # NULL <=> j < m
Filled(i) == Agree /\ Covered(i) /\ \E m \in 0..i : Used(m)

StoreInv ==
  /\ coap.pc = "save" => \A p \in Outs : p < coap.i => stored[p] = out_labels[p]
  /\ coap.pc = "add" => \A p \in Outs : p <= coap.i => stored[p] = out_labels[p]
  /\ coap.pc \in {"reset", "clear", "readd", "idle"} => stored = out_labels

TargetInv ==
  /\ coap.pc = "reset" => \A j \in Outs : j < coap.i => ntf_targets[j] = NULL
  /\ coap.pc = "clear" => /\ \A j \in Outs : ntf_targets[j] = NULL
                          /\ \A j \in Outs : j < coap.i => entries[j].name = NULL
  /\ coap.pc = "readd" => Filled(coap.i)
  /\ coap.pc = "idle" => Agree /\ Covered(N)

ProvInv == Typed /\ StoreInv /\ TargetInv

(* Adding a label fills the next slot of both tables, or finds it there.   *)
LEMMA AddLabelFills ==
  ASSUME Typed, NEW i \in Outs, coap.i = i, Filled(i), AddLabel, UNCHANGED out_labels
  PROVE  Filled(i + 1)'
<1>1. /\ i \in Nat /\ i < N /\ N \in Nat /\ TablesTyped
      /\ \A p \in Outs : p \in Nat /\ (p < i + 1 => p < i \/ p = i)
  BY NotificationAssumption DEF Outs, Typed
<1>2. PICK m \in 0..i : Used(m)
  BY DEF Filled
<1>3. /\ m \in Outs /\ m \in 0..(i + 1) /\ m + 1 \in 0..(i + 1) /\ m \in Nat
      /\ ~(m < m)
  BY <1>1 DEF Outs
<1>6. \A j \in Outs : entries[j].name = ntf_targets[j]
  BY DEF Filled, Agree
<1>4. CASE UNCHANGED tables /\ (out_labels[i] # EMPTY => HasTarget(out_labels[i]))
  <2>1. Covered(i + 1)
    BY <1>1, <1>4 DEF Filled, Covered
  <2>2. Agree' /\ Covered(i + 1)' /\ Used(m)'
    BY <1>2, <1>4, <2>1 DEF Filled, Agree, Covered, HasTarget, Used, tables
  <2> QED
    BY <1>3, <2>2 DEF Filled
<1>5. CASE ~(UNCHANGED tables /\ (out_labels[i] # EMPTY => HasTarget(out_labels[i])))
  <2> DEFINE slots == {j \in Outs : ntf_targets[j] = NULL}
             free  == {e \in Outs : entries[e].name = NULL}
  <2>1. m \in slots /\ m \in free
    BY <1>2, <1>3, <1>6, Zenon DEF Used
  <2>2. out_labels[i] # EMPTY /\ notification_add_target(i)
    BY <1>5 DEF AddLabel
  <2>3. ~\E e \in Outs : Named(e, out_labels[i])
    <3> SUFFICES ASSUME NEW e \in Outs, Named(e, out_labels[i]) PROVE FALSE
      OBVIOUS
    <3>1. HasTarget(out_labels[i])
      BY <1>6, Zenon DEF Named, HasTarget
    <3>2. UNCHANGED tables
      BY <2>2 DEF notification_add_target
    <3> QED
      BY <1>5, <3>1, <3>2
  <2>4. PICK j \in Lowest(slots), e \in Lowest(free) :
           /\ ntf_targets' = [ntf_targets EXCEPT ![j] = i]
           /\ entries' = [entries EXCEPT ![e].name = i]
    BY <2>1, <2>2, <2>3 DEF notification_add_target
  <2>5. j = m /\ e = m
    <3>1. j \in slots /\ j <= m /\ e \in free /\ e <= m
      BY <2>1, <2>4 DEF Lowest
    <3>2. ~(j < m) /\ ~(e < m)
      BY <1>2, <1>6, <3>1, Zenon DEF Used
    <3>3. j \in Nat /\ e \in Nat
      BY <1>1, <3>1
    <3> HIDE DEF slots, free
    <3> QED
      BY <1>3, <3>1, <3>2, <3>3
  <2>6. /\ ntf_targets'[m] = i /\ entries'[m].name = i
        /\ \A k \in Outs : k # m => /\ ntf_targets'[k] = ntf_targets[k]
                                    /\ entries'[k].name = entries[k].name
    BY <1>1, <1>3, <2>4, <2>5 DEF TablesTyped, EntryType
  <2>7. i # NULL /\ ntf_targets[m] = NULL
    BY <2>1, NotificationAssumption DEF Outs
  <2>8. \A k \in Outs : ntf_targets[k] # NULL => out_labels[ntf_targets[k]] # out_labels[i]
    BY <1>6, <2>3, Zenon DEF Named
  <2>9. Agree'
    BY <1>3, <2>2, <2>6, <2>7, <2>8 DEF Filled, Agree
  <2>10. Covered(i + 1)'
    <3> SUFFICES ASSUME NEW p \in Outs, p < i + 1, out_labels[p] # EMPTY
                 PROVE  HasTarget(out_labels[p])'
      BY DEF Covered
    <3>1. CASE p = i
      BY <1>3, <2>6, <2>7, <3>1 DEF HasTarget
    <3>2. CASE p # i
      <4>1. PICK k \in Outs : ntf_targets[k] # NULL /\ out_labels[ntf_targets[k]] = out_labels[p]
        BY <1>1, <3>2 DEF Filled, Covered, HasTarget
      <4> QED
        BY <2>6, <2>7, <4>1 DEF HasTarget
    <3> QED
      BY <3>1, <3>2
  <2>11. Used(m + 1)'
    <3> SUFFICES ASSUME NEW k \in Outs PROVE ntf_targets'[k] # NULL <=> k < m + 1
      BY DEF Used
    <3>1. k < m + 1 <=> k < m \/ k = m
      BY <1>1, <1>3
    <3> QED
      BY <1>2, <2>6, <2>7, <3>1 DEF Used
  <2> QED
    BY <1>3, <2>9, <2>10, <2>11 DEF Filled
<1> QED
  BY <1>4, <1>5

LEMMA BootFills == Reboot => Agree' /\ Covered(N)'
<1> SUFFICES ASSUME Reboot PROVE Agree' /\ Covered(N)'
  OBVIOUS
<1>1. PICK t \in [Outs -> {p \in Outs : stored[p] # EMPTY} \cup {NULL}] :
         /\ Loaded(t, stored)
         /\ ntf_targets' = t
         /\ entries' = [e \in Outs |-> [name |-> t[e], addr |-> NULL]]
  BY DEF Reboot, Boot
<1>2. out_labels' = stored
  BY DEF Reboot, Boot
<1>3. Covered(N)'
  BY <1>1, <1>2 DEF Covered, HasTarget, Loaded
<1>4. ASSUME NEW j \in Outs, NEW k \in Outs, j < k, t[j] # NULL, t[k] # NULL
      PROVE  stored[t[j]] # stored[t[k]]
  BY <1>1, <1>4 DEF Loaded
<1>5. \A j \in Outs : t[j] # NULL => stored[t[j]] # EMPTY
  BY <1>1
<1>6. \A j, k \in Outs : j # k => j < k \/ k < j
  BY NotificationAssumption DEF Outs
<1>7. \A j, k \in Outs : t[j] # NULL /\ t[k] # NULL /\ stored[t[j]] = stored[t[k]] => j = k
  BY <1>4, <1>6
<1>8. Agree'
  BY <1>1, <1>2, <1>5, <1>7 DEF Agree
<1> QED
  BY <1>3, <1>8

LEMMA StoreNext == ProvInv /\ [Next]_vars => StoreInv'
<1> SUFFICES ASSUME ProvInv, [Next]_vars PROVE StoreInv'
  OBVIOUS
<1> USE DEF labels
<1>1. /\ coap \in CoapType /\ coap.i \in Outs
      /\ stored \in [Outs -> LabelTypes] /\ out_labels \in [Outs -> LabelTypes]
  BY DEF ProvInv, Typed, CoapType
<1>2. /\ N \in Nat
      /\ \A p \in Outs : p \in Nat /\ p < N /\ ~(p < 0) /\ (coap.i + 1 = N => p <= coap.i)
                        /\ (p < coap.i + 1 => p <= coap.i)
  BY <1>1, NotificationAssumption DEF Outs
<1>3. CASE UNCHANGED <<labels, coap>>
  BY <1>3 DEF ProvInv, StoreInv
<1>4. CASE Reboot
  BY <1>4 DEF Reboot, Boot, Idle, StoreInv
<1>5. CASE PostProv
  BY <1>5 DEF PostProv, StoreInv
<1>6. CASE prov_set_out_label
  <2>1. coap'.pc = "set" \/ (coap'.pc = "save" /\ coap'.i = 0)
    BY <1>1, <1>6, NextOutIsTyped DEF prov_set_out_label
  <2> QED
    BY <1>2, <2>1 DEF StoreInv
<1>7. CASE Save
  <2>1. /\ coap.pc = "save" /\ coap'.pc = "add" /\ coap'.i = coap.i
        /\ UNCHANGED out_labels
        /\ stored' = [stored EXCEPT ![coap.i] = out_labels[coap.i]]
    BY <1>1, <1>7 DEF Save, CoapType
  <2>2. ASSUME NEW p \in Outs, p <= coap.i PROVE stored'[p] = out_labels[p]
    <3>1. CASE p = coap.i
      BY <1>1, <2>1, <3>1
    <3>2. CASE p # coap.i
      <4>1. p < coap.i
        BY <1>1, <1>2, <2>2, <3>2
      <4> QED
        BY <1>1, <2>1, <3>2, <4>1 DEF ProvInv, StoreInv
    <3> QED
      BY <3>1, <3>2
  <2> QED
    BY <2>1, <2>2 DEF StoreInv
<1>8. CASE Add
  <2>1. /\ coap.pc = "add" /\ UNCHANGED <<out_labels, stored>>
        /\ \/ coap'.pc = "save" /\ coap'.i = coap.i + 1
           \/ coap'.pc = "reset" /\ coap.i + 1 = N
    BY <1>1, <1>8, NextOutIsTyped DEF Add
  <2>2. \A p \in Outs : p <= coap.i => stored[p] = out_labels[p]
    BY <2>1 DEF ProvInv, StoreInv
  <2>3. coap.i + 1 = N => stored = out_labels
    BY <1>1, <1>2, <2>2
  <2> QED
    BY <1>2, <2>1, <2>2, <2>3 DEF StoreInv
<1>9. CASE ResetTarget \/ ClearEntry \/ AddAgain
  <2>1. /\ UNCHANGED <<out_labels, stored>>
        /\ coap.pc \in {"reset", "clear", "readd"}
        /\ coap'.pc \in {"reset", "clear", "readd", "idle"}
    BY <1>1, <1>9, NextOutIsTyped DEF ResetTarget, ClearEntry, AddAgain
  <2> QED
    BY <2>1 DEF ProvInv, StoreInv
<1>10. ASSUME NEW l \in Labels, Found(l) PROVE StoreInv'
  BY <1>3, <1>10 DEF Found
<1>11. ASSUME NEW e \in Outs, Expire(e) PROVE StoreInv'
  BY <1>3, <1>11 DEF Expire
<1>12. CASE Edge \/ FotaStart \/ FotaEnd \/ Wake \/ ReadTarget \/ Send \/ UNCHANGED vars
  BY <1>3, <1>12 DEF Edge, FotaStart, FotaEnd, Wake, ReadTarget, Send, SendTo, vars
<1> QED
  BY <1>4, <1>5, <1>6, <1>7, <1>8, <1>9, <1>10, <1>11, <1>12
  DEF Next, Disturbance, CoapStep, prov_store, out_thread_process

LEMMA TargetNext == ProvInv /\ [Next]_vars => TargetInv'
<1> SUFFICES ASSUME ProvInv, [Next]_vars PROVE TargetInv'
  OBVIOUS
<1>1. coap \in CoapType /\ coap.i \in Outs /\ TablesTyped /\ Typed /\ TargetInv
  BY DEF ProvInv, Typed, CoapType
<1>2. /\ N \in Nat
      /\ \A p \in Outs : p \in Nat /\ p < N /\ ~(p < 0)
                        /\ (p < coap.i + 1 => p < coap.i \/ p = coap.i)
  BY <1>1, NotificationAssumption DEF Outs
<1>3. CASE /\ UNCHANGED <<out_labels, ntf_targets, coap>>
           /\ \A j \in Outs : entries'[j].name = entries[j].name
  BY <1>1, <1>3 DEF TargetInv, Filled, Agree, Covered, HasTarget, Used
<1>4. CASE Reboot
  <2>1. coap'.pc = "idle"
    BY <1>4 DEF Reboot, Boot, Idle
  <2> QED
    BY <1>4, <2>1, BootFills DEF TargetInv
<1>5. CASE PostProv \/ prov_set_out_label \/ Save
  <2>1. coap'.pc \in {"set", "save", "add"}
    BY <1>1, <1>5, NextOutIsTyped DEF PostProv, prov_set_out_label, Save, CoapType
  <2> QED
    BY <2>1 DEF TargetInv
<1>6. CASE Add
  <2>1. coap'.pc = "save" \/ (coap'.pc = "reset" /\ coap'.i = 0)
    BY <1>1, <1>6, NextOutIsTyped DEF Add
  <2> QED
    BY <1>2, <2>1 DEF TargetInv
<1>7. CASE ResetTarget
  <2>1. /\ coap.pc = "reset"
        /\ \/ coap'.pc = "reset" /\ coap'.i = coap.i + 1
           \/ coap'.pc = "clear" /\ coap'.i = 0 /\ coap.i + 1 = N
        /\ ntf_targets' = [ntf_targets EXCEPT ![coap.i] = NULL]
    BY <1>1, <1>7, NextOutIsTyped DEF ResetTarget
  <2>2. \A j \in Outs : j < coap.i + 1 => ntf_targets'[j] = NULL
    BY <1>1, <1>2, <2>1 DEF TargetInv, TablesTyped
  <2> QED
    BY <1>2, <2>1, <2>2 DEF TargetInv
<1>8. CASE ClearEntry
  <2>1. /\ coap.pc = "clear" /\ UNCHANGED ntf_targets
        /\ \/ coap'.pc = "clear" /\ coap'.i = coap.i + 1
           \/ coap'.pc = "readd" /\ coap'.i = 0 /\ coap.i + 1 = N
        /\ entries' = [entries EXCEPT ![coap.i] = Free]
    BY <1>1, <1>8, NextOutIsTyped DEF ClearEntry
  <2>2. \A j \in Outs : j < coap.i + 1 => entries'[j].name = NULL
    BY <1>1, <1>2, <2>1 DEF TargetInv, TablesTyped, Free
  <2>3. \A j \in Outs : ntf_targets'[j] = NULL
    BY <1>1, <2>1 DEF TargetInv
  <2>4. CASE coap.i + 1 = N
    <3>1. Agree' /\ Covered(0)' /\ Used(0)'
      BY <1>2, <2>2, <2>3, <2>4 DEF Agree, Covered, Used
    <3>2. Filled(0)'
      BY <3>1 DEF Filled
    <3> QED
      BY <1>2, <2>1, <2>4, <3>2, <2>2, <2>3 DEF TargetInv
  <2>5. CASE coap.i + 1 # N
    BY <2>1, <2>2, <2>3, <2>5 DEF TargetInv
  <2> QED
    BY <2>4, <2>5
<1>9. CASE AddAgain
  <2>1. /\ coap.pc = "readd" /\ AddLabel /\ UNCHANGED out_labels
        /\ \/ coap'.pc = "readd" /\ coap'.i = coap.i + 1
           \/ coap'.pc = "idle" /\ coap.i + 1 = N
    BY <1>1, <1>9, NextOutIsTyped DEF AddAgain, labels
  <2>2. Filled(coap.i)
    BY <1>1, <2>1 DEF TargetInv
  <2>3. \A i : i = coap.i => Filled(i + 1)'
    BY <1>1, <2>1, <2>2, AddLabelFills
  <2> QED
    BY <2>1, <2>3 DEF TargetInv, Filled
<1>10. ASSUME NEW l \in Labels, Found(l) PROVE TargetInv'
  <2>1. /\ UNCHANGED <<out_labels, ntf_targets, coap>>
        /\ \E e \in Outs : entries' = [entries EXCEPT ![e].addr = l]
    BY <1>10 DEF Found, First, labels
  <2> QED
    BY <1>1, <1>3, <2>1 DEF TablesTyped, EntryType
<1>11. ASSUME NEW e \in Outs, Expire(e) PROVE TargetInv'
  <2>1. /\ UNCHANGED <<out_labels, ntf_targets, coap>>
        /\ entries' = [entries EXCEPT ![e].addr = NULL]
    BY <1>11 DEF Expire, labels
  <2> QED
    BY <1>1, <1>3, <2>1 DEF TablesTyped, EntryType
<1>12. CASE Edge \/ FotaStart \/ FotaEnd \/ Wake \/ ReadTarget \/ Send \/ UNCHANGED vars
  <2>1. UNCHANGED <<out_labels, tables, coap>>
    BY <1>12 DEF Edge, FotaStart, FotaEnd, Wake, ReadTarget, Send, SendTo, vars,
                 labels
  <2> QED
    BY <1>3, <2>1 DEF tables
<1> QED
  BY <1>4, <1>5, <1>6, <1>7, <1>8, <1>9, <1>10, <1>11, <1>12
  DEF Next, Disturbance, CoapStep, prov_store, out_thread_process

(* Whatever was provisioned, in however many requests and with a restart   *)
(* in the middle of them: each label is stored, has exactly one target,    *)
(* and is searched for.                                                    *)
THEOREM OneTargetEachHolds == Spec => []OneTargetEach
<1>1. Init => ProvInv
  <2> SUFFICES ASSUME Init PROVE ProvInv
    OBVIOUS
  <2>1. /\ coap.pc = "idle" /\ stored = out_labels
        /\ \A p \in Outs : /\ out_labels[p] = EMPTY /\ ntf_targets[p] = NULL
                           /\ entries[p].name = NULL
    BY DEF Init, Free, Idle
  <2> QED
    BY <2>1, TypeInit DEF ProvInv, StoreInv, TargetInv, Agree, Covered
<1>2. ProvInv /\ [Next]_vars => ProvInv'
  BY TypeNext, StoreNext, TargetNext DEF ProvInv
<1>3. ProvInv => OneTargetEach
  <2>1. \A p \in Outs : p < N
    BY NotificationAssumption DEF Outs
  <2> QED
    BY <2>1 DEF ProvInv, StoreInv, TargetInv, Agree, Covered, HasTarget, OneTargetEach
<1> QED
  BY <1>1, <1>2, <1>3, PTL DEF Spec
=============================================================================
