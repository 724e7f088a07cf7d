------------------------------- MODULE Switch -------------------------------
(***************************************************************************)
(* The wall switch: the thread that turns presses into requests (switch.c, *)
(* coap_req.c of switch), and the provisioning of the labels of what it    *)
(* switches (prov.c, prov_post of coap.c) by two servers at a time.        *)
(*                                                                         *)
(* Nothing locks the labels: a request overwrites them in place while the  *)
(* table of discovery points to them, the other server stores them, and    *)
(* the thread (priority 5) sends them.  A server (2) is interrupted only   *)
(* while it waits: for the lock of the settings, the flash and the mutex   *)
(* of the table.  Of the settings the output labels are kept, which are    *)
(* all of the same length, and of the threads the one of the first label.  *)
(* The table is reduced to entries and addresses, see ContinuousSD.  An    *)
(* address is the label of the device that has answered for it.            *)
(***************************************************************************)
EXTENDS Naturals, Sequences

CONSTANTS
  Labels,    \* of devices
  EMPTY,     \* the empty label
  NULL,      \* no pointer, the unspecified address, not in the request
  N,         \* PROV_RSRC_NUM, and the entries of the table: 2
  Servers,   \* the CoAP and the CoAPS server
  MaxNum     \* num_toggles stops here

ASSUME SwitchAssumption ==
  /\ N \in Nat \ {0} /\ MaxNum \in Nat \ {0}
  /\ EMPTY \notin Labels /\ NULL \notin Labels \cup {EMPTY} \cup Nat

Outs == 0..N-1

VARIABLES
  output_labels, stored,   \* in RAM and in the flash
  entries,                 \* name: an index of output_labels
  server,
  lock,                    \* of the settings: who holds it, who waits
  sw1_sem,
  sw                       \* the thread

prov == <<output_labels, stored, server, lock>>
vars == <<prov, entries, sw1_sem, sw>>

Free    == [name |-> NULL, addr |-> NULL]
Idle    == [pc |-> "idle", i |-> 0, empty |-> FALSE]
Waiting == [pc |-> "wait", addr |-> NULL, num |-> 0]

-----------------------------------------------------------------------------
(* The table. *)

Named(e, label) ==
  entries[e].name # NULL /\ output_labels[entries[e].name] = label

Lowest(indices) == {i \in indices : \A j \in indices : i <= j}

First(label) == Lowest({e \in Outs : Named(e, label)})

continuous_sd_register(p) ==
  LET free == {e \in Outs : entries[e].name = NULL}
  IN  IF First(output_labels[p]) # {} \/ free = {} THEN UNCHANGED entries
      ELSE \E e \in Lowest(free) :
             entries' = [entries EXCEPT ![e] = [name |-> p, addr |-> NULL]]

Found(l) ==
  /\ \E e \in First(l) : entries' = [entries EXCEPT ![e].addr = l]
  /\ UNCHANGED <<prov, sw1_sem, sw>>

Expire(e) ==
  /\ entries[e].addr # NULL
  /\ entries' = [entries EXCEPT ![e].addr = NULL]
  /\ UNCHANGED <<prov, sw1_sem, sw>>

-----------------------------------------------------------------------------
(* A restart.  Labels are registered in the order of the flash, whatever   *)
(* that is, and of those that are the same only the first.                 *)

Loaded(t, l) ==
  /\ \A j, k \in Outs : j < k /\ t[k] # NULL => t[j] # NULL /\ l[t[j]] # l[t[k]]
  /\ \A p \in Outs : l[p] # EMPTY => \E j \in Outs : t[j] # NULL /\ l[t[j]] = l[p]

Reboot ==
  /\ output_labels' = stored
  /\ \E t \in [Outs -> {p \in Outs : stored[p] # EMPTY} \cup {NULL}] :
       /\ Loaded(t, stored)
       /\ entries' = [e \in Outs |-> [name |-> t[e], addr |-> NULL]]
  /\ server' = [s \in Servers |-> Idle] /\ lock' = <<>>
  /\ sw1_sem' = 0 /\ sw' = Waiting
  /\ UNCHANGED stored

Init ==
  /\ output_labels = [p \in Outs |-> EMPTY] /\ stored = output_labels
  /\ entries = [e \in Outs |-> Free]
  /\ server = [s \in Servers |-> Idle] /\ lock = <<>>
  /\ sw1_sem = 0 /\ sw = Waiting

-----------------------------------------------------------------------------
(* The server s: prov_post, prov_store. *)

(* The length of the label is taken before the lock of the settings.       *)
ToSave(s, i) ==
  server' = [server EXCEPT ![s] =
               [pc |-> "save", i |-> i, empty |-> output_labels'[i] = EMPTY]]

Requests == [Outs -> Labels \cup {EMPTY, NULL}] \ {[p \in Outs |-> NULL]}

MutPost(s, req) ==   \* mutant of prov_post: one server stores for both
  /\ server[s].pc = "idle"
  /\ output_labels' =
       [p \in Outs |-> IF req[p] = NULL THEN output_labels[p] ELSE req[p]]
  /\ IF lock = <<>> THEN ToSave(s, 0) /\ lock' = <<s>> ELSE UNCHANGED <<server, lock>>
  /\ UNCHANGED <<stored, entries, sw1_sem, sw>>

prov_post(s, req) ==
  /\ server[s].pc = "idle"
  /\ output_labels' =
       [p \in Outs |-> IF req[p] = NULL THEN output_labels[p] ELSE req[p]]
  /\ ToSave(s, 0) /\ lock' = Append(lock, s)
  /\ UNCHANGED <<stored, entries, sw1_sem, sw>>

NextOut(s, again, then) ==
  LET i == server[s].i IN
  server' = [server EXCEPT ![s] =
    IF i + 1 < N THEN [Idle EXCEPT !.pc = again, !.i = i + 1] ELSE [Idle EXCEPT !.pc = then]]

MutSave(s) ==   \* mutant of Save: the table is not cleared
  LET i == server[s].i IN
  /\ server[s].pc = "save" /\ Head(lock) = s
  /\ stored' = [stored EXCEPT ![i] =
                  IF server[s].empty THEN EMPTY ELSE output_labels[i]]
  /\ UNCHANGED output_labels
  /\ IF i + 1 < N
     THEN ToSave(s, i + 1) /\ lock' = Append(Tail(lock), s)
     ELSE NextOut(s, "save", "add") /\ lock' = Tail(lock)
  /\ UNCHANGED <<entries, sw1_sem, sw>>

(* An empty label is deleted, others are written as they are by then.      *)
Save(s) ==
  LET i == server[s].i IN
  /\ server[s].pc = "save" /\ Head(lock) = s
  /\ stored' = [stored EXCEPT ![i] =
                  IF server[s].empty THEN EMPTY ELSE output_labels[i]]
  /\ UNCHANGED output_labels
  /\ IF i + 1 < N
     THEN ToSave(s, i + 1) /\ lock' = Append(Tail(lock), s)
     ELSE NextOut(s, "save", "clear") /\ lock' = Tail(lock)
  /\ UNCHANGED <<entries, sw1_sem, sw>>

ClearEntry(s) ==
  /\ server[s].pc = "clear"
  /\ entries' = [entries EXCEPT ![server[s].i] = Free]
  /\ NextOut(s, "clear", "add")
  /\ UNCHANGED <<output_labels, stored, lock, sw1_sem, sw>>

Add(s) ==
  /\ server[s].pc = "add"
  /\ IF output_labels[server[s].i] = EMPTY THEN UNCHANGED entries
     ELSE continuous_sd_register(server[s].i)
  /\ NextOut(s, "add", "idle")
  /\ UNCHANGED <<output_labels, stored, lock, sw1_sem, sw>>

prov_store(s) == Save(s) \/ ClearEntry(s) \/ Add(s)

-----------------------------------------------------------------------------
(* The thread: sw_proc. *)

Press ==   \* an edge, or the callback of an analog input
  sw1_sem' = 1 /\ UNCHANGED <<prov, entries, sw>>

Step(th) == sw' = th /\ UNCHANGED <<prov, entries>>

TakePress ==
  /\ sw.pc = "wait" /\ sw1_sem = 1
  /\ sw1_sem' = 0 /\ Step([Waiting EXCEPT !.pc = "addr"])

MutGetAddr ==   \* mutant of GetAddr: the thread ends
  /\ sw.pc = "addr"
  /\ \/ /\ \A e \in First(output_labels[0]) : entries[e].addr = NULL
        /\ Step([Waiting EXCEPT !.pc = "end"])
     \/ \E e \in First(output_labels[0]) :
          /\ entries[e].addr # NULL
          /\ Step([sw EXCEPT !.pc = "preset", !.addr = entries[e].addr])
  /\ UNCHANGED sw1_sem

GetAddr ==
  /\ sw.pc = "addr"
  /\ \/ /\ \A e \in First(output_labels[0]) : entries[e].addr = NULL
        /\ Step(Waiting)
     \/ \E e \in First(output_labels[0]) :
          /\ entries[e].addr # NULL
          /\ Step([sw EXCEPT !.pc = "preset", !.addr = entries[e].addr])
  /\ UNCHANGED sw1_sem

(* The label is sent as it is by now, or not for want of one, and the      *)
(* device has it or not.  The thread goes on when there is a response, any *)
(* at all; a battery powered switch needs none.                            *)
Preset0(ok) ==
  /\ sw.pc = "preset"
  /\ IF ok THEN Step([sw EXCEPT !.pc = "series"]) ELSE Step(Waiting)
  /\ UNCHANGED sw1_sem

Toggle ==
  /\ sw.pc = "series" /\ sw1_sem = 1
  /\ sw1_sem' = 0
  /\ Step([sw EXCEPT !.num = IF @ < MaxNum THEN @ + 1 ELSE @])

SeriesEnds ==   \* after a second
  /\ sw.pc = "series" /\ sw1_sem = 0
  /\ Step(IF sw.num = 0 THEN Waiting ELSE [sw EXCEPT !.pc = "number"])
  /\ UNCHANGED sw1_sem

PresetNum ==
  /\ sw.pc = "number"
  /\ Step(Waiting)
  /\ UNCHANGED sw1_sem

sw_proc ==
  \/ TakePress \/ GetAddr \/ Toggle \/ SeriesEnds \/ PresetNum
  \/ \E ok \in BOOLEAN : Preset0(ok)

-----------------------------------------------------------------------------
Next ==
  \/ \E s \in Servers : prov_store(s) \/ \E req \in Requests : prov_post(s, req)
  \/ Reboot
  \/ \E e \in Outs : Expire(e)
  \/ \E l \in Labels : Found(l)
  \/ Press \/ sw_proc

Spec == Init /\ [][Next]_vars

(* The thread runs, a device that is asked answers in the end, and of      *)
(* requests that are sent for ever not every one is lost, nor is its       *)
(* response.                                                               *)
Reach == output_labels[0] = sw.addr /\ Preset0(TRUE)

Fairness ==
  WF_vars(sw_proc) /\ WF_vars(\E l \in Labels : Found(l)) /\ SF_vars(Reach)

FairSpec == Spec /\ Fairness

-----------------------------------------------------------------------------
TypeOK ==
  /\ sw1_sem \in {0, 1}
  /\ output_labels \in [Outs -> Labels \cup {EMPTY}]
  /\ stored \in [Outs -> Labels \cup {EMPTY}]
  /\ entries \in [Outs -> [name : Outs \cup {NULL}, addr : Labels \cup {NULL}]]
  /\ server \in [Servers -> [pc : {"idle", "save", "clear", "add"}, i : Outs,
                             empty : BOOLEAN]]
  /\ lock \in Seq(Servers)
  /\ sw \in [pc : {"wait", "addr", "preset", "series", "number"},
             addr : Labels \cup {NULL}, num : 0..MaxNum]

AtRest == \A s \in Servers : server[s].pc = "idle"

(* When nobody provisions any more, what is in the flash is what is used,  *)
(* and each label is searched for once: although two servers overwrite,    *)
(* store and register the same labels without a lock, and the device may   *)
(* restart between two writes.                                             *)
StoredWhenDone ==
  AtRest =>
    /\ stored = output_labels
    /\ \A p \in Outs : output_labels[p] # EMPTY =>
         \E e \in Outs : \A f \in Outs : Named(f, output_labels[p]) <=> f = e
    /\ \A e \in Outs : ~Named(e, EMPTY)

(* No entry is left with the address of the device that had its label      *)
(* before, whichever server has been the last to clear the table.          *)
RightAddress ==
  AtRest => \A e \in Outs : entries[e].addr # NULL => Named(e, entries[e].addr)

(* Someone who keeps pressing, with pauses in which a series ends, reaches *)
(* the device that is provisioned, whatever has failed before, once nobody *)
(* provisions and the devices that are known stay so.                      *)
PressReaches ==
  /\ <>[](AtRest /\ output_labels[0] # EMPTY)
  /\ <>[][\A e \in Outs : entries[e].addr # NULL => entries'[e].addr # NULL]_entries
  /\ []<>(sw1_sem = 1) /\ []<>(sw.pc # "series")
  => []<><<Reach>>_vars
=============================================================================
