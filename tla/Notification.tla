---------------------------- MODULE Notification ----------------------------
(***************************************************************************)
(* The projector detector (prjcnt): the interrupt of the power detector    *)
(* (pwr_det.c), the provisioned labels of the devices to notify (prov.c),  *)
(* the targets and the output thread (notification.c), and the pause       *)
(* during a download of firmware (main.c).                                 *)
(*                                                                         *)
(* The output thread (priority 0) and the interrupt of the detector        *)
(* preempt the CoAP server (2); while that waits for the flash, and while  *)
(* the output thread waits for a mutex or the network, all others run.     *)
(* Threads are therefore modelled access by access.  The table of          *)
(* continuous_sd.c is reduced to its entries and their addresses: the      *)
(* module ContinuousSD shows what they are.  An address is the label of    *)
(* the device that has answered for it.  The initialisation of the device  *)
(* is one step, and a notification arrives at once or is lost.             *)
(***************************************************************************)
EXTENDS Naturals

CONSTANTS
  Labels,   \* of devices
  EMPTY,    \* the empty label
  NULL,     \* no pointer, and the unspecified address
  N         \* NTF_TARGETS_NUM, PROV_NUM_OUTS and NUM_ENTRIES

ASSUME NotificationAssumption ==
  N \in Nat \ {0} /\ EMPTY \notin Labels /\ NULL \notin Labels \cup {EMPTY} \cup Nat

Outs == 0..N-1

VARIABLES
  prj_enabled, ntf_out_sem, paused,
  out_labels, stored,        \* in RAM and in the flash
  ntf_targets, entries,      \* pointers to labels: indices of out_labels
  coap, out,      \* the CoAP server and the output thread
  heard           \* what each device has heard last

state  == <<prj_enabled, ntf_out_sem>>
labels == <<out_labels, stored>>
tables == <<ntf_targets, entries>>
vars   == <<state, paused, labels, tables, coap, out, heard>>

Free    == [name |-> NULL, addr |-> NULL]
Idle    == [pc |-> "idle", i |-> 0]
Waiting == [pc |-> "wait", i |-> 0, target |-> NULL]

-----------------------------------------------------------------------------
(* Tables. *)

Named(e, label) ==
  entries[e].name # NULL /\ out_labels[entries[e].name] = label

Lowest(indices) == {i \in indices : \A j \in indices : i <= j}

(* A target is added unless there is no room or its label is registered.   *)
notification_add_target(p) ==
  LET slots == {j \in Outs : ntf_targets[j] = NULL}
      free  == {e \in Outs : entries[e].name = NULL}
  IN  IF slots = {} \/ free = {} \/ \E e \in Outs : Named(e, out_labels[p])
      THEN UNCHANGED tables
      ELSE \E j \in Lowest(slots), e \in Lowest(free) :
             /\ ntf_targets' = [ntf_targets EXCEPT ![j] = p]
             /\ entries' = [entries EXCEPT ![e].name = p]

(* settings_load() adds the outputs in the order of the flash, whatever    *)
(* that is, and of those with the same label only the first.               *)
Loaded(t, l) ==
  /\ \A j, k \in Outs :
       j < k /\ t[k] # NULL => t[j] # NULL /\ l[t[j]] # l[t[k]]
  /\ \A p \in Outs : l[p] # EMPTY =>
       \E j \in Outs : t[j] # NULL /\ l[t[j]] = l[p]

Boot(l) ==
  /\ prj_enabled' \in BOOLEAN /\ ntf_out_sem' = 1 /\ paused' = FALSE
  /\ out_labels' = l
  /\ \E t \in [Outs -> {p \in Outs : l[p] # EMPTY} \cup {NULL}] :
       /\ Loaded(t, l)
       /\ ntf_targets' = t
       /\ entries' = [e \in Outs |-> [name |-> t[e], addr |-> NULL]]
  /\ coap' = Idle /\ out' = Waiting

Reboot == Boot(stored) /\ UNCHANGED <<stored, heard>>

Init ==
  /\ prj_enabled \in BOOLEAN /\ ntf_out_sem = 1 /\ paused = FALSE
  /\ out_labels = [p \in Outs |-> EMPTY] /\ stored = out_labels
  /\ ntf_targets = [j \in Outs |-> NULL] /\ entries = [e \in Outs |-> Free]
  /\ coap = Idle /\ out = Waiting
  /\ heard = [l \in Labels |-> FALSE]

-----------------------------------------------------------------------------
(* The detector. *)

notification_set_prj_state(enabled) ==
  prj_enabled' = enabled /\ ntf_out_sem' = 1

Edge ==   \* the interrupt of the projector's power
  /\ notification_set_prj_state(~prj_enabled)
  /\ UNCHANGED <<paused, labels, tables, coap, out, heard>>

FotaStart ==   \* fota_download_start() refuses a second one
  /\ ~paused /\ paused' = TRUE
  /\ UNCHANGED <<state, labels, tables, coap, out, heard>>

FotaEnd ==
  /\ paused /\ paused' = FALSE
  /\ UNCHANGED <<state, labels, tables, coap, out, heard>>

-----------------------------------------------------------------------------
(* Provisioning: a request that changes something.  All its loops are over *)
(* the outputs.                                                            *)

NextOut(again, then) ==
  coap' = IF coap.i + 1 < N THEN [pc |-> again, i |-> coap.i + 1]
                            ELSE [pc |-> then, i |-> 0]

PostProv ==
  /\ coap.pc = "idle"
  /\ coap' = [pc |-> "set", i |-> 0]
  /\ UNCHANGED <<state, paused, labels, tables, out, heard>>

prov_set_out_label ==   \* in place, or not in the request
  /\ coap.pc = "set"
  /\ \E l \in Labels \cup {EMPTY, out_labels[coap.i]} :
       out_labels' = [out_labels EXCEPT ![coap.i] = l]
  /\ NextOut("set", "save")
  /\ UNCHANGED <<state, paused, stored, tables, out, heard>>

Save ==
  /\ coap.pc = "save"
  /\ stored' = [stored EXCEPT ![coap.i] = out_labels[coap.i]]
  /\ coap' = [coap EXCEPT !.pc = "add"]
  /\ UNCHANGED <<state, paused, out_labels, tables, out, heard>>

AddLabel ==
  IF out_labels[coap.i] = EMPTY THEN UNCHANGED tables
                                ELSE notification_add_target(coap.i)

MutNoReset ==   \* mutant of Add: the targets are not reset
  /\ coap.pc = "add"
  /\ AddLabel
  /\ NextOut("save", "idle")
  /\ UNCHANGED <<state, paused, labels, out, heard>>

Add ==
  /\ coap.pc = "add"
  /\ AddLabel
  /\ NextOut("save", "reset")
  /\ UNCHANGED <<state, paused, labels, out, heard>>

MutNotUnregistered ==   \* mutant of ResetTarget: forgets the table
  /\ coap.pc = "reset"
  /\ ntf_targets' = [ntf_targets EXCEPT ![coap.i] = NULL]
  /\ NextOut("reset", "readd")
  /\ UNCHANGED <<state, paused, labels, entries, out, heard>>

ResetTarget ==
  /\ coap.pc = "reset"
  /\ ntf_targets' = [ntf_targets EXCEPT ![coap.i] = NULL]
  /\ NextOut("reset", "clear")
  /\ UNCHANGED <<state, paused, labels, entries, out, heard>>

ClearEntry ==
  /\ coap.pc = "clear"
  /\ entries' = [entries EXCEPT ![coap.i] = Free]
  /\ NextOut("clear", "readd")
  /\ UNCHANGED <<state, paused, labels, ntf_targets, out, heard>>

AddAgain ==
  /\ coap.pc = "readd"
  /\ AddLabel
  /\ NextOut("readd", "idle")
  /\ UNCHANGED <<state, paused, labels, out, heard>>

prov_store == Save \/ Add \/ ResetTarget \/ ClearEntry \/ AddAgain

-----------------------------------------------------------------------------
(* Discovery answers for the first entry of a label, or gives it up. *)

First(label) == {e \in Outs : Named(e, label)
                              /\ \A f \in Outs : f < e => ~Named(f, label)}

Found(l) ==
  /\ \E e \in First(l) : entries' = [entries EXCEPT ![e].addr = l]
  /\ UNCHANGED <<state, paused, labels, ntf_targets, coap, out, heard>>

Expire(e) ==
  /\ entries[e].addr # NULL
  /\ entries' = [entries EXCEPT ![e].addr = NULL]
  /\ UNCHANGED <<state, paused, labels, ntf_targets, coap, out, heard>>

-----------------------------------------------------------------------------
(* The output thread. *)

NextTarget ==
  out' = IF out.i + 1 < N THEN [pc |-> "read", i |-> out.i + 1, target |-> NULL]
                          ELSE Waiting

MutForever ==   \* mutant of Wake: waits for signals only
  /\ out.pc = "wait" /\ ntf_out_sem = 1
  /\ ntf_out_sem' = 0
  /\ out' = IF paused THEN Waiting ELSE [Waiting EXCEPT !.pc = "read"]
  /\ UNCHANGED <<prj_enabled, paused, labels, tables, coap, heard>>

Wake ==   \* signalled, or NTF_INTERVAL over
  /\ out.pc = "wait"
  /\ ntf_out_sem' = 0
  /\ out' = IF paused THEN Waiting ELSE [Waiting EXCEPT !.pc = "read"]
  /\ UNCHANGED <<prj_enabled, paused, labels, tables, coap, heard>>

ReadTarget ==
  /\ out.pc = "read"
  /\ IF ntf_targets[out.i] = NULL THEN NextTarget
     ELSE out' = [out EXCEPT !.pc = "send", !.target = ntf_targets[out.i]]
  /\ UNCHANGED <<state, paused, labels, tables, coap, heard>>

(* The devices that hear of the state: the one that the message is sent    *)
(* to, if it is not lost and the label is that of its resource.            *)
Receivers(label) == {l \in Labels : l = label /\ \E e \in First(l) : entries[e].addr = l}

SendTo(receivers) ==
  /\ out.pc = "send" /\ receivers \subseteq Receivers(out_labels[out.target])
  /\ heard' = [l \in Labels |-> IF l \in receivers THEN prj_enabled ELSE heard[l]]
  /\ UNCHANGED <<state, paused, labels, tables, coap>>

Send ==
  /\ \E receivers \in SUBSET Labels : SendTo(receivers)
  /\ NextTarget

out_thread_process == Wake \/ ReadTarget \/ Send

CoapStep == prov_set_out_label \/ prov_store

Disturbance ==
  \/ Edge \/ FotaStart \/ PostProv \/ Reboot
  \/ \E e \in Outs : Expire(e)

Next ==
  \/ Disturbance
  \/ FotaEnd
  \/ CoapStep
  \/ \E l \in Labels : Found(l)
  \/ out_thread_process

Spec == Init /\ [][Next]_vars

(* Threads run, devices that are asked answer in the end, and not every    *)
(* notification of those that are sent for ever is lost.                   *)
Fairness ==
  /\ WF_vars(CoapStep) /\ WF_vars(out_thread_process)
  /\ \A l \in Labels : WF_vars(Found(l))
  /\ \A l \in Labels : SF_vars(SendTo({l}) /\ NextTarget)

FairSpec == Spec /\ Fairness

-----------------------------------------------------------------------------
(* Properties. *)

TypeOK ==
  /\ prj_enabled \in BOOLEAN /\ ntf_out_sem \in {0, 1} /\ paused \in BOOLEAN
  /\ out_labels \in [Outs -> Labels \cup {EMPTY}]
  /\ stored \in [Outs -> Labels \cup {EMPTY}]
  /\ ntf_targets \in [Outs -> Outs \cup {NULL}]
  /\ entries \in [Outs -> [name: Outs \cup {NULL}, addr: Labels \cup {NULL}]]
  /\ coap \in [pc: {"idle", "set", "save", "add", "reset", "clear", "readd"},
               i: Outs]
  /\ out \in [pc: {"wait", "read", "send"}, i: Outs, target: Outs \cup {NULL}]
  /\ out.pc = "send" => out.target # NULL
  /\ heard \in [Labels -> BOOLEAN]

(* Between requests, and after a restart in the middle of one, too, every  *)
(* label that is provisioned is stored, has one target and is searched     *)
(* for, and nothing else is.                                               *)
OneTargetEach ==
  coap.pc = "idle" =>
    /\ stored = out_labels
    /\ \A p \in Outs : out_labels[p] # EMPTY =>
         \E j \in Outs : /\ ntf_targets[j] # NULL
                         /\ out_labels[ntf_targets[j]] = out_labels[p]
    /\ \A j \in Outs : /\ entries[j].name = ntf_targets[j]
                       /\ ntf_targets[j] # NULL => out_labels[ntf_targets[j]] # EMPTY
    /\ \A j, k \in Outs :
         /\ ntf_targets[j] # NULL /\ ntf_targets[k] # NULL
         /\ out_labels[ntf_targets[j]] = out_labels[ntf_targets[k]]
         => j = k

(* Labels are overwritten in place while the table of discovery points to  *)
(* them.  When the request ends no entry is left with the address of the   *)
(* device that had the label before.                                       *)
RightAddress ==
  coap.pc = "idle" =>
    \A e \in Outs : entries[e].addr # NULL => Named(e, entries[e].addr)

(* When nothing changes any more and no download goes on, every device     *)
(* that is provisioned hears of the state of the projector in the end.     *)
Informed ==
  (<>[][~Disturbance]_vars /\ <>[]~paused) =>
    <>[](\A p \in Outs : out_labels[p] # EMPTY => heard[out_labels[p]] = prj_enabled)
=============================================================================
