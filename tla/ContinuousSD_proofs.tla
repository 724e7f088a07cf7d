------------------------ MODULE ContinuousSD_proofs ------------------------
(***************************************************************************)
(* Proofs about continuous service discovery, for any number of entries,   *)
(* keys and services, and any intervals that SizeAssumption allows: type   *)
(* correctness, the bound of missed requests, that keys are unique, and    *)
(* that the table implements DiscoveryCache.                               *)
(***************************************************************************)
EXTENDS ContinuousSD, TLAPS, WellFoundedInduction

-----------------------------------------------------------------------------
(* What the search loops return.  The order of Nat is well founded, so     *)
(* every set of slots has a first element, and every function that is      *)
(* bounded below has a least value.                                        *)

LEMMA NatHasLeast ==
  ASSUME NEW S \in SUBSET Nat, S # {}
  PROVE  \E m \in S : \A n \in S : m <= n
<1> DEFINE R == {ss \in Nat \X Nat : ss[1] < ss[2]}
<1>1. IsWellFoundedOn(R, Nat)
  BY NatLessThanWellFounded DEF OpToRel
<1>2. PICK m \in S : \A n \in S : <<n, m>> \notin R
  BY <1>1, WFMin
<1>3. ASSUME NEW n \in S
      PROVE  m <= n
  <2>1. <<n, m>> \in Nat \X Nat /\ (n < m => <<n, m>> \in R)
    OBVIOUS
  <2> QED
    BY <1>2, <2>1
<1> QED
  BY <1>3

LEMMA FirstIsIn ==
  ASSUME NEW S \in SUBSET Slots, S # {}
  PROVE  First(S) \in S /\ \A j \in S : First(S) <= j
<1>1. S \in SUBSET Nat
  BY SizeAssumption DEF Slots
<1>2. \E i \in S : \A j \in S : i <= j
  BY <1>1, NatHasLeast
<1> QED
  BY <1>2 DEF First

LEMMA FirstOfOne ==
  ASSUME NEW i \in Slots
  PROVE  First({i}) = i
  BY FirstIsIn

LEMMA EarliestIsLeast ==
  ASSUME NEW due \in [Slots -> Int], NEW low \in Int,
         \A i \in Slots : due[i] >= low
  PROVE  /\ Earliest(due) \in Slots
         /\ \A j \in Slots : due[Earliest(due)] <= due[j]
<1> DEFINE Above == {due[i] - low : i \in Slots}
           Least == {i \in Slots : \A j \in Slots : due[i] <= due[j]}
<1>1. Above \in SUBSET Nat
  OBVIOUS
<1>2. Above # {}
  <2>1. 1 \in Slots
    BY SizeAssumption DEF Slots
  <2> QED
    BY <2>1
<1>3. PICK m \in Above : \A n \in Above : m <= n
  BY <1>1, <1>2, NatHasLeast
<1>4. PICK i \in Slots : m = due[i] - low
  BY <1>3
<1>5. ASSUME NEW j \in Slots
      PROVE  due[i] <= due[j]
  <2>1. due[j] - low \in Above /\ due[i] \in Int /\ due[j] \in Int
    OBVIOUS
  <2> QED
    BY <1>3, <1>4, <2>1
<1>6. i \in Least
  BY <1>5
<1>7. Earliest(due) \in Least
  BY <1>6, FirstIsIn DEF Earliest
<1> QED
  BY <1>7

-----------------------------------------------------------------------------
(* Deadlines and counters. *)

LEMMA Product ==
  ASSUME NEW m \in Nat
  PROVE  /\ m * MIN_SD_INTERVAL \in Nat
         /\ (m + 1) * MIN_SD_INTERVAL = m * MIN_SD_INTERVAL + MIN_SD_INTERVAL
         /\ (m - 1) * MIN_SD_INTERVAL = m * MIN_SD_INTERVAL - MIN_SD_INTERVAL
  BY SizeAssumption

LEMMA DeadlineTypes ==
  ASSUME NEW e \in Entry
  PROVE  /\ RetryDue(e) \in Int /\ RetryDue(e) >= AtOnce
         /\ TimeoutDue(e) \in Int /\ TimeoutDue(e) >= AtOnce
         /\ ~entry_is_free(e) => e.key \in Keys
<1>1. /\ e.missed \in Nat /\ e.req \in Ages /\ e.rsp \in Ages
      /\ e.key \in Keys \cup {Free}
  BY DEF Entry
<1>2. e.missed * MIN_SD_INTERVAL \in Nat
  BY <1>1, Product
<1>3. RetryWait(e) \in Nat
  BY <1>2, SizeAssumption DEF RetryWait, Lower
<1>4. /\ e.req # Never => e.req \in 0..MaxAge
      /\ e.rsp # Never => e.rsp \in 0..MaxAge
  BY <1>1 DEF Ages
<1> QED
  BY <1>1, <1>3, <1>4, SizeAssumption
  DEF RetryDue, TimeoutDue, Forever, AtOnce, Never, entry_is_free

LEMMA TrimmedEntry ==
  ASSUME NEW e \in Entry
  PROVE  /\ Trimmed(e) \in Entry
         /\ Trimmed(e).key = e.key /\ Trimmed(e).addr = e.addr
         /\ Trimmed(e).req = e.req /\ Trimmed(e).rsp = e.rsp
<1>1. e.missed \in Nat /\ e.missed * MIN_SD_INTERVAL \in Nat
  BY Product DEF Entry
<1>2. CASE e.missed = 0
  BY <1>2, SizeAssumption DEF Trimmed
<1>3. CASE e.missed # 0
  BY <1>1, <1>3 DEF Trimmed, Entry
<1> QED
  BY <1>2, <1>3

LEMMA OlderAge ==
  ASSUME NEW a \in Ages
  PROVE  Older(a) \in Ages /\ (Older(a) = Never <=> a = Never)
  BY SizeAssumption DEF Ages, Older, Lower, Never

(* What an answer changes: one entry, whose key the service answers to.    *)
LEMMA FoundStep ==
  ASSUME TypeOK, NEW s \in Services, service_found(s), FoundEntry(s) # {},
         NEW f, f = First(FoundEntry(s))
  PROVE  /\ f \in Slots /\ f \in FoundEntry(s)
         /\ entries'[f].key = entries[f].key
         /\ entries'[f].addr = s /\ entries'[f].missed = 0
         /\ entries'[f].rsp = 0
         /\ \A i \in Slots \ {f} : entries'[i] = entries[i]
<1>1. f \in FoundEntry(s) /\ f \in Slots
  BY FirstIsIn DEF FoundEntry, entry_find
<1>2. entries' = [entries EXCEPT ![f] =
                    [entries[f] EXCEPT !.rsp = 0, !.addr = s, !.missed = 0]]
  BY DEF service_found
<1>3. entries[f] \in Entry /\ entries \in [Slots -> Entry]
  BY <1>1 DEF TypeOK
<1>4. entries'[f] = [entries[f] EXCEPT !.rsp = 0, !.addr = s, !.missed = 0]
  BY <1>1, <1>2, <1>3
<1>5. \A i \in Slots \ {f} : entries'[i] = entries[i]
  BY <1>2, <1>3
<1> QED
  BY <1>1, <1>3, <1>4, <1>5 DEF Entry

LEMMA NewEntryType ==
  ASSUME NEW k \in Keys \cup {Free}
  PROVE  NewEntry(k) \in Entry
  BY DEF NewEntry, Entry, Ages, Never

-----------------------------------------------------------------------------
(* Type correctness. *)

LEMMA EvaluateType == TypeOK /\ Evaluate => TypeOK'
<1> SUFFICES ASSUME TypeOK, Evaluate PROVE TypeOK'
  OBVIOUS
<1> DEFINE retry == Earliest(retry_due)
           late  == Earliest(timeout_due)
<1>1. /\ retry_due \in [Slots -> Int] /\ timeout_due \in [Slots -> Int]
      /\ \A i \in Slots : retry_due[i] >= AtOnce /\ timeout_due[i] >= AtOnce
  BY DeadlineTypes DEF TypeOK, retry_due, timeout_due
<1>2. retry \in Slots /\ late \in Slots
  BY <1>1, EarliestIsLeast, SizeAssumption DEF AtOnce
<1>3. plan' \in [mode: {"idle", "timeout", "discover"}, entry: Slots, due: Int]
  <2>1. NoPlan \in [mode: {"idle", "timeout", "discover"},
                    entry: Slots, due: Int]
    BY SizeAssumption DEF NoPlan, Slots, Forever
  <2> HIDE DEF retry, late
  <2> QED
    BY <1>1, <1>2, <2>1 DEF Evaluate, retry, late
<1>4. entries' \in [Slots -> Entry]
  BY TrimmedEntry DEF TypeOK, Evaluate
<1> QED
  BY <1>3, <1>4 DEF TypeOK, Evaluate, discovery

LEMMA NoPlanType ==
  NoPlan \in [mode: {"idle", "timeout", "discover"}, entry: Slots, due: Int]
  BY SizeAssumption DEF NoPlan, Slots, Forever

LEMMA TypeInit == Init => TypeOK
  BY NewEntryType, NoPlanType, SizeAssumption DEF Init, TypeOK, FreeEntry

LEMMA TypeNext == TypeOK /\ [Next]_vars => TypeOK'
<1> SUFFICES ASSUME TypeOK, [Next]_vars PROVE TypeOK'
  OBVIOUS
<1> USE NoPlanType
<1>1. CASE Evaluate
  BY <1>1, EvaluateType
<1>2. CASE Preempted
  BY <1>2 DEF Preempted, TypeOK, discovery
<1>3. CASE Expire
  BY <1>3 DEF Expire, TypeOK, discovery
<1>4. CASE ForgetAddress
  <2>1. entries' \in [Slots -> Entry]
    BY <1>4 DEF ForgetAddress, TypeOK, Entry
  <2> QED
    BY <1>4, <2>1 DEF ForgetAddress, TypeOK, discovery
<1>5. CASE StartDiscovery
  <2>1. entries' \in [Slots -> Entry]
    BY <1>5, SizeAssumption DEF StartDiscovery, TypeOK, Entry, Ages
  <2>2. request' \in Keys \cup {Free} /\ window' \in 0..Window
    BY <1>5, SizeAssumption DEF StartDiscovery, TypeOK, Entry, discovery
  <2> QED
    BY <1>5, <2>1, <2>2 DEF StartDiscovery, TypeOK, discovery
<1>6. CASE EndDiscovery
  BY <1>6, SizeAssumption DEF EndDiscovery, TypeOK
<1>7. ASSUME NEW s \in Services, Respond(s) PROVE TypeOK'
  <2>1. entries' \in [Slots -> Entry] /\ wait_sem' \in {0, 1}
    <3>1. CASE FoundEntry(s) = {}
      BY <1>7, <3>1 DEF Respond, service_found, TypeOK
    <3>2. CASE FoundEntry(s) # {}
      <4> DEFINE Found(e) == [e EXCEPT !.rsp = 0, !.addr = s, !.missed = 0]
      <4>1. ASSUME NEW e \in Entry PROVE Found(e) \in Entry
        <5>1. 0 \in Ages /\ 0 \in Nat /\ s \in Services \cup {NULL}
          BY SizeAssumption DEF Ages
        <5> QED
          BY <5>1 DEF Entry
      <4>2. entries' = [entries EXCEPT ![First(FoundEntry(s))] = Found(@)]
        BY <1>7, <3>2 DEF Respond, service_found
      <4> HIDE DEF Found
      <4>3. entries' \in [Slots -> Entry]
        BY <4>1, <4>2 DEF TypeOK
      <4>4. wait_sem' = 1
        BY <1>7, <3>2 DEF Respond, service_found
      <4> QED
        BY <4>3, <4>4
    <3> QED
      BY <3>1, <3>2
  <2> QED
    BY <1>7, <2>1, SizeAssumption DEF Respond, TypeOK
<1>8. ASSUME NEW k \in Keys, Register(k) PROVE TypeOK'
  BY <1>8, NewEntryType DEF Register, TypeOK, discovery
<1>9. ASSUME NEW k \in Keys, Unregister(k) PROVE TypeOK'
  BY <1>9, NewEntryType DEF Unregister, TypeOK, discovery, FreeEntry
<1>10. CASE ClearEntry
  <2>1. FreeEntry \in Entry
    BY NewEntryType DEF FreeEntry
  <2>2. entries' \in [Slots -> Entry]
    BY <1>10, <2>1 DEF ClearEntry, TypeOK
  <2>3. clearing' \in 0..NumEntries
    BY <1>10, SizeAssumption DEF ClearEntry, TypeOK
  <2> QED
    BY <1>10, <2>2, <2>3 DEF ClearEntry, TypeOK, discovery
<1>11. CASE ClearDone
  BY <1>11, SizeAssumption DEF ClearDone, TypeOK, discovery
<1>12. CASE Tick
  <2>1. entries' \in [Slots -> Entry]
    BY <1>12, OlderAge DEF Tick, TypeOK, Entry
  <2>2. plan' \in [mode: {"idle", "timeout", "discover"},
                   entry: Slots, due: Int]
    <3>1. plan \in [mode: {"idle", "timeout", "discover"},
                    entry: Slots, due: Int]
      BY DEF TypeOK
    <3>2. plan' = plan \/ plan' = [plan EXCEPT !.due = plan.due - 1]
      BY <1>12 DEF Tick
    <3> QED
      BY <3>1, <3>2
  <2>3. window' \in 0..Window
    <3>1. window \in 0..Window /\ Window \in Nat
      BY SizeAssumption DEF TypeOK
    <3>2. window' = IF window > 0 THEN window - 1 ELSE 0
      BY <1>12 DEF Tick
    <3> QED
      BY <3>1, <3>2
  <2> QED
    BY <1>12, <2>1, <2>2, <2>3 DEF Tick, TypeOK
<1>13. CASE UNCHANGED vars
  BY <1>13 DEF vars, TypeOK
<1> QED
  BY <1>1, <1>2, <1>3, <1>4, <1>5, <1>6, <1>7, <1>8, <1>9, <1>10, <1>11, <1>12,
     <1>13 DEF Next, ThreadStep, Change

(* Every variable keeps its type, for any table: the plan always names an  *)
(* entry, and sd_missed never becomes negative.                            *)
THEOREM TypeCorrect == Spec => []TypeOK
  BY TypeInit, TypeNext, PTL DEF Spec

-----------------------------------------------------------------------------
(* The bound of sd_missed.  It is counted up in one critical section and   *)
(* down in another one.  What makes the bound inductive is that, from the  *)
(* one that computes the plan to the one that uses it, no counter is above *)
(* MAX_SD_INTERVAL: computing the plan counts back, and users only reset.  *)
(* An entry that is freed in between is still counted up once, by the      *)
(* thread that holds a pointer to it.                                      *)

Low(e) == e.missed * MIN_SD_INTERVAL <= MAX_SD_INTERVAL

Counted(e) ==
  /\ e.missed * MIN_SD_INTERVAL <= MAX_SD_INTERVAL + MIN_SD_INTERVAL
  /\ e.req = Never => e.missed = 0
  /\ entry_is_free(e) => e.missed <= 1

Planned == pc \in {"wait", "expired"}

MissedInv ==
  /\ TypeOK
  /\ \A i \in Slots : Counted(entries[i])
  /\ Planned => \A i \in Slots : Low(entries[i])
  /\ Planned /\ plan.mode = "discover" /\ entry_is_free(entries[plan.entry])
       => entries[plan.entry].missed = 0

LEMMA ZeroIsCounted ==
  ASSUME NEW e, e.missed = 0
  PROVE  Counted(e) /\ Low(e)
  BY SizeAssumption DEF Counted, Low

LEMMA TrimmedIsLow ==
  ASSUME NEW e \in Entry, Counted(e)
  PROVE  Counted(Trimmed(e)) /\ Low(Trimmed(e))
<1>1. /\ e.missed \in Nat
      /\ e.missed * MIN_SD_INTERVAL \in Nat
      /\ (e.missed - 1) * MIN_SD_INTERVAL
            = e.missed * MIN_SD_INTERVAL - MIN_SD_INTERVAL
  BY Product DEF Entry
<1>2. CASE entry_is_free(e)
  <2>1. Trimmed(e) = e /\ e.missed \in {0, 1}
    BY <1>1, <1>2 DEF Trimmed, Counted
  <2> QED
    BY <2>1, SizeAssumption DEF Counted, Low
<1>3. CASE ~entry_is_free(e) /\ e.req = Never
  <2>1. Trimmed(e) = e /\ e.missed = 0
    BY <1>3 DEF Trimmed, Counted
  <2> QED
    BY <2>1, ZeroIsCounted
<1>4. CASE ~entry_is_free(e) /\ e.req # Never
  <2>1. CASE e.missed * MIN_SD_INTERVAL > MAX_SD_INTERVAL
    <3>1. Trimmed(e) = [e EXCEPT !.missed = e.missed - 1]
      BY <1>4, <2>1 DEF Trimmed
    <3>2. /\ Trimmed(e).missed = e.missed - 1
          /\ Trimmed(e).req # Never /\ ~entry_is_free(Trimmed(e))
      BY <1>4, <3>1 DEF Entry, entry_is_free
    <3> QED
      BY <1>1, <3>2, SizeAssumption DEF Counted, Low
  <2>2. CASE ~(e.missed * MIN_SD_INTERVAL > MAX_SD_INTERVAL)
    <3>1. Trimmed(e) = e
      BY <2>2 DEF Trimmed
    <3> QED
      BY <1>1, <2>2, <3>1, SizeAssumption DEF Low
  <2> QED
    BY <2>1, <2>2
<1> QED
  BY <1>2, <1>3, <1>4

(* The thread plans a request only for an entry that is in use. *)
LEMMA PlannedEntryIsUsed ==
  ASSUME TypeOK, Evaluate, plan'.mode = "discover"
  PROVE  /\ plan'.entry \in Slots
         /\ ~entry_is_free(entries[plan'.entry])
<1> DEFINE retry == Earliest(retry_due)
<1>1. plan'.entry = retry /\ retry_due[retry] < Forever
  BY DEF Evaluate, NoPlan
<1>2. retry \in Slots
  <2>1. /\ retry_due \in [Slots -> Int] /\ AtOnce \in Int
        /\ \A i \in Slots : retry_due[i] >= AtOnce
    BY DeadlineTypes, SizeAssumption DEF TypeOK, retry_due, AtOnce
  <2> QED
    BY <2>1, EarliestIsLeast
<1>3. retry_due[retry] = RetryDue(entries[retry])
  BY <1>2 DEF retry_due
<1>4. Forever \in Int
  BY SizeAssumption DEF Forever
<1> QED
  BY <1>1, <1>2, <1>3, <1>4 DEF RetryDue

LEMMA MissedInit == Init => MissedInv
<1> SUFFICES ASSUME Init PROVE MissedInv
  OBVIOUS
<1>1. \A i \in Slots : entries[i].missed = 0
  BY DEF Init, FreeEntry, NewEntry
<1> QED
  BY <1>1, TypeInit, ZeroIsCounted DEF Init, MissedInv, Planned

LEMMA MissedNext == MissedInv /\ [Next]_vars => MissedInv'
<1> SUFFICES ASSUME MissedInv, [Next]_vars PROVE MissedInv'
  OBVIOUS
<1>0. TypeOK /\ TypeOK'
  BY TypeNext DEF MissedInv
<1>1. CASE Evaluate
  <2>1. \A i \in Slots : Counted(entries'[i]) /\ Low(entries'[i])
    BY <1>0, <1>1, TrimmedIsLow DEF MissedInv, Evaluate, TypeOK
  <2>2. plan'.mode = "discover" =>
          plan'.entry \in Slots /\ ~entry_is_free(entries'[plan'.entry])
    BY <1>0, <1>1, PlannedEntryIsUsed, TrimmedEntry
    DEF Evaluate, TypeOK, entry_is_free
  <2> QED
    BY <1>0, <2>1, <2>2 DEF MissedInv
<1>2. CASE Preempted
  BY <1>0, <1>2 DEF MissedInv, Preempted, Planned
<1>3. CASE Expire
  BY <1>0, <1>3 DEF MissedInv, Expire, Planned
<1>4. CASE ForgetAddress
  <2>1. \A i \in Slots : /\ entries'[i].missed = entries[i].missed
                         /\ entries'[i].req = entries[i].req
                         /\ entries'[i].key = entries[i].key
    BY <1>0, <1>4 DEF ForgetAddress, TypeOK, Entry
  <2> QED
    BY <1>0, <1>4, <2>1
    DEF ForgetAddress, MissedInv, Planned, Counted, entry_is_free
<1>5. CASE StartDiscovery
  <2> DEFINE e == entries[plan.entry]
  <2>1. /\ plan.entry \in Slots /\ e.missed \in Nat
        /\ Low(e) /\ (entry_is_free(e) => e.missed = 0)
    BY <1>0, <1>5 DEF StartDiscovery, MissedInv, Planned, TypeOK, Entry
  <2>2. /\ entries'[plan.entry].missed = e.missed + 1
        /\ entries'[plan.entry].req = 0
        /\ entries'[plan.entry].key = e.key
        /\ \A i \in Slots \ {plan.entry} : entries'[i] = entries[i]
    BY <1>0, <1>5, <2>1 DEF StartDiscovery, TypeOK, Entry
  <2>3. Counted(entries'[plan.entry])
    <3>1. (e.missed + 1) * MIN_SD_INTERVAL
            = e.missed * MIN_SD_INTERVAL + MIN_SD_INTERVAL
          /\ e.missed * MIN_SD_INTERVAL \in Nat
      BY <2>1, Product
    <3> HIDE DEF e
    <3> QED
      BY <2>1, <2>2, <3>1, SizeAssumption
      DEF Counted, Low, entry_is_free, Never
  <2>4. \A i \in Slots : Counted(entries'[i])
    BY <2>2, <2>3 DEF MissedInv
  <2>5. pc' \in {"discovering", "eval"}
    BY <1>5 DEF StartDiscovery
  <2> QED
    BY <1>0, <2>4, <2>5 DEF MissedInv, Planned
<1>6. CASE EndDiscovery
  BY <1>0, <1>6 DEF MissedInv, EndDiscovery, Planned
<1>7. ASSUME \A i \in Slots : entries'[i] = entries[i] \/ entries'[i].missed = 0,
             UNCHANGED <<pc, plan>>
      PROVE  MissedInv'
  <2>1. \A i \in Slots : /\ Counted(entries'[i])
                         /\ Planned => Low(entries'[i])
    BY <1>7, ZeroIsCounted DEF MissedInv
  <2>2. plan.entry \in Slots
    BY <1>0 DEF TypeOK
  <2> QED
    BY <1>0, <1>7, <2>1, <2>2 DEF MissedInv, Planned
<1>8. ASSUME NEW s \in Services, Respond(s) PROVE MissedInv'
  <2>1. \A i \in Slots : entries'[i] = entries[i] \/ entries'[i].missed = 0
    <3>1. CASE FoundEntry(s) = {}
      BY <1>8, <3>1 DEF Respond, service_found
    <3>2. CASE FoundEntry(s) # {}
      BY <1>0, <1>8, <3>2, FoundStep DEF Respond
    <3> QED
      BY <3>1, <3>2
  <2> QED
    BY <1>7, <1>8, <2>1 DEF Respond
<1>9. ASSUME NEW k \in Keys, Register(k) \/ Unregister(k) PROVE MissedInv'
  <2>1. \A i \in Slots : entries'[i] = entries[i] \/ entries'[i].missed = 0
    BY <1>0, <1>9 DEF Register, Unregister, TypeOK, FreeEntry, NewEntry
  <2> QED
    BY <1>7, <1>9, <2>1 DEF Register, Unregister
<1>10. CASE ClearEntry
  <2>1. \A i \in Slots : entries'[i] = entries[i] \/ entries'[i].missed = 0
    <3>1. FreeEntry.missed = 0
      BY DEF FreeEntry, NewEntry
    <3> QED
      BY <1>0, <1>10, <3>1 DEF ClearEntry, TypeOK
  <2> QED
    BY <1>7, <1>10, <2>1 DEF ClearEntry
<1>11. CASE ClearDone
  BY <1>7, <1>11 DEF ClearDone
<1>12. CASE Tick
  <2>1. \A i \in Slots : /\ entries'[i].missed = entries[i].missed
                         /\ entries'[i].req = Never <=> entries[i].req = Never
                         /\ entries'[i].key = entries[i].key
    BY <1>0, <1>12, OlderAge DEF Tick, TypeOK, Entry
  <2>2. plan'.mode = plan.mode /\ plan'.entry = plan.entry /\ pc' = pc
        /\ plan.entry \in Slots
    BY <1>0, <1>12 DEF Tick, TypeOK
  <2> QED
    BY <1>0, <2>1, <2>2 DEF MissedInv, Planned, Counted, Low, entry_is_free
<1>13. CASE UNCHANGED vars
  BY <1>0, <1>13 DEF vars, MissedInv, Planned
<1> QED
  BY <1>1, <1>2, <1>3, <1>4, <1>5, <1>6, <1>8, <1>9, <1>10, <1>11, <1>12, <1>13
  DEF Next, ThreadStep, Change

(* sd_missed counts at most one request beyond MAX_SD_INTERVAL, for any    *)
(* number of entries and any intervals.                                    *)
THEOREM MissedBoundHolds == Spec => []MissedBound
<1>1. MissedInv => MissedBound
  BY DEF MissedInv, MissedBound, Counted
<1> QED
  BY MissedInit, MissedNext, <1>1, PTL DEF Spec

-----------------------------------------------------------------------------
(* Keys are unique. *)

Unique(es) ==
  \A i, j \in Slots : es[i].key = es[j].key /\ es[i].key # Free => i = j

LEMMA UniqueInit == Init => UniqueKeys
  BY DEF Init, UniqueKeys, FreeEntry, NewEntry

LEMMA UniqueNext == TypeOK /\ UniqueKeys /\ [Next]_vars => UniqueKeys'
<1> SUFFICES ASSUME TypeOK, UniqueKeys, [Next]_vars PROVE UniqueKeys'
  OBVIOUS
<1>1. ASSUME \A i \in Slots : entries'[i].key \in {entries[i].key, Free}
      PROVE  UniqueKeys'
  BY <1>1 DEF UniqueKeys
<1>2. CASE Evaluate
  BY <1>1, <1>2, TrimmedEntry DEF Evaluate, TypeOK
<1>3. CASE Preempted \/ Expire \/ EndDiscovery \/ ClearDone \/ UNCHANGED vars
  BY <1>1, <1>3 DEF Preempted, Expire, EndDiscovery, ClearDone, vars
<1>4. CASE ForgetAddress \/ StartDiscovery
  BY <1>1, <1>4 DEF ForgetAddress, StartDiscovery, TypeOK, Entry
<1>5. ASSUME NEW s \in Services, Respond(s) PROVE UniqueKeys'
  <2>1. CASE FoundEntry(s) = {}
    BY <1>1, <1>5, <2>1 DEF Respond, service_found
  <2>2. CASE FoundEntry(s) # {}
    BY <1>1, <1>5, <2>2, FoundStep DEF Respond
  <2> QED
    BY <2>1, <2>2
<1>6. ASSUME NEW k \in Keys, Register(k) PROVE UniqueKeys'
  <2> DEFINE f == First(entry_find(Free))
  <2>1. \A i \in Slots : entries[i].key # k
    BY <1>6 DEF Register, entry_find
  <2>2. \A i \in Slots : entries'[i] = IF i = f THEN NewEntry(k) ELSE entries[i]
    BY <1>6 DEF Register, TypeOK
  <2>3. NewEntry(k).key = k
    BY DEF NewEntry
  <2> HIDE DEF f
  <2> QED
    BY <2>1, <2>2, <2>3 DEF UniqueKeys
<1>7. ASSUME NEW k \in Keys, Unregister(k) PROVE UniqueKeys'
  BY <1>1, <1>7 DEF Unregister, TypeOK, FreeEntry, NewEntry
<1>8. CASE ClearEntry
  <2>1. FreeEntry.key = Free
    BY DEF FreeEntry, NewEntry
  <2> QED
    BY <1>1, <1>8, <2>1 DEF ClearEntry, TypeOK
<1>9. CASE Tick
  <2>1. \A i \in Slots : entries'[i].key = entries[i].key
    BY <1>9 DEF Tick, TypeOK, Entry
  <2> QED
    BY <1>1, <2>1
<1> QED
  BY <1>2, <1>3, <1>4, <1>5, <1>6, <1>7, <1>8, <1>9 DEF Next, ThreadStep, Change

(* A key is never in the table twice, whoever registers it how often:      *)
(* needed below.  Keys are values here, see the head of ContinuousSD.      *)
LEMMA UniqueKeysHolds == Spec => []UniqueKeys
  BY TypeInit, TypeNext, UniqueInit, UniqueNext, PTL DEF Spec

-----------------------------------------------------------------------------
(* The refinement of DiscoveryCache.  Lookup is continuous_sd_get_addr()   *)
(* of a table es.  A step that changes one slot of a table with unique     *)
(* keys changes the cache for the old and the new key of this slot only.   *)

Lookup(es, k) ==
  IF {i \in Slots : es[i].key = k} = {} THEN Absent
  ELSE es[First({i \in Slots : es[i].key = k})].addr

LEMMA LookupSame ==
  ASSUME NEW es, NEW es2, NEW k,
         \A i \in Slots : es2[i].key = es[i].key /\ es2[i].addr = es[i].addr
  PROVE  Lookup(es2, k) = Lookup(es, k)
<1> DEFINE S == {i \in Slots : es[i].key = k}
<1>1. {i \in Slots : es2[i].key = k} = S
  OBVIOUS
<1>2. S # {} => First(S) \in Slots
  BY FirstIsIn
<1> HIDE DEF S
<1> QED
  BY <1>1, <1>2 DEF Lookup, S

LEMMA LookupOnly ==
  ASSUME NEW es, NEW f \in Slots, \A i \in Slots \ {f} : es[i].key # es[f].key
  PROVE  Lookup(es, es[f].key) = es[f].addr
<1>1. {i \in Slots : es[i].key = es[f].key} = {f}
  OBVIOUS
<1> QED
  BY <1>1, FirstOfOne DEF Lookup

LEMMA OneSlot ==
  ASSUME NEW es, NEW es2, Unique(es), Unique(es2), NEW f \in Slots,
         \A i \in Slots \ {f} : es2[i] = es[i],
         NEW k \in Keys
  PROVE  /\ es2[f].key = k => Lookup(es2, k) = es2[f].addr
         /\ es[f].key = k => Lookup(es, k) = es[f].addr
         /\ es2[f].key # k /\ es[f].key = k => Lookup(es2, k) = Absent
         /\ es2[f].key # k /\ es[f].key # k => Lookup(es2, k) = Lookup(es, k)
<1>0. k # Free
  BY KeyAssumption DEF Free
<1>1. ASSUME es2[f].key = k
      PROVE  Lookup(es2, k) = es2[f].addr
  BY <1>0, <1>1, LookupOnly DEF Unique
<1>2. ASSUME es[f].key = k
      PROVE  Lookup(es, k) = es[f].addr
  BY <1>0, <1>2, LookupOnly DEF Unique
<1>3. ASSUME es2[f].key # k, es[f].key = k
      PROVE  Lookup(es2, k) = Absent
  <2>1. {i \in Slots : es2[i].key = k} = {}
    BY <1>0, <1>3 DEF Unique
  <2> QED
    BY <2>1 DEF Lookup
<1>4. ASSUME es2[f].key # k, es[f].key # k
      PROVE  Lookup(es2, k) = Lookup(es, k)
  <2> DEFINE S == {i \in Slots : es[i].key = k}
  <2>1. {i \in Slots : es2[i].key = k} = S
    BY <1>4
  <2>2. S # {} => First(S) \in S
    BY FirstIsIn
  <2>3. S # {} => es2[First(S)] = es[First(S)]
    BY <1>4, <2>2
  <2> HIDE DEF S
  <2> QED
    BY <2>1, <2>3 DEF Lookup, S
<1> QED
  BY <1>1, <1>2, <1>3, <1>4

cacheBar == [k \in Keys |-> get_addr(k)]

LEMMA CacheIsLookup ==
  /\ cacheBar = [k \in Keys |-> Lookup(entries, k)]
  /\ cacheBar' = [k \in Keys |-> Lookup(entries', k)]
  BY DEF cacheBar, get_addr, entry_find, Lookup

(* A step of one slot f, by what it does to its key. *)
CacheStep == [Cache!Next]_cacheBar

LEMMA SlotCleared ==
  ASSUME Unique(entries), Unique(entries'), NEW f \in Slots,
         \A i \in Slots \ {f} : entries'[i] = entries[i],
         entries[f].key \in Keys \cup {Free}, entries'[f].key = Free
  PROVE  CacheStep
<1>0. Free \notin Keys
  BY KeyAssumption DEF Free
<1>1. CASE entries[f].key = Free
  <2>1. \A k \in Keys : Lookup(entries', k) = Lookup(entries, k)
    BY <1>0, <1>1, OneSlot
  <2> QED
    BY <2>1, CacheIsLookup DEF CacheStep
<1>2. CASE entries[f].key # Free
  <2> DEFINE old == entries[f].key
  <2>1. old \in Keys
    BY <1>2
  <2>2. \A k \in Keys : Lookup(entries', k) =
                         IF k = old THEN Absent ELSE Lookup(entries, k)
    BY <1>0, OneSlot
  <2>3. cacheBar' = [cacheBar EXCEPT ![old] = Absent]
    BY <2>1, <2>2, CacheIsLookup
  <2> HIDE DEF old
  <2>4. Cache!Unregister(old)
    BY <2>3 DEF Cache!Unregister, cacheBar
  <2> QED
    BY <2>1, <2>4 DEF CacheStep, Cache!Next
<1> QED
  BY <1>1, <1>2

LEMMA SlotAddress ==
  ASSUME Unique(entries), Unique(entries'), NEW f \in Slots,
         \A i \in Slots \ {f} : entries'[i] = entries[i],
         entries[f] \in Entry, entries'[f].key = entries[f].key,
         \/ entries'[f].addr = NULL
         \/ /\ entries'[f].addr \in Services
            /\ Cache!Answers(entries'[f].addr, entries[f].key)
  PROVE  CacheStep
<1> DEFINE k == entries[f].key
           a == entries'[f].addr
<1>0. Free \notin Keys /\ k \in Keys \cup {Free}
      /\ entries[f].addr \in Services \cup {NULL}
  BY KeyAssumption DEF Free, Entry
<1>1. CASE k = Free
  <2>1. \A j \in Keys : Lookup(entries', j) = Lookup(entries, j)
    BY <1>0, <1>1, OneSlot
  <2> QED
    BY <2>1, CacheIsLookup DEF CacheStep
<1>2. CASE k \in Keys
  <2>1. \A j \in Keys : Lookup(entries', j) =
                         IF j = k THEN a ELSE Lookup(entries, j)
    BY OneSlot
  <2>2. cacheBar' = [cacheBar EXCEPT ![k] = a]
    BY <1>2, <2>1, CacheIsLookup
  <2>3. cacheBar[k] # Absent
    <3>1. cacheBar[k] = entries[f].addr
      BY <1>2, OneSlot, CacheIsLookup
    <3> QED
      BY <1>0, <3>1, KeyAssumption
  <2>4. a = NULL \/ (a \in Services /\ Cache!Answers(a, k))
    OBVIOUS
  <2> HIDE DEF k, a
  <2>5. \/ Cache!Expire(k)
        \/ a \in Services /\ Cache!Resolve(k, a)
    BY <2>2, <2>3, <2>4 DEF Cache!Expire, Cache!Resolve, cacheBar
  <2> QED
    BY <1>2, <2>5 DEF CacheStep, Cache!Next
<1> QED
  BY <1>0, <1>1, <1>2

LEMMA SlotRegistered ==
  ASSUME Unique(entries), Unique(entries'), NEW f \in Slots,
         \A i \in Slots \ {f} : entries'[i] = entries[i],
         entries[f].key = Free, NEW k \in Keys,
         \A i \in Slots : entries[i].key # k,
         entries'[f].key = k, entries'[f].addr = NULL
  PROVE  CacheStep
<1>0. Free \notin Keys
  BY KeyAssumption DEF Free
<1>1. \A j \in Keys : Lookup(entries', j) =
                       IF j = k THEN NULL ELSE Lookup(entries, j)
  BY <1>0, OneSlot
<1>2. cacheBar' = [cacheBar EXCEPT ![k] = NULL]
  BY <1>1, CacheIsLookup
<1>3. cacheBar[k] = Absent
  <2>1. {i \in Slots : entries[i].key = k} = {}
    OBVIOUS
  <2> QED
    BY <2>1, CacheIsLookup DEF Lookup
<1>4. Cache!Register(k)
  BY <1>2, <1>3 DEF Cache!Register, cacheBar
<1> QED
  BY <1>4 DEF CacheStep, Cache!Next

LEMMA CacheInit == Init => Cache!Init
<1> SUFFICES ASSUME Init PROVE Cache!Init
  OBVIOUS
<1>1. \A i \in Slots : entries[i].key = Free
  BY DEF Init, FreeEntry, NewEntry
<1>2. \A k \in Keys : get_addr(k) = Absent
  BY <1>1, KeyAssumption DEF get_addr, entry_find, Free
<1> QED
  BY <1>2 DEF Cache!Init

LEMMA CacheNext ==
  ASSUME TypeOK, UniqueKeys, UniqueKeys', [Next]_vars
  PROVE  CacheStep
<1>0. Unique(entries) /\ Unique(entries')
  BY DEF Unique, UniqueKeys
<1>1. ASSUME \A i \in Slots : /\ entries'[i].key = entries[i].key
                              /\ entries'[i].addr = entries[i].addr
      PROVE  CacheStep
  BY <1>1, LookupSame, CacheIsLookup DEF CacheStep
<1>2. CASE Evaluate
  BY <1>1, <1>2, TrimmedEntry DEF Evaluate, TypeOK
<1>3. CASE Preempted \/ Expire \/ EndDiscovery \/ ClearDone \/ UNCHANGED vars
  BY <1>1, <1>3 DEF Preempted, Expire, EndDiscovery, ClearDone, vars
<1>4. CASE StartDiscovery
  BY <1>1, <1>4 DEF StartDiscovery, TypeOK, Entry
<1>5. CASE Tick
  <2>1. \A i \in Slots : /\ entries'[i].key = entries[i].key
                         /\ entries'[i].addr = entries[i].addr
    BY <1>5 DEF Tick, TypeOK, Entry
  <2> QED
    BY <1>1, <2>1
<1>6. CASE ForgetAddress
  <2> DEFINE f == plan.entry
  <2>1. /\ f \in Slots /\ entries[f] \in Entry
        /\ entries'[f].key = entries[f].key /\ entries'[f].addr = NULL
        /\ \A i \in Slots \ {f} : entries'[i] = entries[i]
    BY <1>6 DEF ForgetAddress, TypeOK, Entry
  <2> QED
    BY <1>0, <2>1, SlotAddress
<1>7. ASSUME NEW s \in Services, Respond(s) PROVE CacheStep
  <2>1. CASE FoundEntry(s) = {}
    BY <1>1, <1>7, <2>1 DEF Respond, service_found
  <2>2. CASE FoundEntry(s) # {}
    <3> DEFINE f == First(FoundEntry(s))
    <3>1. /\ f \in Slots /\ f \in FoundEntry(s) /\ entries[f] \in Entry
          /\ entries'[f].key = entries[f].key /\ entries'[f].addr = s
          /\ \A i \in Slots \ {f} : entries'[i] = entries[i]
      BY <1>7, <2>2, FoundStep DEF Respond, TypeOK
    <3>2. Cache!Answers(s, entries[f].key)
      BY <3>1 DEF FoundEntry, entry_find, Cache!Answers
    <3> HIDE DEF f
    <3> QED
      BY <1>0, <3>1, <3>2, SlotAddress
  <2> QED
    BY <2>1, <2>2
<1>8. ASSUME NEW k \in Keys, Register(k) PROVE CacheStep
  <2> DEFINE f == First(entry_find(Free))
  <2>1. f \in Slots /\ entries[f].key = Free
    BY <1>8, FirstIsIn DEF Register, entry_find
  <2>2. /\ entries'[f] = NewEntry(k)
        /\ \A i \in Slots \ {f} : entries'[i] = entries[i]
    BY <1>8, <2>1 DEF Register, TypeOK
  <2>3. entries'[f].key = k /\ entries'[f].addr = NULL
    BY <2>2 DEF NewEntry
  <2>4. \A i \in Slots : entries[i].key # k
    BY <1>8 DEF Register, entry_find
  <2> HIDE DEF f
  <2> QED
    BY <1>0, <2>1, <2>2, <2>3, <2>4, SlotRegistered
<1>9. ASSUME NEW f \in Slots, entries' = [entries EXCEPT ![f] = FreeEntry]
      PROVE  CacheStep
  <2>1. entries'[f] = FreeEntry /\ entries[f].key \in Keys \cup {Free}
        /\ \A i \in Slots \ {f} : entries'[i] = entries[i]
    BY <1>9 DEF TypeOK, Entry
  <2>2. entries'[f].key = Free
    BY <2>1 DEF FreeEntry, NewEntry
  <2> QED
    BY <1>0, <2>1, <2>2, SlotCleared
<1>10. ASSUME NEW k \in Keys, Unregister(k) PROVE CacheStep
  <2>1. First(entry_find(k)) \in Slots
    BY <1>10, FirstIsIn DEF Unregister, entry_find
  <2> QED
    BY <1>9, <1>10, <2>1 DEF Unregister
<1>11. CASE ClearEntry
  <2>1. clearing + 1 \in Slots
    BY <1>11, SizeAssumption DEF ClearEntry, TypeOK, Slots
  <2> QED
    BY <1>9, <1>11, <2>1 DEF ClearEntry
<1> QED
  BY <1>2, <1>3, <1>4, <1>5, <1>6, <1>7, <1>8, <1>10, <1>11
  DEF Next, ThreadStep, Change

(* The table with its thread implements the cache of DiscoveryCache: every *)
(* step changes at most the address of one key, by an answer of a service  *)
(* to this key, a timeout, a registration or its end, although the thread  *)
(* acts on an entry that may have been replaced since it chose it.         *)
THEOREM CacheImplemented == Spec => ImplementsCache
<1>1. TypeOK /\ UniqueKeys /\ UniqueKeys' /\ [Next]_vars
        => [Cache!Next]_cacheBar
  BY CacheNext DEF CacheStep
<1>2. cacheBar = [k \in Keys |-> get_addr(k)]
  BY DEF cacheBar
<1> QED
  BY TypeInit, TypeNext, UniqueInit, UniqueNext, CacheInit, <1>1, <1>2, PTL
  DEF Spec, ImplementsCache, Cache!Spec, cacheBar

-----------------------------------------------------------------------------
(* No wakeup is lost.  A plan is made for the earliest deadline, counting  *)
(* back does not move a deadline, and a tick moves the plan and every      *)
(* deadline alike: an age that has reached MaxAge belongs to a deadline    *)
(* that has passed, and then no time passes.                               *)

LEMMA DeadlineBound ==
  ASSUME NEW e \in Entry
  PROVE  /\ RetryDue(e) <= Forever /\ TimeoutDue(e) <= Forever
         /\ Forever \in Int /\ Forever > 0
         /\ entry_is_free(e) => RetryDue(e) = Forever /\ TimeoutDue(e) = Forever
         /\ ~entry_is_free(e) => RetryDue(e) < Forever
<1>1. /\ e.missed * MIN_SD_INTERVAL \in Nat
      /\ e.req # Never => e.req \in 0..MaxAge
      /\ e.rsp # Never => e.rsp \in 0..MaxAge
  BY Product DEF Entry, Ages
<1>2. RetryWait(e) \in 0..MAX_SD_INTERVAL
  BY <1>1, SizeAssumption DEF RetryWait, Lower
<1> QED
  BY <1>1, <1>2, SizeAssumption DEF RetryDue, TimeoutDue, Forever, AtOnce

LEMMA Monotone ==
  ASSUME NEW m \in Nat, NEW n \in Nat
  PROVE  m <= n <=> m * MIN_SD_INTERVAL <= n * MIN_SD_INTERVAL
  BY SizeAssumption

LEMMA TrimmedDue ==
  ASSUME NEW e \in Entry
  PROVE  /\ RetryDue(Trimmed(e)) = RetryDue(e)
         /\ TimeoutDue(Trimmed(e)) = TimeoutDue(e)
<1> DEFINE t == Trimmed(e)
<1>1. /\ t.key = e.key /\ t.addr = e.addr /\ t.req = e.req /\ t.rsp = e.rsp
      /\ e.missed \in Nat
  BY TrimmedEntry DEF Entry
<1>2. RetryWait(t) = RetryWait(e)
  <2>1. CASE t = e
    BY <2>1
  <2>2. CASE t # e
    <3>1. e.missed * MIN_SD_INTERVAL > MAX_SD_INTERVAL /\ t.missed = e.missed - 1
      BY <2>2 DEF Trimmed, Entry
    <3>2. PICK n \in 1..MAX_SD_INTERVAL :
            MAX_SD_INTERVAL = n * MIN_SD_INTERVAL
      BY IntervalAssumption
    <3>3. n \in Nat /\ n >= 1
      BY <3>2, SizeAssumption
    <3>4. ~(e.missed <= n)
      <4>1. /\ e.missed <= n <=> e.missed * MIN_SD_INTERVAL <= n * MIN_SD_INTERVAL
            /\ e.missed * MIN_SD_INTERVAL \in Nat
            /\ n * MIN_SD_INTERVAL \in Nat
        BY <1>1, <3>3, Monotone, Product
      <4> QED
        BY <3>1, <3>2, <4>1
    <3>5. t.missed \in Nat /\ t.missed >= n /\ t.missed > 0 /\ e.missed > 0
      BY <1>1, <3>1, <3>3, <3>4
    <3>6. t.missed * MIN_SD_INTERVAL >= MAX_SD_INTERVAL
      BY <3>2, <3>3, <3>5, Monotone, Product
    <3>7. /\ t.missed * MIN_SD_INTERVAL \in Nat
          /\ e.missed * MIN_SD_INTERVAL \in Nat
      BY <1>1, <3>5, Product
    <3> HIDE DEF t
    <3> QED
      BY <1>1, <3>1, <3>5, <3>6, <3>7, SizeAssumption DEF RetryWait, Lower
  <2> QED
    BY <2>1, <2>2
<1> HIDE DEF t
<1>3. RetryDue(t) = RetryDue(e) /\ TimeoutDue(t) = TimeoutDue(e)
  BY <1>1, <1>2 DEF RetryDue, TimeoutDue, entry_is_free
<1> QED
  BY <1>3 DEF t

LEMMA AgedDue ==
  ASSUME NEW e \in Entry, NEW due \in Int, due > 0, NEW t,
         t = [e EXCEPT !.req = Older(@), !.rsp = Older(@)],
         due <= RetryDue(e), due <= TimeoutDue(e)
  PROVE  /\ due - 1 <= RetryDue(t) /\ due - 1 <= TimeoutDue(t)
         /\ due = RetryDue(e) /\ due < Forever => due - 1 = RetryDue(t)
         /\ due = TimeoutDue(e) /\ due < Forever => due - 1 = TimeoutDue(t)
<1>1. /\ t.key = e.key /\ t.addr = e.addr /\ t.missed = e.missed
      /\ t.req = Older(e.req) /\ t.rsp = Older(e.rsp)
  BY DEF Entry
<1>2. /\ e.missed * MIN_SD_INTERVAL \in Nat
      /\ e.req # Never => e.req \in 0..MaxAge
      /\ e.rsp # Never => e.rsp \in 0..MaxAge
  BY Product DEF Entry, Ages
<1>3. RetryWait(e) \in 0..MAX_SD_INTERVAL /\ RetryWait(t) = RetryWait(e)
  BY <1>1, <1>2, SizeAssumption DEF RetryWait, Lower
<1>4. due <= Forever /\ Forever \in Int
  BY DeadlineBound, DeadlineTypes
<1>5. CASE entry_is_free(e)
  BY <1>1, <1>4, <1>5 DEF RetryDue, TimeoutDue, entry_is_free
<1>6. CASE ~entry_is_free(e)
  <2>1. e.req # Never /\ due <= RetryWait(e) - e.req
    BY <1>6, SizeAssumption DEF RetryDue, AtOnce
  <2>2. t.req = e.req + 1 /\ t.req # Never
    BY <1>1, <1>2, <1>3, <2>1, SizeAssumption DEF Older, Lower, Never
  <2>3. RetryDue(e) = RetryWait(e) - e.req /\ RetryDue(t) = RetryWait(e) - t.req
    BY <1>1, <1>3, <1>6, <2>1, <2>2 DEF RetryDue, entry_is_free
  <2>4. CASE e.rsp = Never \/ e.addr = NULL
    <3>1. TimeoutDue(e) = Forever /\ TimeoutDue(t) = Forever
      BY <1>1, <2>4 DEF TimeoutDue, Older
    <3> QED
      BY <1>2, <1>3, <1>4, <2>1, <2>2, <2>3, <3>1
  <2>5. CASE e.rsp # Never /\ e.addr # NULL
    <3>1. TimeoutDue(e) = TO_INTERVAL - e.rsp
      BY <1>6, <2>5 DEF TimeoutDue
    <3>2. t.rsp = e.rsp + 1 /\ t.rsp # Never
      BY <1>1, <1>2, <2>5, <3>1, SizeAssumption DEF Older, Lower, Never
    <3>3. TimeoutDue(t) = TO_INTERVAL - t.rsp
      BY <1>1, <1>6, <2>5, <3>2 DEF TimeoutDue, entry_is_free
    <3> QED
      BY <1>2, <1>3, <2>1, <2>2, <2>3, <2>5, <3>1, <3>2, <3>3, SizeAssumption
  <2> QED
    BY <2>4, <2>5
<1> QED
  BY <1>5, <1>6

DueLow ==
  pc = "wait" /\ wait_sem = 0 =>
    \A i \in Slots : /\ plan.due <= RetryDue(entries[i])
                     /\ plan.due <= TimeoutDue(entries[i])

IdleDue == plan.mode = "idle" <=> plan.due >= Forever

PlanInv == TypeOK /\ IdleDue /\ DueLow /\ PlanIsCurrent

LEMMA PlanInit == Init => PlanInv
  BY TypeInit, DeadlineBound DEF Init, PlanInv, NoPlan, IdleDue, DueLow,
     PlanIsCurrent, TypeOK

LEMMA EvaluatePlan ==
  ASSUME TypeOK, Evaluate
  PROVE  /\ IdleDue'
         /\ \A i \in Slots : /\ plan'.due <= RetryDue(entries'[i])
                             /\ plan'.due <= TimeoutDue(entries'[i])
         /\ \E i \in Slots : plan'.due \in {RetryDue(entries'[i]),
                                            TimeoutDue(entries'[i])}
<1> DEFINE retry == Earliest(retry_due)
           late  == Earliest(timeout_due)
<1>1. /\ retry_due \in [Slots -> Int] /\ timeout_due \in [Slots -> Int]
      /\ AtOnce \in Int /\ Forever \in Int
      /\ \A i \in Slots : /\ retry_due[i] >= AtOnce /\ retry_due[i] <= Forever
                          /\ timeout_due[i] >= AtOnce /\ timeout_due[i] <= Forever
  BY DeadlineTypes, DeadlineBound, SizeAssumption
  DEF TypeOK, retry_due, timeout_due, AtOnce, Forever
<1>2. /\ retry \in Slots /\ late \in Slots
      /\ \A i \in Slots : /\ retry_due[retry] <= retry_due[i]
                          /\ timeout_due[late] <= timeout_due[i]
  BY <1>1, EarliestIsLeast
<1> HIDE DEF retry, late
<1>3. \A i \in Slots : /\ RetryDue(entries'[i]) = retry_due[i]
                       /\ TimeoutDue(entries'[i]) = timeout_due[i]
  BY TrimmedDue DEF Evaluate, TypeOK, retry_due, timeout_due
<1>4. plan' = IF timeout_due[late] < retry_due[retry]
              THEN [mode |-> "timeout", entry |-> late, due |-> timeout_due[late]]
              ELSE IF retry_due[retry] < Forever
              THEN [mode |-> "discover", entry |-> retry, due |-> retry_due[retry]]
              ELSE NoPlan
  BY DEF Evaluate, retry, late
<1>5. CASE timeout_due[late] < retry_due[retry]
  <2>1. plan'.mode = "timeout" /\ plan'.due = timeout_due[late]
    BY <1>4, <1>5
  <2> QED
    BY <1>1, <1>2, <1>3, <1>5, <2>1 DEF IdleDue, Forever
<1>6. CASE ~(timeout_due[late] < retry_due[retry]) /\ retry_due[retry] < Forever
  <2>1. plan'.mode = "discover" /\ plan'.due = retry_due[retry]
    BY <1>4, <1>6
  <2> QED
    BY <1>1, <1>2, <1>3, <1>6, <2>1 DEF IdleDue, Forever
<1>7. CASE /\ ~(timeout_due[late] < retry_due[retry])
           /\ ~(retry_due[retry] < Forever)
  <2>1. plan'.mode = "idle" /\ plan'.due = Forever
    BY <1>4, <1>7 DEF NoPlan
  <2> QED
    BY <1>1, <1>2, <1>3, <1>7, <2>1 DEF IdleDue, Forever
<1> QED
  BY <1>5, <1>6, <1>7

LEMMA PlanNext == PlanInv /\ [Next]_vars => PlanInv'
<1> SUFFICES ASSUME PlanInv, [Next]_vars PROVE PlanInv'
  OBVIOUS
<1>0. TypeOK /\ TypeOK'
  BY TypeNext DEF PlanInv
<1>1. CASE Evaluate
  BY <1>0, <1>1, EvaluatePlan DEF PlanInv, DueLow, PlanIsCurrent
<1>2. CASE Preempted \/ ForgetAddress \/ StartDiscovery
  <2>1. pc' # "wait" /\ plan' = NoPlan
    BY <1>2 DEF Preempted, ForgetAddress, StartDiscovery
  <2>2. IdleDue'
    BY <2>1, SizeAssumption DEF IdleDue, NoPlan, Forever
  <2> QED
    BY <1>0, <2>1, <2>2 DEF PlanInv, DueLow, PlanIsCurrent
<1>3. CASE Expire \/ EndDiscovery
  <2>1. pc' # "wait" /\ plan' = plan
    BY <1>3 DEF Expire, EndDiscovery
  <2> QED
    BY <1>0, <2>1 DEF PlanInv, DueLow, PlanIsCurrent, IdleDue, Forever
<1>4. ASSUME plan' = plan, pc' = "wait" => wait_sem' = 1 PROVE PlanInv'
  BY <1>0, <1>4 DEF PlanInv, DueLow, PlanIsCurrent, IdleDue, Forever
<1>5. ASSUME NEW s \in Services, Respond(s) PROVE PlanInv'
  BY <1>4, <1>5 DEF Respond
<1>6. ASSUME NEW k \in Keys, Register(k) \/ Unregister(k) PROVE PlanInv'
  BY <1>4, <1>6 DEF Register, Unregister
<1>7. CASE ClearDone
  BY <1>4, <1>7 DEF ClearDone
<1>8. CASE ClearEntry
  <2>1. /\ UNCHANGED <<plan, pc, wait_sem>> /\ clearing' # 0
        /\ \A i \in Slots : entries'[i] = entries[i] \/ entries'[i] = FreeEntry
    BY <1>0, <1>8 DEF ClearEntry, TypeOK
  <2>2. /\ FreeEntry \in Entry /\ entry_is_free(FreeEntry)
        /\ RetryDue(FreeEntry) = Forever /\ TimeoutDue(FreeEntry) = Forever
    BY NewEntryType, DeadlineBound DEF FreeEntry, NewEntry, entry_is_free
  <2>3. pc = "wait" /\ wait_sem = 0 => plan.due <= Forever
    <3>1. PICK i \in Slots : TRUE
      BY SizeAssumption DEF Slots
    <3>2. /\ RetryDue(entries[i]) <= Forever /\ RetryDue(entries[i]) \in Int
          /\ Forever \in Int /\ plan.due \in Int
      BY <1>0, DeadlineBound, DeadlineTypes DEF TypeOK
    <3> QED
      BY <3>2 DEF PlanInv, DueLow
  <2> QED
    BY <1>0, <2>1, <2>2, <2>3 DEF PlanInv, DueLow, PlanIsCurrent, IdleDue, Forever
<1>9. CASE Tick
  <2>1. CASE pc # "wait"
    <3>1. pc' # "wait" /\ plan' = plan
      BY <1>9, <2>1 DEF Tick
    <3> QED
      BY <1>0, <3>1 DEF PlanInv, DueLow, PlanIsCurrent, IdleDue, Forever
  <2>2. CASE pc = "wait"
    <3>1. /\ wait_sem = 0 /\ UNCHANGED <<pc, wait_sem, clearing>>
          /\ plan.mode = "idle" \/ plan.due > 0
          /\ plan' = IF plan.mode # "idle"
                     THEN [plan EXCEPT !.due = plan.due - 1] ELSE plan
      BY <1>9, <2>2 DEF Tick, Blocked
    <3>2. plan.due > 0 /\ plan.due \in Int /\ Forever \in Int
      BY <1>0, <3>1, SizeAssumption DEF PlanInv, IdleDue, TypeOK, Forever
    <3>3. \A i \in Slots :
            /\ plan.due - 1 <= RetryDue(entries'[i])
            /\ plan.due - 1 <= TimeoutDue(entries'[i])
            /\ plan.due = RetryDue(entries[i]) /\ plan.due < Forever
                 => plan.due - 1 = RetryDue(entries'[i])
            /\ plan.due = TimeoutDue(entries[i]) /\ plan.due < Forever
                 => plan.due - 1 = TimeoutDue(entries'[i])
      <4> TAKE i \in Slots
      <4>1. entries[i] \in Entry
        BY <1>0 DEF TypeOK
      <4>2. entries'[i] = [entries[i] EXCEPT !.req = Older(@),
                                            !.rsp = Older(@)]
        BY <1>0, <1>9 DEF TypeOK, Tick
      <4>3. /\ plan.due <= RetryDue(entries[i])
            /\ plan.due <= TimeoutDue(entries[i])
        BY <2>2, <3>1 DEF PlanInv, DueLow
      <4> DEFINE e == entries[i]
                 t == entries'[i]
                 due == plan.due
      <4>4. /\ e \in Entry /\ due \in Int /\ due > 0
            /\ t = [e EXCEPT !.req = Older(@), !.rsp = Older(@)]
            /\ due <= RetryDue(e) /\ due <= TimeoutDue(e)
        BY <3>2, <4>1, <4>2, <4>3
      <4> HIDE DEF e, t, due
      <4>5. /\ due - 1 <= RetryDue(t) /\ due - 1 <= TimeoutDue(t)
            /\ due = RetryDue(e) /\ due < Forever => due - 1 = RetryDue(t)
            /\ due = TimeoutDue(e) /\ due < Forever => due - 1 = TimeoutDue(t)
        BY <4>4, AgedDue
      <4> QED
        BY <4>5 DEF e, t, due
    <3>4. CASE plan.mode # "idle"
      <4>1. plan'.due = plan.due - 1 /\ plan'.mode = plan.mode
        BY <1>0, <3>1, <3>4 DEF TypeOK
      <4>2. plan.due < Forever
        BY <3>2, <3>4 DEF PlanInv, IdleDue
      <4>3. IdleDue'
        BY <3>2, <3>4, <4>1, <4>2 DEF IdleDue, Forever
      <4>4. DueLow'
        BY <3>3, <4>1 DEF DueLow
      <4>5. PlanIsCurrent'
        BY <2>2, <3>1, <3>3, <4>1, <4>2 DEF PlanInv, PlanIsCurrent
      <4> QED
        BY <1>0, <4>3, <4>4, <4>5 DEF PlanInv
    <3>5. CASE plan.mode = "idle"
      <4>1. ASSUME NEW i \in Slots
            PROVE  /\ RetryDue(entries'[i]) = Forever
                   /\ TimeoutDue(entries'[i]) = Forever
        <5>1. entries[i] \in Entry /\ entries'[i] \in Entry
              /\ RetryDue(entries[i]) \in Int
          BY <1>0, DeadlineTypes DEF TypeOK
        <5>2. plan.due >= Forever /\ plan.due <= RetryDue(entries[i])
          BY <2>2, <3>1, <3>5 DEF PlanInv, IdleDue, DueLow
        <5>3. entry_is_free(entries[i])
          BY <3>2, <5>1, <5>2, DeadlineBound
        <5>4. entries'[i].key = entries[i].key
          BY <1>0, <1>9, <5>1 DEF Tick, TypeOK, Entry
        <5> QED
          BY <5>1, <5>3, <5>4, DeadlineBound DEF entry_is_free
      <4>2. plan' = plan /\ plan.due = Forever
        <5>1. PICK i \in Slots : TRUE
          BY SizeAssumption DEF Slots
        <5>2. /\ RetryDue(entries[i]) <= Forever /\ RetryDue(entries[i]) \in Int
              /\ plan.due <= RetryDue(entries[i]) /\ plan.due >= Forever
          BY <1>0, <2>2, <3>1, <3>5, DeadlineBound, DeadlineTypes
          DEF TypeOK, PlanInv, IdleDue, DueLow
        <5> QED
          BY <3>1, <3>2, <3>5, <5>2
      <4>3. PICK i \in Slots : TRUE
        BY SizeAssumption DEF Slots
      <4> QED
        BY <1>0, <3>2, <4>1, <4>2, <4>3
        DEF PlanInv, DueLow, PlanIsCurrent, IdleDue, Forever
    <3> QED
      BY <3>4, <3>5
  <2> QED
    BY <2>1, <2>2
<1>10. CASE UNCHANGED vars
  BY <1>0, <1>10 DEF vars, PlanInv, DueLow, PlanIsCurrent, IdleDue, Forever
<1> QED
  BY <1>1, <1>2, <1>3, <1>5, <1>6, <1>7, <1>8, <1>9, <1>10
  DEF Next, ThreadStep, Change

(* No wakeup is lost: a thread that waits with nothing signalled waits for *)
(* the earliest deadline of the table as it is now.                        *)
THEOREM PlanIsCurrentHolds == Spec => []PlanIsCurrent
<1>1. PlanInv => PlanIsCurrent
  BY DEF PlanInv
<1> QED
  BY PlanInit, PlanNext, <1>1, PTL DEF Spec

-----------------------------------------------------------------------------
(* No stale address: an address has been answered, and its timeout is one  *)
(* of the deadlines the thread waits for.                                  *)

Answered == \A i \in Slots : entries[i].addr # NULL => entries[i].rsp # Never

LEMMA AnsweredInit == Init => Answered
  BY DEF Init, Answered, FreeEntry, NewEntry

LEMMA AnsweredNext == TypeOK /\ Answered /\ [Next]_vars => Answered'
<1> SUFFICES ASSUME TypeOK, Answered, [Next]_vars PROVE Answered'
  OBVIOUS
<1>1. ASSUME \A i \in Slots :
               \/ entries'[i].addr = NULL
               \/ /\ entries'[i].addr = entries[i].addr
                  /\ entries[i].rsp # Never => entries'[i].rsp # Never
      PROVE  Answered'
  BY <1>1 DEF Answered
<1>2. CASE Evaluate
  BY <1>1, <1>2, TrimmedEntry DEF Evaluate, TypeOK
<1>3. CASE Preempted \/ Expire \/ EndDiscovery \/ ClearDone \/ UNCHANGED vars
  BY <1>1, <1>3 DEF Preempted, Expire, EndDiscovery, ClearDone, vars
<1>4. CASE ForgetAddress \/ StartDiscovery
  BY <1>1, <1>4 DEF ForgetAddress, StartDiscovery, TypeOK, Entry
<1>5. ASSUME NEW s \in Services, Respond(s) PROVE Answered'
  <2>1. CASE FoundEntry(s) = {}
    BY <1>1, <1>5, <2>1 DEF Respond, service_found
  <2>2. CASE FoundEntry(s) # {}
    <3>1. PICK f \in Slots : /\ entries'[f].rsp = 0
                             /\ \A i \in Slots \ {f} : entries'[i] = entries[i]
      BY <1>5, <2>2, FoundStep DEF Respond
    <3> QED
      BY <3>1 DEF Answered, Never
  <2> QED
    BY <2>1, <2>2
<1>6. ASSUME NEW f, NEW k, entries' = [entries EXCEPT ![f] = NewEntry(k)]
      PROVE  Answered'
  <2>1. NewEntry(k).addr = NULL
    BY DEF NewEntry
  <2> QED
    BY <1>1, <1>6, <2>1 DEF TypeOK
<1>7. ASSUME NEW k \in Keys, Register(k) \/ Unregister(k) PROVE Answered'
  BY <1>6, <1>7 DEF Register, Unregister, FreeEntry
<1>8. CASE ClearEntry
  BY <1>6, <1>8 DEF ClearEntry, FreeEntry
<1>9. CASE Tick
  <2>1. \A i \in Slots : /\ entries'[i].addr = entries[i].addr
                         /\ entries'[i].rsp = Never <=> entries[i].rsp = Never
    BY <1>9, OlderAge DEF Tick, TypeOK, Entry
  <2> QED
    BY <1>1, <2>1
<1> QED
  BY <1>2, <1>3, <1>4, <1>5, <1>7, <1>8, <1>9 DEF Next, ThreadStep, Change

(* While the thread waits (and not during a discovery), no entry in use    *)
(* holds an address whose last answer is older than TO_INTERVAL.           *)
THEOREM NoStaleAddressHolds == Spec => []NoStaleAddress
<1>1. PlanInv /\ Answered => NoStaleAddress
  <2> SUFFICES ASSUME PlanInv, Answered, pc = "wait", Blocked, NEW i \in Slots,
                      entries[i].addr # NULL, entries[i].key # Free
               PROVE  entries[i].rsp \in 0..TO_INTERVAL
    BY DEF NoStaleAddress
  <2>1. /\ TimeoutDue(entries[i]) = TO_INTERVAL - entries[i].rsp
        /\ entries[i].rsp \in 0..MaxAge
    BY DEF Answered, TimeoutDue, entry_is_free, PlanInv, TypeOK, Entry, Ages
  <2>2. /\ plan.due > 0 /\ plan.due \in Int
        /\ plan.due <= TimeoutDue(entries[i])
    BY SizeAssumption DEF Blocked, PlanInv, IdleDue, DueLow, TypeOK, Forever
  <2> QED
    BY <2>1, <2>2, SizeAssumption
<1> QED
  BY PlanInit, PlanNext, AnsweredInit, AnsweredNext, <1>1, PTL
  DEF Spec, PlanInv
=============================================================================
