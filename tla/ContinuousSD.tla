---------------------------- MODULE ContinuousSD ----------------------------
(***************************************************************************)
(* Continuous service discovery (lib/continuous_sd.c with the client of    *)
(* lib/coap_sd.c): a table of the services a device talks to, and a thread *)
(* that keeps their addresses fresh by multicast discovery.                *)
(*                                                                         *)
(* Every section under entries_mutex is one step.  The thread computes     *)
(* what to do next under the mutex, then waits for it on a semaphore with  *)
(* the mutex released, and locks it again to act on the entry it has       *)
(* chosen: users register and unregister in between.  Timestamps are kept  *)
(* as ages, the time passed since.                                         *)
(*                                                                         *)
(* A key is the value that name and type have when they are registered,    *)
(* and stays it.  The code keeps pointers: what becomes of an entry when   *)
(* its label is overwritten is modelled by Notification and Switch.        *)
(***************************************************************************)
EXTENDS Integers, FiniteSets

CONSTANTS
  NumEntries,       \* NUM_ENTRIES
  Keys,             \* <<name, type>> pairs that users register
  Services,         \* <<name, type>> of the services in the network
  NULL, Absent,
  MIN_SD_INTERVAL, MAX_SD_INTERVAL, TO_INTERVAL,  \* in ticks
  Window,           \* receive timeout of coap_sd_start()
  MaxResponses,     \* bound of the responses in one discovery
  MaxAge            \* bound of the ages: greater ones make no difference

ASSUME SizeAssumption ==
  /\ NumEntries \in Nat \ {0}
  /\ MIN_SD_INTERVAL \in Nat \ {0}
  /\ MAX_SD_INTERVAL \in Nat /\ MAX_SD_INTERVAL >= MIN_SD_INTERVAL
  /\ TO_INTERVAL \in Nat
  /\ Window \in Nat
  /\ MaxResponses \in Nat
  /\ MaxAge \in Nat
  /\ MaxAge >= TO_INTERVAL /\ MaxAge >= MAX_SD_INTERVAL

(* 10 s and 10 min: counting sd_missed back does not shorten the wait. *)
ASSUME IntervalAssumption ==
  \E n \in 1..MAX_SD_INTERVAL : MAX_SD_INTERVAL = n * MIN_SD_INTERVAL

ASSUME KeyAssumption ==
  /\ <<NULL, NULL>> \notin Keys
  /\ NULL \notin Services /\ Absent \notin Services /\ NULL # Absent

VARIABLES
  entries,    \* the table
  wait_sem,   \* binary semaphore: something has changed
  pc,         \* "eval", "wait", "expired" or "discovering"
  plan,       \* what the thread has decided on in this iteration
  request,    \* name and type of the discovery in progress
  window,     \* ticks until the discovery gives up waiting
  responses,  \* responses it has received
  clearing    \* entries cleared by a continuous_sd_unregister_all() under way

vars == <<entries, wait_sem, pc, plan, request, window, responses, clearing>>
discovery == <<request, window, responses>>

Slots == 1..NumEntries
Free  == <<NULL, NULL>>
Never == -1                           \* a timestamp of 0
Forever == MaxAge + MAX_SD_INTERVAL + TO_INTERVAL   \* INT64_MAX
AtOnce  == -MaxAge - 1                              \* the timestamp 0

NewEntry(k) == [key |-> k, addr |-> NULL, missed |-> 0,
                req |-> Never, rsp |-> Never]
FreeEntry == NewEntry(Free)
NoPlan == [mode |-> "idle", entry |-> 1, due |-> Forever]

Init ==
  /\ entries = [i \in Slots |-> FreeEntry]
  /\ wait_sem = 0
  /\ pc = "eval"
  /\ plan = NoPlan
  /\ request = Free /\ window = 0 /\ responses = 0
  /\ clearing = 0

-----------------------------------------------------------------------------
(* Looking entries up, and their deadlines as the time left until them. *)

entry_is_free(e) == e.key = Free
entry_find(k) == {i \in Slots : entries[i].key = k}
First(S) == CHOOSE i \in S : \A j \in S : i <= j

Lower(a, b) == IF a < b THEN a ELSE b

RetryWait(e) ==
  IF e.missed > 0 THEN Lower(e.missed * MIN_SD_INTERVAL, MAX_SD_INTERVAL)
                  ELSE MAX_SD_INTERVAL

MutGiveUp(e) ==   \* mutant of RetryDue: no retry after too many misses
  IF entry_is_free(e) \/ e.missed * MIN_SD_INTERVAL > MAX_SD_INTERVAL THEN Forever
  ELSE IF e.req = Never THEN AtOnce ELSE RetryWait(e) - e.req

RetryDue(e) ==
  IF entry_is_free(e) THEN Forever
  ELSE IF e.req = Never THEN AtOnce ELSE RetryWait(e) - e.req

TimeoutDue(e) ==
  IF entry_is_free(e) \/ e.rsp = Never \/ e.addr = NULL THEN Forever
  ELSE TO_INTERVAL - e.rsp

(* Computing the next retry also counts an entry that has missed too many  *)
(* requests for MAX_SD_INTERVAL back by one.                               *)
Trimmed(e) ==
  IF /\ ~entry_is_free(e) /\ e.req # Never
     /\ e.missed * MIN_SD_INTERVAL > MAX_SD_INTERVAL
  THEN [e EXCEPT !.missed = @ - 1]
  ELSE e

Earliest(due) ==   \* the first of the entries with the least deadline
  First({i \in Slots : \A j \in Slots : due[i] <= due[j]})

retry_due   == [i \in Slots |-> RetryDue(entries[i])]
timeout_due == [i \in Slots |-> TimeoutDue(entries[i])]

-----------------------------------------------------------------------------
(* The thread. *)

MutRetryFirst ==   \* mutant of Evaluate: a retry is preferred to a timeout
  /\ pc = "eval"
  /\ entries' = [i \in Slots |-> Trimmed(entries[i])]
  /\ LET retry == Earliest(retry_due)
         next_retry == retry_due[retry]
     IN  plan' = IF next_retry < Forever
                 THEN [mode |-> "discover", entry |-> retry, due |-> next_retry]
                 ELSE NoPlan
  /\ pc' = "wait"
  /\ UNCHANGED <<wait_sem, discovery, clearing>>

Evaluate ==
  /\ pc = "eval"
  /\ entries' = [i \in Slots |-> Trimmed(entries[i])]
  /\ LET retry == Earliest(retry_due)
         late  == Earliest(timeout_due)
         next_retry == retry_due[retry]
         next_timeout == timeout_due[late]
     IN  plan' = IF next_timeout < next_retry
                 THEN [mode |-> "timeout", entry |-> late, due |-> next_timeout]
                 ELSE IF next_retry < Forever
                 THEN [mode |-> "discover", entry |-> retry, due |-> next_retry]
                 ELSE NoPlan
  /\ pc' = "wait"
  /\ UNCHANGED <<wait_sem, discovery, clearing>>

Preempted ==   \* k_sem_take() returns 0: check again what to do
  /\ pc = "wait" /\ wait_sem = 1
  /\ wait_sem' = 0
  /\ pc' = "eval"
  /\ plan' = NoPlan
  /\ UNCHANGED <<entries, discovery, clearing>>

Expire ==      \* k_sem_take() returns -EAGAIN, the mutex is not held yet
  /\ pc = "wait" /\ wait_sem = 0 /\ plan.mode # "idle" /\ plan.due <= 0
  /\ pc' = "expired"
  /\ UNCHANGED <<entries, wait_sem, plan, discovery, clearing>>

ForgetAddress ==
  /\ pc = "expired" /\ plan.mode = "timeout"
  /\ entries' = [entries EXCEPT ![plan.entry].addr = NULL]
  /\ pc' = "eval"
  /\ plan' = NoPlan
  /\ UNCHANGED <<wait_sem, discovery, clearing>>

MutNoRequestTime ==   \* mutant of StartDiscovery: last_req_timestamp not set
  /\ pc = "expired" /\ plan.mode = "discover"
  /\ entries' = [entries EXCEPT ![plan.entry].missed = @ + 1]
  /\ plan' = NoPlan
  /\ pc' = "discovering"
  /\ request' = entries[plan.entry].key
  /\ window' = Window
  /\ UNCHANGED <<responses, wait_sem, clearing>>

StartDiscovery ==   \* coap_sd_start() sends, or fails to
  /\ pc = "expired" /\ plan.mode = "discover"
  /\ entries' = [entries EXCEPT ![plan.entry].missed = @ + 1,
                                ![plan.entry].req = 0]
  /\ plan' = NoPlan
  /\ \/ /\ pc' = "discovering"
        /\ request' = entries[plan.entry].key
        /\ window' = Window
        /\ UNCHANGED responses
     \/ /\ pc' = "eval"
        /\ UNCHANGED discovery
  /\ UNCHANGED <<wait_sem, clearing>>

(* The client of coap_sd.c drops what it has not asked for.  (It compares  *)
(* no more than has been received, so that a name also matches its         *)
(* beginnings; among the names of this module there are none.)             *)
Matches(s) ==
  /\ request[1] \in {NULL, s[1]}
  /\ request[2] \in {NULL, s[2]}

MutAnyName(s) ==   \* mutant of FoundEntry: the fallback ignores the name
  IF entry_find(s) # {} THEN entry_find(s)
  ELSE {i \in Slots : entries[i].key # Free /\ entries[i].key[2] = NULL}

FoundEntry(s) ==
  IF entry_find(s) # {} THEN entry_find(s) ELSE entry_find(<<s[1], NULL>>)

service_found(s) ==
  IF FoundEntry(s) = {} THEN UNCHANGED <<entries, wait_sem>>
  ELSE /\ entries' = [entries EXCEPT ![First(FoundEntry(s))] =
                        [@ EXCEPT !.rsp = 0, !.addr = s, !.missed = 0]]
       /\ wait_sem' = 1

Respond(s) ==
  /\ pc = "discovering" /\ responses < MaxResponses /\ Matches(s)
  /\ service_found(s)
  /\ responses' = responses + 1
  /\ window' = Window
  /\ UNCHANGED <<pc, plan, request, clearing>>

EndDiscovery ==
  /\ pc = "discovering" /\ window = 0
  /\ pc' = "eval"
  /\ request' = Free /\ responses' = 0
  /\ UNCHANGED <<entries, wait_sem, plan, window, clearing>>

-----------------------------------------------------------------------------
(* Users of the table. *)

MutNoGive(k) ==   \* mutant of Register: wait_sem is not given
  /\ entry_find(k) = {}
  /\ entry_find(Free) # {}
  /\ entries' = [entries EXCEPT ![First(entry_find(Free))] = NewEntry(k)]
  /\ UNCHANGED <<wait_sem, pc, plan, discovery, clearing>>

Register(k) ==   \* continuous_sd_register(): -EALREADY and -ENOMEM do nothing
  /\ entry_find(k) = {}
  /\ entry_find(Free) # {}
  /\ entries' = [entries EXCEPT ![First(entry_find(Free))] = NewEntry(k)]
  /\ wait_sem' = 1
  /\ UNCHANGED <<pc, plan, discovery, clearing>>

Unregister(k) ==   \* continuous_sd_unregister(): -ENOENT does nothing
  /\ entry_find(k) # {}
  /\ entries' = [entries EXCEPT ![First(entry_find(k))] = FreeEntry]
  /\ wait_sem' = 1
  /\ UNCHANGED <<pc, plan, discovery, clearing>>

(* continuous_sd_unregister_all() takes the mutex once per entry, and      *)
(* gives the semaphore in the end.                                         *)
ClearEntry ==
  /\ clearing < NumEntries
  /\ entries' = [entries EXCEPT ![clearing + 1] = FreeEntry]
  /\ clearing' = clearing + 1
  /\ UNCHANGED <<wait_sem, pc, plan, discovery>>

ClearDone ==
  /\ clearing = NumEntries
  /\ wait_sem' = 1
  /\ clearing' = 0
  /\ UNCHANGED <<entries, pc, plan, discovery>>

get_addr(k) ==   \* continuous_sd_get_addr(): Absent for -ENOENT
  IF entry_find(k) = {} THEN Absent ELSE entries[First(entry_find(k))].addr

-----------------------------------------------------------------------------
(* Time passes while the thread is blocked. *)

Blocked ==
  \/ pc = "wait" /\ wait_sem = 0 /\ (plan.mode = "idle" \/ plan.due > 0)
  \/ pc = "discovering" /\ window > 0

Older(age) == IF age = Never THEN Never ELSE Lower(age + 1, MaxAge)

Tick ==
  /\ Blocked
  /\ entries' = [i \in Slots |-> [entries[i] EXCEPT !.req = Older(@),
                                                    !.rsp = Older(@)]]
  /\ plan' = IF pc = "wait" /\ plan.mode # "idle"
             THEN [plan EXCEPT !.due = @ - 1] ELSE plan
  /\ window' = IF window > 0 THEN window - 1 ELSE 0
  /\ UNCHANGED <<wait_sem, pc, request, responses, clearing>>

ThreadStep ==
  \/ Evaluate \/ Preempted \/ Expire
  \/ ForgetAddress \/ StartDiscovery \/ EndDiscovery

Change == \/ \E k \in Keys : Register(k) \/ Unregister(k)
          \/ ClearEntry

Next ==
  \/ ThreadStep
  \/ \E s \in Services : Respond(s)
  \/ Change
  \/ ClearDone
  \/ Tick

Spec == Init /\ [][Next]_vars

Sent(i) == StartDiscovery /\ plan.entry = i /\ pc' = "discovering"

(* The scheduler runs the thread, a call of continuous_sd_unregister_all() *)
(* ends, time passes, the network does not refuse the requests of an entry *)
(* for ever, and a service that is asked again and again answers again and *)
(* again.                                                                  *)
Fairness ==
  /\ WF_vars(ThreadStep) /\ WF_vars(ClearDone) /\ WF_vars(Tick)
  /\ \A i \in Slots : SF_vars(Sent(i))
  /\ \A s \in Services : SF_vars(Respond(s))

FairSpec == Spec /\ Fairness

-----------------------------------------------------------------------------
(* Properties. *)

Ages == {Never} \cup 0..MaxAge

Entry == [key: Keys \cup {Free}, addr: Services \cup {NULL}, missed: Nat,
          req: Ages, rsp: Ages]

TypeOK ==
  /\ entries \in [Slots -> Entry]
  /\ wait_sem \in {0, 1}
  /\ pc \in {"eval", "wait", "expired", "discovering"}
  /\ plan \in [mode: {"idle", "timeout", "discover"}, entry: Slots, due: Int]
  /\ request \in Keys \cup {Free}
  /\ window \in 0..Window /\ responses \in 0..MaxResponses
  /\ clearing \in 0..NumEntries

(* sd_missed counts at most one request beyond MAX_SD_INTERVAL, although   *)
(* it is incremented in one critical section and counted back in another   *)
(* that runs as often as the thread is woken up: the retry interval stays  *)
(* proportional to it and "sd_missed * MIN_SD_INTERVAL" never overflows.   *)
MissedBound ==
  \A i \in Slots :
    entries[i].missed * MIN_SD_INTERVAL <= MAX_SD_INTERVAL + MIN_SD_INTERVAL

(* No wakeup is lost: while the thread waits with nothing signalled, what  *)
(* it waits for is the earliest deadline of the table as it is now,        *)
(* whatever users have registered and unregistered since it computed it.   *)
PlanIsCurrent ==
  pc = "wait" /\ wait_sem = 0 /\ clearing = 0 =>
    /\ \A i \in Slots : /\ plan.due <= RetryDue(entries[i])
                        /\ plan.due <= TimeoutDue(entries[i])
    /\ \E i \in Slots : plan.due \in {RetryDue(entries[i]),
                                       TimeoutDue(entries[i])}

(* An address is used for at most TO_INTERVAL after the last answer while  *)
(* the thread waits: no entry then holds an older one.  During a discovery *)
(* it may get older.                                                       *)
NoStaleAddress ==
  pc = "wait" /\ Blocked =>
    \A i \in Slots : entries[i].addr # NULL /\ entries[i].key # Free =>
      entries[i].rsp \in 0..TO_INTERVAL

(* A key is never registered twice, as long as names are not overwritten:  *)
(* users register what they have registered already (prov_store() of       *)
(* prjcnt adds its targets before it resets them).                         *)
UniqueKeys ==
  \A i, j \in Slots :
    entries[i].key = entries[j].key /\ entries[i].key # Free => i = j

(* The table implements the cache its users see through                    *)
(* continuous_sd_get_addr(): an address in it is that of a service that    *)
(* answers to the key, and a new registration starts without one.          *)
Cache == INSTANCE DiscoveryCache WITH cache <- [k \in Keys |-> get_addr(k)]
ImplementsCache == Cache!Spec

(* Once users leave the table alone, every registered entry is requested,  *)
(* however many others there are: the zero timestamp of a new one wins.    *)
EveryoneIsAsked ==
  <>[][~Change]_vars =>
    <>[](\A i \in Slots : entries[i].key # Free => entries[i].req # Never)

(* Once users leave the table alone, a key that a service answers to has   *)
(* its address again and again, although requests and answers are lost.    *)
Resolved ==
  <>[][~Change]_vars =>
    \A k \in Keys :
      (\E s \in Services : Cache!Answers(s, k)) => []<>(get_addr(k) # NULL)
=============================================================================
