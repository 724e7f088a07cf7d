------------------------------ MODULE HeatCtlr ------------------------------
(***************************************************************************)
(* The heating of one location of the thermostat: the data of the          *)
(* dispatcher (temp_tscrn/src/data_dispatcher.c), its on-off and PID       *)
(* controllers (ctlr.c), the relay output (output.c) and the timeout of    *)
(* the projector state (prj_timeout.c).  Locations share threads, and no   *)
(* data.                                                                   *)
(*                                                                         *)
(* Callbacks run in the thread that publishes.  The CoAP server (priority  *)
(* 2) and the sensor thread (14) are modelled access by access, for the    *)
(* threads above them preempt them anywhere: the work queue (-1), the      *)
(* touch thread (0), and the PWM and PID threads (1).  Each turn of those  *)
(* is one step: what may preempt it only ends a projector state or a       *)
(* forced switching, and it reads those once.  Sleeps and timers may end   *)
(* at any time.                                                            *)
(***************************************************************************)
EXTENDS Integers

CONSTANTS
  Loc, CTLR_LOC,       \* the location of this model, and that of the relay
  TEMP_MIN,            \* lower measurements are errors
  Temps, Settings,     \* measured and set temperatures
  Controllers,         \* [mode, p, i]: p is the hysteresis of on-off control
  OUT_MAX,             \* UINT16_MAX, the full output
  Switches,            \* numbers of forced switches asked for
  Validities,          \* of projector notifications, in milliseconds
  Live                 \* no value of its own, but a pointer to the store

ONOFF == "onoff"       \* DATA_CTLR_ONOFF
PID == "pid"           \* DATA_CTLR_PID
Stopped == -1          \* the state of a timer

ASSUME HeatAssumption ==
  /\ TEMP_MIN \in Int /\ Temps \subseteq Int /\ Settings \subseteq Nat
  /\ OUT_MAX \in Nat \ {0} /\ Live \notin Int
  /\ Controllers \subseteq [mode: {ONOFF, PID}, p: Nat, i: Nat]
  /\ Switches \subseteq Nat /\ Validities \subseteq Nat \ {0}

VARIABLES
  meas, sett, ctlr, output, prj, forced,  \* the store of the dispatcher
  out_mode,    \* ctlr_mode of output.c
  relay,       \* its relay
  dwork,       \* forced_switching_dwork is scheduled
  pwm,         \* what the PWM thread sleeps in
  pwm_off,     \* its time_off is not zero
  wake,        \* k_wakeup() has made it ready
  integral,    \* pid_data.i
  timer,       \* the duration projector_timers has been started with
  thr          \* the CoAP and the sensor thread

relays == <<out_mode, relay, dwork, pwm, pwm_off, wake>>
prjs   == <<prj, timer>>
vars   == <<meas, sett, ctlr, output, forced, relays, integral, prjs, thr>>

(* A thread compares a measurement and a setting, publishes val, more: and *)
(* compares once more, and ctlr: output.c has yet to hear of a controller. *)
(* The number of switches, or the validity, it has received is arg.        *)
Idle == [pc |-> "idle", meas |-> Live, sett |-> Live, val |-> Live,
         more |-> FALSE, arg |-> 0, ctlr |-> FALSE]

Init ==
  /\ sett \in Settings /\ meas = sett
  /\ ctlr \in {c \in Controllers : c.mode = PID}
  /\ output = 0 /\ prj = 0 /\ forced = 0
  /\ out_mode = PID /\ relay = 0 /\ dwork = FALSE
  /\ pwm = "pause" /\ pwm_off = FALSE /\ wake = FALSE
  /\ integral = 0
  /\ timer = Stopped
  /\ thr = [t \in {"coap", "sensor"} |-> Idle]

CanRun(t) ==
  /\ ~wake
  /\ t = "sensor" => thr["coap"].pc = "idle"

Goto(t, pc) == thr' = [thr EXCEPT ![t].pc = pc]

Return(t) ==  \* to onoff_ctrl(), to the next subscriber, or to the thread
  thr' = [thr EXCEPT ![t] =
            CASE @.more -> [@ EXCEPT !.pc = "low", !.more = FALSE]
              [] ~@.more /\ @.ctlr -> [Idle EXCEPT !.pc = "mode"]
              [] OTHER -> Idle]

-----------------------------------------------------------------------------
(* The lists of subscribers are linked through the nodes of the            *)
(* subscribers themselves.  ctlr_init() subscribes its nodes, and the      *)
(* thread of the display, which starts later, subscribes its only node     *)
(* temp_sbscr to both lists: that has one next, and what the first list    *)
(* has held behind it is lost.                                             *)

NULL == "NULL"

subscribe(lists, type, node) ==
  [head |-> [lists.head EXCEPT ![type] = node],
   next |-> [lists.next EXCEPT ![node] = lists.head[type]]]

ctlr_init ==
  LET nodes == {NULL, "temp_sbscr", "sbscr_temp_meas", "sbscr_temp_setting"}
      none  == [head |-> [type \in {"meas", "sett"} |-> NULL],
                next |-> [node \in nodes |-> NULL]]
  IN  subscribe(subscribe(none, "meas", "sbscr_temp_meas"),
                "sett", "sbscr_temp_setting")

MutSettingFirst ==   \* mutant of display_thread: subscribes in the other order
  subscribe(subscribe(ctlr_init, "sett", "temp_sbscr"), "meas", "temp_sbscr")

display_thread ==
  subscribe(subscribe(ctlr_init, "meas", "temp_sbscr"), "sett", "temp_sbscr")

Subscribers(type) ==
  LET next   == display_thread.next
      first  == display_thread.head[type]
  IN  {first, next[first], next[next[first]]}

(* The measurement and the setting that a callback of ctlr.c compares: the *)
(* number x it is given is the one it expects, the other is in the store.  *)
Called(type, x) ==
  [meas |-> IF "sbscr_temp_meas" \in Subscribers(type) THEN x ELSE Live,
   sett |-> IF "sbscr_temp_setting" \in Subscribers(type) THEN x ELSE Live]

-----------------------------------------------------------------------------
(* On-off control, in the thread that publishes. *)

check_ctlr_running == forced = 0 /\ prj = 0

Or(x, stored) == IF x = Live THEN stored ELSE x
Measured(t) == Or(thr[t].meas, meas)
Setting(t)  == Or(thr[t].sett, sett)

Publish(t, val, more) ==
  thr' = [thr EXCEPT ![t].pc = "store", ![t].val = val, ![t].more = more]

process_ctrl(t) ==
  /\ thr[t].pc = "check"
  /\ IF ctlr.mode = ONOFF /\ check_ctlr_running THEN Goto(t, "high")
                                                ELSE Return(t)
  /\ UNCHANGED <<output, relay>>

TooWarm(t) ==
  /\ thr[t].pc = "high"
  /\ IF Measured(t) < TEMP_MIN THEN Publish(t, 0, FALSE)   \* sensor error
     ELSE IF ~check_ctlr_running THEN Return(t)
     ELSE IF Measured(t) > Setting(t) + ctlr.p THEN Publish(t, 0, TRUE)
     ELSE Goto(t, "low")
  /\ UNCHANGED <<output, relay>>

TooCold(t) ==
  /\ thr[t].pc = "low"
  /\ IF Measured(t) < Setting(t) - ctlr.p THEN Publish(t, 1, FALSE)
                                          ELSE Return(t)
  /\ UNCHANGED <<output, relay>>

StoreOutput(t) ==
  /\ thr[t].pc = "store"
  /\ output' = thr[t].val
  /\ Goto(t, "read")
  /\ UNCHANGED relay

Heat(val) == IF prj = 0 /\ val > 0 THEN 1 ELSE 0

onoff_process(t) ==
  /\ thr[t].pc = "read"
  /\ IF Loc # CTLR_LOC \/ out_mode # ONOFF \/ forced > 0 THEN Return(t)
     ELSE thr' = [thr EXCEPT ![t].pc = "gpio",
                             ![t].val = Heat(Or(thr[t].val, output))]
  /\ UNCHANGED <<output, relay>>

SetRelay(t) ==
  /\ thr[t].pc = "gpio"
  /\ relay' = thr[t].val
  /\ Return(t)
  /\ UNCHANGED output

onoff_ctrl(t) ==
  /\ CanRun(t)
  /\ \/ process_ctrl(t) \/ TooWarm(t) \/ TooCold(t)
     \/ StoreOutput(t) \/ onoff_process(t) \/ SetRelay(t)
  /\ UNCHANGED <<meas, sett, ctlr, forced, out_mode, dwork, pwm, pwm_off, wake,
                 integral, prjs>>

Handle(t, pc, called, arg, c) ==
  thr' = [thr EXCEPT ![t] = [Idle EXCEPT !.pc = pc, !.meas = called.meas,
                               !.sett = called.sett, !.arg = arg, !.ctlr = c]]

Measure(m) ==  \* the sensor thread publishes
  /\ CanRun("sensor") /\ thr["sensor"].pc = "idle"
  /\ meas' = m
  /\ Handle("sensor", "check", Called("meas", m), 0, FALSE)
  /\ UNCHANGED <<sett, ctlr, output, forced, relays, integral, prjs>>

-----------------------------------------------------------------------------
(* CoAP requests: the handler publishes, and calls the subscribers. *)

Request == CanRun("coap") /\ thr["coap"].pc = "idle"

PostSetting(s) ==
  /\ Request
  /\ sett' = s /\ Handle("coap", "check", Called("sett", s), 0, FALSE)
  /\ UNCHANGED <<meas, ctlr, output, forced, relays, integral, prjs>>

PostController(c) ==
  /\ Request
  /\ ctlr' = c /\ Handle("coap", "check", Idle, 0, TRUE)
  /\ UNCHANGED <<meas, sett, output, forced, relays, integral, prjs>>

PostSwitches(n) ==
  /\ Request
  /\ forced' = n /\ Handle("coap", "switch", Idle, n, FALSE)
  /\ UNCHANGED <<meas, sett, ctlr, output, relays, integral, prjs>>

PostProjector(v) ==   \* the validity, or 0 when the projector is off
  /\ Request
  /\ prj' = v
  /\ IF v > 0 THEN Handle("coap", "start", Idle, v, FALSE)
              ELSE UNCHANGED thr
  /\ UNCHANGED <<meas, sett, ctlr, output, forced, relays, integral, timer>>

changed_prj ==
  /\ CanRun("coap") /\ thr["coap"].pc = "start"
  /\ timer' = thr["coap"].arg % 65536        \* uint16_t validity_ms
  /\ Return("coap")
  /\ UNCHANGED <<meas, sett, ctlr, output, forced, relays, integral, prj>>

frc_sw_changed ==
  /\ CanRun("coap") /\ thr["coap"].pc = "switch"
  /\ LET n == thr["coap"].arg
     IN  \/ Loc # CTLR_LOC /\ Return("coap") /\ UNCHANGED relay
         \/ Loc = CTLR_LOC /\ n > 0 /\ relay' = n % 2 /\ Goto("coap", "schedule")
         \/ /\ Loc = CTLR_LOC /\ n = 0
            /\ IF out_mode = ONOFF THEN Goto("coap", "read") /\ UNCHANGED relay
                                   ELSE Return("coap") /\ relay' = 0
  /\ UNCHANGED <<meas, sett, ctlr, output, forced, out_mode, dwork, pwm,
                 pwm_off, wake, integral, prjs>>

Schedule ==
  /\ CanRun("coap") /\ thr["coap"].pc = "schedule"
  /\ dwork' = TRUE
  /\ Return("coap")
  /\ UNCHANGED <<meas, sett, ctlr, output, forced, out_mode, relay, pwm,
                 pwm_off, wake, integral, prjs>>

ctlr_changed ==
  /\ CanRun("coap") /\ thr["coap"].pc = "mode"
  /\ IF Loc = CTLR_LOC
     THEN out_mode' = ctlr.mode /\ wake' = (out_mode # ctlr.mode)
     ELSE UNCHANGED <<out_mode, wake>>
  /\ IF Loc = CTLR_LOC /\ ctlr.mode = ONOFF THEN Goto("coap", "read")
                                            ELSE Return("coap")
  /\ UNCHANGED <<meas, sett, ctlr, output, forced, relay, dwork, pwm, pwm_off,
                 integral, prjs>>

-----------------------------------------------------------------------------
(* The touch thread changes the setting by one step of the screen. *)

Touch(diff) ==
  /\ sett + diff \in Settings
  /\ sett' = sett + diff
  /\ LET m    == Or(Called("sett", sett').meas, meas)
         s    == Or(Called("sett", sett').sett, sett')
         outs == CASE m < TEMP_MIN -> {0}
                   [] m >= TEMP_MIN /\ m > s + ctlr.p -> {0}
                   [] m >= TEMP_MIN /\ m < s - ctlr.p -> {1}
                   [] OTHER -> {}
     IN  IF ctlr.mode = ONOFF /\ check_ctlr_running /\ outs # {}
         THEN /\ output' \in outs
              /\ relay' = IF Loc = CTLR_LOC /\ out_mode = ONOFF THEN output'
                                                                ELSE relay
         ELSE UNCHANGED <<output, relay>>
  /\ UNCHANGED <<meas, ctlr, forced, out_mode, dwork, pwm, pwm_off, wake,
                 integral, prjs, thr>>

-----------------------------------------------------------------------------
(* The PID controller. *)

Trim(x) == IF x < 0 THEN 0 ELSE IF x > OUT_MAX THEN OUT_MAX ELSE x

NextIntegral(diff, p, prev, i) ==
  LET new == prev + diff * i
      max == OUT_MAX - diff * p
  IN  IF diff > 0 /\ new > max THEN IF prev < max THEN max ELSE prev
      ELSE IF diff < 0 /\ new < 0 THEN 0
      ELSE new

PidIteration ==
  /\ check_ctlr_running /\ ctlr.mode = PID
  /\ LET diff == sett - meas
         i    == NextIntegral(diff, ctlr.p, integral, ctlr.i)
     IN  IF meas < TEMP_MIN THEN output' = 0 /\ UNCHANGED integral
         ELSE output' = Trim(diff * ctlr.p + i) /\ integral' = i
  /\ relay' = IF Loc = CTLR_LOC /\ out_mode = ONOFF THEN Heat(output') ELSE relay
  /\ UNCHANGED <<meas, sett, ctlr, forced, out_mode, dwork, pwm, pwm_off, wake,
                 prjs, thr>>

-----------------------------------------------------------------------------
(* The PWM thread: a turn lasts from one sleep to the next. *)

MutProjectorToo ==   \* mutant of PwmCycle: heats with the projector too
  /\ \/ pwm \in {"off", "pause"}
     \/ pwm = "on" /\ ~pwm_off
     \/ pwm = "forever" /\ wake
  /\ \/ /\ out_mode # PID
        /\ relay' = 0 /\ pwm' = "forever"
     \/ /\ out_mode = PID /\ forced > 0
        /\ pwm' = "pause" /\ UNCHANGED relay
     \/ /\ out_mode = PID /\ forced = 0
        /\ IF output > 0 THEN relay' = 1 /\ pwm' = "on"
                         ELSE relay' = 0 /\ pwm' = "off"
  /\ pwm_off' = (pwm' = "on" /\ output < OUT_MAX)

PwmCycle ==
  /\ \/ pwm \in {"off", "pause"}
     \/ pwm = "on" /\ ~pwm_off
     \/ pwm = "forever" /\ wake
  /\ \/ /\ out_mode # PID
        /\ relay' = 0 /\ pwm' = "forever"
     \/ /\ out_mode = PID /\ forced > 0
        /\ pwm' = "pause" /\ UNCHANGED relay
     \/ /\ out_mode = PID /\ forced = 0 /\ prj > 0
        /\ pwm' = "pause" /\ relay' = 0
     \/ /\ out_mode = PID /\ forced = 0 /\ prj = 0
        /\ IF output > 0 THEN relay' = 1 /\ pwm' = "on"
                         ELSE relay' = 0 /\ pwm' = "off"
  /\ pwm_off' = (pwm' = "on" /\ output < OUT_MAX)

PwmOff ==
  /\ pwm = "on" /\ pwm_off
  /\ relay' = 0 /\ pwm' = "off"
  /\ UNCHANGED pwm_off

PwmThread ==
  /\ Loc = CTLR_LOC
  /\ PwmCycle \/ PwmOff
  /\ wake' = FALSE
  /\ UNCHANGED <<meas, sett, ctlr, output, forced, out_mode, dwork, integral,
                 prjs, thr>>

-----------------------------------------------------------------------------
(* The work queue. *)

MutLastSwitch ==   \* mutant of forced_switch: the last one is not counted
  /\ dwork
  /\ forced' = IF forced > 1 THEN forced - 1 ELSE forced
  /\ dwork' = (forced > 1)
  /\ relay' = IF forced > 1 THEN forced' % 2 ELSE relay
  /\ UNCHANGED <<meas, sett, ctlr, output, out_mode, pwm, pwm_off, wake,
                 integral, prjs, thr>>

forced_switch ==
  /\ dwork
  /\ forced' = IF forced > 0 THEN forced - 1 ELSE 0
  /\ dwork' = (forced' > 0)
  /\ relay' = IF forced = 0 THEN relay
              ELSE IF forced' > 0 THEN forced' % 2
              ELSE IF out_mode = ONOFF THEN Heat(output) ELSE 0
  /\ UNCHANGED <<meas, sett, ctlr, output, out_mode, pwm, pwm_off, wake,
                 integral, prjs, thr>>

MutOtherLocation ==   \* mutant of ProjectorTimeout: another one is invalidated
  /\ timer # Stopped
  /\ timer' = Stopped
  /\ UNCHANGED <<meas, sett, ctlr, output, forced, relays, integral, prj,
                 thr>>

ProjectorTimeout ==   \* timer_handler_prj() and work_handler_prj()
  /\ timer # Stopped
  /\ timer' = Stopped /\ prj' = 0
  /\ UNCHANGED <<meas, sett, ctlr, output, forced, relays, integral, thr>>

-----------------------------------------------------------------------------

CoapThread ==
  \/ onoff_ctrl("coap") \/ changed_prj \/ frc_sw_changed \/ Schedule
  \/ ctlr_changed

Setted == \E s \in Settings : PostSetting(s)

Requests ==
  \/ Setted
  \/ \E c \in Controllers : PostController(c)
  \/ \E n \in Switches : PostSwitches(n)
  \/ \E v \in Validities \cup {0} : PostProjector(v)
  \/ \E diff \in {-1, 1} : Touch(diff)

Measurement == \E m \in Temps : Measure(m)

Next ==
  \/ CoapThread \/ Requests
  \/ onoff_ctrl("sensor") \/ Measurement
  \/ PidIteration \/ PwmThread
  \/ forced_switch \/ ProjectorTimeout

Spec == Init /\ [][Next]_vars

(* Ready threads run, sleeps end, and delayed work is done. *)
Fairness ==
  /\ WF_vars(CoapThread) /\ WF_vars(onoff_ctrl("sensor"))
  /\ WF_vars(PwmThread) /\ WF_vars(forced_switch)

FairSpec == Spec /\ Fairness

-----------------------------------------------------------------------------
(* Properties. *)

Outputs == 0..OUT_MAX
Thread == [pc: {"idle", "check", "high", "low", "store", "read", "gpio",
                "switch", "schedule", "start", "mode"},
           meas: {Live} \cup Int, sett: {Live} \cup Int,
           val: {Live} \cup Outputs, more: BOOLEAN, arg: Nat, ctlr: BOOLEAN]

(* The integral of the PID controller and the output keep within the 16    *)
(* bits of the output, whatever the controller is set to.                  *)
TypeOK ==
  /\ meas \in Temps \cup Settings /\ sett \in Settings /\ ctlr \in Controllers
  /\ output \in Outputs /\ integral \in Outputs
  /\ prj \in Validities \cup {0} /\ forced \in Nat
  /\ timer = Stopped \/ (timer \in Nat /\ timer < 65536)
  /\ out_mode \in {ONOFF, PID} /\ relay \in {0, 1}
  /\ dwork \in BOOLEAN /\ wake \in BOOLEAN /\ pwm_off \in BOOLEAN
  /\ pwm \in {"on", "off", "pause", "forever"}
  /\ thr \in [{"coap", "sensor"} -> Thread]

CoapAt(pcs) == thr["coap"].pc \in pcs

(* Forced switching never gets stuck: as long as switches remain, the work *)
(* that counts them down is scheduled, or is about to be.                  *)
ForcedGoesOn == forced > 0 => dwork \/ CoapAt({"switch", "schedule"})

(* The PWM thread never sleeps forever while the output is its own.        *)
PwmRuns == Loc = CTLR_LOC /\ out_mode = PID => pwm # "forever" \/ wake

(* A projector that is not renewed is over: whenever it counts as active   *)
(* its timer runs, or is about to be started.                              *)
ProjectorExpires == prj > 0 => timer # Stopped \/ CoapAt({"start"})

(* The projector counts as active for as long as it has been reported for  *)
(* ("Handle validity").  Not an invariant: 16 bits do not hold 120000 ms.  *)
ValidityKept == prj > 0 /\ timer # Stopped /\ ~CoapAt({"start"}) => timer = prj

(* With the projector enabled there is no heating ("disable heating while  *)
(* projector is enabled"), unless switching is forced.                     *)
NoHeatingWithProjector ==
  prj > 0 /\ forced = 0 /\ out_mode = ONOFF /\ CoapAt({"idle"}) => relay = 0

(* During forced switching the relay is where that has put it ("Relay is   *)
(* already set by forced switching handling").  Not an invariant: a PWM    *)
(* cycle that has begun switches it off.                                   *)
RelayIsForced == forced > 0 /\ CoapAt({"idle"}) => relay = forced % 2

Regulating == ctlr.mode = ONOFF /\ out_mode = ONOFF /\ check_ctlr_running
Hot == meas < TEMP_MIN \/ meas > sett + ctlr.p
Cold == meas >= TEMP_MIN /\ meas < sett - ctlr.p

(* Whatever order requests, touches, forced switching and PWM have left    *)
(* the relay in: once on-off control is in charge, each setting that is    *)
(* posted regulates, and each measurement of a failed sensor switches off. *)
RegulatesWhenSet ==
  <>[]Regulating =>
    /\ []<><<Setted>>_vars /\ <>[]Hot => <>[](relay = 0)
    /\ []<><<Setted>>_vars /\ <>[]Cold => <>[](relay = 1)
    /\ []<><<Measurement>>_vars /\ <>[](meas < TEMP_MIN) => <>[](relay = 0)

(* On-off control heeds the measurements (changed_temperature()).  Not an  *)
(* invariant: the controller is never told of them, see Subscribers.       *)
RegulatesWhenMeasured ==
  <>[]Regulating /\ []<><<Measurement>>_vars =>
    /\ <>[]Hot => <>[](relay = 0)
    /\ <>[]Cold => <>[](relay = 1)

(* And with PID control, heating ends when the projector is enabled.       *)
ProjectorEndsPwm ==
  <>[](ctlr.mode = PID /\ out_mode = PID /\ prj > 0 /\ forced = 0) =>
    <>[](relay = 0)

(* An output that is "forced by other means" is given back in the end.     *)
ForcedEnds == <>[][~Requests]_vars => <>[](forced = 0)
=============================================================================
