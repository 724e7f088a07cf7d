--------------------------- MODULE HeatCtlr_proofs ---------------------------
(***************************************************************************)
(* Proofs about the heating of one location: the PID controller stays      *)
(* within its 16 bits, forced switching goes on, the PWM thread runs, and  *)
(* the projector state expires, for any controllers, temperatures, numbers *)
(* of switches and validities.                                             *)
(***************************************************************************)
EXTENDS HeatCtlr, TLAPS

Threads == {"coap", "sensor"}

(* What a thread holds where it uses it: a value to store, or a position   *)
(* of the relay.                                                           *)
Sane(th) == th.pc \in {"store", "gpio"} => th.val \in {0, 1}

SaneThreads(f) == f \in [Threads -> Thread] /\ \A t \in Threads : Sane(f[t])

Typed ==
  /\ meas \in Temps \cup Settings /\ sett \in Settings /\ ctlr \in Controllers
  /\ output \in Outputs /\ integral \in Outputs
  /\ prj \in Validities \cup {0} /\ forced \in Nat
  /\ timer = Stopped \/ (timer \in Nat /\ timer < 65536)
  /\ out_mode \in {ONOFF, PID} /\ relay \in {0, 1}
  /\ dwork \in BOOLEAN /\ wake \in BOOLEAN /\ pwm_off \in BOOLEAN
  /\ pwm \in {"on", "off", "pause", "forever"}

TypeInv == SaneThreads(thr) /\ Typed

LEMMA Numbers ==
  /\ Outputs \subseteq Nat /\ {0, 1} \subseteq Outputs
  /\ Live \notin Nat /\ 0 \in Nat /\ 1 \in Nat
  BY HeatAssumption DEF Outputs

LEMMA IdleIsSane == Idle \in Thread /\ Sane(Idle)
  BY DEF Idle, Thread, Sane

LEMMA TypeInit == Init => TypeInv
<1> SUFFICES ASSUME Init PROVE TypeInv
  OBVIOUS
<1>1. \A t \in Threads : thr[t] = Idle /\ thr[t] \in Thread /\ Sane(thr[t])
  BY IdleIsSane DEF Init, Threads
<1>2. thr \in [Threads -> Thread]
  BY <1>1 DEF Init, Threads
<1> QED
  <2>1. SaneThreads(thr)
    BY <1>1, <1>2 DEF SaneThreads
  <2>3. dwork \in BOOLEAN /\ wake \in BOOLEAN /\ pwm_off \in BOOLEAN
    BY Zenon DEF Init
  <2>4. /\ meas \in Temps \cup Settings /\ sett \in Settings
        /\ ctlr \in Controllers
    BY DEF Init
  <2>5. /\ output = 0 /\ integral = 0 /\ prj = 0 /\ forced = 0 /\ relay = 0
        /\ timer = Stopped /\ out_mode = PID /\ pwm = "pause"
    BY DEF Init
  <2>6. Typed
    BY <2>3, <2>4, <2>5, Numbers DEF Typed
  <2> QED
    BY <2>1, <2>6 DEF TypeInv

(* The steps of a thread on its own state keep it sane. *)
LEMMA GotoIsSane ==
  ASSUME SaneThreads(thr), NEW t \in Threads,
         NEW pc \in {"idle", "check", "high", "low", "read", "schedule"},
         Goto(t, pc)
  PROVE  SaneThreads(thr')
<1> DEFINE new == [thr[t] EXCEPT !.pc = pc]
<1>1. thr[t] \in Thread
  BY DEF SaneThreads
<1>2. new \in Thread /\ Sane(new)
  BY <1>1 DEF Thread, Sane
<1>3. thr' = [thr EXCEPT ![t] = new]
  BY DEF Goto
<1> HIDE DEF new
<1> QED
  BY <1>2, <1>3 DEF SaneThreads

LEMMA ReturnIsSane ==
  ASSUME SaneThreads(thr), NEW t \in Threads, Return(t)
  PROVE  SaneThreads(thr')
<1> DEFINE new == CASE thr[t].more -> [thr[t] EXCEPT !.pc = "low", !.more = FALSE]
                    [] ~thr[t].more /\ thr[t].ctlr -> [Idle EXCEPT !.pc = "mode"]
                    [] OTHER -> Idle
<1>1. thr' = [thr EXCEPT ![t] = new]
  BY DEF Return
<1>2. thr[t] \in Thread
  BY DEF SaneThreads
<1>3. new \in Thread /\ Sane(new)
  BY <1>2, IdleIsSane DEF Sane, Thread, Idle
<1> HIDE DEF new
<1> QED
  BY <1>1, <1>3 DEF SaneThreads

LEMMA PublishIsSane ==
  ASSUME SaneThreads(thr), NEW t \in Threads, NEW val \in {0, 1},
         NEW more \in BOOLEAN, Publish(t, val, more)
  PROVE  SaneThreads(thr')
<1> DEFINE new == [thr[t] EXCEPT !.pc = "store", !.val = val, !.more = more]
<1>1. thr[t] \in Thread
  BY DEF SaneThreads
<1>2. val \in {Live} \cup Outputs
  BY Numbers
<1>3. new \in Thread /\ Sane(new)
  BY <1>1, <1>2 DEF Thread, Sane
<1>4. thr' = [thr EXCEPT ![t] = new]
  BY DEF Publish
<1> HIDE DEF new
<1> QED
  BY <1>3, <1>4 DEF SaneThreads

Comparison == [meas: {Live} \cup Int, sett: {Live} \cup Int]

LEMMA CalledType ==
  /\ \A type \in {"meas", "sett"}, x \in Int : Called(type, x) \in Comparison
  /\ Idle.meas = Live /\ Idle.sett = Live
  BY DEF Called, Comparison, Idle

LEMMA HandleIsSane ==
  ASSUME SaneThreads(thr), NEW t \in Threads, NEW c \in BOOLEAN, NEW arg \in Nat,
         NEW called, called.meas \in {Live} \cup Int, called.sett \in {Live} \cup Int,
         NEW pc \in {"check", "switch", "start"},
         Handle(t, pc, called, arg, c)
  PROVE  SaneThreads(thr')
<1> DEFINE new == [Idle EXCEPT !.pc = pc, !.meas = called.meas, !.sett = called.sett,
                               !.arg = arg, !.ctlr = c]
<1>1. new \in Thread /\ Sane(new)
  BY DEF Idle, Thread, Sane
<1>2. thr' = [thr EXCEPT ![t] = new]
  BY DEF Handle
<1> HIDE DEF new
<1> QED
  BY <1>1, <1>2 DEF SaneThreads

-----------------------------------------------------------------------------
(* The PID controller: the integral never leaves the range of the output.  *)

LEMMA Products == \A a, b \in Nat : a * b \in Nat
  OBVIOUS

LEMMA IntegralBound ==
  ASSUME NEW diff \in Int, NEW p \in Nat, NEW prev \in Outputs, NEW i \in Nat
  PROVE  NextIntegral(diff, p, prev, i) \in Outputs
<1> DEFINE new == prev + diff * i
           max == OUT_MAX - diff * p
<1>1. /\ OUT_MAX \in Nat /\ prev \in Nat /\ prev <= OUT_MAX
      /\ new \in Int /\ max \in Int
  BY HeatAssumption DEF Outputs
<1>2. CASE diff > 0
  <2>1. diff * p \in Nat /\ diff * i \in Nat
    BY <1>2, Products
  <2>2. max <= OUT_MAX /\ new >= prev
    BY <1>1, <2>1
  <2> HIDE DEF new, max
  <2>3. NextIntegral(diff, p, prev, i)
          = IF new > max THEN IF prev < max THEN max ELSE prev ELSE new
    BY <1>2 DEF NextIntegral, new, max
  <2> QED
    BY <1>1, <2>2, <2>3 DEF Outputs
<1>3. CASE diff < 0
  <2>1. (-diff) * i \in Nat
    BY <1>3, Products
  <2>2. new = prev - (-diff) * i
    BY <1>1
  <2>3. new <= prev
    BY <1>1, <2>1, <2>2
  <2> HIDE DEF new, max
  <2>4. NextIntegral(diff, p, prev, i) = IF new < 0 THEN 0 ELSE new
    BY <1>3 DEF NextIntegral, new, max
  <2> QED
    BY <1>1, <2>3, <2>4 DEF Outputs
<1>4. CASE diff = 0
  <2>1. new = prev
    BY <1>1, <1>4
  <2> HIDE DEF new, max
  <2>2. NextIntegral(diff, p, prev, i) = new
    BY <1>4 DEF NextIntegral, new, max
  <2> QED
    BY <2>1, <2>2
<1> QED
  BY <1>2, <1>3, <1>4

LEMMA TrimBound == ASSUME NEW x \in Int PROVE Trim(x) \in Outputs
<1>1. OUT_MAX \in Nat
  BY HeatAssumption
<1> QED
  BY <1>1 DEF Trim, Outputs

-----------------------------------------------------------------------------
LEMMA TypeNext == TypeInv /\ [Next]_vars => TypeInv'
<1> SUFFICES ASSUME TypeInv, [Next]_vars PROVE TypeInv'
  OBVIOUS
<1>0. SaneThreads(thr) /\ Typed
  BY DEF TypeInv
<1>a. "coap" \in Threads /\ "sensor" \in Threads
  BY DEF Threads
<1>1. ASSUME NEW t \in Threads, onoff_ctrl(t) PROVE TypeInv'
  <2>0. /\ \/ process_ctrl(t) \/ TooWarm(t) \/ TooCold(t)
           \/ StoreOutput(t) \/ onoff_process(t) \/ SetRelay(t)
        /\ UNCHANGED <<meas, sett, ctlr, forced, out_mode, dwork, pwm, pwm_off,
                       wake, integral, prj, timer>>
    BY <1>1 DEF onoff_ctrl, prjs
  <2>1. output \in Outputs /\ relay \in {0, 1} /\ thr[t] \in Thread /\ Sane(thr[t])
    BY <1>0 DEF Typed, SaneThreads
  <2>2. SaneThreads(thr') /\ output' \in Outputs /\ relay' \in {0, 1}
    <3>1. CASE process_ctrl(t)
      <4>1. (Goto(t, "high") \/ Return(t)) /\ UNCHANGED <<output, relay>>
        BY <3>1 DEF process_ctrl
      <4> QED
        BY <1>0, <2>1, <4>1, GotoIsSane, ReturnIsSane
    <3>2. CASE TooWarm(t)
      <4>1. /\ \/ Publish(t, 0, FALSE) \/ Return(t) \/ Publish(t, 0, TRUE)
               \/ Goto(t, "low")
            /\ UNCHANGED <<output, relay>>
        BY <3>2 DEF TooWarm
      <4> QED
        BY <1>0, <2>1, <4>1, GotoIsSane, ReturnIsSane, PublishIsSane
    <3>3. CASE TooCold(t)
      <4>1. (Publish(t, 1, FALSE) \/ Return(t)) /\ UNCHANGED <<output, relay>>
        BY <3>3 DEF TooCold
      <4> QED
        BY <1>0, <2>1, <4>1, ReturnIsSane, PublishIsSane
    <3>4. CASE StoreOutput(t)
      <4>1. output' \in {0, 1} /\ Goto(t, "read") /\ UNCHANGED relay
        BY <2>1, <3>4 DEF StoreOutput, Sane
      <4> QED
        BY <1>0, <2>1, <4>1, GotoIsSane, Numbers
    <3>5. CASE onoff_process(t)
      <4>1. CASE Return(t)
        BY <1>0, <2>1, <3>5, <4>1, ReturnIsSane DEF onoff_process
      <4>2. CASE ~Return(t)
        <5> DEFINE h == Heat(Or(thr[t].val, output))
        <5>1. thr' = [thr EXCEPT ![t].pc = "gpio", ![t].val = h]
          BY <3>5, <4>2 DEF onoff_process
        <5>2. h \in {0, 1}
          BY DEF Heat
        <5> HIDE DEF h
        <5> DEFINE new == [thr[t] EXCEPT !.pc = "gpio", !.val = h]
        <5>4. new \in Thread /\ Sane(new)
          BY <2>1, <5>2, Numbers DEF Thread, Sane
        <5>5. thr' = [thr EXCEPT ![t] = new]
          BY <5>1
        <5> HIDE DEF new
        <5>3. SaneThreads(thr')
          BY <1>0, <5>4, <5>5 DEF SaneThreads
        <5> QED
          BY <2>1, <3>5, <5>3 DEF onoff_process
      <4> QED
        BY <4>1, <4>2
    <3>6. CASE SetRelay(t)
      <4>1. relay' \in {0, 1} /\ Return(t) /\ UNCHANGED output
        BY <2>1, <3>6 DEF SetRelay, Sane
      <4> QED
        BY <1>0, <2>1, <4>1, ReturnIsSane
    <3> QED
      BY <2>0, <3>1, <3>2, <3>3, <3>4, <3>5, <3>6
  <2>3. Typed'
    BY <1>0, <2>0, <2>2 DEF Typed
  <2> QED
    BY <2>2, <2>3 DEF TypeInv
<1>2. ASSUME NEW m \in Temps, Measure(m) PROVE TypeInv'
  <2>1. Called("meas", m) \in Comparison
    BY CalledType, HeatAssumption
  <2>2. SaneThreads(thr')
    BY <1>0, <1>2, <1>a, <2>1, HandleIsSane DEF Measure, Comparison
  <2> QED
    BY <1>0, <1>2, <2>2 DEF TypeInv, Measure, Typed, relays, prjs
<1>3. CASE Requests
  <2>1. ASSUME NEW s \in Settings, PostSetting(s) PROVE TypeInv'
    <3>1. Called("sett", s) \in Comparison
      BY CalledType, HeatAssumption
    <3>2. SaneThreads(thr')
      BY <1>0, <1>a, <2>1, <3>1, HandleIsSane DEF PostSetting, Comparison
    <3> QED
      BY <1>0, <2>1, <3>2 DEF TypeInv, PostSetting, Typed, relays, prjs
  <2>2. ASSUME NEW c \in Controllers, PostController(c) PROVE TypeInv'
    <3>1. SaneThreads(thr')
      BY <1>0, <1>a, <2>2, CalledType, HandleIsSane DEF PostController
    <3> QED
      BY <1>0, <2>2, <3>1 DEF TypeInv, PostController, Typed, relays, prjs
  <2>3. ASSUME NEW n \in Switches, PostSwitches(n) PROVE TypeInv'
    <3>1. n \in Nat
      BY HeatAssumption
    <3>2. SaneThreads(thr')
      BY <1>0, <1>a, <2>3, <3>1, CalledType, HandleIsSane DEF PostSwitches
    <3> QED
      BY <1>0, <2>3, <3>1, <3>2 DEF TypeInv, PostSwitches, Typed, relays, prjs
  <2>4. ASSUME NEW v \in Validities \cup {0}, PostProjector(v) PROVE TypeInv'
    <3>1. v \in Nat
      BY HeatAssumption
    <3>2. SaneThreads(thr')
      BY <1>0, <1>a, <2>4, <3>1, CalledType, HandleIsSane DEF PostProjector
    <3> QED
      BY <1>0, <2>4, <3>2 DEF TypeInv, PostProjector, Typed, relays
  <2>5. ASSUME NEW diff \in {-1, 1}, Touch(diff) PROVE TypeInv'
    <3>1. sett' \in Settings /\ output' \in Outputs /\ relay' \in {0, 1}
      BY <1>0, <2>5, Numbers DEF Touch, Typed
    <3> QED
      BY <1>0, <2>5, <3>1 DEF TypeInv, Touch, Typed, prjs
  <2> QED
    BY <1>3, <2>1, <2>2, <2>3, <2>4, <2>5 DEF Requests, Setted
<1>4. CASE changed_prj
  <2>1. CanRun("coap") /\ thr["coap"].pc = "start" /\ Return("coap")
    BY <1>4 DEF changed_prj
  <2>2. SaneThreads(thr')
    BY <1>0, <1>a, <2>1, ReturnIsSane
  <2>3. thr["coap"].arg % 65536 \in Nat /\ thr["coap"].arg % 65536 < 65536
    BY <1>0, <1>a, <2>1 DEF SaneThreads, Thread
  <2> QED
    BY <1>0, <1>4, <2>2, <2>3 DEF TypeInv, changed_prj, Typed, relays
<1>5. CASE frc_sw_changed
  <2>1. SaneThreads(thr')
    BY <1>0, <1>5, <1>a, GotoIsSane, ReturnIsSane DEF frc_sw_changed
  <2>2. relay' \in {0, 1}
    BY <1>0, <1>5, <1>a DEF frc_sw_changed, SaneThreads, Thread, Typed
  <2> QED
    BY <1>0, <1>5, <2>1, <2>2 DEF TypeInv, frc_sw_changed, Typed, prjs
<1>6. CASE Schedule
  <2>1. SaneThreads(thr')
    BY <1>0, <1>6, <1>a, ReturnIsSane DEF Schedule
  <2> QED
    BY <1>0, <1>6, <2>1 DEF TypeInv, Schedule, Typed, prjs
<1>7. CASE ctlr_changed
  <2>1. SaneThreads(thr')
    BY <1>0, <1>7, <1>a, GotoIsSane, ReturnIsSane DEF ctlr_changed
  <2>2. ctlr.mode \in {ONOFF, PID}
    BY <1>0, HeatAssumption DEF Typed
  <2> QED
    <3>1. out_mode' \in {ONOFF, PID}
      BY <1>0, <1>7, <2>2 DEF ctlr_changed, Typed
    <3>2. wake' \in BOOLEAN
      <4>1. wake \in BOOLEAN
        BY <1>0 DEF Typed
      <4>2. wake' = (out_mode # ctlr.mode) \/ wake' = wake
        BY <1>7 DEF ctlr_changed
      <4> QED
        BY <4>1, <4>2, Zenon
    <3>3. UNCHANGED <<meas, sett, ctlr, output, forced, relay, dwork, pwm,
                      pwm_off, integral, prj, timer>>
      BY <1>7 DEF ctlr_changed, prjs
    <3>4. Typed'
      BY <1>0, <3>1, <3>2, <3>3 DEF Typed
    <3> QED
      BY <2>1, <3>4 DEF TypeInv
<1>8. CASE PidIteration
  <2> DEFINE diff == sett - meas
             i == NextIntegral(diff, ctlr.p, integral, ctlr.i)
  <2>1. /\ diff \in Int /\ ctlr.p \in Nat /\ ctlr.i \in Nat
        /\ integral \in Outputs
    BY <1>0, HeatAssumption DEF Typed
  <2>2. i \in Outputs
    BY <2>1, IntegralBound
  <2> HIDE DEF diff, i
  <2>3. diff * ctlr.p + i \in Int
    <3>1. diff * ctlr.p \in Int
      BY <2>1
    <3>2. i \in Int
      BY <2>2, Numbers
    <3> QED
      BY <3>1, <3>2
  <2>4. 0 \in Outputs /\ Trim(diff * ctlr.p + i) \in Outputs
    BY <2>3, TrimBound, Numbers
  <2>5. output' \in {0, Trim(diff * ctlr.p + i)} /\ integral' \in {integral, i}
    BY <1>8 DEF PidIteration, diff, i
  <2>6. output' \in Outputs /\ integral' \in Outputs
    BY <2>1, <2>2, <2>4, <2>5
  <2>7. relay' \in {0, 1}
    BY <1>0, <1>8 DEF PidIteration, Typed, Heat
  <2> QED
    BY <1>0, <1>8, <2>6, <2>7 DEF TypeInv, PidIteration, Typed, prjs
<1>9. CASE PwmThread
  <2>1. /\ relay' \in {0, 1} /\ pwm_off' \in BOOLEAN
        /\ pwm' \in {"on", "off", "pause", "forever"}
    <3>1. relay \in {0, 1} /\ pwm_off \in BOOLEAN
      BY <1>0 DEF Typed
    <3>2. PwmCycle \/ PwmOff
      BY <1>9 DEF PwmThread
    <3>3. relay' \in {0, 1} /\ pwm' \in {"on", "off", "pause", "forever"}
      BY <3>1, <3>2 DEF PwmCycle, PwmOff
    <3>4. pwm_off' \in BOOLEAN
      BY <3>1, <3>2, Zenon DEF PwmCycle, PwmOff
    <3> QED
      BY <3>3, <3>4
  <2>2. wake' = FALSE /\ UNCHANGED <<meas, sett, ctlr, output, forced, out_mode,
                  dwork, integral, prj, timer, thr>>
    BY <1>9 DEF PwmThread, prjs
  <2>3. wake' \in BOOLEAN
    BY <2>2, Zenon
  <2>4. Typed'
    BY <1>0, <2>1, <2>2, <2>3 DEF Typed
  <2> QED
    BY <1>0, <2>2, <2>4 DEF TypeInv
<1>10. CASE forced_switch
  <2>1. forced' \in Nat
    BY <1>0, <1>10 DEF forced_switch, Typed
  <2>2. relay' \in {0, 1}
    BY <1>0, <1>10, <2>1 DEF forced_switch, Typed, Heat
  <2> QED
    BY <1>0, <1>10, <2>1, <2>2 DEF TypeInv, forced_switch, Typed, prjs
<1>11. CASE ProjectorTimeout
  BY <1>0, <1>11 DEF TypeInv, ProjectorTimeout, Typed, relays
<1>13. CASE UNCHANGED vars
  BY <1>0, <1>13 DEF TypeInv, vars, relays, prjs, Typed
<1> QED
  BY <1>1, <1>2, <1>3, <1>4, <1>5, <1>6, <1>7, <1>8, <1>9, <1>10, <1>11, <1>13,
     <1>a DEF Next, CoapThread, Measurement

(* Every variable keeps its type: the integral and the output of the PID   *)
(* controller stay within the 16 bits of the output.                       *)
THEOREM TypeCorrect == Spec => []TypeOK
<1>1. TypeInv => TypeOK
  BY DEF TypeInv, Typed, SaneThreads, Threads, TypeOK
<1> QED
  BY TypeInit, TypeNext, <1>1, PTL DEF Spec

-----------------------------------------------------------------------------
(* Most steps have nothing to do with forced switching and the projector.  *)

Quiet ==
  /\ UNCHANGED <<forced, dwork, prj, timer>>
  /\ \/ UNCHANGED thr
     \/ thr["coap"].pc \notin {"switch", "schedule", "start"}

LEMMA QuietSteps ==
  ASSUME TypeInv, [Next]_vars
  PROVE  \/ Quiet
         \/ \E n \in Switches : PostSwitches(n)
         \/ \E v \in Validities \cup {0} : PostProjector(v)
         \/ frc_sw_changed \/ Schedule \/ changed_prj
         \/ forced_switch \/ ProjectorTimeout
<1>1. ASSUME NEW t \in Threads, onoff_ctrl(t) PROVE Quiet
  <2>1. UNCHANGED <<forced, dwork, prj, timer>>
    BY <1>1 DEF onoff_ctrl, prjs
  <2>2. CASE t = "coap"
    <3>1. thr["coap"].pc \in {"check", "high", "low", "store", "read", "gpio"}
      BY <1>1, <2>2 DEF onoff_ctrl, process_ctrl, TooWarm, TooCold, StoreOutput,
                        onoff_process, SetRelay
    <3> QED
      BY <2>1, <3>1 DEF Quiet
  <2>3. CASE t = "sensor"
    <3>1. thr["coap"].pc = "idle"
      BY <1>1, <2>3 DEF onoff_ctrl, CanRun
    <3> QED
      BY <2>1, <3>1 DEF Quiet
  <2> QED
    BY <2>2, <2>3 DEF Threads
<1>2. CASE Measurement
  <2>1. thr["coap"].pc = "idle" /\ UNCHANGED <<forced, dwork, prj, timer>>
    BY <1>2 DEF Measurement, Measure, CanRun, relays, prjs
  <2> QED
    BY <2>1 DEF Quiet
<1>3. ASSUME NEW s \in Settings, PostSetting(s) PROVE Quiet
  <2>1. thr["coap"].pc = "idle" /\ UNCHANGED <<forced, dwork, prj, timer>>
    BY <1>3 DEF PostSetting, Request, relays, prjs
  <2> QED
    BY <2>1 DEF Quiet
<1>4. ASSUME NEW c \in Controllers, PostController(c) PROVE Quiet
  <2>1. thr["coap"].pc = "idle" /\ UNCHANGED <<forced, dwork, prj, timer>>
    BY <1>4 DEF PostController, Request, relays, prjs
  <2> QED
    BY <2>1 DEF Quiet
<1>5. ASSUME NEW diff \in {-1, 1}, Touch(diff) PROVE Quiet
  BY <1>5 DEF Touch, Quiet, prjs
<1>6. CASE ctlr_changed
  <2>1. thr["coap"].pc = "mode" /\ UNCHANGED <<forced, dwork, prj, timer>>
    BY <1>6 DEF ctlr_changed, prjs
  <2> QED
    BY <2>1 DEF Quiet
<1>7. CASE PidIteration
  BY <1>7 DEF PidIteration, Quiet, prjs
<1>8. CASE PwmThread
  BY <1>8 DEF PwmThread, Quiet, prjs
<1>9. CASE UNCHANGED vars
  BY <1>9 DEF vars, relays, prjs, Quiet
<1> QED
  BY <1>1, <1>2, <1>3, <1>4, <1>5, <1>6, <1>7, <1>8, <1>9
  DEF Next, CoapThread, Requests, Setted, Threads

-----------------------------------------------------------------------------
(* Forced switching. *)

ForcedInv ==
  /\ TypeInv
  /\ forced > 0 => \/ dwork
                   \/ thr["coap"].pc = "schedule"
                   \/ thr["coap"].pc = "switch" /\ thr["coap"].arg > 0

LEMMA ForcedNext ==
  ASSUME Loc = CTLR_LOC, ForcedInv, [Next]_vars
  PROVE  ForcedInv'
<1>1. TypeInv /\ TypeInv' /\ thr["coap"] \in Thread /\ Sane(thr["coap"])
  BY TypeNext DEF ForcedInv, TypeInv, SaneThreads, Threads
<1>2. CASE Quiet
  BY <1>1, <1>2 DEF ForcedInv, Quiet
<1>3. ASSUME NEW n \in Switches, PostSwitches(n) PROVE ForcedInv'
  <2>1. thr'["coap"].pc = "switch" /\ thr'["coap"].arg = n /\ forced' = n
    BY <1>1, <1>3 DEF PostSwitches, Handle, Idle, TypeInv, SaneThreads, Threads
  <2> QED
    BY <1>1, <2>1 DEF ForcedInv
<1>4. ASSUME NEW v \in Validities \cup {0}, PostProjector(v) PROVE ForcedInv'
  <2>1. thr["coap"].pc = "idle" /\ UNCHANGED <<forced, dwork>>
    BY <1>4 DEF PostProjector, Request, relays
  <2> QED
    BY <1>1, <2>1 DEF ForcedInv
<1>5. CASE frc_sw_changed
  <2>1. thr["coap"].pc = "switch" /\ UNCHANGED <<forced, dwork>>
    BY <1>5 DEF frc_sw_changed
  <2>2. CASE thr["coap"].arg > 0
    <3>1. Goto("coap", "schedule")
      BY <1>5, <2>2 DEF frc_sw_changed
    <3>2. thr'["coap"].pc = "schedule"
      BY <1>1, <3>1 DEF Goto, TypeInv, SaneThreads, Threads, Thread
    <3> QED
      BY <1>1, <3>2 DEF ForcedInv
  <2>3. CASE ~(thr["coap"].arg > 0)
    BY <1>1, <2>1, <2>3 DEF ForcedInv
  <2> QED
    BY <2>2, <2>3
<1>6. CASE Schedule
  BY <1>1, <1>6 DEF ForcedInv, Schedule
<1>7. CASE changed_prj
  <2>1. thr["coap"].pc = "start" /\ UNCHANGED <<forced, dwork>>
    BY <1>7 DEF changed_prj, relays
  <2> QED
    BY <1>1, <2>1 DEF ForcedInv
<1>8. CASE forced_switch
  BY <1>1, <1>8 DEF ForcedInv, forced_switch
<1>9. CASE ProjectorTimeout
  BY <1>1, <1>9 DEF ForcedInv, ProjectorTimeout, relays
<1> QED
  BY <1>1, <1>2, <1>3, <1>4, <1>5, <1>6, <1>7, <1>8, <1>9, QuietSteps

(* At the location of the relay, forced switching never gets stuck: as     *)
(* long as switches remain, the work that counts them down is scheduled,   *)
(* or is about to be (frc_sw_changed() of output.c).                       *)
THEOREM ForcedGoesOnHolds ==
  ASSUME Loc = CTLR_LOC PROVE Spec => []ForcedGoesOn
<1>1. Init => ForcedInv
  BY TypeInit DEF Init, ForcedInv
<1>2. ForcedInv /\ [Next]_vars => ForcedInv'
  BY ForcedNext
<1>3. ForcedInv => ForcedGoesOn
  BY DEF ForcedInv, ForcedGoesOn, CoapAt
<1> QED
  BY <1>1, <1>2, <1>3, PTL DEF Spec

-----------------------------------------------------------------------------
(* The projector. *)

ProjectorInv == TypeInv /\ ProjectorExpires

LEMMA ProjectorNext == ProjectorInv /\ [Next]_vars => ProjectorInv'
<1> SUFFICES ASSUME ProjectorInv, [Next]_vars PROVE ProjectorInv'
  OBVIOUS
<1> USE DEF CoapAt
<1>1. /\ TypeInv /\ TypeInv'
      /\ thr["coap"] \in Thread /\ Sane(thr["coap"])
  BY TypeNext DEF ProjectorInv, TypeInv, SaneThreads, Threads
<1>2. CASE Quiet
  BY <1>1, <1>2 DEF ProjectorInv, ProjectorExpires, Quiet
<1>3. ASSUME NEW n \in Switches, PostSwitches(n) PROVE ProjectorInv'
  <2>1. thr["coap"].pc = "idle" /\ UNCHANGED <<prj, timer>>
    BY <1>3 DEF PostSwitches, Request, prjs
  <2> QED
    BY <1>1, <2>1 DEF ProjectorInv, ProjectorExpires
<1>4. ASSUME NEW v \in Validities \cup {0}, PostProjector(v) PROVE ProjectorInv'
  <2>1. prj' = v
    BY <1>1, <1>4 DEF PostProjector
  <2>2. CASE v > 0
    <3>1. Handle("coap", "start", Idle, v, FALSE)
      BY <1>1, <1>4, <2>2 DEF PostProjector
    <3>2. thr'["coap"].pc = "start"
      BY <1>1, <3>1 DEF Handle, Idle, TypeInv, SaneThreads, Threads
    <3> QED
      BY <1>1, <2>1, <3>2 DEF ProjectorInv, ProjectorExpires
  <2>3. CASE ~(v > 0)
    BY <1>1, <2>1, <2>3 DEF ProjectorInv, ProjectorExpires
  <2> QED
    BY <2>2, <2>3
<1>5. CASE frc_sw_changed \/ Schedule \/ forced_switch
  <2>1. UNCHANGED <<prj, timer>>
    BY <1>5 DEF frc_sw_changed, Schedule, forced_switch, prjs
  <2>2. UNCHANGED thr \/ thr["coap"].pc # "start"
    BY <1>5 DEF frc_sw_changed, Schedule, forced_switch
  <2> QED
    BY <1>1, <2>1, <2>2 DEF ProjectorInv, ProjectorExpires
<1>6. CASE changed_prj
  <2>1. timer' = thr["coap"].arg % 65536 /\ thr["coap"].pc = "start"
    BY <1>6 DEF changed_prj
  <2>2. timer' # Stopped
    BY <1>1, <2>1 DEF Thread, Stopped
  <2> QED
    BY <1>1, <2>1, <2>2 DEF ProjectorInv, ProjectorExpires
<1>7. CASE ProjectorTimeout
  BY <1>1, <1>7 DEF ProjectorInv, ProjectorExpires, ProjectorTimeout
<1> QED
  BY <1>1, <1>2, <1>3, <1>4, <1>5, <1>6, <1>7, QuietSteps

(* A projector that is not renewed is over: whenever it counts as active   *)
(* its timer runs, or is about to be started (changed_prj() of             *)
(* prj_timeout.c).                                                         *)
THEOREM ProjectorExpiresHolds == Spec => []ProjectorExpires
<1>1. Init => ProjectorInv
  BY TypeInit DEF Init, ProjectorInv, ProjectorExpires
<1>2. ProjectorInv => ProjectorExpires
  BY DEF ProjectorInv
<1> QED
  BY <1>1, <1>2, ProjectorNext, PTL DEF Spec

-----------------------------------------------------------------------------
(* The PWM thread. *)

PwmInv == TypeInv /\ PwmRuns

LEMMA PwmNext == PwmInv /\ [Next]_vars => PwmInv'
<1> SUFFICES ASSUME PwmInv, [Next]_vars PROVE PwmInv'
  OBVIOUS
<1>1. TypeInv /\ TypeInv' /\ PwmRuns
  BY TypeNext DEF PwmInv
<1>2. CASE ctlr_changed
  <2>1. ~wake /\ UNCHANGED pwm
    BY <1>2 DEF ctlr_changed, CanRun
  <2>2. CASE Loc = CTLR_LOC
    <3>1. out_mode' = ctlr.mode /\ wake' = (out_mode # ctlr.mode)
      BY <1>2, <2>2 DEF ctlr_changed
    <3>2. out_mode' = PID => out_mode = PID \/ wake'
      BY <3>1
    <3> QED
      BY <1>1, <2>1, <3>2 DEF PwmInv, PwmRuns
  <2>3. CASE Loc # CTLR_LOC
    BY <1>1, <2>3 DEF PwmInv, PwmRuns
  <2> QED
    BY <2>2, <2>3
<1>3. CASE PwmThread
  <2>1. out_mode' = PID => pwm' # "forever"
    BY <1>3 DEF PwmThread, PwmCycle, PwmOff
  <2> QED
    BY <1>1, <2>1 DEF PwmInv, PwmRuns
<1>4. CASE UNCHANGED <<out_mode, pwm, wake>>
  BY <1>1, <1>4 DEF PwmInv, PwmRuns
<1>5. \/ ctlr_changed \/ PwmThread \/ UNCHANGED <<out_mode, pwm, wake>>
  <2>1. CASE CoapThread
    BY <2>1 DEF CoapThread, onoff_ctrl, changed_prj, frc_sw_changed, Schedule, relays
  <2>2. CASE Requests
    BY <2>2 DEF Requests, Setted, PostSetting, PostController, PostSwitches,
                PostProjector, Touch, relays
  <2>3. CASE onoff_ctrl("sensor") \/ Measurement \/ PidIteration \/ forced_switch
    BY <2>3 DEF onoff_ctrl, Measurement, Measure, PidIteration, forced_switch, relays
  <2>4. CASE ProjectorTimeout
    BY <2>4 DEF ProjectorTimeout, relays
  <2>5. CASE UNCHANGED vars
    BY <2>5 DEF vars, relays
  <2> QED
    BY <2>1, <2>2, <2>3, <2>4, <2>5 DEF Next
<1> QED
  BY <1>2, <1>3, <1>4, <1>5

(* The PWM thread does not sleep forever while the output is its own: a    *)
(* change to PID control wakes it up (ctlr_changed() of output.c).         *)
THEOREM PwmRunsHolds == Spec => []PwmRuns
<1>1. Init => PwmInv
  BY TypeInit DEF Init, PwmInv, PwmRuns
<1>2. PwmInv => PwmRuns
  BY DEF PwmInv
<1> QED
  BY <1>1, <1>2, PwmNext, PTL DEF Spec
=============================================================================
