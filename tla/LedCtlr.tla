------------------------------ MODULE LedCtlr ------------------------------
(***************************************************************************)
(* The LED strip: its orchestrator (rgbw/src/led_ctlr.c), which chooses    *)
(* among the automatic setting, the manual one and the dimmer of the       *)
(* projector, with the animation of the LEDs (led.c) and the handlers of   *)
(* CoAP requests (coap.c, preset.c).                                       *)
(*                                                                         *)
(* The CoAP server (priority 2) is modelled access by access: the          *)
(* animation thread (1) and the work queue (-1) preempt it.  The work      *)
(* handlers of the two timers are cooperative and one step each, timer     *)
(* included.  Timers expire, and milliseconds pass, at any time.  A        *)
(* setting is a brightness of every LED, and a request names some of them. *)
(* The model starts when main() has set the first automatic setting.       *)
(***************************************************************************)
EXTENDS Integers

CONSTANTS
  LEDS, MAX_BRIGHTNESS,
  Posts,            \* what requests ask for: functions from some of the LEDs
  First, Preset0,   \* what main() sets, and what preset 0 switches on
  Between           \* any brightness during an animation

Colors == [LEDS -> 0..MAX_BRIGHTNESS]
OFF == [l \in LEDS |-> 0]   \* disable_leds()

ASSUME LedAssumption ==
  MAX_BRIGHTNESS \in Nat /\ First \in Colors /\ Preset0 \in Colors

Now == 3   \* of the timestamps only the order is kept: 0 is none, 1 < 2 < Now

VARIABLES
  leds_auto, leds_manual,
  manual_timestamp, dimmed_timestamp,
  manual_timer, dimmer_timer,  \* running
  target, curr,                \* of led_values[]
  left,                        \* the animation is not over yet
  anim_sem, anim,              \* the animation thread
  coap,                        \* the CoAP handler
  raced                        \* see work_handler()

sources == <<leds_auto, leds_manual, manual_timestamp, dimmed_timestamp>>
timers  == <<manual_timer, dimmer_timer>>
leds    == <<target, curr, left, anim_sem, anim>>
vars    == <<sources, timers, leds, coap, raced>>

(* The handler of setting leds shows src, where it has yet to set the      *)
(* targets of rest, and starts timer when it ends.                         *)
Idle == [pc |-> "idle", leds |-> OFF, src |-> "auto", rest |-> {},
         timer |-> "none"]

Init ==
  /\ leds_auto = First /\ leds_manual = OFF
  /\ manual_timestamp = 0 /\ dimmed_timestamp = 0
  /\ manual_timer = FALSE /\ dimmer_timer = FALSE
  /\ target = leds_auto /\ curr = OFF /\ left = TRUE
  /\ anim_sem = 1 /\ anim = "forever"
  /\ coap = Idle /\ raced = FALSE

-----------------------------------------------------------------------------
(* The choice of process(), and what led_anim() makes of it. *)

Value(src) ==
  CASE src = "dimmed" -> OFF
    [] src = "manual" -> leds_manual
    [] src = "auto"   -> leds_auto

Newest ==
  IF dimmed_timestamp > manual_timestamp THEN "dimmed"
  ELSE IF manual_timestamp > 0 THEN "manual" ELSE "auto"

Goto(pc) == coap' = [coap EXCEPT !.pc = pc]

Compare ==
  /\ coap.pc = "compare"
  /\ IF dimmed_timestamp > manual_timestamp
     THEN coap' = [coap EXCEPT !.pc = "start", !.src = "dimmed"]
     ELSE Goto("second")
  /\ raced' = FALSE
  /\ UNCHANGED <<sources, timers, leds>>

CompareManual ==
  /\ coap.pc = "second"
  /\ coap' = [coap EXCEPT !.pc = "start",
                          !.src = IF manual_timestamp > 0 THEN "manual"
                                                          ELSE "auto"]
  /\ UNCHANGED <<sources, timers, leds, raced>>

StartAnim ==
  /\ coap.pc = "start"
  /\ left' \in BOOLEAN
  /\ coap' = [coap EXCEPT !.pc = "target", !.rest = LEDS]
  /\ UNCHANGED <<sources, timers, target, curr, anim_sem, anim, raced>>

SetTarget ==   \* one LED after the other
  /\ coap.pc = "target"
  /\ \E l \in coap.rest :
       /\ target' = [target EXCEPT ![l] = Value(coap.src)[l]]
       /\ coap' = [coap EXCEPT !.rest = @ \ {l},
                               !.pc = IF coap.rest = {l} THEN "give" ELSE @]
  /\ UNCHANGED <<sources, timers, curr, left, anim_sem, anim, raced>>

GiveSem ==
  /\ coap.pc = "give"
  /\ anim_sem' = 1
  /\ Goto("timer")
  /\ UNCHANGED <<sources, timers, target, curr, left, anim, raced>>

process == Compare \/ CompareManual \/ StartAnim \/ SetTarget \/ GiveSem

MutSwapped ==   \* mutant of StartTimer: the handlers start each other's timer
  /\ coap.pc = "timer"
  /\ manual_timer' = (manual_timer \/ coap.timer = "dimmer")
  /\ dimmer_timer' = (dimmer_timer \/ coap.timer = "manual")
  /\ coap' = Idle
  /\ UNCHANGED <<sources, leds, raced>>

StartTimer ==   \* k_timer_start(), where the handler has one, and return
  /\ coap.pc = "timer"
  /\ manual_timer' = (manual_timer \/ coap.timer = "manual")
  /\ dimmer_timer' = (dimmer_timer \/ coap.timer = "dimmer")
  /\ coap' = Idle
  /\ UNCHANGED <<sources, leds, raced>>

-----------------------------------------------------------------------------
(* Requests. *)

Handle(pc, setting, timer) ==
  /\ coap.pc = "idle"
  /\ coap' = [Idle EXCEPT !.pc = pc, !.leds = setting, !.timer = timer]
  /\ UNCHANGED <<sources, timers, leds, raced>>

Names(p, l) == l \in DOMAIN p /\ p[l] \in 0..MAX_BRIGHTNESS   \* handle_color()

PostColors(p) ==   \* the LEDs that are not named keep what they are to show
  /\ \E l \in LEDS : Names(p, l)
  /\ Handle("test", [l \in LEDS |-> IF Names(p, l) THEN p[l] ELSE target[l]],
            "manual")

PostPreset0 ==   \* switches the LEDs off, or on
  Handle("test", IF target # OFF THEN OFF ELSE Preset0, "manual")

PostReset == Handle("reset", OFF, "none")
PostAuto(p) ==
  /\ \A l \in LEDS : Names(p, l)
  /\ Handle("auto", [l \in LEDS |-> p[l]], "none")
PostPrj(active) == IF active THEN Handle("dim", OFF, "dimmer")
                             ELSE Handle("undim", OFF, "none")

TestDimmed ==
  /\ coap.pc = "test"
  /\ Goto(IF coap.leds = OFF /\ dimmed_timestamp > 0 THEN "redim" ELSE "stamp")
  /\ UNCHANGED <<sources, timers, leds, raced>>

Redim ==
  /\ coap.pc = "redim"
  /\ dimmed_timestamp' = Now
  /\ Goto("compare")
  /\ UNCHANGED <<leds_auto, leds_manual, manual_timestamp, timers, leds, raced>>

Stamp ==
  /\ coap.pc = "stamp"
  /\ manual_timestamp' = Now
  /\ Goto("store")
  /\ UNCHANGED <<leds_auto, leds_manual, dimmed_timestamp, timers, leds, raced>>

Store ==
  /\ coap.pc = "store"
  /\ leds_manual' = coap.leds
  /\ Goto("compare")
  /\ UNCHANGED <<leds_auto, manual_timestamp, dimmed_timestamp, timers, leds,
                 raced>>

led_ctlr_set_manual == TestDimmed \/ Redim \/ Stamp \/ Store

led_ctlr_set_auto ==
  /\ coap.pc = "auto"
  /\ leds_auto' = coap.leds
  /\ Goto("compare")
  /\ UNCHANGED <<leds_manual, manual_timestamp, dimmed_timestamp, timers, leds,
                 raced>>

MutNoProcess ==   \* mutant of led_ctlr_reset_manual: what is shown stays
  /\ coap.pc = "reset"
  /\ manual_timestamp' = 0
  /\ Goto("timer")
  /\ UNCHANGED <<leds_auto, leds_manual, dimmed_timestamp, timers, leds, raced>>

led_ctlr_reset_manual ==
  /\ coap.pc = "reset"
  /\ manual_timestamp' = 0
  /\ Goto("compare")
  /\ UNCHANGED <<leds_auto, leds_manual, dimmed_timestamp, timers, leds, raced>>

led_ctlr_dim ==
  /\ coap.pc = "dim"
  /\ dimmed_timestamp' = IF dimmed_timestamp = 0 THEN Now ELSE dimmed_timestamp
  /\ Goto("compare")
  /\ UNCHANGED <<leds_auto, leds_manual, manual_timestamp, timers, leds, raced>>

led_ctlr_reset_dimmer ==
  /\ coap.pc = "undim"
  /\ dimmed_timestamp' = 0
  /\ Goto("compare")
  /\ UNCHANGED <<leds_auto, leds_manual, manual_timestamp, timers, leds, raced>>

Requests ==
  \/ \E p \in Posts : PostColors(p) \/ PostAuto(p)
  \/ PostPreset0 \/ PostReset
  \/ \E active \in BOOLEAN : PostPrj(active)

Coap ==
  \/ led_ctlr_set_manual \/ led_ctlr_set_auto \/ led_ctlr_reset_manual
  \/ led_ctlr_dim \/ led_ctlr_reset_dimmer
  \/ process \/ StartTimer

-----------------------------------------------------------------------------
(* Timers.  The work shows the newest source, too: when it preempts a      *)
(* handler that has compared the timestamps and has not set all targets    *)
(* yet, that will set what was the newest source before.                   *)

Deciding == coap.pc \in {"second", "start", "target"}

work_handler ==
  /\ UNCHANGED <<leds_auto, leds_manual, curr, anim, coap>>
  /\ target' = Value(Newest)'
  /\ left' \in BOOLEAN
  /\ anim_sem' = 1
  /\ raced' = Deciding

ManualTimer ==
  /\ manual_timer /\ manual_timer' = FALSE
  /\ manual_timestamp' = 0
  /\ UNCHANGED <<dimmed_timestamp, dimmer_timer>>
  /\ work_handler

DimmerTimer ==
  /\ dimmer_timer /\ dimmer_timer' = FALSE
  /\ dimmed_timestamp' = 0
  /\ UNCHANGED <<manual_timestamp, manual_timer>>
  /\ work_handler

Aged(a, b) == IF a = 0 THEN 0 ELSE IF a > b THEN 2 ELSE 1

Tick ==
  /\ manual_timestamp' = Aged(manual_timestamp, dimmed_timestamp)
  /\ dimmed_timestamp' = Aged(dimmed_timestamp, manual_timestamp)
  /\ left' = FALSE
  /\ UNCHANGED <<leds_auto, leds_manual, timers, target, curr, anim_sem, anim,
                 coap, raced>>

-----------------------------------------------------------------------------
(* The animation thread: it waits for 20 ms, or forever when all is done. *)

Check ==
  /\ anim = "check"
  /\ anim' = IF curr = target THEN "forever" ELSE "20ms"
  /\ UNCHANGED <<sources, timers, target, curr, left, anim_sem, coap, raced>>

MutWaits ==   \* mutant of Animate: waits as if the target never changed
  /\ anim = "20ms" \/ (anim = "forever" /\ anim_sem = 1)
  /\ anim_sem' = 0
  /\ curr' = IF left /\ curr # target THEN Between ELSE target
  /\ anim' = IF left THEN "forever" ELSE "check"
  /\ UNCHANGED <<sources, timers, target, left, coap, raced>>

Animate ==
  /\ anim = "20ms" \/ (anim = "forever" /\ anim_sem = 1)
  /\ anim_sem' = 0
  /\ curr' = IF left /\ curr # target THEN Between ELSE target
  /\ anim' = "check"
  /\ UNCHANGED <<sources, timers, target, left, coap, raced>>

Animation == Check \/ Animate

Next == Requests \/ Coap \/ ManualTimer \/ DimmerTimer \/ Tick \/ Animation

Spec == Init /\ [][Next]_vars

(* Ready threads run, timers expire, and time passes. *)
Fairness ==
  /\ WF_vars(Coap) /\ WF_vars(Animation)
  /\ WF_vars(ManualTimer) /\ WF_vars(DimmerTimer) /\ WF_vars(Tick)

FairSpec == Spec /\ Fairness

-----------------------------------------------------------------------------
(* Properties. *)

(* What an LED has been asked to be: by a request, main() or a preset. *)
Levels(l) == {0, First[l], Preset0[l]} \cup {p[l] : p \in {q \in Posts : Names(q, l)}}

Asked == {c \in Colors : \A l \in LEDS : c[l] \in Levels(l)}

PCs == {"idle", "test", "redim", "stamp", "store", "auto", "reset", "dim",
        "undim", "compare", "second", "start", "target", "give", "timer"}

(* Every LED is set to a brightness that has been asked of it, although a  *)
(* setting that is stored may mix what a request names with what happens   *)
(* to be shown, and no request has asked for all of it.                    *)
TypeOK ==
  /\ leds_auto \in Asked /\ leds_manual \in Asked
  /\ manual_timestamp \in 0..Now /\ dimmed_timestamp \in 0..Now
  /\ manual_timer \in BOOLEAN /\ dimmer_timer \in BOOLEAN
  /\ target \in Asked /\ curr \in Asked \cup {Between}
  /\ left \in BOOLEAN /\ anim_sem \in {0, 1}
  /\ anim \in {"check", "forever", "20ms"}
  /\ coap \in [pc: PCs, leds: Asked, src: {"dimmed", "manual", "auto"},
               rest: SUBSET LEDS, timer: {"none", "manual", "dimmer"}]
  /\ raced \in BOOLEAN

(* The target is the newest valid source whenever no handler is on its way *)
(* to it, except after a timer has expired between its comparison and its  *)
(* assignment: there is no other window for a stale one.                   *)
ShowsNewest ==
  coap.pc \in {"idle", "give", "timer"} /\ ~raced => target = Value(Newest)

(* A manual setting is over in the end: as long as it counts its timer     *)
(* runs, or the handler that has set it is about to start it.              *)
ManualExpires ==
  manual_timestamp > 0 => manual_timer \/ coap.timer = "manual"

(* A manual setting that is newer than the dimmer keeps the LEDs, however  *)
(* often the projector is reported, until it ends or switches them off.    *)
ManualStays ==
  [][0 < dimmed_timestamp /\ dimmed_timestamp <= manual_timestamp =>
       \/ dimmed_timestamp' <= manual_timestamp'
       \/ manual_timestamp' = 0
       \/ coap.pc = "redim"]_vars

(* When requests end, the manual setting expires and the LEDs come to      *)
(* shine as they are to: no wakeup of the animation thread is lost.        *)
Shines ==
  <>[][~Requests]_vars => <>[](manual_timestamp = 0 /\ curr = target)

(* What is restored after the projector is the "last manual setting, even  *)
(* if set while the projector was enabled".  Not an invariant: switching   *)
(* off while the LEDs are dimmed stores nothing.                           *)
LastManual == coap.pc = "timer" /\ coap.timer = "manual" => leds_manual = coap.leds
=============================================================================
