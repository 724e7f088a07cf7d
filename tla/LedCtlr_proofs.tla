--------------------------- MODULE LedCtlr_proofs ---------------------------
(***************************************************************************)
(* Proofs about the LED strip, for any settings of the LEDs: a manual      *)
(* setting expires, it stays until then, and the LEDs show the newest      *)
(* source but for one window.                                              *)
(***************************************************************************)
EXTENDS LedCtlr, TLAPS

Coaps == [pc: PCs, leds: Asked, src: {"dimmed", "manual", "auto"},
          rest: SUBSET LEDS, timer: {"none", "manual", "dimmer"}]

(* The handlers that set a manual setting start its timer when they end.   *)
Handled(c) ==
  /\ c \in Coaps
  /\ c.pc = "idle" => c.timer = "none"
  /\ c.pc \in {"test", "redim", "stamp", "store"} => c.timer = "manual"

Typed ==
  /\ leds_auto \in Asked /\ leds_manual \in Asked
  /\ manual_timestamp \in 0..Now /\ dimmed_timestamp \in 0..Now
  /\ manual_timer \in BOOLEAN /\ dimmer_timer \in BOOLEAN
  /\ target \in Asked /\ curr \in Asked \cup {Between}
  /\ left \in BOOLEAN /\ anim_sem \in {0, 1}
  /\ anim \in {"check", "forever", "20ms"}
  /\ raced \in BOOLEAN

TypeInv == Typed /\ Handled(coap)

LEMMA TheseAreAsked == OFF \in Asked /\ First \in Asked /\ Preset0 \in Asked
  BY LedAssumption DEF OFF, Asked, Colors, Levels

LEMMA IdleIsHandled == Handled(Idle) /\ Idle \in Coaps
<1>1. Idle \in Coaps
  <2>1. OFF \in Asked /\ {} \in SUBSET LEDS
    BY TheseAreAsked
  <2> QED
    BY <2>1 DEF Coaps, PCs, Idle
<1> QED
  BY <1>1 DEF Handled, Idle

LEMMA ValueIsAsked ==
  ASSUME TypeInv, NEW src \in {"dimmed", "manual", "auto"}
  PROVE  Value(src) \in Asked
  BY TheseAreAsked DEF TypeInv, Typed, Value

(* A request that names some of the LEDs leaves each LED with what it has  *)
(* been asked to be, by it or before it.                                   *)
LEMMA MergedIsAsked ==
  ASSUME NEW c \in Asked, NEW p \in Posts
  PROVE  [l \in LEDS |-> IF Names(p, l) THEN p[l] ELSE c[l]] \in Asked
<1> DEFINE new == [l \in LEDS |-> IF Names(p, l) THEN p[l] ELSE c[l]]
<1>1. ASSUME NEW l \in LEDS PROVE new[l] \in 0..MAX_BRIGHTNESS /\ new[l] \in Levels(l)
  <2>1. CASE Names(p, l)
    BY <2>1 DEF Names, Levels
  <2>2. CASE ~Names(p, l)
    BY <2>2 DEF Asked, Colors
  <2> QED
    BY <2>1, <2>2
<1> QED
  BY <1>1 DEF Asked, Colors

LEMMA OneIsAsked ==
  ASSUME NEW c \in Asked, NEW d \in Asked, NEW l \in LEDS
  PROVE  [c EXCEPT ![l] = d[l]] \in Asked
  BY DEF Asked, Colors

LEMMA AgedKeepsOrder ==
  ASSUME NEW a \in 0..Now, NEW b \in 0..Now
  PROVE  /\ Aged(a, b) \in 0..Now
         /\ Aged(a, b) > 0 <=> a > 0
         /\ Aged(a, b) > Aged(b, a) <=> a > b
  BY DEF Aged, Now

LEMMA TypeInit == Init => TypeInv
<1> SUFFICES ASSUME Init PROVE TypeInv
  OBVIOUS
<1>1. Handled(coap)
  BY IdleIsHandled DEF Init
<1>2. left \in BOOLEAN /\ manual_timer \in BOOLEAN /\ dimmer_timer \in BOOLEAN
      /\ raced \in BOOLEAN
  BY Zenon DEF Init
<1>3. Typed
  BY <1>2, TheseAreAsked DEF Init, Typed, Now
<1> QED
  BY <1>1, <1>3 DEF TypeInv

(* A step of a handler that leaves its setting and its timer alone. *)
LEMMA GotoIsHandled ==
  ASSUME TypeInv,
         NEW pc \in {"redim", "stamp", "store", "compare", "second", "timer"},
         pc \in {"redim", "stamp"} => coap.pc = "test",
         pc = "store" => coap.pc = "stamp",
         Goto(pc)
  PROVE  Handled(coap')
<1>1. coap \in Coaps /\ coap' = [coap EXCEPT !.pc = pc]
  BY DEF TypeInv, Handled, Goto
<1> QED
  BY <1>1 DEF TypeInv, Handled, Coaps, PCs

LEMMA HandleIsHandled ==
  ASSUME NEW pc \in {"test", "reset", "auto", "dim", "undim"},
         NEW setting \in Asked, NEW timer \in {"none", "manual", "dimmer"},
         pc = "test" => timer = "manual",
         Handle(pc, setting, timer)
  PROVE  Handled(coap')
<1>1. coap' = [Idle EXCEPT !.pc = pc, !.leds = setting, !.timer = timer]
  BY DEF Handle
<1>2. coap' \in Coaps /\ coap'.pc = pc /\ coap'.timer = timer
  BY <1>1, IdleIsHandled DEF Coaps, PCs
<1> QED
  BY <1>2 DEF Handled

LEMMA TypeRequests == TypeInv /\ Requests => TypeInv'
<1> SUFFICES ASSUME TypeInv, Requests PROVE TypeInv'
  OBVIOUS
<1>1. UNCHANGED <<sources, timers, leds, raced>>
  BY DEF Requests, PostColors, PostPreset0, PostReset, PostAuto, PostPrj, Handle
<1>2. Typed'
  BY <1>1 DEF TypeInv, Typed, sources, timers, leds
<1>3. target \in Asked
  BY DEF TypeInv, Typed
<1>4. ASSUME NEW p \in Posts, PostColors(p) PROVE Handled(coap')
  BY <1>3, <1>4, MergedIsAsked, HandleIsHandled DEF PostColors
<1>5. ASSUME PostPreset0 PROVE Handled(coap')
  BY <1>5, TheseAreAsked, HandleIsHandled DEF PostPreset0
<1>6. ASSUME PostReset PROVE Handled(coap')
  BY <1>6, TheseAreAsked, HandleIsHandled DEF PostReset
<1>7. ASSUME NEW p \in Posts, PostAuto(p) PROVE Handled(coap')
  <2>1. [l \in LEDS |-> p[l]] = [l \in LEDS |-> IF Names(p, l) THEN p[l] ELSE target[l]]
    BY <1>7 DEF PostAuto
  <2>2. [l \in LEDS |-> p[l]] \in Asked
    BY <1>3, <2>1, MergedIsAsked
  <2> QED
    BY <1>7, <2>2, HandleIsHandled DEF PostAuto
<1>8. ASSUME NEW active \in BOOLEAN, PostPrj(active) PROVE Handled(coap')
  BY <1>8, TheseAreAsked, HandleIsHandled DEF PostPrj
<1> QED
  BY <1>2, <1>4, <1>5, <1>6, <1>7, <1>8 DEF Requests, TypeInv

LEMMA TypeNext == TypeInv /\ [Next]_vars => TypeInv'
<1> SUFFICES ASSUME TypeInv, [Next]_vars PROVE TypeInv'
  OBVIOUS
<1> USE DEF sources, timers, leds
<1>1. Typed /\ Handled(coap) /\ coap \in Coaps
  BY DEF TypeInv, Handled
<1>2. CASE Requests
  BY <1>2, TypeRequests
<1>3. CASE led_ctlr_set_manual
  <2>1. CASE TestDimmed
    <3>1. Handled(coap')
      BY <2>1, GotoIsHandled DEF TestDimmed
    <3> QED
      BY <1>1, <2>1, <3>1 DEF TestDimmed, TypeInv, Typed
  <2>2. CASE Redim
    <3>1. Handled(coap')
      BY <2>2, GotoIsHandled DEF Redim
    <3> QED
      BY <1>1, <2>2, <3>1 DEF Redim, TypeInv, Typed, Now
  <2>3. CASE Stamp
    <3>1. Handled(coap')
      BY <2>3, GotoIsHandled DEF Stamp
    <3> QED
      BY <1>1, <2>3, <3>1 DEF Stamp, TypeInv, Typed, Now
  <2>4. CASE Store
    <3>1. Handled(coap') /\ leds_manual' \in Asked
      BY <1>1, <2>4, GotoIsHandled DEF Store, Coaps
    <3> QED
      BY <1>1, <2>4, <3>1 DEF Store, TypeInv, Typed
  <2> QED
    BY <1>3, <2>1, <2>2, <2>3, <2>4 DEF led_ctlr_set_manual
<1>4. CASE led_ctlr_set_auto
  <2>1. Handled(coap') /\ leds_auto' \in Asked
    BY <1>1, <1>4, GotoIsHandled DEF led_ctlr_set_auto, Coaps
  <2> QED
    BY <1>1, <1>4, <2>1 DEF led_ctlr_set_auto, TypeInv, Typed
<1>5. CASE led_ctlr_reset_manual \/ led_ctlr_dim \/ led_ctlr_reset_dimmer
  <2>1. Handled(coap')
    BY <1>5, GotoIsHandled DEF led_ctlr_reset_manual, led_ctlr_dim,
                               led_ctlr_reset_dimmer
  <2>2. manual_timestamp' \in 0..Now /\ dimmed_timestamp' \in 0..Now
    BY <1>1, <1>5 DEF led_ctlr_reset_manual, led_ctlr_dim,
                      led_ctlr_reset_dimmer, Typed, Now
  <2>3. UNCHANGED <<leds_auto, leds_manual, timers, leds, raced>>
    BY <1>5 DEF led_ctlr_reset_manual, led_ctlr_dim, led_ctlr_reset_dimmer
  <2> QED
    BY <1>1, <2>1, <2>2, <2>3 DEF TypeInv, Typed
<1>6. CASE Compare \/ CompareManual
  <2>1. Handled(coap')
    <3>1. CASE Goto("second")
      BY <3>1, GotoIsHandled
    <3>2. CASE ~Goto("second")
      <4>1. PICK src \in {"dimmed", "manual", "auto"} :
              coap' = [coap EXCEPT !.pc = "start", !.src = src]
        BY <1>6, <3>2 DEF Compare, CompareManual
      <4> QED
        BY <1>1, <4>1 DEF Handled, Coaps, PCs
    <3> QED
      BY <3>1, <3>2
  <2>2. raced' \in BOOLEAN
    BY <1>1, <1>6, Zenon DEF Compare, CompareManual, Typed
  <2>3. UNCHANGED <<sources, timers, leds>>
    BY <1>6 DEF Compare, CompareManual
  <2> QED
    BY <1>1, <2>1, <2>2, <2>3 DEF TypeInv, Typed
<1>7. CASE StartAnim \/ SetTarget \/ GiveSem
  <2>1. CASE StartAnim
    <3>1. Handled(coap') /\ left' \in BOOLEAN
      BY <1>1, <2>1 DEF StartAnim, Handled, Coaps, PCs
    <3> QED
      BY <1>1, <2>1, <3>1 DEF StartAnim, TypeInv, Typed
  <2>2. CASE SetTarget
    <3>1. PICK l \in coap.rest :
            /\ target' = [target EXCEPT ![l] = Value(coap.src)[l]]
            /\ coap' = [coap EXCEPT !.rest = @ \ {l},
                            !.pc = IF coap.rest = {l} THEN "give" ELSE @]
      BY <2>2 DEF SetTarget
    <3>2. l \in LEDS /\ Value(coap.src) \in Asked /\ target \in Asked
      BY <1>1, ValueIsAsked DEF Coaps, Typed
    <3>3. target' \in Asked
      BY <3>1, <3>2, OneIsAsked
    <3>4. coap.pc = "target"
      BY <2>2 DEF SetTarget
    <3>5. Handled(coap')
      BY <1>1, <3>1, <3>4 DEF Handled, Coaps, PCs
    <3> QED
      BY <1>1, <2>2, <3>3, <3>5 DEF SetTarget, TypeInv, Typed
  <2>3. CASE GiveSem
    <3>1. Handled(coap')
      BY <2>3, GotoIsHandled DEF GiveSem
    <3> QED
      BY <1>1, <2>3, <3>1 DEF GiveSem, TypeInv, Typed
  <2> QED
    BY <1>7, <2>1, <2>2, <2>3
<1>8. CASE StartTimer
  <2>1. Handled(coap')
    BY <1>8, IdleIsHandled DEF StartTimer
  <2>2. manual_timer' \in BOOLEAN /\ dimmer_timer' \in BOOLEAN
    BY <1>8, Zenon DEF StartTimer
  <2> QED
    BY <1>1, <1>8, <2>1, <2>2 DEF StartTimer, TypeInv, Typed
<1>9. CASE ManualTimer \/ DimmerTimer
  <2>1. UNCHANGED <<leds_auto, leds_manual, curr, anim, coap>>
    BY <1>9 DEF ManualTimer, DimmerTimer, work_handler
  <2>2. manual_timestamp' \in 0..Now /\ dimmed_timestamp' \in 0..Now
    BY <1>1, <1>9 DEF ManualTimer, DimmerTimer, Typed, Now
  <2>3. target' \in Asked
    BY <1>1, <1>9, TheseAreAsked DEF ManualTimer, DimmerTimer, work_handler,
       Value, Newest, Typed
  <2>4. left' \in BOOLEAN /\ anim_sem' \in {0, 1}
    BY <1>9 DEF ManualTimer, DimmerTimer, work_handler
  <2>5. /\ raced' \in BOOLEAN /\ manual_timer' \in BOOLEAN
        /\ dimmer_timer' \in BOOLEAN
    <3>1. raced' = Deciding
      BY <1>9, Zenon DEF ManualTimer, DimmerTimer, work_handler
    <3>2. Deciding \in BOOLEAN
      BY DEF Deciding
    <3>3. CASE ManualTimer
      BY <1>1, <3>1, <3>2, <3>3, Zenon DEF ManualTimer, Typed
    <3>4. CASE DimmerTimer
      BY <1>1, <3>1, <3>2, <3>4, Zenon DEF DimmerTimer, Typed
    <3> QED
      BY <1>9, <3>3, <3>4
  <2> QED
    BY <1>1, <2>1, <2>2, <2>3, <2>4, <2>5 DEF TypeInv, Typed
<1>10. CASE Tick
  <2>1. manual_timestamp' \in 0..Now /\ dimmed_timestamp' \in 0..Now
    BY <1>1, <1>10, AgedKeepsOrder DEF Tick, Typed
  <2>2. left' \in BOOLEAN
    BY <1>10, Zenon DEF Tick
  <2> QED
    BY <1>1, <1>10, <2>1, <2>2 DEF Tick, TypeInv, Typed
<1>11. CASE Animation
  BY <1>1, <1>11 DEF Animation, Check, Animate, TypeInv, Typed
<1>12. CASE UNCHANGED vars
  BY <1>1, <1>12 DEF vars, TypeInv, Typed
<1> QED
  BY <1>2, <1>3, <1>4, <1>5, <1>6, <1>7, <1>8, <1>9, <1>10, <1>11, <1>12
  DEF Next, Coap, process

(* Every variable keeps its type: the stored settings and the targets give *)
(* each LED a brightness within its range that has been asked of that LED, *)
(* although requests are merged with what is shown (handle_rgbw_post() of  *)
(* coap.c) and timers change the targets of some LEDs only.                *)
THEOREM TypeCorrect == Spec => []TypeOK
<1>1. TypeInv => TypeOK
  BY DEF TypeInv, Typed, Handled, Coaps, TypeOK
<1> QED
  BY TypeInit, TypeNext, <1>1, PTL DEF Spec

-----------------------------------------------------------------------------
(* The timers of settings. *)

ExpiresInv == TypeInv /\ ManualExpires

LEMMA ExpiresNext == ExpiresInv /\ [Next]_vars => ManualExpires'
<1> SUFFICES ASSUME ExpiresInv, [Next]_vars PROVE ManualExpires'
  OBVIOUS
<1>1. Handled(coap) /\ coap \in Coaps /\ ManualExpires
  BY DEF ExpiresInv, TypeInv, Handled
<1>2. CASE Requests
  <2>1. coap.pc = "idle" /\ UNCHANGED <<manual_timestamp, manual_timer>>
    BY <1>2 DEF Requests, PostColors, PostPreset0, PostReset, PostAuto, PostPrj,
                Handle, sources, timers
  <2> QED
    BY <1>1, <2>1 DEF Handled, ManualExpires
<1>3. CASE Stamp
  BY <1>1, <1>3 DEF Stamp, Goto, Handled, Coaps, ManualExpires
<1>4. CASE StartTimer
  BY <1>1, <1>4 DEF StartTimer, sources, ManualExpires
<1>5. CASE ManualTimer \/ led_ctlr_reset_manual
  BY <1>5 DEF ManualTimer, led_ctlr_reset_manual, ManualExpires
<1>6. CASE DimmerTimer
  BY <1>1, <1>6 DEF DimmerTimer, work_handler, ManualExpires
<1>7. CASE Tick
  <2>1. manual_timestamp' > 0 => manual_timestamp > 0
    BY <1>7, AgedKeepsOrder DEF Tick, ExpiresInv, TypeInv, Typed
  <2> QED
    BY <1>1, <1>7, <2>1 DEF Tick, timers, ManualExpires
<1>8. CASE process
  BY <1>1, <1>8 DEF process, Compare, CompareManual, StartAnim, SetTarget,
     GiveSem, Goto, Coaps, sources, timers, ManualExpires
<1>9. CASE \/ TestDimmed \/ Redim \/ Store \/ led_ctlr_set_auto
           \/ led_ctlr_dim \/ led_ctlr_reset_dimmer
  BY <1>1, <1>9 DEF TestDimmed, Redim, Store, led_ctlr_set_auto, led_ctlr_dim,
     led_ctlr_reset_dimmer, Goto, Coaps, sources, timers, ManualExpires
<1>10. CASE Animation \/ UNCHANGED vars
  BY <1>1, <1>10 DEF Animation, Check, Animate, sources, timers, vars,
     ManualExpires
<1> QED
  BY <1>2, <1>3, <1>4, <1>5, <1>6, <1>7, <1>8, <1>9, <1>10
  DEF Next, Coap, led_ctlr_set_manual

(* A manual setting that counts has a timer that ends it, running or about *)
(* to be started: no setting stays for ever by a timer that is lost.       *)
THEOREM ManualExpiresHolds == Spec => []ManualExpires
<1>1. Init => ManualExpires
  BY DEF Init, ManualExpires
<1>2. ExpiresInv /\ [Next]_vars => ExpiresInv'
  BY ExpiresNext, TypeNext DEF ExpiresInv
<1>3. Init => ExpiresInv
  BY <1>1, TypeInit DEF ExpiresInv
<1>4. ExpiresInv => ManualExpires
  BY DEF ExpiresInv
<1> QED
  BY <1>2, <1>3, <1>4, PTL DEF Spec

(* A manual setting newer than the dimmer stays on the LEDs until it ends  *)
(* or switches them off, however often the projector is reported.          *)
THEOREM ManualStaysHolds == Spec => ManualStays
<1> DEFINE Stays == 0 < dimmed_timestamp /\ dimmed_timestamp <= manual_timestamp =>
                      \/ dimmed_timestamp' <= manual_timestamp'
                      \/ manual_timestamp' = 0
                      \/ coap.pc = "redim"
<1>1. TypeInv /\ [Next]_vars => Stays
  <2> SUFFICES ASSUME TypeInv, [Next]_vars,
                      0 < dimmed_timestamp, dimmed_timestamp <= manual_timestamp,
                      manual_timestamp' # 0, coap.pc # "redim"
               PROVE  dimmed_timestamp' <= manual_timestamp'
    OBVIOUS
  <2>1. dimmed_timestamp \in 0..Now /\ manual_timestamp \in 0..Now
    BY DEF TypeInv, Typed
  <2>2. CASE Tick
    <3>1. ~(dimmed_timestamp > manual_timestamp)
      BY <2>1 DEF Now
    <3>2. /\ ~(dimmed_timestamp' > manual_timestamp')
          /\ dimmed_timestamp' \in 0..Now /\ manual_timestamp' \in 0..Now
      BY <2>1, <2>2, <3>1, AgedKeepsOrder DEF Tick
    <3> QED
      BY <3>2 DEF Now
  <2>3. CASE Stamp
    BY <2>1, <2>3 DEF Stamp, Now
  <2>4. CASE led_ctlr_dim \/ led_ctlr_reset_dimmer
    BY <2>1, <2>4 DEF led_ctlr_dim, led_ctlr_reset_dimmer, Now
  <2>5. CASE ManualTimer \/ DimmerTimer \/ led_ctlr_reset_manual
    BY <2>1, <2>5 DEF ManualTimer, DimmerTimer, led_ctlr_reset_manual, Now
  <2>6. CASE UNCHANGED <<manual_timestamp, dimmed_timestamp>>
    BY <2>6
  <2>7. CASE Requests \/ process \/ StartTimer \/ Animation \/ UNCHANGED vars
    <3>1. UNCHANGED sources
      BY <2>7 DEF Requests, PostColors, PostPreset0, PostReset, PostAuto, PostPrj,
         Handle, process, Compare, CompareManual, StartAnim, SetTarget, GiveSem,
         StartTimer, Animation, Check, Animate, vars
    <3> QED
      BY <2>6, <3>1 DEF sources
  <2>8. CASE TestDimmed \/ Redim \/ Store \/ led_ctlr_set_auto
    BY <2>6, <2>8 DEF TestDimmed, Redim, Store, led_ctlr_set_auto, sources
  <2> QED
    BY <2>2, <2>3, <2>4, <2>5, <2>7, <2>8 DEF Next, Coap, led_ctlr_set_manual
<1> QED
  BY <1>1, TypeInit, TypeNext, PTL DEF Spec, ManualStays

-----------------------------------------------------------------------------
(* What the LEDs show. *)

(* Without a race the handler has still chosen the newest source.          *)
ChoiceInv ==
  /\ TypeInv
  /\ coap.pc = "second" /\ ~raced => ~(dimmed_timestamp > manual_timestamp)
  /\ coap.pc \in {"start", "target"} /\ ~raced => coap.src = Newest
  /\ coap.pc = "target" /\ ~raced =>
       \A l \in LEDS \ coap.rest : target[l] = Value(Newest)[l]
  /\ ShowsNewest

LEMMA NewestIsKept == UNCHANGED sources => UNCHANGED <<Newest, Value(Newest)>>
  BY DEF sources, Newest, Value

LEMMA NewestIsSource == Newest \in {"dimmed", "manual", "auto"}
  BY DEF Newest

(* Steps that leave the choice and the target alone. *)
LEMMA ChoiceUnchanged ==
  ASSUME ChoiceInv, TypeInv', UNCHANGED <<sources, target, raced>>,
         \/ coap' = coap
         \/ coap'.pc \notin {"second", "start", "target", "idle", "give", "timer"}
         \/ /\ coap.pc = "start" /\ coap'.pc = "target"
            /\ coap'.src = coap.src /\ coap'.rest = LEDS
         \/ /\ coap.pc \in {"idle", "give", "timer"}
            /\ coap'.pc \in {"idle", "give", "timer"}
  PROVE  ChoiceInv'
<1>1. UNCHANGED <<Newest, Value(Newest)>> /\ UNCHANGED sources
  BY NewestIsKept
<1> QED
  BY <1>1 DEF ChoiceInv, ShowsNewest, sources

LEMMA ChoiceNext == ChoiceInv /\ [Next]_vars => ChoiceInv'
<1> SUFFICES ASSUME ChoiceInv, [Next]_vars PROVE ChoiceInv'
  OBVIOUS
<1>1. coap \in Coaps /\ TypeInv /\ TypeInv'
  BY TypeNext DEF ChoiceInv, TypeInv, Handled
<1>2. CASE Requests
  <2>a. \E pc \in {"test", "reset", "auto", "dim", "undim"} :
          \E setting, timer : Handle(pc, setting, timer)
    BY <1>2, Zenon DEF Requests, PostColors, PostPreset0, PostReset, PostAuto, PostPrj
  <2>1. /\ UNCHANGED <<sources, target, raced>>
        /\ coap'.pc \in {"test", "reset", "auto", "dim", "undim"}
    BY <2>a DEF Handle, Idle, leds
  <2> QED
    BY <1>1, <2>1, ChoiceUnchanged
<1>3. CASE led_ctlr_set_manual \/ led_ctlr_set_auto \/ led_ctlr_reset_manual
           \/ led_ctlr_dim \/ led_ctlr_reset_dimmer
  <2>1. coap'.pc \in {"redim", "stamp", "store", "compare"}
    BY <1>1, <1>3 DEF led_ctlr_set_manual, TestDimmed, Redim, Stamp, Store,
       led_ctlr_set_auto, led_ctlr_reset_manual, led_ctlr_dim,
       led_ctlr_reset_dimmer, Goto, Coaps
  <2> QED
    BY <1>1, <2>1 DEF ChoiceInv, ShowsNewest
<1>4. CASE Compare
  <2>1. /\ UNCHANGED <<dimmed_timestamp, manual_timestamp>> /\ Newest' = Newest
        /\ raced' = FALSE
    BY <1>4, NewestIsKept DEF Compare, sources
  <2>2. CASE dimmed_timestamp > manual_timestamp
    <3>1. coap'.pc = "start" /\ coap'.src = "dimmed" /\ Newest = "dimmed"
      BY <1>1, <1>4, <2>2 DEF Compare, Coaps, Newest
    <3> QED
      BY <1>1, <2>1, <3>1 DEF ChoiceInv, ShowsNewest
  <2>3. CASE ~(dimmed_timestamp > manual_timestamp)
    <3>1. coap'.pc = "second"
      BY <1>1, <1>4, <2>3 DEF Compare, Coaps, Goto
    <3> QED
      BY <1>1, <2>1, <2>3, <3>1 DEF ChoiceInv, ShowsNewest
  <2> QED
    BY <2>2, <2>3
<1>5. CASE CompareManual
  <2>1. /\ coap.pc = "second" /\ coap'.pc = "start" /\ raced' = raced
        /\ coap'.src = IF manual_timestamp > 0 THEN "manual" ELSE "auto"
        /\ UNCHANGED sources
    BY <1>1, <1>5 DEF CompareManual, Coaps
  <2>2. Newest' = Newest
    BY <2>1, NewestIsKept
  <2> QED
    BY <1>1, <2>1, <2>2 DEF ChoiceInv, ShowsNewest, Newest
<1>6. CASE SetTarget
  <2>1. PICK l \in coap.rest :
          /\ target' = [target EXCEPT ![l] = Value(coap.src)[l]]
          /\ coap' = [coap EXCEPT !.rest = @ \ {l},
                          !.pc = IF coap.rest = {l} THEN "give" ELSE @]
    BY <1>6 DEF SetTarget
  <2>2. /\ coap.pc = "target" /\ UNCHANGED <<sources, raced>>
        /\ coap'.rest = coap.rest \ {l} /\ coap'.src = coap.src
        /\ coap'.pc = IF coap.rest = {l} THEN "give" ELSE "target"
    BY <1>1, <1>6, <2>1 DEF SetTarget, Coaps
  <2>3. Newest' = Newest /\ Value(Newest)' = Value(Newest)
    BY <2>2, NewestIsKept
  <2>4. Value(Newest) \in Asked
    BY <1>1, NewestIsSource, ValueIsAsked
  <2>5. target \in [LEDS -> 0..MAX_BRIGHTNESS] /\ target' \in [LEDS -> 0..MAX_BRIGHTNESS]
        /\ Value(Newest) \in [LEDS -> 0..MAX_BRIGHTNESS]
    BY <1>1, <2>4 DEF TypeInv, Typed, Asked, Colors
  <2>6. ~raced => /\ coap.src = Newest
                  /\ \A k \in LEDS \ coap'.rest : target'[k] = Value(Newest)[k]
    <3> SUFFICES ASSUME ~raced
                 PROVE  /\ coap.src = Newest
                        /\ \A k \in LEDS \ coap'.rest : target'[k] = Value(Newest)[k]
      OBVIOUS
    <3>1. coap.src = Newest
      BY <2>2 DEF ChoiceInv
    <3>2. \A k \in LEDS \ coap.rest : target[k] = Value(Newest)[k]
      BY <2>2 DEF ChoiceInv
    <3>3. ASSUME NEW k \in LEDS \ coap'.rest PROVE target'[k] = Value(Newest)[k]
      BY <2>1, <2>2, <2>5, <3>1, <3>2
    <3> QED
      BY <3>1, <3>3
  <2>7. coap'.pc = "give" /\ ~raced => target' = Value(Newest)
    <3> SUFFICES ASSUME coap'.pc = "give", ~raced PROVE target' = Value(Newest)
      OBVIOUS
    <3>1. coap'.rest = {}
      BY <2>2
    <3>2. \A k \in LEDS : target'[k] = Value(Newest)[k]
      BY <2>6, <3>1
    <3> QED
      BY <2>5, <3>2
  <2> QED
    BY <1>1, <2>2, <2>3, <2>6, <2>7 DEF ChoiceInv, ShowsNewest
<1>7. CASE StartAnim \/ GiveSem \/ StartTimer
  <2>1. /\ UNCHANGED <<sources, target, raced>>
        /\ \/ /\ coap.pc = "start" /\ coap'.pc = "target"
              /\ coap'.src = coap.src /\ coap'.rest = LEDS
           \/ /\ coap.pc \in {"idle", "give", "timer"}
              /\ coap'.pc \in {"idle", "give", "timer"}
    <3>1. CASE StartAnim
      BY <1>1, <3>1 DEF StartAnim, Coaps
    <3>2. CASE GiveSem
      BY <1>1, <3>2 DEF GiveSem, Goto, Coaps
    <3>3. CASE StartTimer
      BY <3>3 DEF StartTimer, Idle, leds
    <3> QED
      BY <1>7, <3>1, <3>2, <3>3
  <2> QED
    BY <1>1, <2>1, ChoiceUnchanged
<1>8. CASE ManualTimer \/ DimmerTimer
  <2>1. coap' = coap /\ target' = Value(Newest)' /\ raced' = Deciding
    BY <1>8 DEF ManualTimer, DimmerTimer, work_handler
  <2> QED
    BY <1>1, <2>1 DEF ChoiceInv, ShowsNewest, Deciding
<1>9. CASE Tick
  <2>1. /\ dimmed_timestamp' > manual_timestamp' <=> dimmed_timestamp > manual_timestamp
        /\ manual_timestamp' > 0 <=> manual_timestamp > 0
    BY <1>1, <1>9, AgedKeepsOrder DEF Tick, TypeInv, Typed
  <2>2. UNCHANGED <<coap, raced, target, leds_auto, leds_manual>>
    BY <1>9 DEF Tick
  <2>3. Newest' = Newest /\ Value(Newest)' = Value(Newest)
    BY <2>1, <2>2 DEF Newest, Value
  <2> QED
    BY <1>1, <2>1, <2>2, <2>3 DEF ChoiceInv, ShowsNewest
<1>10. CASE Animation \/ UNCHANGED vars
  <2>1. UNCHANGED <<sources, target, raced, coap>>
    BY <1>10 DEF Animation, Check, Animate, vars, leds
  <2> QED
    BY <1>1, <2>1, ChoiceUnchanged
<1> QED
  BY <1>2, <1>3, <1>4, <1>5, <1>6, <1>7, <1>8, <1>9, <1>10 DEF Next, Coap, process

(* The LEDs are set to the newest valid source, except in the one window   *)
(* in which a timer expires between the choice of the source and its use.  *)
THEOREM ShowsNewestHolds == Spec => []ShowsNewest
<1>1. Init => ChoiceInv
  BY TypeInit DEF Init, ChoiceInv, ShowsNewest, Idle, Newest, Value
<1>2. ChoiceInv => ShowsNewest
  BY DEF ChoiceInv
<1> QED
  BY <1>1, <1>2, ChoiceNext, PTL DEF Spec
=============================================================================
