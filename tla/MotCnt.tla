------------------------------- MODULE MotCnt -------------------------------
(***************************************************************************)
(* The motor controller of a shade (shcnt/src/mot_cnt.c) with its two      *)
(* relays (lib/relay.c) and the motor itself.                              *)
(*                                                                         *)
(* One thread serves the requests.  It blocks in k_sleep and in            *)
(* k_sem_take; what it does between two blocking calls is one step, since  *)
(* the thread (priority 1) preempts every thread that calls the API        *)
(* (priorities 2 and 4).  pc names the blocking call the thread is in, and *)
(* timer is what is left of its timeout.  A call of go_to() is two steps,  *)
(* the thread may run in between.  Time passes in ticks, and only while    *)
(* the thread is blocked.                                                  *)
(*                                                                         *)
(* phys is the real position of the shade, which the code never sees: it   *)
(* is scaled by FullSwing, so that a tick of movement is MaxVal units.     *)
(***************************************************************************)
EXTENDS Integers

CONSTANTS
  MaxVal,        \* MAX_VAL, the fully open position (255 in the code)
  RELAY_DELAY,   \* pause between two switchings of relays, in ticks
  DefaultTime,   \* DEFAULT_TIME, the run time assumed when none is configured
  RunTimes,      \* run times the device may be provisioned with (0: none)
  FullSwing,     \* the real time of a full swing of the motor
  Targets,       \* arguments of go_to(): STOP_VAL and positions
  IntMax,        \* INT_MAX, where loc_uncert stops counting
  MaxElapsed     \* bound of the movement time: positions are clamped before

ASSUME SizeAssumption ==
  /\ MaxVal \in Nat \ {0}
  /\ RELAY_DELAY \in Nat \ {0}
  /\ DefaultTime \in Nat \ {0}
  /\ RunTimes \subseteq Nat
  /\ FullSwing \in Nat \ {0}
  /\ Targets \subseteq Int
  /\ IntMax \in Nat \ {0}
  /\ MaxElapsed \in Nat
  /\ MaxElapsed >= DefaultTime
  /\ \A r \in RunTimes : MaxElapsed >= r

STOP_VAL == -1
MIN_VAL == 0
EINVAL == 22

VARIABLES
  target, sem, dir, run_time, known_loc, loc_uncert,  \* struct data
  elapsed,   \* now - movement_start_time, while dir is not STOP
  sw,        \* the power relay
  dirRelay,  \* the direction relay
  pc,        \* the blocking call the thread is in
  timer,     \* ticks left of its timeout
  left,      \* run_time argument of the go_up() or go_down() in progress
  goal,      \* the function that called it: go_min, go_max or go_target
  giving,    \* a caller of go_to() has stored the target, not given sem yet
  phys       \* the real position of the shade

belief   == <<known_loc, loc_uncert>>
motion   == <<dir, sw, elapsed>>
waiting  == <<pc, timer>>
call     == <<left, goal>>
orders == <<target, giving>>
vars == <<target, sem, dir, run_time, known_loc, loc_uncert, elapsed, sw,
          dirRelay, pc, timer, left, goal, giving, phys>>

(***************************************************************************)
(* Thread states: k_sleep calls, timed k_sem_take calls, the untimed one   *)
(* ("idle"), and "loop", the top of the loop with a request taken.         *)
(***************************************************************************)
Sleeps == {"stop_off", "stop_dir",
           "down_off", "down_dir", "down_start",
           "up_off", "up_dir", "up_start", "up_skip", "up_end"}
Runs   == {"down_run", "up_run"}
PCs    == Sleeps \cup Runs \cup {"idle", "loop"}

Init ==
  /\ target = 0 /\ sem = 0 /\ dir = "STOP"
  /\ run_time \in RunTimes       \* loaded from the settings before requests
  /\ known_loc = -1 /\ loc_uncert = 0
  /\ elapsed = 0
  /\ sw = FALSE /\ dirRelay = "DOWN"
  /\ pc = "idle" /\ timer = 0
  /\ left = 0 /\ goal = "target"
  /\ giving = FALSE
  /\ phys \in {MaxVal * k : k \in 0..FullSwing}

-----------------------------------------------------------------------------
(* Positions and times. *)

FullSwingRunTime == IF run_time # 0 THEN run_time ELSE DefaultTime

movement_delta(time) == (time * MaxVal) \div FullSwingRunTime
get_run_time(delta)  == (delta * FullSwingRunTime) \div MaxVal
get_full_run_time    == IF run_time # 0 THEN (run_time * 3) \div 2
                                        ELSE DefaultTime

Lower(a, b)  == IF a < b THEN a ELSE b
Higher(a, b) == IF a > b THEN a ELSE b

MutNoClamp ==   \* mutant of get_curr_pos: no clamping to MAX_VAL
  IF known_loc < 0 \/ run_time = 0 THEN -EINVAL
  ELSE CASE dir = "UP"   -> known_loc + movement_delta(elapsed)
         [] dir = "DOWN" -> Higher(known_loc - movement_delta(elapsed), MIN_VAL)
         [] dir = "STOP" -> known_loc

get_curr_pos ==
  IF known_loc < 0 \/ run_time = 0 THEN -EINVAL
  ELSE CASE dir = "UP"   -> Lower(known_loc + movement_delta(elapsed), MaxVal)
         [] dir = "DOWN" -> Higher(known_loc - movement_delta(elapsed), MIN_VAL)
         [] dir = "STOP" -> known_loc

MutNoUncertainty ==   \* mutant of update_curr_pos: loc_uncert not counted
  IF get_curr_pos < 0 THEN UNCHANGED belief
  ELSE known_loc' = get_curr_pos /\ UNCHANGED loc_uncert

update_curr_pos ==
  IF get_curr_pos < 0 THEN UNCHANGED belief
  ELSE /\ known_loc' = get_curr_pos
       /\ loc_uncert' = IF get_curr_pos # known_loc /\ loc_uncert < IntMax
                        THEN loc_uncert + 1 ELSE loc_uncert

save_known_loc(loc) == known_loc' = loc /\ loc_uncert' = 0

-----------------------------------------------------------------------------
(* Relays and blocking calls. *)

start_movement(d) == sw' = TRUE /\ dir' = d /\ elapsed' = 0
MotorOff          == sw' = FALSE /\ dir' = "STOP" /\ elapsed' = 0
stop_movement     == MotorOff /\ update_curr_pos
set_dir(d)        == dirRelay' = d

Sleep(p) == pc' = p /\ timer' = RELAY_DELAY

(* k_sem_take(&sem, K_MSEC(time)).  A timeout of zero is K_NO_WAIT: the    *)
(* call returns -EBUSY and not -EAGAIN, so that neither the movement is    *)
(* stopped nor the loop repeated.                                          *)
TakeSem(p, time) ==
  IF time > 0 THEN pc' = p /\ timer' = time /\ UNCHANGED sem
  ELSE /\ pc' = IF sem = 1 THEN "loop" ELSE "idle"
       /\ timer' = 0
       /\ sem' = 0

-----------------------------------------------------------------------------
(* go_down() and go_up(), called with the run time t by the function g.    *)

AtExtreme(loc) == known_loc = loc /\ loc_uncert = 0 /\ dir = "STOP"

MayStart(t) == sem = 0 /\ t >= RELAY_DELAY

SkipMovement ==   \* act like it was the requested movement
  /\ pc' = "idle"
  /\ UNCHANGED <<sem, timer, dirRelay, motion, belief, call>>

StartDown(t) ==
  /\ UNCHANGED <<belief, dirRelay>>
  /\ IF MayStart(t)
     THEN /\ start_movement("DOWN")
          /\ Sleep("down_start")
          /\ left' = t - RELAY_DELAY
          /\ UNCHANGED sem
     ELSE /\ TakeSem("down_run", 1)
          /\ left' = 1
          /\ UNCHANGED motion

GoDown(t, g) ==
  \/ AtExtreme(MIN_VAL) /\ SkipMovement
  \/ /\ ~AtExtreme(MIN_VAL) /\ dir = "UP"
     /\ stop_movement
     /\ Sleep("down_off")
     /\ left' = t /\ goal' = g
     /\ UNCHANGED <<sem, dirRelay>>
  \/ /\ ~AtExtreme(MIN_VAL) /\ dir = "STOP"
     /\ StartDown(t)
     /\ goal' = g
  \/ /\ ~AtExtreme(MIN_VAL) /\ dir = "DOWN"
     /\ TakeSem("down_run", t)
     /\ left' = t /\ goal' = g
     /\ UNCHANGED <<dirRelay, motion, belief>>

PrepareUp(t) ==
  /\ set_dir("UP")
  /\ Sleep("up_dir")
  /\ left' = t

GoUp(t, g) ==
  \/ AtExtreme(MaxVal) /\ SkipMovement
  \/ /\ ~AtExtreme(MaxVal) /\ dir = "DOWN"
     /\ stop_movement
     /\ Sleep("up_off")
     /\ left' = t /\ goal' = g
     /\ UNCHANGED <<sem, dirRelay>>
  \/ /\ ~AtExtreme(MaxVal) /\ dir = "STOP"
     /\ PrepareUp(t)
     /\ goal' = g
     /\ UNCHANGED <<sem, motion, belief>>
  \/ /\ ~AtExtreme(MaxVal) /\ dir = "UP"
     /\ TakeSem("up_run", t)
     /\ left' = t /\ goal' = g
     /\ UNCHANGED <<dirRelay, motion, belief>>

GoStop ==
  \/ /\ dir # "STOP"
     /\ stop_movement
     /\ Sleep("stop_off")
     /\ UNCHANGED <<sem, dirRelay, call>>
  \/ /\ dir = "STOP"
     /\ SkipMovement

MutNoStop ==   \* mutant of GoTarget: no go_stop() where the shade is on target
  \/ known_loc < 0 /\ SkipMovement
  \/ /\ known_loc >= 0
     /\ \/ /\ target > get_curr_pos
           /\ GoUp(get_run_time(target - get_curr_pos), "target")
        \/ /\ target < get_curr_pos
           /\ GoDown(get_run_time(get_curr_pos - target), "target")
        \/ /\ target = get_curr_pos
           /\ SkipMovement

GoTarget ==
  \/ known_loc < 0 /\ SkipMovement            \* -EINVAL
  \/ /\ known_loc >= 0
     /\ \/ /\ target > get_curr_pos
           /\ GoUp(get_run_time(target - get_curr_pos), "target")
        \/ /\ target < get_curr_pos
           /\ GoDown(get_run_time(get_curr_pos - target), "target")
        \/ /\ target = get_curr_pos
           /\ GoStop

-----------------------------------------------------------------------------
(* Steps of the thread. *)

TakeRequest ==   \* k_sem_take(&sem, K_FOREVER)
  /\ pc = "idle" /\ sem = 1
  /\ sem' = 0
  /\ pc' = "loop"
  /\ UNCHANGED <<timer, dirRelay, motion, belief, call>>

Serve ==
  /\ pc = "loop"
  /\ \/ target = STOP_VAL /\ GoStop
     \/ target = MIN_VAL /\ GoDown(get_full_run_time, "min")
     \/ target = MaxVal /\ GoUp(get_full_run_time, "max")
     \/ target \notin {STOP_VAL, MIN_VAL, MaxVal} /\ GoTarget

Awake(p) == pc = p /\ timer = 0

StopOff ==
  /\ Awake("stop_off")
  /\ set_dir("DOWN")
  /\ Sleep("stop_dir")
  /\ UNCHANGED <<sem, motion, belief, call>>

StopDir ==
  /\ Awake("stop_dir")
  /\ SkipMovement

MutKeepDirection ==   \* mutant of DownOff: the direction relay is not reset
  /\ Awake("down_off")
  /\ Sleep("down_dir")
  /\ UNCHANGED <<sem, dirRelay, motion, belief, call>>

DownOff ==
  /\ Awake("down_off")
  /\ set_dir("DOWN")
  /\ Sleep("down_dir")
  /\ UNCHANGED <<sem, motion, belief, call>>

DownDir ==
  /\ Awake("down_dir")
  /\ StartDown(left)
  /\ UNCHANGED goal

DownStarted ==
  /\ Awake("down_start")
  /\ TakeSem("down_run", left)
  /\ UNCHANGED <<dirRelay, motion, belief, call>>

UpOff ==
  /\ Awake("up_off")
  /\ PrepareUp(left)
  /\ UNCHANGED <<sem, motion, belief, goal>>

UpDir ==
  /\ Awake("up_dir")
  /\ IF MayStart(left)
     THEN /\ start_movement("UP")
          /\ Sleep("up_start")
          /\ left' = left - RELAY_DELAY
          /\ UNCHANGED dirRelay
     ELSE /\ set_dir("DOWN")
          /\ Sleep("up_skip")
          /\ left' = 1
          /\ UNCHANGED motion
  /\ UNCHANGED <<sem, belief, goal>>

UpStarted ==
  /\ \/ Awake("up_start")
     \/ Awake("up_skip")
  /\ TakeSem("up_run", left)
  /\ UNCHANGED <<dirRelay, motion, belief, call>>

Interrupted ==   \* the timed k_sem_take() returns 0
  /\ pc \in Runs /\ sem = 1
  /\ sem' = 0
  /\ pc' = "loop" /\ timer' = 0
  /\ UNCHANGED <<dirRelay, motion, belief, call>>

DownTimeout ==
  /\ Awake("down_run") /\ sem = 0
  /\ MotorOff
  /\ IF goal = "min" THEN save_known_loc(MIN_VAL) ELSE update_curr_pos
  /\ pc' = "idle"
  /\ UNCHANGED <<sem, timer, dirRelay, call>>

MutNoPause ==   \* mutant of UpTimeout: both relays released at once
  /\ Awake("up_run") /\ sem = 0
  /\ stop_movement
  /\ set_dir("DOWN")
  /\ Sleep("up_end")
  /\ UNCHANGED <<sem, call>>

UpTimeout ==
  /\ Awake("up_run") /\ sem = 0
  /\ stop_movement
  /\ Sleep("up_end")
  /\ UNCHANGED <<sem, dirRelay, call>>

MutSemReset ==   \* mutant of UpEnd: a request given during the sleep is reset
  /\ Awake("up_end")
  /\ set_dir("DOWN")
  /\ IF goal = "max" THEN save_known_loc(MaxVal) ELSE UNCHANGED belief
  /\ pc' = "idle" /\ sem' = 0
  /\ UNCHANGED <<timer, motion, call>>

UpEnd ==
  /\ Awake("up_end")
  /\ set_dir("DOWN")
  /\ IF goal = "max" THEN save_known_loc(MaxVal) ELSE UNCHANGED belief
  /\ pc' = "idle"
  /\ UNCHANGED <<sem, timer, motion, call>>

ThreadStep ==
  /\ \/ TakeRequest \/ Serve
     \/ StopOff \/ StopDir
     \/ DownOff \/ DownDir \/ DownStarted \/ DownTimeout
     \/ UpOff \/ UpDir \/ UpStarted \/ UpTimeout \/ UpEnd
     \/ Interrupted
  /\ UNCHANGED <<orders, run_time, phys>>

-----------------------------------------------------------------------------
(* Callers, and time. *)

ThreadReady ==
  \/ pc = "loop"
  \/ pc = "idle" /\ sem = 1
  \/ pc \in Sleeps /\ timer = 0
  \/ pc \in Runs /\ (sem = 1 \/ timer = 0)

go_to(t) ==   \* min(), max() and stop() are go_to() of a constant
  /\ ~ThreadReady /\ ~giving
  /\ target' = t
  /\ giving' = TRUE
  /\ UNCHANGED <<sem, run_time, dirRelay, motion, belief, waiting, call, phys>>

GiveSem ==
  /\ ~ThreadReady /\ giving
  /\ giving' = FALSE
  /\ sem' = 1
  /\ UNCHANGED <<target, run_time, dirRelay, motion, belief, waiting, call, phys>>

set_run_time(r) ==
  /\ ~ThreadReady
  /\ run_time' = r
  /\ UNCHANGED <<orders, sem, dirRelay, motion, belief, waiting, call, phys>>

Motor ==   \* a tick of movement, until the end of the swing
  CASE ~sw                     -> phys
    [] sw /\ dirRelay = "UP"   -> Lower(phys + MaxVal, MaxVal * FullSwing)
    [] sw /\ dirRelay = "DOWN" -> Higher(phys - MaxVal, 0)

Tick ==
  /\ ~ThreadReady
  /\ timer' = IF timer > 0 THEN timer - 1 ELSE 0
  /\ elapsed' = IF dir = "STOP" THEN 0 ELSE Lower(elapsed + 1, MaxElapsed)
  /\ phys' = Motor
  /\ UNCHANGED <<orders, sem, dir, sw, run_time, dirRelay, belief, pc, call>>

Request == \E t \in Targets : go_to(t)

Next ==
  \/ ThreadStep
  \/ Request
  \/ GiveSem
  \/ \E r \in RunTimes : set_run_time(r)
  \/ Tick

Spec == Init /\ [][Next]_vars

(* The scheduler runs a ready thread, a caller that has stored its target  *)
(* gets to k_sem_give(), and time passes.                                  *)
Fairness == WF_vars(ThreadStep) /\ WF_vars(GiveSem) /\ WF_vars(Tick)

FairSpec == Spec /\ Fairness
-----------------------------------------------------------------------------
(* Properties. *)

TypeOK ==
  /\ target \in Targets \cup {0}
  /\ sem \in {0, 1}
  /\ dir \in {"STOP", "DOWN", "UP"}
  /\ run_time \in RunTimes
  /\ known_loc \in -1..MaxVal
  /\ loc_uncert \in 0..IntMax
  /\ elapsed \in 0..MaxElapsed
  /\ sw \in BOOLEAN
  /\ dirRelay \in {"DOWN", "UP"}
  /\ pc \in PCs
  /\ timer \in Nat
  /\ left \in Int
  /\ goal \in {"min", "max", "target"}
  /\ giving \in BOOLEAN
  /\ phys \in 0..(MaxVal * FullSwing)

(* The power relay is closed exactly while the software believes the shade *)
(* is moving, and the direction relay then is as believed: the dead        *)
(* reckoning of get_curr_pos() counts in the direction the motor turns.    *)
MovesAsBelieved ==
  /\ sw <=> dir # "STOP"
  /\ sw => dirRelay = dir

(* While the thread waits for a request, or is in go_down() with the motor *)
(* stopped, the direction relay is "already in the default position        *)
(* (down)", as the comment in go_down() relies on: it starts the motor     *)
(* without setting the direction.                                          *)
DefaultDirection ==
  dir = "STOP" /\ pc \in {"idle", "loop", "down_dir", "down_run"}
     => dirRelay = "DOWN"

(* The direction relay is never switched under power: mot_cnt.c implements *)
(* the interlock of MotorRelays.                                           *)
Relays == INSTANCE MotorRelays
RelayInterlock == Relays!Spec

(* A thread that waits for the next request has switched the motor off, by *)
(* the timeout of the movement or by its request ("Timeout" in go_down()   *)
(* and go_up(): a movement is over when its run time is).  Not an          *)
(* invariant: go_target() at an unknown position forgets the timeout.      *)
MovementEnds == pc = "idle" => ~sw

(* The same of a shade whose position is known, if no movement takes       *)
(* exactly RELAY_DELAY: its timeout would be K_NO_WAIT, which is another   *)
(* kind of call.                                                           *)
KnownMovementEnds == known_loc >= 0 => MovementEnds

Distance(a, b) == Higher(a - b, b - a)

(* The dead reckoning is right: the position reported differs from the     *)
(* real one by less than one unit more than loc_uncert, the number of      *)
(* movements since the last end position, and by nothing that loc_uncert   *)
(* does not count when the shade stands still.                             *)
DriftBound ==
  known_loc >= 0 /\ loc_uncert < IntMax =>
    /\ Distance(get_curr_pos * FullSwing, phys) < (loc_uncert + 1) * FullSwing
    /\ dir = "STOP" =>
         Distance(known_loc * FullSwing, phys) <= loc_uncert * FullSwing

(* When go_down() and go_up() skip a movement because of the "extreme      *)
(* position", the shade is at that extreme position.  Not an invariant: a  *)
(* movement without a run time leaves the extreme position as it was.      *)
ExtremeIsReal ==
  /\ AtExtreme(MIN_VAL) => phys = 0
  /\ AtExtreme(MaxVal)  => phys = MaxVal * FullSwing

(* The shade stands where the last request wants it: at the end, for the   *)
(* ends, and for a position at most the shortest movement away, two units  *)
(* of rounding included.                                                   *)
Reached ==
  /\ pc = "idle" /\ KnownMovementEnds
  /\ target = STOP_VAL => ~sw
  /\ target = MIN_VAL => phys = 0
  /\ target = MaxVal  => phys = MaxVal * FullSwing
  /\ target \in 0..MaxVal /\ known_loc >= 0 =>
       Distance(known_loc, target) * FullSwing
          < RELAY_DELAY * MaxVal + 2 * FullSwing

(* Once the requests stop coming, the thread serves the last one and stops *)
(* there, whatever it was doing: no request is lost between the sleeps.  A *)
(* target position asks for a known position.                              *)
ReachesTarget ==
  (<>[][~Request]_vars /\ <>giving) => <>[]Reached
=============================================================================
