---------------------------- MODULE MotCnt_proofs ----------------------------
(***************************************************************************)
(* Proofs about the shade controller.  First the motor, for every value of *)
(* the constants that SizeAssumption allows: type correctness, the         *)
(* interlock of the relays together with the invariants it rests on, the   *)
(* end of every movement from a known position, and the dead reckoning.    *)
(* Then the position service that gives the motor its targets, for any     *)
(* positions, validity times and intervals: type correctness, the target   *)
(* that its inputs add up to, and the end of the projector state.          *)
(***************************************************************************)
EXTENDS MotCnt, PosSrv, TLAPS

-----------------------------------------------------------------------------
(* The relays.  What the interlock needs is, for every blocking call, the  *)
(* direction the software believes in and the state of the direction       *)
(* relay; no number matters.                                               *)

RelayTypes ==
  /\ dir \in {"STOP", "DOWN", "UP"}
  /\ sw \in BOOLEAN
  /\ dirRelay \in {"DOWN", "UP"}
  /\ pc \in PCs

(* Where the motor is off although the thread is in the middle of go_up(), *)
(* go_down() or go_stop(), and where it is on.                             *)
Stopped == {"stop_off", "stop_dir", "down_off", "down_dir",
            "up_off", "up_dir", "up_skip", "up_end"}

DirectionAt ==
  /\ pc \in Stopped => dir = "STOP"
  /\ pc = "down_start" => dir = "DOWN"
  /\ pc = "up_start"   => dir = "UP"
  /\ pc = "down_run"   => dir \in {"DOWN", "STOP"}
  /\ pc = "up_run"     => dir \in {"UP", "STOP"}

RelayAt ==
  /\ pc = "up_dir" => dirRelay = "UP"
  /\ pc \in {"stop_dir", "up_skip"} => dirRelay = "DOWN"
  /\ pc = "up_run" /\ dir = "STOP" => dirRelay = "DOWN"

(* The inductive invariant of the relays. *)
RelayInv ==
  RelayTypes /\ MovesAsBelieved /\ DefaultDirection /\ DirectionAt /\ RelayAt

LEMMA RelayInvInit == Init => RelayInv
  BY DEF Init, RelayInv, RelayTypes, MovesAsBelieved, DefaultDirection,
         DirectionAt, RelayAt, PCs, Stopped, Sleeps, Runs

(* One lemma per function that a request calls. *)

LEMMA SkipRelayInv ==
  ASSUME RelayInv, pc = "loop", SkipMovement
  PROVE  RelayInv'
  BY DEF SkipMovement, motion, RelayInv, RelayTypes, MovesAsBelieved,
         DefaultDirection, DirectionAt, RelayAt, PCs, Stopped, Sleeps, Runs

LEMMA StopRelayInv ==
  ASSUME RelayInv, pc = "loop", NEW p \in {"stop_off", "down_off", "up_off"},
         stop_movement, Sleep(p), UNCHANGED dirRelay
  PROVE  RelayInv'
  BY DEF stop_movement, MotorOff, Sleep, RelayInv, RelayTypes, MovesAsBelieved,
         DefaultDirection, DirectionAt, RelayAt, PCs, Stopped, Sleeps, Runs

LEMMA GoStopRelayInv ==
  ASSUME RelayInv, pc = "loop", GoStop
  PROVE  RelayInv'
  BY SkipRelayInv, StopRelayInv DEF GoStop

LEMMA StartDownRelayInv ==
  ASSUME RelayInv, pc \in {"loop", "down_dir"}, dir = "STOP",
         NEW t, StartDown(t)
  PROVE  RelayInv'
<1> USE DEF motion, RelayInv, RelayTypes, MovesAsBelieved, DefaultDirection,
            DirectionAt, RelayAt, PCs, Stopped, Sleeps, Runs
<1>1. CASE MayStart(t)
  BY <1>1 DEF StartDown, start_movement, Sleep
<1>2. CASE ~MayStart(t)
  <2>1. /\ UNCHANGED motion /\ UNCHANGED dirRelay
        /\ pc' \in {"down_run", "loop", "idle"}
    BY <1>2 DEF StartDown, TakeSem
  <2> QED
    BY <2>1
<1> QED
  BY <1>1, <1>2

LEMMA TakeSemRelayInv ==
  ASSUME RelayInv, NEW p, NEW t, TakeSem(p, t), UNCHANGED <<dirRelay, motion>>,
         \/ p = "down_run" /\ dir = "DOWN"
         \/ p = "up_run" /\ dir = "UP"
         \/ p = "up_run" /\ pc = "up_skip"
  PROVE  RelayInv'
<1>1. pc' \in {p, "loop", "idle"}
  BY DEF TakeSem
<1> QED
  BY <1>1 DEF motion, RelayInv, RelayTypes, MovesAsBelieved, DefaultDirection,
              DirectionAt, RelayAt, PCs, Stopped, Sleeps, Runs

LEMMA GoDownRelayInv ==
  ASSUME RelayInv, pc = "loop", NEW t, NEW g, GoDown(t, g)
  PROVE  RelayInv'
  BY SkipRelayInv, StopRelayInv, StartDownRelayInv, TakeSemRelayInv DEF GoDown

LEMMA PrepareUpRelayInv ==
  ASSUME RelayInv, pc \in {"loop", "up_off"}, dir = "STOP", UNCHANGED motion,
         NEW t, PrepareUp(t)
  PROVE  RelayInv'
  BY DEF PrepareUp, set_dir, Sleep, motion, RelayInv, RelayTypes,
         MovesAsBelieved, DefaultDirection, DirectionAt, RelayAt, PCs, Stopped,
         Sleeps, Runs

LEMMA GoUpRelayInv ==
  ASSUME RelayInv, pc = "loop", NEW t, NEW g, GoUp(t, g)
  PROVE  RelayInv'
  BY SkipRelayInv, StopRelayInv, PrepareUpRelayInv, TakeSemRelayInv DEF GoUp

LEMMA ServeRelayInv == RelayInv /\ Serve => RelayInv'
<1> SUFFICES ASSUME RelayInv, Serve PROVE RelayInv'
  OBVIOUS
<1>1. pc = "loop"
  BY DEF Serve
<1>2. CASE GoTarget
  BY <1>1, <1>2, SkipRelayInv, GoUpRelayInv, GoDownRelayInv, GoStopRelayInv
     DEF GoTarget
<1> QED
  BY <1>1, <1>2, GoStopRelayInv, GoDownRelayInv, GoUpRelayInv DEF Serve

LEMMA RelayInvNext == RelayInv /\ [Next]_vars => RelayInv'
<1> SUFFICES ASSUME RelayInv, [Next]_vars PROVE RelayInv'
  OBVIOUS
<1> USE DEF RelayInv, RelayTypes, MovesAsBelieved, DefaultDirection,
            DirectionAt, RelayAt, PCs, Stopped, Sleeps, Runs
<1> USE DEF motion, call, belief, orders, waiting
<1>1. CASE ThreadStep
  <2>1. CASE TakeRequest
    BY <2>1 DEF TakeRequest
  <2>2. CASE Serve
    BY <2>2, ServeRelayInv
  <2>3. CASE StopOff
    BY <2>3 DEF StopOff, Awake, set_dir, Sleep
  <2>4. CASE StopDir
    BY <2>4 DEF StopDir, Awake, SkipMovement
  <2>5. CASE DownOff
    BY <2>5 DEF DownOff, Awake, set_dir, Sleep
  <2>6. CASE DownDir
    BY <2>6, StartDownRelayInv DEF DownDir, Awake
  <2>7. CASE DownStarted
    BY <2>7, TakeSemRelayInv DEF DownStarted, Awake
  <2>8. CASE DownTimeout
    BY <2>8 DEF DownTimeout, Awake, MotorOff
  <2>9. CASE UpOff
    BY <2>9 DEF UpOff, Awake, PrepareUp, set_dir, Sleep
  <2>10. CASE UpDir
    BY <2>10 DEF UpDir, Awake, set_dir, start_movement, Sleep
  <2>11. CASE UpStarted
    BY <2>11, TakeSemRelayInv DEF UpStarted, Awake
  <2>12. CASE UpTimeout
    BY <2>12 DEF UpTimeout, Awake, MotorOff, stop_movement, Sleep
  <2>13. CASE UpEnd
    BY <2>13 DEF UpEnd, Awake, set_dir
  <2>14. CASE Interrupted
    BY <2>14 DEF Interrupted
  <2> QED
    BY <1>1, <2>1, <2>2, <2>3, <2>4, <2>5, <2>6, <2>7, <2>8, <2>9, <2>10,
       <2>11, <2>12, <2>13, <2>14 DEF ThreadStep
<1>2. CASE Request
  BY <1>2 DEF Request, go_to
<1>3. CASE GiveSem
  BY <1>3 DEF GiveSem
<1>4. CASE \E r \in RunTimes : set_run_time(r)
  BY <1>4 DEF set_run_time
<1>5. CASE Tick
  BY <1>5 DEF Tick
<1>6. CASE UNCHANGED vars
  BY <1>6 DEF vars
<1> QED
  BY <1>1, <1>2, <1>3, <1>4, <1>5, <1>6 DEF Next

(* In every reachable state the relays obey the invariant. *)
LEMMA RelayInvariant == Spec => []RelayInv
<1>1. Init => RelayInv
  BY RelayInvInit
<1>2. RelayInv /\ [Next]_vars => RelayInv'
  BY RelayInvNext
<1> QED
  BY <1>1, <1>2, PTL DEF Spec

(* The power relay is closed exactly while the software believes the shade *)
(* is moving, and the motor then turns the way it believes (start_movement *)
(* and stop_movement of mot_cnt.c).                                        *)
THEOREM MovesAsBelievedHolds == Spec => []MovesAsBelieved
<1>1. RelayInv => MovesAsBelieved
  BY DEF RelayInv
<1> QED
  BY <1>1, RelayInvariant, PTL

(* go_down() finds the direction relay in its default position, as its     *)
(* comment says, whenever it starts the motor without setting it.          *)
THEOREM DefaultDirectionHolds == Spec => []DefaultDirection
<1>1. RelayInv => DefaultDirection
  BY DEF RelayInv
<1> QED
  BY <1>1, RelayInvariant, PTL

(* The relays of mot_cnt.c implement the interlock: no step switches the   *)
(* direction while the power is on, before it or after it.                 *)
THEOREM InterlockHolds == Spec => RelayInterlock
<1>1. Init => Relays!Init
  BY DEF Init, Relays!Init
<1>2. RelayInv /\ [Next]_vars => [Relays!Next]_(Relays!relays)
  <2> SUFFICES ASSUME RelayInv, Next
               PROVE  Relays!Next \/ UNCHANGED <<sw, dirRelay>>
    BY DEF vars, Relays!relays
  <2> USE DEF RelayInv, RelayTypes, MovesAsBelieved, DirectionAt, Stopped,
              motion, Relays!Next, Relays!PowerOn, Relays!PowerOff,
              Relays!Reverse
  <2>1. ASSUME stop_movement, UNCHANGED dirRelay
        PROVE  Relays!Next \/ UNCHANGED <<sw, dirRelay>>
    BY <2>1 DEF stop_movement, MotorOff
  <2>2. ASSUME NEW t, dir = "STOP", StartDown(t)
        PROVE  Relays!Next \/ UNCHANGED <<sw, dirRelay>>
    BY <2>2 DEF StartDown, start_movement
  <2>3. ASSUME NEW t, dir = "STOP", UNCHANGED motion, PrepareUp(t)
        PROVE  Relays!Next \/ UNCHANGED <<sw, dirRelay>>
    BY <2>3 DEF PrepareUp, set_dir
  <2>4. CASE Serve
    <3>1. ASSUME NEW t, NEW g, GoDown(t, g)
          PROVE  Relays!Next \/ UNCHANGED <<sw, dirRelay>>
      BY <3>1, <2>1, <2>2 DEF GoDown, SkipMovement
    <3>2. ASSUME NEW t, NEW g, GoUp(t, g)
          PROVE  Relays!Next \/ UNCHANGED <<sw, dirRelay>>
      BY <3>2, <2>1, <2>3 DEF GoUp, SkipMovement
    <3>3. CASE GoStop
      BY <3>3, <2>1 DEF GoStop, SkipMovement
    <3>4. CASE SkipMovement
      BY <3>4 DEF SkipMovement
    <3> QED
      BY <2>4, <3>1, <3>2, <3>3, <3>4 DEF Serve, GoTarget
  <2>5. CASE StopOff \/ StopDir \/ DownOff \/ UpEnd
    BY <2>5 DEF StopOff, StopDir, DownOff, UpEnd, Awake, set_dir, SkipMovement
  <2>6. CASE DownDir
    BY <2>6, <2>2 DEF DownDir, Awake
  <2>7. CASE UpOff
    BY <2>7, <2>3 DEF UpOff, Awake
  <2>8. CASE UpDir
    BY <2>8 DEF UpDir, Awake, set_dir, start_movement
  <2>9. CASE DownTimeout
    BY <2>9 DEF DownTimeout, MotorOff
  <2>10. CASE UpTimeout
    BY <2>10, <2>1 DEF UpTimeout
  <2>11. CASE TakeRequest \/ DownStarted \/ UpStarted \/ Interrupted
    BY <2>11 DEF TakeRequest, DownStarted, UpStarted, Interrupted
  <2>12. CASE ThreadStep
    BY <2>4, <2>5, <2>6, <2>7, <2>8, <2>9, <2>10, <2>11, <2>12 DEF ThreadStep
  <2>13. CASE Request \/ GiveSem \/ Tick \/ \E r \in RunTimes : set_run_time(r)
    BY <2>13 DEF Request, go_to, GiveSem, Tick, set_run_time
  <2> QED
    BY <2>12, <2>13 DEF Next
<1> QED
  BY <1>1, <1>2, RelayInvariant, PTL DEF Spec, RelayInterlock, Relays!Spec

-----------------------------------------------------------------------------
(* Type correctness.  The positions stay within -1..MAX_VAL because        *)
(* get_curr_pos() clamps what movement_delta() makes of the elapsed time.  *)

LEMMA QuotientNat ==
  ASSUME NEW a \in Nat, NEW b \in Nat \ {0}
  PROVE  a \div b \in Nat
  OBVIOUS

LEMMA QuotientInt ==
  ASSUME NEW a \in Int, NEW b \in Nat \ {0}
  PROVE  a \div b \in Int
  OBVIOUS

LEMMA ProductNat ==
  ASSUME NEW a \in Nat, NEW b \in Nat
  PROVE  a * b \in Nat
  OBVIOUS

LEMMA ProductInt ==
  ASSUME NEW a \in Int, NEW b \in Nat
  PROVE  a * b \in Int
  OBVIOUS

LEMMA ProductMonotone ==
  ASSUME NEW a \in Nat, NEW b \in Nat, NEW k \in 0..b
  PROVE  a * k \in 0..(a * b)
<1>1. a * (b - k) \in Nat
  BY ProductNat
<1>2. a * b = a * k + a * (b - k)
  OBVIOUS
<1> QED
  BY <1>1, <1>2, ProductNat

LEMMA SwingTimeIs == TypeOK => FullSwingRunTime \in Nat \ {0}
  BY SizeAssumption DEF TypeOK, FullSwingRunTime

LEMMA DeltaType == TypeOK => movement_delta(elapsed) \in Nat
<1> SUFFICES ASSUME TypeOK PROVE movement_delta(elapsed) \in Nat
  OBVIOUS
<1>1. elapsed * MaxVal \in Nat
  BY SizeAssumption, ProductNat DEF TypeOK
<1> QED
  BY <1>1, SwingTimeIs, QuotientNat DEF movement_delta

(* What get_curr_pos() returns is an error or a position in the range. *)
LEMMA PositionType ==
  ASSUME TypeOK PROVE get_curr_pos \in {-EINVAL} \cup 0..MaxVal
<1>1. movement_delta(elapsed) \in Nat
  BY DeltaType
<1>2. CASE known_loc < 0 \/ run_time = 0
  BY <1>2 DEF get_curr_pos
<1>3. CASE ~(known_loc < 0 \/ run_time = 0)
  <2>1. known_loc \in 0..MaxVal
    BY <1>3 DEF TypeOK
  <2>2. CASE dir = "UP"
    BY <1>1, <1>3, <2>1, <2>2, SizeAssumption DEF get_curr_pos, Lower
  <2>3. CASE dir = "DOWN"
    BY <1>1, <1>3, <2>1, <2>3, SizeAssumption
       DEF get_curr_pos, Higher, MIN_VAL
  <2>4. CASE dir = "STOP"
    BY <1>3, <2>1, <2>4 DEF get_curr_pos
  <2> QED
    BY <2>2, <2>3, <2>4 DEF TypeOK
<1> QED
  BY <1>2, <1>3

(* The run times handed to go_up() and go_down() are integers. *)
LEMMA RunTimeType ==
  ASSUME TypeOK, NEW delta \in Int
  PROVE  get_run_time(delta) \in Int /\ get_full_run_time \in Nat
<1>1. delta * FullSwingRunTime \in Int
  BY SwingTimeIs, ProductInt
<1>2. get_run_time(delta) \in Int
  BY <1>1, QuotientInt, SizeAssumption DEF get_run_time
<1>3. run_time \in Nat
  BY SizeAssumption DEF TypeOK
<1>4. get_full_run_time \in Nat
  BY <1>3, QuotientNat, SizeAssumption DEF get_full_run_time
<1> QED
  BY <1>2, <1>4

BeliefType == known_loc \in -1..MaxVal /\ loc_uncert \in 0..IntMax
MotionType == dir \in {"STOP", "DOWN", "UP"} /\ sw \in BOOLEAN
                /\ elapsed \in 0..MaxElapsed
CallType   == left \in Int /\ goal \in {"min", "max", "target"}
WaitType   == pc \in PCs /\ timer \in Nat /\ sem \in {0, 1}

(* The types of what a step of the thread changes. *)
ThreadType == BeliefType /\ MotionType /\ CallType /\ WaitType
                /\ dirRelay \in {"DOWN", "UP"}

LEMMA BeliefUpdated ==
  ASSUME TypeOK, update_curr_pos PROVE BeliefType'
<1>1. get_curr_pos \in {-EINVAL} \cup 0..MaxVal
  BY PositionType
<1>2. CASE get_curr_pos < 0
  BY <1>2 DEF update_curr_pos, belief, BeliefType, TypeOK
<1>3. CASE ~(get_curr_pos < 0)
  <2>1. get_curr_pos \in 0..MaxVal
    BY <1>1, <1>3 DEF EINVAL
  <2>2. /\ known_loc' = get_curr_pos
        /\ loc_uncert' = IF get_curr_pos # known_loc /\ loc_uncert < IntMax
                         THEN loc_uncert + 1 ELSE loc_uncert
    BY <1>3 DEF update_curr_pos
  <2> QED
    BY <2>1, <2>2, SizeAssumption DEF BeliefType, TypeOK
<1> QED
  BY <1>2, <1>3

LEMMA ZeroElapsed == 0 \in 0..MaxElapsed
  BY SizeAssumption

LEMMA StopType ==
  ASSUME TypeOK, stop_movement PROVE BeliefType' /\ MotionType'
  BY BeliefUpdated, ZeroElapsed DEF stop_movement, MotorOff, MotionType, TypeOK

LEMMA SkipType ==
  ASSUME TypeOK, SkipMovement PROVE ThreadType'
  BY DEF SkipMovement, motion, belief, call, ThreadType, BeliefType,
         MotionType, CallType, WaitType, TypeOK, PCs

LEMMA SleepType ==
  ASSUME TypeOK, NEW p \in PCs, Sleep(p), UNCHANGED sem PROVE WaitType'
  BY SizeAssumption DEF Sleep, WaitType, TypeOK

LEMMA TakeSemType ==
  ASSUME TypeOK, NEW p \in PCs, NEW t \in Int, TakeSem(p, t) PROVE WaitType'
<1>1. CASE t > 0
  BY <1>1 DEF TakeSem, WaitType, TypeOK
<1>2. CASE ~(t > 0)
  BY <1>2 DEF TakeSem, WaitType, TypeOK, PCs
<1> QED
  BY <1>1, <1>2

LEMMA StartDownType ==
  ASSUME TypeOK, NEW t \in Int, StartDown(t),
         goal' \in {"min", "max", "target"}
  PROVE  ThreadType'
<1> USE DEF ThreadType, BeliefType, MotionType, CallType, motion, belief
<1>1. CASE MayStart(t)
  <2>1. WaitType'
    BY <1>1, SleepType DEF StartDown, PCs, Sleeps
  <2> QED
    BY <1>1, <2>1, SizeAssumption DEF StartDown, start_movement, TypeOK
<1>2. CASE ~MayStart(t)
  <2>1. WaitType'
    BY <1>2, TakeSemType DEF StartDown, PCs, Runs
  <2> QED
    BY <1>2, <2>1 DEF StartDown, TypeOK
<1> QED
  BY <1>1, <1>2

LEMMA GoDownType ==
  ASSUME TypeOK, NEW t \in Int, NEW g \in {"min", "max", "target"},
         GoDown(t, g)
  PROVE  ThreadType'
<1>1. CASE SkipMovement
  BY <1>1, SkipType
<1>2. CASE /\ stop_movement /\ Sleep("down_off")
           /\ left' = t /\ goal' = g /\ UNCHANGED <<sem, dirRelay>>
  <2>1. WaitType'
    BY <1>2, SleepType DEF PCs, Sleeps
  <2> QED
    BY <1>2, <2>1, StopType DEF ThreadType, CallType, TypeOK
<1>3. CASE StartDown(t) /\ goal' = g
  BY <1>3, StartDownType
<1>4. CASE /\ TakeSem("down_run", t) /\ left' = t /\ goal' = g
           /\ UNCHANGED <<dirRelay, motion, belief>>
  <2>1. WaitType'
    BY <1>4, TakeSemType DEF PCs, Runs
  <2> QED
    BY <1>4, <2>1 DEF ThreadType, BeliefType, MotionType, CallType, motion,
                      belief, TypeOK
<1> QED
  BY <1>1, <1>2, <1>3, <1>4 DEF GoDown

LEMMA PrepareUpType ==
  ASSUME TypeOK, NEW t \in Int, PrepareUp(t), goal' \in {"min", "max", "target"},
         UNCHANGED <<sem, motion, belief>>
  PROVE  ThreadType'
<1>1. WaitType'
  BY SleepType DEF PrepareUp, PCs, Sleeps
<1> QED
  BY <1>1 DEF PrepareUp, set_dir, ThreadType, BeliefType, MotionType, CallType,
              motion, belief, TypeOK

LEMMA GoUpType ==
  ASSUME TypeOK, NEW t \in Int, NEW g \in {"min", "max", "target"},
         GoUp(t, g)
  PROVE  ThreadType'
<1>1. CASE SkipMovement
  BY <1>1, SkipType
<1>2. CASE /\ stop_movement /\ Sleep("up_off")
           /\ left' = t /\ goal' = g /\ UNCHANGED <<sem, dirRelay>>
  <2>1. WaitType'
    BY <1>2, SleepType DEF PCs, Sleeps
  <2> QED
    BY <1>2, <2>1, StopType DEF ThreadType, CallType, TypeOK
<1>3. CASE PrepareUp(t) /\ goal' = g /\ UNCHANGED <<sem, motion, belief>>
  BY <1>3, PrepareUpType
<1>4. CASE /\ TakeSem("up_run", t) /\ left' = t /\ goal' = g
           /\ UNCHANGED <<dirRelay, motion, belief>>
  <2>1. WaitType'
    BY <1>4, TakeSemType DEF PCs, Runs
  <2> QED
    BY <1>4, <2>1 DEF ThreadType, BeliefType, MotionType, CallType, motion,
                      belief, TypeOK
<1> QED
  BY <1>1, <1>2, <1>3, <1>4 DEF GoUp

LEMMA GoStopType ==
  ASSUME TypeOK, GoStop PROVE ThreadType'
<1>1. CASE SkipMovement
  BY <1>1, SkipType
<1>2. CASE stop_movement /\ Sleep("stop_off") /\ UNCHANGED <<sem, dirRelay, call>>
  <2>1. WaitType'
    BY <1>2, SleepType DEF PCs, Sleeps
  <2> QED
    BY <1>2, <2>1, StopType DEF ThreadType, CallType, call, TypeOK
<1> QED
  BY <1>1, <1>2 DEF GoStop

LEMMA ServeType ==
  ASSUME TypeOK, Serve PROVE ThreadType'
<1>1. get_curr_pos \in Int /\ target \in Int
  BY PositionType, SizeAssumption DEF EINVAL, TypeOK
<1>2. get_full_run_time \in Int
  BY RunTimeType
<1>3. CASE GoTarget
  <2>1. CASE target > get_curr_pos /\
             GoUp(get_run_time(target - get_curr_pos), "target")
    BY <1>1, <2>1, RunTimeType, GoUpType
  <2>2. CASE target < get_curr_pos /\
             GoDown(get_run_time(get_curr_pos - target), "target")
    BY <1>1, <2>2, RunTimeType, GoDownType
  <2> QED
    BY <1>3, <2>1, <2>2, SkipType, GoStopType DEF GoTarget
<1> QED
  BY <1>2, <1>3, GoStopType, GoDownType, GoUpType DEF Serve

LEMMA ThreadStepType ==
  ASSUME TypeOK, ThreadStep PROVE ThreadType'
<1> USE DEF ThreadType, BeliefType, MotionType, CallType, motion, belief, call,
            PCs, Sleeps, Runs
<1>1. CASE TakeRequest
  BY <1>1 DEF TakeRequest, WaitType, TypeOK
<1>2. CASE Serve
  BY <1>2, ServeType
<1>3. CASE StopOff
  BY <1>3, SleepType DEF StopOff, set_dir, TypeOK
<1>4. CASE StopDir
  BY <1>4, SkipType DEF StopDir
<1>5. CASE DownOff
  BY <1>5, SleepType DEF DownOff, set_dir, TypeOK
<1>6. CASE DownDir
  BY <1>6, StartDownType DEF DownDir, TypeOK
<1>7. CASE DownStarted
  <2>1. WaitType'
    BY <1>7, TakeSemType DEF DownStarted, TypeOK
  <2> QED
    BY <1>7, <2>1 DEF DownStarted, TypeOK
<1>8. CASE DownTimeout
  <2>1. BeliefType'
    BY <1>8, BeliefUpdated, SizeAssumption
       DEF DownTimeout, save_known_loc, MIN_VAL
  <2> QED
    BY <1>8, <2>1, ZeroElapsed DEF DownTimeout, MotorOff, WaitType, TypeOK
<1>9. CASE UpOff
  BY <1>9, PrepareUpType DEF UpOff, TypeOK
<1>10. CASE UpDir
  <2>1. WaitType'
    BY <1>10, SleepType DEF UpDir
  <2>2. left' \in Int
    BY <1>10, SizeAssumption DEF UpDir, TypeOK
  <2> QED
    BY <1>10, <2>1, <2>2, ZeroElapsed
       DEF UpDir, start_movement, set_dir, TypeOK
<1>11. CASE UpStarted
  <2>1. WaitType'
    BY <1>11, TakeSemType DEF UpStarted, TypeOK
  <2> QED
    BY <1>11, <2>1 DEF UpStarted, TypeOK
<1>12. CASE UpTimeout
  <2>1. WaitType'
    BY <1>12, SleepType DEF UpTimeout
  <2> QED
    BY <1>12, <2>1, StopType DEF UpTimeout, TypeOK
<1>13. CASE UpEnd
  BY <1>13, SizeAssumption DEF UpEnd, set_dir, save_known_loc, WaitType, TypeOK
<1>14. CASE Interrupted
  BY <1>14 DEF Interrupted, WaitType, TypeOK
<1> QED
  BY <1>1, <1>2, <1>3, <1>4, <1>5, <1>6, <1>7, <1>8, <1>9, <1>10, <1>11,
     <1>12, <1>13, <1>14 DEF ThreadStep

LEMMA TickType ==
  ASSUME TypeOK, Tick PROVE TypeOK'
<1>1. timer' \in Nat
  BY DEF Tick, TypeOK
<1>2. elapsed' \in 0..MaxElapsed
  BY SizeAssumption DEF Tick, Lower, TypeOK
<1>3. phys' \in 0..(MaxVal * FullSwing)
  <2>1. MaxVal * FullSwing \in Nat
    BY SizeAssumption, ProductNat
  <2> QED
    BY <2>1, SizeAssumption DEF Tick, Motor, Lower, Higher, TypeOK
<1> QED
  BY <1>1, <1>2, <1>3 DEF Tick, orders, belief, call, TypeOK

(* Every variable keeps its type: in particular known_loc stays a position *)
(* of the shade or -1, and the movement time never passes its bound.       *)
THEOREM TypeCorrect == Spec => []TypeOK
<1>1. Init => TypeOK
  <2>1. ASSUME NEW k \in 0..FullSwing PROVE MaxVal * k \in 0..(MaxVal * FullSwing)
    BY ProductMonotone, SizeAssumption
  <2>2. ASSUME Init PROVE phys \in 0..(MaxVal * FullSwing)
    BY <2>1, <2>2 DEF Init
  <2>3. -1 \in -1..MaxVal /\ 0 \in 0..IntMax
    BY SizeAssumption
  <2>4. ASSUME Init PROVE known_loc \in -1..MaxVal /\ loc_uncert \in 0..IntMax
                          /\ elapsed \in 0..MaxElapsed
    BY <2>3, <2>4, ZeroElapsed DEF Init
  <2>5. ASSUME Init PROVE /\ target \in Targets \cup {0} /\ sem \in {0, 1}
                          /\ timer \in Nat /\ left \in Int
    BY <2>5 DEF Init
  <2> QED
    BY <2>2, <2>4, <2>5 DEF Init, TypeOK, PCs
<1>2. TypeOK /\ [Next]_vars => TypeOK'
  <2> SUFFICES ASSUME TypeOK, [Next]_vars PROVE TypeOK'
    OBVIOUS
  <2>1. CASE ThreadStep
    BY <2>1, ThreadStepType DEF ThreadStep, ThreadType, BeliefType, MotionType,
       CallType, WaitType, orders, TypeOK
  <2>2. CASE Request
    BY <2>2 DEF Request, go_to, motion, belief, waiting, call, TypeOK
  <2>3. CASE GiveSem
    BY <2>3 DEF GiveSem, motion, belief, waiting, call, TypeOK
  <2>4. CASE \E r \in RunTimes : set_run_time(r)
    BY <2>4 DEF set_run_time, orders, motion, belief, waiting, call, TypeOK
  <2>5. CASE Tick
    BY <2>5, TickType
  <2>6. CASE UNCHANGED vars
    BY <2>6 DEF vars, TypeOK
  <2> QED
    BY <2>1, <2>2, <2>3, <2>4, <2>5, <2>6 DEF Next
<1> QED
  BY <1>1, <1>2, PTL DEF Spec
-----------------------------------------------------------------------------
(* The end of a movement.  k_sem_take() waits for the timeout of go_up()   *)
(* and go_down() unless there is nothing left of it after the sleep.       *)

ProperTime(t) == t > 0 /\ t # RELAY_DELAY

(* No movement takes exactly RELAY_DELAY, and every distance takes some    *)
(* time: what the theorem below asks of the configured run times.          *)
ProperTimes ==
  /\ ProperTime(get_full_run_time)
  /\ \A delta \in Nat \ {0} : ProperTime(get_run_time(delta))

(* What is left of the run time during the sleeps, and the end. *)
EndInv ==
  /\ pc \in {"down_off", "down_dir", "up_off", "up_dir"} => ProperTime(left)
  /\ pc \in {"down_start", "up_start", "up_skip"} => left > 0
  /\ KnownMovementEnds

LEMMA SkipEnds ==
  ASSUME EndInv, SkipMovement, known_loc >= 0 => ~sw
  PROVE  EndInv'
  BY DEF SkipMovement, motion, belief, EndInv, KnownMovementEnds, MovementEnds

LEMMA SleepEnds ==
  ASSUME NEW p \in {"stop_off", "down_off", "up_off", "up_dir"}, Sleep(p),
         p # "stop_off" => ProperTime(left')
  PROVE  EndInv'
  BY DEF Sleep, EndInv, KnownMovementEnds, MovementEnds, ProperTime

LEMMA TakeSemEnds ==
  ASSUME NEW p \in {"down_run", "up_run"}, NEW t, t > 0, TakeSem(p, t)
  PROVE  EndInv'
  BY DEF TakeSem, EndInv, KnownMovementEnds, MovementEnds

LEMMA StartDownEnds ==
  ASSUME NEW t \in Int, ProperTime(t), StartDown(t)
  PROVE  EndInv'
<1>1. CASE MayStart(t)
  <2>1. pc' = "down_start" /\ left' = t - RELAY_DELAY
    BY <1>1 DEF StartDown, Sleep
  <2>2. left' > 0
    BY <1>1, <2>1, SizeAssumption DEF MayStart, ProperTime
  <2> QED
    BY <2>1, <2>2 DEF EndInv, KnownMovementEnds, MovementEnds
<1>2. CASE ~MayStart(t)
  BY <1>2, TakeSemEnds DEF StartDown
<1> QED
  BY <1>1, <1>2

LEMMA GoDownEnds ==
  ASSUME EndInv, RelayInv, NEW t \in Int, NEW g, ProperTime(t), GoDown(t, g)
  PROVE  EndInv'
<1>1. CASE AtExtreme(MIN_VAL) /\ SkipMovement
  BY <1>1, SkipEnds DEF AtExtreme, RelayInv, MovesAsBelieved
<1>2. CASE stop_movement /\ Sleep("down_off") /\ left' = t
  BY <1>2, SleepEnds
<1>3. CASE StartDown(t)
  BY <1>3, StartDownEnds
<1>4. CASE TakeSem("down_run", t)
  BY <1>4, TakeSemEnds DEF ProperTime
<1> QED
  BY <1>1, <1>2, <1>3, <1>4 DEF GoDown

LEMMA GoUpEnds ==
  ASSUME EndInv, RelayInv, NEW t \in Int, NEW g, ProperTime(t), GoUp(t, g)
  PROVE  EndInv'
<1>1. CASE AtExtreme(MaxVal) /\ SkipMovement
  BY <1>1, SkipEnds DEF AtExtreme, RelayInv, MovesAsBelieved
<1>2. CASE stop_movement /\ Sleep("up_off") /\ left' = t
  BY <1>2, SleepEnds
<1>3. CASE PrepareUp(t)
  BY <1>3, SleepEnds DEF PrepareUp
<1>4. CASE TakeSem("up_run", t)
  BY <1>4, TakeSemEnds DEF ProperTime
<1> QED
  BY <1>1, <1>2, <1>3, <1>4 DEF GoUp

LEMMA GoStopEnds ==
  ASSUME EndInv, RelayInv, GoStop
  PROVE  EndInv'
  BY SkipEnds, SleepEnds DEF GoStop, RelayInv, MovesAsBelieved

LEMMA ServeEnds ==
  ASSUME EndInv, RelayInv, TypeOK, ProperTimes, Serve
  PROVE  EndInv'
<1>1. get_full_run_time \in Int /\ ProperTime(get_full_run_time)
  BY RunTimeType DEF ProperTimes
<1>2. CASE GoTarget
  <2>1. known_loc < 0 => ~(known_loc >= 0)
    BY DEF TypeOK
  <2>2. get_curr_pos \in Int /\ target \in Int
    BY PositionType, SizeAssumption DEF TypeOK, EINVAL
  <2>3. ASSUME target > get_curr_pos
        PROVE  /\ get_run_time(target - get_curr_pos) \in Int
               /\ ProperTime(get_run_time(target - get_curr_pos))
    <3>1. target - get_curr_pos \in Nat \ {0}
      BY <2>2, <2>3
    <3> QED
      BY <3>1, RunTimeType DEF ProperTimes
  <2>4. ASSUME target < get_curr_pos
        PROVE  /\ get_run_time(get_curr_pos - target) \in Int
               /\ ProperTime(get_run_time(get_curr_pos - target))
    <3>1. get_curr_pos - target \in Nat \ {0}
      BY <2>2, <2>4
    <3> QED
      BY <3>1, RunTimeType DEF ProperTimes
  <2> QED
    BY <1>2, <2>1, <2>3, <2>4, SkipEnds, GoUpEnds, GoDownEnds, GoStopEnds
       DEF GoTarget
<1> QED
  BY <1>1, <1>2, GoStopEnds, GoDownEnds, GoUpEnds DEF Serve

LEMMA EndInvNext ==
  EndInv /\ RelayInv /\ TypeOK /\ ProperTimes /\ [Next]_vars => EndInv'
<1> SUFFICES ASSUME EndInv, RelayInv, TypeOK, ProperTimes, [Next]_vars
             PROVE  EndInv'
  OBVIOUS
<1> USE DEF motion, call, belief, orders, waiting
<1>1. CASE ThreadStep
  <2> USE DEF EndInv, KnownMovementEnds, MovementEnds
  <2>1. CASE TakeRequest \/ Interrupted
    BY <2>1 DEF TakeRequest, Interrupted
  <2>2. CASE Serve
    BY <2>2, ServeEnds
  <2>3. CASE StopOff
    BY <2>3 DEF StopOff, Sleep
  <2>4. CASE StopDir
    BY <2>4, SkipEnds DEF StopDir, Awake, RelayInv, MovesAsBelieved,
                          DirectionAt, Stopped
  <2>5. CASE DownOff
    BY <2>5 DEF DownOff, Awake, Sleep
  <2>6. CASE DownDir
    BY <2>6, StartDownEnds DEF DownDir, Awake, TypeOK
  <2>7. CASE DownStarted
    BY <2>7, TakeSemEnds DEF DownStarted, Awake
  <2>8. CASE DownTimeout
    BY <2>8 DEF DownTimeout, MotorOff
  <2>9. CASE UpOff
    BY <2>9, SleepEnds DEF UpOff, Awake, PrepareUp
  <2>10. CASE UpDir
    <3>1. CASE MayStart(left)
      <4>1. pc' = "up_start" /\ left' = left - RELAY_DELAY
        BY <2>10, <3>1 DEF UpDir, Sleep
      <4>2. left' > 0
        BY <2>10, <3>1, <4>1, SizeAssumption
           DEF UpDir, Awake, MayStart, ProperTime, TypeOK
      <4> QED
        BY <4>1, <4>2
    <3>2. CASE ~MayStart(left)
      BY <2>10, <3>2 DEF UpDir, Sleep
    <3> QED
      BY <3>1, <3>2
  <2>11. CASE UpStarted
    BY <2>11, TakeSemEnds DEF UpStarted, Awake
  <2>12. CASE UpTimeout
    BY <2>12 DEF UpTimeout, Sleep
  <2>13. CASE UpEnd
    BY <2>13 DEF UpEnd, Awake, RelayInv, MovesAsBelieved, DirectionAt, Stopped
  <2> QED
    BY <1>1, <2>1, <2>2, <2>3, <2>4, <2>5, <2>6, <2>7, <2>8, <2>9, <2>10,
       <2>11, <2>12, <2>13 DEF ThreadStep
<1> USE DEF EndInv, KnownMovementEnds, MovementEnds, ProperTime
<1>2. CASE Request
  BY <1>2 DEF Request, go_to
<1>3. CASE GiveSem
  BY <1>3 DEF GiveSem
<1>4. CASE \E r \in RunTimes : set_run_time(r)
  BY <1>4 DEF set_run_time
<1>5. CASE Tick
  BY <1>5 DEF Tick
<1>6. CASE UNCHANGED vars
  BY <1>6 DEF vars
<1> QED
  BY <1>1, <1>2, <1>3, <1>4, <1>5, <1>6 DEF Next

(* A thread of mot_cnt.c that knows the position and waits for the next    *)
(* request has switched the motor off, if no movement takes exactly        *)
(* RELAY_DELAY: the timeout of go_up() and go_down() is never forgotten.   *)
THEOREM KnownMovementEndsHolds ==
  Spec /\ []ProperTimes => []KnownMovementEnds
<1>1. Init => EndInv
  BY DEF Init, EndInv, KnownMovementEnds, MovementEnds
<1>2. EndInv /\ RelayInv /\ TypeOK /\ ProperTimes /\ [Next]_vars => EndInv'
  BY EndInvNext
<1>3. EndInv => KnownMovementEnds
  BY DEF EndInv
<1> QED
  BY <1>1, <1>2, <1>3, RelayInvariant, TypeCorrect, PTL DEF Spec

-----------------------------------------------------------------------------
(* The dead reckoning.  What get_curr_pos() computes is right for a shade  *)
(* that is provisioned with its run time, and whose relays pause for at    *)
(* most a swing and at least the time of a unit: no movement is shorter,   *)
(* so that none goes uncounted.                                            *)

Calibrated ==
  /\ RunTimes = {FullSwing}
  /\ RELAY_DELAY <= FullSwing
  /\ FullSwing <= RELAY_DELAY * MaxVal

(* A movement has taken the time of a unit. *)
Slept == FullSwing <= elapsed * MaxVal

(* What the time between the blocking calls adds up to: the first sleep of *)
(* a movement is over, and a movement to an end takes a full swing, unless *)
(* a request has come meanwhile.                                           *)
StartInv ==
  /\ pc \in {"down_start", "up_start"} => elapsed + timer >= RELAY_DELAY
  /\ dir # "STOP" /\ pc \notin {"down_start", "up_start"} => Slept

MinInv ==
  goal = "min" =>
    /\ pc \in {"down_off", "down_dir"} => left >= FullSwing
    /\ pc = "down_start" =>
         left >= 0 /\ elapsed + timer + left >= FullSwing
    /\ pc = "down_run" /\ dir = "DOWN" => elapsed + timer >= FullSwing
    /\ pc = "down_run" /\ dir # "DOWN" => sem = 1

MaxInv ==
  goal = "max" =>
    /\ pc \in {"up_off", "up_dir"} => left >= FullSwing
    /\ pc = "up_start" =>
         left >= 0 /\ elapsed + timer + left >= FullSwing
    /\ pc = "up_skip" => sem = 1 /\ left > 0
    /\ pc = "up_run" /\ dir = "UP" => elapsed + timer >= FullSwing
    /\ pc = "up_run" /\ dir # "UP" => sem = 1

TimeInv == StartInv /\ MinInv /\ MaxInv

LEMMA CalibratedTimes ==
  ASSUME Calibrated, TypeOK
  PROVE  /\ run_time = FullSwing /\ FullSwingRunTime = FullSwing
         /\ get_full_run_time \in Nat /\ get_full_run_time >= FullSwing
         /\ MaxElapsed >= FullSwing /\ MaxElapsed >= RELAY_DELAY
<1>1. run_time = FullSwing
  BY DEF Calibrated, TypeOK
<1>2. get_full_run_time = (FullSwing * 3) \div 2
  BY <1>1, SizeAssumption DEF get_full_run_time
<1>3. MaxElapsed >= FullSwing
  BY SizeAssumption DEF Calibrated
<1> QED
  BY <1>1, <1>2, <1>3, SizeAssumption DEF Calibrated, FullSwingRunTime

LEMMA LongEnough ==
  ASSUME Calibrated, NEW e \in Nat, e >= RELAY_DELAY
  PROVE  FullSwing <= e * MaxVal
<1>1. MaxVal * RELAY_DELAY \in 0..(MaxVal * e)
  BY ProductMonotone, SizeAssumption
<1>2. MaxVal * RELAY_DELAY = RELAY_DELAY * MaxVal /\ MaxVal * e = e * MaxVal
  BY SizeAssumption
<1> QED
  BY <1>1, <1>2, SizeAssumption, ProductNat DEF Calibrated

LEMMA SkipTime ==
  ASSUME TimeInv, pc \notin {"down_start", "up_start"}, SkipMovement
  PROVE  TimeInv'
<1>1. Slept' <=> Slept
  BY DEF Slept, SkipMovement, motion
<1> QED
  BY <1>1 DEF SkipMovement, motion, call, TimeInv, StartInv, MinInv, MaxInv

LEMMA StopTime ==
  ASSUME NEW p \in {"stop_off", "down_off", "up_off", "up_end"}, stop_movement,
         Sleep(p),
         p = "down_off" /\ goal' = "min" => left' >= FullSwing,
         p = "up_off" /\ goal' = "max" => left' >= FullSwing
  PROVE  TimeInv'
  BY DEF stop_movement, MotorOff, Sleep, TimeInv, StartInv, MinInv, MaxInv

(* A timed wait of a movement that goes on. *)
LEMMA TakeSemTime ==
  ASSUME TypeOK, NEW t \in Int, NEW p \in {"down_run", "up_run"},
         TakeSem(p, t), UNCHANGED motion, dir # "STOP" => Slept,
         p = "down_run" /\ goal' = "min" =>
           IF dir = "DOWN" THEN elapsed + t >= FullSwing ELSE t > 0 /\ sem = 1,
         p = "up_run" /\ goal' = "max" =>
           IF dir = "UP" THEN elapsed + t >= FullSwing ELSE t > 0 /\ sem = 1
  PROVE  TimeInv'
<1>1. Slept' <=> Slept
  BY DEF Slept, motion
<1>2. CASE t > 0
  BY <1>1, <1>2 DEF TakeSem, motion, TimeInv, StartInv, MinInv, MaxInv
<1>3. CASE ~(t > 0)
  BY <1>1, <1>3 DEF TakeSem, motion, TimeInv, StartInv, MinInv, MaxInv
<1> QED
  BY <1>2, <1>3

LEMMA StartDownTime ==
  ASSUME Calibrated, TypeOK, NEW t \in Int, StartDown(t), dir = "STOP",
         goal' = "min" => t >= FullSwing
  PROVE  TimeInv'
<1>1. CASE MayStart(t)
  <2>1. /\ pc' = "down_start" /\ dir' = "DOWN" /\ elapsed' = 0
        /\ timer' = RELAY_DELAY /\ left' = t - RELAY_DELAY
    BY <1>1 DEF StartDown, start_movement, Sleep
  <2> QED
    BY <1>1, <2>1, SizeAssumption
       DEF MayStart, TimeInv, StartInv, MinInv, MaxInv
<1>2. CASE ~MayStart(t)
  <2>1. goal' = "min" => sem = 1
    BY <1>2, SizeAssumption DEF MayStart, Calibrated, TypeOK
  <2>2. TakeSem("down_run", 1) /\ UNCHANGED motion
    BY <1>2 DEF StartDown
  <2> QED
    BY <2>1, <2>2, TakeSemTime
<1> QED
  BY <1>1, <1>2

LEMMA GoDownTime ==
  ASSUME Calibrated, TypeOK, TimeInv, pc = "loop", NEW t \in Int,
         NEW g \in {"min", "target"}, g = "min" => t >= FullSwing, GoDown(t, g)
  PROVE  TimeInv'
<1>1. dir # "STOP" => Slept
  BY DEF TimeInv, StartInv
<1>2. CASE SkipMovement
  BY <1>2, SkipTime
<1>3. CASE stop_movement /\ Sleep("down_off") /\ left' = t /\ goal' = g
  BY <1>3, StopTime
<1>4. CASE dir = "STOP" /\ StartDown(t) /\ goal' = g
  BY <1>4, StartDownTime
<1>5. CASE dir = "DOWN" /\ TakeSem("down_run", t) /\ goal' = g /\ UNCHANGED motion
  <2>1. goal' = "min" => elapsed + t >= FullSwing
    BY <1>5, SizeAssumption DEF TypeOK
  <2> QED
    BY <1>1, <1>5, <2>1, TakeSemTime
<1> QED
  BY <1>2, <1>3, <1>4, <1>5 DEF GoDown

LEMMA GoUpTime ==
  ASSUME Calibrated, TypeOK, TimeInv, pc = "loop", NEW t \in Int,
         NEW g \in {"max", "target"}, g = "max" => t >= FullSwing, GoUp(t, g)
  PROVE  TimeInv'
<1>1. dir # "STOP" => Slept
  BY DEF TimeInv, StartInv
<1>2. CASE SkipMovement
  BY <1>2, SkipTime
<1>3. CASE stop_movement /\ Sleep("up_off") /\ left' = t /\ goal' = g
  BY <1>3, StopTime
<1>4. CASE dir = "STOP" /\ PrepareUp(t) /\ goal' = g /\ UNCHANGED motion
  BY <1>4 DEF PrepareUp, Sleep, motion, TimeInv, StartInv, MinInv, MaxInv
<1>5. CASE dir = "UP" /\ TakeSem("up_run", t) /\ goal' = g /\ UNCHANGED motion
  <2>1. goal' = "max" => elapsed + t >= FullSwing
    BY <1>5, SizeAssumption DEF TypeOK
  <2> QED
    BY <1>1, <1>5, <2>1, TakeSemTime
<1> QED
  BY <1>2, <1>3, <1>4, <1>5 DEF GoUp

LEMMA ServeTime ==
  ASSUME Calibrated, TypeOK, TimeInv, Serve
  PROVE  TimeInv'
<1>1. pc = "loop" /\ get_full_run_time \in Int /\ get_full_run_time >= FullSwing
  BY CalibratedTimes DEF Serve
<1>2. get_curr_pos \in Int /\ target \in Int
  BY PositionType, SizeAssumption DEF TypeOK, EINVAL
<1>3. ASSUME GoStop PROVE TimeInv'
  BY <1>1, <1>3, SkipTime, StopTime DEF GoStop
<1>4. CASE GoTarget
  <2>1. /\ get_run_time(target - get_curr_pos) \in Int
        /\ get_run_time(get_curr_pos - target) \in Int
    BY <1>2, RunTimeType
  <2> QED
    BY <1>1, <1>3, <1>4, <2>1, SkipTime, GoUpTime, GoDownTime DEF GoTarget
<1> QED
  BY <1>1, <1>3, <1>4, GoDownTime, GoUpTime DEF Serve

LEMMA TickTime ==
  ASSUME Calibrated, TypeOK, RelayInv, TimeInv, Tick
  PROVE  TimeInv'
<1>1. UNCHANGED <<sem, dir, pc, left, goal>>
  BY DEF Tick, call
<1>2. pc \in {"down_start", "up_start"} => timer > 0 /\ timer' = timer - 1
  BY DEF Tick, ThreadReady, Sleeps, TypeOK
<1>3. pc \in {"down_run", "up_run"} => timer > 0 /\ timer' = timer - 1
  BY DEF Tick, ThreadReady, Runs, TypeOK
<1>4. dir # "STOP" => elapsed' = Lower(elapsed + 1, MaxElapsed)
  BY DEF Tick
<1>5. dir # "STOP" => elapsed' \in Nat /\ elapsed' >= elapsed
        /\ \/ elapsed' = elapsed + 1
           \/ elapsed' >= RELAY_DELAY /\ elapsed' >= FullSwing
  <2>1. /\ elapsed \in 0..MaxElapsed /\ MaxElapsed \in Nat
        /\ MaxElapsed >= FullSwing /\ MaxElapsed >= RELAY_DELAY
    BY CalibratedTimes, SizeAssumption DEF TypeOK
  <2> QED
    BY <1>4, <2>1, SizeAssumption DEF Lower
<1>6. dir # "STOP" /\ Slept => Slept'
  <2> SUFFICES ASSUME dir # "STOP", Slept PROVE Slept'
    OBVIOUS
  <2>1. MaxVal * elapsed \in 0..(MaxVal * elapsed')
    BY <1>5, ProductMonotone, SizeAssumption DEF TypeOK
  <2>2. /\ MaxVal * elapsed = elapsed * MaxVal
        /\ MaxVal * elapsed' = elapsed' * MaxVal
    BY <1>5, SizeAssumption DEF TypeOK
  <2> QED
    BY <1>5, <2>1, <2>2, ProductNat, SizeAssumption DEF Slept, TypeOK
<1>7. /\ pc = "down_start" => dir = "DOWN"
      /\ pc = "up_start" => dir = "UP"
  BY DEF RelayInv, DirectionAt
<1>8. StartInv'
  BY <1>1, <1>2, <1>5, <1>6, <1>7, SizeAssumption
     DEF TimeInv, StartInv, TypeOK
<1>9. MinInv'
  BY <1>1, <1>2, <1>3, <1>5, <1>7, SizeAssumption DEF TimeInv, MinInv, TypeOK
<1>10. MaxInv'
  BY <1>1, <1>2, <1>3, <1>5, <1>7, SizeAssumption DEF TimeInv, MaxInv, TypeOK
<1> QED
  BY <1>8, <1>9, <1>10 DEF TimeInv

LEMMA TimeInvNext ==
  Calibrated /\ TypeOK /\ RelayInv /\ TimeInv /\ [Next]_vars => TimeInv'
<1> SUFFICES ASSUME Calibrated, TypeOK, RelayInv, TimeInv, [Next]_vars
             PROVE  TimeInv'
  OBVIOUS
<1>1. UNCHANGED elapsed => (Slept' <=> Slept)
  BY DEF Slept
<1>2. CASE ThreadStep
  <2>1. CASE TakeRequest \/ Interrupted \/ StopOff
    BY <1>1, <2>1 DEF TakeRequest, Interrupted, StopOff, Awake, Sleep, Runs,
       motion, call, TimeInv, StartInv, MinInv, MaxInv
  <2>2. CASE Serve
    BY <2>2, ServeTime
  <2>3. CASE StopDir
    BY <2>3, SkipTime DEF StopDir, Awake
  <2>4. CASE DownOff
    BY <1>1, <2>4 DEF DownOff, Awake, Sleep, motion, call, TimeInv, StartInv,
       MinInv, MaxInv
  <2>5. CASE DownDir
    <3>1. dir = "STOP" /\ left \in Int
      BY <2>5 DEF DownDir, Awake, RelayInv, DirectionAt, Stopped, TypeOK
    <3>2. StartDown(left) /\ (goal' = "min" => left >= FullSwing)
      BY <2>5 DEF DownDir, Awake, TimeInv, MinInv
    <3> QED
      BY <3>1, <3>2, StartDownTime
  <2>6. CASE DownStarted
    <3>1. /\ elapsed >= RELAY_DELAY /\ dir = "DOWN" /\ left \in Int
          /\ TakeSem("down_run", left) /\ UNCHANGED <<motion, goal>>
          /\ goal' = "min" => elapsed + left >= FullSwing
      BY <2>6 DEF DownStarted, Awake, call, RelayInv, DirectionAt, TimeInv,
         StartInv, MinInv, TypeOK
    <3>2. Slept
      BY <3>1, LongEnough DEF Slept, TypeOK
    <3> QED
      BY <3>1, <3>2, TakeSemTime
  <2>7. CASE DownTimeout
    BY <2>7 DEF DownTimeout, MotorOff, call, TimeInv, StartInv, MinInv, MaxInv
  <2>8. CASE UpOff
    BY <1>1, <2>8 DEF UpOff, Awake, PrepareUp, Sleep, motion, TimeInv, StartInv,
       MinInv, MaxInv
  <2>9. CASE UpDir
    <3>1. dir = "STOP" /\ (goal = "max" => left >= FullSwing)
      BY <2>9 DEF UpDir, Awake, RelayInv, DirectionAt, Stopped, TimeInv, MaxInv
    <3>2. CASE MayStart(left)
      <4>1. /\ pc' = "up_start" /\ timer' = RELAY_DELAY /\ elapsed' = 0
            /\ left' = left - RELAY_DELAY /\ goal' = goal /\ left \in Int
        BY <2>9, <3>2 DEF UpDir, Sleep, start_movement, TypeOK
      <4> QED
        BY <3>1, <3>2, <4>1, SizeAssumption
           DEF MayStart, TimeInv, StartInv, MinInv, MaxInv
    <3>3. CASE ~MayStart(left)
      <4>1. goal = "max" => sem = 1
        BY <3>1, <3>3, SizeAssumption DEF MayStart, Calibrated, TypeOK
      <4> QED
        BY <2>9, <3>1, <3>3, <4>1
           DEF UpDir, Sleep, motion, TimeInv, StartInv, MinInv, MaxInv
    <3> QED
      BY <3>2, <3>3
  <2>10. CASE UpStarted
    <3>1. /\ TakeSem("up_run", left) /\ UNCHANGED <<motion, goal>>
          /\ left \in Int
      BY <2>10 DEF UpStarted, call, TypeOK
    <3>2. CASE Awake("up_start")
      <4>1. /\ elapsed >= RELAY_DELAY /\ dir = "UP"
            /\ goal' = "max" => elapsed + left >= FullSwing
        BY <3>1, <3>2 DEF Awake, RelayInv, DirectionAt, TimeInv, StartInv,
           MaxInv, TypeOK
      <4>2. Slept
        BY <4>1, LongEnough DEF Slept, TypeOK
      <4> QED
        BY <3>1, <4>1, <4>2, TakeSemTime
    <3>3. CASE Awake("up_skip")
      <4>1. dir = "STOP" /\ (goal' = "max" => sem = 1 /\ left > 0)
        BY <3>1, <3>3 DEF Awake, RelayInv, DirectionAt, Stopped, TimeInv, MaxInv
      <4> QED
        BY <3>1, <4>1, TakeSemTime
    <3> QED
      BY <2>10, <3>2, <3>3 DEF UpStarted
  <2>11. CASE UpTimeout
    BY <2>11, StopTime DEF UpTimeout
  <2>12. CASE UpEnd
    BY <1>1, <2>12 DEF UpEnd, Awake, RelayInv, DirectionAt, Stopped, motion,
       call, TimeInv, StartInv, MinInv, MaxInv
  <2> QED
    BY <1>2, <2>1, <2>2, <2>3, <2>4, <2>5, <2>6, <2>7, <2>8, <2>9, <2>10,
       <2>11, <2>12 DEF ThreadStep
<1>3. CASE Request \/ GiveSem \/ (\E r \in RunTimes : set_run_time(r))
           \/ UNCHANGED vars
  <2>1. /\ UNCHANGED <<dir, elapsed, pc, timer, left, goal>>
        /\ sem' = sem \/ sem' = 1
    BY <1>3 DEF Request, go_to, GiveSem, set_run_time, vars, motion, waiting, call
  <2> QED
    BY <1>1, <2>1 DEF TimeInv, StartInv, MinInv, MaxInv
<1>4. CASE Tick
  BY <1>4, TickTime
<1> QED
  BY <1>2, <1>3, <1>4 DEF Next

(* The shade.  While the motor runs, its position is between what the last *)
(* known one and its uncertainty allow; and wherever it has started, it is *)
(* at the end after a full swing.                                          *)

Swing  == MaxVal * FullSwing
Known  == known_loc * FullSwing
Unsure == loc_uncert * FullSwing
Moved  == elapsed * MaxVal

SwingInv ==
  /\ dir = "UP" => Lower(Moved, Swing) <= phys
  /\ dir = "DOWN" => phys <= Higher(Swing - Moved, 0)
  /\ pc = "up_end" /\ goal = "max" => phys = Swing

PositionInv ==
  known_loc >= 0 /\ loc_uncert < IntMax =>
    /\ dir = "STOP" => Known - Unsure <= phys /\ phys <= Known + Unsure
    /\ dir = "UP" => /\ Lower(Known - Unsure + Moved, Swing) <= phys
                     /\ phys <= Known + Unsure + Moved
    /\ dir = "DOWN" => /\ Known - Unsure - Moved <= phys
                       /\ phys <= Higher(Known + Unsure - Moved, 0)

LEMMA Quotient ==
  ASSUME NEW x \in Nat, NEW b \in Nat \ {0}
  PROVE  /\ x \div b \in Nat
         /\ (x \div b) * b <= x /\ x < (x \div b) * b + b
  OBVIOUS

LEMMA Monotone ==
  ASSUME NEW a \in Nat, NEW b \in Nat, NEW f \in Nat, a <= b
  PROVE  a * f <= b * f
<1>1. f * a \in 0..(f * b)
  BY ProductMonotone
<1>2. f * a = a * f /\ f * b = b * f
  OBVIOUS
<1> QED
  BY <1>1, <1>2, ProductNat

LEMMA SumProduct ==
  ASSUME NEW a \in Nat, NEW b \in Nat, NEW f \in Nat
  PROVE  (a + b) * f = a * f + b * f
  OBVIOUS

(* What get_curr_pos() answers for a movement upwards from k, of which the *)
(* real distance is x, and downwards.                                      *)
LEMMA UpIsRight ==
  ASSUME NEW k \in 0..MaxVal, NEW u \in Nat, NEW x \in Nat, NEW p \in 0..Swing,
         Lower(k * FullSwing - u * FullSwing + x, Swing) <= p,
         p <= k * FullSwing + u * FullSwing + x,
         NEW pos, pos = Lower(k + x \div FullSwing, MaxVal)
  PROVE  /\ pos \in 0..MaxVal
         /\ Distance(pos * FullSwing, p) < (u + 1) * FullSwing
         /\ FullSwing <= x /\ pos = k =>
              Distance(pos * FullSwing, p) <= u * FullSwing
<1> DEFINE q == x \div FullSwing
<1>1. q \in Nat /\ q * FullSwing <= x /\ x < q * FullSwing + FullSwing
  BY Quotient, SizeAssumption
<1>2. /\ k * FullSwing \in Nat /\ u * FullSwing \in Nat /\ q * FullSwing \in Nat
      /\ Swing \in Nat /\ FullSwing \in Nat \ {0} /\ MaxVal \in Nat
  BY <1>1, ProductNat, SizeAssumption DEF Swing
<1>3. (u + 1) * FullSwing = u * FullSwing + FullSwing
  BY SumProduct, SizeAssumption
<1>4. (k + q) * FullSwing = k * FullSwing + q * FullSwing
  BY <1>1, SumProduct, SizeAssumption
<1>5. CASE k + q < MaxVal
  <2>1. pos = k + q
    BY <1>5 DEF Lower
  <2>2. k * FullSwing + q * FullSwing <= Swing
    BY <1>1, <1>2, <1>4, <1>5, Monotone DEF Swing
  <2>3. pos * FullSwing = k * FullSwing + q * FullSwing
    BY <1>4, <2>1
  <2>4. FullSwing <= x => pos # k
    <3> SUFFICES ASSUME FullSwing <= x PROVE q # 0
      BY <1>1, <2>1
    <3> QED
      BY <1>1, <1>2
  <2>5. p - pos * FullSwing < u * FullSwing + FullSwing
    BY <1>1, <1>2, <2>3
  <2>6. pos * FullSwing - p <= u * FullSwing
    BY <1>1, <1>2, <2>2, <2>3 DEF Lower
  <2> HIDE DEF q
  <2> QED
    BY <1>1, <1>2, <1>3, <1>5, <2>1, <2>3, <2>4, <2>5, <2>6
       DEF Distance, Higher
<1>6. CASE ~(k + q < MaxVal)
  <2>1. pos = MaxVal
    BY <1>6 DEF Lower
  <2>2. Swing <= k * FullSwing + q * FullSwing
    BY <1>1, <1>2, <1>4, <1>6, Monotone DEF Swing
  <2>3. Swing - p <= u * FullSwing
    BY <1>1, <1>2, <2>2 DEF Lower
  <2>4. pos * FullSwing = Swing
    BY <2>1 DEF Swing
  <2> HIDE DEF q
  <2> QED
    BY <1>2, <1>3, <2>1, <2>3, <2>4 DEF Distance, Higher
<1> QED
  BY <1>5, <1>6

LEMMA DownIsRight ==
  ASSUME NEW k \in 0..MaxVal, NEW u \in Nat, NEW x \in Nat, NEW p \in 0..Swing,
         p <= Higher(k * FullSwing + u * FullSwing - x, 0),
         k * FullSwing - u * FullSwing - x <= p,
         NEW pos, pos = Higher(k - x \div FullSwing, MIN_VAL)
  PROVE  /\ pos \in 0..MaxVal
         /\ Distance(pos * FullSwing, p) < (u + 1) * FullSwing
         /\ FullSwing <= x /\ pos = k =>
              Distance(pos * FullSwing, p) <= u * FullSwing
<1> DEFINE q == x \div FullSwing
<1>1. q \in Nat /\ q * FullSwing <= x /\ x < q * FullSwing + FullSwing
  BY Quotient, SizeAssumption
<1>2. /\ k * FullSwing \in Nat /\ u * FullSwing \in Nat /\ q * FullSwing \in Nat
      /\ Swing \in Nat /\ FullSwing \in Nat \ {0} /\ MaxVal \in Nat
  BY <1>1, ProductNat, SizeAssumption DEF Swing
<1>3. (u + 1) * FullSwing = u * FullSwing + FullSwing
  BY SumProduct, SizeAssumption
<1>4. CASE k - q > 0
  <2>1. pos = k - q /\ pos \in Nat
    BY <1>1, <1>4 DEF Higher, MIN_VAL
  <2>2. (pos + q) * FullSwing = pos * FullSwing + q * FullSwing
    BY <1>1, <2>1, SumProduct, SizeAssumption
  <2>3. pos * FullSwing = k * FullSwing - q * FullSwing
        /\ pos * FullSwing \in Nat
    <3>1. pos + q = k
      BY <1>1, <2>1
    <3>2. pos * FullSwing \in Nat
      BY <2>1, ProductNat, SizeAssumption
    <3> QED
      BY <1>2, <2>2, <3>1, <3>2
  <2>4. FullSwing <= x => pos # k
    <3> SUFFICES ASSUME FullSwing <= x PROVE q # 0
      BY <1>1, <2>1
    <3> QED
      BY <1>1, <1>2
  <2>5. pos * FullSwing - p < u * FullSwing + FullSwing
    BY <1>1, <1>2, <2>3
  <2>6. p - pos * FullSwing <= u * FullSwing
    BY <1>1, <1>2, <2>3 DEF Higher
  <2> HIDE DEF q
  <2> QED
    BY <1>1, <1>2, <1>3, <2>1, <2>3, <2>4, <2>5, <2>6 DEF Distance, Higher
<1>5. CASE ~(k - q > 0)
  <2>1. pos = 0
    BY <1>5 DEF Higher, MIN_VAL
  <2>2. k * FullSwing <= q * FullSwing
    BY <1>1, <1>2, <1>5, Monotone
  <2>3. p <= u * FullSwing
    BY <1>1, <1>2, <2>2 DEF Higher
  <2>4. pos * FullSwing = 0
    BY <2>1, SizeAssumption
  <2> HIDE DEF q
  <2> QED
    BY <1>2, <1>3, <2>1, <2>3, <2>4 DEF Distance, Higher
<1> QED
  BY <1>4, <1>5

LEMMA ShadeTypes ==
  ASSUME TypeOK
  PROVE  /\ Swing \in Nat /\ Moved \in Nat /\ Unsure \in Nat
         /\ MaxVal \in Nat \ {0} /\ FullSwing \in Nat \ {0}
         /\ phys \in 0..Swing
         /\ known_loc >= 0 => known_loc \in 0..MaxVal /\ Known \in 0..Swing
<1>1. Swing \in Nat /\ Moved \in Nat /\ Unsure \in Nat
  BY ProductNat, SizeAssumption DEF Swing, Moved, Unsure, TypeOK
<1>2. known_loc >= 0 => known_loc \in 0..MaxVal /\ Known \in 0..Swing
  BY Monotone, ProductNat, SizeAssumption DEF Swing, Known, TypeOK
<1> QED
  BY <1>1, <1>2, SizeAssumption DEF Swing, TypeOK

(* The position that is reported. *)
LEMMA ReportIsRight ==
  ASSUME Calibrated, TypeOK, PositionInv, known_loc >= 0, loc_uncert < IntMax
  PROVE  /\ get_curr_pos \in 0..MaxVal
         /\ Distance(get_curr_pos * FullSwing, phys)
              < (loc_uncert + 1) * FullSwing
         /\ (dir # "STOP" => FullSwing <= Moved) /\ get_curr_pos = known_loc =>
              Distance(known_loc * FullSwing, phys) <= loc_uncert * FullSwing
<1>1. /\ known_loc \in 0..MaxVal /\ loc_uncert \in Nat /\ Moved \in Nat
      /\ phys \in 0..Swing /\ FullSwing \in Nat \ {0} /\ Known \in Nat
      /\ Unsure \in Nat
  BY ShadeTypes DEF TypeOK
<1>2. ~(known_loc < 0 \/ run_time = 0) /\ movement_delta(elapsed) = Moved \div FullSwing
  BY <1>1, CalibratedTimes DEF movement_delta, Moved
<1>3. CASE dir = "UP"
  <2>1. get_curr_pos = Lower(known_loc + Moved \div FullSwing, MaxVal)
    BY <1>2, <1>3 DEF get_curr_pos
  <2>2. /\ Lower(known_loc * FullSwing - loc_uncert * FullSwing + Moved, Swing) <= phys
        /\ phys <= known_loc * FullSwing + loc_uncert * FullSwing + Moved
    BY <1>3 DEF PositionInv, Known, Unsure
  <2> QED
    BY <1>1, <1>3, <2>1, <2>2, UpIsRight
<1>4. CASE dir = "DOWN"
  <2>1. get_curr_pos = Higher(known_loc - Moved \div FullSwing, MIN_VAL)
    BY <1>2, <1>4 DEF get_curr_pos
  <2>2. /\ phys <= Higher(known_loc * FullSwing + loc_uncert * FullSwing - Moved, 0)
        /\ known_loc * FullSwing - loc_uncert * FullSwing - Moved <= phys
    BY <1>4 DEF PositionInv, Known, Unsure
  <2> QED
    BY <1>1, <1>4, <2>1, <2>2, DownIsRight
<1>5. CASE dir = "STOP"
  <2>1. get_curr_pos = known_loc
    BY <1>2, <1>5 DEF get_curr_pos
  <2>2. Known - Unsure <= phys /\ phys <= Known + Unsure
    BY <1>5 DEF PositionInv
  <2>3. Distance(known_loc * FullSwing, phys) <= loc_uncert * FullSwing
    BY <1>1, <2>2 DEF Distance, Higher, Known, Unsure
  <2>4. (loc_uncert + 1) * FullSwing = loc_uncert * FullSwing + FullSwing
    BY <1>1, SumProduct
  <2>5. Distance(known_loc * FullSwing, phys) < (loc_uncert + 1) * FullSwing
    BY <1>1, <2>3, <2>4 DEF Distance, Higher, Known, Unsure
  <2> QED
    BY <1>1, <2>1, <2>3, <2>5
<1> QED
  BY <1>3, <1>4, <1>5 DEF TypeOK

LEMMA StopPosition ==
  ASSUME Calibrated, TypeOK, PositionInv, dir # "STOP" => Slept,
         stop_movement, UNCHANGED phys
  PROVE  PositionInv'
<1> SUFFICES ASSUME known_loc' >= 0, loc_uncert' < IntMax
             PROVE  PositionInv'
  BY DEF PositionInv
<1>1. update_curr_pos /\ dir' = "STOP"
  BY DEF stop_movement, MotorOff
<1>2. known_loc >= 0
  <2>1. CASE get_curr_pos < 0
    BY <1>1, <2>1 DEF update_curr_pos, belief
  <2>2. CASE known_loc < 0
    BY <1>1, <2>1, <2>2, SizeAssumption DEF get_curr_pos, EINVAL
  <2> QED
    BY <2>2 DEF TypeOK
<1>3. loc_uncert < IntMax
  <2>1. CASE ~(loc_uncert < IntMax)
    BY <1>1, <2>1 DEF update_curr_pos, belief
  <2> QED
    BY <2>1
<1>4. get_curr_pos \in 0..MaxVal
  BY <1>2, <1>3, ReportIsRight
<1>5. /\ known_loc' = get_curr_pos
      /\ loc_uncert' = IF get_curr_pos # known_loc THEN loc_uncert + 1 ELSE loc_uncert
  BY <1>1, <1>3, <1>4, SizeAssumption DEF update_curr_pos
<1>6. Distance(known_loc' * FullSwing, phys) <= loc_uncert' * FullSwing
  <2>1. CASE get_curr_pos # known_loc
    <3>1. /\ get_curr_pos * FullSwing \in Nat /\ phys \in Nat
          /\ (loc_uncert + 1) * FullSwing \in Nat
      BY <1>4, ProductNat, ShadeTypes DEF TypeOK
    <3>2. Distance(get_curr_pos * FullSwing, phys) < (loc_uncert + 1) * FullSwing
      BY <1>2, <1>3, ReportIsRight
    <3>3. Distance(get_curr_pos * FullSwing, phys) <= (loc_uncert + 1) * FullSwing
      BY <3>1, <3>2 DEF Distance, Higher
    <3> QED
      BY <1>5, <2>1, <3>3
  <2>2. CASE get_curr_pos = known_loc
    BY <1>2, <1>3, <1>5, <2>2, ReportIsRight DEF Slept, Moved
  <2> QED
    BY <2>1, <2>2
<1>7. /\ known_loc' * FullSwing \in Nat /\ loc_uncert' * FullSwing \in Nat
      /\ phys \in Nat
  BY <1>4, <1>5, ProductNat, ShadeTypes DEF TypeOK
<1> QED
  BY <1>1, <1>6, <1>7 DEF PositionInv, Known, Unsure, Distance, Higher

LEMMA StartPosition ==
  ASSUME TypeOK, PositionInv, dir = "STOP", NEW d \in {"DOWN", "UP"},
         start_movement(d), UNCHANGED <<belief, phys>>
  PROVE  /\ PositionInv'
         /\ dir' = "UP" => Lower(Moved', Swing) <= phys
         /\ dir' = "DOWN" => phys <= Higher(Swing - Moved', 0)
<1>1. Moved' = 0 /\ Known' = Known /\ Unsure' = Unsure /\ dir' = d
  BY SizeAssumption DEF start_movement, Moved, Known, Unsure, belief
<1>2. Swing \in Nat /\ Unsure \in Nat /\ phys \in 0..Swing
  BY ShadeTypes
<1>3. PositionInv'
  <2> SUFFICES ASSUME known_loc' >= 0, loc_uncert' < IntMax
               PROVE  PositionInv'
    BY DEF PositionInv
  <2>1. known_loc >= 0 /\ loc_uncert < IntMax
    BY DEF belief
  <2>2. Known \in 0..Swing /\ Known - Unsure <= phys /\ phys <= Known + Unsure
    BY <2>1, ShadeTypes DEF PositionInv
  <2> QED
    BY <1>1, <1>2, <2>2 DEF PositionInv, Lower, Higher
<1> QED
  BY <1>1, <1>2, <1>3 DEF Lower, Higher

LEMMA SamePosition ==
  ASSUME PositionInv, UNCHANGED <<dir, elapsed, known_loc, loc_uncert, phys>>
  PROVE  PositionInv'
  BY DEF PositionInv, Known, Unsure, Moved

LEMMA SavedPosition ==
  ASSUME TypeOK, dir' = "STOP", NEW loc \in 0..MaxVal, save_known_loc(loc),
         phys' = loc * FullSwing
  PROVE  PositionInv'
<1>1. Known' = phys' /\ Unsure' = 0 /\ phys' \in Nat
  BY ProductNat, SizeAssumption DEF save_known_loc, Known, Unsure
<1> QED
  BY <1>1 DEF PositionInv

(* A full swing ends at the end. *)
LEMMA FullSwingEnds ==
  ASSUME TypeOK, SwingInv, elapsed >= FullSwing
  PROVE  /\ dir = "UP" => phys = Swing
         /\ dir = "DOWN" => phys = 0
<1>1. Swing <= Moved
  <2>1. FullSwing * MaxVal <= elapsed * MaxVal
    BY Monotone, SizeAssumption DEF TypeOK
  <2> QED
    BY <2>1, SizeAssumption DEF Swing, Moved
<1>2. Swing \in Nat /\ Moved \in Nat /\ phys \in 0..Swing
  BY ShadeTypes
<1> QED
  BY <1>1, <1>2 DEF SwingInv, Lower, Higher

LEMMA TickShade ==
  ASSUME Calibrated, TypeOK, RelayInv, SwingInv, PositionInv, Tick
  PROVE  SwingInv' /\ PositionInv'
<1>1. /\ UNCHANGED <<dir, pc, goal, Known, Unsure>>
      /\ UNCHANGED <<known_loc, loc_uncert>>
      /\ phys' = Motor
  BY DEF Tick, belief, call, Known, Unsure
<1>2. /\ Swing \in Nat /\ Moved \in Nat /\ Unsure \in Nat /\ MaxVal \in Nat \ {0}
      /\ phys \in 0..Swing
      /\ known_loc >= 0 => Known \in 0..Swing
  BY ShadeTypes
<1>3. Swing = MaxVal * FullSwing
  BY DEF Swing
<1>4. CASE dir = "STOP"
  <2>1. phys' = phys
    BY <1>1, <1>4 DEF Motor, RelayInv, MovesAsBelieved
  <2> QED
    BY <1>1, <1>4, <2>1 DEF SwingInv, PositionInv
<1>5. CASE dir # "STOP"
  <2>1. \/ Moved' = Moved + MaxVal
        \/ Moved' = Moved /\ Swing <= Moved
    <3>1. elapsed' = Lower(elapsed + 1, MaxElapsed)
      BY <1>5 DEF Tick
    <3>2. /\ elapsed \in 0..MaxElapsed /\ MaxElapsed \in Nat
          /\ MaxElapsed >= FullSwing /\ FullSwing \in Nat
      BY CalibratedTimes, SizeAssumption DEF TypeOK
    <3>3. CASE elapsed < MaxElapsed
      <4>1. elapsed' = elapsed + 1
        BY <3>1, <3>2, <3>3 DEF Lower
      <4> QED
        BY <1>2, <3>2, <4>1, SumProduct DEF Moved
    <3>4. CASE ~(elapsed < MaxElapsed)
      <4>1. elapsed' = elapsed /\ FullSwing <= elapsed
        BY <3>1, <3>2, <3>4 DEF Lower
      <4>2. FullSwing * MaxVal <= elapsed * MaxVal
        BY <1>2, <3>2, <4>1, Monotone
      <4> QED
        BY <1>2, <3>2, <4>1, <4>2 DEF Swing, Moved
    <3> QED
      BY <3>3, <3>4
  <2>2. CASE dir = "UP"
    <3>1. phys' = Lower(phys + MaxVal, Swing)
      BY <1>1, <1>3, <2>2 DEF Motor, RelayInv, MovesAsBelieved
    <3> QED
      BY <1>1, <1>2, <2>1, <2>2, <3>1 DEF SwingInv, PositionInv, Lower
  <2>3. CASE dir = "DOWN"
    <3>1. phys' = Higher(phys - MaxVal, 0)
      BY <1>1, <2>3 DEF Motor, RelayInv, MovesAsBelieved
    <3>2. SwingInv'
      BY <1>1, <1>2, <2>1, <2>3, <3>1
         DEF SwingInv, Higher, RelayInv, DirectionAt, Stopped
    <3>3. ASSUME known_loc >= 0, loc_uncert < IntMax
          PROVE  PositionInv'
      <4>1. /\ Known - Unsure - Moved <= phys
            /\ phys <= Higher(Known + Unsure - Moved, 0)
            /\ Known \in 0..Swing
        BY <1>2, <2>3, <3>3 DEF PositionInv
      <4>2. Known - Unsure - Moved' <= phys'
        BY <1>2, <2>1, <3>1, <4>1 DEF Higher
      <4>3. phys' <= Higher(Known + Unsure - Moved', 0)
        BY <1>2, <2>1, <3>1, <4>1 DEF Higher
      <4> QED
        BY <1>1, <2>3, <4>2, <4>3 DEF PositionInv
    <3> QED
      BY <1>1, <3>2, <3>3 DEF PositionInv
  <2> QED
    BY <1>5, <2>2, <2>3 DEF TypeOK
<1> QED
  BY <1>4, <1>5

(* What a request makes of the movement. *)
Continues == UNCHANGED <<motion, belief>>
Starts    == dir = "STOP" /\ start_movement("DOWN") /\ UNCHANGED belief

LEMMA ServeMoves ==
  ASSUME Serve
  PROVE  pc' # "up_end" /\ (Continues \/ stop_movement \/ Starts)
<1>1. ASSUME NEW t, dir = "STOP", StartDown(t)
      PROVE  pc' # "up_end" /\ (Continues \/ Starts)
  BY <1>1 DEF StartDown, Sleep, TakeSem, Continues, Starts
<1>2. ASSUME NEW t, NEW p \in {"down_run", "up_run"}, TakeSem(p, t)
      PROVE  pc' # "up_end"
  BY <1>2 DEF TakeSem
<1>3. ASSUME NEW t, NEW g, GoDown(t, g)
      PROVE  pc' # "up_end" /\ (Continues \/ stop_movement \/ Starts)
  BY <1>1, <1>2, <1>3 DEF GoDown, SkipMovement, Sleep, Continues
<1>4. ASSUME NEW t, NEW g, GoUp(t, g)
      PROVE  pc' # "up_end" /\ (Continues \/ stop_movement \/ Starts)
  BY <1>2, <1>4 DEF GoUp, PrepareUp, SkipMovement, Sleep, Continues
<1>5. ASSUME GoStop
      PROVE  pc' # "up_end" /\ (Continues \/ stop_movement \/ Starts)
  BY <1>5 DEF GoStop, SkipMovement, Sleep, Continues
<1>6. ASSUME SkipMovement
      PROVE  pc' # "up_end" /\ Continues
  BY <1>6 DEF SkipMovement, Continues
<1> QED
  BY <1>3, <1>4, <1>5, <1>6 DEF Serve, GoTarget

LEMMA StepShade ==
  ASSUME Calibrated, TypeOK, RelayInv, TimeInv, SwingInv, PositionInv, ThreadStep
  PROVE  SwingInv' /\ PositionInv'
<1>1. UNCHANGED phys
  BY DEF ThreadStep
<1>2. ASSUME pc' # "up_end", Continues
      PROVE  SwingInv' /\ PositionInv'
  BY <1>1, <1>2, SamePosition DEF Continues, motion, belief, SwingInv, Moved
<1>3. ASSUME pc' # "up_end", stop_movement, dir # "STOP" => Slept
      PROVE  SwingInv' /\ PositionInv'
  BY <1>1, <1>3, StopPosition DEF stop_movement, MotorOff, SwingInv
<1>4. ASSUME pc' # "up_end", dir = "STOP", UNCHANGED belief,
             NEW d \in {"DOWN", "UP"}, start_movement(d)
      PROVE  SwingInv' /\ PositionInv'
  <2>1. phys' = phys /\ Swing' = Swing
    BY <1>1 DEF Swing
  <2> QED
    BY <1>4, <2>1, StartPosition DEF SwingInv
<1>5. CASE Serve
  <2>1. dir # "STOP" => Slept
    BY <1>5 DEF Serve, TimeInv, StartInv
  <2> QED
    BY <1>2, <1>3, <1>4, <1>5, <2>1, ServeMoves DEF Starts
<1>6. CASE TakeRequest \/ StopOff \/ StopDir \/ DownOff \/ DownStarted
             \/ UpOff \/ UpStarted \/ Interrupted
  <2>1. pc' # "up_end" /\ Continues
    BY <1>6 DEF TakeRequest, StopOff, StopDir, DownOff, DownStarted, UpOff,
       UpStarted, Interrupted, SkipMovement, PrepareUp, Sleep, TakeSem, Continues
  <2> QED
    BY <1>2, <2>1
<1>7. CASE DownDir
  <2>1. dir = "STOP" /\ StartDown(left)
    BY <1>7 DEF DownDir, Awake, RelayInv, DirectionAt, Stopped
  <2>2. pc' # "up_end" /\ (Continues \/ Starts)
    BY <2>1 DEF StartDown, Sleep, TakeSem, Continues, Starts
  <2> QED
    BY <1>2, <1>4, <2>2 DEF Starts
<1>8. CASE UpDir
  <2>1. dir = "STOP" /\ pc' # "up_end" /\ UNCHANGED belief
        /\ (start_movement("UP") \/ UNCHANGED motion)
    BY <1>8 DEF UpDir, Awake, Sleep, RelayInv, DirectionAt, Stopped
  <2> QED
    BY <1>2, <1>4, <2>1 DEF Continues
<1>9. CASE DownTimeout
  <2>1. pc' = "idle" /\ MotorOff /\ UNCHANGED goal
    BY <1>9 DEF DownTimeout, call
  <2>2. SwingInv'
    BY <2>1 DEF MotorOff, SwingInv
  <2>3. CASE goal = "min"
    <3>1. dir = "DOWN" /\ elapsed >= FullSwing
      BY <1>9, <2>3, SizeAssumption
         DEF DownTimeout, Awake, TimeInv, MinInv, TypeOK
    <3>2. phys' = 0
      BY <1>1, <3>1, FullSwingEnds
    <3>3. save_known_loc(MIN_VAL) /\ MIN_VAL * FullSwing = 0 /\ MIN_VAL \in 0..MaxVal
      BY <1>9, <2>3, SizeAssumption DEF DownTimeout, MIN_VAL
    <3> QED
      BY <2>1, <2>2, <3>2, <3>3, SavedPosition DEF MotorOff
  <2>4. CASE goal # "min"
    <3>1. stop_movement /\ (dir # "STOP" => Slept)
      BY <1>9, <2>4 DEF DownTimeout, Awake, stop_movement, TimeInv, StartInv
    <3> QED
      BY <1>3, <2>1, <3>1
  <2> QED
    BY <2>3, <2>4
<1>10. CASE UpTimeout
  <2>1. stop_movement /\ (dir # "STOP" => Slept) /\ UNCHANGED goal
    BY <1>10 DEF UpTimeout, Awake, TimeInv, StartInv, call
  <2>2. PositionInv'
    BY <1>1, <2>1, StopPosition
  <2>3. goal = "max" => phys = Swing
    <3> SUFFICES ASSUME goal = "max" PROVE phys = Swing
      OBVIOUS
    <3>1. dir = "UP" /\ elapsed >= FullSwing
      BY <1>10, SizeAssumption DEF UpTimeout, Awake, TimeInv, MaxInv, TypeOK
    <3> QED
      BY <3>1, FullSwingEnds
  <2> QED
    BY <1>1, <2>1, <2>2, <2>3 DEF stop_movement, MotorOff, SwingInv, Swing
<1>11. CASE UpEnd
  <2>1. pc' = "idle" /\ UNCHANGED motion /\ dir = "STOP"
    BY <1>11 DEF UpEnd, Awake, RelayInv, DirectionAt, Stopped
  <2>2. CASE goal = "max"
    <3>1. save_known_loc(MaxVal) /\ phys' = MaxVal * FullSwing
      BY <1>1, <1>11, <2>2 DEF UpEnd, Awake, SwingInv, Swing
    <3>2. PositionInv'
      BY <2>1, <3>1, SavedPosition, SizeAssumption DEF motion
    <3> QED
      BY <2>1, <3>2 DEF SwingInv, motion
  <2>3. CASE goal # "max"
    BY <1>2, <1>11, <2>1, <2>3 DEF UpEnd, Continues
  <2> QED
    BY <2>2, <2>3
<1> QED
  BY <1>5, <1>6, <1>7, <1>8, <1>9, <1>10, <1>11 DEF ThreadStep

(* The inductive invariant of the dead reckoning. *)
ShadeInv == TimeInv /\ SwingInv /\ PositionInv

LEMMA ShadeInvNext ==
  Calibrated /\ TypeOK /\ RelayInv /\ ShadeInv /\ [Next]_vars => ShadeInv'
<1> SUFFICES ASSUME Calibrated, TypeOK, RelayInv, ShadeInv, [Next]_vars
             PROVE  ShadeInv'
  OBVIOUS
<1>1. TimeInv'
  BY TimeInvNext DEF ShadeInv
<1>2. CASE ThreadStep
  BY <1>1, <1>2, StepShade DEF ShadeInv
<1>3. CASE Tick
  BY <1>1, <1>3, TickShade DEF ShadeInv
<1>4. CASE Request \/ GiveSem \/ (\E r \in RunTimes : set_run_time(r))
           \/ UNCHANGED vars
  <2>1. UNCHANGED <<dir, elapsed, known_loc, loc_uncert, phys, pc, goal>>
    BY <1>4 DEF Request, go_to, GiveSem, set_run_time, vars, motion, belief,
       waiting, call
  <2> QED
    BY <1>1, <2>1, SamePosition DEF ShadeInv, SwingInv, Moved, Swing
<1> QED
  BY <1>2, <1>3, <1>4 DEF Next

(* The dead reckoning of get_curr_pos() and update_curr_pos(): of a shade  *)
(* that is provisioned with its run time, the position reported is off by  *)
(* less than one unit more than loc_uncert.                                *)
THEOREM DriftBoundHolds ==
  ASSUME Calibrated PROVE Spec => []DriftBound
<1>1. Init => ShadeInv
  BY DEF Init, ShadeInv, TimeInv, StartInv, MinInv, MaxInv, SwingInv, PositionInv
<1>2. TypeOK /\ RelayInv /\ ShadeInv /\ [Next]_vars => ShadeInv'
  BY ShadeInvNext
<1>3. TypeOK /\ ShadeInv => DriftBound
  <2> SUFFICES ASSUME TypeOK, ShadeInv, known_loc >= 0, loc_uncert < IntMax
               PROVE  DriftBound
    BY DEF DriftBound
  <2>1. dir = "STOP" => get_curr_pos = known_loc
    BY CalibratedTimes, SizeAssumption DEF get_curr_pos, TypeOK
  <2> QED
    BY <2>1, ReportIsRight DEF ShadeInv, DriftBound
<1> QED
  BY <1>1, <1>2, <1>3, RelayInvariant, TypeCorrect, PTL DEF Spec

-----------------------------------------------------------------------------
(* The position service.                                                   *)

LEMMA PositionValues ==
  /\ STOP \notin Positions /\ Unknown \notin Positions
  /\ MAX \in Positions /\ MIN \in Positions /\ Positions \subseteq Nat
  BY PositionAssumption DEF STOP, Unknown, Positions

(* What is saved is a position, what the motor is sent may be STOP too. *)
ServiceInv ==
  /\ ServiceTypeOK
  /\ srv_pc = "save" => val \in Positions
  /\ srv_pc = "go" => val \in Positions \cup {STOP}

LEMMA ServiceInvInit == ServiceInit => ServiceInv
<1> SUFFICES ASSUME ServiceInit PROVE ServiceInv
  OBVIOUS
<1>1. Never \in 0..Never
  BY DEF Never
<1> QED
  BY <1>1 DEF ServiceInit, ServiceTypeOK, ServiceInv

LEMMA AgedIsAge ==
  ASSUME NEW a \in 0..Never, NEW b \in 0..Never
  PROVE  /\ Aged(a, b) \in 0..Never
         /\ Aged(a, b) < Aged(b, a) <=> a < b
         /\ Aged(a, b) = Never <=> a = Never
  BY DEF Aged, Never

LEMMA ServiceInvNext == ServiceInv /\ [ServiceNext]_service_vars => ServiceInv'
<1> SUFFICES ASSUME ServiceInv, [ServiceNext]_service_vars PROVE ServiceInv'
  OBVIOUS
<1> USE PositionValues, PositionAssumption DEF ServiceInv
<1>0. get_val \in Positions \cup {STOP}
  BY DEF ServiceTypeOK, get_val
<1>1. CASE ServiceThread
  <2>1. CASE Take
    BY <1>0, <1>1, <2>1
    DEF ServiceThread, Take, ServiceTypeOK, timeouts, swinging
  <2>2. CASE GoTo \/ get_pos \/ Save
    <3>1. /\ requests' \in Positions \cup {STOP}
          /\ motor_target' \in Positions \cup {STOP}
          /\ val' \in Positions \cup {STOP, Unknown}
          /\ srv_pc' \in {"wait", "go", "stopped", "save"}
          /\ req_sem' \in {0, 1}
          /\ srv_pc' = "save" => val' \in Positions
          /\ srv_pc' # "go"
      <4>1. CASE GoTo
        BY <4>1 DEF GoTo, ServiceTypeOK
      <4>2. CASE get_pos
        BY <4>2 DEF get_pos, ServiceTypeOK, Unknown
      <4>3. CASE Save
        BY <4>3 DEF Save, ServiceTypeOK
      <4> QED
        BY <2>2, <4>1, <4>2, <4>3
    <3> QED
      BY <1>1, <3>1 DEF ServiceThread, ServiceTypeOK, timeouts, swinging
  <2> QED
    BY <1>1, <2>1, <2>2 DEF ServiceThread
<1>2. CASE SwingThread
  <2>1. /\ overridden' \in {STOP, MAX, MIN} /\ req_sem' \in {0, 1}
        /\ swing' \in {"check", "up", "down", "pause", "off"}
        /\ swing_timer' \in Nat /\ swing_sem' \in {0, 1}
    BY <1>2 DEF SwingThread, SwingStart, SwingDown, SwingRelease, SwingAgain,
                override, Sleeping, ServiceTypeOK
  <2> QED
    BY <1>2, <2>1 DEF SwingThread, ServiceTypeOK, inputs, timeouts, service
<1>3. ASSUME NEW p \in Positions \cup {STOP}, pos_srv_req(p) PROVE ServiceInv'
  BY <1>3 DEF pos_srv_req, ServiceTypeOK, timeouts, service, swinging, Never
<1>4. ASSUME NEW v \in Validities, PrjEnabled(v) PROVE ServiceInv'
  BY <1>4 DEF PrjEnabled, ServiceTypeOK, inputs, service, swinging, Never
<1>5. CASE PrjDisabled
  <2>1. prj_age' \in 0..Never /\ req_sem' \in {0, 1}
    BY <1>5 DEF PrjDisabled, Never
  <2>2. notified' \in BOOLEAN
    BY <1>5, Zenon DEF PrjDisabled
  <2>3. UNCHANGED <<requests, request_age, asked, overridden, prj_timer, coap, srv_pc,
                    val, motor_target, swing, swing_timer, swing_sem, interval>>
    BY <1>5 DEF PrjDisabled, inputs, service, swinging
  <2>4. ServiceTypeOK'
    <3>1. /\ requests' \in Positions \cup {STOP}
          /\ asked' \in Positions \cup {STOP}
          /\ overridden' \in {STOP, MAX, MIN}
          /\ swing_sem' \in {0, 1} /\ request_age' \in 0..Never
          /\ prj_timer' \in Nat /\ coap' \in Validities \cup {0}
      BY <2>3 DEF ServiceTypeOK
    <3>2. /\ srv_pc' \in {"wait", "go", "stopped", "save"}
          /\ val' \in Positions \cup {STOP, Unknown}
          /\ motor_target' \in Positions \cup {STOP}
          /\ swing' \in {"check", "up", "down", "pause", "off"}
          /\ swing_timer' \in Nat /\ interval' \in Intervals
      BY <2>3 DEF ServiceTypeOK
    <3> QED
      BY <2>1, <2>2, <3>1, <3>2, Zenon DEF ServiceTypeOK
  <2> QED
    BY <2>3, <2>4
<1>6. ASSUME NEW i \in Intervals, pos_swing_interval_set(i) PROVE ServiceInv'
  BY <1>6 DEF pos_swing_interval_set, ServiceTypeOK, inputs, timeouts, service
<1>7. CASE StartTimer
  BY <1>7 DEF StartTimer, ServiceTypeOK, inputs, service, swinging
<1>8. CASE ProjectorTimeout
  BY <1>8 DEF ProjectorTimeout, ServiceTypeOK, inputs, service, swinging, Never
<1>9. CASE ServiceTick
  <2>1. /\ request_age' \in 0..Never /\ prj_age' \in 0..Never
        /\ prj_timer' \in Nat /\ swing_timer' \in Nat
    <3>1. /\ request_age \in 0..Never /\ prj_age \in 0..Never
          /\ prj_timer \in Nat /\ swing_timer \in Nat
      BY DEF ServiceTypeOK
    <3>2. request_age' \in 0..Never /\ prj_age' \in 0..Never
      BY <1>9, <3>1, AgedIsAge DEF ServiceTick
    <3>3. prj_timer' \in Nat /\ swing_timer' \in Nat
      BY <1>9, <3>1 DEF ServiceTick, Less
    <3> QED
      BY <3>2, <3>3
  <2> QED
    BY <1>9, <2>1 DEF ServiceTick, ServiceTypeOK, service
<1>10. CASE UNCHANGED service_vars
  BY <1>10 DEF service_vars, ServiceTypeOK
<1> QED
  BY <1>1, <1>2, <1>3, <1>4, <1>5, <1>6, <1>7, <1>8, <1>9, <1>10 DEF ServiceNext, Coap

(* Every variable keeps its type: an unknown position (-EINVAL) never      *)
(* becomes a request or a target.                                          *)
THEOREM ServiceTypeCorrect == ServiceSpec => []ServiceTypeOK
<1>1. ServiceInv => ServiceTypeOK
  BY DEF ServiceInv
<1> QED
  BY ServiceInvInit, ServiceInvNext, <1>1, PTL DEF ServiceSpec

-----------------------------------------------------------------------------
(* What the service thread holds, as long as nothing has been signalled    *)
(* since it took the semaphore.                                            *)

Held ==
  req_sem = 0 =>
    /\ srv_pc = "go" => val = get_val
    /\ srv_pc \in {"stopped", "save"} => motor_target = get_val /\ requests = STOP

SettledInv ==
  /\ ServiceInv /\ Settled /\ Held
  /\ requests = STOP => asked = STOP

LEMMA SettledInit == ServiceInit => SettledInv
  BY ServiceInvInit DEF ServiceInit, SettledInv, Settled, Held, get_val, Never

LEMMA SettledNext == SettledInv /\ [ServiceNext]_service_vars => SettledInv'
<1> SUFFICES ASSUME SettledInv, [ServiceNext]_service_vars PROVE SettledInv'
  OBVIOUS
<1> USE PositionValues DEF ServiceInv
<1>0. ServiceInv /\ ServiceInv'
  BY ServiceInvNext DEF SettledInv
<1>1. CASE ServiceThread
  <2>1. UNCHANGED <<overridden, request_age, prj_age, asked>>
    BY <1>1 DEF ServiceThread
  <2>2. CASE Take
    BY <1>0, <2>1, <2>2 DEF Take, SettledInv, Settled, Held, get_val
  <2>3. CASE GoTo
    BY <1>0, <2>1, <2>3 DEF GoTo, SettledInv, Settled, Held, get_val
  <2>4. CASE get_pos
    <3>1. /\ srv_pc = "stopped" /\ UNCHANGED <<requests, req_sem, motor_target>>
          /\ srv_pc' \in {"save", "wait"} /\ (srv_pc' = "save" => val' \in Positions)
      BY <2>4 DEF get_pos, Unknown
    <3> QED
      BY <1>0, <2>1, <3>1 DEF SettledInv, Settled, Held, get_val
  <2>5. CASE Save
    BY <1>0, <2>1, <2>5 DEF Save, SettledInv, Settled, Held, get_val
  <2> QED
    BY <1>1, <2>2, <2>3, <2>4, <2>5 DEF ServiceThread
<1>2. ASSUME req_sem' = 1, UNCHANGED <<srv_pc, val>>,
             requests' = STOP => asked' = STOP
      PROVE  SettledInv'
  BY <1>0, <1>2 DEF SettledInv, Settled, Held
<1>3. ASSUME UNCHANGED <<requests, asked, overridden, req_sem, srv_pc, val, motor_target>>,
             prj_age' < request_age' <=> prj_age < request_age
      PROVE  SettledInv'
  BY <1>0, <1>3 DEF SettledInv, Settled, Held, get_val
<1>4. CASE SwingThread
  <2>1. UNCHANGED <<requests, asked, request_age, prj_age, srv_pc, val, motor_target>>
    BY <1>4 DEF SwingThread, inputs, service
  <2>2. req_sem' = 1 \/ UNCHANGED <<overridden, req_sem>>
    BY <1>4 DEF SwingThread, SwingStart, SwingDown, SwingRelease, SwingAgain,
                override
  <2> QED
    BY <1>2, <1>3, <2>1, <2>2 DEF SettledInv
<1>5. ASSUME NEW p \in Positions \cup {STOP}, pos_srv_req(p) PROVE SettledInv'
  BY <1>2, <1>5 DEF pos_srv_req, service
<1>6. ASSUME NEW v \in Validities, PrjEnabled(v) PROVE SettledInv'
  <2>1. UNCHANGED <<requests, asked, request_age, overridden, srv_pc, val, motor_target>>
    BY <1>6 DEF PrjEnabled, inputs, service
  <2>2. req_sem' = 1 \/ UNCHANGED <<prj_age, req_sem>>
    BY <1>6 DEF PrjEnabled
  <2> QED
    BY <1>2, <1>3, <2>1, <2>2 DEF SettledInv
<1>7. CASE PrjDisabled \/ ProjectorTimeout
  BY <1>2, <1>7 DEF PrjDisabled, ProjectorTimeout, inputs, service, SettledInv
<1>8. CASE StartTimer \/ UNCHANGED service_vars
  BY <1>3, <1>8 DEF StartTimer, service_vars, inputs, service
<1>9. ASSUME NEW i \in Intervals, pos_swing_interval_set(i) PROVE SettledInv'
  BY <1>3, <1>9 DEF pos_swing_interval_set, inputs, service
<1>10. CASE ServiceTick
  <2>1. prj_age' < request_age' <=> prj_age < request_age
    BY <1>0, <1>10, AgedIsAge DEF ServiceTick, ServiceTypeOK
  <2> QED
    BY <1>3, <1>10, <2>1 DEF ServiceTick, service
<1> QED
  BY <1>1, <1>4, <1>5, <1>6, <1>7, <1>8, <1>9, <1>10 DEF ServiceNext, Coap

(* A waiting service has given the motor what override, projector and      *)
(* request add up to, or has stopped it.                                   *)
THEOREM SettledHolds == ServiceSpec => []Settled
<1>1. SettledInv => Settled
  BY DEF SettledInv
<1> QED
  BY SettledInit, SettledNext, <1>1, PTL DEF ServiceSpec

-----------------------------------------------------------------------------
(* The projector state. *)

LEMMA ExpiresNext ==
  ServiceTypeOK /\ ProjectorExpires /\ [ServiceNext]_service_vars => ProjectorExpires'
<1> SUFFICES ASSUME ServiceTypeOK, ProjectorExpires, [ServiceNext]_service_vars
             PROVE  ProjectorExpires'
  OBVIOUS
<1> USE DEF ProjectorExpires
<1>1. CASE ServiceThread \/ SwingThread \/ UNCHANGED service_vars
  BY <1>1 DEF ServiceThread, SwingThread, service_vars, timeouts
<1>2. ASSUME NEW p \in Positions \cup {STOP}, pos_srv_req(p)
      PROVE  ProjectorExpires'
  BY <1>2 DEF pos_srv_req, timeouts
<1>3. ASSUME NEW v \in Validities, PrjEnabled(v) PROVE ProjectorExpires'
  <2>1. v > 0
    BY PositionAssumption
  <2> QED
    BY <1>3, <2>1 DEF PrjEnabled
<1>4. CASE PrjDisabled \/ StartTimer \/ ProjectorTimeout
  BY <1>4 DEF PrjDisabled, StartTimer, ProjectorTimeout
<1>5. ASSUME NEW i \in Intervals, pos_swing_interval_set(i)
      PROVE  ProjectorExpires'
  BY <1>5 DEF pos_swing_interval_set, timeouts
<1>6. CASE ServiceTick
  BY <1>6, AgedIsAge DEF ServiceTick, ServiceTypeOK, Less
<1> QED
  BY <1>1, <1>2, <1>3, <1>4, <1>5, <1>6 DEF ServiceNext, Coap

(* An active projector state always has a timer that will end it.          *)
THEOREM ProjectorExpiresHolds == ServiceSpec => []ProjectorExpires
<1>1. ServiceInit => ProjectorExpires
  BY DEF ServiceInit, ProjectorExpires
<1>2. ServiceInv => ServiceTypeOK
  BY DEF ServiceInv
<1> QED
  BY ServiceInvInit, ServiceInvNext, <1>1, <1>2, ExpiresNext, PTL DEF ServiceSpec
=============================================================================
