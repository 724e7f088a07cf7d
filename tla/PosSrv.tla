------------------------------- MODULE PosSrv -------------------------------
(***************************************************************************)
(* The position service of a shade (shcnt/src/pos_srv.c) and the regular   *)
(* swing that overrides it (shcnt/src/pos_swing.c).  It merges three       *)
(* sources, the last request, an override and the projector state, into    *)
(* the target of the motor controller.                                     *)
(*                                                                         *)
(* CoAP (priority 2) preempts the service thread (priority 4) between any  *)
(* two of its accesses, and the timer with the work queue (-1) preempts    *)
(* both; the swing thread has priority 4 too and runs while the service    *)
(* thread is blocked.  The motor controller is what go_to() receives and   *)
(* what get_pos() answers.                                                 *)
(***************************************************************************)
EXTENDS Integers

CONSTANTS
  MAX, MIN,    \* MOT_CNT_MAX and MOT_CNT_MIN
  Middle,      \* the positions between them
  Validities,  \* validity times of projector notifications, in ticks
  SwingTime,   \* sleep of the swing in each direction, in ticks
  Intervals    \* provisioned swing intervals, 0: no swing

ASSUME PositionAssumption ==
  /\ MAX \in Nat /\ MIN \in Nat /\ Middle \subseteq Nat
  /\ Validities \subseteq Nat \ {0}
  /\ SwingTime \in Nat \ {0}
  /\ Intervals \subseteq Nat

STOP == -1                    \* MOT_CNT_STOP
Unknown == -22                \* get_pos() of an unknown position: -EINVAL
Positions == Middle \cup {MAX, MIN}
Never == 3                    \* a timestamp of 0, older than any other

VARIABLES
  requests, overridden, req_sem,
  request_age, prj_age,  \* how long ago, up to their order: see Aged
  prj_timer,    \* ticks left of projector_timers, 1: due, 0: not running
  coap,         \* 0, or the validity pos_srv_set_projector_state() has yet
                \* to start the timer with
  srv_pc, val,  \* the service thread, and the value it holds
  motor_target, \* the target the motor controller has been given last
  asked,        \* history: the last position asked for by pos_srv_req()
  notified,     \* history: the projector has been notified as active last
  swing, swing_timer, swing_sem, interval  \* the swing thread

service == <<srv_pc, val, motor_target>>
timeouts == <<prj_timer, coap, notified>>
inputs  == <<requests, request_age, asked>>
swinging == <<swing, swing_timer, swing_sem, interval>>
service_vars ==
  <<requests, overridden, req_sem, request_age, prj_age, prj_timer, coap, srv_pc, val,
    motor_target, asked, notified, swing, swing_timer, swing_sem, interval>>

ServiceInit ==
  /\ requests = STOP /\ overridden = STOP /\ req_sem = 0
  /\ request_age = Never /\ prj_age = Never
  /\ prj_timer = 0 /\ coap = 0 /\ notified = FALSE
  /\ srv_pc = "wait" /\ val = STOP /\ motor_target = STOP /\ asked = STOP
  /\ swing = "check" /\ swing_timer = 0 /\ swing_sem = 0
  /\ interval \in Intervals

-----------------------------------------------------------------------------
(* The service thread. *)

get_val ==
  IF overridden # STOP THEN overridden
  ELSE IF prj_age < request_age THEN MAX
  ELSE requests

Take ==
  /\ srv_pc = "wait" /\ req_sem = 1
  /\ req_sem' = 0
  /\ val' = get_val
  /\ srv_pc' = "go"
  /\ UNCHANGED <<requests, motor_target>>

GoTo ==
  /\ srv_pc = "go"
  /\ motor_target' = val
  /\ srv_pc' = IF requests = STOP THEN "stopped" ELSE "wait"
  /\ UNCHANGED <<requests, req_sem, val>>

get_pos ==   \* api->get_pos(): where the shade is, if it is known
  /\ srv_pc = "stopped"
  /\ \E i \in Positions \cup {Unknown} :
       /\ val' = i
       /\ srv_pc' = IF i >= 0 THEN "save" ELSE "wait"
  /\ UNCHANGED <<requests, req_sem, motor_target>>

Save ==      \* requests[id] = i
  /\ srv_pc = "save"
  /\ requests' = val
  /\ srv_pc' = "wait"
  /\ UNCHANGED <<req_sem, val, motor_target>>

ServiceThread ==
  /\ coap = 0
  /\ Take \/ GoTo \/ get_pos \/ Save
  /\ UNCHANGED <<overridden, request_age, prj_age, asked, timeouts, swinging>>

-----------------------------------------------------------------------------
(* CoAP handlers and the work queue. *)

pos_srv_req(p) ==
  /\ coap = 0
  /\ requests' = p /\ request_age' = 0 /\ asked' = p
  /\ req_sem' = 1
  /\ UNCHANGED <<overridden, prj_age, timeouts, service, swinging>>

MutElse(validity) ==   \* mutant of PrjEnabled: only a renewal starts the timer
  /\ coap = 0
  /\ notified' = TRUE
  /\ IF prj_age = Never
     THEN prj_age' = 0 /\ req_sem' = 1 /\ UNCHANGED coap
     ELSE coap' = validity /\ UNCHANGED <<prj_age, req_sem>>
  /\ UNCHANGED <<inputs, overridden, prj_timer, service, swinging>>

PrjEnabled(validity) ==   \* pos_srv_set_projector_state(id, true, validity)
  /\ coap = 0
  /\ coap' = validity /\ notified' = TRUE
  /\ IF prj_age = Never
     THEN prj_age' = 0 /\ req_sem' = 1
     ELSE UNCHANGED <<prj_age, req_sem>>
  /\ UNCHANGED <<inputs, overridden, prj_timer, service, swinging>>

StartTimer ==             \* its k_timer_start()
  /\ coap > 0
  /\ prj_timer' = coap
  /\ coap' = 0
  /\ UNCHANGED <<inputs, overridden, prj_age, req_sem, notified, service,
                 swinging>>

PrjDisabled ==            \* the timer goes on
  /\ coap = 0
  /\ prj_age' = Never /\ notified' = FALSE
  /\ req_sem' = 1
  /\ UNCHANGED <<inputs, overridden, prj_timer, coap, service, swinging>>

MutNoWakeup ==   \* mutant of ProjectorTimeout: the service is not woken up
  /\ prj_timer = 1
  /\ prj_timer' = 0
  /\ prj_age' = Never /\ notified' = FALSE
  /\ UNCHANGED <<inputs, overridden, req_sem, coap, service, swinging>>

ProjectorTimeout ==       \* timer_handler_prj() and work_handler_prj()
  /\ prj_timer = 1
  /\ prj_timer' = 0
  /\ prj_age' = Never /\ notified' = (coap > 0)
  /\ req_sem' = 1
  /\ UNCHANGED <<inputs, overridden, coap, service, swinging>>

-----------------------------------------------------------------------------
(* The swing thread: up, down and release, then wait for the interval. *)

override(p) == overridden' = p /\ req_sem' = 1

Sleeping(s, time) == swing' = s /\ swing_timer' = time

SwingStart ==
  /\ swing = "check"
  /\ \/ /\ interval > 0
        /\ override(MAX)
        /\ Sleeping("up", SwingTime)
     \/ /\ interval = 0
        /\ swing' = "off"
        /\ UNCHANGED <<overridden, req_sem, swing_timer>>
  /\ UNCHANGED swing_sem

SwingDown ==
  /\ swing = "up" /\ swing_timer = 0
  /\ override(MIN)
  /\ Sleeping("down", SwingTime)
  /\ UNCHANGED swing_sem

MutNoRelease ==   \* mutant of SwingRelease: the override stays
  /\ swing = "down" /\ swing_timer = 0
  /\ Sleeping("pause", interval)
  /\ UNCHANGED <<swing_sem, overridden, req_sem>>

SwingRelease ==   \* pos_srv_override_release(), and the wait
  /\ swing = "down" /\ swing_timer = 0
  /\ override(STOP)
  /\ Sleeping("pause", interval)
  /\ UNCHANGED swing_sem

SwingAgain ==
  /\ \/ swing = "pause" /\ (swing_sem = 1 \/ swing_timer = 0)
     \/ swing = "off" /\ swing_sem = 1
  /\ swing' = "check" /\ swing_timer' = 0 /\ swing_sem' = 0
  /\ UNCHANGED <<overridden, req_sem>>

SwingThread ==
  /\ srv_pc = "wait" /\ req_sem = 0 /\ coap = 0
  /\ SwingStart \/ SwingDown \/ SwingRelease \/ SwingAgain
  /\ UNCHANGED <<inputs, prj_age, timeouts, service, interval>>

pos_swing_interval_set(i) ==
  /\ coap = 0
  /\ interval' = i
  /\ swing_sem' = 1
  /\ UNCHANGED <<inputs, overridden, req_sem, prj_age, timeouts, service, swing,
                 swing_timer>>

-----------------------------------------------------------------------------
(* Time, while no thread is ready.  Of the timestamps only the order is    *)
(* kept: the older of two is 2 ticks old, the other one 1.                 *)

Aged(a, b) == IF a = Never THEN Never ELSE IF a > b THEN 2 ELSE 1
Less(t) == IF t > 0 THEN t - 1 ELSE 0

SwingReady ==
  \/ swing = "check"
  \/ swing \in {"up", "down", "pause"} /\ swing_timer = 0
  \/ swing \in {"pause", "off"} /\ swing_sem = 1

ServiceTick ==
  /\ srv_pc = "wait" /\ req_sem = 0 /\ coap = 0 /\ ~SwingReady /\ prj_timer # 1
  /\ request_age' = Aged(request_age, prj_age)
  /\ prj_age' = Aged(prj_age, request_age)
  /\ prj_timer' = Less(prj_timer)
  /\ swing_timer' = Less(swing_timer)
  /\ UNCHANGED <<requests, asked, overridden, req_sem, coap, notified, service,
                 swing, swing_sem, interval>>

Coap ==
  \/ \E p \in Positions \cup {STOP} : pos_srv_req(p)
  \/ \E v \in Validities : PrjEnabled(v)
  \/ PrjDisabled
  \/ \E i \in Intervals : pos_swing_interval_set(i)

ServiceNext ==
  \/ ServiceThread \/ SwingThread
  \/ Coap \/ StartTimer
  \/ ProjectorTimeout
  \/ ServiceTick

ServiceSpec == ServiceInit /\ [][ServiceNext]_service_vars

(* Ready threads run, a handler ends, a timer expires, time passes. *)
ServiceFairness ==
  /\ WF_service_vars(ServiceThread) /\ WF_service_vars(SwingThread)
  /\ WF_service_vars(StartTimer) /\ WF_service_vars(ProjectorTimeout)
  /\ WF_service_vars(ServiceTick)

FairServiceSpec == ServiceSpec /\ ServiceFairness

-----------------------------------------------------------------------------
(* Properties. *)

ServiceTypeOK ==
  /\ requests \in Positions \cup {STOP} /\ asked \in Positions \cup {STOP}
  /\ overridden \in {STOP, MAX, MIN}
  /\ req_sem \in {0, 1} /\ swing_sem \in {0, 1}
  /\ request_age \in 0..Never /\ prj_age \in 0..Never
  /\ prj_timer \in Nat /\ coap \in Validities \cup {0} /\ notified \in BOOLEAN
  /\ srv_pc \in {"wait", "go", "stopped", "save"}
  /\ val \in Positions \cup {STOP, Unknown}
  /\ motor_target \in Positions \cup {STOP}
  /\ swing \in {"check", "up", "down", "pause", "off"}
  /\ swing_timer \in Nat /\ interval \in Intervals

(* While the service thread waits with nothing signalled, the motor has    *)
(* the target that overrides, projector and request add up to; a request   *)
(* to stop is the exception: its target is STOP, and the position it has   *)
(* stopped at has become the request ("save current position if requested  *)
(* stop").                                                                 *)
Settled ==
  srv_pc = "wait" /\ req_sem = 0 =>
    \/ motor_target = get_val
    \/ motor_target = STOP /\ asked = STOP /\ get_val = requests

(* A projector that is not renewed is over: whenever it counts as active,  *)
(* its timer runs, or is about to be started.                              *)
ProjectorExpires == prj_age # Never => prj_timer > 0 \/ coap > 0

(* What was asked for last is the request, unless it was to stop: saving   *)
(* the position of a stop ("save current position if requested stop") does *)
(* not replace a position that was asked for.  Not an invariant: a request *)
(* that comes while the position is being saved is overwritten by it.      *)
NoLostRequest == asked # STOP => requests = asked

(* A projector that has been notified counts as active for as long as the  *)
(* notification is valid ("close shades if projector is active").  Not an  *)
(* invariant: a renewal is lost when the timer expires in the middle of it.*)
ProjectorActive == notified /\ coap = 0 => prj_age # Never

(* Once requests, notifications and the swing end, the shade goes where it *)
(* has been asked to before them: overrides are released and the projector *)
(* is forgotten, although its last notification is lost.                   *)
Restores ==
  <>[][~Coap]_service_vars /\ <>[](interval = 0) =>
    <>[](/\ overridden = STOP /\ prj_age = Never
         /\ motor_target = requests \/ (motor_target = STOP /\ asked = STOP))
=============================================================================
