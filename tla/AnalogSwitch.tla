---------------------------- MODULE AnalogSwitch ----------------------------
(***************************************************************************)
(* The analog inputs of the wall switch (switch/src/analog_switch.c) and   *)
(* the status LED that they may use (led.c).  A thread (priority 4)        *)
(* averages samples and compares the averages of windows.  A change is a   *)
(* press.  The servers (2) configure the inputs and read the counter of    *)
(* presses between any two accesses of the thread, and take the LED away   *)
(* from the heartbeat thread (5) and give it back.                         *)
(*                                                                         *)
(* One of the two inputs is modelled, of the other its use of the LED.     *)
(* What the LED shows is not kept.  A failing ADC is a step that changes   *)
(* nothing.                                                                *)
(***************************************************************************)
EXTENDS Integers

CONSTANTS
  Levels,              \* what the ADC reads
  AVG_FACTOR,          \* 8
  AVG_CUTOFF_FACTOR,   \* 8
  UINT32_MAX,          \* 2^32 - 1
  INT_MAX, UINT16_MAX, UINT8_MAX,
  Default,             \* det_iters 40, det_threshold 24, debounce_cnt 3
  Configs,             \* what clients send to adc/config
  Thresholds,          \* what they provision; 0: none
  ABSENT               \* left out

Config == [iters : 0..UINT16_MAX, threshold : Nat, debounce : 0..UINT8_MAX]

(* Levels are low enough for 32 bits; values are sent as numbers. *)
ASSUME AnalogAssumption ==
  /\ {UINT32_MAX, INT_MAX, UINT16_MAX, UINT8_MAX} \cup Levels \cup Thresholds \subseteq Nat
  /\ AVG_CUTOFF_FACTOR \in Nat \ {0}
  /\ \A l \in Levels : l * AVG_CUTOFF_FACTOR < UINT32_MAX
  /\ Default \in Config
  /\ LET Sent == Nat \cup {ABSENT} IN
     Configs \subseteq [iters : Sent, threshold : Sent, debounce : Sent]

divider == 2^AVG_FACTOR

(* A power of two; the provers do not know exponentiation. *)
ASSUME DividerAssumption == divider \in Nat \ {0}

Change == {"NONE", "INC", "DEC"}

VARIABLES
  level,            \* of the input
  cfg,              \* det_iters, det_threshold and debounce_cnt
  avg, prev_avg, samples, debouncing, last_change,
  pc,               \* of the thread: "off", "read", "store" while it counts
  loaded,           \* what it has read of events
  events,
  seen,             \* presses since events was read, or 0:
  wrapped,          \* there have been more since than events can count
  analog_control,
  led_ctrl_sem,
  hb                \* where the heartbeat thread is

detector == <<avg, prev_avg, samples, debouncing, last_change>>
counter  == <<loaded, events, seen, wrapped>>
led      == <<analog_control, led_ctrl_sem, hb>>
analog_vars == <<level, cfg, detector, pc, counter, led>>

AnalogInit ==
  /\ level \in Levels
  /\ cfg = Default
  /\ avg = UINT32_MAX /\ prev_avg = UINT32_MAX
  /\ samples = 0 /\ debouncing = 0 /\ last_change = "NONE"
  /\ pc = "off" /\ loaded = 0 /\ events = 0 /\ seen = 0 /\ wrapped = FALSE
  /\ analog_control = FALSE /\ led_ctrl_sem = 0 /\ hb = "beat"

-----------------------------------------------------------------------------
(* The thread. *)

(* Samples far above the average are taken for disturbances.               *)
Average(a, sample) ==
  IF a = UINT32_MAX THEN sample
  ELSE IF sample > a * AVG_CUTOFF_FACTOR THEN a
  ELSE ((divider - 1) * a + sample) \div divider

Rises(a, p) == a > p + cfg.threshold /\ last_change # "INC"
Changed(a, p) == IF Rises(a, p) THEN "INC" ELSE last_change

MutFalls(a, p) ==   \* mutant of Falls: the difference is signed
  a < p - cfg.threshold /\ Changed(a, p) # "DEC"

MutAgain(a, p) ==   \* mutant of Falls: darkness is a change every time
  a < (p - cfg.threshold) % (UINT32_MAX + 1)

(* The difference is unsigned: below the threshold everything has fallen,  *)
(* also what has just risen.                                               *)
Falls(a, p) ==
  a < (p - cfg.threshold) % (UINT32_MAX + 1) /\ Changed(a, p) # "DEC"

Detect(a, p) ==
  /\ debouncing = 0 /\ (Rises(a, p) \/ Falls(a, p))
  /\ last_change' = IF Falls(a, p) THEN "DEC" ELSE "INC"
  /\ prev_avg' = p
  /\ pc' = "store" /\ loaded' = events
  /\ UNCHANGED debouncing

Steady(a, p) ==
  /\ debouncing > 0 \/ ~(Rises(a, p) \/ Falls(a, p))
  /\ debouncing' = IF debouncing > 0 THEN debouncing - 1 ELSE 0
  /\ prev_avg' = a
  /\ UNCHANGED <<last_change, pc, loaded>>

Sample ==
  LET a == Average(avg, level)
      p == IF prev_avg = UINT32_MAX THEN a ELSE prev_avg
  IN /\ pc = "read"
     /\ avg' = a
     /\ \/ /\ samples + 1 < cfg.iters
           /\ samples' = samples + 1 /\ prev_avg' = p
           /\ UNCHANGED <<debouncing, last_change, pc, loaded>>
        \/ samples + 1 >= cfg.iters /\ samples' = 0 /\ (Detect(a, p) \/ Steady(a, p))
     /\ UNCHANGED <<level, cfg, events, seen, wrapped, led>>

(* events is written back, whatever the servers have done to it meanwhile. *)
Store ==
  /\ pc = "store"
  /\ events' = (loaded + 1) % (UINT16_MAX + 1)
  /\ wrapped' = (wrapped \/ loaded = UINT16_MAX)
  /\ seen' = IF wrapped' THEN 0 ELSE seen + 1
  /\ debouncing' = cfg.debounce /\ prev_avg' = avg
  /\ pc' = "read" /\ loaded' = 0
  /\ UNCHANGED <<level, cfg, avg, samples, last_change, led>>

-----------------------------------------------------------------------------
(* The LED. *)

HbTest ==
  /\ hb \in {"beat", "test"}
  /\ hb' = IF analog_control THEN "take" ELSE "beat"
  /\ UNCHANGED <<analog_control, led_ctrl_sem>>

HbTake ==
  /\ hb = "take"
  /\ hb' = IF led_ctrl_sem = 1 THEN "test" ELSE "wait"
  /\ led_ctrl_sem' = 0
  /\ UNCHANGED analog_control

Heartbeat == (HbTest \/ HbTake) /\ UNCHANGED <<level, cfg, detector, pc, counter>>

MutRelease ==   \* mutant of led_release_analog_control: only a waiting thread
  /\ analog_control' = FALSE
  /\ hb' = IF hb = "wait" THEN "test" ELSE hb
  /\ UNCHANGED led_ctrl_sem

led_release_analog_control ==
  /\ analog_control' = FALSE
  /\ IF hb = "wait"
     THEN hb' = "test" /\ UNCHANGED led_ctrl_sem
     ELSE led_ctrl_sem' = 1 /\ UNCHANGED hb

led_take_analog_control ==
  analog_control' = TRUE /\ UNCHANGED <<led_ctrl_sem, hb>>

UseLed(use) ==
  IF use THEN led_take_analog_control ELSE led_release_analog_control

-----------------------------------------------------------------------------
(* The servers. *)

MutSetConfig(c, use) ==   \* mutant of set_config: counting starts again
  /\ cfg' = [iters |-> c.iters % (UINT16_MAX + 1), threshold |-> c.threshold,
             debounce |-> c.debounce % (UINT8_MAX + 1)]
  /\ UseLed(use)
  /\ events' = 0
  /\ UNCHANGED <<level, detector, pc, loaded, seen, wrapped>>

set_config(c, use) ==
  /\ cfg' = [iters |-> c.iters % (UINT16_MAX + 1), threshold |-> c.threshold,
             debounce |-> c.debounce % (UINT8_MAX + 1)]
  /\ UseLed(use)
  /\ UNCHANGED <<level, detector, pc, counter>>

(* The threshold is looked at twice, and debouncing never.                 *)
Valid(c) ==
  /\ ABSENT \notin {c.iters, c.threshold, c.debounce}
  /\ c.iters =< INT_MAX /\ c.threshold =< UINT8_MAX

(* For this input, or for both; for the other one.                         *)
adc_config_post(c, use) == Valid(c) /\ set_config(c, use)
ConfigOther(use) == UseLed(use) /\ UNCHANGED <<level, cfg, detector, pc, counter>>

(* A thread that runs cannot be started again.                             *)
enable == pc' = IF pc = "off" THEN "read" ELSE pc

adc_enable_post == enable /\ UNCHANGED <<level, cfg, detector, counter, led>>

set_threshold(t) == t # 0 /\ set_config([cfg EXCEPT !.threshold = t], FALSE)

(* The counter is read and reset. *)
get_events == events' = 0 /\ seen' = 0 /\ wrapped' = FALSE

adc_avg_get == get_events /\ UNCHANGED <<level, cfg, detector, pc, loaded, led>>

Server ==
  \/ \E c \in Configs, use \in BOOLEAN : adc_config_post(c, use)
  \/ \E use \in BOOLEAN : ConfigOther(use)
  \/ adc_enable_post \/ adc_avg_get
  \/ \E t \in Thresholds : set_threshold(t)

-----------------------------------------------------------------------------
Light == level' \in Levels /\ UNCHANGED <<cfg, detector, pc, counter, led>>

AnalogNext == Sample \/ Store \/ Heartbeat \/ Server \/ Light

AnalogSpec == AnalogInit /\ [][AnalogNext]_analog_vars /\ WF_analog_vars(Sample \/ Store)

-----------------------------------------------------------------------------
AnalogTypeOK ==
  /\ level \in Levels
  /\ cfg \in Config
  /\ {avg, prev_avg} \subseteq 0..UINT32_MAX
  /\ samples \in Nat /\ debouncing \in 0..UINT8_MAX /\ last_change \in Change
  /\ pc \in {"off", "read", "store"}
  /\ {loaded, events} \subseteq 0..UINT16_MAX /\ seen \in Nat /\ wrapped \in BOOLEAN
  /\ analog_control \in BOOLEAN /\ led_ctrl_sem \in {0, 1}
  /\ hb \in {"beat", "test", "take", "wait"}

(* The average, which feeds back for ever and is rounded down each time,   *)
(* stays between levels that the input can have.  Hence the product with   *)
(* the cutoff fits in 32 bits, and once there is an average it is never    *)
(* taken for UINT32_MAX, which stands for none.                            *)
AverageIsMean ==
  avg # UINT32_MAX => \E lo, hi \in Levels : lo =< avg /\ avg =< hi

(* No press is missing in events, although it is counted and reset without *)
(* a lock, until it wraps around: then it counts from 0, and all of them   *)
(* are missing.  Some may be there twice: a reset between the two accesses *)
(* of the thread is undone.                                                *)
AllReported == wrapped \/ seen =< events

(* The heartbeat thread waits only for an LED that is in use.              *)
HeartbeatKept == hb = "wait" => analog_control

(* Darkness is seen, however slowly it has come, and even if it has always *)
(* been dark.                                                              *)
DarkIsSeen ==
  (<>[](level < cfg.threshold) /\ <>(pc # "off")) => <>[](last_change = "DEC")

(* While the light stays as it is there are no presses, with any           *)
(* configuration.                                                          *)
SteadyIsQuiet == <>[][level' = level]_level => <>[](pc # "store")
=============================================================================
