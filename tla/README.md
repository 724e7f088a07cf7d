# A TLA+ model of the zathome firmware

zathome is the firmware of a home automation system: seven kinds of devices on
an IPv6 mesh network (OpenThread), all of them Zephyr applications written in C,
that talk CoAP to each other.  This directory holds TLA+ modules that model its
control logic, TLC configurations that check them on small instances, and
TLAPS proofs of what matters most.  Paths in this file are relative to the
repository (`src/` in PROJECT.json is the repository's root).

## 1. Inventory

Every device is a single-core, priority-preemptive system.  A thread keeps the
CPU until it blocks or a thread of higher priority becomes ready.  The
priorities, lower runs first: OpenThread (cooperative), the system work queue
(-1), led animation, main and notification output (0), motor controller,
display-UART and remote output (1), the CoAP servers (2), position service and
swing (4), service discovery and switch (5), sensors (14).  Timers expire in
interrupts and submit work to the work queue.

### lib/, shared by the devices

| Component | State | Operations, and who calls them | What is hard | What makes it correct |
|---|---|---|---|---|
| `continuous_sd.c` service discovery | table of `<name, type>` with address, missed count, two timestamps; `wait_sem` | `register`, `unregister`, `unregister_all`, `get_addr` by provisioning and by clients; one thread that retries and times out; `service_found` callback from `coap_sd.c` | the thread chooses an entry with the mutex held and uses it after a wait without it; lost requests and answers | addresses are those of services that answer, no wakeup is lost, everybody is asked, dead services are forgotten |
| `coap_sd.c` discovery over CoAP | list of served resources; per-request socket | server callback `/sd`, client `coap_sd_start` | multicast, late and foreign answers | a filtered request is answered by matching resources only |
| `coap_server.c` | two server threads (CoAP, CoAPS), receive and send buffers; `fwd_interface` of the external callback | dispatch to resources, block-wise replies, non-confirmable setters | `user_data` of the resources is one static variable shared by both threads | the reply goes to the socket the request came from |
| `coap_fota.c`, `dfu_utils.c` | state of the download, 2 booleans that say whether the SED poll period is changed | POST starts the download, the callback ends it | a second POST during a download; failure between the two ends | the poll period is restored exactly once per download |
| `ot_sed.c` | `fast_poll_cnt`, `med_cnt` | nested enter/exit of fast polling and of the MED mode | two threads count without a lock | the radio polls slowly exactly when nobody needs it fast |
| `relay.c` | a GPIO | on, off | | |
| `cbor_utils.c`, `coap_reboot.c` | none | CBOR field extraction, reboot | | |

### shcnt, the shades controller

| Component | State | Operations, and who calls them | What is hard | What makes it correct |
|---|---|---|---|---|
| `mot_cnt.c` motor controller (one per shade) | direction, target, semaphore, dead-reckoned position with its uncertainty | `go_to`, `min`, `max`, `stop`, `set_run_time`, `get_pos`; one thread that switches two relays with pauses | requests during ten different sleeps; position known only by the time the motor has run | the direction is never reversed under power; every movement ends; the last request is served; the position is right |
| `pos_srv.c` position service | request, override, projector state with its timer and timestamps | `req` and `set_projector_state` by CoAP, `override` by swing; timer and work | CoAP and the work queue preempt the service thread between its accesses | the motor gets what request, override and projector add up to; nothing asked for is lost |
| `pos_swing.c` | phase of the swing | thread, woken by provisioning | releases its override in the end | |
| `prov.c`, `coap.c`, `main.c` | settings; resources | load, store, set; CoAP handlers | settings applied while the motor runs | |

### temp_tscrn, the thermostat with touch screen

| Component | State | Operations | What is hard | What makes it correct |
|---|---|---|---|---|
| `data_dispatcher.c` | last value of each kind of data and location; subscriptions | `publish`, `subscribe`, `get` from every thread | callbacks run in the thread of the publisher; no lock around the stored value; lists are linked through nodes of the subscribers | subscribers are called, and see the last value |
| `ctlr.c` controllers (on-off, PID) | forced switching with its deadline, integral and hysteresis per output | a thread woken every cycle and by new data | mode, setting and projector change between two cycles | output follows the mode; anti-sticking switching is bounded |
| `output.c` | relay states, PWM thread | outputs on, off, PWM | PWM thread toggles while the mode changes | a relay that is off in its mode is off |
| `prj_timeout.c` | validity per location | sensor data, timers | renewal races expiry | projector ends when not renewed |
| `rmt_out.c`, `light_conn.c`, `vent_conn.c`, `shades_conn.c` | socket, last value, retry period | threads that send a value, await acknowledgement, retry | semaphore of new data against timeout; stale values | the last value is delivered eventually |
| `display.c`, `sensor.c`, `ntc.c`, `prov.c`, `coap.c` | screen, ADC, settings, resources | user input, sampling, handlers | | |

### The other devices

| Component | State | What is hard | What makes it correct |
|---|---|---|---|
| prjcnt `notification.c`, `pwr_det.c`, `prov.c` (projector detector) | projector state, targets, paused flag | targets change while the output thread walks them; state changes during a round | every target hears of every state within the interval |
| rgbw `led_ctlr.c`, `led.c`, `preset.c`, `data_dispatcher.c` (LED strip) | auto, manual and dimming values with timers and timestamps; animation | timers and work preempt the CoAP handlers | the LEDs show the newest valid source |
| switch `switch.c`, `coap_req.c`, `prov.c` (wall switch) | a semaphore per input, the series of toggles, labels in RAM and flash | presses during a request; two servers that provision while the thread sends | labels, flash and table agree; whoever keeps pressing reaches the device |
| switch `analog_switch.c`, `led.c` | detector of level changes, counter of presses, who owns the LED | the counter is read and reset while the thread counts; narrow integers; noise and darkness | no press is lost while the counter lasts, a constant level is not a press |
| accnt `duart.c` (air conditioner) | ring of received frames, a binary semaphore | a receiver above two readers, no lock; a full ring | the ring is a queue, nobody sleeps while there is something to read |
| accnt `ds21.c`, `coap.c` | none but `ready`; the position of each dialogue is the stack of a thread | answers do not name their question; two servers and the initialisation talk at a time; lost and late frames | a client is told of its own dialogue; a POST changes only what it names |
| vlvts | a circuit board only | | |

## 2. Plan

The shades controller and service discovery came first: they are the most
concurrent parts, the others depend on discovery, and shades move real motors.

Done, each with its run:

1. `MotCnt` with `MotorRelays` as its abstract specification.
2. `ContinuousSD` with `DiscoveryCache` as its abstract specification.
3. `PosSrv`: position service and swing.
4. `HeatCtlr`: dispatcher, controllers, output and projector timeout of the thermostat.
5. `LedCtlr`: priorities of the LED strip, its animation and handlers.
6. `Notification`: projector detector, its provisioning and restarts.
7. `RequestClient`: the clients of lights, ventilation and shades in the thermostat.
8. `Duart` with `FrameQueue` as its abstract specification, and `AirCond`, the
   dialogues with the air conditioner, composed with `FrameQueue`.
9. `Switch`: the requests of the wall switch and its provisioning.
10. `AnalogSwitch`: its analog inputs and the LED they share.

All ten have proofs.  Left, in this order:

11. `CoapFota`: `ot_sed.c` and `coap_fota.c`: the radio is on exactly while a
    download goes on, whatever fails.
12. `RemoteOutput`: `rmt_out.c` of the thermostat: its label is provisioned
    anew while the thread uses it.
13. `Shade`, `PosSrv` composed with `MotCnt` (the interface of the second is the
    environment of the first), and `ProjectorSystem`, `Notification` with
    `PosSrv` end to end.

A component has one run, with its safety and its liveness properties under the
same fairness.  Every safety property of a run that passes is proved.  What is
left to prove comes with 11 to 13: that a download ends with the radio off, that
a label of `RemoteOutput` is not read while it is written, and that the two parts
of a shade agree on the target.  Liveness stays with TLC.

## 3. Modules

In every model a thread is a program counter, and an action is what it does
between two points where something that matters to it can intervene: between
two blocking calls when no thread above it shares its data, between two
accesses when one does.  Each module says at its top which case it is.

### `MotCnt`, `MotorRelays`

`MotCnt` models `shcnt/src/mot_cnt.c`: one thread that serves requests (priority
1) and callers of lower priorities, so the code between two blocking calls is
one action; `pc` names the call the thread blocks in and `timer` what is left
of it.  `go_to()` is two steps, the target and the semaphore.  `run_time`,
`known_loc`, `loc_uncert`, `dir`, `target` and the extreme position are the
fields of `struct mot_data`; `phys` is where the shade really is.  Time is
discrete.  `MotorRelays` is what the electrician needs: the direction relay
moves only while the power relay is open.  `MotCnt` implements it with the
relays mapped to themselves.

### `ContinuousSD`, `DiscoveryCache`

`ContinuousSD` models the table of `lib/continuous_sd.c`, its thread and its
users, and the client of `lib/coap_sd.c`.  A section under the mutex is an
action; the choice of an entry (`Evaluate`), the wait, and what is done to that
entry (`Expire`, `StartDiscovery`) are separate, as in the code.  Timestamps are
ages.  `DiscoveryCache` is the promise: a key maps to the address of a service
that matches it, or to none.  The refinement maps the table to that function.
A key is the value of a name and a type when they are registered.  The code keeps
pointers to them, which provisioning overwrites in place: then the table may hold a
name twice, and an entry another name than the one it was found by.  The promise of
`DiscoveryCache` is therefore one to users that leave their names alone; those that
do not are modelled with indices of labels in `Notification` and `Switch`.
`Cache!Expire` is always allowed: that the *right* entry expires is `NoStaleAddress`
as long as the thread waits, while a discovery lasts an address may be older.  The
client compares as much of a name as it has received; names that are the beginning
of another one are left out.

### `PosSrv`

Models `pos_srv.c` and `pos_swing.c`.  The service thread (priority 4) is
modelled access by access, for CoAP (2) and the work queue (-1) preempt it; the
handlers of CoAP are preempted by the work queue only, so they are one step
except where the timer that they start matters.  The interval of the swing, which
provisioning sets before it writes to the flash and signals after that, is one
step.  `asked` and `notified` are history variables.

### `HeatCtlr`

Models the heating of one location of the thermostat: the store and its
publications (`data_dispatcher.c`), both controllers (`ctlr.c`), relay output,
PWM thread and forced switching (`output.c`), `prj_timeout.c`, and the CoAP
handlers that publish.  The CoAP thread (2) and the sensor thread (14) go
access by access.  The turns of the work queue, the touch thread, the PWM and
the PID thread are one step each: they run above those two, and what can
preempt *them* only ends a projector state or a forced switching, which they
read once.  Sleeps and timers end at any time, so no property depends on their
length.  The full output is scaled to `OUT_MAX = 2`; the integers of the PID are
unbounded.  The model starts when `main()` has initialised everything and the
thread of the display has subscribed.  Who is called is what the lists of the
dispatcher are after that: `ctlr_init` and `display_thread` subscribe node by node,
as the code does, and the display's one node is on two lists, which cuts one of them
off (section 7).  Subscribers that only draw are not called.

### `LedCtlr`

Models `led_ctlr.c`, the animation of `led.c`, and the handlers of `coap.c` and
`preset.c`.  The CoAP thread goes access by access (the two timers' work and
the animation preempt it).  A setting is a function from LEDs to brightness; a POST
names some LEDs and takes the others from `led_get`, that is, from what the LEDs are
set to at that moment, and `led_anim` sets one LED after the other.  Structures
(`led_get` with its four reads among them) and 64-bit timestamps are copied in one
step.  Of the timestamps only the order is kept, renormalised by `Aged`, so the
model needs no bound on time.  `raced` remembers that a timer's work has come
between the choice of a source and its use.

### `Notification`

Models the projector detector: the interrupt, the provisioning of labels with
the flash and restarts at any point, the two tables, discovery reduced to what
it does to an entry, and the output thread.  Threads go access by access.
Labels are overwritten in place, so targets and entries hold the *index* of a
label, not its value.  One request is provisioned at a time, and writing to the
flash does not fail (`prov.c:157` ignores it when it does).

### `RequestClient`

Models the two threads of each of `light_conn.c`, `vent_conn.c` and
`shades_conn.c`: an *out* thread that sends what the user asks for, and a
*state* thread that polls what the display shows.  The six have the same loop
(wait, item, address, send, receive or time out) and differ in where they read
the item and the value; `client`, chosen in `Init`, says which one is modelled.
The touch thread (0) preempts them (1) at any access; `Request`,
`enable_polling` and `disable_polling` are what its handlers in `display.c` call.
Requests and answers are sets: what is in one may be lost, wait and overtake;
a request may be served more than once.  `pending` is a history variable.

### `Duart`, `FrameQueue`

`Duart` models the receiver of `accnt/src/duart.c`: a thread (priority 1) that
takes bytes apart into frames in a ring, and the servers (2) that read it.  The
receiver goes between any two accesses of a reader; the readers have no time
slice and take turns where they wait.  The semaphore is binary: it is given once
however many frames arrive.  The sizes of the ring, of frames and of the payload
are constants; of a payload the first byte is kept.  `FrameQueue` is what its
users need: a bounded queue, frames are taken in the order in which they
arrived, and those that find it full are lost.  The refinement reads the frames
between the two indexes, less the one that a reader has copied already.

### `AirCond`

Models `accnt/src/ds21.c` and the handlers of `coap.c` on top of `FrameQueue`,
with the air conditioner and the line: frames may be lost or late in both
directions.  `thread` says for each server and for main how far its dialogue
is: a frame is sent, its acknowledgement and then its data are waited for
(`tx`, `ack`, `data`), and what is done with the answer is decided by the
`stage` of the handler.  A POST is two dialogues, one that asks for the state and
one that sends it back with what the client wants.  The unit of the air
conditioner is converted as the code does it: a target, which is not validated, is
cut to 16 bits, and `dc_to_f` truncates towards zero and cuts to a byte.  There and
back is the same from 0 degrees on and for targets up to 113.6; `OnlyAsked` says so,
and section 7 what happens beyond.  Raw frames do not look at `ready` in the code;
clients are taken to send them only once it is set.
`calm` is a history variable: nothing has been lost, late or overlapped since
everything was at rest.  `took` is another one: the air conditioner has taken the frame
of this dialogue.  The requests that main serves *while* it initialises are left
out: they let main preempt a server between the copy of a frame and the next
index.

### `Switch`

Models `switch.c`, `coap_req.c`, and the provisioning in `prov.c` and `coap.c` of the
wall switch.  Two servers may provision at the same time and are interrupted
where they wait: for the lock of the settings, the flash and the mutex of the
table.  Labels are overwritten in place while the table and the sending
thread point to them.  The device may restart at any time.  The thread of the
first label is modelled: the wait for a press, the address, the request, the
series of presses that follow each other.  Of the labels those of outputs are
kept, all of the same length (`strlen` is evaluated before the lock is taken, and
`Add` is one step with the registration after it).  Writing to the flash does not
fail and is one step; the two labels of the device's own resources, which the code
saves first, are left out.

### `AnalogSwitch`

Models `analog_switch.c`, `adc_config_post`, `adc_enable_post` and `adc_avg_get`
of `coap.c`, and the ownership of the LED in `led.c`.  The
thread (priority 4) is preempted by the servers (2) at any access; its increment of
`events` is a read and a write.  Integers keep their widths, which are constants:
averages have 32 bits, `events` and the windows 16, debouncing 8.  `events` wraps
around as it does in the code.  The other input is there by its use of the LED only.
`seen` and `wrapped` are history variables: the presses since the last answer, and
that the counter has wrapped around since; then nothing is said of it until it is
read again.

## 4. Runs

| Run | What it shows | Bounds, and why they are enough |
|---|---|---|
| `motcnt` | A provisioned shade: relays obey the interlock, the motor moves as `dir` says, movements end, the position drifts by less than a unit per movement, the last request is served | 5 positions; a full swing of 6 ticks, three times `RELAY_DELAY`, so that movements shorter and longer than the pauses occur, and none of exactly that length: it would not end, see section 7; `loc_uncert` saturates at 2; elapsed time stops at 9, beyond a full swing |
| `continuous_sd` | The table implements the cache, no wakeup is lost, no address is older than its timeout while the thread waits, everybody is asked and found | one key more than entries, one of them without a type, one that nobody answers; ages stop at 5, beyond every interval |
| `pos_srv` | The motor gets what the inputs add up to; the projector expires; the shade returns | both ends and one position between; two validities, so that a renewal may be shorter or longer than what is left |
| `heat` | Nothing gets stuck; with on-off control each setting that is posted regulates, and PWM heeds the projector, whatever races have left behind | temperatures below, inside and above the hysteresis and an error value; two settings; no forced switches or 2, so that both parities of what is left occur |
| `led` | The newest valid source is shown; the manual setting ends; no wakeup of the animation is lost | two LEDs, so that one may be set and the other not, and a POST may name one of them; one brightness besides 0, and one that is refused; both an automatic and a manual setting change |
| `notification` | One target for each label after requests and restarts, no address of another device, devices are informed | 2 outputs and 2 labels: outputs may be empty, equal, swapped, renamed |
| `request_client` | No request is forgotten, each is sent or dropped in the end even if no device answers, the open screen shows the devices when nothing changes | 2 items, so that one may be missing or late for the other; 2 attempts; 2 messages in the network, so that an old answer meets a new request; one item moves (`Moving`) |
| `duart` | The ring implements the queue; nobody sleeps while a frame waits | 4 slots as in the code; frames of 2 bytes, so that short, full and too long ones occur; 2 readers |
| `aircond` | From 0 degrees on, a POST changes what it names only; a client hears the truth; handlers return; the air conditioner is found | 3 slots; one request of each kind; a target between two of the air conditioner's; 2 frames on the line in each direction, 2 dialogues until all is at rest (`MaxLine`, `MaxDialogues`), so that two servers overlap and a late answer meets the next dialogue.  What these bounds stop is not a deadlock of the system: `CHECK_DEADLOCK FALSE` |
| `analog` | No press is forgotten unless the counter wraps around, the heartbeat keeps the LED, darkness is seen, a constant level is no press | levels of darkness, of noise and of light; windows of 2 samples, configurations that truncate to 1 sample and to 1 window, and one that is refused for each reason; averages of 8 bits; `UINT16_MAX` is 4, so that the fifth press wraps around, `UINT8_MAX` 3 and `INT_MAX` 6, in the same order as the real ones |
| `switch` | What is used is stored and searched for once nobody provisions; no address of another device; pressing reaches the device | 2 outputs and 2 labels as in `notification`; 2 servers; a series of one toggle |
| `heat_onoff_projector` | The finding of section 7 | as `heat`, on-off control only |

The numbers of states go from thousands to 1 200 000.  `motcnt` uses one run
time; the theorems hold for all.

## 5. Fairness

- Threads: weak fairness on the steps of each.  The scheduler runs a ready
  thread when those above it block, and every thread of this code blocks.
- Time and timers: weak fairness on `Tick` where time is modelled, else on the
  expiry.  In `HeatCtlr` there is none on `ProjectorTimeout`: renewals postpone
  it for ever, and no liveness property needs it.
- Network: strong fairness on *one* answer and on *one* delivery.  Messages are
  lost, and one that is sent again and again is not always lost.  `Sent` of
  `ContinuousSD` (the network stack accepts the request) is of the same kind.
  In `RequestClient` sending, serving and answering are strongly fair for each
  item that is polled; an out thread needs none of it.  `Shown` assumes, for the
  shades, that answers come within the timeout in the end (`Prompt`).
- The air conditioner: a thread that waits is served by an answer or its
  timeout; for a server this is strongly fair, for others may be served first.
  The air conditioner takes a frame, and the line delivers one, if there is one
  again and again (strong fairness): that is how `GetsReady` gets an answer
  through.  `AnalogSwitch`: the thread samples and stores.  `Switch`: the
  thread runs, devices are found, and of requests sent for ever one arrives.
- The servers of `Switch` and `AnalogSwitch`, users, sensors, the projector,
  downloads and restarts have none.  Liveness properties say *once they stop*, in
  the form `<>[][~Disturbance]_vars => ...`.

## 6. Proofs

The proofs are in `*_proofs.tla`.  They hold for all constants that satisfy the
named assumptions of the modules: sizes are positive, intervals divide one
another as in the Kconfig defaults, and null values are not values.

| Module | Theorems | Argument |
|---|---|---|
| `MotCnt_proofs` | `TypeCorrect`, `MovesAsBelievedHolds`, `DefaultDirectionHolds`, `InterlockHolds`, `KnownMovementEndsHolds`, `DriftBoundHolds`; of `PosSrv`: `ServiceTypeCorrect`, `SettledHolds`, `ProjectorExpiresHolds` | `RelayInv` relates `dir` and both relays to the place of the thread: the properties speak of some places only and are not inductive.  The type of the position rests on lemmas on products and quotients: `get_curr_pos` stays in `0..MaxVal` for any elapsed time.  `EndInv` follows the run time through the sleeps: at the timed wait there is something left of it.  It assumes `ProperTimes`, that no movement takes exactly `RELAY_DELAY` and none takes no time.  `DriftBoundHolds` assumes `Calibrated`: the run time is that of the motor, and a unit takes no longer than the relay delay, else short movements would not be counted in `loc_uncert`.  `PositionInv` encloses the real position, `SwingInv` says that a full swing ends at the end from anywhere, and `TimeInv` that the sleeps and the timeout of a movement to an end add up to a full swing.  For `PosSrv`, `SettledInv`: the value that the thread holds is what `get_val` would return unless the semaphore has been given since; and a request of STOP is one the user has made |
| `ContinuousSD_proofs` | `TypeCorrect`, `MissedBoundHolds`, `CacheImplemented`, `PlanIsCurrentHolds`, `NoStaleAddressHolds` | `MissedInv` bounds the count of every entry, lower while one is about to be asked, and has that of an entry freed meanwhile 0.  `CacheImplemented` shows that each write to a slot is a step of the cache, given unique keys (the lemma `UniqueKeysHolds`, for names that nobody overwrites).  `PlanInv` splits `PlanIsCurrent`: *no deadline is earlier* survives time and users, *one is as early* needs the semaphore |
| `HeatCtlr_proofs` | `TypeCorrect`, `ForcedGoesOnHolds`, `ProjectorExpiresHolds`, `PwmRunsHolds` | `Sane`: what a thread holds where it stores, drives the relay or starts the forced switching has its type; the integral bound is a lemma of its own |
| `LedCtlr_proofs` | `TypeCorrect`, `ManualExpiresHolds`, `ManualStaysHolds`, `ShowsNewestHolds` | `TypeCorrect` says of each LED that its brightness has been asked of it: no more, because settings are mixed from requests.  `ChoiceInv`: unless `raced` is set, the dimmer is not newer than the manual setting at the second comparison, what has been chosen is the newest, and each LED that is set already has its brightness |
| `Notification_proofs` | `TypeCorrect`, `RightAddressHolds`, `OneTargetEachHolds` | `ProvInv`: while the loop of `AddAgain` is at output *i*, the tables agree, all labels below *i* are covered and at most *i* slots are used, hence there is room |
| `RequestClient_proofs` | `TypeCorrect`, `NotForgottenHolds` | `PendingInv`: between reading the item and the value the thread holds the item of the last request, or the semaphore has been given since.  `Read`: an awake out thread has a slot that was written |
| `AirCond_proofs`, the ring | `TypeCorrect`, `RingIsFifo`, `NoMissedWakeupHolds` | `Inv`: one reader at a time has copied a frame, and the ring then is not empty; it is full only with `N - 1` frames.  The lemmas on `Wrap` replace `%` by a case distinction, so that each step appends, removes or leaves the frames of the queue.  `Wakeful` counts: the semaphore is given, or there are as many readers on the way to the ring as frames in it, or nobody waits; lemmas on cardinality say what a step does to that number |
| `AirCond_proofs`, the dialogues | `AcTypeCorrect`, `OnlyAskedHolds`, `SettingTakenHolds` | `CalmInv`: nothing in a frame tells which question it answers, so a dialogue is right because it is alone.  While it is calm one thread at most is not idle, and the frames on both lines and in the queue are the one it has sent, or those that answer it, in their order (`TxCalm`, `TakeCalm`, `AckCalm`, `DataCalm`).  A state under way is that of the air conditioner, so that what `rsrc_post` sends back differs from it by what the client names; the unit survives the way to Celsius and back from 0 degrees on, and a target that a byte holds is rounded (`Units`, from `Fifths` and `Wraps`) |
| `Switch_proofs`, provisioning | `TypeCorrect`, `StoredWhenDoneHolds`, `RightAddressHolds` | The invariants say of each thing that is wrong which server will put it right.  `LockInv` is the queue of the lock.  `StoredInv`: what is stored is what is used, or the server that will store it is still on its way, and one that would store an old label has a newer one behind it in the queue.  `TableInv`: no name is in the table twice; an entry that repeats a label, has none or has the address of another one will be cleared; and every label in use has an entry or a server that will add it; by counting (`Room`) there is a free entry for it |
| `Switch_proofs`, the analog inputs | `AnalogTypeCorrect`, `AverageIsMeanHolds`, `AllReportedHolds`, `HeartbeatKeptHolds` | `MeanInv`: a weighted mean that is rounded down stays between the bounds of what it mixes (`Mean`), and a level has room for the special value above it.  `CountInv`: what the thread has read of the counter is no less than the presses since, for a reset only lowers them, and counting up stays below the width unless `wrapped` is set.  `HeartbeatInv`: a heartbeat thread about to wait finds the semaphore given unless the LED is in use |

`DefaultDirection` of `MotCnt`, `MissedBound` of `ContinuousSD`,
`ForcedGoesOn` and `PwmRuns` of `HeatCtlr`, `ManualStays` of `LedCtlr` and
`AverageIsMean` of `AnalogSwitch` are properties that no run checks: the theorems
say more.

The two components of a device share a module of proofs, so that the names of
the second one have a prefix (`Service`, `Ac`, `Analog`) where the first one
has the same.

The provers do not know exponentiation: that `divider` of `AnalogSwitch`, a power
of two, is positive is an assumption, which TLC evaluates.  The others say
what the constants are: what a client of the air conditioner wants is an
integer, what one of the analog inputs sends is a number or left out.

Only model-checked: the liveness properties (`ReachesTarget`, `EveryoneIsAsked`,
`Resolved`, `Restores`, `RegulatesWhenSet`, `ProjectorEndsPwm`, `ForcedEnds`, `Shines`,
`Informed`, `Served`, `Shown`, `Answered`, `GetsReady`, `DarkIsSeen`,
`SteadyIsQuiet`, `PressReaches`): they need fairness, hence `ENABLED`.  That
`AirCond` uses the queue as `FrameQueue` offers it is seen from its text: it
changes `queue` by `Q!Enqueue` and `Q!Dequeue` only.

## 7. What disagrees

Found by a run (details in PROJECT.json): with on-off control the relay stays on
when the projector comes (`ctlr.c:48`).

Properties that a module states and that do *not* hold; each has a short
counterexample when it is checked:

- `MovementEnds` of `MotCnt`: a request at an unknown position leaves a running
  motor without its timeout (`mot_cnt.c:317`), and so does a movement of exactly
  the relay delay, whose timeout is `K_NO_WAIT` (`mot_cnt.c:220`; with 25.5 s
  as the run time, the movement by five units).
- `NoLostRequest` of `PosSrv`: a request is overwritten by the position of the
  stop before it (`pos_srv.c:85`).
- `RegulatesWhenMeasured` of `HeatCtlr`: on-off control is not told of measurements.
  The display subscribes one node, `temp_sbscr`, to measurements and then to settings
  (`display.c:598`), and `data_dispatcher.c:69` overwrites its `next`: the list of
  measurements goes on with the subscribers of settings, and `changed_temperature()`
  of `ctlr.c` is never called.  `changed_setting()` is called instead, with the
  measurement as the setting, and compares it with itself: it switches off when the
  sensor fails, and else leaves the relay.  The relay follows the temperature only
  when somebody posts or touches a setting, which is what `RegulatesWhenSet` says.
- `RelayIsForced` of `HeatCtlr`: a PWM cycle switches the relay off during forced
  switching (`output.c:133`).

Seen while modelling, without a run of their own:

- `mot_cnt.c:182`: movements made while no run time is set leave the extreme
  position remembered (`ExtremeIsReal` of `MotCnt` is not an invariant).
- `pos_srv.c:167`: a renewal that the expiry of the timer interrupts is lost
  (`ProjectorActive` of `PosSrv`).
- `prj_timeout.c:44`: a validity of 120000 ms is stored in 16 bits and becomes
  54464 ms (`ValidityKept` of `HeatCtlr`).
- `temp_tscrn/src/main.c:115` starts CoAP before line 120 initialises the projector
  timeout: a notification in between never expires.  The model starts later.
- `output.c:132`: after a change from PID to on-off control the PWM thread is
  woken once and goes on for the other half of its cycle, and then switches off
  a relay that on-off control may have switched on.
- `output.c`: forced switching of a location whose relay is not local counts
  nothing down.
- `led_ctlr.c:105`: switching off while the LEDs are dimmed stores nothing, and
  the earlier colour comes back after the dimmer (`LastManual` of `LedCtlr` is
  not an invariant, although `rgbw/CHANGELOG.md:8` promises it).
- `rgbw/src/coap.c:225`: a POST that names some of the LEDs stores, for the others,
  what they are set to at that moment: after it, the automatic setting, the dimmed
  LEDs or an earlier request has become part of the manual setting.
- `light_conn.c:193`: the light of a request is read when the thread gets to it:
  the request goes to another light when the user has changed the screen, and
  is dropped when the user has left it.
- `shades_conn.c:183`: the slot holds one request: of two shades moved while the
  thread retries, only the second moves.
- `shades_conn.c:260`: an answer that is late is taken for that of the next
  shade, and from then on all of them may be shifted.  The attempts are
  counted over all shades: one that does not answer leaves one to the others.
- `led_ctlr.c:105`: the dimmer that ends between the test and the renewal is
  renewed without a timer.
- `notification.c:212`: resuming does not signal the thread; news of the pause
  wait for up to 15 s.  `pwr_det.c:56`: the first reading races the interrupt.
- `coap_fota.c:183`: were the download to fail before `STARTED` is reported,
  notifications would stay paused.
- `coap_server.c`: the resources' `user_data` is shared by both server threads.
  Handlers read it before they wait, so that the other one does not come in
  between.
- `ds21.c`: the queue of frames is never emptied.  An acknowledgement that comes
  after its timeout is taken for that of the next frame, and from then on every
  answer may be that of the question before: a client is told of a success that
  is not its own (`OnlyAsked` and `SettingTaken` ask for `calm`).  Two
  dialogues at a time take each other's answers.
- `ds21.c:22`: the division truncates towards zero, so that below 0 degrees there and
  back is one more: an air conditioner set to -1.5 degrees (25) is sent 26 by each
  POST that does not name the temperature, then 27, then 28.  Targets are not
  validated (`accnt/src/coap.c:634`): from 113.7 degrees on they wrap around in the
  byte, and earlier in the 16 bits if they are larger still.
- `accnt/src/coap.c`: a temperature that cannot be read leaves the client
  without a reply; a provisioning of the shades that changes nothing is
  not answered either (`shcnt/src/coap.c:105`, `coap_server.c:384`).
- `analog_switch.c`: an average of 0 can never rise again: the cutoff is a
  multiple of it.  The input is dead until the next start.  A rise while the
  debouncing goes on is never reported; darkness at the start is reported as a
  press; the rise out of darkness is two presses in one window.
  `coap.c:1004` checks the threshold again where the debouncing is meant, so
  that a count beyond 8 bits is accepted and truncated, as the windows are to 16.
  Presses may be reported twice: `events` is incremented without a lock.  With the
  65536th press that nobody has read it is 0 again (`analog_switch.c:183`), and all
  of them are missing.
- `switch.c`: presses that follow a request within its four seconds are merged;
  both inputs share `last_evt`, so that an edge of one hides that of the other for
  the 2 ms of debouncing.
- `switch/src/prov.c:361` tests the first device where the first analog switch
  is meant.
- `coap_req.c`: the label is sent while it may be replaced, as the code's own TODO says,
  and a series goes to the address captured at its beginning.
- `switch/src/main.c:27` does not end the MED mode when a download fails, as
  `coap_fota_callback` does: a switch on batteries keeps its radio on.
- `coap_sd.c:78`: the inner `found` shadows the outer one.

## 8. Not modelled

Parsing and encoding (CBOR, CoAP options, link format), settings other than
those of `Notification` and `Switch`, failures of the flash, drawing, sampling of
sensors, logging: stateless or I/O.  The product of run time and distance in
`get_curr_pos` (`mot_cnt.c:371`) has 32 bits in the code and any size in the model:
it overflows only when a motor is left running for hours.  `coap_fota.c`, `ot_sed.c` and `rmt_out.c` of the thermostat are
planned (section 2); the pause that `coap_fota.c` causes is part of
`Notification`.  `coap_server.c` is modelled by its two threads in `Duart`, `AirCond` and
`Switch`; the server side of `coap_sd.c` answers from a table that is filled at
the start.  The components of the display and the data dispatcher that only
draw, the status LED of the air conditioner and the labels of a device's own
resources are left out for good.  Data races on a word are atomic accesses on
this single-core device.
