# A TLA+ model of the P4autoBoat firmware

The repository is the firmware of an autonomous boat on an ESP32-P4 (two cores, FreeRTOS)
with its radio bridge (ESP32-C6), a ground station and tools. This directory models

* what decides what the jets, the winch, the rudder and the servo rail do: the manual command
  arbiter, the arming sequence, the ESC driver, the mission's claim on the jets, and the
  control task that runs them together with the ESC trim sweep and the bench run;
* the out-and-back mission with its task, its record and its reports;
* the ESP-NOW link over three processors, and the websocket dashboard with the camera;
* the sensor tasks: snapshots between cores, IMU health, ranging, GPS, compass calibration.

Paths below are relative to the repository; `main/` is the firmware.

## 1. The system

| Component (source) | State it keeps | Operations | Interacts with |
|---|---|---|---|
| Control arbiter (`control_arbiter.c`) | newest drive, winch and steering proposals, event ring, urgent bits | submit, push event, decide | handlers write it and the control task drains it, under `s_arbiter_lock` |
| Arming sequencer (`arm_sequence.c`) | state, deadline, force | request, step | owned by the ArmSeq task; request queue in, action queue out |
| ESC driver (`drivers/esc_driver.c`) | disarmed / arming / armed, throttle | arm begin, arm complete, set throttle, disarm | control task writes; the compass task and telemetry read |
| Mission owner (`auto_drive.c`) | last aborted run | one step per control cycle | setpoint from the autonomy task, its output drives the jets last |
| Control task (`motor_control.c`) | link stamp, failsafe edge, rail cut, arm permission, sweep, bench, ownership of the jets | `run_control_cycle` every 10 ms or on a notification | everything above |
| ESC trim sweep (`esc_trim_cal.c`) | phase, level, measurements | start, step | runs inside the control cycle, own heartbeat |
| Bench run (`bench_run.c`) | phase, samples | start, step, abort | inside the control cycle; the file is saved by Diagnostics |
| Compass calibration (`calibration.c`, `mag_cal.c`) | claim on the boat, cancel flag, result | start, cancel, run | reads the ESC state; its claim refuses arming |
| Mission, autonomy (`autonomy.c`, `mission.c`, ...) | run id, state, filters, record buffer, status slot | START, STOP, 20 Hz step, record, write the file | publishes setpoints and reads abort reasons of the control task; Diagnostics writes the record to the SD card |
| Heading hold, assists, learner, SAS (`yaw_heading_control.c`, `trim_*.c`, `stability_control.c`) | filters, learned trim, mode switches | one tick per cycle | change the mix of the manual path and the rudder |
| Pipeline (`pipeline.c`) | two envelopes, two mutexes, transports | publish, handle incoming | transports, command handlers |
| Websocket transport (`transports/ws_transport.c`, `http_server.c`) | two slots, client list, close queue, one send in flight | publish, send, close | httpd task and its own TX task |
| Camera and its users (`drivers/camera_driver.c`, `camera_stream.c`, `detect_task.cpp`, `training_log_task.c`) | lock, frame held, buffers of the video driver, one JPEG output | capture, release, drain, freeze | HTTP task (stream, snapshot), detection, dataset log |
| ESP-NOW transport, bridges (`transports/espnow_transport.c`, `tools/espnow_bridge`, `tools/slave_firmware`) | hello watchdog, attempts, receive queue, fragments, reassembly buffer | send, receive, reinit | P4, C6 and ground bridge over lossy links |
| Snapshots (`sample_snapshot.c`, `gps_snapshot.c`) | double slots with sequence numbers | publish, read | writers and readers on both cores, no lock |
| Sensor tasks, schedule, fusion (`sensor_*.c`, `imu_freeze.h`, `drivers/imu_driver.c`, `drivers/tof_driver.c`) | due times, fault counters, freeze detectors, double buffers, filter | read, publish, process | I2C bus, snapshots, notifications |
| GPS (`drivers/gps_driver.c`, `gps_uart_events.c`) | UART ring and event queue, parser, authority, stamps | event, read, recover | UART interrupt, readers on both cores |
| Other drivers, metrics, WiFi, start-up, ground station | device state | I/O | not part of the control decisions |

### How they interact

Receiving tasks decode a message and call a command handler. A handler changes the arbiter
or a pending flag, under one spinlock, and never an actuator. The control task (priority 10,
core 0) drains all of it once per cycle, in this order:

    decide -> auto_decide -> take and apply one arm action -> apply the decision
           -> calibration_tick -> bench_tick -> auto_tick

Each later step may overwrite the ESC throttle an earlier one wrote. Arming is a round trip: a decision
puts a request in a queue, the ArmSeq task (priority 9, core 0) steps its sequence and puts an action in
another queue, and a later control cycle applies it to the ESC driver. The autonomy and
compass tasks run on core 1, at the same time as a control cycle.

### Which behaviours are hard

* One state in two places: the ESC driver and the sequence are reconciled through two
  bounded queues whose disarms overtake what is queued.
* Check and act on two cores: the compass task's claim against the control task's arm action.
* Many owners of the jets (stick, mission, sweep, bench), each released by a different rule, with
  zeroes written by somebody else in the same or a later cycle.
* Edges that are consumed once: the failsafe edge, a pending flag, a `changed` bit.
* Stamps that several senders refresh, so that an old value looks live.
* A buffer one task fills and another writes to a card for seconds, guarded by two flags.
* A co-processor that crashes and comes back deaf, packets without numbers, a watchdog that counts
  attempts without a lock.
* A send handed from task to task, with descriptors the IP stack gives out again.
* Data that crosses cores without a lock, word by word, and wake-ups between a look and a wait.
* An event queue that outlives the bytes it speaks of.

`PROJECT.json` ("hazards") lists each of these at its line, with the properties that cover it, or the reason
why none does yet.

### What makes each component correct

* Arbiter: a disarm or a power-off survives a full ring; a silent stick is zero; each change is
  reported in one decision.
* Arming: ESC and sequence agree or are about to; no action is dropped; a disarm always arrives;
  arming always ends; nothing arms during a compass calibration.
* Ownership: at most one owner where the code promises it; an owner's thrust does not outlive it;
  an aborted run never comes back.
* Rail: an explicit cut holds until an explicit power-on or an arm.
* Mission: one run per request, phases in order, one end, the jets at most once; a STOP always wins; the record on
  the card is of one run; the end is reported.
* Pipeline and transports: no wait cycle between receiving and sending; a buffer is not written
  while it is sent; a descriptor is not closed under a send; the link recovers or gives up after its limit.
* Camera: a borrowed picture is stable; buffer and lock come back on every exit.
* Snapshots, ranging: a reader never gets a mix of two samples, and the newest is processed.
* IMU, GPS: stale readings are withheld, a chip that works again says so, no read waits for bytes that are gone.
* Calibration: what runs is what is stored, nothing is used before it is saved, the fusion task never corrects with parts of two
  runs, and the claim on the boat ends with the run.

## 2. Modules

| Module | Models | Correspondence |
|---|---|---|
| `ControlArbiter` | `control_arbiter.c/.h` | pure operators on the record `arbiter`; `Decide` and `AfterDecide` are the two results of `control_arbiter_decide` |
| `ArmSequence` | `arm_sequence.c/.h` | `Request`, `StepAction`, `AfterStep` on the record `sequence`; the deadline is the ticks left |
| `EscDriver` | `drivers/esc_driver.c` | one operator per driver call on `[state, thrust]`; `thrust` is who wrote the last non-zero throttle |
| `AutoDrive` | `auto_drive.c/.h` | `AutoStep` with the abort reasons in the code's order |
| `MotorControl` | `motor_control.c`, and the phases of `esc_trim_cal.c` and `bench_run.c` it drives | composes the four; `pc` is where the control task stands in its cycle; one action per handler, per step of the cycle and per ArmSeq step |
| `MotorControlProperties` | | type invariant and the properties over `MotorControl` |
| `Arming` | | the abstract specification: what the operator sees of arming |
| `MotorHistory` | | history variables (aborted runs, what ended a mission, a stick moved since the link was silent) and the properties that need them |
| `Mission` | `mission.c/.h` | `MissionStep` and its parts as operators on the record `mission`; what the planner, the path follower and the filters make of the sensors is a *situation*: which guards hold in this step |
| `Autonomy` | `autonomy.c`, and `auto_decide` of `motor_control.c` through `AutoDrive` | the receiving, mission, diagnostics and control tasks; `step_pc` and `diag_pc` are where the two tasks stand |
| `MissionRuns` | | the abstract specification: what the operator sees of a run |
| `Coprocessor`, `GroundBridge`, `EspnowTransport` | `espnow_bridge.c` on the C6, the receiving side of `espnow_bridge/main/main.c`, `espnow_transport.c` with the envelopes of `pipeline.c` | one module per processor: the handlers and tasks it runs |
| `Radio` | | composes the three: calls between boat and C6, packets in the air, crash and reboot, loss |
| `WsTransport` | `ws_transport.c`, `http_server.c` | the TX task (`ws`), the HTTP task (`http`, `work`), sessions, descriptors, close queue |
| `Camera` | `camera_driver.c`, `camera_stream.c`, `detect_task.cpp`, `training_log_task.c` | `at[u]` is where each user is in its borrow; one action per step of a capture |
| `Dashboard` | | composes the two through the HTTP task that answers pages and snapshots |
| `SampleSnapshot` | `sample_snapshot.c` | writer and readers load and store one word per step; a step stands for an access in the order the barriers enforce |
| `ImuChain` | `sensor_task.c`, `sensor_fusion.c`, `motor_control.c` | two snapshots in a row, SensorBus to Fusion to Control, with the priorities of core 0 as guards |
| `ImuHealth` | `sensor_read_imu_sample`, `imu_freeze.h`, `imu_driver.c` | one action per bus cycle: what the two chips answered |
| `Ranging` | `sensor_schedule.c`, `task_tof_read`, `task_tof_processor`, `tof_driver.c` | slot states, generations and parts of a frame; one action per claim, part and hand-over |
| `GpsReceiver` | `gps_driver.c`, `gps_uart_events.c` | the UART's ring and event queue, the recovery in its two steps, parser, authority |
| `Calibration` | `calibration.c`, `file_system.c`, `fusion_set_calibration` | the task as `cal_pc`, flash, the record in use, the hand-over word by word |
| `AutonomyProperties`, `RadioProperties`, `DashboardProperties`, `ImuChainProperties` | | the properties over the composed modules (the smaller modules state theirs at their end) |
| `*Proofs` | | theorems and their proofs |
| `MC*` | | the instances TLC checks |

### What the model abstracts

* Values. A demand is zero or not, a throttle is the name of the path that wrote it. Headings,
  trims, speeds and pulse widths are left out; the trim learner and heading hold are a
  nondeterministic rewrite of the same stick (`moved` in `ApplyManual`).
* Time. A tick makes every stamp older. A stamp is an age that saturates at its timeout,
  because the code never tells older ages apart.
* A refused command (out of range, stale, ring full) changes nothing: it is a stuttering step.
* `xQueueReset` followed by a send to the front is one step. The only consumer could see the queue empty in
  between, which is what it sees when it runs a moment earlier.
* In `MotorControl` the autonomy task's setpoint is over-approximated: any run, active or not, driving or not, as
  long as ids do not go back and a run does not change between dry and real. `Autonomy` has the real setpoint
  and takes the rest of the control task as inputs of `auto_decide` (`ControlInputs`).
* A sweep or a bench run may end at any tick, which covers yaw limits, IMU faults, clamps and
  timeouts. Both assist switches, the rudder loop (`stability_sas_tick`), telemetry and a failing MCPWM write are not in the model.
* Interleaving. Other tasks act where the control task stands at a step in `PreemptAt`.
  With `PreemptAt = ControlPc` they act between any two steps. `Autonomy` has a `PreemptAt` of its own.
* The mission's geometry. A step meets a situation (a fix or none, a leg's end reached or not, an abort condition or
  none); counters of fixes and frozen headings are kept.
* Weak memory. The release, acquire and fence of the snapshots are represented by the order of
  the steps; a relaxed access inside them may take any place among the words.
* One assumption on time: the handler of a mission STOP sets the control task's flag and the mission task's flag
  in two steps. It is assumed to do the second within two passes of the mission task (100 ms; the handler only takes one spinlock).
* The 200 refused tries of a calibration's hand-over, 10 ms apart, are not counted: a refused try changes nothing, so giving up is
  possible as long as the fusion task has not taken the record before. Nothing is assumed of how soon it does, in a run or between two.
* Packets, pictures, GPS bytes and calibration fields are members of small sets; a frame is its number of packets.
* Sequence numbers do not wrap (2^32 samples at 100 Hz take 497 days).

Definitions whose comment starts with "Mutant" are broken variants of the definition after
or before them. No specification uses them; each one violates the property it is listed with
in `PROJECT.json`, which shows that the property depends on the code.

## 3. Runs

The runs of `MotorControl` use timeouts of one tick, an event ring of one, a request queue of one and an action queue
of three (in the code the timeouts are 400 ms to 3 s, the ring holds eight and the queues four). One is
enough: a timeout is either reached or not and ages saturate, and a full ring or queue is the interesting
case, which the small bound makes frequent. The action queue keeps three, because the argument why no
action is dropped depends on it. `NoiseTicks` is at least `LinkTimeout` in every run that has
a sweep, as in the code (a noise phase of 1 s against 400 ms): with a shorter one a stick from before the sweep would
still be live when it ends. `MaxRuns` bounds the mission ids.

| Run | Starts from | What acts | Shows |
|---|---|---|---|
| `MCArming` (330 thousand states) | boot, ESC disarmed, compass claim held or not | arm, disarm, compass, at every step of a cycle | `TypeOK`, `EscFollowsSequence`, `ActionNeverDropped`, `CompassNeverArmed`, `DisarmDelivered`, `ArmingResolves`, `ImplementsArming` |
| `MCMission` (1 million) | armed | winch, PWR-OFF, two missions, STOP, between cycles | `RailCutHolds`, `MissionThrustReleased`, `AbortedRunIsOver` |
| `MCArmedBoat` (2 million) | armed | winch, bench, one mission and STOP, or stick or rudder with PWR-OFF and sweep, or stick and rudder, between cycles and before the outputs | `MissionExcludesOthers`, `BenchThrustOwned`, `StickThrustIsLive`, `SweepThrustReleased` |
| `MCAutonomy` (800 thousand) | boot | START, STOP, mission task, diagnostics, control cycles with and without manual input | `AutonomyTypeOK`, `RecordIsOneRun`, `RecordingGoesOn`, `StoppedRunNeverDrives`, `BufferNotShared`, `ImplementsMissionRuns`, `EndReported` |
| `MCRadio` (920 thousand) | boot of the boat, C6 up or not | the three processors, loss, crash, reboot | `RadioTypeOK`, `RxThreadNotBehindSend`, `TeardownsBounded`, `DeliveredWhole`, `Healing` |
| `MCDashboard` (140 thousand) | server started, nobody connected | clients, HTTP and TX tasks, camera users | `WsTransportTypeOK`, `SendsOneMessage`, `ListedIsOpen`, `CameraKept`, `ClosesBetweenSends`, `SendsGoOn` |
| `MCSensing` (670 thousand) | tasks started | one of the IMU chain, IMU health, ranging, GPS, calibration | `SensingTypeOK`, `SamplesWhole`, `SampleReadable`, `ImuReported`, `FramesWhole`, `ReadNeverWaits`, `CalibrationKept`, `FramesProcessed` |
| `MCMissionWinch` | armed | as `MCMission` | a counterexample to `MissionThrustOnlyWhileOwned` |
| `MCSweepBench` | armed | PWR-OFF, sweep, bench | a counterexample to `SweepExcludesBench` |
| `MCSweepPowerOff` | armed | PWR-OFF, sweep, bench | a counterexample to `SweepAbortStopsJets` |
| `MCReplay` | armed | stick, winch, sweep | a counterexample to `StickNeverReplayed` |
| `MCFusionStall` | tasks started | SensorBus, Fusion, Control | a counterexample to `ControlReadEnds` |

The armed start (`ArmedInit`) is the state arming leaves behind once its queues are empty and the link has
fallen silent; starting there removes the arming sequence from runs that are not about it. `session`
is the set of commands that is sent in a behaviour, one of `Sessions`. No run sends
every command in one session: the instances are cut along the hazards, and the theorems in section 5 cover all
sessions and all preemption points at once.

Bounds of the other runs, and why they are enough:

* `MCAutonomy`: two runs (the hazards are a run and the one before it), two requests, so that an
  id comes back, one STOP, a record of two samples, so that it overflows on every full run. Three fixes to settle the home position
  (15 in the code), so that a run can be stopped before, while and after. The other tasks act after the step has read its
  inputs and before the next pass reads them (`MCPreemptAt`): at the other points they touch nothing that pass reads or writes.
  One situation per step, a fix that ends whichever leg the boat is on; the guards of the legs and the abort order of a step
  are exercised through STOP, manual input and stale setpoints. The theorems hold for any situations and preemption points.
* `MCRadio`: the code's three reinit attempts, queues of one, frames of one and of three packets with a buffer of four:
  two frames do not fit, as a wrong sum must be possible. One packet lost between two emptyings of the
  buffer: with two, a mixed frame of the right length can be delivered (`DeliveredWhole` says so).
* `MCDashboard`: two descriptors against a client table of one, so that a client is refused and descriptors come back; two messages;
  two camera buffers.
* `MCSensing`: three samples (a slot is written twice), three failures to a fault and four to a recovery (50 and 100), freezes after three equal
  reads (25 for accelerometer and gyroscope, 50 for the compass), five ticks of ranging, a ring of four pieces, three calibrations. The five parts share
  nothing but whether a sample is withheld, which the chain takes as it comes, so the run explores each on its own. It
  does not check deadlock: all five are bounded by the number of samples, ticks or runs.

### Refinements

`Arming` is what the operator is promised about arming: the boat begins to arm only for an open order and completes only with a
permission; a disarm that was accepted stays on its way until the step that disarms the ESCs, and that step takes the permission
away. `MotorControl` implements it under the mapping at the end of `MotorControlProperties`: an order or a disarm is
open while it is anywhere between the arbiter's ring and the action in the control task's hand, the permission is
`s_arm_power_allowed` unless the cycle's decision disarms. The promise is worded with a permission, and not as "a disarm cancels
the orders before it", because the code does not do that: a DISARM decided in the cycle that applies an earlier one is not submitted
(`motor_control.c:1634`), so an ARM sent between the two survives it in the ArmSeq task. What stops that ARM is that the
cycle withdraws the permission, which only a later ARM or PWR-ON gives back.

`MissionRuns` is what the operator is promised: START begins one run per request, a run moves forward through
HOME, OUTBOUND, TURN and RETURN and ends once, and it has the jets at most once, on a leg. `Autonomy`
implements it under the mapping at the end of `AutonomyProperties`: the run and its request are those of `s_m`, the phase is
its state with the three terminal states as one, and the jets belong to the run in the control task's last output.
The steps of the other tasks are stutters. The interesting part is that the control task works on an old setpoint:
a step that gives the jets to a run must find that the run is still on a leg and never had them before.

### Where code and documents differ

Five runs end in a counterexample, because the code does not do what a comment or a design document says.

1. `MissionThrustOnlyWhileOwned`: over a live link a winch or rudder command ends a mission as
   MANUAL; the zero is skipped and the mission's throttle stays until a drive command comes or the link has been
   silent for its timeout.
2. `SweepExcludesBench`: a sweep starts beside a bench run.
3. `SweepAbortStopsJets`: a PWR-OFF that aborts a sweep leaves the sweep's throttle on the jets
   until a drive command comes or the link times out.
4. `StickNeverReplayed`: a winch command during a sweep refreshes the stamp of the old drive proposal,
   whose thrust goes to the jets.
5. `ControlReadEnds`: the fusion task numbers its results by the IMU sample, so a withheld sample makes the next result
   overwrite the slot the readers are sent to. The control task, of a higher priority on the same core, that
   reads in the middle of it starts over for ever. `SampleReadable` shows that the IMU snapshot, numbered without
   a gap, does not have this; `SamplesWhole` that no torn result is ever used.

`MissionThrustReleased`, `SweepThrustReleased`, `StickThrustIsLive` and `CalibrationKept` state what does hold, and their comments name the
exceptions: a mission ended by a manual command, a PWR-OFF, a command that arrived after
the decision of the cycle, a cycle the mission owns, and a hand-over `apply` gave up (`overdue`, what its error log says).

Modelling met some more behaviour that has no run of its own, because no document of the repository rules it out
or, for the calibration, because only an error log does:

* Two DISARMs with an ARM between them may leave the ARM in the ArmSeq task (see Refinements); it arms the boat if the operator
  then sends PWR-ON.
* A START that arrives in the pass in which a run ends is taken and dropped without a status; a START that follows a STOP
  in the same pass is aborted at once ("STOP always wins", as `boat.proto` says).
* The status of a refused run carries the record state and file index of the run before, and Diagnostics reads the two in two loads.
* Two lost packets of two frames of equal length make the ground bridge deliver a frame of parts of both; a truncated frame costs the next one too.
* A calibration whose hand-over is refused 200 times (2 s) ends as PASS: its record is in flash and in use, but the one that waits for the
  fusion task is of the run before, and nothing hands over the new one until the next run or boot. It needs a fusion task that
  processed no sample since the run before; the error log says that the task takes the new one on its next sample. `CalibrationKept`
  excepts exactly this (`overdue`).
* After its attempts are used up the watchdog leaves a co-processor that crashes later deaf until the boat is reset, as its comment says.
* A fifth websocket client is accepted but never listed; a one-shot status in the newest-wins slot may never be sent.
* `imu_recover_accel_gyro` succeeding marks a chip OK that still returns frozen values (they are withheld all the same).
* A cancel that arrives between a calibration's claim and its first statement is lost, and a second click on Start while the
  task claims starts a second run after the first.

## 4. Fairness

Five runs check liveness. All assume that tasks that are ready get to run, as `runtime_schedule.c` gives each a core and a priority
and those above it wait for a period or a notification in every cycle. No command, packet, client or answer of a chip is assumed to happen.

* `MCArming`: weak fairness of the control task, the ArmSeq task and time. Other tasks act at every step of the cycle:
  with fewer points, "weakly fair" would be weaker than the scheduler, as ArmSeq would be enabled only now and then.
* `MCAutonomy`: the mission and diagnostics tasks, and a command handler that began returns.
* `MCRadio`: the boat's tasks, the timer task, calls that are answered or run out of time, and a
  crashed co-processor boots again. `esp_now_init` may fail every time, and the radio may stay silent.
* `MCDashboard`: the TX task; the HTTP task finishes an answer and comes to queued work between requests (strong, as
  requests may come in between); `httpd_queue_work` does not refuse for ever (strong).
* `MCSensing`: the two ranging tasks.
* `MCFusionStall`: core 0 runs its busy task of the highest priority. That is the point of the counterexample: with these priorities,
  fairness does not let Fusion finish.

## 5. Proofs

TLAPS proves the following for every value of the constants that satisfies the named assumptions of the modules. Every
invariant and every action property a passing run checks is proved; TLC checked each inductive invariant on a small instance first.
The theorems about `MotorControl` hold from boot (`Spec`) and from the armed start (`ArmedSpec`) unless the table says otherwise.

**Control task** (`MotorControlProofs`)

| Theorem | States | Argument |
|---|---|---|
| `TypeCorrect` | `[]TypeOK` | one lemma per operator of the components, then one per group of actions |
| `CompassSafe` | `[]CompassNeverArmed` | not inductive alone: the control task may have taken a COMPLETE before the claim. `CompassInv` adds that while a calibration runs no taken COMPLETE meets an arming ESC, because the claim came first and the check needs a disarmed one |
| `ActionsKept` | `[]ActionNeverDropped` | `QueueInv` bounds the queue by the sequence's state: a disarm leaves one action, arming two, armed three |
| `EscFollows` | `[]EscFollowsSequence` | too weak to be inductive: it allows any action to be in flight. `Agreed` follows the ESC through every action that is queued or in hand and asks that what it comes to is what the sequence is in, or on the way to it; with the queue bound there are at most three to follow |
| `ControlImplementsArming` | `Spec => ImplementsArming`, from boot | each step is a step of `Arming` or a stutter. `Places` lists where an order and a disarm can be; one lemma per task shows that they only move on, that an order comes from a handler and a disarm leaves through the ESCs. `DecisionInv` carries a decision to disarm through its cycle: every arm action taken after it is refused, and the mark that stops its submission is set only by a disarm that was applied |
| `RailSafe` | `[]RailCutHolds` | inductive with the types |
| `MissionSafe` | `[]MissionExcludesOthers` | inductive with the types: a sweep and a bench run need a mission that does not own, a mission needs neither active |
| `BenchSafe` | `[]BenchThrustOwned` | `BenchInv`: thrust needs an armed ESC, and bench thrust an active run, at every step and not only between cycles |
| `StickLive` | `StickThrustIsLive` | `StickInv`: the drive proposal is as old as the link, so a drive that failed while the link is alive was never commanded; what the decision saw is carried to the step that writes the throttle, past the commands that arrive in between |
| `SweepReleased` | `SweepThrustReleased`, if `NoiseTicks >= LinkTimeout` | `SweepInv`: a noise phase no command touches is at least as long as the link's timeout, so the link is silent when the sweep first writes (`SweepQuiet`), and a cycle that finds its throttle on the jets zeroes it on the manual path before it looks at why the sweep must end (`SweepRemoved`) |
| `AbortedRunsStayOver` | `HistorySpec => []AbortedRunIsOver` | `RunInv`: run numbers on their way never go back, so the last aborted number bounds all that may still arrive |
| `MissionReleases` | `HistorySpec => []MissionThrustReleased` | `ReleaseInv`: what ended the mission is known until the cycle that ended it has written its zero |

**Mission** (`AutonomyProofs`)

| Theorem | States | Argument |
|---|---|---|
| `AutonomyImplementsRuns` | `Spec => ImplementsMissionRuns` | `StepFollows` shows that `MissionStep` only moves a run forward; `SetpointFollows` that the setpoint the control task has is of the newest step; `JetsOnce` that a run the control task ended is remembered as long as it may come again |
| `StopWins` | `Spec => StoppedRunNeverDrives`, if `HomeFixes > 2` | `StopInv`: a STOP for the run under way is still to be seen by the control task, or has ended the run there, or reaches the mission task while the run looks for home (`StopComing` counts the fixes left against the passes the STOP needs); a STOP for the run about to begin is still in hand when it begins |
| `RecordsStayOneRun` | `[](RecordIsOneRun /\ RecordingGoesOn)` | `RecordInv`: what the task saw last is one step behind the mission (`PrevBehind`), a run under way has the buffer to itself (`BeingRecorded`), and a START is told of a buffer that is being written (`BeingSaved`) |
| `BufferStaysUnshared` | `BufferNotShared` | from the same invariant: while a file is written no run is under way and none can begin |
| `AutonomyTypes` | `[]AutonomyTypeOK` | `StillCounting`: a counter that reaches its limit ends the run or the leg in the step that counts; `RunsLeft`: a START in hand has a run number left |

**Radio** (`RadioProofs`)

| Theorem | States | Argument |
|---|---|---|
| `RadioTypes` | `[]RadioTypeOK`, and that a fragment copy stays below the buffer's limit | one lemma per processor, and that the steps of the others leave it alone |
| `RxThreadFree` | `[]RxThreadNotBehindSend` | `EnvelopeInv`: nobody but the receiving task ever holds the receiving envelope |
| `TeardownsStop` | `[]TeardownsBounded` | `TeardownInv`. The counter of attempts is written by two tasks without a lock, and an update can be lost; the invariant shows that the loss costs one attempt only, because the frame that resets the counter stamped the link before |
| `WholeFrames` | `DeliveredWhole` | `GroundInv`: packets counted since the buffer was emptied, and `LengthTellsWhole`: with one packet lost the length can be right only if nothing is missing |

**Snapshots, sensors** (`SampleSnapshotProofs`, `ImuChainProofs`, `SensingProofs`)

| Theorem | States | Argument |
|---|---|---|
| `SnapshotTypes`, `SnapshotReadsWhole`, `SnapshotPublishedStable` | the two-slot protocol, for any words and readers | `SnapshotInv`: a slot with an even version holds one sample, versions only grow, and a reader's words are of the version it saw or the version has changed since |
| `ChainSamplesWhole`, `ChainSampleReadable`, `ChainTypes` | `[]SamplesWhole`, `[]SampleReadable`, `[]ImuChainTypeOK` | the snapshot theorems, instantiated for both snapshots of the IMU chain |
| `CachedFramesWhole`, `RangingTypes` | `[]FramesWhole`, `[]RangingTypeOK` | `RangeInv`: the reader owns the slot it writes and the processor the one it copies, and parts not yet read or copied are accounted for |
| `GpsReadNeverWaits`, `GpsTypesKept` | `[]ReadNeverWaits`, `[]GpsTypeOK` | `Announced`: the ring never holds fewer pieces than the events in the queue and the one being handled announce; the order of flush and reset keeps it |
| `CalibrationStaysKept`, `CalibrationTypes` | `[]CalibrationKept`, `[]CalibrationTypeOK` | `CalInv` with where the record is at each point of the hand-over, refused and given up included (`HandOver`, `Saved`, `OneRun`), and `NotAhead`: runs are numbered upwards, and no record in use, in fusion or waiting for it is of a later run than the one in flash |
| `ImuStaysReported`, `HealthTypesKept` | `[]ImuReported`, `[]HealthTypeOK` | `AgExcused`, `MagExcused`: a chip that is not OK has a reason the next moving read removes |
| `SensingTypes` | `MCSpec => []SensingTypeOK` | the five parts share no variable: a step of one is a step of its own specification and a stutter of the others (`EachPartAlone`) |

**Dashboard** (`DashboardProofs`)

| Theorem | States | Argument |
|---|---|---|
| `SendsStayWhole`, `SocketsCloseBetweenSends` | `[](SendsOneMessage /\ ListedIsOpen)`, `ClosesBetweenSends` | `LinkInv`: exactly one of the TX task and the HTTP task has the buffer (`Turns`); the close queue has room because every descriptor in it is distinct |
| `CameraStaysKept` | `[]CameraKept` | `CamInv`: who has the lock is the only one past it (`Owner`), and its place says whether a buffer is out (`Buffers`) |
| `WsTransportTypes` | `[]WsTransportTypeOK` | the client list holds distinct descriptors and grows only while it is below its table (`ClientsGrow`) |

### Assumptions that carry weight

* `ActionQueueLen >= 3`: with two, a DISARM, BEGIN and COMPLETE published while the control task is delayed would lose the COMPLETE.
* `LinkTimeout = DriveTimeout` (`motor_control.c:46` takes the arbiter's timeout): a drive proposal and the link go silent together.
* `NoiseTicks >= LinkTimeout`, a hypothesis of `SweepReleased` alone. The default noise phase is 1 s against 400 ms, but
  `Kconfig.projbuild:620` allows 10 to 1000 ticks: below 40 a stick that was live when the sweep began may still be live when it ends, and
  the sweep's throttle then stays until the link times out. TLC finds that behaviour with `NoiseTicks = 0` and `LinkTimeout = 1`.
* `HomeFixes > 2`, a hypothesis of `StopWins` alone (15 in `mission.c:28`). With two, the mission task's copy of a STOP that came while the
  run was beginning arrives a pass after HOME, and the run drives for a cycle; TLC finds it.
* `Cardinality(Fd) <= CloseQSize`: the server has seven connections, the queue eight places. The close in place of a full queue
  (`ws_transport.c:319-322`) therefore never runs, in the code as in the model, and no property is about it.
* `1 \in Sizes` in the radio: a frame of one packet exists (heartbeats).
* A snapshot's numbers without a gap, for `SnapshotPublishedStable`.

Only model-checked: the liveness properties `DisarmDelivered`, `ArmingResolves`, `EndReported`, `Healing`, `SendsGoOn` and
`FramesProcessed`. Temporal reasoning under fairness is out of the prover's reach, and so is induction over data, which what the recursive
computations return would need.

## 6. Not modelled

* Floating-point laws: the fusion filter, heading hold, learner, SAS, calibration fits, planner and path follower. TLC cannot
  enumerate them; where something discrete depends on them, the models choose either way.
* The two assist requests of one command and the bench run's samples: hazards in `PROJECT.json` without a property, each with the reason.
* The limit of eight attempts of the GPS snapshot's reader, which otherwise follows the protocol of `SampleSnapshot`: eight publications
  at the GPS rate would have to fall into one copy.
* The dispatch of messages in `pipeline.c`, the encoding of messages, NMEA and UBX text, register access: conversions without control.
* The ground bridge's USB side, the WiFi manager, the dataset log's files, the SD card, runtime metrics, boot order of the tasks: I/O, or state no decision reads.
* Ground station, dashboard page and simulators: the models let clients send any command at any time.
* Generated code (`proto/boat.pb.*`), vendored code and tests.

## 7. Plan

Done: arbiter, sequence, ESC, mission owner, control task; mission and autonomy with the abstract specification and its
refinement; arming with its own; the radio link; dashboard and camera; the sensor tasks; a theorem for every invariant and action property the
passing runs check.

Next, in order:

1. PWR-OFF, PWR-ON and DISARM in one cycle: how many cycles the jets keep their thrust, and what a permission given back by PWR-ON
   may still arm.
2. The bench run's record hand-off in `MotorControl`, after the pattern of `Autonomy`.
3. The assist switches and the learner's ownership, as modes without their arithmetic.
4. The downlink side of the ground bridge, and WiFi mode of the transport.
