----------------------------- MODULE MotorControl -----------------------------
(***************************************************************************)
(* main/motor_control.c with the pure state machines it drives.            *)
(*                                                                         *)
(* Tasks and their interleaving:                                           *)
(*   - the control task (priority 10, core 0) runs one cycle at a time, in *)
(*     the steps of run_control_cycle; `pc` is where it stands, and every  *)
(*     other task may act between two of its steps;                        *)
(*   - the ArmSeq task (priority 9, core 0) waits for a request or for its *)
(*     deadline, then steps the arming sequence and publishes an action;   *)
(*   - the receiving tasks run the command handlers, each under the        *)
(*     arbiter's lock, hence atomic;                                       *)
(*   - the autonomy task publishes mission setpoints, the compass task     *)
(*     claims the boat for a calibration, the diagnostics task saves a     *)
(*     finished bench run.                                                 *)
(* Time is a tick that makes every stamp older.  A stamp is an age that    *)
(* saturates where the code stops telling ages apart.                      *)
(***************************************************************************)
EXTENDS ControlArbiter, ArmSequence, EscDriver, AutoDrive

CONSTANTS
  LinkTimeout,      \* CONTROL_LINK_TIMEOUT_US in ticks, motor_control.c:46
  CalLinkTimeout,   \* CAL_LINK_TIMEOUT_US in ticks, motor_control.c:124
  NoiseTicks,       \* length of the sweep's motors-off noise phase in ticks
  RequestQueueLen,  \* ARM_REQUEST_QUEUE_LENGTH
  ActionQueueLen,   \* ARM_ACTION_QUEUE_LENGTH
  Sessions,         \* bound of the model: the sets of commands one behaviour may see
  PreemptAt         \* bound of the model: where the control task is preempted

ControlPc ==
  {"idle", "auto", "action", "apply", "outputs", "calibration", "bench", "auto_tick"}

CommandKind ==
  {"motor", "winch", "steer", "power_on", "power_off", "arm", "force_arm", "disarm",
   "calibrate", "bench", "mission", "mission_stop", "compass"}

ASSUME MotorControlAssumption ==
  /\ LinkTimeout \in Nat \ {0} /\ LinkTimeout = DriveTimeout   \* motor_control.c:46
  /\ CalLinkTimeout \in Nat \ {0}
  /\ NoiseTicks \in Nat
  /\ RequestQueueLen \in Nat \ {0}
  /\ ActionQueueLen \in Nat /\ ActionQueueLen >= 3
  /\ Sessions \subseteq SUBSET CommandKind
  /\ PreemptAt \subseteq ControlPc

VARIABLES
  pc,                  \* the control task's next step
  decision,            \* its decision of this cycle
  action,              \* the arm action it took from the queue this cycle
  safe_stop,           \* control_apply_decision's safe_stop when it took it
  internal_disarm,     \* control_apply_arm_action's result
  arbiter,             \* s_arbiter
  link_age,            \* age of s_last_control_rx_us
  control_failsafe,    \* s_control_failsafe
  request_queue,       \* s_arm_request_queue
  action_queue,        \* s_arm_action_queue
  sequence,            \* task_arm_sequence's sequence
  seq_pc,              \* where the ArmSeq task stands
  esc,                 \* the ESC driver
  rail, winch, steer,  \* servo rail power, winch, rudder servo
  rail_cut,            \* s_rail_cut
  arm_power_allowed,   \* s_arm_power_allowed
  setpoint,            \* s_auto_sp
  auto_stop,           \* s_auto_stop_pending
  aborted_run,         \* s_auto.aborted_run_id
  abort_reason,        \* s_auto.abort_reason
  auto_out,            \* s_auto_out
  release_zero,        \* s_auto_release_zero
  sweep,               \* the ESC trim calibration, with its pending requests
  bench,               \* the bench run, with its pending requests
  compass,             \* the compass calibration's claim on the boat
  session              \* bound of the model: the commands sent in this behaviour

localVars   == <<decision, action, safe_stop, internal_disarm>>
linkVars    == <<link_age, control_failsafe>>
armVars     == <<request_queue, action_queue, sequence, seq_pc>>
servoVars   == <<rail, winch, steer>>
permitVars  == <<rail_cut, arm_power_allowed>>
autoVars    == <<setpoint, auto_stop, aborted_run, abort_reason, auto_out, release_zero>>
otherVars   == <<compass, session>>
vars == <<pc, localVars, arbiter, linkVars, armVars, esc, servoVars, permitVars,
          autoVars, sweep, bench, otherVars>>

Sweep ==
  [ active : BOOLEAN, phase : {"noise", "level"}, noise_left : 0 .. NoiseTicks,
    start_pending : BOOLEAN, stop_pending : BOOLEAN, ready : BOOLEAN,
    rx_age : 0 .. CalLinkTimeout, touched : BOOLEAN ]

Bench ==
  [active : BOOLEAN, start_pending : BOOLEAN, abort_pending : BOOLEAN,
   save_pending : BOOLEAN]

(* Everything but what arming changes.                                     *)
QuietInit ==
  /\ session \in Sessions
  /\ pc = "idle"
  /\ decision = NoDecision
  /\ action = "NONE"
  /\ safe_stop = FALSE
  /\ internal_disarm = FALSE
  /\ arbiter = ArbiterInit
  /\ link_age = LinkTimeout
  /\ control_failsafe = TRUE
  /\ request_queue = << >>
  /\ action_queue = << >>
  /\ seq_pc = "wait"
  /\ winch = "stopped"
  /\ steer = "centre"
  /\ rail_cut = FALSE
  /\ setpoint = SetpointInit
  /\ auto_stop = FALSE
  /\ aborted_run = 0
  /\ abort_reason = "NONE"
  /\ auto_out = AutoOutInit
  /\ release_zero = FALSE
  /\ sweep = [active |-> FALSE, phase |-> "noise", noise_left |-> NoiseTicks,
              start_pending |-> FALSE, stop_pending |-> FALSE, ready |-> TRUE,
              rx_age |-> CalLinkTimeout, touched |-> FALSE]
  /\ bench = [active |-> FALSE, start_pending |-> FALSE, abort_pending |-> FALSE,
              save_pending |-> FALSE]

(* At boot the compass calibration may hold its claim already              *)
(* (compass_cal_lock_for_boot).                                            *)
Init ==
  /\ QuietInit
  /\ sequence = SequenceInit
  /\ esc = EscInit
  /\ rail = FALSE
  /\ arm_power_allowed = FALSE
  /\ compass \in {"off"} \cup {c \in {"claimed"} : "compass" \in session}

(* The boat as arming leaves it, once the link has fallen silent: the      *)
(* sequence is done, nothing is in flight, the permission is spent.        *)
ArmedInit ==
  /\ QuietInit
  /\ sequence = [SequenceInit EXCEPT !.state = "ARMED"]
  /\ esc = [EscInit EXCEPT !.state = "armed"]
  /\ rail = FALSE
  /\ arm_power_allowed = FALSE
  /\ compass = "off"

LinkAlive == link_age < LinkTimeout

(* The other tasks act where the control task is preempted: between two of *)
(* its steps, or on the other core.                                        *)
Preempted == pc \in PreemptAt

-------------------------------------------------------------------------------
(* The command handlers, run by a receiving task.                          *)

(* notify_link_rx_locked: an accepted manual command is proof of the link. *)
(* It refreshes the drive proposal's stamp too, and a sweep notices it.    *)
NotifyLinkRx(arb) ==
  /\ link_age' = 0
  /\ arbiter' = NotifyLink(arb)
  /\ sweep' = [sweep EXCEPT !.touched = @ \/ sweep.active]

HandlerFrame ==
  /\ Preempted
  /\ UNCHANGED <<pc, localVars, control_failsafe, armVars, esc, servoVars, permitVars,
                 setpoint, aborted_run, abort_reason, auto_out, release_zero, otherVars>>

(* A command that is refused, out of range or stale, changes nothing: it   *)
(* is a stuttering step, and only the accepted ones are actions here.      *)
MotorCommand ==
  /\ "motor" \in session
  /\ \E value \in Demand :
       /\ DriveAccepted(arbiter, value, TRUE)
       /\ NotifyLinkRx(SubmitDrive(arbiter, value, TRUE))
  /\ UNCHANGED <<auto_stop, bench>>
  /\ HandlerFrame

WinchCommand ==
  /\ "winch" \in session
  /\ \E value \in WinchDemand :
       /\ WinchAccepted(arbiter, value, TRUE)
       /\ NotifyLinkRx(SubmitWinch(arbiter, value, TRUE))
  /\ UNCHANGED <<auto_stop, bench>>
  /\ HandlerFrame

SteerCommand ==
  /\ "steer" \in session
  /\ \E value \in SteerDemand :
       /\ SteerAccepted(arbiter, value, TRUE)
       /\ NotifyLinkRx(SubmitSteer(arbiter, value, TRUE))
  /\ UNCHANGED <<auto_stop, bench>>
  /\ HandlerFrame

(* servo_power_command_handler and arm_command_handler.                    *)
EventCommand ==
  /\ \E event \in EventKind \cap session :
       /\ EventAccepted(arbiter, event)
       /\ NotifyLinkRx(PushEvent(arbiter, event))
  /\ UNCHANGED <<auto_stop, bench>>
  /\ HandlerFrame

(* A calibration request keeps the sweep alive and never the driving link. *)
CalibrateCommand ==
  /\ "calibrate" \in session
  /\ \E start \in BOOLEAN :
       sweep' = [sweep EXCEPT !.start_pending = @ \/ start,
                              !.stop_pending  = @ \/ ~start,
                              !.rx_age = 0]
  /\ UNCHANGED <<arbiter, link_age, auto_stop, bench>>
  /\ HandlerFrame

(* An abort also cancels a start that is still waiting.                    *)
BenchCommand ==
  /\ "bench" \in session
  /\ \E abort \in BOOLEAN :
       bench' = [bench EXCEPT !.abort_pending = @ \/ abort, !.start_pending = ~abort]
  /\ UNCHANGED <<arbiter, link_age, auto_stop, sweep>>
  /\ HandlerFrame

(* motor_control_request_auto_stop, for MissionCommand.stop.               *)
MissionStop ==
  /\ "mission_stop" \in session
  /\ auto_stop' = TRUE
  /\ UNCHANGED <<arbiter, link_age, sweep, bench>>
  /\ HandlerFrame

-------------------------------------------------------------------------------
(* The autonomy, compass and diagnostics tasks.                            *)

(* The autonomy task publishes a setpoint each step, for the run it is in  *)
(* or for the next one.  A new run takes a new id.                         *)
PublishSetpoint ==
  /\ Preempted /\ "mission" \in session
  /\ \E run \in {setpoint.run_id, setpoint.run_id + 1} \cap (0 .. MaxRuns),
        active, drive, dry \in BOOLEAN :
       /\ run = 0 => ~active
       /\ drive => active
       /\ run = setpoint.run_id /\ run # 0 => dry = setpoint.dry_run
       /\ setpoint' = [run_id |-> run, active |-> active, drive |-> drive,
                       dry_run |-> dry /\ run # 0, age |-> 0]
  /\ UNCHANGED <<pc, localVars, arbiter, linkVars, armVars, esc, servoVars, permitVars,
                 auto_stop, aborted_run, abort_reason, auto_out, release_zero, sweep, bench,
                 otherVars>>

CompassFrame ==
  /\ Preempted
  /\ UNCHANGED <<pc, localVars, arbiter, linkVars, armVars, esc, servoVars, permitVars,
                 autoVars, sweep, bench, session>>

(* task_compass_cal: the claim is set first,                               *)
CompassClaim ==
  /\ "compass" \in session
  /\ compass = "off" /\ compass' = "claimed"
  /\ CompassFrame

(* then start_checked looks at the ESC, and refuses or runs;               *)
CompassCheck ==
  /\ compass = "claimed"
  /\ compass' = IF esc.state = "disarmed" THEN "running" ELSE "off"
  /\ CompassFrame

(* run_once clears the claim when the calibration ends, however it ends.   *)
CompassEnd ==
  /\ compass = "running" /\ compass' = "off"
  /\ CompassFrame

CompassActive == compass # "off"

(* motor_control_bench_flush.                                              *)
BenchFlush ==
  /\ Preempted /\ bench.save_pending
  /\ bench' = [bench EXCEPT !.save_pending = FALSE]
  /\ UNCHANGED <<pc, localVars, arbiter, linkVars, armVars, esc, servoVars, permitVars,
                 autoVars, sweep, otherVars>>

-------------------------------------------------------------------------------
(* The ArmSeq task and the two queues.                                     *)

(* Mutant: a request is queued whether or not there is room.               *)
AfterSubmitUnbounded(queue, request, force) ==
  IF request = "DISARM" THEN <<[request |-> "DISARM", force |-> FALSE]>>
  ELSE Append(queue, [request |-> request, force |-> force])

(* Mutant: a DISARM waits its turn behind the requests already queued.     *)
AfterSubmitInOrder(queue, request, force) ==
  IF Len(queue) < RequestQueueLen
    THEN Append(queue, [request |-> request, force |-> force]) ELSE queue

(* submit_arm_request: a DISARM empties the queue first, so it always fits;*)
(* an ARM is dropped when the queue is full.                               *)
AfterSubmit(queue, request, force) ==
  IF request = "DISARM" THEN <<[request |-> "DISARM", force |-> FALSE]>>
  ELSE IF Len(queue) < RequestQueueLen
    THEN Append(queue, [request |-> request, force |-> force])
  ELSE queue

(* Mutant: a DISARM joins the back of the queue without emptying it.       *)
AfterPublishInOrder(queue, act) ==
  IF act \in {"NONE", "REJECT_NO_GPS"} \/ Len(queue) >= ActionQueueLen
    THEN queue ELSE Append(queue, act)

(* publish_arm_action: the same rules for the actions.                     *)
AfterPublish(queue, act) ==
  IF act \in {"NONE", "REJECT_NO_GPS"} THEN queue
  ELSE IF act = "DISARM" THEN <<act>>
  ELSE IF Len(queue) < ActionQueueLen THEN Append(queue, act)
  ELSE queue

ArmSeqFrame ==
  /\ Preempted
  /\ UNCHANGED <<pc, localVars, arbiter, linkVars, esc, servoVars, permitVars, autoVars,
                 sweep, bench, otherVars>>

ArmSeqReceive ==
  /\ seq_pc = "wait" /\ request_queue # << >>
  /\ sequence' = Request(sequence, Head(request_queue))
  /\ request_queue' = Tail(request_queue)
  /\ seq_pc' = "step"
  /\ UNCHANGED action_queue
  /\ ArmSeqFrame

(* The wait ends at the deadline of an arming sequence.                    *)
ArmSeqTimeout ==
  /\ seq_pc = "wait" /\ request_queue = << >> /\ DeadlineReached(sequence)
  /\ seq_pc' = "step"
  /\ UNCHANGED <<request_queue, action_queue, sequence>>
  /\ ArmSeqFrame

ArmSeqStep ==
  /\ seq_pc = "step"
  /\ \E gps_locked \in BOOLEAN :
       LET act == StepAction(sequence, gps_locked) IN
       /\ sequence' = AfterStep(sequence, act)
       /\ action_queue' = AfterPublish(action_queue, act)
  /\ seq_pc' = "wait"
  /\ UNCHANGED request_queue
  /\ ArmSeqFrame

-------------------------------------------------------------------------------
(* run_control_cycle: the control task, one step at a time.                *)

(* Mutant: a change of the general link state is not a changed command.    *)
CycleBeginDriveEdgeOnly ==
  /\ pc = "idle"
  /\ decision' = Decide(arbiter)
  /\ arbiter' = AfterDecide(arbiter)
  /\ control_failsafe' = ~LinkAlive
  /\ pc' = "auto"
  /\ UNCHANGED <<action, safe_stop, internal_disarm, link_age, armVars, esc, servoVars,
                 permitVars, autoVars, sweep, bench, otherVars>>

(* control_arbiter_decide under the lock.  A change of the general link    *)
(* state counts as a changed drive command.                                *)
CycleBegin ==
  /\ pc = "idle"
  /\ decision' = [Decide(arbiter) EXCEPT !.drive_changed = @ \/ control_failsafe # ~LinkAlive]
  /\ arbiter' = AfterDecide(arbiter)
  /\ control_failsafe' = ~LinkAlive
  /\ pc' = "auto"
  /\ UNCHANGED <<action, safe_stop, internal_disarm, link_age, armVars, esc, servoVars,
                 permitVars, autoVars, sweep, bench, otherVars>>

(* manual_input_in: a new manual command that is not zero.                 *)
ManualInput ==
  \/ decision.drive_changed /\ decision.demand # "zero"
  \/ decision.steer_changed /\ decision.steer # "centre"
  \/ decision.winch_changed /\ decision.winch # "stopped"

AutoInputs ==
  [ armed        |-> esc.state = "armed",
    rail_cut     |-> rail_cut \/ decision.servo_power_off,
    other_owner  |-> sweep.active \/ bench.active \/ CompassActive,
    manual_input |-> ManualInput,
    stop_request |-> auto_stop ]

(* Mutant: the owner lets go without asking for the zero.                  *)
ReleaseNothing(before, after) == release_zero

(* A change of ownership decides whether the jets must be zeroed once.     *)
ReleaseZero(before, after) ==
  IF before.own # after.own THEN before.own /\ after.abort # "MANUAL" ELSE release_zero

(* auto_decide: the mission's claim on the jets for this cycle.            *)
AutoDecide ==
  /\ pc = "auto"
  /\ auto_out' = AutoStep(setpoint, aborted_run, AutoInputs)
  /\ aborted_run' = IF auto_out'.abort # "NONE" THEN setpoint.run_id ELSE aborted_run
  /\ abort_reason' = IF auto_out'.abort # "NONE" THEN auto_out'.abort ELSE abort_reason
  /\ release_zero' = ReleaseZero(auto_out, auto_out')
  /\ auto_stop' = FALSE
  /\ pc' = "action"
  /\ UNCHANGED <<localVars, arbiter, linkVars, armVars, esc, servoVars, permitVars,
                 setpoint, sweep, bench, otherVars>>

-------------------------------------------------------------------------------
(* control_apply_decision.                                                 *)

(* Mutant: a dead link does not stop the boat.                             *)
SafeStopByCommandOnly == decision.servo_power_off \/ decision.disarm

(* A dead link is forgiven while the ESCs are arming.                      *)
SafeStop ==
  \/ decision.servo_power_off
  \/ decision.disarm
  \/ ~LinkAlive /\ esc.state # "arming"

RequestDisarm == request_queue' = AfterSubmit(request_queue, "DISARM", FALSE)

(* Mutant: the claim is looked at for the first action only.               *)
RefusedForCompassBegin(act) == act = "BEGIN" /\ CompassActive

(* A boat being calibrated by hand takes neither arm action.               *)
RefusedForCompass(act) == act \in {"BEGIN", "COMPLETE"} /\ CompassActive

(* control_apply_arm_action, first half: take one action, and look at the  *)
(* compass task's claim.                                                   *)
TakeArmAction ==
  /\ pc = "action"
  /\ \/ /\ action_queue = << >>
        /\ pc' = "outputs"
        /\ UNCHANGED <<action, safe_stop, action_queue, esc, request_queue>>
     \/ /\ action_queue # << >>
        /\ action_queue' = Tail(action_queue)
        /\ IF RefusedForCompass(Head(action_queue))
             THEN /\ pc' = "outputs"
                  /\ esc' = Disarm(esc)
                  /\ RequestDisarm
                  /\ UNCHANGED <<action, safe_stop>>
             ELSE /\ pc' = "apply"
                  /\ action' = Head(action_queue)
                  /\ safe_stop' = SafeStop
                  /\ UNCHANGED <<esc, request_queue>>
  /\ UNCHANGED <<decision, internal_disarm, arbiter, linkVars, sequence, seq_pc, servoVars,
                 permitVars, autoVars, sweep, bench, otherVars>>

ApplyFrame ==
  /\ pc = "apply" /\ pc' = "outputs"
  /\ action' = "NONE" /\ safe_stop' = FALSE   \* their scope ends here
  /\ UNCHANGED <<arbiter, linkVars, action_queue, sequence, seq_pc, servoVars, permitVars,
                 autoVars, sweep, bench, otherVars>>

ArmPermitted == ~safe_stop /\ arm_power_allowed

(* ARM_ACTION_BEGIN: start the arming hold, or call the sequence off.      *)
ApplyBegin ==
  /\ ApplyFrame /\ action = "BEGIN"
  /\ IF ArmPermitted /\ CanArmBegin(esc)
       THEN esc' = ArmBegin(esc) /\ UNCHANGED request_queue
       ELSE RequestDisarm /\ UNCHANGED esc
  /\ UNCHANGED <<decision, internal_disarm>>

(* ARM_ACTION_COMPLETE: arm and power the rail, or fall back to disarmed.  *)
ApplyComplete ==
  /\ ApplyFrame /\ action = "COMPLETE"
  /\ IF ArmPermitted /\ CanArmComplete(esc)
       THEN /\ esc' = ArmComplete(esc)
            /\ decision' = [decision EXCEPT !.servo_power_on = TRUE]
            /\ UNCHANGED request_queue
       ELSE /\ esc' = IF ArmPermitted THEN esc ELSE Disarm(esc)
            /\ RequestDisarm
            /\ UNCHANGED decision
  /\ UNCHANGED internal_disarm

(* Mutant: the cycle that applies a disarm goes on as if there were none.  *)
ApplyDisarmKeepsPermission ==
  /\ ApplyFrame /\ action = "DISARM"
  /\ esc' = Disarm(esc)
  /\ internal_disarm' = TRUE
  /\ UNCHANGED <<request_queue, decision>>

(* ARM_ACTION_DISARM: it overrides an arm of the same cycle.               *)
ApplyDisarm ==
  /\ ApplyFrame /\ action = "DISARM"
  /\ esc' = Disarm(esc)
  /\ decision' = [decision EXCEPT !.arm = FALSE, !.force_arm = FALSE, !.disarm = TRUE]
  /\ internal_disarm' = TRUE
  /\ UNCHANGED request_queue

(* The request a decision of the arbiter puts in the ArmSeq task's queue.  *)
SubmitForDecision(stopped) ==
  request_queue' =
    IF decision.disarm /\ ~internal_disarm
      THEN AfterSubmit(request_queue, "DISARM", FALSE)
    ELSE IF ~stopped /\ (decision.arm \/ decision.force_arm)
      THEN AfterSubmit(request_queue, "ARM", decision.force_arm)
    ELSE request_queue

OutputsFrame ==
  /\ pc = "outputs" /\ pc' = "calibration"
  /\ decision' = NoDecision /\ internal_disarm' = FALSE   \* their scope ends here
  /\ UNCHANGED <<action, safe_stop, arbiter, linkVars, action_queue, sequence, seq_pc, autoVars,
                 sweep, bench, otherVars>>

(* An explicit PWR-OFF cuts the rail until an explicit PWR-ON or an ARM.   *)
ApplyPowerOff ==
  /\ OutputsFrame /\ decision.servo_power_off
  /\ rail_cut' = TRUE
  /\ arm_power_allowed' = FALSE
  /\ rail' = FALSE
  /\ winch' = "stopped"
  /\ steer' = "full"
  /\ SubmitForDecision(TRUE)
  /\ UNCHANGED esc

(* A disarm or a dead link stops everything but what an owner drives.      *)
ApplySafeStop ==
  /\ OutputsFrame /\ ~decision.servo_power_off /\ SafeStop
  /\ arm_power_allowed' = FALSE
  /\ esc' = IF auto_out.own THEN esc ELSE SetThrottle(esc, "off")
  /\ winch' = "stopped"
  /\ steer' = "centre"
  /\ rail' = (rail /\ (sweep.active \/ bench.active \/ auto_out.own))
  /\ SubmitForDecision(TRUE)
  /\ UNCHANGED rail_cut

StickThrust == IF decision.demand = "zero" THEN "off" ELSE "stick"

(* Mutant: any winch or rudder command powers the rail.                    *)
PowersRailAlways(cut) ==
  \/ decision.servo_power_on
  \/ decision.winch_changed /\ decision.winch # "stopped"
  \/ decision.steer_changed /\ decision.steer # "centre"

(* What powers the rail: an explicit on, or a demand while it is not cut.  *)
PowersRail(cut) ==
  \/ decision.servo_power_on
  \/ /\ ~cut
     /\ \/ decision.winch_changed /\ decision.winch # "stopped"
        \/ decision.steer_changed /\ decision.steer # "centre"

(* The manual path.  `moved`: the trim learner or the heading hold changed *)
(* the mix this cycle, so the jets are written without a new command.      *)
ApplyManual ==
  /\ OutputsFrame /\ ~SafeStop
  /\ arm_power_allowed' =
       (arm_power_allowed \/ decision.arm \/ decision.force_arm \/ decision.servo_power_on)
  /\ rail_cut' = (rail_cut /\ ~decision.servo_power_on)
  /\ rail' = (rail \/ PowersRail(rail_cut'))
  /\ \E moved \in BOOLEAN :
       esc' = IF (decision.drive_changed \/ moved) /\ ~auto_out.own
                THEN SetThrottle(esc, StickThrust) ELSE esc
  /\ winch' = IF decision.winch_changed THEN decision.winch ELSE winch
  /\ steer' = IF decision.steer_changed THEN decision.steer ELSE steer
  /\ SubmitForDecision(FALSE)
-------------------------------------------------------------------------------
(* calibration_tick: the ESC trim sweep.                                   *)

CalLinkAlive == sweep.rx_age < CalLinkTimeout

(* A sweep starts on a clean edge only: a stop re-arms the latch that the  *)
(* last start, or a start refused because a mission owns the jets, spent.  *)
SweepReady  == sweep.ready \/ sweep.stop_pending
SweepAsked  == sweep.start_pending /\ ~sweep.active /\ SweepReady

SweepGranted ==
  SweepAsked /\ esc.state = "armed" /\ CalLinkAlive /\ ~rail_cut /\ ~auto_out.own

(* The sweep once this cycle's requests are consumed.                      *)
SweepNow ==
  [sweep EXCEPT !.start_pending = FALSE,
                !.stop_pending  = FALSE,
                !.ready   = SweepReady /\ ~SweepGranted /\ ~(SweepAsked /\ auto_out.own),
                !.active  = @ \/ SweepGranted,
                !.touched = @ /\ ~SweepGranted]

(* The causes that end a running sweep whatever it measures: disarmed, its *)
(* own link lost, a manual command, a stop, or the rail cut.               *)
SweepMustEnd ==
  \/ esc.state # "armed"
  \/ ~CalLinkAlive
  \/ SweepNow.touched \/ sweep.stop_pending \/ rail_cut

SweepEnded ==
  [SweepNow EXCEPT !.active = FALSE, !.phase = "noise", !.noise_left = NoiseTicks,
                   !.touched = FALSE]

CalibrationFrame ==
  /\ pc = "calibration" /\ pc' = "bench"
  /\ UNCHANGED <<localVars, arbiter, linkVars, armVars, rail, winch, permitVars, autoVars,
                 bench, otherVars>>

SweepIdle ==
  /\ CalibrationFrame /\ ~SweepNow.active
  /\ sweep' = SweepNow
  /\ UNCHANGED <<esc, steer>>

(* An end writes no throttle: what the manual path wrote this cycle stays. *)
(* An IMU fault, a yaw limit, a timeout or a clamp may end it at any tick, *)
(* and the last level of the last phase completes it.                      *)
SweepEnd ==
  /\ CalibrationFrame /\ SweepNow.active
  /\ sweep' = SweepEnded
  /\ UNCHANGED <<esc, steer>>

(* The noise phase measures with the motors off.                           *)
SweepNoise ==
  /\ CalibrationFrame /\ SweepNow.active /\ ~SweepMustEnd
  /\ sweep.phase = "noise"
  /\ sweep' = [SweepNow EXCEPT !.phase = IF sweep.active /\ sweep.noise_left = 0
                                           THEN "level" ELSE "noise"]
  /\ esc' = SetThrottle(esc, "off")
  /\ steer' = "centre"

SweepLevel ==
  /\ CalibrationFrame /\ SweepNow.active /\ ~SweepMustEnd
  /\ sweep.phase = "level"
  /\ sweep' = SweepNow
  /\ esc' = SetThrottle(esc, "sweep")
  /\ steer' = "centre"

-------------------------------------------------------------------------------
(* bench_tick.                                                             *)

BenchFrame ==
  /\ pc = "bench" /\ pc' = "auto_tick"
  /\ UNCHANGED <<localVars, arbiter, linkVars, armVars, rail, winch, permitVars, autoVars,
                 sweep, otherVars>>

BenchConsumed(active, saving) ==
  [active |-> active, start_pending |-> FALSE, abort_pending |-> FALSE,
   save_pending |-> saving]

(* Mutant: the start does not look for a mission.                          *)
BenchMayStartOverMission ==
  /\ bench.start_pending /\ ~bench.active /\ ~sweep.active
  /\ esc.state = "armed" /\ ~rail_cut /\ ~bench.save_pending

BenchMayStart ==
  /\ bench.start_pending /\ ~bench.active /\ ~sweep.active
  /\ esc.state = "armed" /\ ~rail_cut /\ ~bench.save_pending
  /\ ~auto_out.own

(* Mutant: STOP ends the run and leaves the jets as they are.              *)
BenchStopKeepsThrust ==
  /\ BenchFrame /\ bench.abort_pending
  /\ bench' = BenchConsumed(FALSE, bench.save_pending)
  /\ UNCHANGED <<esc, steer>>

(* STOP is looked at before the run is stepped, and zeroes the jets now.   *)
BenchStop ==
  /\ BenchFrame /\ bench.abort_pending
  /\ bench' = BenchConsumed(FALSE, bench.save_pending)
  /\ esc' = IF bench.active THEN SetThrottle(esc, "off") ELSE esc
  /\ UNCHANGED steer

(* No run, and none started: not asked for, or refused (a missing card and *)
(* bad parameters refuse one too).                                         *)
BenchIdle ==
  /\ BenchFrame /\ ~bench.abort_pending /\ ~bench.active
  /\ bench' = BenchConsumed(FALSE, bench.save_pending)
  /\ UNCHANGED <<esc, steer>>

(* A run starts with its motors-off baseline.                              *)
BenchStart ==
  /\ BenchFrame /\ ~bench.abort_pending /\ BenchMayStart
  /\ bench' = BenchConsumed(TRUE, FALSE)
  /\ esc' = SetThrottle(esc, "off")
  /\ steer' = "centre"

(* Baseline and coast keep the motors off, the run itself drives them.     *)
BenchRun ==
  /\ BenchFrame /\ ~bench.abort_pending /\ bench.active /\ esc.state = "armed"
  /\ bench' = BenchConsumed(TRUE, bench.save_pending)
  /\ \E thrust \in {"off", "bench"} : esc' = SetThrottle(esc, thrust)
  /\ steer' = "centre"

(* Disarmed or turning too fast: nothing is saved.                         *)
BenchFail ==
  /\ BenchFrame /\ ~bench.abort_pending /\ (bench.active \/ BenchMayStart)
  /\ bench' = BenchConsumed(FALSE, bench.save_pending)
  /\ esc' = SetThrottle(esc, "off")
  /\ UNCHANGED steer

(* The run is over: the file is written by the diagnostics task.           *)
BenchFinish ==
  /\ BenchFrame /\ ~bench.abort_pending /\ bench.active /\ esc.state = "armed"
  /\ bench' = BenchConsumed(FALSE, TRUE)
  /\ esc' = SetThrottle(esc, "off")
  /\ UNCHANGED steer

-------------------------------------------------------------------------------
(* auto_tick: the last ESC write of the cycle, and the end of the cycle.   *)

AutoTick ==
  /\ pc = "auto_tick" /\ pc' = "idle"
  /\ esc' = IF auto_out.own
               THEN SetThrottle(esc, IF auto_out.drive THEN "mission" ELSE "off")
             ELSE IF release_zero THEN SetThrottle(esc, "off")
             ELSE esc
  /\ rail' = (rail \/ (auto_out.own /\ auto_out.drive /\ ~rail_cut))
  /\ steer' = IF auto_out.own THEN "centre" ELSE steer
  /\ release_zero' = (release_zero /\ auto_out.own)
  /\ UNCHANGED <<localVars, arbiter, linkVars, armVars, winch, permitVars, setpoint, auto_stop,
                 aborted_run, abort_reason, auto_out, sweep, bench, otherVars>>

-------------------------------------------------------------------------------
Older(age, limit) == IF age < limit THEN age + 1 ELSE age

Tick ==
  /\ Preempted
  /\ arbiter' = AgeDrive(arbiter)
  /\ link_age' = Older(link_age, LinkTimeout)
  /\ sequence' = AgeSequence(sequence)
  /\ setpoint' = AgeSetpoint(setpoint)
  /\ sweep' = [sweep EXCEPT !.rx_age = Older(@, CalLinkTimeout),
                            !.noise_left = IF sweep.active /\ @ > 0 THEN @ - 1 ELSE @]
  /\ UNCHANGED <<pc, localVars, control_failsafe, request_queue, action_queue, seq_pc, esc,
                 servoVars, permitVars, auto_stop, aborted_run, abort_reason, auto_out,
                 release_zero, bench, otherVars>>

ApplyOutputs    == ApplyPowerOff \/ ApplySafeStop \/ ApplyManual
CalibrationTick == SweepIdle \/ SweepEnd \/ SweepNoise \/ SweepLevel
BenchTick       == BenchStop \/ BenchIdle \/ BenchStart \/ BenchRun \/ BenchFail \/ BenchFinish

ControlStep ==
  \/ CycleBegin \/ AutoDecide \/ TakeArmAction
  \/ ApplyBegin \/ ApplyComplete \/ ApplyDisarm
  \/ ApplyOutputs \/ CalibrationTick \/ BenchTick \/ AutoTick

ArmSeqTask == ArmSeqReceive \/ ArmSeqTimeout \/ ArmSeqStep

Handlers ==
  \/ MotorCommand \/ WinchCommand \/ SteerCommand \/ EventCommand
  \/ CalibrateCommand \/ BenchCommand \/ MissionStop

OtherTasks == PublishSetpoint \/ CompassClaim \/ CompassCheck \/ CompassEnd \/ BenchFlush

Next == ControlStep \/ ArmSeqTask \/ Handlers \/ OtherTasks \/ Tick

(* The control task runs every period; it sleeps between two cycles, so an *)
(* ArmSeq task that is ready gets the core it shares with it; time passes. *)
(* Nobody has to send a command.                                           *)
Fairness ==
  /\ WF_vars(ControlStep)
  /\ WF_vars(ArmSeqTask)
  /\ WF_vars(Tick)

Spec      == Init /\ [][Next]_vars
FairSpec  == Spec /\ Fairness
ArmedSpec == ArmedInit /\ [][Next]_vars
===============================================================================
