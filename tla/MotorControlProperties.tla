------------------------ MODULE MotorControlProperties ------------------------
(***************************************************************************)
(* What motor_control.c must guarantee, over the model in MotorControl.    *)
(***************************************************************************)
EXTENDS MotorControl

(* Every variable keeps to the values its C type and its writers allow;    *)
(* the two FreeRTOS queues never exceed their length.                      *)
TypeOK ==
  /\ pc \in ControlPc
  /\ decision \in Decision
  /\ action \in ArmAction
  /\ safe_stop \in BOOLEAN
  /\ internal_disarm \in BOOLEAN
  /\ arbiter \in Arbiter /\ Len(arbiter.events) <= EventCapacity
  /\ link_age \in 0 .. LinkTimeout
  /\ control_failsafe \in BOOLEAN
  /\ request_queue \in Seq(ArmRequest) /\ Len(request_queue) <= RequestQueueLen
  /\ action_queue \in Seq({"BEGIN", "COMPLETE", "DISARM"})
  /\ Len(action_queue) <= ActionQueueLen
  /\ sequence \in Sequence
  /\ seq_pc \in {"wait", "step"}
  /\ esc \in Esc
  /\ rail \in BOOLEAN
  /\ winch \in WinchDemand
  /\ steer \in SteerDemand \cup {"full"}
  /\ rail_cut \in BOOLEAN
  /\ arm_power_allowed \in BOOLEAN
  /\ setpoint \in Setpoint
  /\ auto_stop \in BOOLEAN
  /\ aborted_run \in 0 .. MaxRuns
  /\ abort_reason \in AbortReason
  /\ auto_out \in AutoOut
  /\ release_zero \in BOOLEAN
  /\ sweep \in Sweep
  /\ bench \in Bench
  /\ compass \in {"off", "claimed", "running"}
  /\ session \in Sessions

Queued(queue, item) == \E i \in DOMAIN queue : queue[i] = item

ToApply(act) == pc = "apply" /\ action = act

(* A disarm is on its way round the two queues and the ArmSeq task.        *)
DisarmInFlight ==
  \/ \E i \in DOMAIN request_queue : request_queue[i].request = "DISARM"
  \/ sequence.state = "DISARM_PENDING"
  \/ Queued(action_queue, "DISARM")
  \/ ToApply("DISARM")

InFlight(act) == Queued(action_queue, act) \/ ToApply(act)

(* The ESC driver and the ArmSeq task's sequence are two copies of one     *)
(* state, kept by two tasks that talk through two queues.  Wherever they   *)
(* differ, the action or the disarm that will reconcile them is in flight: *)
(* neither can be left armed, or arming, behind the other's back           *)
(* (control_apply_arm_action, submit_arm_request, publish_arm_action).     *)
EscFollowsSequence ==
  \/ DisarmInFlight
  \/ /\ esc.state = "armed"  => sequence.state = "ARMED"
     /\ esc.state = "arming" =>
          \/ sequence.state = "ARMING"
          \/ sequence.state = "ARMED" /\ InFlight("COMPLETE")
     /\ esc.state = "disarmed" =>
          \/ sequence.state \in {"DISARMED", "ARM_PENDING"}
          \/ sequence.state \in {"ARMING", "ARMED"} /\ InFlight("BEGIN")

(* publish_arm_action drops a BEGIN or a COMPLETE when the action queue is *)
(* full, and nobody retries it.  It never is: a disarm empties it, and a   *)
(* sequence publishes at most two actions between two disarms.             *)
ActionNeverDropped ==
  \A gps_locked \in BOOLEAN :
    seq_pc = "step" /\ StepAction(sequence, gps_locked) \in {"BEGIN", "COMPLETE"}
      => Len(action_queue) < ActionQueueLen

(* A cycle leaves the stick's thrust on the jets only if its decision had  *)
(* a live stick: a silent link, a timed-out or a missing drive command     *)
(* zeroes it, whoever owned the jets or cut the rail in between, and a     *)
(* link that only other commands keep alive does not replace one.  Let     *)
(* through are a cycle that takes a PWR-OFF, which writes no throttle      *)
(* (motor_control.c:1551), one in which a command revived a silent link    *)
(* after the decision (the next cycle acts on it), and one that a mission  *)
(* owns (its write comes last).                                            *)
StickThrustIsLive ==
  [][ pc = "outputs" /\ pc' = "calibration" /\ esc'.thrust = "stick"
        => \/ ~arbiter.was_failsafe
           \/ LinkAlive /\ control_failsafe
           \/ decision.servo_power_off
           \/ auto_out.own ]_vars

(* After an explicit PWR-OFF the servo rail stays off, whatever the winch, *)
(* the rudder, a mission or a calibration ask for (motor_control.c:448).   *)
RailCutHolds == rail_cut => ~rail

(* A mission never owns the jets together with a bench run or a sweep.     *)
MissionExcludesOthers == auto_out.own => ~sweep.active /\ ~bench.active

(* A bench run is the only thing that leaves bench thrust on the jets.     *)
BenchThrustOwned ==
  pc = "idle" /\ esc.thrust = "bench" => bench.active

(* The cycle that ends a sweep leaves none of its throttle on the jets,    *)
(* although calibration_tick writes no zero there: it relies on the manual *)
(* path, which zeroes them while the link is silent and rewrites them when *)
(* it comes back (motor_control.c:2505).  Let through are a command that   *)
(* came after the cycle's decision (the next one rewrites the jets) and a  *)
(* PWR-OFF, the case of SweepAbortStopsJets.                               *)
SweepThrustReleased ==
  [][ pc = "calibration" /\ sweep.active /\ ~sweep'.active
        => \/ esc'.thrust # "sweep"
           \/ sweep.touched /\ control_failsafe
           \/ rail_cut ]_vars

(* "Every abort: throttle -> 0" (the trim calibration's design, section 7):*)
(* not when a PWR-OFF aborts the sweep.  Its cycle brings the link back to *)
(* life and writes no throttle, and the next ones see no change to write.  *)
SweepAbortStopsJets ==
  pc = "idle" /\ esc.thrust = "sweep" => sweep.active

(* "While active, calibration is the exclusive ESC command source" (the    *)
(* same design, section 6): not during a bench run, which refuses to start *)
(* during a sweep but is not looked at when a sweep starts.                *)
SweepExcludesBench == ~(sweep.active /\ bench.active)

(* While a compass calibration runs, the ESCs are never armed: the claim   *)
(* is set before the ESC state is read, and looked at before each arm      *)
(* action is applied, by tasks on two cores.                               *)
CompassNeverArmed == compass = "running" => esc.state # "armed"

(* An accepted DISARM disarms the ESCs, through a full event ring, a full  *)
(* request queue, and whatever else is in flight.                          *)
DisarmDelivered == "disarm" \in arbiter.urgent ~> esc.state = "disarmed"

(* The ESCs never stay arming: the grace that keeps a silent link from     *)
(* disarming them ends with the sequence.                                  *)
ArmingResolves == esc.state = "arming" ~> esc.state # "arming"

-------------------------------------------------------------------------------
(* An order to arm is open: in the arbiter, in a cycle's decision, in a    *)
(* queue, or with the ArmSeq task.                                         *)
OrderOpen ==
  \/ \E event \in {"arm", "force_arm"} : Pending(arbiter, event)
  \/ decision.arm \/ decision.force_arm
  \/ \E i \in DOMAIN request_queue : request_queue[i].request = "ARM"
  \/ sequence.state = "ARM_PENDING"
  \/ InFlight("BEGIN")

(* The decision of a cycle that has applied a disarm is not submitted.     *)
DisarmOpen ==
  \/ Pending(arbiter, "disarm")
  \/ decision.disarm /\ ~internal_disarm
  \/ DisarmInFlight

Orders == INSTANCE Arming WITH
  phase  <- esc.state,
  order  <- OrderOpen,
  permit <- arm_power_allowed /\ ~decision.disarm,
  disarm <- DisarmOpen

(* The tasks, queues and cycles of control_apply_decision                  *)
(* (motor_control.c:1508) together keep the operator's view of arming: no  *)
(* arming without an order and a permission, no disarm lost between a      *)
(* handler and the ESCs, none that leaves an older order its permission.   *)
ImplementsArming == Orders!OrdersSpec
===============================================================================
