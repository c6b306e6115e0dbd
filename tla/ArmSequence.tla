----------------------------- MODULE ArmSequence -----------------------------
(***************************************************************************)
(* The arming sequencer: main/arm_sequence.c and .h.  A pure state machine *)
(* the ArmSeq task owns: a request moves it to a pending state, a step     *)
(* turns the pending state into the action the control task must apply.    *)
(* The deadline is kept as the ticks that remain before it.                *)
(***************************************************************************)
EXTENDS Naturals

CONSTANT ArmingDuration   \* ARMING_DURATION_US in ticks, motor_control.c:40

ASSUME ArmingAssumption == ArmingDuration \in Nat \ {0}

ArmSequenceState == {"DISARMED", "ARM_PENDING", "ARMING", "ARMED", "DISARM_PENDING"}

ArmRequest == [request : {"ARM", "DISARM"}, force : BOOLEAN]

ArmAction == {"NONE", "REJECT_NO_GPS", "BEGIN", "COMPLETE", "DISARM"}

Sequence == [state : ArmSequenceState, remaining : 0 .. ArmingDuration, force : BOOLEAN]

SequenceInit == [state |-> "DISARMED", remaining |-> 0, force |-> FALSE]

(* Mutant: an ARM is taken in any state.                                   *)
RequestArmAnyState(sequence, message) ==
  IF message.request = "DISARM"
    THEN [state |-> "DISARM_PENDING", remaining |-> 0, force |-> FALSE]
    ELSE [sequence EXCEPT !.state = "ARM_PENDING", !.force = message.force]

(* A DISARM is always taken; an ARM only by a disarmed sequence.           *)
Request(sequence, message) ==
  IF message.request = "DISARM"
    THEN [state |-> "DISARM_PENDING", remaining |-> 0, force |-> FALSE]
  ELSE IF sequence.state = "DISARMED"
    THEN [sequence EXCEPT !.state = "ARM_PENDING", !.force = message.force]
  ELSE sequence

DeadlineReached(sequence) == sequence.state = "ARMING" /\ sequence.remaining = 0

StepAction(sequence, gps_locked) ==
  CASE sequence.state = "DISARM_PENDING" -> "DISARM"
    [] sequence.state = "ARM_PENDING" /\ ~sequence.force /\ ~gps_locked -> "REJECT_NO_GPS"
    [] sequence.state = "ARM_PENDING" /\ (sequence.force \/ gps_locked) -> "BEGIN"
    [] DeadlineReached(sequence) -> "COMPLETE"
    [] OTHER -> "NONE"

(* The sequence after the step whose action is given.                      *)
AfterStep(sequence, action) ==
  CASE action = "DISARM"        -> [sequence EXCEPT !.state = "DISARMED", !.remaining = 0]
    [] action = "REJECT_NO_GPS" -> [sequence EXCEPT !.state = "DISARMED"]
    [] action = "BEGIN"         -> [sequence EXCEPT !.state = "ARMING",
                                                    !.remaining = ArmingDuration]
    [] action = "COMPLETE"      -> [sequence EXCEPT !.state = "ARMED", !.remaining = 0]
    [] OTHER                    -> sequence

(* One clock tick brings the deadline of an arming sequence nearer.        *)
AgeSequence(sequence) ==
  IF sequence.state = "ARMING" /\ sequence.remaining > 0
    THEN [sequence EXCEPT !.remaining = @ - 1] ELSE sequence
===============================================================================
