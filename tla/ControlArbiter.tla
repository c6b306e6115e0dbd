---------------------------- MODULE ControlArbiter ----------------------------
(***************************************************************************)
(* The manual command arbiter: main/control_arbiter.c and .h.  It keeps    *)
(* the newest drive, winch and steering proposals, a bounded ring of       *)
(* discrete events, and two urgent bits that survive a full ring.  The     *)
(* control task drains all of it once per cycle into one decision.         *)
(*                                                                         *)
(* A demand is abstracted to what the properties tell apart: no thrust or  *)
(* some thrust, a stopped or a moving winch, a centred or a turned rudder. *)
(* A reception stamp is kept as an age in clock ticks, and "not newer than *)
(* the stamp held" (two receiving tasks racing for the lock) is the        *)
(* parameter `newer` of a submission.                                      *)
(***************************************************************************)
EXTENDS Naturals, Sequences

CONSTANTS
  EventCapacity,   \* CONTROL_EVENT_CAPACITY, control_arbiter.h:6
  DriveTimeout     \* CONTROL_DRIVE_TIMEOUT_US in ticks, control_arbiter.h:7

ASSUME ArbiterAssumption ==
  /\ EventCapacity \in Nat \ {0}
  /\ DriveTimeout \in Nat \ {0}

EventKind == {"power_on", "power_off", "arm", "force_arm", "disarm"}
Urgent    == {"power_off", "disarm"}

Demand      == {"zero", "thrust"}
WinchDemand == {"stopped", "moving"}
SteerDemand == {"centre", "turned"}

Proposal(V) == [valid : BOOLEAN, value : V, changed : BOOLEAN]

Arbiter ==
  [ drive  : [valid : BOOLEAN, value : Demand, age : 0 .. DriveTimeout,
              changed : BOOLEAN],
    winch  : Proposal(WinchDemand),
    steer  : Proposal(SteerDemand),
    events : Seq(EventKind),
    urgent : SUBSET Urgent,
    was_failsafe : BOOLEAN ]

Decision ==
  [ demand : Demand, drive_changed : BOOLEAN,
    winch : WinchDemand, winch_changed : BOOLEAN,
    steer : SteerDemand, steer_changed : BOOLEAN,
    servo_power_on : BOOLEAN, servo_power_off : BOOLEAN,
    arm : BOOLEAN, force_arm : BOOLEAN, disarm : BOOLEAN ]

ArbiterInit ==
  [ drive  |-> [valid |-> FALSE, value |-> "zero", age |-> 0, changed |-> FALSE],
    winch  |-> [valid |-> FALSE, value |-> "stopped", changed |-> FALSE],
    steer  |-> [valid |-> FALSE, value |-> "centre", changed |-> FALSE],
    events |-> << >>,
    urgent |-> {},
    was_failsafe |-> TRUE ]

(* What a decision holds between two cycles: the zero decision.            *)
NoDecision ==
  [ demand |-> "zero", drive_changed |-> FALSE,
    winch |-> "stopped", winch_changed |-> FALSE,
    steer |-> "centre", steer_changed |-> FALSE,
    servo_power_on |-> FALSE, servo_power_off |-> FALSE,
    arm |-> FALSE, force_arm |-> FALSE, disarm |-> FALSE ]

-------------------------------------------------------------------------------
(* Submissions.                                                            *)

(* A stamp no newer than the one of a valid proposal is refused.           *)
Fresh(proposal, newer) == newer \/ ~proposal.valid

(* A demand out of [-1, 1] is refused before its stamp is looked at; a     *)
(* value outside its set stands for one.                                   *)
DriveAccepted(arb, value, newer) == value \in Demand /\ Fresh(arb.drive, newer)
WinchAccepted(arb, value, newer) == value \in WinchDemand /\ Fresh(arb.winch, newer)
SteerAccepted(arb, value, newer) == value \in SteerDemand /\ Fresh(arb.steer, newer)

SubmitDrive(arb, value, newer) ==
  IF DriveAccepted(arb, value, newer)
    THEN [arb EXCEPT !.drive = [valid |-> TRUE, value |-> value, age |-> 0,
                                changed |-> TRUE]]
    ELSE arb

Updated(value) == [valid |-> TRUE, value |-> value, changed |-> TRUE]

SubmitWinch(arb, value, newer) ==
  IF WinchAccepted(arb, value, newer) THEN [arb EXCEPT !.winch = Updated(value)] ELSE arb

SubmitSteer(arb, value, newer) ==
  IF SteerAccepted(arb, value, newer) THEN [arb EXCEPT !.steer = Updated(value)] ELSE arb

RingFull(arb) == Len(arb.events) = EventCapacity

(* An urgent event is accepted even by a full ring.                        *)
EventAccepted(arb, event) == RingFull(arb) => event \in Urgent

(* The urgent bit is set first, so that it survives the full ring.         *)
PushEvent(arb, event) ==
  [arb EXCEPT !.urgent = @ \cup ({event} \cap Urgent),
              !.events = IF RingFull(arb) THEN @ ELSE Append(@, event)]

(* A link notification refreshes the stamp of a valid drive proposal.      *)
NotifyLink(arb) ==
  IF arb.drive.valid THEN [arb EXCEPT !.drive.age = 0] ELSE arb

-------------------------------------------------------------------------------
(* control_arbiter_decide: one decision, and the arbiter it leaves.        *)

DriveFailsafe(arb) == ~arb.drive.valid \/ arb.drive.age >= DriveTimeout

Pending(arb, event) ==
  \/ \E i \in DOMAIN arb.events : arb.events[i] = event
  \/ event \in arb.urgent

Decide(arb) ==
  [ demand          |-> IF DriveFailsafe(arb) THEN "zero" ELSE arb.drive.value,
    drive_changed   |-> arb.drive.changed \/ DriveFailsafe(arb) # arb.was_failsafe,
    winch           |-> IF arb.winch.valid THEN arb.winch.value ELSE "stopped",
    winch_changed   |-> arb.winch.valid /\ arb.winch.changed,
    steer           |-> IF arb.steer.valid THEN arb.steer.value ELSE "centre",
    steer_changed   |-> arb.steer.valid /\ arb.steer.changed,
    servo_power_on  |-> Pending(arb, "power_on"),
    servo_power_off |-> Pending(arb, "power_off"),
    arm             |-> Pending(arb, "arm"),
    force_arm       |-> Pending(arb, "force_arm"),
    disarm          |-> Pending(arb, "disarm") ]

AfterDecide(arb) ==
  [ drive  |-> [arb.drive EXCEPT !.changed = FALSE],
    winch  |-> [arb.winch EXCEPT !.changed = @ /\ ~arb.winch.valid],
    steer  |-> [arb.steer EXCEPT !.changed = @ /\ ~arb.steer.valid],
    events |-> << >>,
    urgent |-> {},
    was_failsafe |-> DriveFailsafe(arb) ]

(* One clock tick makes the drive stamp older, up to the timeout.          *)
AgeDrive(arb) ==
  IF arb.drive.valid /\ arb.drive.age < DriveTimeout
    THEN [arb EXCEPT !.drive.age = @ + 1] ELSE arb
===============================================================================
