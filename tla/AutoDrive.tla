------------------------------ MODULE AutoDrive ------------------------------
(***************************************************************************)
(* The mission's claim on the jets: main/auto_drive.c and .h.  Each        *)
(* control cycle it looks at the newest setpoint of the autonomy task and  *)
(* either owns the jets for the cycle, ends the run for good, or owns      *)
(* nothing.  Heading and throttle values are abstracted away: a setpoint   *)
(* drives or it does not.                                                  *)
(***************************************************************************)
EXTENDS Naturals

CONSTANTS
  SetpointMaxAge,   \* AUTO_SETPOINT_MAX_AGE_US in ticks, auto_drive.h:57
  MaxRuns           \* bound of the model: mission runs 1 .. MaxRuns, 0 is "no run"

ASSUME AutoDriveAssumption == SetpointMaxAge \in Nat /\ MaxRuns \in Nat

Setpoint ==
  [ run_id : 0 .. MaxRuns, active : BOOLEAN, drive : BOOLEAN, dry_run : BOOLEAN,
    age : 0 .. SetpointMaxAge + 1 ]

SetpointInit ==
  [run_id |-> 0, active |-> FALSE, drive |-> FALSE, dry_run |-> FALSE, age |-> 0]

AbortReason ==
  {"NONE", "STOP", "MANUAL", "RAIL_CUT", "OTHER_OWNER", "DISARMED", "STALE"}

AutoOut == [own : BOOLEAN, drive : BOOLEAN, run_id : 0 .. MaxRuns, abort : AbortReason]

AutoOutInit == [own |-> FALSE, drive |-> FALSE, run_id |-> 0, abort |-> "NONE"]

Stale(sp) == sp.age > SetpointMaxAge

(* The first reason that applies, in the order of the code: what the       *)
(* operator did first, then the boat's own state.                          *)
AbortFor(sp, in) ==
  IF in.stop_request THEN "STOP"
  ELSE IF in.manual_input THEN "MANUAL"
  ELSE IF in.rail_cut THEN "RAIL_CUT"
  ELSE IF in.other_owner THEN "OTHER_OWNER"
  ELSE IF ~sp.dry_run /\ ~in.armed THEN "DISARMED"
  ELSE IF Stale(sp) THEN "STALE"
  ELSE "NONE"

(* Mutant: the run that was aborted is forgotten.                          *)
OfferedForgetsAborts(sp, aborted_run) == sp.run_id # 0 /\ sp.active

(* The setpoint offers a run, and one that was not aborted before.         *)
Offered(sp, aborted_run) == sp.run_id # 0 /\ sp.active /\ sp.run_id # aborted_run

AutoStep(sp, aborted_run, in) ==
  IF ~Offered(sp, aborted_run) THEN AutoOutInit
  ELSE [ own    |-> AbortFor(sp, in) = "NONE",
         drive  |-> AbortFor(sp, in) = "NONE" /\ sp.drive /\ ~sp.dry_run /\ in.armed,
         run_id |-> sp.run_id,
         abort  |-> AbortFor(sp, in) ]

AgeSetpoint(sp) ==
  IF sp.run_id # 0 /\ ~Stale(sp) THEN [sp EXCEPT !.age = @ + 1] ELSE sp
===============================================================================
