------------------------------- MODULE Mission --------------------------------
(***************************************************************************)
(* The out-and-back mission: main/mission.c and .h, a pure state machine   *)
(* that autonomy.c steps every 50 ms.  HOME takes the home point, OUTBOUND *)
(* holds the start heading, TURN turns round, RETURN follows the line      *)
(* home.  Positions, headings and times are abstracted to what the         *)
(* branches ask of them, the Situation of a step.                          *)
(***************************************************************************)
EXTENDS AutoDrive

CONSTANTS
  HomeFixes,        \* cfg.home_fixes, mission.c:28
  ArriveFixes,      \* cfg.arrive_fixes, mission.c:44
  FrozenFixes,      \* cfg.frozen_fixes, mission.c:49
  JumpAcceptFixes,  \* cfg.jump_accept_fixes, mission.c:52
  MaxRequests       \* bound of the model: request ids 1 .. MaxRequests, 0 is "none yet"

ASSUME MissionAssumption ==
  /\ HomeFixes \in Nat \ {0, 1}
  /\ {ArriveFixes, FrozenFixes, MaxRequests} \subseteq Nat \ {0}
  /\ JumpAcceptFixes \in Nat

Leg == {"OUTBOUND", "TURN", "RETURN"}

MissionState == Leg \cup {"IDLE", "HOME", "DONE", "ABORTED", "REFUSED"}

Stage == {"OUT", "OUT_TURN", "FULL"}

(* The three ways to arrive, each confirmed on consecutive fixes.          *)
ArrivalRule == {"zone", "passed", "slipping"}

(* The refusals for GPS, compass, IMU and heading are one: NOT_READY.      *)
MissionReason ==
  AbortReason \cup
  {"GPS_LOST", "HEADING_LOST", "HOME_NOT_STILL", "SPIN", "GPS_FROZEN",
   "OUT_REACHED", "TURNED", "zone", "passed", "slipping",
   "SETTINGS", "BUSY", "NOT_ARMED", "NOT_READY"}

MissionRecord ==
  [ state : MissionState, reason : MissionReason,
    run_id : 0 .. MaxRuns, request_id : 0 .. MaxRequests,
    stage : Stage, dry_run : BOOLEAN,
    home_n : 0 .. HomeFixes, frozen_count : 0 .. FrozenFixes,
    outlier_run : 0 .. JumpAcceptFixes, confirmed : [ArrivalRule -> 0 .. ArriveFixes] ]

NotConfirmed == [rule \in ArrivalRule |-> 0]

MissionInit ==
  [ state |-> "IDLE", reason |-> "NONE", run_id |-> 0, request_id |-> 0,
    stage |-> "FULL", dry_run |-> FALSE,
    home_n |-> 0, frozen_count |-> 0, outlier_run |-> 0, confirmed |-> NotConfirmed ]

(* What the boat is in when the mission steps.                             *)
Situation ==
  [ settings_ok : BOOLEAN, \* the settings are valid and the heading hold is built
    jets_free : BOOLEAN,   \* no sweep, bench run or compass calibration
    armed : BOOLEAN,
    ready : BOOLEAN,       \* GPS, compass, IMU and heading are good enough to start
    gps_lost : BOOLEAN, heading_lost : BOOLEAN,
    spinning : BOOLEAN,    \* turned more than cfg.spin_limit_deg within one leg
    gps_new : BOOLEAN,
    still : BOOLEAN,       \* the fix reports speed and has not moved
    jump : BOOLEAN,        \* the fix is further than jump_gate_m from the prediction
    together : BOOLEAN,    \* the home fixes lie within home_spread_m
    home_timeout : BOOLEAN,
    out_reached : BOOLEAN, turned : BOOLEAN,
    arrival : SUBSET ArrivalRule ]

MissionInput ==
  [ start : BOOLEAN, stop : BOOLEAN, request_id : 0 .. MaxRequests,
    stage : Stage, dry_run : BOOLEAN,
    saving : BOOLEAN,      \* the record of the run before is still being written
    abort_run : 0 .. MaxRuns, abort_reason : AbortReason ]

MissionActive(m) == m.state \in Leg \cup {"HOME"}

MissionTerminal(m) == m.state \in {"DONE", "ABORTED", "REFUSED"}

Finish(m, state, reason) == [m EXCEPT !.state = state, !.reason = reason]

(* Mutant: a START does not look at the record that is being written.      *)
RefusalIgnoresBusy(in, at) ==
  IF ~at.settings_ok THEN "SETTINGS"
  ELSE IF ~at.jets_free THEN "BUSY"
  ELSE IF ~at.armed /\ ~in.dry_run THEN "NOT_ARMED"
  ELSE IF ~at.ready THEN "NOT_READY"
  ELSE "NONE"

Refusal(in, at) ==
  IF ~at.settings_ok THEN "SETTINGS"
  ELSE IF in.saving \/ ~at.jets_free THEN "BUSY"
  ELSE IF ~at.armed /\ ~in.dry_run THEN "NOT_ARMED"
  ELSE IF ~at.ready THEN "NOT_READY"
  ELSE "NONE"

NewRun(m, in) ==
  [MissionInit EXCEPT !.run_id = m.run_id + 1, !.request_id = in.request_id,
                      !.stage = in.stage, !.dry_run = in.dry_run]

(* Mutant: a repeated START begins another run.                            *)
StartTakenRepeats(m, in) == in.start /\ ~MissionActive(m)

(* One mission at a time, and a repeated request is not a new one.         *)
StartTaken(m, in) ==
  /\ in.start
  /\ ~MissionActive(m)
  /\ in.request_id # m.request_id

HandleStart(m, in, at) ==
  IF ~StartTaken(m, in) THEN m
  ELSE IF Refusal(in, at) # "NONE" THEN Finish(NewRun(m, in), "REFUSED", Refusal(in, at))
  ELSE [NewRun(m, in) EXCEPT !.state = "HOME"]

(* A fix far from where the boat should be is not used, until it persists. *)
GoodFix(m, at) == ~at.jump \/ m.outlier_run >= JumpAcceptFixes

UpdatePosition(m, at) ==
  [m EXCEPT !.frozen_count = IF at.still THEN @ + 1 ELSE 0,
            !.outlier_run = IF GoodFix(m, at) THEN 0 ELSE @ + 1]

HomeTimeout(m, at) ==
  IF at.home_timeout THEN Finish(m, "ABORTED", "HOME_NOT_STILL") ELSE m

(* HOME: average the still fixes; start again if they are spread out.      *)
StepHome(m, at) ==
  IF ~at.gps_new THEN HomeTimeout(m, at)
  ELSE IF m.home_n + 1 < HomeFixes THEN HomeTimeout([m EXCEPT !.home_n = @ + 1], at)
  ELSE IF at.together THEN [m EXCEPT !.state = "OUTBOUND", !.home_n = HomeFixes]
  ELSE HomeTimeout([m EXCEPT !.home_n = 0], at)

(* OUTBOUND: only a good fix can end the leg.                              *)
StepOutbound(m, at) ==
  IF ~at.gps_new THEN m
  ELSE IF GoodFix(m, at) /\ at.out_reached
    THEN IF m.stage = "OUT"
           THEN Finish(UpdatePosition(m, at), "DONE", "OUT_REACHED")
           ELSE [UpdatePosition(m, at) EXCEPT !.state = "TURN"]
  ELSE UpdatePosition(m, at)

StepTurn(m, at) ==
  LET moved == IF at.gps_new THEN UpdatePosition(m, at) ELSE m
  IN  IF ~at.turned THEN moved
      ELSE IF m.stage = "OUT_TURN" THEN Finish(moved, "DONE", "TURNED")
      ELSE [moved EXCEPT !.state = "RETURN", !.confirmed = NotConfirmed]

Confirmed(m, at) ==
  [rule \in ArrivalRule |-> IF rule \in at.arrival THEN m.confirmed[rule] + 1 ELSE 0]

(* The rule that ends the RETURN: the first in the order of the code.      *)
Arrived(confirmed) ==
  IF confirmed["zone"] >= ArriveFixes THEN "zone"
  ELSE IF confirmed["passed"] >= ArriveFixes THEN "passed"
  ELSE IF confirmed["slipping"] >= ArriveFixes THEN "slipping"
  ELSE "NONE"

(* RETURN: a jump never counts toward arriving.                            *)
StepReturn(m, at) ==
  IF ~at.gps_new THEN m
  ELSE IF ~GoodFix(m, at) THEN UpdatePosition(m, at)
  ELSE LET counted == [UpdatePosition(m, at) EXCEPT !.confirmed = Confirmed(m, at)]
           rule    == Arrived(counted.confirmed)
       IN  IF rule = "NONE" THEN counted ELSE Finish(counted, "DONE", rule)

StepLeg(m, at) ==
  CASE m.state = "HOME"     -> StepHome(m, at)
    [] m.state = "OUTBOUND" -> StepOutbound(m, at)
    [] m.state = "TURN"     -> StepTurn(m, at)
    [] m.state = "RETURN"   -> StepReturn(m, at)

(* Mutant: the mission task leaves the STOP to the control task.           *)
StepAbortWithoutStop(m, in, at) ==
  IF in.abort_run = m.run_id /\ in.abort_reason # "NONE" THEN in.abort_reason
  ELSE IF at.gps_lost THEN "GPS_LOST"
  ELSE IF at.heading_lost THEN "HEADING_LOST"
  ELSE "NONE"

(* What ends an active run before its leg is stepped.                      *)
StepAbort(m, in, at) ==
  IF in.abort_run = m.run_id /\ in.abort_reason # "NONE" THEN in.abort_reason
  ELSE IF in.stop THEN "STOP"
  ELSE IF at.gps_lost THEN "GPS_LOST"
  ELSE IF at.heading_lost THEN "HEADING_LOST"
  ELSE IF m.frozen_count >= FrozenFixes THEN "GPS_FROZEN"
  ELSE IF m.state # "HOME" /\ at.spinning THEN "SPIN"
  ELSE "NONE"

StepActive(m, in, at) ==
  IF ~MissionActive(m) THEN m
  ELSE IF StepAbort(m, in, at) # "NONE" THEN Finish(m, "ABORTED", StepAbort(m, in, at))
  ELSE StepLeg(m, at)

MissionStep(m, in, at) == StepActive(HandleStart(m, in, at), in, at)

(* The setpoint the step hands to the control task.                        *)
MissionOutput(m) ==
  [ run_id  |-> m.run_id,
    active  |-> MissionActive(m),
    drive   |-> m.state \in Leg /\ ~m.dry_run,
    dry_run |-> m.dry_run,
    age     |-> 0 ]
===============================================================================
