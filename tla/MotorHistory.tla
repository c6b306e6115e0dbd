----------------------------- MODULE MotorHistory -----------------------------
(***************************************************************************)
(* MotorControl with three history variables, for properties that relate   *)
(* the jets to something the code does not keep.  They add no behaviour:   *)
(* every step of Next is kept, and the history follows it.                 *)
(***************************************************************************)
EXTENDS MotorControlProperties

VARIABLES
  aborted_runs,  \* every run the control task has aborted
  ended_by,      \* what ended the mission that owned the jets last
  stick_moved    \* a drive command was accepted since the link last fell silent

historyVars == <<aborted_runs, ended_by, stick_moved>>

HistoryInit ==
  /\ aborted_runs = {}
  /\ ended_by = "NONE"
  /\ stick_moved = FALSE

(* The drive proposal's `changed` flag is raised by an accepted drive      *)
(* command and by nothing else.                                            *)
HistoryStep ==
  /\ aborted_runs' = aborted_runs \cup ({aborted_run'} \ {0})
  /\ ended_by' = IF auto_out.own /\ ~auto_out'.own THEN auto_out'.abort ELSE ended_by
  /\ stick_moved' = ((stick_moved \/ arbiter'.drive.changed) /\ link_age' < LinkTimeout)

HistorySpec ==
  ArmedInit /\ HistoryInit /\ [][Next /\ HistoryStep]_<<vars, historyVars>>

-------------------------------------------------------------------------------
(* A run the control task aborted never owns the jets again, whatever the  *)
(* autonomy task keeps publishing for it, and although only the last       *)
(* aborted id is remembered (auto_drive.c:32).                             *)
AbortedRunIsOver == auto_out.own => auto_out.run_id \notin aborted_runs

(* A mission that let go of the jets leaves its throttle on them only if a *)
(* manual command ended it; ended by STOP, a cut rail, a stale setpoint,   *)
(* another owner or its own end, it is followed by one zero                *)
(* (s_auto_release_zero, motor_control.c:2562), and nothing writes the     *)
(* mission's throttle again after that.                                    *)
MissionThrustReleased ==
  pc = "idle" /\ esc.thrust = "mission" => auto_out.own \/ ended_by = "MANUAL"

(* "The mission let go for any reason but the operator's own stick: the    *)
(* jets go to zero once" (motor_control.c:250): a winch command is not the *)
(* stick, yet it ends a mission and the zero is skipped.                   *)
MissionThrustOnlyWhileOwned ==
  pc = "idle" /\ esc.thrust = "mission" => auto_out.own

(* "Resuming manual driving after calibration must never replay a stale    *)
(* command": when a manual command interrupts a sweep, the cycle that puts *)
(* the stick's thrust on the jets acts on a drive command accepted since   *)
(* the link was last silent.  A winch command is enough to break it: it    *)
(* refreshes the stamp of the old drive proposal.                          *)
StickNeverReplayed ==
  [][ pc = "outputs" /\ sweep.active /\ esc.thrust # "stick" /\ esc'.thrust = "stick"
        => stick_moved ]_vars
===============================================================================
