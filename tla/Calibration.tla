------------------------------ MODULE Calibration ------------------------------
(***************************************************************************)
(* The compass calibration: the task that runs it, the dashboard commands  *)
(* that start and cancel it, and the hand-over of its result to flash and  *)
(* to the fusion task (main/calibration.c, sensor_fusion.c).  Its claim on *)
(* the boat and the ESC are in MotorControl; here the check of the ESC     *)
(* state has either outcome.  A calibration is two numbers: the run its    *)
(* gyro and level part and the run its compass part come from, 1 for what  *)
(* was in flash at boot and 0 for none.                                    *)
(***************************************************************************)
EXTENDS Naturals

CONSTANT MaxCalRuns    \* bound of the model: runs after boot

ASSUME CalibrationAssumption == MaxCalRuns \in Nat \ {0}

Field == {"gyro", "compass"}
Cal == [Field -> 0 .. MaxCalRuns + 1]
NoCal == [f \in Field |-> 0]
BootCal == [f \in Field |-> 1]

VARIABLES
  cal_pc,          \* where task_compass_cal is
  cal_state,       \* s_status.state
  cal_run,         \* s_run_id
  next_cal,        \* run_calibration's next
  live,            \* *s_live
  stored,          \* the record in flash
  stored_valid,    \* s_stored_valid
  cal_active,      \* s_active
  start_asked,     \* s_start_requested
  cancel_asked,    \* s_cancel_requested
  cal_command,     \* on_dashboard_command: "none", or past its look at s_active
  pending,         \* sensor_fusion.c: s_pending
  ready,           \* s_pending_ready
  fusion_cal,      \* s_cal
  handing,         \* fields fusion_set_calibration has still to write
  overdue,         \* apply gave up on the last hand-over and logged so
  taking           \* fields take_pending_calibration has still to copy

resultVars == <<next_cal, live, stored, stored_valid>>
commandVars == <<start_asked, cancel_asked, cal_command>>
takingVars == <<fusion_cal, taking>>
handoverVars == <<pending, ready, handing, overdue>>
calibrationVars == <<cal_pc, cal_state, cal_run, cal_active, resultVars, commandVars, takingVars, handoverVars>>

Running == {"check", "clear", "still", "spin", "judge", "save", "hand", "end"}

(* fs_load_calibration found a record or not; the boot decides on a run    *)
(* with BOOT held or nothing stored, and not in field mode.                *)
CalibrationInit ==
  /\ stored_valid \in BOOLEAN
  /\ stored = IF stored_valid THEN BootCal ELSE NoCal
  /\ live = stored /\ fusion_cal = stored /\ next_cal = NoCal
  /\ cal_active \in BOOLEAN
  /\ cal_pc = IF cal_active THEN "check" ELSE "wait"
  /\ cal_state = "IDLE" /\ cal_run = 0
  /\ start_asked = FALSE /\ cancel_asked = FALSE /\ cal_command = "none"
  /\ pending = NoCal /\ ready = FALSE /\ handing = {} /\ taking = {} /\ overdue = FALSE

(***************************************************************************)
(* on_dashboard_command, on a receive path: it looks at s_active first.    *)
(***************************************************************************)
DashboardLooks(what) ==
  /\ cal_command = "none"
  /\ cal_active = (what = "cancel")
  /\ cal_command' = what
  /\ UNCHANGED <<cal_pc, cal_state, cal_run, cal_active, resultVars, start_asked, cancel_asked, takingVars, handoverVars>>

DashboardAsks ==
  /\ cal_command # "none"
  /\ start_asked' = (start_asked \/ cal_command = "start")
  /\ cancel_asked' = (cancel_asked \/ cal_command = "cancel")
  /\ cal_command' = "none"
  /\ UNCHANGED <<cal_pc, cal_state, cal_run, cal_active, resultVars, takingVars, handoverVars>>

(***************************************************************************)
(* task_compass_cal.                                                       *)
(***************************************************************************)
Unhanded == UNCHANGED <<takingVars, handoverVars>>
Enter(pc, state) == cal_pc' = pc /\ cal_state' = state

StartTakenUp ==
  /\ cal_pc = "wait" /\ start_asked /\ cal_run < MaxCalRuns
  /\ start_asked' = FALSE
  /\ Enter("claim", cal_state)
  /\ UNCHANGED <<cal_run, cal_active, resultVars, cancel_asked, cal_command>> /\ Unhanded

Claims ==
  /\ cal_pc = "claim"
  /\ cal_active' = TRUE
  /\ Enter("check", cal_state)
  /\ UNCHANGED <<cal_run, resultVars, commandVars>> /\ Unhanded

(* The result of a run is shown for ten seconds.                           *)
ResultExpires ==
  /\ cal_pc = "wait" /\ cal_state \in {"PASS", "FAIL"}
  /\ Enter("wait", "IDLE")
  /\ UNCHANGED <<cal_run, cal_active, resultVars, commandVars>> /\ Unhanded

(* Mutant: a refused start keeps the claim.                                *)
RefusedKeepsClaim == cal_active

RefusedClaim == FALSE

(* start_checked: motors that are armed or arming refuse the run.          *)
RefuseArmed ==
  /\ cal_pc = "check"
  /\ cal_active' = RefusedClaim
  /\ cal_run' = cal_run + 1
  /\ Enter("wait", "FAIL")
  /\ UNCHANGED <<resultVars, commandVars>> /\ Unhanded

NotArmed ==
  /\ cal_pc = "check"
  /\ Enter("clear", cal_state)
  /\ UNCHANGED <<cal_run, cal_active, resultVars, commandVars>> /\ Unhanded

(* run_once forgets the cancels of before.                                 *)
RunBegins ==
  /\ cal_pc = "clear"
  /\ cancel_asked' = FALSE
  /\ cal_run' = cal_run + 1
  /\ Enter("still", "STILL")
  /\ next_cal' = live
  /\ UNCHANGED <<cal_active, live, stored, stored_valid, start_asked, cal_command>> /\ Unhanded

Number == cal_run + 1

(* The samples come from the snapshot: the fusion task may have taken none *)
(* of them meanwhile.                                                      *)
StillDone ==
  /\ cal_pc = "still"
  /\ Enter("spin", "SPIN")
  /\ next_cal' = [next_cal EXCEPT !["gyro"] = Number]
  /\ UNCHANGED <<cal_run, cal_active, live, stored, stored_valid, commandVars>> /\ Unhanded

(* Cancelled, timed out, no valid sample, or an implausible gyro drift.    *)
StillFails ==
  /\ cal_pc = "still"
  /\ Enter("end", "FAIL")
  /\ UNCHANGED <<cal_run, cal_active, resultVars, commandVars>> /\ Unhanded

SpinComplete ==
  /\ cal_pc = "spin"
  /\ Enter("judge", "CHECKING")
  /\ UNCHANGED <<cal_run, cal_active, resultVars, commandVars>> /\ Unhanded

(* Cancelled, never started, timed out, no memory, or a bad fit.  Only a   *)
(* boat with nothing stored keeps the gyro and level part.                 *)
SpinFails ==
  /\ cal_pc \in {"spin", "judge"}
  /\ IF stored_valid
     THEN Enter("end", "FAIL") /\ UNCHANGED next_cal
     ELSE Enter("save", "FAIL") /\ next_cal' = [next_cal EXCEPT !["compass"] = 0]
  /\ UNCHANGED <<cal_run, cal_active, live, stored, stored_valid, commandVars>> /\ Unhanded

FitPasses ==
  /\ cal_pc = "judge"
  /\ Enter("save", "CHECKING")
  /\ next_cal' = [next_cal EXCEPT !["compass"] = Number]
  /\ UNCHANGED <<cal_run, cal_active, live, stored, stored_valid, commandVars>> /\ Unhanded

(* apply: saved first, then handed over, then live.                        *)
Saves ==
  /\ cal_pc = "save"
  /\ stored' = next_cal /\ stored_valid' = TRUE
  /\ handing' = Field
  /\ Enter("hand", cal_state)
  /\ UNCHANGED <<cal_run, cal_active, next_cal, live, commandVars, takingVars, pending, ready, overdue>>

SaveFails ==
  /\ cal_pc = "save"
  /\ Enter("end", "FAIL")
  /\ UNCHANGED <<cal_run, cal_active, resultVars, commandVars>> /\ Unhanded

(* Mutant: a record the fusion task has not taken is written over.         *)
PendingIgnored == TRUE

(* fusion_set_calibration looks at the flag once, before it writes.        *)
PendingFree == ~ready

HandsOver(f) ==
  /\ cal_pc = "hand" /\ f \in handing
  /\ handing = Field => PendingFree
  /\ pending' = [pending EXCEPT ![f] = next_cal[f]]
  /\ handing' = handing \ {f}
  /\ UNCHANGED <<cal_pc, cal_state, cal_run, cal_active, resultVars, commandVars, takingVars, ready, overdue>>

Applied ==
  /\ live' = next_cal
  /\ Enter("end", IF cal_state = "FAIL" THEN "FAIL" ELSE "PASS")
  /\ UNCHANGED <<cal_run, cal_active, next_cal, stored, stored_valid, commandVars, takingVars, pending>>

HandedOver ==
  /\ cal_pc = "hand" /\ handing = {}
  /\ ready' = TRUE /\ overdue' = FALSE
  /\ Applied /\ UNCHANGED handing

(* Refused 200 times, 10 ms apart, with the record of the run before still *)
(* waiting: the run ends as if its own had been handed over.               *)
HandOverGivenUp ==
  /\ cal_pc = "hand" /\ handing = Field /\ ~PendingFree
  /\ handing' = {} /\ overdue' = TRUE
  /\ Applied /\ UNCHANGED ready

RunEnds ==
  /\ cal_pc = "end"
  /\ cal_active' = FALSE
  /\ next_cal' = NoCal
  /\ Enter("wait", cal_state)
  /\ UNCHANGED <<cal_run, live, stored, stored_valid, commandVars>> /\ Unhanded

(***************************************************************************)
(* take_pending_calibration, in the fusion task: the flag is cleared last. *)
(***************************************************************************)
FusionLooks ==
  /\ taking = {} /\ ready
  /\ taking' = Field
  /\ UNCHANGED <<cal_pc, cal_state, cal_run, cal_active, resultVars, commandVars, fusion_cal, handoverVars>>

FusionTakes(f) ==
  /\ f \in taking
  /\ fusion_cal' = [fusion_cal EXCEPT ![f] = pending[f]]
  /\ taking' = taking \ {f}
  /\ ready' = (ready /\ taking' # {})
  /\ UNCHANGED <<cal_pc, cal_state, cal_run, cal_active, resultVars, commandVars, pending, handing, overdue>>

TaskStep ==
  \/ StartTakenUp \/ Claims \/ ResultExpires \/ RefuseArmed \/ NotArmed \/ RunBegins
  \/ StillDone \/ StillFails \/ SpinComplete \/ SpinFails \/ FitPasses
  \/ Saves \/ SaveFails \/ (\E f \in Field : HandsOver(f)) \/ HandedOver \/ HandOverGivenUp
  \/ RunEnds

CalibrationNext ==
  \/ \E what \in {"start", "cancel"} : DashboardLooks(what)
  \/ DashboardAsks
  \/ TaskStep
  \/ FusionLooks
  \/ \E f \in Field : FusionTakes(f)

CalibrationSpec == CalibrationInit /\ [][CalibrationNext]_calibrationVars

(***************************************************************************)
(* What it promises.                                                       *)
(***************************************************************************)
CalibrationTypeOK ==
  /\ cal_pc \in Running \cup {"wait", "claim"}
  /\ cal_state \in {"IDLE", "STILL", "SPIN", "CHECKING", "PASS", "FAIL"}
  /\ cal_run \in 0 .. MaxCalRuns + 1
  /\ {next_cal, live, stored, pending, fusion_cal} \subseteq Cal
  /\ {stored_valid, cal_active, start_asked, cancel_asked, ready, overdue} \subseteq BOOLEAN
  /\ cal_command \in {"none", "start", "cancel"}
  /\ handing \subseteq Field /\ taking \subseteq Field

(* The boat is claimed, and arming refused, exactly as long as a run is    *)
(* decided on or under way, however it ends (calibration.c:418-460).       *)
ClaimIsRun == cal_active <=> cal_pc \in Running

(* What fusion corrects with, or will from its next sample on.             *)
FusionRecord == IF ready THEN pending ELSE fusion_cal

(* Except while a run is applying its result, the record in use is the one *)
(* in flash, and the fusion task has it or is about to take it, unless     *)
(* apply gave up on its hand-over and none succeeded since: then it may    *)
(* take an older one "on its next sample" (calibration.c:337-352).         *)
UsedIsStored ==
  cal_pc # "hand" =>
    /\ stored_valid => live = stored
    /\ overdue \/ FusionRecord = live

(* "A calibration that would vanish at the next power-on is not applied":  *)
(* nothing the boat or the fusion task uses is newer than what is in       *)
(* flash, though flash, hand-over and use are three steps                  *)
(* (calibration.c:339-341).                                                *)
NothingUnsaved == \A f \in Field : live[f] <= stored["gyro"] /\ fusion_cal[f] <= stored["gyro"]

(* The record the fusion task corrects with is of one run: never one       *)
(* part of a new record with the other of an old one                       *)
(* (sensor_fusion.c:49-52).                                                *)
TakenWhole ==
  taking = {} => fusion_cal["compass"] \in {0, fusion_cal["gyro"]}

(* However a run ends (refused, cancelled, failed, not saved, or its       *)
(* hand-over given up) the claim ends with it, and flash, the record in    *)
(* use and the record of the fusion task go together as far as the code    *)
(* keeps them together.                                                    *)
CalibrationKept == ClaimIsRun /\ UsedIsStored /\ NothingUnsaved /\ TakenWhole
===============================================================================
