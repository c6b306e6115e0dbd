-------------------------- MODULE AutonomyProperties --------------------------
(***************************************************************************)
(* What autonomy.c, mission.c and the mission's part of motor_control.c    *)
(* must guarantee together.                                                *)
(***************************************************************************)
EXTENDS Autonomy

(* Every variable keeps to its C type and its writers; the sample buffer   *)
(* never exceeds its capacity.                                             *)
AutonomyTypeOK ==
  /\ rx_pc \in {"wait", "stop", "stop_late"}
  /\ command \in Command
  /\ step_pc \in StepPc
  /\ input \in MissionInput
  /\ mission \in MissionRecord
  /\ prev \in Sample
  /\ record \in Record /\ Len(record.samples) <= RecordCapacity
  /\ record_state \in RecordState
  /\ save_pending \in BOOLEAN
  /\ since_status \in Nat
  /\ status \in Status /\ published \in Status
  /\ status_new \in BOOLEAN
  /\ diag_pc \in {"wait", "write", "written", "copy"}
  /\ setpoint \in Setpoint
  /\ auto_stop \in BOOLEAN
  /\ aborted_run \in 0 .. MaxRuns
  /\ abort_reason \in AbortReason
  /\ auto_out \in AutoOut
  /\ stops \in 0 .. MaxStops
  /\ stopped \subseteq 0 .. MaxRuns
  /\ spent \in 0 .. MaxRuns

(* STOP always wins: no control cycle after the STOP lets the run it was   *)
(* meant for drive, though the control task may have consumed the STOP     *)
(* before that run's first setpoint reached it (mission_command_handler,   *)
(* auto_decide, mission_step).                                             *)
StoppedRunNeverDrives == [][ControlCycle => Driving(auto_out') \notin stopped]_vars

(* The buffer handed to Diagnostics holds one run, from its HOME to the    *)
(* step that ended it, unless it overflowed (autonomy.c:442-480).          *)
RecordIsOneRun ==
  save_pending =>
    /\ record.samples # <<>>
    /\ record.samples[1].state = "HOME"
    /\ \A i \in DOMAIN record.samples : record.samples[i].run_id = record.final.run_id
    /\ record.overflow \/ record.samples[Len(record.samples)] = record.final

(* While Diagnostics writes the file, the mission task leaves the buffer   *)
(* alone, although a START may arrive at any time (autonomy.c:134-137).    *)
BufferNotShared == [][diag_pc = "write" => UNCHANGED record]_vars

(* A run that began to record goes on recording until it ends: the outcome *)
(* of the file before cannot overwrite its state (autonomy.c:607-611).     *)
RecordingGoesOn ==
  step_pc = "wait" /\ MissionActive(mission) =>
    record_state = IF RecordCapacity > 0 THEN "RECORDING" ELSE "UNAVAILABLE"

(* The end of a run reaches the pipeline, or a later run's status does.    *)
EndReported ==
  \A r \in 1 .. MaxRuns :
    mission.run_id = r /\ MissionTerminal(mission) ~>
      published.run_id > r \/ published = [run_id |-> r, over |-> TRUE]

-------------------------------------------------------------------------------
Runs == INSTANCE MissionRuns WITH
  run     <- mission.run_id,
  request <- mission.request_id,
  phase   <- IF MissionTerminal(mission) THEN "ENDED" ELSE mission.state,
  jets    <- Driving(auto_out)

(* The three tasks together keep the operator's view of a run: one run per *)
(* request, phases in order, one end, and the jets at most once and only   *)
(* on a leg.                                                               *)
ImplementsMissionRuns == Runs!RunsSpec
===============================================================================
