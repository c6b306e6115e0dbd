------------------------------- MODULE Autonomy -------------------------------
(***************************************************************************)
(* The mission task of main/autonomy.c between its four neighbours: the    *)
(* receiving task that brings START and STOP, the control task that grants *)
(* the jets or ends a run (auto_decide in motor_control.c), and the        *)
(* Diagnostics task that writes the run's record to the SD card and        *)
(* publishes the status.                                                   *)
(***************************************************************************)
EXTENDS Mission, Sequences

CONSTANTS
  RecordCapacity,   \* s_rec_cap in samples, 0 without PSRAM, autonomy.c:641-646
  ActivePeriod,     \* STATUS_ACTIVE_US in steps, autonomy.c:39
  IdlePeriod,       \* STATUS_IDLE_US in steps, autonomy.c:40
  Settings,         \* the settings an instance's operator may ask for
  Situations,       \* the situations an instance lets the boat be in
  ControlInputs,    \* what an instance lets the control task meet in a cycle
  MaxStops,         \* bound of the model: STOP commands received
  PreemptAt         \* where in a pass the receiving and control tasks act

StepPc == {"wait", "gather", "step", "record", "status"}

ASSUME AutonomyAssumption ==
  /\ RecordCapacity \in Nat
  /\ {ActivePeriod, IdlePeriod} \subseteq Nat \ {0}
  /\ MaxStops \in Nat
  /\ Settings \subseteq [stage : Stage, dry_run : BOOLEAN]
  /\ Situations \subseteq Situation
  /\ ControlInputs \subseteq
       [manual_input : BOOLEAN, rail_cut : BOOLEAN, other_owner : BOOLEAN, armed : BOOLEAN,
        later : BOOLEAN]   \* the setpoint has become a tick older
  /\ PreemptAt \subseteq StepPc

VARIABLES
  rx_pc,         \* where the receiving task is in mission_command_handler
  command,       \* s_cmd, s_cmd_start, s_cmd_stop, under s_cmd_lock
  step_pc,       \* where the mission task is in autonomy_step
  input,         \* its mission_input_t
  mission,       \* s_m
  prev,          \* s_prev_state and s_prev_run
  record,        \* the buffer: s_rec_run, s_rec, s_rec_n, s_rec_overflow, s_rec_final
  record_state,  \* s_rec_state
  save_pending,  \* s_save_pending
  since_status,  \* steps since the last commit_status, 0 for "at once"
  status,        \* s_status
  status_new,    \* s_status_generation differs from s_published_generation
  diag_pc,       \* where Diagnostics is in autonomy_diagnostics_tick
  published,     \* the last MissionStatus given to the pipeline
  setpoint,      \* s_auto_sp
  auto_stop,     \* s_auto_stop_pending
  aborted_run,   \* s_auto.aborted_run_id, and s_auto_abort_run
  abort_reason,  \* s_auto_abort_reason
  auto_out,      \* s_auto_out
  stops,         \* STOP commands received, bounded by MaxStops
  stopped,       \* history: runs a STOP was received for
  spent          \* history: the last run that gave the jets back

rxVars == <<rx_pc, command, stops>>
taskVars == <<step_pc, input, mission, prev, since_status, status>>
recordVars == <<record, record_state, save_pending>>
diagVars == <<diag_pc, published>>
controlVars == <<auto_stop, aborted_run, abort_reason, auto_out>>

vars == <<rxVars, taskVars, recordVars, diagVars, controlVars,
          status_new, setpoint, stopped, spent>>

RecordState == {"NONE", "RECORDING", "SAVING", "SAVED", "FAILED", "UNAVAILABLE"}

Command ==
  [start : BOOLEAN, stop : BOOLEAN, request_id : 0 .. MaxRequests,
   settings : [stage : Stage, dry_run : BOOLEAN]]

NoCommand ==
  [start |-> FALSE, stop |-> FALSE, request_id |-> 0,
   settings |-> [stage |-> "FULL", dry_run |-> FALSE]]

NoInput ==
  [start |-> FALSE, stop |-> FALSE, request_id |-> 0, stage |-> "FULL", dry_run |-> FALSE,
   saving |-> FALSE, abort_run |-> 0, abort_reason |-> "NONE"]

Sample == [run_id : 0 .. MaxRuns, state : MissionState]

Record ==
  [run_id : 0 .. MaxRuns, samples : Seq(Sample),
   overflow : BOOLEAN, final : Sample]

(* What a status tells of a run: which it is, and whether it is over.      *)
Status == [run_id : 0 .. MaxRuns, over : BOOLEAN]

NoStatus == [run_id |-> 0, over |-> FALSE]

Init ==
  /\ rx_pc = "wait" /\ command = NoCommand /\ stops = 0
  /\ step_pc = "wait" /\ input = NoInput
  /\ mission = MissionInit
  /\ prev = [run_id |-> 0, state |-> "IDLE"]
  /\ record = [run_id |-> 0, samples |-> <<>>, overflow |-> FALSE,
               final |-> [run_id |-> 0, state |-> "IDLE"]]
  /\ record_state = "NONE" /\ save_pending = FALSE
  /\ since_status = 0 /\ status = NoStatus /\ status_new = FALSE
  /\ diag_pc = "wait" /\ published = NoStatus
  /\ setpoint = SetpointInit
  /\ auto_stop = FALSE /\ aborted_run = 0 /\ abort_reason = "NONE" /\ auto_out = AutoOutInit
  /\ stopped = {} /\ spent = 0

-------------------------------------------------------------------------------
(* The receiving task: mission_command_handler.                            *)

RxFrame == UNCHANGED <<taskVars, recordVars, diagVars, aborted_run, abort_reason, auto_out,
                       status_new, setpoint, spent>>

(* The START the mission task has taken and will begin a run for.          *)
Beginning ==
  /\ step_pc \in {"gather", "step"}
  /\ StartTaken(mission, input)

(* Only whether a request repeats the last one matters.  Bounded by        *)
(* MaxRuns, counting the START in hand.                                    *)
StartCommand ==
  /\ rx_pc = "wait" /\ step_pc \in PreemptAt
  /\ mission.run_id + (IF step_pc # "wait" /\ input.start THEN 1 ELSE 0) < MaxRuns
  /\ \E request \in {mission.request_id, (mission.request_id % MaxRequests) + 1} \ {0},
        settings \in Settings :
       command' = [command EXCEPT !.start = TRUE, !.request_id = request, !.settings = settings]
  /\ UNCHANGED <<rx_pc, stops, auto_stop, stopped>>
  /\ RxFrame

(* STOP goes to the control task first, then to the mission task, where it *)
(* wins over a START of the same window.  It is meant for the run that     *)
(* flies, or that is about to begin.                                       *)
StopRequested ==
  /\ rx_pc = "wait" /\ step_pc \in PreemptAt
  /\ rx_pc' = "stop"
  /\ stops < MaxStops /\ stops' = stops + 1
  /\ auto_stop' = TRUE
  /\ stopped' = stopped \cup
       (IF MissionActive(mission) THEN {mission.run_id}
        ELSE IF Beginning THEN {mission.run_id + 1} ELSE {})
  /\ UNCHANGED command
  /\ RxFrame

StopRecorded ==
  /\ rx_pc \in {"stop", "stop_late"}
  /\ rx_pc' = "wait"
  /\ command' = [NoCommand EXCEPT !.stop = TRUE]
  /\ UNCHANGED <<stops, auto_stop, stopped>>
  /\ RxFrame

-------------------------------------------------------------------------------
(* The mission task: one pass of autonomy_step.                            *)

TaskFrame == UNCHANGED <<rx_pc, stops, diagVars, controlVars, stopped, spent>>

CommandTaken ==
  [NoInput EXCEPT !.start = command.start, !.stop = command.stop,
                  !.request_id = command.request_id,
                  !.stage = command.settings.stage, !.dry_run = command.settings.dry_run]

(* The handler is at most one pass late: its two statements follow each    *)
(* other, and passes are 50 ms apart.                                      *)
TakeCommand ==
  /\ step_pc = "wait" /\ rx_pc # "stop_late"
  /\ step_pc' = "gather"
  /\ input' = CommandTaken
  /\ command' = NoCommand
  /\ rx_pc' = IF rx_pc = "stop" THEN "stop_late" ELSE rx_pc
  /\ stopped' = IF rx_pc = "stop" /\ StartTaken(mission, CommandTaken)
                  THEN stopped \cup {mission.run_id + 1} ELSE stopped
  /\ UNCHANGED <<stops, mission, prev, since_status, status, recordVars, diagVars,
                 controlVars, status_new, setpoint, spent>>

(* What other tasks own is read here; the rest is the step's Situation.    *)
GatherInputs ==
  /\ step_pc = "gather"
  /\ step_pc' = "step"
  /\ input' = [input EXCEPT !.saving = save_pending,
                            !.abort_run = aborted_run, !.abort_reason = abort_reason]
  /\ UNCHANGED <<command, mission, prev, since_status, status, recordVars, status_new, setpoint>>
  /\ TaskFrame

(* mission_step and the setpoint it hands to the control task.             *)
StepMission ==
  /\ step_pc = "step"
  /\ step_pc' = "record"
  /\ \E at \in Situations : mission' = MissionStep(mission, input, at)
  /\ setpoint' = MissionOutput(mission')
  /\ input' = NoInput
  /\ UNCHANGED <<command, prev, since_status, status, recordVars, status_new>>
  /\ TaskFrame

NewRunActive == mission.run_id # prev.run_id /\ MissionActive(mission)

Recording ==
  IF ~NewRunActive THEN record_state
  ELSE IF RecordCapacity > 0 THEN "RECORDING" ELSE "UNAVAILABLE"

Changed == mission.state # prev.state \/ mission.run_id # prev.run_id

(* Mutant: the samples of the run before stay in the buffer.               *)
RecordBeginKeepsSamples ==
  IF NewRunActive THEN [record EXCEPT !.run_id = mission.run_id] ELSE record

(* A new run takes the buffer; one refused or ended at once never gets one.*)
RecordBegin ==
  IF NewRunActive
    THEN [record EXCEPT !.run_id = mission.run_id, !.samples = <<>>, !.overflow = FALSE]
    ELSE record

(* record_sample: the run's steps and the one that ended it.               *)
Sampled ==
  /\ mission.run_id = RecordBegin.run_id
  /\ MissionActive(mission) \/ MissionActive(prev)
  /\ Recording = "RECORDING"

(* Mutant: a full buffer takes one sample more.                            *)
WithSampleUnbounded ==
  IF ~Sampled THEN RecordBegin
  ELSE [RecordBegin EXCEPT !.samples =
          Append(@, [run_id |-> mission.run_id, state |-> mission.state])]

WithSample ==
  IF ~Sampled THEN RecordBegin
  ELSE IF Len(RecordBegin.samples) >= RecordCapacity THEN [RecordBegin EXCEPT !.overflow = TRUE]
  ELSE [RecordBegin EXCEPT !.samples =
          Append(@, [run_id |-> mission.run_id, state |-> mission.state])]

(* Mutant: every change of state hands the record over.                    *)
HandsOverOnChange ==
  /\ Changed
  /\ mission.run_id = RecordBegin.run_id
  /\ Recording = "RECORDING"

(* A run that drove leaves a record to write.                              *)
HandsOver ==
  /\ Changed /\ MissionTerminal(mission)
  /\ mission.run_id = RecordBegin.run_id
  /\ Recording = "RECORDING"

RecordStep ==
  /\ step_pc = "record"
  /\ step_pc' = "status"
  /\ record' = IF HandsOver
                 THEN [WithSample EXCEPT !.final = [run_id |-> mission.run_id,
                                                    state |-> mission.state]]
                 ELSE WithSample
  /\ record_state' = IF HandsOver THEN "SAVING" ELSE Recording
  /\ save_pending' = (save_pending \/ HandsOver)
  /\ since_status' = IF Changed THEN 0 ELSE since_status
  /\ prev' = [run_id |-> mission.run_id, state |-> mission.state]
  /\ UNCHANGED <<command, input, mission, status, status_new, setpoint>>
  /\ TaskFrame

StatusDue ==
  \/ since_status = 0
  \/ since_status >= (IF MissionActive(mission) THEN ActivePeriod ELSE IdlePeriod)

(* Mutant: a status is written without counting its generation.            *)
CommitStatusUncounted ==
  /\ step_pc = "status"
  /\ step_pc' = "wait"
  /\ status' = [run_id |-> mission.run_id, over |-> MissionTerminal(mission)]
  /\ status_new' = (status_new \/ ~MissionTerminal(mission))
  /\ since_status' = 1
  /\ UNCHANGED <<command, input, mission, prev, recordVars, setpoint>>
  /\ TaskFrame

(* commit_status, at once after a change and else by its period.           *)
CommitStatus ==
  /\ step_pc = "status"
  /\ step_pc' = "wait"
  /\ status' = IF StatusDue
                 THEN [run_id |-> mission.run_id, over |-> MissionTerminal(mission)]
                 ELSE status
  /\ status_new' = (status_new \/ StatusDue)
  /\ since_status' = IF StatusDue THEN 1 ELSE since_status + 1
  /\ UNCHANGED <<command, input, mission, prev, recordVars, setpoint>>
  /\ TaskFrame

MissionTask ==
  \/ TakeCommand \/ GatherInputs \/ StepMission
  \/ RecordStep \/ CommitStatus

-------------------------------------------------------------------------------
(* The Diagnostics task: autonomy_diagnostics_tick.                        *)

DiagFrame == UNCHANGED <<rxVars, taskVars, controlVars, setpoint, stopped, spent>>

DiagWake ==
  /\ diag_pc = "wait"
  /\ diag_pc' = IF save_pending THEN "write" ELSE "copy"
  /\ UNCHANGED <<published, recordVars, status_new>>
  /\ DiagFrame

(* write_record: the card may be missing, full of names, or fail.          *)
WriteRecord ==
  /\ diag_pc = "write"
  /\ diag_pc' = "written"
  /\ record_state' \in {"SAVED", "FAILED"}
  /\ UNCHANGED <<record, save_pending, published, status_new>>
  /\ DiagFrame

ReleaseRecord ==
  /\ diag_pc = "written"
  /\ diag_pc' = "copy"
  /\ save_pending' = FALSE
  /\ UNCHANGED <<record, record_state, published, status_new>>
  /\ DiagFrame

(* The newest status, once: its generation differs from the published one. *)
PublishStatus ==
  /\ diag_pc = "copy"
  /\ diag_pc' = "wait"
  /\ published' = IF status_new THEN status ELSE published
  /\ status_new' = FALSE
  /\ UNCHANGED recordVars
  /\ DiagFrame

Diagnostics == DiagWake \/ WriteRecord \/ ReleaseRecord \/ PublishStatus

-------------------------------------------------------------------------------
(* The control task, as far as the mission meets it: auto_decide.          *)

Driving(out) == IF out.drive THEN out.run_id ELSE 0

ControlCycle ==
  \E in \in ControlInputs :
    LET sp  == IF in.later THEN AgeSetpoint(setpoint) ELSE setpoint
        out == AutoStep(sp, aborted_run,
                        [stop_request |-> auto_stop, manual_input |-> in.manual_input,
                         rail_cut |-> in.rail_cut, other_owner |-> in.other_owner,
                         armed |-> in.armed])
    IN  /\ step_pc \in PreemptAt
        /\ setpoint' = sp
        /\ auto_out' = out
        /\ aborted_run' = IF out.abort = "NONE" THEN aborted_run ELSE out.run_id
        /\ abort_reason' = IF out.abort = "NONE" THEN abort_reason ELSE out.abort
        /\ auto_stop' = FALSE
        /\ spent' = IF Driving(auto_out) \notin {0, Driving(out)} THEN Driving(auto_out) ELSE spent
        /\ UNCHANGED <<rxVars, taskVars, recordVars, diagVars, status_new, stopped>>

Next ==
  \/ StartCommand \/ StopRequested \/ StopRecorded
  \/ MissionTask \/ Diagnostics \/ ControlCycle

(* Both tasks run on core 1 and block between passes; neither waits for    *)
(* the other, and the control task is on core 0.  A handler that began     *)
(* returns.                                                                *)
Fairness == WF_vars(StopRecorded) /\ WF_vars(MissionTask) /\ WF_vars(Diagnostics)

Spec == Init /\ [][Next]_vars

FairSpec == Spec /\ Fairness
===============================================================================
