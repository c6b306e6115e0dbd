-------------------------- MODULE MotorControlProofs --------------------------
(***************************************************************************)
(* Theorems about MotorControl, for every value of its constants.          *)
(***************************************************************************)
EXTENDS MotorHistory, TLAPS

-------------------------------------------------------------------------------
(* What the components' operators return.                                  *)

ArbiterOK(arb) == arb \in Arbiter /\ Len(arb.events) <= EventCapacity

LEMMA ArbiterInitType == ArbiterOK(ArbiterInit)
  BY ArbiterAssumption
  DEF ArbiterOK, ArbiterInit, Arbiter, Proposal, Demand, WinchDemand, SteerDemand

LEMMA SubmitType ==
  ASSUME NEW arb, ArbiterOK(arb)
  PROVE  /\ \A value \in Demand : ArbiterOK(SubmitDrive(arb, value, TRUE))
         /\ \A value \in WinchDemand : ArbiterOK(SubmitWinch(arb, value, TRUE))
         /\ \A value \in SteerDemand : ArbiterOK(SubmitSteer(arb, value, TRUE))
<1>1. ASSUME NEW value \in Demand
      PROVE  ArbiterOK(SubmitDrive(arb, value, TRUE))
  <2> DEFINE D == [valid |-> TRUE, value |-> value, age |-> 0, changed |-> TRUE]
  <2>1. D \in [valid : BOOLEAN, value : Demand, age : 0 .. DriveTimeout, changed : BOOLEAN]
    BY ArbiterAssumption
  <2>2. ArbiterOK([arb EXCEPT !.drive = D])
    BY <2>1 DEF ArbiterOK, Arbiter
  <2>3. QED BY <2>2 DEF SubmitDrive
<1>2. ASSUME NEW value \in WinchDemand
      PROVE  ArbiterOK(SubmitWinch(arb, value, TRUE))
  BY DEF ArbiterOK, Arbiter, Proposal, SubmitWinch, Updated
<1>3. ASSUME NEW value \in SteerDemand
      PROVE  ArbiterOK(SubmitSteer(arb, value, TRUE))
  BY DEF ArbiterOK, Arbiter, Proposal, SubmitSteer, Updated
<1>4. QED BY <1>1, <1>2, <1>3

LEMMA PushEventType ==
  ASSUME NEW arb, ArbiterOK(arb), NEW event \in EventKind
  PROVE  ArbiterOK(PushEvent(arb, event))
<1>1. Len(arb.events) \in Nat /\ arb.events \in Seq(EventKind)
  BY DEF ArbiterOK, Arbiter
<1>2. CASE RingFull(arb)
  BY <1>1, <1>2 DEF ArbiterOK, Arbiter, PushEvent, Urgent
<1>3. CASE ~RingFull(arb)
  <2> DEFINE E == Append(arb.events, event)
             U == arb.urgent \cup ({event} \cap Urgent)
  <2>1. E \in Seq(EventKind) /\ Len(E) = Len(arb.events) + 1
    BY <1>1
  <2>2. U \in SUBSET Urgent
    BY DEF ArbiterOK, Arbiter
  <2>3. Len(E) <= EventCapacity
    BY <1>1, <1>3, <2>1, ArbiterAssumption DEF ArbiterOK, RingFull
  <2>4. PushEvent(arb, event) = [arb EXCEPT !.urgent = U, !.events = E]
    BY <1>3 DEF PushEvent
  <2> HIDE DEF E, U
  <2>5. QED BY <2>1, <2>2, <2>3, <2>4 DEF ArbiterOK, Arbiter
<1>4. QED BY <1>2, <1>3

LEMMA NotifyLinkType ==
  ASSUME NEW arb, ArbiterOK(arb)
  PROVE  ArbiterOK(NotifyLink(arb))
  BY ArbiterAssumption DEF ArbiterOK, Arbiter, NotifyLink

LEMMA AgeDriveType ==
  ASSUME NEW arb, ArbiterOK(arb)
  PROVE  ArbiterOK(AgeDrive(arb))
  BY ArbiterAssumption DEF ArbiterOK, Arbiter, AgeDrive

LEMMA DecideType ==
  ASSUME NEW arb, ArbiterOK(arb)
  PROVE  Decide(arb) \in Decision /\ ArbiterOK(AfterDecide(arb))
<1>1. Decide(arb) \in Decision
  BY DEF ArbiterOK, Arbiter, Proposal, Decide, Decision, Pending, DriveFailsafe,
         Demand, WinchDemand, SteerDemand
<1>2. ArbiterOK(AfterDecide(arb))
  <2>1. DriveFailsafe(arb) \in BOOLEAN
    BY DEF DriveFailsafe
  <2>2. << >> \in Seq(EventKind) /\ Len(<< >>) <= EventCapacity
    BY ArbiterAssumption
  <2> DEFINE D == [arb.drive EXCEPT !.changed = FALSE]
             W == [arb.winch EXCEPT !.changed = @ /\ ~arb.winch.valid]
             S == [arb.steer EXCEPT !.changed = @ /\ ~arb.steer.valid]
  <2>3. /\ D \in [valid : BOOLEAN, value : Demand, age : 0 .. DriveTimeout, changed : BOOLEAN]
        /\ W \in Proposal(WinchDemand)
        /\ S \in Proposal(SteerDemand)
    BY DEF ArbiterOK, Arbiter, Proposal
  <2>4. AfterDecide(arb) =
          [ drive |-> D, winch |-> W, steer |-> S, events |-> << >>, urgent |-> {},
            was_failsafe |-> DriveFailsafe(arb) ]
    BY DEF AfterDecide
  <2> HIDE DEF D, W, S
  <2>5. QED BY <2>1, <2>2, <2>3, <2>4 DEF ArbiterOK, Arbiter
<1>3. QED BY <1>1, <1>2

LEMMA SequenceType ==
  ASSUME NEW s \in Sequence
  PROVE  /\ \A message \in ArmRequest : Request(s, message) \in Sequence
         /\ \A gps_locked \in BOOLEAN : StepAction(s, gps_locked) \in ArmAction
         /\ \A act \in ArmAction : AfterStep(s, act) \in Sequence
         /\ AgeSequence(s) \in Sequence
<1>0. 0 \in 0 .. ArmingDuration /\ ArmingDuration \in 0 .. ArmingDuration
  BY ArmingAssumption
<1>1. \A message \in ArmRequest : Request(s, message) \in Sequence
  BY <1>0 DEF Sequence, ArmSequenceState, ArmRequest, Request
<1>2. \A gps_locked \in BOOLEAN : StepAction(s, gps_locked) \in ArmAction
  BY DEF StepAction, ArmAction, Sequence
<1>3. \A act \in ArmAction : AfterStep(s, act) \in Sequence
  BY <1>0 DEF Sequence, ArmSequenceState, ArmAction, AfterStep
<1>4. AgeSequence(s) \in Sequence
  BY ArmingAssumption DEF Sequence, ArmSequenceState, AgeSequence
<1>5. QED BY <1>1, <1>2, <1>3, <1>4

LEMMA EscType ==
  ASSUME NEW e \in Esc
  PROVE  /\ ArmBegin(e) \in Esc
         /\ ArmComplete(e) \in Esc
         /\ \A thrust \in Thrust : SetThrottle(e, thrust) \in Esc
         /\ Disarm(e) \in Esc
  BY DEF Esc, EscState, Thrust, ArmBegin, ArmComplete, SetThrottle, Disarm

LEMMA AutoStepType ==
  ASSUME NEW sp \in Setpoint, NEW aborted, NEW in,
         in.armed \in BOOLEAN
  PROVE  AutoStep(sp, aborted, in) \in AutoOut
<1>1. AbortFor(sp, in) \in AbortReason
  BY DEF AbortFor, AbortReason
<1>2. CASE Offered(sp, aborted)
  BY <1>1, <1>2 DEF AutoStep, AutoOut, Setpoint
<1>3. CASE ~Offered(sp, aborted)
  BY <1>3, AutoDriveAssumption DEF AutoStep, AutoOut, AutoOutInit, AbortReason
<1>4. QED BY <1>2, <1>3

LEMMA AgeSetpointType ==
  ASSUME NEW sp \in Setpoint
  PROVE  AgeSetpoint(sp) \in Setpoint
  BY AutoDriveAssumption DEF AgeSetpoint, Setpoint, Stale

LEMMA RequestQueueType ==
  ASSUME NEW queue \in Seq(ArmRequest), Len(queue) <= RequestQueueLen,
         NEW request \in {"ARM", "DISARM"}, NEW force \in BOOLEAN
  PROVE  /\ AfterSubmit(queue, request, force) \in Seq(ArmRequest)
         /\ Len(AfterSubmit(queue, request, force)) <= RequestQueueLen
<1> DEFINE M == [request |-> request, force |-> force]
           D == [request |-> "DISARM", force |-> FALSE]
<1>1. M \in ArmRequest /\ D \in ArmRequest
  BY DEF ArmRequest
<1>2. /\ Append(queue, M) \in Seq(ArmRequest)
      /\ Len(Append(queue, M)) = Len(queue) + 1
      /\ <<D>> \in Seq(ArmRequest)
      /\ Len(<<D>>) = 1
      /\ Len(queue) \in Nat
  BY <1>1
<1>3. \/ AfterSubmit(queue, request, force) = <<D>>
      \/ AfterSubmit(queue, request, force) = queue
      \/ /\ AfterSubmit(queue, request, force) = Append(queue, M)
         /\ Len(queue) < RequestQueueLen
  BY DEF AfterSubmit
<1>4. RequestQueueLen \in Nat /\ RequestQueueLen >= 1
  BY MotorControlAssumption
<1>5. CASE AfterSubmit(queue, request, force) = <<D>>
  BY <1>2, <1>4, <1>5
<1>6. CASE Len(queue) < RequestQueueLen /\ AfterSubmit(queue, request,
      force) = Append(queue, M)
  BY <1>2, <1>4, <1>6
<1>7. QED BY <1>3, <1>5, <1>6

LEMMA ActionQueueType ==
  ASSUME NEW queue \in Seq({"BEGIN", "COMPLETE", "DISARM"}), Len(queue) <= ActionQueueLen,
         NEW act \in ArmAction
  PROVE  /\ AfterPublish(queue, act) \in Seq({"BEGIN", "COMPLETE", "DISARM"})
         /\ Len(AfterPublish(queue, act)) <= ActionQueueLen
<1>1. CASE act \in {"NONE", "REJECT_NO_GPS"}
  BY <1>1 DEF AfterPublish
<1>2. CASE act \in {"BEGIN", "COMPLETE", "DISARM"}
  <2>1. /\ Append(queue, act) \in Seq({"BEGIN", "COMPLETE", "DISARM"})
        /\ Len(Append(queue, act)) = Len(queue) + 1
        /\ <<act>> \in Seq({"BEGIN", "COMPLETE", "DISARM"})
        /\ Len(<<act>>) = 1
        /\ Len(queue) \in Nat
    BY <1>2
  <2>2. \/ AfterPublish(queue, act) = <<act>>
        \/ AfterPublish(queue, act) = queue
        \/ /\ AfterPublish(queue, act) = Append(queue, act)
           /\ Len(queue) < ActionQueueLen
    BY <1>2 DEF AfterPublish
  <2>3. ActionQueueLen \in Nat /\ ActionQueueLen >= 1
    BY MotorControlAssumption
  <2>4. CASE AfterPublish(queue, act) = <<act>>
    BY <2>1, <2>3, <2>4
  <2>5. CASE Len(queue) < ActionQueueLen /\ AfterPublish(queue, act) = Append(queue, act)
    BY <2>1, <2>3, <2>5
  <2>6. QED BY <2>2, <2>4, <2>5
<1>3. QED BY <1>1, <1>2 DEF ArmAction

-------------------------------------------------------------------------------
(* Type correctness.                                                       *)

LEMMA ConstantBounds ==
  /\ 0 \in 0 .. LinkTimeout /\ LinkTimeout \in 0 .. LinkTimeout
  /\ 0 \in 0 .. CalLinkTimeout /\ CalLinkTimeout \in 0 .. CalLinkTimeout
  /\ NoiseTicks \in 0 .. NoiseTicks
  /\ 0 \in 0 .. MaxRuns
  /\ 0 \in 0 .. SetpointMaxAge + 1
  /\ 0 \in 0 .. ArmingDuration
  BY MotorControlAssumption, AutoDriveAssumption, ArmingAssumption

LEMMA InitType == Init \/ ArmedInit => TypeOK
<1>1. SUFFICES ASSUME Init \/ ArmedInit PROVE TypeOK
  OBVIOUS
<1>2. QuietInit
  BY <1>1 DEF Init, ArmedInit
<1>3. ArbiterOK(arbiter)
  BY <1>2, ArbiterInitType DEF QuietInit
<1>4. /\ request_queue \in Seq(ArmRequest) /\ Len(request_queue) <= RequestQueueLen
      /\ action_queue \in Seq({"BEGIN", "COMPLETE", "DISARM"})
      /\ Len(action_queue) <= ActionQueueLen
  BY <1>2, MotorControlAssumption DEF QuietInit
<1>5. decision \in Decision
  BY <1>2 DEF QuietInit, NoDecision, Decision, Demand, WinchDemand, SteerDemand
<1>6. setpoint \in Setpoint /\ auto_out \in AutoOut
  BY <1>2, ConstantBounds
  DEF QuietInit, SetpointInit, Setpoint, AutoOutInit, AutoOut, AbortReason
<1>7. sweep \in Sweep /\ bench \in Bench
  BY <1>2, ConstantBounds DEF QuietInit, Sweep, Bench
<1>8. /\ sequence \in Sequence /\ esc \in Esc
      /\ rail \in BOOLEAN /\ arm_power_allowed \in BOOLEAN
      /\ compass \in {"off", "claimed", "running"}
  <2>1. SequenceInit \in Sequence /\ EscInit \in Esc
    BY ConstantBounds
    DEF SequenceInit, Sequence, ArmSequenceState, EscInit, Esc, EscState, Thrust
  <2>2. CASE Init
    BY <2>1, <2>2 DEF Init
  <2>3. CASE ArmedInit
    BY <2>1, <2>3 DEF ArmedInit, Sequence, ArmSequenceState, Esc, EscState
  <2>4. QED BY <1>1, <2>2, <2>3
<1>9. QED
  BY <1>2, <1>3, <1>4, <1>5, <1>6, <1>7, <1>8, ConstantBounds
  DEF TypeOK, QuietInit, ArbiterOK, ControlPc, ArmAction, WinchDemand, SteerDemand, AbortReason

(* What every command handler leaves: a well-typed arbiter, link and sweep.*)
LEMMA NotifyLinkRxType ==
  ASSUME TypeOK, NEW arb, ArbiterOK(arb), NotifyLinkRx(arb)
  PROVE  ArbiterOK(arbiter') /\ link_age' \in 0 .. LinkTimeout /\ sweep' \in Sweep
<1>1. ArbiterOK(arbiter')
  BY NotifyLinkType DEF NotifyLinkRx
<1>2. link_age' \in 0 .. LinkTimeout
  BY ConstantBounds DEF NotifyLinkRx
<1>3. sweep' \in Sweep
  BY DEF NotifyLinkRx, TypeOK, Sweep
<1>4. QED BY <1>1, <1>2, <1>3

LEMMA HandlersType == TypeOK /\ Handlers => TypeOK'
<1>1. SUFFICES ASSUME TypeOK, Handlers PROVE TypeOK'
  OBVIOUS
<1>2. ArbiterOK(arbiter)
  BY <1>1 DEF TypeOK, ArbiterOK
<1>3. ASSUME HandlerFrame, ArbiterOK(arbiter'), link_age' \in 0 .. LinkTimeout,
             sweep' \in Sweep, auto_stop' \in BOOLEAN, bench' \in Bench
      PROVE  TypeOK'
  BY <1>1, <1>3
  DEF TypeOK, ArbiterOK, HandlerFrame, localVars, armVars, servoVars, otherVars, permitVars
<1>4. CASE MotorCommand
  BY <1>1, <1>2, <1>3, <1>4, SubmitType, NotifyLinkRxType DEF MotorCommand,
      DriveAccepted, TypeOK
<1>5. CASE WinchCommand
  BY <1>1, <1>2, <1>3, <1>5, SubmitType, NotifyLinkRxType DEF WinchCommand,
      WinchAccepted, TypeOK
<1>6. CASE SteerCommand
  BY <1>1, <1>2, <1>3, <1>6, SubmitType, NotifyLinkRxType DEF SteerCommand,
      SteerAccepted, TypeOK
<1>7. CASE EventCommand
  BY <1>1, <1>2, <1>3, <1>7, PushEventType, NotifyLinkRxType DEF EventCommand, TypeOK
<1>8. CASE CalibrateCommand
  <2>1. sweep' \in Sweep
    BY <1>1, <1>8, ConstantBounds DEF CalibrateCommand, TypeOK, Sweep
  <2>2. QED BY <1>1, <1>2, <1>3, <1>8, <2>1 DEF CalibrateCommand, TypeOK
<1>9. CASE BenchCommand
  <2>1. bench' \in Bench
    BY <1>1, <1>9 DEF BenchCommand, TypeOK, Bench
  <2>2. QED BY <1>1, <1>2, <1>3, <1>9, <2>1 DEF BenchCommand, TypeOK
<1>10. CASE MissionStop
  BY <1>1, <1>2, <1>3, <1>10 DEF MissionStop, TypeOK
<1>11. QED BY <1>1, <1>4, <1>5, <1>6, <1>7, <1>8, <1>9, <1>10 DEF Handlers

LEMMA OtherTasksType == TypeOK /\ OtherTasks => TypeOK'
<1>1. SUFFICES ASSUME TypeOK, OtherTasks PROVE TypeOK'
  OBVIOUS
<1>2. CASE PublishSetpoint
  <2>1. setpoint' \in Setpoint
    <3>1. setpoint \in Setpoint
      BY <1>1 DEF TypeOK
    <3>2. PICK run \in {setpoint.run_id, setpoint.run_id + 1} \cap (0 .. MaxRuns),
               active, drive, dry \in BOOLEAN :
            setpoint' = [run_id |-> run, active |-> active, drive |-> drive,
                         dry_run |-> dry /\ run # 0, age |-> 0]
      BY <1>2 DEF PublishSetpoint
    <3>3. QED BY <3>2, ConstantBounds DEF Setpoint
  <2>2. QED
    BY <1>1, <1>2, <2>1
    DEF PublishSetpoint, TypeOK, localVars, linkVars, armVars, servoVars, otherVars, permitVars
<1>3. CASE CompassClaim \/ CompassCheck \/ CompassEnd
  <2>1. CompassFrame /\ compass' \in {"off", "claimed", "running"}
    BY <1>3 DEF CompassClaim, CompassCheck, CompassEnd
  <2>2. QED BY <1>1, <2>1 DEF CompassFrame, TypeOK, localVars, linkVars, armVars, servoVars,
                             permitVars, autoVars
<1>4. CASE BenchFlush
  <2>1. bench' \in Bench
    BY <1>1, <1>4 DEF BenchFlush, TypeOK, Bench
  <2>2. QED
    BY <1>1, <1>4, <2>1
    DEF BenchFlush, TypeOK, localVars, linkVars, armVars, servoVars, otherVars,
      permitVars, autoVars
<1>5. QED BY <1>1, <1>2, <1>3, <1>4 DEF OtherTasks

LEMMA ArmSeqTaskType == TypeOK /\ ArmSeqTask => TypeOK'
<1>1. SUFFICES ASSUME TypeOK, ArmSeqTask PROVE TypeOK'
  OBVIOUS
<1>2. ASSUME ArmSeqFrame, sequence' \in Sequence, seq_pc' \in {"wait", "step"},
             request_queue' \in Seq(ArmRequest), Len(request_queue') <= RequestQueueLen,
             action_queue' \in Seq({"BEGIN", "COMPLETE", "DISARM"}),
             Len(action_queue') <= ActionQueueLen
      PROVE  TypeOK'
  BY <1>1, <1>2
  DEF TypeOK, ArmSeqFrame, localVars, linkVars, servoVars, otherVars, permitVars, autoVars
<1>3. CASE ArmSeqReceive
  <2>1. request_queue \in Seq(ArmRequest) /\ Len(request_queue) <= RequestQueueLen
    BY <1>1 DEF TypeOK
  <2>2. request_queue # << >> /\ request_queue' = Tail(request_queue)
    BY <1>3 DEF ArmSeqReceive
  <2>3. /\ Head(request_queue) \in ArmRequest
        /\ Tail(request_queue) \in Seq(ArmRequest)
        /\ Len(Tail(request_queue)) = Len(request_queue) - 1
        /\ Len(request_queue) \in Nat
    BY <2>1, <2>2
  <2>4. Len(request_queue') <= RequestQueueLen
    BY <2>1, <2>2, <2>3, MotorControlAssumption
  <2>5. QED
    BY <1>1, <1>2, <1>3, <2>2, <2>3, <2>4, SequenceType DEF ArmSeqReceive, TypeOK
<1>4. CASE ArmSeqTimeout
  BY <1>1, <1>2, <1>4 DEF ArmSeqTimeout, TypeOK
<1>5. CASE ArmSeqStep
  BY <1>1, <1>2, <1>5, SequenceType, ActionQueueType DEF ArmSeqStep, TypeOK
<1>6. QED BY <1>1, <1>3, <1>4, <1>5 DEF ArmSeqTask

LEMMA TickType == TypeOK /\ Tick => TypeOK'
<1>1. SUFFICES ASSUME TypeOK, Tick PROVE TypeOK'
  OBVIOUS
<1>2. ArbiterOK(arbiter')
  BY <1>1, AgeDriveType DEF TypeOK, ArbiterOK, Tick
<1>3. sequence' \in Sequence /\ setpoint' \in Setpoint
  BY <1>1, SequenceType, AgeSetpointType DEF TypeOK, Tick
<1>4. link_age' \in 0 .. LinkTimeout
  BY <1>1, MotorControlAssumption DEF TypeOK, Tick, Older
<1>5. sweep' \in Sweep
  <2>1. Older(sweep.rx_age, CalLinkTimeout) \in 0 .. CalLinkTimeout
    BY <1>1, MotorControlAssumption DEF TypeOK, Sweep, Older
  <2>2. (IF sweep.active /\ sweep.noise_left > 0 THEN sweep.noise_left - 1
         ELSE sweep.noise_left) \in 0 .. NoiseTicks
    BY <1>1, MotorControlAssumption DEF TypeOK, Sweep
  <2>3. QED BY <1>1, <2>1, <2>2 DEF TypeOK, Sweep, Tick
<1>6. QED
  BY <1>1, <1>2, <1>3, <1>4, <1>5
  DEF TypeOK, Tick, ArbiterOK, localVars, servoVars, otherVars, permitVars

LEMMA CycleBeginType == TypeOK /\ CycleBegin => TypeOK'
<1>1. SUFFICES ASSUME TypeOK, CycleBegin PROVE TypeOK'
  OBVIOUS
<1>2. ArbiterOK(arbiter)
  BY <1>1 DEF TypeOK, ArbiterOK
<1>3. decision' \in Decision
  <2>1. Decide(arbiter) \in Decision
    BY <1>2, DecideType
  <2>2. QED BY <1>1, <2>1 DEF CycleBegin, Decision
<1>4. ArbiterOK(arbiter')
  BY <1>1, <1>2, DecideType DEF CycleBegin
<1>5. QED
  BY <1>1, <1>3, <1>4
  DEF CycleBegin, TypeOK, ArbiterOK, ControlPc, LinkAlive, armVars, servoVars, otherVars,
      permitVars,
      autoVars

LEMMA AutoDecideType == TypeOK /\ AutoDecide => TypeOK'
<1>1. SUFFICES ASSUME TypeOK, AutoDecide PROVE TypeOK'
  OBVIOUS
<1>2. auto_out' \in AutoOut
  <2>1. AutoInputs.armed \in BOOLEAN
    BY DEF AutoInputs
  <2>2. AutoStep(setpoint, aborted_run, AutoInputs) \in AutoOut
    BY <1>1, <2>1, AutoStepType DEF TypeOK
  <2>3. QED BY <1>1, <2>2 DEF AutoDecide
<1>3. aborted_run' \in 0 .. MaxRuns /\ abort_reason' \in AbortReason
  BY <1>1, <1>2 DEF TypeOK, AutoDecide, AutoOut, Setpoint
<1>4. release_zero' \in BOOLEAN
  BY <1>1, <1>2 DEF TypeOK, AutoDecide, ReleaseZero, AutoOut
<1>5. QED
  BY <1>1, <1>2, <1>3, <1>4
  DEF AutoDecide, TypeOK, ControlPc, localVars, linkVars, armVars, servoVars, otherVars,
      permitVars

LEMMA RequestDisarmType ==
  ASSUME TypeOK, RequestDisarm
  PROVE  request_queue' \in Seq(ArmRequest) /\ Len(request_queue') <= RequestQueueLen
  BY RequestQueueType DEF TypeOK, RequestDisarm

LEMMA TakeArmActionType == TypeOK /\ TakeArmAction => TypeOK'
<1>1. SUFFICES ASSUME TypeOK, TakeArmAction PROVE TypeOK'
  OBVIOUS
<1>2. CASE action_queue = << >>
  BY <1>1, <1>2
  DEF TakeArmAction, TypeOK, ControlPc, linkVars, servoVars, otherVars, permitVars, autoVars
<1>3. CASE action_queue # << >>
  <2>1. /\ Head(action_queue) \in {"BEGIN", "COMPLETE", "DISARM"}
        /\ Tail(action_queue) \in Seq({"BEGIN", "COMPLETE", "DISARM"})
        /\ Len(Tail(action_queue)) = Len(action_queue) - 1
        /\ Len(action_queue) \in Nat /\ Len(action_queue) <= ActionQueueLen
    BY <1>1, <1>3 DEF TypeOK
  <2>2. /\ action_queue' \in Seq({"BEGIN", "COMPLETE", "DISARM"})
        /\ Len(action_queue') <= ActionQueueLen
    BY <1>1, <1>3, <2>1, MotorControlAssumption DEF TakeArmAction
  <2>3. CASE RefusedForCompass(Head(action_queue))
    <3>1. esc' \in Esc /\ request_queue' \in Seq(ArmRequest)
          /\ Len(request_queue') <= RequestQueueLen
      BY <1>1, <1>3, <2>3, EscType, RequestDisarmType DEF TakeArmAction, TypeOK
    <3>2. QED
      BY <1>1, <1>3, <2>2, <2>3, <3>1
      DEF TakeArmAction, TypeOK, ControlPc, linkVars, servoVars, otherVars, permitVars,
      autoVars
  <2>4. CASE ~RefusedForCompass(Head(action_queue))
    <3>1. SafeStop \in BOOLEAN
      BY <1>1 DEF TypeOK, Decision, SafeStop
    <3>2. /\ pc' = "apply" /\ action' = Head(action_queue) /\ safe_stop' = SafeStop
          /\ UNCHANGED <<esc, request_queue>>
      BY <1>1, <1>3, <2>4 DEF TakeArmAction
    <3>3. action' \in ArmAction
      BY <2>1, <3>2 DEF ArmAction
    <3>4. QED
      BY <1>1, <2>2, <3>1, <3>2, <3>3
      DEF TakeArmAction, TypeOK, ControlPc, linkVars, servoVars, otherVars, permitVars,
      autoVars
  <2>5. QED BY <2>3, <2>4
<1>4. QED BY <1>2, <1>3

LEMMA ApplyActionType ==
  TypeOK /\ (ApplyBegin \/ ApplyComplete \/ ApplyDisarm) => TypeOK'
<1>1. SUFFICES ASSUME TypeOK, ApplyBegin \/ ApplyComplete \/ ApplyDisarm PROVE TypeOK'
  OBVIOUS
<1>2. ASSUME ApplyFrame, esc' \in Esc, decision' \in Decision, internal_disarm' \in BOOLEAN,
             request_queue' \in Seq(ArmRequest), Len(request_queue') <= RequestQueueLen
      PROVE  TypeOK'
  BY <1>1, <1>2
  DEF ApplyFrame, TypeOK, ControlPc, ArmAction, linkVars, servoVars, otherVars,
      permitVars, autoVars
<1>3. CASE ApplyBegin
  BY <1>1, <1>2, <1>3, EscType, RequestDisarmType DEF ApplyBegin, TypeOK
<1>4. CASE ApplyComplete
  <2>1. decision' \in Decision
    BY <1>1, <1>4 DEF ApplyComplete, TypeOK, Decision
  <2>2. QED BY <1>1, <1>2, <1>4, <2>1, EscType, RequestDisarmType DEF ApplyComplete, TypeOK
<1>5. CASE ApplyDisarm
  <2>1. decision' \in Decision
    BY <1>1, <1>5 DEF ApplyDisarm, TypeOK, Decision
  <2>2. QED BY <1>1, <1>2, <1>5, <2>1, EscType DEF ApplyDisarm, TypeOK
<1>6. QED BY <1>1, <1>3, <1>4, <1>5

LEMMA SubmitForDecisionType ==
  ASSUME TypeOK, NEW stopped \in BOOLEAN, SubmitForDecision(stopped)
  PROVE  request_queue' \in Seq(ArmRequest) /\ Len(request_queue') <= RequestQueueLen
<1>1. decision.force_arm \in BOOLEAN
  BY DEF TypeOK, Decision
<1>2. QED BY <1>1, RequestQueueType DEF TypeOK, SubmitForDecision

LEMMA NoDecisionType == NoDecision \in Decision
  BY DEF NoDecision, Decision, Demand, WinchDemand, SteerDemand

LEMMA ApplyOutputsType == TypeOK /\ ApplyOutputs => TypeOK'
<1>1. SUFFICES ASSUME TypeOK, ApplyOutputs PROVE TypeOK'
  OBVIOUS
<1>2. ASSUME OutputsFrame, esc' \in Esc, rail' \in BOOLEAN, winch' \in WinchDemand,
             steer' \in SteerDemand \cup {"full"}, rail_cut' \in BOOLEAN,
             arm_power_allowed' \in BOOLEAN, NEW stopped \in BOOLEAN,
             SubmitForDecision(stopped)
      PROVE  TypeOK'
  <2>1. request_queue' \in Seq(ArmRequest) /\ Len(request_queue') <= RequestQueueLen
    BY <1>1, <1>2, SubmitForDecisionType
  <2>2. QED
    BY <1>1, <1>2, <2>1, NoDecisionType
    DEF OutputsFrame, otherVars, TypeOK, ControlPc, linkVars, autoVars
<1>3. CASE ApplyPowerOff
  BY <1>1, <1>2, <1>3 DEF ApplyPowerOff, TypeOK, WinchDemand
<1>4. CASE ApplySafeStop
  <2>1. esc' \in Esc
    BY <1>1, <1>4, EscType DEF ApplySafeStop, TypeOK, Thrust
  <2>2. rail' \in BOOLEAN /\ winch' \in WinchDemand /\ steer' \in SteerDemand \cup {"full"}
    BY <1>1, <1>4 DEF ApplySafeStop, TypeOK, WinchDemand, SteerDemand
  <2>3. QED BY <1>1, <1>2, <1>4, <2>1, <2>2 DEF ApplySafeStop, TypeOK
<1>5. CASE ApplyManual
  <2>1. esc' \in Esc
    BY <1>1, <1>5, EscType DEF ApplyManual, TypeOK, StickThrust, Thrust
  <2>2. winch' \in WinchDemand /\ steer' \in SteerDemand \cup {"full"}
    BY <1>1, <1>5 DEF ApplyManual, TypeOK, Decision
  <2>3. rail' \in BOOLEAN /\ rail_cut' \in BOOLEAN /\ arm_power_allowed' \in BOOLEAN
    BY <1>1, <1>5 DEF ApplyManual, TypeOK, PowersRail, Decision
  <2>4. QED BY <1>1, <1>2, <1>5, <2>1, <2>2, <2>3 DEF ApplyManual
<1>6. QED BY <1>1, <1>3, <1>4, <1>5 DEF ApplyOutputs

LEMMA CalibrationTickType == TypeOK /\ CalibrationTick => TypeOK'
<1>1. SUFFICES ASSUME TypeOK, CalibrationTick PROVE TypeOK'
  OBVIOUS
<1>2. SweepNow \in Sweep
  BY <1>1
  DEF TypeOK, Sweep, SweepNow, SweepReady, SweepGranted, SweepAsked, CalLinkAlive, AutoOut
<1>3. sweep' \in Sweep
  <2>1. CASE SweepIdle \/ SweepLevel
    BY <1>2, <2>1 DEF SweepIdle, SweepLevel
  <2>2. CASE SweepEnd
    BY <1>2, <2>2, ConstantBounds DEF SweepEnd, SweepEnded, Sweep
  <2>3. CASE SweepNoise
    BY <1>2, <2>3 DEF SweepNoise, Sweep
  <2>4. QED BY <1>1, <2>1, <2>2, <2>3 DEF CalibrationTick
<1>4. esc' \in Esc
  BY <1>1, EscType
  DEF CalibrationTick, SweepIdle, SweepEnd, SweepNoise, SweepLevel, TypeOK, Thrust
<1>5. steer' \in SteerDemand \cup {"full"}
  BY <1>1
  DEF CalibrationTick, SweepIdle, SweepEnd, SweepNoise, SweepLevel, TypeOK, SteerDemand
<1>6. CalibrationFrame
  BY <1>1 DEF CalibrationTick, SweepIdle, SweepEnd, SweepNoise, SweepLevel
<1>7. QED
  BY <1>1, <1>3, <1>4, <1>5, <1>6
  DEF CalibrationFrame, otherVars, TypeOK, ControlPc, localVars, linkVars, armVars,
      permitVars, autoVars

LEMMA BenchTickType == TypeOK /\ BenchTick => TypeOK'
<1>1. SUFFICES ASSUME TypeOK, BenchTick PROVE TypeOK'
  OBVIOUS
<1>2. bench' \in Bench
  <2>1. \A active, saving \in BOOLEAN : BenchConsumed(active, saving) \in Bench
    BY DEF BenchConsumed, Bench
  <2>2. bench.save_pending \in BOOLEAN
    BY <1>1 DEF TypeOK, Bench
  <2>3. QED
    BY <1>1, <2>1, <2>2
    DEF BenchTick, BenchStop, BenchIdle, BenchStart, BenchRun, BenchFail, BenchFinish
<1>3. esc' \in Esc
  BY <1>1, EscType
  DEF BenchTick, BenchStop, BenchIdle, BenchStart, BenchRun, BenchFail, BenchFinish,
      TypeOK, Thrust
<1>4. steer' \in SteerDemand \cup {"full"}
  BY <1>1
  DEF BenchTick, BenchStop, BenchIdle, BenchStart, BenchRun, BenchFail, BenchFinish,
      TypeOK, SteerDemand
<1>5. BenchFrame
  BY <1>1 DEF BenchTick, BenchStop, BenchIdle, BenchStart, BenchRun, BenchFail, BenchFinish
<1>6. QED
  BY <1>1, <1>2, <1>3, <1>4, <1>5
  DEF BenchFrame, otherVars, TypeOK, ControlPc, localVars, linkVars, armVars, permitVars,
      autoVars

LEMMA AutoTickType == TypeOK /\ AutoTick => TypeOK'
<1>1. SUFFICES ASSUME TypeOK, AutoTick PROVE TypeOK'
  OBVIOUS
<1>2. esc' \in Esc
  BY <1>1, EscType DEF AutoTick, TypeOK, Thrust
<1>3. rail' \in BOOLEAN /\ release_zero' \in BOOLEAN /\ steer' \in SteerDemand \cup {"full"}
  BY <1>1 DEF AutoTick, TypeOK, AutoOut, SteerDemand
<1>4. QED
  BY <1>1, <1>2, <1>3
  DEF AutoTick, otherVars, TypeOK, ControlPc, localVars, linkVars, armVars, permitVars

LEMMA StepType == TypeOK /\ [Next]_vars => TypeOK'
<1>1. SUFFICES ASSUME TypeOK, [Next]_vars PROVE TypeOK'
  OBVIOUS
<1>2. CASE ControlStep
  BY <1>1, <1>2, CycleBeginType, AutoDecideType, TakeArmActionType, ApplyActionType,
     ApplyOutputsType, CalibrationTickType, BenchTickType, AutoTickType DEF ControlStep
<1>3. CASE ArmSeqTask \/ Handlers \/ OtherTasks \/ Tick
  BY <1>1, <1>3, ArmSeqTaskType, HandlersType, OtherTasksType, TickType
<1>4. CASE UNCHANGED vars
  BY <1>1, <1>4
  DEF TypeOK, vars, localVars, linkVars, armVars, servoVars, otherVars, permitVars, autoVars
<1>5. QED BY <1>1, <1>2, <1>3, <1>4 DEF Next

(* Type correctness, for any length of the queues and the event ring, any  *)
(* timeouts and any set of commands: the event ring, the request queue and *)
(* the action queue never exceed their length.                             *)
THEOREM TypeCorrect == Spec \/ ArmedSpec => []TypeOK
<1>1. QED BY InitType, StepType, PTL DEF Spec, ArmedSpec

-------------------------------------------------------------------------------
(* Which steps can touch what the invariants below are about.              *)

LEMMA ThrottleKeepsState ==
  ASSUME NEW e \in Esc, NEW thrust
  PROVE  SetThrottle(e, thrust).state = e.state
  BY DEF SetThrottle, Esc

(* Only the arm actions change the state of the ESC driver.                *)
LEMMA EscStateSteps ==
  ASSUME TypeOK, [Next]_vars
  PROVE  TakeArmAction \/ ApplyBegin \/ ApplyComplete \/ ApplyDisarm \/ esc'.state = esc.state
<1>1. esc \in Esc
  BY DEF TypeOK
<1>2. CASE CycleBegin \/ AutoDecide \/ AutoTick
  BY <1>1, <1>2, ThrottleKeepsState DEF CycleBegin, AutoDecide, AutoTick
<1>3. CASE ApplyOutputs
  <2>1. CASE ApplyPowerOff
    BY <2>1 DEF ApplyPowerOff
  <2>2. CASE ApplySafeStop
    BY <1>1, <2>2, ThrottleKeepsState DEF ApplySafeStop
  <2>3. CASE ApplyManual
    <3>1. esc' = SetThrottle(esc, StickThrust) \/ esc' = esc
      BY <2>3 DEF ApplyManual
    <3>2. QED BY <1>1, <3>1, ThrottleKeepsState
  <2>4. QED BY <1>3, <2>1, <2>2, <2>3 DEF ApplyOutputs
<1>4. CASE CalibrationTick
  BY <1>1, <1>4, ThrottleKeepsState
  DEF CalibrationTick, SweepIdle, SweepEnd, SweepNoise, SweepLevel
<1>5. CASE BenchTick
  BY <1>1, <1>5, ThrottleKeepsState
  DEF BenchTick, BenchStop, BenchIdle, BenchStart, BenchRun, BenchFail, BenchFinish
<1>6. CASE ArmSeqTask
  BY <1>6 DEF ArmSeqTask, ArmSeqReceive, ArmSeqTimeout, ArmSeqStep, ArmSeqFrame
<1>7. CASE Handlers
  BY <1>7
  DEF Handlers, MotorCommand, WinchCommand, SteerCommand, EventCommand, CalibrateCommand,
      BenchCommand, MissionStop, HandlerFrame
<1>8. CASE OtherTasks \/ Tick \/ UNCHANGED vars
  BY <1>8
  DEF OtherTasks, PublishSetpoint, CompassClaim, CompassCheck, CompassEnd, CompassFrame,
      BenchFlush, Tick, vars
<1>9. QED
  BY <1>2, <1>3, <1>4, <1>5, <1>6, <1>7, <1>8 DEF Next, ControlStep

-------------------------------------------------------------------------------
(* The compass calibration and the arm actions.                            *)

(* CompassNeverArmed is not inductive: an action taken before the claim is *)
(* applied after it.  A COMPLETE that was taken finds an ESC that is still *)
(* arming, and the calibration starts only on a disarmed one.              *)
CompassInv ==
  compass = "running" =>
    /\ esc.state # "armed"
    /\ ~(pc = "apply" /\ action = "COMPLETE" /\ esc.state = "arming")

LEMMA CompassStep == TypeOK /\ CompassInv /\ [Next]_vars => CompassInv'
<1>1. SUFFICES ASSUME TypeOK, CompassInv, [Next]_vars PROVE CompassInv'
  OBVIOUS
<1>2. esc \in Esc
  BY <1>1 DEF TypeOK
<1>3. CASE TakeArmAction
  BY <1>1, <1>2, <1>3
  DEF TakeArmAction, otherVars, CompassInv, RefusedForCompass, CompassActive, Disarm, Esc
<1>4. CASE ApplyBegin \/ ApplyComplete \/ ApplyDisarm
  BY <1>1, <1>2, <1>4
  DEF ApplyBegin, ApplyComplete, ApplyDisarm, ApplyFrame, otherVars, CompassInv,
      ArmBegin, ArmComplete,
      Disarm, CanArmBegin, CanArmComplete, Esc
<1>5. CASE OtherTasks
  BY <1>1, <1>2, <1>5
  DEF OtherTasks, PublishSetpoint, CompassClaim, CompassCheck, CompassEnd, CompassFrame,
      BenchFlush, localVars, otherVars, CompassInv
<1>6. CASE ControlStep /\ ~TakeArmAction /\ ~(ApplyBegin \/ ApplyComplete \/ ApplyDisarm)
  <2>1. esc'.state = esc.state
    BY <1>1, <1>6, EscStateSteps
  <2>2. pc' # "apply" /\ compass' = compass
    BY <1>6
    DEF ControlStep, CycleBegin, AutoDecide, AutoTick, ApplyOutputs, ApplyPowerOff,
        ApplySafeStop, ApplyManual, OutputsFrame, CalibrationTick, SweepIdle, SweepEnd,
        SweepNoise, SweepLevel, CalibrationFrame, BenchTick, BenchStop, BenchIdle, BenchStart,
        BenchRun, BenchFail, BenchFinish, BenchFrame, otherVars
  <2>3. QED BY <1>1, <2>1, <2>2 DEF CompassInv
<1>7. CASE ArmSeqTask \/ Handlers \/ Tick \/ UNCHANGED vars
  BY <1>1, <1>7
  DEF ArmSeqTask, ArmSeqReceive, ArmSeqTimeout, ArmSeqStep, ArmSeqFrame,
      Handlers, MotorCommand, WinchCommand, SteerCommand, EventCommand, CalibrateCommand,
      BenchCommand, MissionStop, HandlerFrame, Tick, vars, localVars, otherVars, CompassInv
<1>8. QED BY <1>1, <1>3, <1>4, <1>5, <1>6, <1>7 DEF Next

(* No interleaving of the compass task on core 1 with the control and the  *)
(* ArmSeq tasks on core 0 arms the ESCs while a calibration runs.          *)
THEOREM CompassSafe == Spec \/ ArmedSpec => []CompassNeverArmed
<1>1. Init \/ ArmedInit => CompassInv
  BY DEF Init, ArmedInit, CompassInv, EscInit
<1>2. CompassInv => CompassNeverArmed
  BY DEF CompassInv, CompassNeverArmed
<1>3. QED BY <1>1, <1>2, CompassStep, TypeCorrect, PTL DEF Spec, ArmedSpec

-------------------------------------------------------------------------------
(* The action queue.                                                       *)

(* How many actions can wait when the sequence is in a state: the last     *)
(* disarm emptied the queue, and each later action moved the sequence on.  *)
QueueInv ==
  /\ sequence.state \in {"DISARMED", "ARM_PENDING"} => Len(action_queue) <= 1
  /\ sequence.state = "ARMING" => Len(action_queue) <= 2
  /\ Len(action_queue) <= 3

LEMMA QueueStep == TypeOK /\ QueueInv /\ [Next]_vars => QueueInv'
<1>1. SUFFICES ASSUME TypeOK, QueueInv, [Next]_vars PROVE QueueInv'
  OBVIOUS
<1>2. /\ action_queue \in Seq({"BEGIN", "COMPLETE", "DISARM"})
      /\ Len(action_queue) \in Nat
      /\ sequence \in Sequence
  BY <1>1 DEF TypeOK
<1>3. CASE UNCHANGED <<sequence, action_queue>>
  BY <1>1, <1>3 DEF QueueInv
<1>4. CASE TakeArmAction
  <2>1. CASE action_queue = << >>
    BY <1>1, <1>3, <1>4, <2>1 DEF TakeArmAction
  <2>2. CASE action_queue # << >>
    <3>1. action_queue' = Tail(action_queue) /\ sequence' = sequence
      BY <1>4, <2>2 DEF TakeArmAction
    <3>2. Len(Tail(action_queue)) = Len(action_queue) - 1
      BY <1>2, <2>2
    <3>3. QED BY <1>1, <1>2, <3>1, <3>2 DEF QueueInv
  <2>3. QED BY <2>1, <2>2
<1>5. CASE ArmSeqReceive
  BY <1>1, <1>2, <1>5 DEF ArmSeqReceive, Request, QueueInv, Sequence, ArmSequenceState
<1>6. CASE ArmSeqStep
  <2>1. PICK gps_locked \in BOOLEAN :
          /\ sequence' = AfterStep(sequence, StepAction(sequence, gps_locked))
          /\ action_queue' = AfterPublish(action_queue, StepAction(sequence, gps_locked))
    BY <1>6 DEF ArmSeqStep
  <2> DEFINE act == StepAction(sequence, gps_locked)
  <2>2. CASE act = "DISARM"
    <3>1. action_queue' = <<"DISARM">> /\ sequence'.state = "DISARMED"
      BY <1>2, <2>1, <2>2 DEF AfterPublish, AfterStep, Sequence
    <3>2. QED BY <3>1 DEF QueueInv
  <2>3. CASE act = "REJECT_NO_GPS"
    <3>1. /\ action_queue' = action_queue /\ sequence'.state = "DISARMED"
          /\ sequence.state = "ARM_PENDING"
      BY <1>2, <2>1, <2>3 DEF AfterPublish, AfterStep, StepAction, Sequence
    <3>2. QED BY <1>1, <3>1 DEF QueueInv
  <2>4. CASE act = "BEGIN"
    <3>1. /\ sequence'.state = "ARMING" /\ sequence.state = "ARM_PENDING"
          /\ action_queue' = action_queue \/ action_queue' = Append(action_queue, "BEGIN")
      BY <1>2, <2>1, <2>4 DEF AfterPublish, AfterStep, StepAction, Sequence
    <3>2. Len(action_queue') <= Len(action_queue) + 1
      BY <1>2, <3>1
    <3>3. QED BY <1>1, <1>2, <3>1, <3>2 DEF QueueInv
  <2>5. CASE act = "COMPLETE"
    <3>1. /\ sequence'.state = "ARMED" /\ sequence.state = "ARMING"
          /\ action_queue' = action_queue \/ action_queue' = Append(action_queue, "COMPLETE")
      BY <1>2, <2>1, <2>5 DEF AfterPublish, AfterStep, StepAction, DeadlineReached, Sequence
    <3>2. Len(action_queue') <= Len(action_queue) + 1
      BY <1>2, <3>1
    <3>3. QED BY <1>1, <1>2, <3>1, <3>2 DEF QueueInv
  <2>6. CASE act = "NONE"
    BY <1>1, <1>3, <2>1, <2>6 DEF AfterPublish, AfterStep
  <2>7. act \in ArmAction
    BY <1>2, SequenceType
  <2>8. QED BY <2>2, <2>3, <2>4, <2>5, <2>6, <2>7 DEF ArmAction
<1>7. CASE Tick
  BY <1>1, <1>2, <1>7 DEF Tick, AgeSequence, QueueInv, Sequence
<1>8. CASE ArmSeqTimeout \/ Handlers \/ OtherTasks \/ UNCHANGED vars
  BY <1>3, <1>8
  DEF ArmSeqTimeout, Handlers, MotorCommand, WinchCommand, SteerCommand, EventCommand,
      CalibrateCommand, BenchCommand, MissionStop, HandlerFrame, OtherTasks, PublishSetpoint,
      CompassClaim, CompassCheck, CompassEnd, CompassFrame, BenchFlush, vars, armVars
<1>9. CASE ControlStep /\ ~TakeArmAction
  BY <1>3, <1>9
  DEF ControlStep, CycleBegin, AutoDecide, ApplyBegin, ApplyComplete, ApplyDisarm, ApplyFrame,
      ApplyOutputs, ApplyPowerOff, ApplySafeStop, ApplyManual, OutputsFrame, CalibrationTick,
      SweepIdle, SweepEnd, SweepNoise, SweepLevel, CalibrationFrame, BenchTick, BenchStop,
      BenchIdle, BenchStart, BenchRun, BenchFail, BenchFinish, BenchFrame, AutoTick, armVars
<1>10. QED BY <1>1, <1>4, <1>5, <1>6, <1>7, <1>8, <1>9 DEF Next, ArmSeqTask

(* A queue of three actions is enough: no BEGIN or COMPLETE is ever        *)
(* dropped, however long the control task takes to pick them up.           *)
THEOREM ActionsKept == Spec \/ ArmedSpec => []ActionNeverDropped
<1>1. Init \/ ArmedInit => QueueInv
  BY DEF Init, ArmedInit, QuietInit, QueueInv
<1>2. TypeOK /\ QueueInv => ActionNeverDropped
  <2>1. SUFFICES ASSUME TypeOK, QueueInv, NEW gps_locked \in BOOLEAN,
                        StepAction(sequence, gps_locked) \in {"BEGIN", "COMPLETE"}
                 PROVE  Len(action_queue) < ActionQueueLen
    BY DEF ActionNeverDropped
  <2>2. sequence.state \in {"ARM_PENDING", "ARMING"}
    BY <2>1 DEF StepAction, DeadlineReached, TypeOK, Sequence
  <2>3. Len(action_queue) <= 2 /\ Len(action_queue) \in Nat
    BY <2>1, <2>2 DEF QueueInv, TypeOK
  <2>4. QED BY <2>3, MotorControlAssumption
<1>3. QED BY <1>1, <1>2, QueueStep, TypeCorrect, PTL DEF Spec, ArmedSpec
-------------------------------------------------------------------------------
(* The servo rail.                                                         *)

LEMMA RailStep == TypeOK /\ RailCutHolds /\ [Next]_vars => RailCutHolds'
<1>1. SUFFICES ASSUME TypeOK, RailCutHolds, [Next]_vars PROVE RailCutHolds'
  OBVIOUS
<1>2. CASE UNCHANGED <<rail, rail_cut>>
  BY <1>1, <1>2 DEF RailCutHolds
<1>3. CASE ApplyPowerOff
  BY <1>3 DEF ApplyPowerOff, RailCutHolds
<1>4. CASE ApplySafeStop
  BY <1>1, <1>4 DEF ApplySafeStop, RailCutHolds
<1>5. CASE ApplyManual
  <2>1. rail_cut' => rail_cut /\ ~decision.servo_power_on
    BY <1>5 DEF ApplyManual
  <2>2. rail' = (rail \/ PowersRail(rail_cut'))
    BY <1>5 DEF ApplyManual
  <2>3. rail_cut' => ~PowersRail(rail_cut')
    BY <2>1 DEF PowersRail
  <2>4. QED BY <1>1, <2>1, <2>2, <2>3 DEF RailCutHolds
<1>6. CASE AutoTick
  BY <1>1, <1>6 DEF AutoTick, RailCutHolds, permitVars
<1>7. CASE ControlStep /\ ~ApplyOutputs /\ ~AutoTick
  BY <1>2, <1>7
  DEF ControlStep, CycleBegin, AutoDecide, TakeArmAction, ApplyBegin, ApplyComplete,
      ApplyDisarm, ApplyFrame, CalibrationTick, SweepIdle, SweepEnd, SweepNoise, SweepLevel,
      CalibrationFrame, BenchTick, BenchStop, BenchIdle, BenchStart, BenchRun, BenchFail,
      BenchFinish, BenchFrame, servoVars, otherVars, permitVars
<1>8. CASE ArmSeqTask \/ Handlers \/ OtherTasks \/ Tick \/ UNCHANGED vars
  BY <1>2, <1>8
  DEF ArmSeqTask, ArmSeqReceive, ArmSeqTimeout, ArmSeqStep, ArmSeqFrame,
      Handlers, MotorCommand, WinchCommand, SteerCommand, EventCommand, CalibrateCommand,
      BenchCommand, MissionStop, HandlerFrame, OtherTasks, PublishSetpoint, CompassClaim,
      CompassCheck, CompassEnd, CompassFrame, BenchFlush, Tick, vars, servoVars,
      otherVars, permitVars
<1>9. QED
  BY <1>1, <1>3, <1>4, <1>5, <1>6, <1>7, <1>8 DEF Next, ControlStep, ApplyOutputs

(* An explicit PWR-OFF keeps the servo rail off until an explicit PWR-ON,  *)
(* whatever commands and setpoints arrive at whatever step of a cycle.     *)
THEOREM RailSafe == Spec \/ ArmedSpec => []RailCutHolds
<1>1. Init \/ ArmedInit => RailCutHolds
  BY DEF Init, ArmedInit, QuietInit, RailCutHolds
<1>2. QED BY <1>1, RailStep, TypeCorrect, PTL DEF Spec, ArmedSpec

-------------------------------------------------------------------------------
(* Who owns the jets.                                                      *)

LEMMA MissionStep == TypeOK /\ MissionExcludesOthers /\ [Next]_vars => MissionExcludesOthers'
<1>1. SUFFICES ASSUME TypeOK, MissionExcludesOthers, [Next]_vars PROVE MissionExcludesOthers'
  OBVIOUS
<1>2. CASE UNCHANGED <<auto_out, sweep.active, bench.active>>
  BY <1>1, <1>2 DEF MissionExcludesOthers
<1>3. CASE AutoDecide
  <2>1. UNCHANGED <<sweep, bench>>
    BY <1>3 DEF AutoDecide
  <2>2. auto_out'.own => ~(sweep.active \/ bench.active)
    BY <1>3 DEF AutoDecide, AutoStep, AutoOutInit, AbortFor, AutoInputs
  <2>3. QED BY <2>1, <2>2 DEF MissionExcludesOthers
<1>4. CASE CalibrationTick
  <2>1. UNCHANGED <<auto_out, bench>>
    BY <1>4
    DEF CalibrationTick, SweepIdle, SweepEnd, SweepNoise, SweepLevel, CalibrationFrame,
        autoVars
  <2>2. sweep \in Sweep
    BY <1>1 DEF TypeOK
  <2>3. sweep'.active => sweep.active \/ SweepGranted
    BY <1>4, <2>2
    DEF CalibrationTick, SweepIdle, SweepEnd, SweepNoise, SweepLevel, SweepEnded, SweepNow,
        Sweep
  <2>4. SweepGranted => ~auto_out.own
    BY DEF SweepGranted
  <2>5. QED BY <1>1, <2>1, <2>3, <2>4 DEF MissionExcludesOthers
<1>5. CASE BenchTick
  <2>1. UNCHANGED <<auto_out, sweep>>
    BY <1>5
    DEF BenchTick, BenchStop, BenchIdle, BenchStart, BenchRun, BenchFail, BenchFinish,
        BenchFrame, autoVars
  <2>2. bench'.active => bench.active \/ ~auto_out.own
    BY <1>5
    DEF BenchTick, BenchStop, BenchIdle, BenchStart, BenchRun, BenchFail, BenchFinish,
        BenchConsumed, BenchMayStart
  <2>3. QED BY <1>1, <2>1, <2>2 DEF MissionExcludesOthers
<1>6. CASE ControlStep /\ ~AutoDecide /\ ~CalibrationTick /\ ~BenchTick
  BY <1>2, <1>6
  DEF ControlStep, CycleBegin, TakeArmAction, ApplyBegin, ApplyComplete, ApplyDisarm,
      ApplyFrame, ApplyOutputs, ApplyPowerOff, ApplySafeStop, ApplyManual, OutputsFrame,
      AutoTick, autoVars
<1>7. CASE ArmSeqTask \/ Handlers \/ OtherTasks \/ Tick \/ UNCHANGED vars
  <2>1. sweep \in Sweep /\ bench \in Bench
    BY <1>1 DEF TypeOK
  <2>2. sweep'.active = sweep.active
    BY <1>7, <2>1
    DEF ArmSeqTask, ArmSeqReceive, ArmSeqTimeout, ArmSeqStep, ArmSeqFrame,
        Handlers, MotorCommand, WinchCommand, SteerCommand, EventCommand, CalibrateCommand,
        BenchCommand, MissionStop, NotifyLinkRx, OtherTasks, PublishSetpoint, CompassClaim,
        CompassCheck, CompassEnd, CompassFrame, BenchFlush, Tick, vars, Sweep
  <2>3. bench'.active = bench.active
    BY <1>7, <2>1
    DEF ArmSeqTask, ArmSeqReceive, ArmSeqTimeout, ArmSeqStep, ArmSeqFrame,
        Handlers, MotorCommand, WinchCommand, SteerCommand, EventCommand, CalibrateCommand,
        BenchCommand, MissionStop, OtherTasks, PublishSetpoint, CompassClaim,
        CompassCheck, CompassEnd, CompassFrame, BenchFlush, Tick, vars, Bench
  <2>4. auto_out' = auto_out
    BY <1>7
    DEF ArmSeqTask, ArmSeqReceive, ArmSeqTimeout, ArmSeqStep, ArmSeqFrame,
        Handlers, MotorCommand, WinchCommand, SteerCommand, EventCommand, CalibrateCommand,
        BenchCommand, MissionStop, HandlerFrame, OtherTasks, PublishSetpoint, CompassClaim,
        CompassCheck, CompassEnd, CompassFrame, BenchFlush, Tick, vars, autoVars
  <2>5. QED BY <1>2, <2>2, <2>3, <2>4
<1>8. QED BY <1>1, <1>3, <1>4, <1>5, <1>6, <1>7 DEF Next

(* However the requests and the setpoints interleave with a cycle, a       *)
(* mission never drives beside a sweep or a bench run.                     *)
THEOREM MissionSafe == Spec \/ ArmedSpec => []MissionExcludesOthers
<1>1. Init \/ ArmedInit => MissionExcludesOthers
  BY DEF Init, ArmedInit, QuietInit, AutoOutInit, MissionExcludesOthers
<1>2. QED BY <1>1, MissionStep, TypeCorrect, PTL DEF Spec, ArmedSpec

-------------------------------------------------------------------------------
(* The bench run's throttle.                                               *)

(* BenchThrustOwned holds between two cycles only because it holds at each *)
(* step, and the zero that ends a run is refused by a disarmed driver: the *)
(* pins are off already then.                                              *)
BenchInv ==
  /\ esc.thrust # "off" => esc.state = "armed"
  /\ esc.thrust = "bench" => bench.active

LEMMA ThrottleKeepsBenchInv ==
  ASSUME esc \in Esc, BenchInv, bench'.active = bench.active,
         NEW thrust \in Thrust \ {"bench"},
         esc' = SetThrottle(esc, thrust) \/ esc' = esc
  PROVE  BenchInv'
  BY DEF BenchInv, SetThrottle, Esc

LEMMA BenchTickKeepsInv ==
  ASSUME TypeOK, BenchInv, BenchTick
  PROVE  BenchInv'
<1>1. esc \in Esc /\ bench \in Bench
  BY DEF TypeOK
<1>2. CASE BenchStop
  BY <1>1, <1>2 DEF BenchStop, BenchConsumed, BenchInv, SetThrottle, Esc, Thrust
<1>3. CASE BenchIdle
  BY <1>1, <1>3 DEF BenchIdle, BenchConsumed, BenchInv
<1>4. CASE BenchStart
  BY <1>1, <1>4 DEF BenchStart, BenchConsumed, BenchInv, SetThrottle, Esc
<1>5. CASE BenchRun
  <2>1. PICK thrust \in {"off", "bench"} : esc' = SetThrottle(esc, thrust)
    BY <1>5 DEF BenchRun
  <2>2. esc.state = "armed" /\ bench'.active = TRUE
    BY <1>5 DEF BenchRun, BenchConsumed
  <2>3. QED BY <1>1, <2>1, <2>2 DEF BenchInv, SetThrottle, Esc
<1>6. CASE BenchFail \/ BenchFinish
  <2>1. esc' = SetThrottle(esc, "off")
    BY <1>6 DEF BenchFail, BenchFinish
  <2>2. esc'.thrust = "off"
    BY <1>1, <2>1 DEF SetThrottle, BenchInv, Esc
  <2>3. QED BY <2>2 DEF BenchInv
<1>7. QED BY <1>2, <1>3, <1>4, <1>5, <1>6 DEF BenchTick

LEMMA BenchInvStep == TypeOK /\ BenchInv /\ [Next]_vars => BenchInv'
<1>1. SUFFICES ASSUME TypeOK, BenchInv, [Next]_vars PROVE BenchInv'
  OBVIOUS
<1>2. esc \in Esc /\ bench \in Bench
  BY <1>1 DEF TypeOK
<1>3. CASE BenchTick
  BY <1>1, <1>3, BenchTickKeepsInv
<1>4. CASE UNCHANGED <<esc, bench.active>>
  BY <1>1, <1>4 DEF BenchInv
<1>5. CASE TakeArmAction \/ ApplyBegin \/ ApplyComplete \/ ApplyDisarm
  BY <1>1, <1>2, <1>5
  DEF TakeArmAction, ApplyBegin, ApplyComplete, ApplyDisarm, ApplyFrame, BenchInv, ArmBegin,
      ArmComplete, Disarm, Esc
<1>6. CASE ApplyOutputs \/ CalibrationTick \/ AutoTick
  <2>1. bench' = bench
    BY <1>6
    DEF ApplyOutputs, ApplyPowerOff, ApplySafeStop, ApplyManual, OutputsFrame,
        CalibrationTick, SweepIdle, SweepEnd, SweepNoise, SweepLevel, CalibrationFrame,
        AutoTick
  <2>2. \E thrust \in Thrust \ {"bench"} : esc' = SetThrottle(esc, thrust) \/ esc' = esc
    <3>1. CASE ApplyPowerOff \/ ApplySafeStop
      BY <3>1 DEF ApplyPowerOff, ApplySafeStop, Thrust
    <3>2. CASE ApplyManual
      <4>1. StickThrust \in Thrust \ {"bench"}
        BY DEF StickThrust, Thrust
      <4>2. esc' = SetThrottle(esc, StickThrust) \/ esc' = esc
        BY <3>2 DEF ApplyManual
      <4>3. QED BY <4>1, <4>2
    <3>3. CASE CalibrationTick
      BY <3>3 DEF CalibrationTick, SweepIdle, SweepEnd, SweepNoise, SweepLevel, Thrust
    <3>4. CASE AutoTick
      BY <3>4 DEF AutoTick, Thrust
    <3>5. QED BY <1>6, <3>1, <3>2, <3>3, <3>4 DEF ApplyOutputs
  <2>3. QED BY <1>1, <1>2, <2>1, <2>2, ThrottleKeepsBenchInv
<1>7. CASE CycleBegin \/ AutoDecide
  BY <1>4, <1>7 DEF CycleBegin, AutoDecide
<1>8. CASE ArmSeqTask \/ Handlers \/ OtherTasks \/ Tick \/ UNCHANGED vars
  BY <1>2, <1>4, <1>8
  DEF ArmSeqTask, ArmSeqReceive, ArmSeqTimeout, ArmSeqStep, ArmSeqFrame,
      Handlers, MotorCommand, WinchCommand, SteerCommand, EventCommand, CalibrateCommand,
      BenchCommand, MissionStop, HandlerFrame, OtherTasks, PublishSetpoint, CompassClaim,
      CompassCheck, CompassEnd, CompassFrame, BenchFlush, Tick, vars, Bench
<1>9. QED BY <1>1, <1>3, <1>5, <1>6, <1>7, <1>8 DEF Next, ControlStep

(* Whatever ends a bench run - STOP, a disarm, a turn too fast, its end -  *)
(* none of its throttle is left on the jets.                               *)
THEOREM BenchSafe == Spec \/ ArmedSpec => []BenchThrustOwned
<1>1. Init \/ ArmedInit => BenchInv
  BY DEF Init, ArmedInit, EscInit, BenchInv
<1>2. BenchInv => BenchThrustOwned
  BY DEF BenchInv, BenchThrustOwned
<1>3. QED BY <1>1, <1>2, BenchInvStep, TypeCorrect, PTL DEF Spec, ArmedSpec

-------------------------------------------------------------------------------
(* The ESC driver follows the sequence.                                    *)

(* The ESC driver lags behind the sequence by the actions on their way:    *)
(* the one the control task has taken, then those in the queue.  A disarm  *)
(* among them makes what comes before it irrelevant; publish_arm_action    *)
(* empties the queue for it, so that it can only be the first.             *)
DisarmQueued == action_queue # << >> /\ action_queue[1] = "DISARM"

Skipped == IF DisarmQueued THEN 1 ELSE 0
Left    == Len(action_queue) - Skipped
Due(i)  == action_queue[Skipped + i]

(* The state the ESC driver has once the disarm on its way is applied, and *)
(* the action that is being applied, if no disarm overtakes it.            *)
EscThen == IF DisarmQueued \/ ToApply("DISARM") THEN "disarmed" ELSE esc.state
Applied == IF pc = "apply" /\ action # "DISARM" /\ ~DisarmQueued THEN action ELSE "NONE"

Settled(e, s) ==
  \/ e = "disarmed" /\ s \in {"DISARMED", "ARM_PENDING"}
  \/ e = "arming"   /\ s = "ARMING"
  \/ e = "armed"    /\ s = "ARMED"

(* What is due takes the ESC driver exactly to where the sequence is.      *)
Agreed ==
  \/ /\ Applied = "NONE"
     /\ \/ Left = 0 /\ Settled(EscThen, sequence.state)
        \/ /\ Left = 1 /\ Due(1) = "BEGIN"
           /\ EscThen = "disarmed" /\ sequence.state = "ARMING"
        \/ /\ Left = 1 /\ Due(1) = "COMPLETE"
           /\ EscThen = "arming" /\ sequence.state = "ARMED"
        \/ /\ Left = 2 /\ Due(1) = "BEGIN" /\ Due(2) = "COMPLETE"
           /\ EscThen = "disarmed" /\ sequence.state = "ARMED"
  \/ /\ Applied = "BEGIN" /\ EscThen = "disarmed"
     /\ \/ Left = 0 /\ sequence.state = "ARMING"
        \/ Left = 1 /\ Due(1) = "COMPLETE" /\ sequence.state = "ARMED"
  \/ /\ Applied = "COMPLETE" /\ EscThen = "arming"
     /\ Left = 0 /\ sequence.state = "ARMED"

HasDisarm(queue) == \E i \in DOMAIN queue : queue[i].request = "DISARM"

(* A disarm that has not been published yet resets all of it when it is.   *)
DisarmAsked == sequence.state = "DISARM_PENDING" \/ HasDisarm(request_queue)

DisarmFirst == \A i \in 1 .. Len(action_queue) : action_queue[i] = "DISARM" => i = 1

ArmingInv ==
  /\ DisarmFirst
  /\ pc = "apply" => action \in {"BEGIN", "COMPLETE", "DISARM"}
  /\ DisarmAsked \/ Agreed

(* No submission removes a DISARM from the request queue.                  *)
LEMMA SubmitKeepsDisarm ==
  ASSUME NEW queue \in Seq(ArmRequest), NEW request \in {"ARM", "DISARM"}, NEW force \in BOOLEAN
  PROVE  /\ HasDisarm(AfterSubmit(queue, "DISARM", FALSE))
         /\ HasDisarm(queue) => HasDisarm(AfterSubmit(queue, request, force))
<1> DEFINE D == [request |-> "DISARM", force |-> FALSE]
           M == [request |-> request, force |-> force]
<1>1. HasDisarm(<<D>>)
  <2>1. 1 \in DOMAIN <<D>> /\ <<D>>[1].request = "DISARM"
    OBVIOUS
  <2>2. QED BY <2>1 DEF HasDisarm
<1>2. AfterSubmit(queue, "DISARM", FALSE) = <<D>>
  BY DEF AfterSubmit
<1>3. ASSUME HasDisarm(queue) PROVE HasDisarm(Append(queue, M))
  <2>1. PICK i \in DOMAIN queue : queue[i].request = "DISARM"
    BY <1>3 DEF HasDisarm
  <2>2. M \in ArmRequest
    BY DEF ArmRequest
  <2>3. i \in 1 .. Len(queue) /\ Len(queue) \in Nat
    OBVIOUS
  <2>4. i \in DOMAIN Append(queue, M) /\ Append(queue, M)[i] = queue[i]
    BY <2>2, <2>3
  <2>5. QED BY <2>1, <2>4 DEF HasDisarm
<1>4. \/ AfterSubmit(queue, request, force) = <<D>>
      \/ AfterSubmit(queue, request, force) = queue
      \/ AfterSubmit(queue, request, force) = Append(queue, M)
  BY DEF AfterSubmit
<1>5. QED BY <1>1, <1>2, <1>3, <1>4

(* Steps that leave the actions and the states of both machines alone.     *)
LEMMA ArmingQuiet ==
  ASSUME TypeOK, ArmingInv, UNCHANGED <<action_queue, sequence>>,
         esc'.state = esc.state,
         DisarmAsked => DisarmAsked',
         \/ UNCHANGED <<pc, action>>
         \/ pc # "apply" /\ pc' # "apply"
  PROVE  ArmingInv'
  BY DEF ArmingInv, DisarmFirst, Agreed, Applied, Settled, EscThen, Due, Left, Skipped,
         DisarmQueued, ToApply

(* The steps of the control task that may submit a request.                *)
LEMMA OutputsKeepDisarm ==
  ASSUME TypeOK, ApplyOutputs, DisarmAsked
  PROVE  DisarmAsked'
<1>1. request_queue \in Seq(ArmRequest) /\ decision.force_arm \in BOOLEAN
  BY DEF TypeOK, Decision
<1>2. sequence' = sequence
  BY DEF ApplyOutputs, ApplyPowerOff, ApplySafeStop, ApplyManual, OutputsFrame
<1>3. \/ request_queue' = AfterSubmit(request_queue, "DISARM", FALSE)
      \/ request_queue' = AfterSubmit(request_queue, "ARM", decision.force_arm)
      \/ request_queue' = request_queue
  BY DEF ApplyOutputs, ApplyPowerOff, ApplySafeStop, ApplyManual, SubmitForDecision
<1>4. QED BY <1>1, <1>2, <1>3, SubmitKeepsDisarm DEF DisarmAsked

LEMMA TakeKeepsArming == TypeOK /\ ArmingInv /\ TakeArmAction => ArmingInv'
<1>1. SUFFICES ASSUME TypeOK, ArmingInv, TakeArmAction PROVE ArmingInv'
  OBVIOUS
<1>2. /\ action_queue \in Seq({"BEGIN", "COMPLETE", "DISARM"})
      /\ Len(action_queue) \in Nat
      /\ request_queue \in Seq(ArmRequest)
  BY <1>1 DEF TypeOK
<1>3. pc = "action" /\ sequence' = sequence
  BY <1>1 DEF TakeArmAction
<1>4. CASE action_queue = << >>
  <2>1. UNCHANGED <<action_queue, esc, request_queue>> /\ pc' = "outputs"
    BY <1>1, <1>4 DEF TakeArmAction
  <2>2. QED BY <1>1, <1>3, <2>1, ArmingQuiet DEF DisarmAsked
<1>5. CASE action_queue # << >>
  <2>1. /\ action_queue' = Tail(action_queue)
        /\ Len(action_queue') = Len(action_queue) - 1
        /\ Len(action_queue) >= 1
        /\ action_queue[1] \in {"BEGIN", "COMPLETE", "DISARM"}
        /\ Head(action_queue) = action_queue[1]
        /\ \A i \in 1 .. Len(action_queue') : action_queue'[i] = action_queue[i + 1]
        /\ Len(action_queue') = 0 <=> action_queue' = << >>
    BY <1>1, <1>2, <1>5 DEF TakeArmAction
  <2>2. DisarmFirst' /\ ~DisarmQueued'
    BY <1>1, <1>2, <2>1 DEF ArmingInv, DisarmFirst, DisarmQueued
  <2>3. CASE RefusedForCompass(Head(action_queue))
    <3>1. pc' = "outputs" /\ RequestDisarm
      BY <1>1, <1>5, <2>3 DEF TakeArmAction
    <3>2. DisarmAsked'
      BY <1>2, <3>1, SubmitKeepsDisarm DEF RequestDisarm, DisarmAsked
    <3>3. QED BY <2>2, <3>1, <3>2 DEF ArmingInv
  <2>4. CASE ~RefusedForCompass(Head(action_queue))
    <3>1. /\ pc' = "apply" /\ action' = action_queue[1]
          /\ UNCHANGED <<esc, request_queue>>
      BY <1>1, <1>5, <2>1, <2>4 DEF TakeArmAction
    <3>2. DisarmAsked' = DisarmAsked
      BY <1>3, <3>1 DEF DisarmAsked
    <3>3. ASSUME Agreed PROVE Agreed'
      <4>1. /\ Skipped' = 0 /\ Left' = Len(action_queue) - 1
            /\ \A i \in 1 .. Left' : Due(i)' = action_queue[i + 1]
            /\ sequence'.state = sequence.state
        BY <1>3, <2>1, <2>2 DEF Skipped, Left, Due
      <4>2. Applied = "NONE"
        BY <1>3 DEF Applied
      <4>3. CASE action_queue[1] = "DISARM"
        <5>1. /\ Skipped = 1 /\ Left = Len(action_queue) - 1 /\ EscThen = "disarmed"
              /\ \A i \in 1 .. Left : Due(i) = action_queue[i + 1]
          BY <1>5, <2>1, <4>3 DEF Skipped, Left, Due, DisarmQueued, EscThen
        <5>2. EscThen' = "disarmed" /\ Applied' = "NONE"
          BY <3>1, <4>3 DEF EscThen, Applied, ToApply
        <5>3. QED BY <1>2, <3>3, <4>1, <4>2, <5>1, <5>2 DEF Agreed
      <4>4. CASE action_queue[1] # "DISARM"
        <5>1. /\ Skipped = 0 /\ Left = Len(action_queue) /\ EscThen = esc.state
              /\ \A i \in 1 .. Left : Due(i) = action_queue[i]
          BY <1>2, <1>3, <4>4 DEF Skipped, Left, Due, DisarmQueued, EscThen, ToApply
        <5>2. EscThen' = esc.state /\ Applied' = action_queue[1]
          BY <2>2, <3>1, <4>4 DEF EscThen, Applied, ToApply
        <5>3. QED BY <1>2, <2>1, <3>3, <4>1, <4>2, <5>1, <5>2 DEF Agreed
      <4>5. QED BY <4>3, <4>4
    <3>4. QED BY <1>1, <2>1, <2>2, <3>1, <3>2, <3>3 DEF ArmingInv
  <2>5. QED BY <2>3, <2>4
<1>6. QED BY <1>4, <1>5

LEMMA ApplyKeepsArming ==
  TypeOK /\ ArmingInv /\ (ApplyBegin \/ ApplyComplete \/ ApplyDisarm) => ArmingInv'
<1>1. SUFFICES ASSUME TypeOK, ArmingInv, ApplyBegin \/ ApplyComplete \/ ApplyDisarm
               PROVE  ArmingInv'
  OBVIOUS
<1>2. /\ request_queue \in Seq(ArmRequest)
      /\ esc \in Esc
  BY <1>1 DEF TypeOK
<1>3. pc = "apply" /\ pc' = "outputs" /\ UNCHANGED <<action_queue, sequence>>
  BY <1>1 DEF ApplyBegin, ApplyComplete, ApplyDisarm, ApplyFrame
<1>4. DisarmFirst'
  BY <1>1, <1>3 DEF ArmingInv, DisarmFirst
<1>5. CASE RequestDisarm
  BY <1>2, <1>3, <1>4, <1>5, SubmitKeepsDisarm DEF RequestDisarm, DisarmAsked, ArmingInv
<1>6. CASE ~RequestDisarm
  <2>1. UNCHANGED request_queue
    BY <1>1, <1>6 DEF ApplyBegin, ApplyComplete, ApplyDisarm
  <2>2. \/ action = "BEGIN" /\ esc.state = "disarmed" /\ esc'.state = "arming"
        \/ action = "COMPLETE" /\ esc.state = "arming" /\ esc'.state = "armed"
        \/ action = "DISARM" /\ esc'.state = "disarmed"
    BY <1>1, <1>2, <1>6
    DEF ApplyBegin, ApplyComplete, ApplyDisarm, ArmBegin, ArmComplete, Disarm, CanArmBegin,
        CanArmComplete, Esc
  <2>3. ASSUME Agreed PROVE Agreed'
    BY <1>3, <2>2, <2>3
    DEF Agreed, Applied, Settled, EscThen, Due, Left, Skipped, DisarmQueued, ToApply
  <2>4. QED BY <1>1, <1>3, <1>4, <2>1, <2>3 DEF ArmingInv, DisarmAsked
<1>7. QED BY <1>5, <1>6

LEMMA ReceiveKeepsArming == TypeOK /\ ArmingInv /\ ArmSeqReceive => ArmingInv'
<1>1. SUFFICES ASSUME TypeOK, ArmingInv, ArmSeqReceive PROVE ArmingInv'
  OBVIOUS
<1>2. /\ request_queue \in Seq(ArmRequest) /\ request_queue # << >>
      /\ Len(request_queue) \in Nat /\ Len(request_queue) >= 1
      /\ sequence \in Sequence
  BY <1>1 DEF TypeOK, ArmSeqReceive
<1>3. /\ request_queue' = Tail(request_queue)
      /\ sequence' = Request(sequence, request_queue[1])
      /\ UNCHANGED <<pc, action, action_queue, esc>>
  BY <1>1, <1>2 DEF ArmSeqReceive, ArmSeqFrame, localVars
<1>4. CASE request_queue[1].request = "DISARM"
  <2>1. sequence'.state = "DISARM_PENDING"
    BY <1>3, <1>4 DEF Request
  <2>2. QED BY <1>1, <1>3, <2>1 DEF ArmingInv, DisarmFirst, DisarmAsked
<1>5. CASE request_queue[1].request # "DISARM"
  <2>1. \/ sequence' = sequence
        \/ sequence.state = "DISARMED" /\ sequence'.state = "ARM_PENDING"
    BY <1>2, <1>3, <1>5 DEF Request, Sequence
  <2>2. ASSUME HasDisarm(request_queue) PROVE HasDisarm(request_queue')
    <3>1. PICK i \in DOMAIN request_queue : request_queue[i].request = "DISARM"
      BY <2>2 DEF HasDisarm
    <3>2. i \in 1 .. Len(request_queue) /\ i # 1
      BY <1>2, <1>5, <3>1
    <3>3. /\ i - 1 \in DOMAIN Tail(request_queue)
          /\ Tail(request_queue)[i - 1] = request_queue[i]
      BY <1>2, <3>2
    <3>4. QED BY <1>3, <3>1, <3>3 DEF HasDisarm
  <2>3. DisarmAsked => DisarmAsked'
    BY <2>1, <2>2 DEF DisarmAsked
  <2>4. ASSUME Agreed PROVE Agreed'
    BY <1>3, <2>1, <2>4
    DEF Agreed, Applied, Settled, EscThen, Due, Left, Skipped, DisarmQueued, ToApply
  <2>5. QED BY <1>1, <1>3, <2>3, <2>4 DEF ArmingInv, DisarmFirst
<1>6. QED BY <1>4, <1>5

LEMMA StepKeepsArming == TypeOK /\ ActionNeverDropped /\ ArmingInv /\ ArmSeqStep => ArmingInv'
<1>1. SUFFICES ASSUME TypeOK, ActionNeverDropped, ArmingInv, ArmSeqStep PROVE ArmingInv'
  OBVIOUS
<1>2. /\ action_queue \in Seq({"BEGIN", "COMPLETE", "DISARM"})
      /\ Len(action_queue) \in Nat
      /\ sequence \in Sequence
  BY <1>1 DEF TypeOK
<1>3. PICK gps_locked \in BOOLEAN :
        /\ sequence' = AfterStep(sequence, StepAction(sequence, gps_locked))
        /\ action_queue' = AfterPublish(action_queue, StepAction(sequence, gps_locked))
  BY <1>1 DEF ArmSeqStep
<1>4. seq_pc = "step" /\ UNCHANGED <<pc, action, request_queue, esc>>
  BY <1>1 DEF ArmSeqStep, ArmSeqFrame, localVars
<1> DEFINE act == StepAction(sequence, gps_locked)
<1>5. CASE act = "DISARM"
  <2>1. action_queue' = <<"DISARM">> /\ sequence'.state = "DISARMED"
    BY <1>2, <1>3, <1>5 DEF AfterPublish, AfterStep, Sequence
  <2>2. Len(action_queue') = 1 /\ action_queue'[1] = "DISARM" /\ action_queue' # << >>
    BY <2>1
  <2>3. Agreed'
    BY <2>1, <2>2
    DEF Agreed, Applied, Settled, EscThen, Left, Skipped, DisarmQueued
  <2>4. QED BY <1>1, <1>4, <2>2, <2>3 DEF ArmingInv, DisarmFirst
<1>6. CASE act = "REJECT_NO_GPS"
  <2>1. /\ action_queue' = action_queue
        /\ sequence.state = "ARM_PENDING" /\ sequence'.state = "DISARMED"
    BY <1>2, <1>3, <1>6 DEF AfterPublish, AfterStep, StepAction, Sequence
  <2>2. DisarmAsked => DisarmAsked'
    BY <1>4, <2>1 DEF DisarmAsked
  <2>3. ASSUME Agreed PROVE Agreed'
    BY <1>4, <2>1, <2>3
    DEF Agreed, Applied, Settled, EscThen, Due, Left, Skipped, DisarmQueued, ToApply
  <2>4. QED BY <1>1, <1>4, <2>1, <2>2, <2>3 DEF ArmingInv, DisarmFirst
<1>7. CASE act \in {"BEGIN", "COMPLETE"}
  <2>1. action_queue' = Append(action_queue, act)
    BY <1>1, <1>3, <1>4, <1>7 DEF ActionNeverDropped, AfterPublish
  <2>2. /\ Len(action_queue') = Len(action_queue) + 1
        /\ action_queue' # << >>
        /\ \A i \in 1 .. Len(action_queue) : action_queue'[i] = action_queue[i]
        /\ action_queue'[Len(action_queue) + 1] = act
    BY <1>2, <1>7, <2>1
  <2>3. \/ act = "BEGIN" /\ sequence.state = "ARM_PENDING" /\ sequence'.state = "ARMING"
        \/ act = "COMPLETE" /\ sequence.state = "ARMING" /\ sequence'.state = "ARMED"
    BY <1>2, <1>3, <1>7 DEF AfterStep, StepAction, DeadlineReached, Sequence
  <2>4. DisarmQueued' = DisarmQueued
    BY <1>2, <1>7, <2>2 DEF DisarmQueued
  <2>5. /\ Skipped' = Skipped /\ Skipped <= Len(action_queue) /\ Skipped \in Nat
        /\ Left' = Left + 1 /\ Left \in Nat
        /\ Applied' = Applied /\ EscThen' = EscThen
    BY <1>2, <1>4, <2>2, <2>4
    DEF Skipped, Left, Applied, EscThen, ToApply, DisarmQueued
  <2>6. /\ \A i \in 1 .. Left : Due(i)' = Due(i)
        /\ \A i \in Nat : i = Left + 1 => Due(i)' = act
    <3>1. Left = Len(action_queue) - Skipped
      BY DEF Left
    <3>2. \A i \in 1 .. Left : Skipped + i \in 1 .. Len(action_queue)
      BY <1>2, <2>5, <3>1
    <3>3. \A i \in Nat : i = Left + 1 => Skipped + i = Len(action_queue) + 1
      BY <1>2, <2>5, <3>1
    <3>4. \A i : Due(i)' = action_queue'[Skipped + i]
      BY <2>5 DEF Due
    <3>5. QED BY <2>2, <3>2, <3>3, <3>4 DEF Due
  <2>7. DisarmFirst'
    BY <1>1, <1>2, <1>7, <2>2 DEF ArmingInv, DisarmFirst
  <2>8. DisarmAsked => DisarmAsked'
    BY <1>4, <2>3 DEF DisarmAsked
  <2>9. ASSUME Agreed PROVE Agreed'
    <3>1. CASE act = "BEGIN"
      <4>1. Applied = "NONE" /\ Left = 0 /\ EscThen = "disarmed"
        BY <2>3, <2>9, <3>1 DEF Agreed, Settled
      <4>2. QED BY <2>3, <2>5, <2>6, <3>1, <4>1 DEF Agreed
    <3>2. CASE act = "COMPLETE"
      <4>1. \/ Applied = "NONE" /\ Left = 0 /\ EscThen = "arming"
            \/ Applied = "NONE" /\ Left = 1 /\ Due(1) = "BEGIN" /\ EscThen = "disarmed"
            \/ Applied = "BEGIN" /\ Left = 0 /\ EscThen = "disarmed"
        BY <2>3, <2>9, <3>2 DEF Agreed, Settled
      <4>2. QED BY <2>3, <2>5, <2>6, <3>2, <4>1 DEF Agreed
    <3>3. QED BY <1>7, <3>1, <3>2
  <2>10. QED BY <1>1, <1>4, <2>7, <2>8, <2>9 DEF ArmingInv
<1>8. CASE act = "NONE"
  <2>1. UNCHANGED <<sequence, action_queue>>
    BY <1>3, <1>8 DEF AfterPublish, AfterStep
  <2>2. QED BY <1>1, <1>4, <2>1, ArmingQuiet DEF DisarmAsked
<1>9. act \in ArmAction
  BY <1>2, SequenceType
<1>10. QED BY <1>5, <1>6, <1>7, <1>8, <1>9 DEF ArmAction

LEMMA ArmingStep ==
  TypeOK /\ ActionNeverDropped /\ ArmingInv /\ [Next]_vars => ArmingInv'
<1>1. SUFFICES ASSUME TypeOK, ActionNeverDropped, ArmingInv, [Next]_vars PROVE ArmingInv'
  OBVIOUS
<1>2. CASE TakeArmAction
  BY <1>1, <1>2, TakeKeepsArming
<1>3. CASE ApplyBegin \/ ApplyComplete \/ ApplyDisarm
  BY <1>1, <1>3, ApplyKeepsArming
<1>4. CASE ArmSeqReceive
  BY <1>1, <1>4, ReceiveKeepsArming
<1>5. CASE ArmSeqStep
  BY <1>1, <1>5, StepKeepsArming
<1>6. CASE ApplyOutputs
  <2>1. /\ pc # "apply" /\ pc' # "apply" /\ UNCHANGED <<action_queue, sequence>>
        /\ ~TakeArmAction /\ ~ApplyBegin /\ ~ApplyComplete /\ ~ApplyDisarm
    BY <1>6
    DEF ApplyOutputs, ApplyPowerOff, ApplySafeStop, ApplyManual, OutputsFrame, TakeArmAction,
        ApplyBegin, ApplyComplete, ApplyDisarm, ApplyFrame
  <2>2. QED BY <1>1, <1>6, <2>1, EscStateSteps, OutputsKeepDisarm, ArmingQuiet
<1>7. CASE CycleBegin \/ AutoDecide \/ CalibrationTick \/ BenchTick \/ AutoTick
  <2>1. /\ pc # "apply" /\ pc' # "apply"
        /\ UNCHANGED <<action_queue, sequence, request_queue>>
        /\ ~TakeArmAction /\ ~ApplyBegin /\ ~ApplyComplete /\ ~ApplyDisarm
    BY <1>7
    DEF CycleBegin, AutoDecide, CalibrationTick, SweepIdle, SweepEnd, SweepNoise, SweepLevel,
        CalibrationFrame, BenchTick, BenchStop, BenchIdle, BenchStart, BenchRun, BenchFail,
        BenchFinish, BenchFrame, AutoTick, armVars, TakeArmAction, ApplyBegin, ApplyComplete,
        ApplyDisarm, ApplyFrame
  <2>2. QED BY <1>1, <2>1, EscStateSteps, ArmingQuiet DEF DisarmAsked
<1>8. CASE ArmSeqTimeout \/ Handlers \/ OtherTasks \/ UNCHANGED vars
  <2>1. UNCHANGED <<pc, action, action_queue, sequence, request_queue, esc>>
    BY <1>8
    DEF ArmSeqTimeout, ArmSeqFrame, Handlers, MotorCommand, WinchCommand, SteerCommand,
        EventCommand, CalibrateCommand, BenchCommand, MissionStop, HandlerFrame, OtherTasks,
        PublishSetpoint, CompassClaim, CompassCheck, CompassEnd, CompassFrame, BenchFlush,
        vars, armVars, localVars
  <2>2. QED BY <1>1, <2>1, ArmingQuiet DEF DisarmAsked
<1>9. CASE Tick
  <2>1. /\ UNCHANGED <<pc, action, action_queue, request_queue, esc>>
        /\ sequence'.state = sequence.state
    BY <1>1, <1>9 DEF Tick, localVars, AgeSequence, TypeOK, Sequence
  <2>2. DisarmAsked' = DisarmAsked
    BY <2>1 DEF DisarmAsked
  <2>3. ASSUME Agreed PROVE Agreed'
    BY <2>1, <2>3
    DEF Agreed, Applied, Settled, EscThen, Due, Left, Skipped, DisarmQueued, ToApply
  <2>4. QED BY <1>1, <2>1, <2>2, <2>3 DEF ArmingInv, DisarmFirst
<1>10. QED
  BY <1>1, <1>2, <1>3, <1>4, <1>5, <1>6, <1>7, <1>8, <1>9 DEF Next, ControlStep, ArmSeqTask

LEMMA ArmingFollows == TypeOK /\ ArmingInv => EscFollowsSequence
<1>1. SUFFICES ASSUME TypeOK, ArmingInv, ~DisarmInFlight PROVE EscFollowsSequence
  BY DEF EscFollowsSequence
<1>2. /\ action_queue \in Seq({"BEGIN", "COMPLETE", "DISARM"})
      /\ Len(action_queue) \in Nat
      /\ esc.state \in EscState
  BY <1>1 DEF TypeOK, Esc
<1>3. ~DisarmAsked /\ ~DisarmQueued /\ ~ToApply("DISARM")
  BY <1>1, <1>2 DEF DisarmInFlight, DisarmAsked, HasDisarm, DisarmQueued, Queued
<1>4. Agreed /\ EscThen = esc.state /\ Skipped = 0 /\ Left = Len(action_queue)
  BY <1>1, <1>2, <1>3 DEF ArmingInv, EscThen, Skipped, Left
<1>5. ASSUME NEW act, Left >= 1, Due(1) = act \/ (Left >= 2 /\ Due(2) = act)
      PROVE  InFlight(act)
  <2>1. Due(1) = action_queue[1] /\ (Left >= 2 => Due(2) = action_queue[2])
    BY <1>4 DEF Due
  <2>2. 1 \in DOMAIN action_queue /\ (Left >= 2 => 2 \in DOMAIN action_queue)
    BY <1>2, <1>4, <1>5
  <2>3. QED BY <1>5, <2>1, <2>2 DEF InFlight, Queued
<1>6. ASSUME Applied # "NONE" PROVE InFlight(Applied)
  BY <1>6 DEF Applied, InFlight, ToApply
<1>7. QED BY <1>2, <1>4, <1>5, <1>6 DEF Agreed, Settled, EscFollowsSequence, EscState

(* The ESC driver and the ArmSeq task's sequence never part for good: what *)
(* will reconcile them is on its way, in every interleaving of the control *)
(* task, the ArmSeq task and the tasks that disturb them.                  *)
THEOREM EscFollows == Spec \/ ArmedSpec => []EscFollowsSequence
<1>1. Init \/ ArmedInit => ArmingInv
  BY DEF Init, ArmedInit, QuietInit, SequenceInit, EscInit, ArmingInv, DisarmFirst, Agreed, Applied, Left,
         Skipped, DisarmQueued, EscThen, Settled, ToApply
<1>2. QED BY <1>1, ArmingStep, ArmingFollows, ActionsKept, TypeCorrect, PTL DEF Spec, ArmedSpec

-------------------------------------------------------------------------------
(* What a step may do to the jets, and what only a cycle's steps change.   *)

(* The other tasks and the clock leave the cycle and its outputs alone.    *)
LEMMA OthersFrame ==
  ASSUME ArmSeqTask \/ Handlers \/ OtherTasks \/ Tick \/ UNCHANGED vars
  PROVE  UNCHANGED <<pc, decision, safe_stop, internal_disarm, esc, control_failsafe, rail_cut,
                     arm_power_allowed, auto_out, aborted_run, release_zero>>
  BY DEF ArmSeqTask, ArmSeqReceive, ArmSeqTimeout, ArmSeqStep, ArmSeqFrame, Handlers,
         MotorCommand, WinchCommand, SteerCommand, EventCommand, CalibrateCommand, BenchCommand,
         MissionStop, HandlerFrame, OtherTasks, PublishSetpoint, CompassClaim, CompassCheck,
         CompassEnd, CompassFrame, BenchFlush, Tick, vars, localVars, linkVars, permitVars,
         autoVars

(* A cycle reads the commands and the link's stamp in its first step only. *)
LEMMA CycleFrame ==
  ASSUME ControlStep, ~CycleBegin
  PROVE  UNCHANGED <<arbiter, link_age, control_failsafe, setpoint>>
  BY DEF ControlStep, AutoDecide, TakeArmAction, ApplyBegin, ApplyComplete, ApplyDisarm,
         ApplyFrame, ApplyOutputs, ApplyPowerOff, ApplySafeStop, ApplyManual, OutputsFrame,
         CalibrationTick, SweepIdle, SweepEnd, SweepNoise, SweepLevel, CalibrationFrame,
         BenchTick, BenchStop, BenchIdle, BenchStart, BenchRun, BenchFail, BenchFinish,
         BenchFrame, AutoTick, linkVars, autoVars

LEMMA ThrottleWrites ==
  ASSUME NEW e \in Esc, NEW thrust
  PROVE  SetThrottle(e, thrust).thrust \in {e.thrust, thrust}
  BY DEF SetThrottle, Esc

(* Each source of thrust has one step that can put it on the jets; every   *)
(* other step leaves what is there, or turns it off.                       *)
LEMMA ThrustSteps ==
  ASSUME TypeOK, [Next]_vars
  PROVE  \/ esc'.thrust \in {esc.thrust, "off"}
         \/ ApplyManual /\ ~auto_out.own /\ esc'.thrust = StickThrust
         \/ SweepLevel /\ esc'.thrust = "sweep"
         \/ BenchRun /\ esc'.thrust = "bench"
         \/ AutoTick /\ auto_out.own /\ auto_out.drive /\ esc'.thrust = "mission"
<1>1. esc \in Esc
  BY DEF TypeOK
<1>2. CASE UNCHANGED esc
  BY <1>2
<1>3. CASE TakeArmAction \/ ApplyBegin \/ ApplyComplete \/ ApplyDisarm
  BY <1>1, <1>3
  DEF TakeArmAction, ApplyBegin, ApplyComplete, ApplyDisarm, ArmBegin, ArmComplete, Disarm, Esc
<1>4. CASE ApplyOutputs
  <2>1. CASE ApplyPowerOff \/ ApplySafeStop
    BY <1>1, <2>1, ThrottleWrites DEF ApplyPowerOff, ApplySafeStop
  <2>2. CASE ApplyManual
    <3>1. PICK moved \in BOOLEAN :
            esc' = IF (decision.drive_changed \/ moved) /\ ~auto_out.own
                     THEN SetThrottle(esc, StickThrust) ELSE esc
      BY <2>2 DEF ApplyManual
    <3>2. QED BY <1>1, <2>2, <3>1, ThrottleWrites
  <2>3. QED BY <1>4, <2>1, <2>2 DEF ApplyOutputs
<1>5. CASE CalibrationTick
  BY <1>1, <1>5, ThrottleWrites
  DEF CalibrationTick, SweepIdle, SweepEnd, SweepNoise, SweepLevel
<1>6. CASE BenchTick
  <2>1. CASE BenchRun
    <3>1. PICK thrust \in {"off", "bench"} : esc' = SetThrottle(esc, thrust)
      BY <2>1 DEF BenchRun
    <3>2. QED BY <1>1, <2>1, <3>1, ThrottleWrites
  <2>2. CASE BenchTick /\ ~BenchRun
    BY <1>1, <2>2, ThrottleWrites
    DEF BenchTick, BenchStop, BenchIdle, BenchStart, BenchFail, BenchFinish
  <2>3. QED BY <1>6, <2>1, <2>2
<1>7. CASE AutoTick
  BY <1>1, <1>7, ThrottleWrites DEF AutoTick
<1>8. CASE CycleBegin \/ AutoDecide
  BY <1>8 DEF CycleBegin, AutoDecide
<1>9. CASE ArmSeqTask \/ Handlers \/ OtherTasks \/ Tick \/ UNCHANGED vars
  BY <1>2, <1>9, OthersFrame
<1>10. QED BY <1>3, <1>4, <1>5, <1>6, <1>7, <1>8, <1>9 DEF Next, ControlStep

-------------------------------------------------------------------------------
(* The operator's view of arming.                                          *)

HasArm(queue) == \E i \in DOMAIN queue : queue[i].request = "ARM"

Permit == arm_power_allowed /\ ~decision.disarm

Deciding == {"auto", "action", "apply", "outputs"}

(* A decision lives for one cycle, the mark of a disarm applied by it from *)
(* there to the outputs, and a decision to disarm refuses every arm action *)
(* of its cycle: no step between forgets it or gives the permission back.  *)
DecisionInv ==
  /\ pc \notin Deciding => decision = NoDecision
  /\ pc # "outputs" => ~internal_disarm
  /\ pc = "apply" /\ decision.disarm => safe_stop

LEMMA DecisionStep == TypeOK /\ DecisionInv /\ [Next]_vars => DecisionInv'
<1>1. SUFFICES ASSUME TypeOK, DecisionInv, [Next]_vars PROVE DecisionInv'
  OBVIOUS
<1>2. CASE CycleBegin \/ AutoDecide
  BY <1>1, <1>2 DEF CycleBegin, AutoDecide, DecisionInv, Deciding, localVars
<1>3. CASE TakeArmAction
  BY <1>1, <1>3 DEF TakeArmAction, DecisionInv, Deciding, SafeStop
<1>4. CASE ApplyBegin \/ ApplyComplete \/ ApplyDisarm
  BY <1>4
  DEF ApplyBegin, ApplyComplete, ApplyDisarm, ApplyFrame, DecisionInv, Deciding
<1>5. CASE ApplyOutputs
  BY <1>5
  DEF ApplyOutputs, ApplyPowerOff, ApplySafeStop, ApplyManual, OutputsFrame, DecisionInv, Deciding
<1>6. CASE CalibrationTick \/ BenchTick \/ AutoTick
  <2>1. /\ pc \notin Deciding /\ pc' \notin Deciding
        /\ UNCHANGED <<decision, internal_disarm>>
    BY <1>6
    DEF CalibrationTick, SweepIdle, SweepEnd, SweepNoise, SweepLevel, CalibrationFrame,
        BenchTick, BenchStop, BenchIdle, BenchStart, BenchRun, BenchFail, BenchFinish,
        BenchFrame, AutoTick, Deciding, localVars
  <2>2. QED BY <1>1, <2>1 DEF DecisionInv, Deciding, NoDecision
<1>7. CASE ArmSeqTask \/ Handlers \/ OtherTasks \/ Tick \/ UNCHANGED vars
  <2>1. UNCHANGED <<pc, decision, safe_stop, internal_disarm>>
    BY <1>7, OthersFrame
  <2>2. QED BY <1>1, <2>1 DEF DecisionInv, NoDecision
<1>8. QED BY <1>1, <1>2, <1>3, <1>4, <1>5, <1>6, <1>7 DEF Next, ControlStep

(* What a submission does to the orders and the disarms in its queue.      *)
LEMMA SubmittedOrders ==
  ASSUME NEW queue \in Seq(ArmRequest), NEW force \in BOOLEAN
  PROVE  /\ ~HasArm(AfterSubmit(queue, "DISARM", FALSE))
         /\ HasDisarm(AfterSubmit(queue, "DISARM", FALSE))
         /\ HasDisarm(AfterSubmit(queue, "ARM", force)) <=> HasDisarm(queue)
<1> DEFINE M == [request |-> "ARM", force |-> force]
           D == [request |-> "DISARM", force |-> FALSE]
<1>1. AfterSubmit(queue, "DISARM", FALSE) = <<D>>
  BY DEF AfterSubmit
<1>2. ~HasArm(<<D>>)
  <2>1. \A i \in DOMAIN <<D>> : <<D>>[i].request = "DISARM"
    OBVIOUS
  <2>2. QED BY <2>1 DEF HasArm
<1>3. ASSUME HasDisarm(Append(queue, M)) PROVE HasDisarm(queue)
  <2>1. PICK i \in DOMAIN Append(queue, M) : Append(queue, M)[i].request = "DISARM"
    BY <1>3 DEF HasDisarm
  <2>2. M \in ArmRequest /\ Len(queue) \in Nat
    BY DEF ArmRequest
  <2>3. i \in 1 .. Len(queue) + 1 /\ (i = Len(queue) + 1 => Append(queue, M)[i] = M)
    BY <2>2
  <2>4. i \in 1 .. Len(queue)
    BY <2>1, <2>2, <2>3
  <2>5. i \in DOMAIN queue /\ queue[i] = Append(queue, M)[i]
    BY <2>2, <2>4
  <2>6. QED BY <2>1, <2>5 DEF HasDisarm
<1>4. AfterSubmit(queue, "ARM", force) \in {queue, Append(queue, M)}
  BY DEF AfterSubmit
<1>5. QED BY <1>1, <1>2, <1>3, <1>4, SubmitKeepsDisarm

(* An element of a queue is its head or an element of the rest.            *)
LEMMA HeadOrTail ==
  ASSUME NEW S, NEW queue \in Seq(S), queue # << >>
  PROVE  /\ 1 \in DOMAIN queue /\ Head(queue) = queue[1]
         /\ \A i \in DOMAIN queue :
              i = 1 \/ \E j \in DOMAIN Tail(queue) : Tail(queue)[j] = queue[i]
         /\ \A j \in DOMAIN Tail(queue) : \E i \in DOMAIN queue : queue[i] = Tail(queue)[j]
<1>1. Len(queue) \in Nat /\ Len(queue) >= 1 /\ DOMAIN queue = 1 .. Len(queue)
  OBVIOUS
<1>2. /\ Head(queue) = queue[1]
      /\ DOMAIN Tail(queue) = 1 .. Len(queue) - 1
      /\ \A i \in 1 .. Len(queue) - 1 : Tail(queue)[i] = queue[i + 1]
  BY <1>1
<1>3. ASSUME NEW i \in DOMAIN queue, i # 1
      PROVE  \E j \in DOMAIN Tail(queue) : Tail(queue)[j] = queue[i]
  <2>1. i - 1 \in DOMAIN Tail(queue) /\ (i - 1) + 1 = i
    BY <1>1, <1>2, <1>3
  <2>2. QED BY <1>2, <2>1
<1>4. ASSUME NEW j \in DOMAIN Tail(queue)
      PROVE  \E i \in DOMAIN queue : queue[i] = Tail(queue)[j]
  <2>1. j + 1 \in DOMAIN queue
    BY <1>1, <1>2
  <2>2. QED BY <1>2, <2>1
<1>5. 1 \in DOMAIN queue
  BY <1>1
<1>6. QED BY <1>2, <1>3, <1>4, <1>5

LEMMA TakenRequests ==
  ASSUME NEW queue \in Seq(ArmRequest), queue # << >>
  PROVE  /\ HasArm(Tail(queue)) \/ Head(queue).request = "ARM" <=> HasArm(queue)
         /\ HasDisarm(Tail(queue)) \/ Head(queue).request = "DISARM" <=> HasDisarm(queue)
<1>1. /\ 1 \in DOMAIN queue /\ Head(queue) = queue[1]
      /\ \A i \in DOMAIN queue :
           i = 1 \/ \E j \in DOMAIN Tail(queue) : Tail(queue)[j] = queue[i]
      /\ \A j \in DOMAIN Tail(queue) : \E i \in DOMAIN queue : queue[i] = Tail(queue)[j]
  BY HeadOrTail
<1>2. \A request : (\E i \in DOMAIN queue : queue[i].request = request) <=>
          \/ Head(queue).request = request
          \/ \E j \in DOMAIN Tail(queue) : Tail(queue)[j].request = request
  BY <1>1
<1>3. QED BY <1>2 DEF HasArm, HasDisarm

LEMMA TakenActions ==
  ASSUME NEW S, NEW queue \in Seq(S), queue # << >>, NEW item
  PROVE  Queued(queue, item) <=> Head(queue) = item \/ Queued(Tail(queue), item)
<1>1. /\ 1 \in DOMAIN queue /\ Head(queue) = queue[1]
      /\ \A i \in DOMAIN queue :
           i = 1 \/ \E j \in DOMAIN Tail(queue) : Tail(queue)[j] = queue[i]
      /\ \A j \in DOMAIN Tail(queue) : \E i \in DOMAIN queue : queue[i] = Tail(queue)[j]
  BY HeadOrTail
<1>2. QED BY <1>1, Zenon DEF Queued

LEMMA PublishedActions ==
  ASSUME NEW queue \in Seq({"BEGIN", "COMPLETE", "DISARM"}), NEW act \in ArmAction
  PROVE  /\ Queued(AfterPublish(queue, act), "BEGIN") => Queued(queue, "BEGIN") \/ act = "BEGIN"
         /\ Queued(AfterPublish(queue, act), "DISARM") <=> Queued(queue, "DISARM") \/ act = "DISARM"
<1>1. CASE act = "DISARM"
  <2>1. AfterPublish(queue, act) = <<"DISARM">>
    BY <1>1 DEF AfterPublish
  <2>2. \A i \in DOMAIN <<"DISARM">> : <<"DISARM">>[i] = "DISARM"
    OBVIOUS
  <2>3. 1 \in DOMAIN <<"DISARM">> /\ <<"DISARM">>[1] = "DISARM"
    OBVIOUS
  <2>4. QED BY <1>1, <2>1, <2>2, <2>3 DEF Queued
<1>2. CASE act # "DISARM" /\ AfterPublish(queue, act) = queue
  BY <1>2
<1>3. CASE act \in {"BEGIN", "COMPLETE"} /\ AfterPublish(queue, act) = Append(queue, act)
  <2>1. /\ Len(queue) \in Nat /\ DOMAIN queue = 1 .. Len(queue)
        /\ DOMAIN Append(queue, act) = 1 .. Len(queue) + 1
        /\ \A i \in 1 .. Len(queue) : Append(queue, act)[i] = queue[i]
        /\ Append(queue, act)[Len(queue) + 1] = act
    BY <1>3
  <2>2. \A i \in 1 .. Len(queue) + 1 : i \in 1 .. Len(queue) \/ i = Len(queue) + 1
    BY <2>1
  <2>3. \A i \in 1 .. Len(queue) : i \in 1 .. Len(queue) + 1
    BY <2>1
  <2>4. QED BY <1>3, <2>1, <2>2, <2>3 DEF Queued
<1>4. QED BY <1>1, <1>2, <1>3 DEF AfterPublish, ArmAction

(* A step that neither opens an order nor drops a disarm.                  *)
LEMMA OrdersQuiet ==
  ASSUME esc'.state = esc.state,
         OrderOpen' => OrderOpen,
         DisarmOpen => DisarmOpen',
         (Permit' <=> Permit) \/ (DisarmOpen' => DisarmOpen)
  PROVE  [Orders!OrdersNext]_(Orders!armingVars)
<1> DEFINE O == OrderOpen
           D == DisarmOpen
<1>1. O \in BOOLEAN /\ O' \in BOOLEAN /\ D \in BOOLEAN /\ D' \in BOOLEAN
  BY DEF OrderOpen, DisarmOpen, DisarmInFlight, Queued, ToApply
<1>2. QED
  BY <1>1
  DEF Permit, Orders!OrdersNext, Orders!armingVars, Orders!OrderDisarm, Orders!Refuse,
      Orders!Grant, Orders!Revoke, Orders!MayLapse

(* Where an order to arm and a disarm can be on their way.                 *)
OrderPlaces ==
  \/ Pending(arbiter, "arm") \/ Pending(arbiter, "force_arm")
  \/ decision.arm \/ decision.force_arm
  \/ HasArm(request_queue)
  \/ sequence.state = "ARM_PENDING"
  \/ Queued(action_queue, "BEGIN") \/ ToApply("BEGIN")

DisarmPlaces ==
  \/ Pending(arbiter, "disarm")
  \/ decision.disarm /\ ~internal_disarm
  \/ HasDisarm(request_queue)
  \/ sequence.state = "DISARM_PENDING"
  \/ Queued(action_queue, "DISARM") \/ ToApply("DISARM")

LEMMA Places ==
  /\ (OrderOpen <=> OrderPlaces)   /\ (OrderOpen' <=> OrderPlaces')
  /\ (DisarmOpen <=> DisarmPlaces) /\ (DisarmOpen' <=> DisarmPlaces')
<1>1. (OrderOpen <=> OrderPlaces) /\ (OrderOpen' <=> OrderPlaces')
  BY Zenon DEF OrderOpen, OrderPlaces, InFlight, HasArm
<1>2. (DisarmOpen <=> DisarmPlaces) /\ (DisarmOpen' <=> DisarmPlaces')
  BY Zenon DEF DisarmOpen, DisarmPlaces, DisarmInFlight, HasDisarm
<1>3. QED BY <1>1, <1>2

(* The places a step changes decide what it is for the operator.           *)
LEMMA OrdersMoved ==
  ASSUME esc'.state = esc.state,
         OrderPlaces' => OrderPlaces,
         DisarmPlaces => DisarmPlaces',
         (Permit' <=> Permit) \/ (DisarmPlaces' => DisarmPlaces)
  PROVE  [Orders!OrdersNext]_(Orders!armingVars)
  BY Places, OrdersQuiet

LEMMA PushedEvent ==
  ASSUME NEW arb \in Arbiter, NEW event \in EventKind, EventAccepted(arb, event)
  PROVE  \A e : Pending(NotifyLink(PushEvent(arb, event)), e) <=> Pending(arb, e) \/ e = event
<1> DEFINE next == NotifyLink(PushEvent(arb, event))
<1>1. /\ next.urgent = arb.urgent \cup ({event} \cap Urgent)
      /\ next.events = IF RingFull(arb) THEN arb.events ELSE Append(arb.events, event)
  BY DEF Arbiter, PushEvent, NotifyLink
<1>2. arb.events \in Seq(EventKind) /\ arb.urgent \in SUBSET Urgent
  BY DEF Arbiter
<1>3. CASE RingFull(arb)
  <2>1. event \in Urgent
    BY <1>3 DEF EventAccepted
  <2>2. next.events = arb.events /\ next.urgent = arb.urgent \cup {event}
    BY <1>1, <1>3, <2>1
  <2> HIDE DEF next
  <2>3. \A e : Pending(next, e) <=> Pending(arb, e) \/ e = event
    BY <2>2 DEF Pending
  <2>4. QED BY <2>3 DEF next
<1>4. CASE ~RingFull(arb)
  <2>1. next.events = Append(arb.events, event)
    BY <1>1, <1>4
  <2>2. /\ Len(arb.events) \in Nat /\ DOMAIN arb.events = 1 .. Len(arb.events)
        /\ DOMAIN next.events = 1 .. Len(arb.events) + 1
        /\ \A i \in 1 .. Len(arb.events) : next.events[i] = arb.events[i]
        /\ next.events[Len(arb.events) + 1] = event
    BY <1>2, <2>1
  <2>3. \A i \in 1 .. Len(arb.events) + 1 : i \in 1 .. Len(arb.events) \/ i = Len(arb.events) + 1
    BY <2>2
  <2>4. /\ \A i \in 1 .. Len(arb.events) : i \in 1 .. Len(arb.events) + 1
        /\ Len(arb.events) + 1 \in 1 .. Len(arb.events) + 1
    BY <2>2
  <2> HIDE DEF next
  <2>5. \A e : (\E i \in DOMAIN next.events : next.events[i] = e)
                <=> (\E i \in DOMAIN arb.events : arb.events[i] = e) \/ e = event
    BY <2>2, <2>3, <2>4
  <2>6. \A e : e \in next.urgent <=> e \in arb.urgent \/ (e = event /\ event \in Urgent)
    BY <1>1 DEF next
  <2>7. \A e : Pending(next, e) <=> Pending(arb, e) \/ e = event
    BY <2>5, <2>6 DEF Pending
  <2>8. QED BY <2>7 DEF next
<1>5. QED BY <1>3, <1>4

(* A handler opens an order, orders a disarm, or does neither.             *)
LEMMA HandlersOrders ==
  ASSUME TypeOK, Handlers
  PROVE  [Orders!OrdersNext]_(Orders!armingVars)
<1>1. /\ UNCHANGED <<esc, arm_power_allowed, decision, internal_disarm, action, pc,
                     request_queue, sequence, action_queue>>
  BY DEF Handlers, MotorCommand, WinchCommand, SteerCommand, EventCommand, CalibrateCommand,
         BenchCommand, MissionStop, HandlerFrame, localVars, armVars, permitVars
<1>2. Permit' <=> Permit
  BY <1>1 DEF Permit
<1>3. /\ HasArm(request_queue)' <=> HasArm(request_queue)
      /\ HasDisarm(request_queue)' <=> HasDisarm(request_queue)
      /\ \A item : Queued(action_queue, item)' <=> Queued(action_queue, item)
      /\ \A item : ToApply(item)' <=> ToApply(item)
  BY <1>1 DEF ToApply
<1>4. CASE EventCommand
  <2>1. PICK event \in EventKind : EventAccepted(arbiter, event)
                                   /\ arbiter' = NotifyLink(PushEvent(arbiter, event))
    BY <1>4 DEF EventCommand, NotifyLinkRx
  <2>2. \A e : Pending(arbiter', e) <=> Pending(arbiter, e) \/ e = event
    BY <2>1, PushedEvent DEF TypeOK
  <2>3. CASE event \in {"arm", "force_arm"}
    <3>1. OrderPlaces' /\ (DisarmPlaces' <=> DisarmPlaces)
      BY <1>1, <1>3, <2>2, <2>3 DEF OrderPlaces, DisarmPlaces
    <3>2. OrderOpen' /\ (DisarmOpen' <=> DisarmOpen)
      BY <3>1, Places
    <3>3. DisarmOpen' = DisarmOpen /\ (Permit' = Permit)
      BY <1>2, <3>2 DEF Permit, DisarmOpen
    <3>4. QED BY <1>1, <3>2, <3>3 DEF Permit, Orders!OrdersNext, Orders!OrderArm
  <2>4. CASE event \notin {"arm", "force_arm"}
    <3>1. (OrderPlaces' => OrderPlaces) /\ (DisarmPlaces => DisarmPlaces')
      BY <1>1, <1>3, <2>2, <2>4 DEF OrderPlaces, DisarmPlaces
    <3>2. QED BY <1>1, <1>2, <3>1, OrdersMoved
  <2>5. QED BY <2>3, <2>4
<1>5. CASE ~EventCommand
  <2>1. arbiter'.events = arbiter.events /\ arbiter'.urgent = arbiter.urgent
    BY <1>5
    DEF Handlers, MotorCommand, WinchCommand, SteerCommand, CalibrateCommand, BenchCommand,
        MissionStop, NotifyLinkRx, NotifyLink, SubmitDrive, SubmitWinch, SubmitSteer, TypeOK,
        Arbiter
  <2>2. \A e : Pending(arbiter', e) <=> Pending(arbiter, e)
    BY <2>1 DEF Pending
  <2>3. (OrderPlaces' => OrderPlaces) /\ (DisarmPlaces => DisarmPlaces')
    BY <1>1, <1>3, <2>2 DEF OrderPlaces, DisarmPlaces
  <2>4. QED BY <1>1, <1>2, <2>3, OrdersMoved
<1>6. QED BY <1>4, <1>5

(* The ArmSeq task hands orders and disarms on, and may refuse an order.   *)
LEMMA ArmSeqOrders ==
  ASSUME TypeOK, ArmSeqTask
  PROVE  [Orders!OrdersNext]_(Orders!armingVars)
<1>1. UNCHANGED <<esc, arbiter, arm_power_allowed, decision, internal_disarm, action, pc>>
  BY DEF ArmSeqTask, ArmSeqReceive, ArmSeqTimeout, ArmSeqStep, ArmSeqFrame, localVars, permitVars
<1>2. /\ Permit' <=> Permit
      /\ \A item : ToApply(item)' <=> ToApply(item)
      /\ \A event : Pending(arbiter, event)' <=> Pending(arbiter, event)
  BY <1>1 DEF Permit, ToApply
<1>3. /\ request_queue \in Seq(ArmRequest) /\ sequence \in Sequence
      /\ action_queue \in Seq({"BEGIN", "COMPLETE", "DISARM"})
  BY DEF TypeOK
<1>4. CASE ArmSeqReceive
  <2>1. /\ request_queue # << >> /\ request_queue' = Tail(request_queue)
        /\ sequence' = Request(sequence, Head(request_queue))
        /\ action_queue' = action_queue
    BY <1>4 DEF ArmSeqReceive
  <2>2. Head(request_queue) \in ArmRequest
    BY <1>3, <2>1
  <2>3. /\ sequence'.state = "ARM_PENDING" =>
             sequence.state = "ARM_PENDING" \/ Head(request_queue).request = "ARM"
        /\ sequence'.state = "DISARM_PENDING" <=>
             sequence.state = "DISARM_PENDING" \/ Head(request_queue).request = "DISARM"
    BY <1>3, <2>1, <2>2 DEF Request, Sequence, ArmRequest
  <2>4. /\ HasArm(request_queue') \/ Head(request_queue).request = "ARM"
             <=> HasArm(request_queue)
        /\ HasDisarm(request_queue') \/ Head(request_queue).request = "DISARM"
             <=> HasDisarm(request_queue)
    BY <1>3, <2>1, TakenRequests
  <2>5. \A item : Queued(action_queue, item)' <=> Queued(action_queue, item)
    BY <2>1
  <2>6. (OrderPlaces' => OrderPlaces) /\ (DisarmPlaces => DisarmPlaces')
    BY <1>1, <1>2, <2>3, <2>4, <2>5 DEF OrderPlaces, DisarmPlaces
  <2>7. QED BY <1>1, <1>2, <2>6, OrdersMoved
<1>5. CASE ArmSeqTimeout
  <2>1. UNCHANGED <<request_queue, action_queue, sequence>>
    BY <1>5 DEF ArmSeqTimeout
  <2>2. (OrderPlaces' => OrderPlaces) /\ (DisarmPlaces => DisarmPlaces')
    BY <1>1, <1>2, <2>1 DEF OrderPlaces, DisarmPlaces
  <2>3. QED BY <1>1, <1>2, <2>2, OrdersMoved
<1>6. CASE ArmSeqStep
  <2>1. PICK gps_locked \in BOOLEAN :
          /\ sequence' = AfterStep(sequence, StepAction(sequence, gps_locked))
          /\ action_queue' = AfterPublish(action_queue, StepAction(sequence, gps_locked))
          /\ request_queue' = request_queue
    BY <1>6 DEF ArmSeqStep
  <2> DEFINE act == StepAction(sequence, gps_locked)
  <2>2. act \in ArmAction
    BY <1>3, SequenceType
  <2>3. /\ act = "DISARM" <=> sequence.state = "DISARM_PENDING"
        /\ act = "BEGIN" => sequence.state = "ARM_PENDING"
        /\ sequence'.state = "ARM_PENDING" => sequence.state = "ARM_PENDING"
        /\ sequence'.state # "DISARM_PENDING"
    BY <1>3, <2>1 DEF StepAction, AfterStep, DeadlineReached, Sequence, ArmSequenceState
  <2>4. /\ Queued(action_queue', "BEGIN") => Queued(action_queue, "BEGIN") \/ act = "BEGIN"
        /\ Queued(action_queue', "DISARM") <=> Queued(action_queue, "DISARM") \/ act = "DISARM"
    BY <1>3, <2>1, <2>2, PublishedActions
  <2>5. (OrderPlaces' => OrderPlaces) /\ (DisarmPlaces => DisarmPlaces')
    BY <1>1, <1>2, <2>1, <2>3, <2>4 DEF OrderPlaces, DisarmPlaces
  <2>6. QED BY <1>1, <1>2, <2>5, OrdersMoved
<1>7. QED BY <1>4, <1>5, <1>6 DEF ArmSeqTask

(* A cycle takes the orders and the disarms out of the arbiter into its    *)
(* decision; one with a disarm has no permission from here on.             *)
LEMMA CycleOrders ==
  ASSUME TypeOK, DecisionInv, CycleBegin
  PROVE  [Orders!OrdersNext]_(Orders!armingVars)
<1>1. /\ pc = "idle" /\ pc' = "auto"
      /\ UNCHANGED <<esc, arm_power_allowed, internal_disarm, request_queue, action_queue,
                     sequence>>
      /\ arbiter' = AfterDecide(arbiter)
      /\ decision'.arm = Pending(arbiter, "arm")
      /\ decision'.force_arm = Pending(arbiter, "force_arm")
      /\ decision'.disarm = Pending(arbiter, "disarm")
  BY DEF CycleBegin, Decide, armVars, permitVars
<1>2. ~internal_disarm /\ ~decision.disarm
  BY <1>1 DEF DecisionInv, Deciding, NoDecision
<1>3. \A event : ~Pending(arbiter', event)
  BY <1>1 DEF AfterDecide, Pending
<1>4. \A item : ~ToApply(item) /\ ~ToApply(item)'
  BY <1>1 DEF ToApply
<1>5. OrderPlaces' => OrderPlaces
  BY <1>1, <1>3, <1>4 DEF OrderPlaces
<1>6. DisarmPlaces' <=> DisarmPlaces
  BY <1>1, <1>2, <1>3, <1>4 DEF DisarmPlaces
<1>7. QED BY <1>1, <1>5, <1>6, OrdersMoved

(* An action taken from the queue is still on its way.  The compass task's *)
(* claim trips the boat, or calls off an arming that has not begun.        *)
LEMMA TakeOrders ==
  ASSUME TypeOK, TakeArmAction
  PROVE  [Orders!OrdersNext]_(Orders!armingVars)
<1>1. /\ pc = "action"
      /\ UNCHANGED <<arbiter, arm_power_allowed, decision, internal_disarm, sequence>>
  BY DEF TakeArmAction, permitVars
<1>2. /\ request_queue \in Seq(ArmRequest) /\ esc \in Esc
      /\ action_queue \in Seq({"BEGIN", "COMPLETE", "DISARM"})
  BY DEF TypeOK
<1>3. /\ Permit' <=> Permit
      /\ \A item : ~ToApply(item)
      /\ \A event : Pending(arbiter, event)' <=> Pending(arbiter, event)
  BY <1>1 DEF Permit, ToApply
<1>4. CASE action_queue = << >>
  <2>1. UNCHANGED <<esc, request_queue, action_queue>> /\ pc' = "outputs"
    BY <1>4 DEF TakeArmAction
  <2>2. \A item : ~ToApply(item)'
    BY <2>1 DEF ToApply
  <2>3. (OrderPlaces' => OrderPlaces) /\ (DisarmPlaces => DisarmPlaces')
    BY <1>1, <1>3, <2>1, <2>2 DEF OrderPlaces, DisarmPlaces
  <2>4. QED BY <1>3, <2>1, <2>3, OrdersMoved
<1>5. CASE action_queue # << >> /\ RefusedForCompass(Head(action_queue))
  <2>1. /\ action_queue' = Tail(action_queue) /\ pc' = "outputs"
        /\ esc' = Disarm(esc)
        /\ request_queue' = AfterSubmit(request_queue, "DISARM", FALSE)
    BY <1>5 DEF TakeArmAction, RequestDisarm
  <2>2. /\ \A item : ~ToApply(item)'
        /\ Queued(action_queue', "BEGIN") => Queued(action_queue, "BEGIN")
    BY <1>2, <1>5, <2>1, TakenActions DEF ToApply
  <2>3. ~HasArm(request_queue') /\ HasDisarm(request_queue')
    BY <1>2, <2>1, SubmittedOrders
  <2>4. (OrderPlaces' => OrderPlaces) /\ DisarmPlaces'
    BY <1>1, <1>3, <2>2, <2>3 DEF OrderPlaces, DisarmPlaces
  <2>5. esc'.state = "disarmed"
    BY <2>1 DEF Disarm
  <2>6. CASE esc.state = "disarmed"
    BY <1>3, <2>4, <2>5, <2>6, OrdersMoved
  <2>7. CASE esc.state # "disarmed"
    <3>1. (OrderOpen' => OrderOpen) /\ DisarmOpen'
      BY <2>4, Places
    <3>2. QED
      BY <1>1, <2>5, <2>7, <3>1 DEF Orders!OrdersNext, Orders!Trip, Orders!MayLapse
  <2>8. QED BY <2>6, <2>7
<1>6. CASE action_queue # << >> /\ ~RefusedForCompass(Head(action_queue))
  <2>1. /\ action_queue' = Tail(action_queue) /\ pc' = "apply"
        /\ action' = Head(action_queue)
        /\ UNCHANGED <<esc, request_queue>>
    BY <1>6 DEF TakeArmAction
  <2>2. \A item : Queued(action_queue, item) <=> ToApply(item)' \/ Queued(action_queue', item)
    BY <1>2, <1>6, <2>1, TakenActions DEF ToApply
  <2>3. (OrderPlaces' => OrderPlaces) /\ (DisarmPlaces => DisarmPlaces')
    BY <1>1, <1>3, <2>1, <2>2 DEF OrderPlaces, DisarmPlaces
  <2>4. QED BY <1>3, <2>1, <2>3, OrdersMoved
<1>7. QED BY <1>4, <1>5, <1>6

(* The arm actions begin, complete or end an arming; one that is refused   *)
(* calls the arming off.                                                   *)
LEMMA ApplyOrders ==
  ASSUME TypeOK, DecisionInv, ApplyBegin \/ ApplyComplete \/ ApplyDisarm
  PROVE  [Orders!OrdersNext]_(Orders!armingVars)
<1>1. /\ pc = "apply" /\ pc' = "outputs"
      /\ UNCHANGED <<arbiter, arm_power_allowed, action_queue, sequence>>
  BY DEF ApplyBegin, ApplyComplete, ApplyDisarm, ApplyFrame, permitVars
<1>2. request_queue \in Seq(ArmRequest) /\ esc \in Esc /\ decision \in Decision
  BY DEF TypeOK
<1>3. /\ \A item : ~ToApply(item)'
      /\ \A event : Pending(arbiter, event)' <=> Pending(arbiter, event)
      /\ \A item : Queued(action_queue, item)' <=> Queued(action_queue, item)
  BY <1>1 DEF ToApply
<1>4. ArmPermitted => arm_power_allowed /\ ~decision.disarm
  BY <1>1 DEF DecisionInv, ArmPermitted
<1>5. CASE ApplyBegin /\ ArmPermitted /\ CanArmBegin(esc)
  <2>1. /\ UNCHANGED <<request_queue, decision, internal_disarm>>
        /\ esc.state = "disarmed" /\ esc'.state = "arming"
        /\ action = "BEGIN"
    BY <1>5 DEF ApplyBegin, ArmBegin, CanArmBegin
  <2>2. /\ ToApply("BEGIN") /\ ~ToApply("DISARM")
    BY <1>1, <2>1 DEF ToApply
  <2>3. OrderPlaces /\ (DisarmPlaces' <=> DisarmPlaces)
    BY <1>1, <1>3, <2>1, <2>2 DEF OrderPlaces, DisarmPlaces
  <2>4. OrderOpen /\ DisarmOpen' = DisarmOpen
    BY <2>3, Places DEF DisarmOpen
  <2>5. QED BY <1>1, <1>4, <1>5, <2>1, <2>4 DEF Orders!OrdersNext, Orders!Begin
<1>6. CASE ApplyComplete /\ ArmPermitted /\ CanArmComplete(esc)
  <2>1. /\ UNCHANGED <<request_queue, internal_disarm>>
        /\ esc.state = "arming" /\ esc'.state = "armed"
        /\ action = "COMPLETE"
        /\ decision' = [decision EXCEPT !.servo_power_on = TRUE]
    BY <1>2, <1>6 DEF ApplyComplete, ArmComplete, CanArmComplete, Esc
  <2>2. /\ decision'.arm = decision.arm /\ decision'.force_arm = decision.force_arm
        /\ decision'.disarm = decision.disarm
    BY <1>2, <2>1 DEF Decision
  <2>3. ~ToApply("BEGIN") /\ ~ToApply("DISARM")
    BY <2>1 DEF ToApply
  <2>4. (OrderPlaces' <=> OrderPlaces) /\ (DisarmPlaces' <=> DisarmPlaces)
    BY <1>1, <1>3, <2>1, <2>2, <2>3 DEF OrderPlaces, DisarmPlaces
  <2>5. OrderOpen' = OrderOpen /\ DisarmOpen' = DisarmOpen
    BY <2>4, Places DEF OrderOpen, DisarmOpen
  <2>6. QED BY <1>1, <1>4, <1>6, <2>1, <2>2, <2>5 DEF Orders!OrdersNext, Orders!Complete
<1>7. CASE \/ ApplyBegin /\ ~(ArmPermitted /\ CanArmBegin(esc))
           \/ ApplyComplete /\ ~(ArmPermitted /\ CanArmComplete(esc))
  <2>1. /\ request_queue' = AfterSubmit(request_queue, "DISARM", FALSE)
        /\ UNCHANGED <<decision, internal_disarm>>
        /\ esc' = esc \/ esc'.state = "disarmed"
    <3>1. CASE ApplyBegin /\ ~(ArmPermitted /\ CanArmBegin(esc))
      BY <3>1 DEF ApplyBegin, RequestDisarm
    <3>2. CASE ApplyComplete /\ ~(ArmPermitted /\ CanArmComplete(esc))
      <4>1. /\ RequestDisarm /\ UNCHANGED <<decision, internal_disarm>>
            /\ esc' = esc \/ esc' = Disarm(esc)
        BY <3>2, Zenon DEF ApplyComplete
      <4>2. QED BY <4>1 DEF RequestDisarm, Disarm
    <3>3. QED BY <1>7, <3>1, <3>2
  <2>2. ~HasArm(request_queue') /\ HasDisarm(request_queue')
    BY <1>2, <2>1, SubmittedOrders
  <2>3. (OrderPlaces' => OrderPlaces) /\ DisarmPlaces'
    BY <1>1, <1>3, <2>1, <2>2 DEF OrderPlaces, DisarmPlaces
  <2>4. CASE esc'.state = esc.state
    BY <1>1, <2>1, <2>3, <2>4, OrdersMoved DEF Permit
  <2>5. CASE esc'.state = "disarmed" /\ esc.state # "disarmed"
    <3>1. (OrderOpen' => OrderOpen) /\ DisarmOpen'
      BY <2>3, Places
    <3>2. QED
      BY <1>1, <2>1, <2>5, <3>1 DEF Orders!OrdersNext, Orders!Trip, Orders!MayLapse
  <2>6. QED BY <2>1, <2>4, <2>5
<1>8. CASE ApplyDisarm
  <2>1. /\ request_queue' = request_queue
        /\ esc'.state = "disarmed"
        /\ action = "DISARM"
        /\ decision' = [decision EXCEPT !.arm = FALSE, !.force_arm = FALSE, !.disarm = TRUE]
    BY <1>8 DEF ApplyDisarm, Disarm
  <2>2. ~decision'.arm /\ ~decision'.force_arm /\ decision'.disarm
    BY <1>2, <2>1 DEF Decision
  <2>3. ToApply("DISARM")
    BY <1>1, <2>1 DEF ToApply
  <2>4. (OrderPlaces' => OrderPlaces) /\ DisarmPlaces
    BY <1>1, <1>3, <2>1, <2>2, <2>3 DEF OrderPlaces, DisarmPlaces
  <2>5. (OrderOpen' => OrderOpen) /\ DisarmOpen
    BY <2>4, Places
  <2>6. QED BY <2>1, <2>2, <2>5 DEF Orders!OrdersNext, Orders!Disarm, Orders!MayLapse
<1>9. QED BY <1>5, <1>6, <1>7, <1>8

(* The outputs submit the decision, and grant or revoke the permission.    *)
LEMMA OutputsOrders ==
  ASSUME TypeOK, ApplyOutputs
  PROVE  [Orders!OrdersNext]_(Orders!armingVars)
<1>1. /\ pc = "outputs" /\ pc' = "calibration"
      /\ decision' = NoDecision /\ internal_disarm' = FALSE
      /\ UNCHANGED <<arbiter, action_queue, sequence>>
  BY DEF ApplyOutputs, ApplyPowerOff, ApplySafeStop, ApplyManual, OutputsFrame
<1>2. request_queue \in Seq(ArmRequest) /\ decision \in Decision
  BY DEF TypeOK
<1>3. ~decision'.arm /\ ~decision'.force_arm /\ ~decision'.disarm
  BY <1>1 DEF NoDecision
<1>4. /\ \A item : ~ToApply(item) /\ ~ToApply(item)'
      /\ \A event : Pending(arbiter, event)' <=> Pending(arbiter, event)
      /\ \A item : Queued(action_queue, item)' <=> Queued(action_queue, item)
  BY <1>1 DEF ToApply
<1>5. esc'.state = esc.state
  <2>1. ~TakeArmAction /\ ~ApplyBegin /\ ~ApplyComplete /\ ~ApplyDisarm
    BY <1>1 DEF TakeArmAction, ApplyBegin, ApplyComplete, ApplyDisarm, ApplyFrame
  <2>2. QED BY <2>1, EscStateSteps DEF Next, ControlStep
<1>6. CASE decision.disarm /\ ~internal_disarm
  <2>1. request_queue' = AfterSubmit(request_queue, "DISARM", FALSE)
    BY <1>6 DEF ApplyOutputs, ApplyPowerOff, ApplySafeStop, ApplyManual, SubmitForDecision
  <2>2. ~HasArm(request_queue') /\ HasDisarm(request_queue')
    BY <1>2, <2>1, SubmittedOrders
  <2>3. (OrderPlaces' => OrderPlaces) /\ DisarmPlaces' /\ DisarmPlaces
    BY <1>1, <1>3, <1>4, <1>6, <2>2 DEF OrderPlaces, DisarmPlaces
  <2>4. QED BY <1>5, <2>3, OrdersMoved
<1>7. CASE ~(decision.disarm /\ ~internal_disarm)
  <2>1. \/ request_queue' = request_queue
        \/ /\ decision.arm \/ decision.force_arm
           /\ request_queue' = AfterSubmit(request_queue, "ARM", decision.force_arm)
    BY <1>7 DEF ApplyOutputs, ApplyPowerOff, ApplySafeStop, ApplyManual, SubmitForDecision
  <2>2. HasDisarm(request_queue') <=> HasDisarm(request_queue)
    <3>1. decision.force_arm \in BOOLEAN
      BY <1>2 DEF Decision
    <3>2. HasDisarm(AfterSubmit(request_queue, "ARM", decision.force_arm))
            <=> HasDisarm(request_queue)
      BY <1>2, <3>1, SubmittedOrders
    <3>3. QED BY <2>1, <3>2
  <2>3. HasArm(request_queue') => HasArm(request_queue) \/ decision.arm \/ decision.force_arm
    BY <2>1
  <2>4. (OrderPlaces' => OrderPlaces) /\ (DisarmPlaces' <=> DisarmPlaces)
    BY <1>1, <1>3, <1>4, <1>7, <2>2, <2>3 DEF OrderPlaces, DisarmPlaces
  <2>5. QED BY <1>5, <2>4, OrdersMoved
<1>8. QED BY <1>6, <1>7

(* Everything else is none of arming's business.                           *)
LEMMA OthersOrders ==
  ASSUME TypeOK,
         \/ AutoDecide \/ CalibrationTick \/ BenchTick \/ AutoTick
         \/ OtherTasks \/ Tick \/ UNCHANGED vars
  PROVE  [Orders!OrdersNext]_(Orders!armingVars)
<1>1. CASE AutoDecide \/ CalibrationTick \/ BenchTick \/ AutoTick
  <2>1. /\ pc # "apply" /\ pc' # "apply" /\ pc # "action"
        /\ UNCHANGED <<arbiter, arm_power_allowed, decision, internal_disarm, request_queue,
                       sequence, action_queue>>
    BY <1>1
    DEF AutoDecide, CalibrationTick, SweepIdle, SweepEnd, SweepNoise, SweepLevel,
        CalibrationFrame, BenchTick, BenchStop, BenchIdle, BenchStart, BenchRun, BenchFail,
        BenchFinish, BenchFrame, AutoTick, armVars, localVars, permitVars
  <2>2. esc'.state = esc.state
    <3>1. ~TakeArmAction /\ ~ApplyBegin /\ ~ApplyComplete /\ ~ApplyDisarm
      BY <2>1 DEF TakeArmAction, ApplyBegin, ApplyComplete, ApplyDisarm, ApplyFrame
    <3>2. QED BY <1>1, <3>1, EscStateSteps DEF Next, ControlStep
  <2>3. /\ \A item : ~ToApply(item) /\ ~ToApply(item)'
        /\ \A event : Pending(arbiter, event)' <=> Pending(arbiter, event)
        /\ \A item : Queued(action_queue, item)' <=> Queued(action_queue, item)
    BY <2>1 DEF ToApply
  <2>4. (OrderPlaces' => OrderPlaces) /\ (DisarmPlaces => DisarmPlaces')
    BY <2>1, <2>3 DEF OrderPlaces, DisarmPlaces
  <2>5. QED BY <2>1, <2>2, <2>4, OrdersMoved DEF Permit
<1>2. CASE OtherTasks \/ Tick \/ UNCHANGED vars
  <2>1. UNCHANGED <<esc, pc, decision, internal_disarm, arm_power_allowed>>
    BY <1>2, OthersFrame
  <2>2. /\ UNCHANGED <<action, request_queue, action_queue>>
        /\ sequence' = sequence \/ sequence' = AgeSequence(sequence)
        /\ arbiter' = arbiter \/ arbiter' = AgeDrive(arbiter)
    BY <1>2
    DEF OtherTasks, PublishSetpoint, CompassClaim, CompassCheck, CompassEnd, CompassFrame,
        BenchFlush, Tick, vars, localVars, armVars
  <2>3. /\ sequence'.state = sequence.state
        /\ arbiter'.events = arbiter.events /\ arbiter'.urgent = arbiter.urgent
    BY <2>2 DEF AgeSequence, AgeDrive, TypeOK, Sequence, Arbiter
  <2>4. /\ \A item : ToApply(item)' <=> ToApply(item)
        /\ \A event : Pending(arbiter, event)' <=> Pending(arbiter, event)
        /\ \A item : Queued(action_queue, item)' <=> Queued(action_queue, item)
    BY <2>1, <2>2, <2>3 DEF ToApply, Pending
  <2>5. (OrderPlaces' => OrderPlaces) /\ (DisarmPlaces => DisarmPlaces')
    BY <2>1, <2>2, <2>3, <2>4 DEF OrderPlaces, DisarmPlaces
  <2>6. QED BY <2>1, <2>5, OrdersMoved DEF Permit
<1>3. QED BY <1>1, <1>2

(* The control task, the ArmSeq task, their two queues and every handler   *)
(* together are the operator's view of arming (control_apply_decision,     *)
(* control_apply_arm_action, submit_arm_request, publish_arm_action): no   *)
(* arming without an order and a permission, and a disarm is on its way    *)
(* until it has disarmed the ESCs and taken the permission, for any length *)
(* of the queues, any event ring and any interleaving.                     *)
THEOREM ControlImplementsArming == Spec => ImplementsArming
<1>1. Init => Orders!OrdersInit /\ DecisionInv
  <2>1. SUFFICES ASSUME Init PROVE Orders!OrdersInit /\ DecisionInv
    OBVIOUS
  <2>2. /\ ~OrderPlaces /\ ~DisarmPlaces
    BY <2>1
    DEF Init, QuietInit, ArbiterInit, NoDecision, SequenceInit, OrderPlaces, DisarmPlaces,
        Pending, HasArm, HasDisarm, Queued, ToApply
  <2>3. ~OrderOpen /\ ~DisarmOpen
    BY <2>2, Places
  <2>4. QED
    BY <2>1, <2>3 DEF Init, QuietInit, EscInit, DecisionInv, Orders!OrdersInit
<1>2. TypeOK /\ DecisionInv /\ [Next]_vars => [Orders!OrdersNext]_(Orders!armingVars)
  BY HandlersOrders, ArmSeqOrders, CycleOrders, TakeOrders, ApplyOrders, OutputsOrders,
     OthersOrders
  DEF Next, ControlStep
<1>3. QED
  BY <1>1, <1>2, DecisionStep, TypeCorrect, PTL DEF Spec, ImplementsArming, Orders!OrdersSpec

-------------------------------------------------------------------------------
(* The stick's thrust.                                                     *)

(* The drive proposal is as old as the link: every accepted command        *)
(* refreshes both.  Hence a drive that failed while the link is alive was  *)
(* never commanded, and its thrust cannot be on the jets.                  *)
StickInv ==
  /\ arbiter.drive.valid => arbiter.drive.age = link_age
  /\ esc.thrust = "stick" => arbiter.drive.valid
  /\ pc \in Deciding =>
       /\ decision.demand = "thrust" => arbiter.drive.valid
       /\ arbiter.was_failsafe => decision.demand = "zero"
       /\ arbiter.was_failsafe /\ ~control_failsafe => esc.thrust # "stick"

(* What a handler and the clock do to the drive proposal and the link.     *)
LEMMA CommandsAgeDrive ==
  ASSUME TypeOK, StickInv, Handlers
  PROVE  /\ arbiter'.was_failsafe = arbiter.was_failsafe
         /\ arbiter.drive.valid => arbiter'.drive.valid
         /\ arbiter'.drive.valid => arbiter'.drive.age = link_age'
<1>1. arbiter \in Arbiter
  BY DEF TypeOK
<1>2. CASE UNCHANGED <<arbiter, link_age>>
  BY <1>2 DEF StickInv
<1>3. ASSUME NEW arb \in Arbiter, NotifyLinkRx(arb), arb.was_failsafe = arbiter.was_failsafe,
             arbiter.drive.valid => arb.drive.valid
      PROVE  /\ arbiter'.was_failsafe = arbiter.was_failsafe
             /\ arbiter.drive.valid => arbiter'.drive.valid
             /\ arbiter'.drive.valid => arbiter'.drive.age = link_age'
  BY <1>3 DEF NotifyLinkRx, NotifyLink, Arbiter
<1>4. CASE MotorCommand
  <2>1. PICK value \in Demand : NotifyLinkRx(SubmitDrive(arbiter, value, TRUE))
    BY <1>4 DEF MotorCommand
  <2>2. ArbiterOK(SubmitDrive(arbiter, value, TRUE))
    BY SubmitType DEF TypeOK, ArbiterOK
  <2>3. /\ SubmitDrive(arbiter, value, TRUE).was_failsafe = arbiter.was_failsafe
        /\ SubmitDrive(arbiter, value, TRUE).drive.valid
    BY <1>1 DEF SubmitDrive, DriveAccepted, Fresh, Arbiter
  <2>4. QED BY <1>3, <2>1, <2>2, <2>3 DEF ArbiterOK
<1>5. CASE WinchCommand
  <2>1. PICK value \in WinchDemand : NotifyLinkRx(SubmitWinch(arbiter, value, TRUE))
    BY <1>5 DEF WinchCommand
  <2>2. ArbiterOK(SubmitWinch(arbiter, value, TRUE))
    BY SubmitType DEF TypeOK, ArbiterOK
  <2>3. /\ SubmitWinch(arbiter, value, TRUE).was_failsafe = arbiter.was_failsafe
        /\ SubmitWinch(arbiter, value, TRUE).drive = arbiter.drive
    BY <1>1 DEF SubmitWinch, Arbiter
  <2>4. QED BY <1>3, <2>1, <2>2, <2>3 DEF ArbiterOK
<1>6. CASE SteerCommand
  <2>1. PICK value \in SteerDemand : NotifyLinkRx(SubmitSteer(arbiter, value, TRUE))
    BY <1>6 DEF SteerCommand
  <2>2. ArbiterOK(SubmitSteer(arbiter, value, TRUE))
    BY SubmitType DEF TypeOK, ArbiterOK
  <2>3. /\ SubmitSteer(arbiter, value, TRUE).was_failsafe = arbiter.was_failsafe
        /\ SubmitSteer(arbiter, value, TRUE).drive = arbiter.drive
    BY <1>1 DEF SubmitSteer, Arbiter
  <2>4. QED BY <1>3, <2>1, <2>2, <2>3 DEF ArbiterOK
<1>7. CASE EventCommand
  <2>1. PICK event \in EventKind : NotifyLinkRx(PushEvent(arbiter, event))
    BY <1>7 DEF EventCommand
  <2>2. ArbiterOK(PushEvent(arbiter, event))
    BY PushEventType DEF TypeOK, ArbiterOK
  <2>3. /\ PushEvent(arbiter, event).was_failsafe = arbiter.was_failsafe
        /\ PushEvent(arbiter, event).drive = arbiter.drive
    BY <1>1 DEF PushEvent, Arbiter
  <2>4. QED BY <1>3, <2>1, <2>2, <2>3 DEF ArbiterOK
<1>8. CASE CalibrateCommand \/ BenchCommand \/ MissionStop
  BY <1>2, <1>8 DEF CalibrateCommand, BenchCommand, MissionStop
<1>9. QED BY <1>4, <1>5, <1>6, <1>7, <1>8 DEF Handlers

LEMMA ClockAgesDrive ==
  ASSUME TypeOK, StickInv, Tick
  PROVE  /\ arbiter'.was_failsafe = arbiter.was_failsafe
         /\ arbiter'.drive.valid = arbiter.drive.valid
         /\ arbiter'.drive.valid => arbiter'.drive.age = link_age'
<1>1. arbiter \in Arbiter /\ link_age \in 0 .. LinkTimeout
  BY DEF TypeOK
<1>2. arbiter' = AgeDrive(arbiter) /\ link_age' = Older(link_age, LinkTimeout)
  BY DEF Tick
<1>3. /\ arbiter'.was_failsafe = arbiter.was_failsafe
      /\ arbiter'.drive.valid = arbiter.drive.valid
  BY <1>1, <1>2 DEF AgeDrive, Arbiter
<1>4. ASSUME arbiter.drive.valid PROVE arbiter'.drive.age = link_age'
  <2>1. arbiter.drive.age = link_age
    BY <1>4 DEF StickInv
  <2>2. QED
    BY <1>1, <1>2, <1>4, <2>1, MotorControlAssumption, ArbiterAssumption
    DEF AgeDrive, Older, Arbiter
<1>5. QED BY <1>3, <1>4

LEMMA StickStep == TypeOK /\ BenchInv /\ StickInv /\ [Next]_vars => StickInv'
<1>1. SUFFICES ASSUME TypeOK, BenchInv, StickInv, [Next]_vars PROVE StickInv'
  OBVIOUS
<1>2. arbiter \in Arbiter /\ decision \in Decision /\ link_age \in 0 .. LinkTimeout
  BY <1>1 DEF TypeOK
<1>3. \/ esc'.thrust # "stick" \/ esc'.thrust = esc.thrust
      \/ ApplyManual /\ esc'.thrust = StickThrust
  BY <1>1, ThrustSteps
<1>4. CASE CycleBegin
  <2>1. /\ pc = "idle" /\ esc' = esc /\ link_age' = link_age
        /\ arbiter' = AfterDecide(arbiter)
        /\ decision'.demand = Decide(arbiter).demand
        /\ control_failsafe' = ~LinkAlive
    BY <1>4 DEF CycleBegin, Decide
  <2>2. /\ arbiter'.drive.valid = arbiter.drive.valid
        /\ arbiter'.drive.age = arbiter.drive.age
        /\ arbiter'.was_failsafe = DriveFailsafe(arbiter)
    BY <1>2, <2>1 DEF AfterDecide, Arbiter
  <2>3. /\ DriveFailsafe(arbiter) => decision'.demand = "zero"
        /\ arbiter.drive.valid \/ decision'.demand = "zero"
    BY <2>1 DEF Decide, DriveFailsafe
  <2>4. DriveFailsafe(arbiter) /\ LinkAlive => ~arbiter.drive.valid
    BY <1>1, <1>2, MotorControlAssumption DEF StickInv, DriveFailsafe, LinkAlive
  <2>5. QED BY <1>1, <2>1, <2>2, <2>3, <2>4 DEF StickInv
<1>5. CASE ControlStep /\ ~CycleBegin
  <2>1. UNCHANGED <<arbiter, link_age, control_failsafe>>
    BY <1>5, CycleFrame
  <2>2. CASE ApplyOutputs \/ CalibrationTick \/ BenchTick \/ AutoTick
    <3>1. pc' \notin Deciding
      BY <2>2
      DEF ApplyOutputs, ApplyPowerOff, ApplySafeStop, ApplyManual, OutputsFrame,
          CalibrationTick, SweepIdle, SweepEnd, SweepNoise, SweepLevel, CalibrationFrame,
          BenchTick, BenchStop, BenchIdle, BenchStart, BenchRun, BenchFail, BenchFinish,
          BenchFrame, AutoTick, Deciding
    <3>2. esc'.thrust = "stick" => arbiter.drive.valid
      <4>1. CASE ApplyManual
        <5>1. pc \in Deciding
          BY <4>1 DEF ApplyManual, OutputsFrame, Deciding
        <5>2. StickThrust = "stick" => decision.demand = "thrust"
          BY <1>2 DEF StickThrust, Decision, Demand
        <5>3. QED BY <1>1, <1>3, <5>1, <5>2 DEF StickInv
      <4>2. CASE ~ApplyManual
        BY <1>1, <1>3, <4>2 DEF StickInv
      <4>3. QED BY <4>1, <4>2
    <3>3. QED BY <1>1, <2>1, <3>1, <3>2 DEF StickInv
  <2>3. CASE AutoDecide \/ TakeArmAction \/ ApplyBegin \/ ApplyComplete \/ ApplyDisarm
    <3>1. pc \in Deciding
      BY <2>3
      DEF AutoDecide, TakeArmAction, ApplyBegin, ApplyComplete, ApplyDisarm, ApplyFrame, Deciding
    <3>2. decision'.demand = decision.demand
      BY <1>2, <2>3
      DEF AutoDecide, TakeArmAction, ApplyBegin, ApplyComplete, ApplyDisarm, localVars, Decision
    <3>3. ~ApplyManual
      BY <2>3
      DEF AutoDecide, TakeArmAction, ApplyBegin, ApplyComplete, ApplyDisarm, ApplyFrame,
          ApplyManual, OutputsFrame
    <3>4. QED BY <1>1, <1>3, <2>1, <3>1, <3>2, <3>3 DEF StickInv
  <2>4. QED BY <1>5, <2>2, <2>3 DEF ControlStep
<1>6. CASE Handlers \/ Tick
  <2>1. UNCHANGED <<pc, decision, esc, control_failsafe>>
    BY <1>6, OthersFrame
  <2>2. /\ arbiter'.was_failsafe = arbiter.was_failsafe
        /\ arbiter.drive.valid => arbiter'.drive.valid
        /\ arbiter'.drive.valid => arbiter'.drive.age = link_age'
    BY <1>1, <1>6, CommandsAgeDrive, ClockAgesDrive
  <2>3. QED BY <1>1, <2>1, <2>2 DEF StickInv
<1>7. CASE ArmSeqTask \/ OtherTasks \/ UNCHANGED vars
  <2>1. UNCHANGED <<pc, decision, esc, control_failsafe>>
    BY <1>7, OthersFrame
  <2>2. UNCHANGED <<arbiter, link_age>>
    BY <1>7
    DEF ArmSeqTask, ArmSeqReceive, ArmSeqTimeout, ArmSeqStep, ArmSeqFrame, OtherTasks,
        PublishSetpoint, CompassClaim, CompassCheck, CompassEnd, CompassFrame, BenchFlush,
        vars, linkVars
  <2>3. QED BY <1>1, <2>1, <2>2 DEF StickInv
<1>8. QED BY <1>1, <1>4, <1>5, <1>6, <1>7 DEF Next

(* Whatever interleaves with a cycle, it leaves no thrust of the stick on  *)
(* the jets that its own decision did not find live.                       *)
THEOREM StickLive == Spec \/ ArmedSpec => StickThrustIsLive
<1> DEFINE Live ==
      pc = "outputs" /\ pc' = "calibration" /\ esc'.thrust = "stick"
        => \/ ~arbiter.was_failsafe
           \/ LinkAlive /\ control_failsafe
           \/ decision.servo_power_off
           \/ auto_out.own
<1>1. Init \/ ArmedInit => BenchInv /\ StickInv
  BY DEF Init, ArmedInit, QuietInit, ArbiterInit, EscInit, BenchInv, StickInv, Deciding
<1>2. TypeOK /\ BenchInv /\ StickInv /\ [Next]_vars => Live
  <2>1. SUFFICES ASSUME TypeOK, BenchInv, StickInv, [Next]_vars, pc = "outputs",
                        pc' = "calibration", esc'.thrust = "stick", arbiter.was_failsafe,
                        ~decision.servo_power_off, ~auto_out.own
                 PROVE  LinkAlive /\ control_failsafe
    OBVIOUS
  <2>2. ApplySafeStop \/ ApplyManual
    <3>1. ControlStep
      BY <2>1, OthersFrame DEF Next
    <3>2. QED
      BY <2>1, <3>1
      DEF ControlStep, CycleBegin, AutoDecide, TakeArmAction, ApplyBegin, ApplyComplete,
          ApplyDisarm, ApplyFrame, ApplyOutputs, ApplyPowerOff, CalibrationTick, SweepIdle,
          SweepEnd, SweepNoise, SweepLevel, CalibrationFrame, BenchTick, BenchStop, BenchIdle,
          BenchStart, BenchRun, BenchFail, BenchFinish, BenchFrame, AutoTick
  <2>3. esc \in Esc /\ StickThrust = "off"
    BY <2>1 DEF TypeOK, StickInv, StickThrust, Deciding
  <2>4. esc' = esc \/ esc' = SetThrottle(esc, "off")
    BY <2>1, <2>2, <2>3 DEF ApplySafeStop, ApplyManual
  <2>5. esc.thrust = "stick" /\ esc.state = "armed" /\ esc' # SetThrottle(esc, "off")
    BY <2>1, <2>3, <2>4 DEF SetThrottle, Esc, BenchInv
  <2>6. ApplyManual /\ LinkAlive
    BY <2>1, <2>2, <2>5 DEF ApplySafeStop, ApplyManual, SafeStop
  <2>7. QED BY <2>1, <2>5, <2>6 DEF StickInv, Deciding
<1>3. QED
  BY <1>1, <1>2, StickStep, BenchInvStep, TypeCorrect, PTL DEF Spec, ArmedSpec, StickThrustIsLive

-------------------------------------------------------------------------------
(* The sweep's throttle.                                                   *)

(* A sweep writes its throttle only after a noise phase at least as long   *)
(* as the link's timeout in which no command came: the link is silent when *)
(* it first writes, and stays so until a command touches the sweep.        *)
SweepQuiet ==
  /\ ~sweep.active => sweep.phase = "noise" /\ sweep.noise_left = NoiseTicks
  /\ sweep.phase = "level" => sweep.noise_left = 0
  /\ sweep.active /\ ~sweep.touched => link_age + sweep.noise_left >= LinkTimeout
  /\ sweep.phase = "level" /\ ~sweep.touched /\ pc \in Deciding \cup {"calibration"}
       => control_failsafe

(* Hence a cycle that finds the sweep's throttle on the jets removes it on *)
(* the manual path, before the sweep looks at why it must end.             *)
SweepRemoved ==
  sweep.active /\ esc.thrust = "sweep" =>
    /\ sweep.phase = "level"
    /\ pc \in Deciding => control_failsafe \/ decision.drive_changed
    /\ pc = "calibration" => rail_cut \/ (sweep.touched /\ control_failsafe)
    /\ pc \in {"bench", "auto_tick", "idle"} => control_failsafe

SweepInv == SweepQuiet /\ SweepRemoved

(* What the other tasks and the clock do to a sweep and the link's age.    *)
LEMMA OthersTouchSweep ==
  ASSUME TypeOK, SweepQuiet, ArmSeqTask \/ Handlers \/ OtherTasks \/ Tick \/ UNCHANGED vars
  PROVE  /\ sweep'.active = sweep.active /\ sweep'.phase = sweep.phase
         /\ sweep.active /\ sweep.touched => sweep'.touched
         /\ sweep.noise_left = 0 => sweep'.noise_left = 0
         /\ ~sweep.active => sweep'.noise_left = sweep.noise_left
         /\ sweep.active /\ ~sweep'.touched => link_age' + sweep'.noise_left >= LinkTimeout
<1>1. sweep \in Sweep /\ link_age \in 0 .. LinkTimeout
  BY DEF TypeOK
<1>2. CASE MotorCommand \/ WinchCommand \/ SteerCommand \/ EventCommand
  <2>1. sweep' = [sweep EXCEPT !.touched = @ \/ sweep.active]
    BY <1>2 DEF MotorCommand, WinchCommand, SteerCommand, EventCommand, NotifyLinkRx
  <2>2. QED BY <1>1, <2>1 DEF Sweep
<1>3. CASE CalibrateCommand
  <2>1. PICK start \in BOOLEAN :
          sweep' = [sweep EXCEPT !.start_pending = @ \/ start,
                                 !.stop_pending  = @ \/ ~start,
                                 !.rx_age = 0]
    BY <1>3 DEF CalibrateCommand
  <2>2. link_age' = link_age
    BY <1>3 DEF CalibrateCommand
  <2>3. QED BY <1>1, <2>1, <2>2 DEF Sweep, SweepQuiet
<1>4. CASE Tick
  <2>1. /\ sweep'.active = sweep.active /\ sweep'.phase = sweep.phase
        /\ sweep'.touched = sweep.touched
        /\ sweep'.noise_left = IF sweep.active /\ sweep.noise_left > 0
                                 THEN sweep.noise_left - 1 ELSE sweep.noise_left
    BY <1>1, <1>4 DEF Tick, Sweep
  <2>2. link_age' = IF link_age < LinkTimeout THEN link_age + 1 ELSE link_age
    BY <1>4 DEF Tick, Older
  <2>3. LinkTimeout \in Nat /\ sweep.noise_left \in Nat
    BY <1>1, MotorControlAssumption DEF Sweep
  <2>4. QED BY <1>1, <2>1, <2>2, <2>3 DEF SweepQuiet
<1>5. CASE UNCHANGED <<sweep, link_age>>
  BY <1>5 DEF SweepQuiet
<1>6. CASE ArmSeqTask \/ OtherTasks \/ BenchCommand \/ MissionStop \/ UNCHANGED vars
  BY <1>5, <1>6
  DEF ArmSeqTask, ArmSeqReceive, ArmSeqTimeout, ArmSeqStep, ArmSeqFrame, OtherTasks,
      PublishSetpoint, CompassClaim, CompassCheck, CompassEnd, CompassFrame, BenchFlush,
      BenchCommand, MissionStop, vars, linkVars
<1>7. QED BY <1>2, <1>3, <1>4, <1>6 DEF Handlers

(* The sweep's own step of the cycle.                                      *)
LEMMA CalibrationKeepsSweep ==
  ASSUME NoiseTicks >= LinkTimeout, TypeOK, SweepInv, CalibrationTick
  PROVE  SweepInv'
<1>1. /\ sweep \in Sweep /\ esc \in Esc
      /\ link_age \in 0 .. LinkTimeout /\ LinkTimeout \in Nat /\ NoiseTicks \in Nat
  BY MotorControlAssumption DEF TypeOK
<1>2. /\ pc = "calibration" /\ pc' = "bench"
      /\ UNCHANGED <<link_age, control_failsafe, rail_cut>>
  BY DEF CalibrationTick, SweepIdle, SweepEnd, SweepNoise, SweepLevel, CalibrationFrame,
         linkVars, permitVars
<1>3. /\ SweepNow.active = (sweep.active \/ SweepGranted)
      /\ SweepNow.phase = sweep.phase /\ SweepNow.noise_left = sweep.noise_left
      /\ SweepNow.touched = (sweep.touched /\ ~SweepGranted)
      /\ SweepGranted => ~sweep.active
      /\ SweepNow \in Sweep
  BY <1>1
  DEF SweepNow, SweepGranted, SweepAsked, SweepReady, CalLinkAlive, Sweep, TypeOK, AutoOut
<1>4. CASE SweepIdle
  BY <1>1, <1>2, <1>3, <1>4 DEF SweepIdle, SweepInv, SweepQuiet, SweepRemoved, Deciding, Sweep
<1>5. CASE SweepEnd
  <2>1. /\ sweep'.active = FALSE /\ sweep'.phase = "noise" /\ sweep'.noise_left = NoiseTicks
    BY <1>3, <1>5 DEF SweepEnd, SweepEnded, Sweep
  <2>2. QED BY <2>1 DEF SweepInv, SweepQuiet, SweepRemoved
<1>6. CASE SweepNoise
  <2>1. esc'.thrust = "off"
    BY <1>1, <1>6 DEF SweepNoise, SweepMustEnd, SetThrottle, Esc
  <2>2. /\ sweep'.active = SweepNow.active /\ sweep'.touched = SweepNow.touched
        /\ sweep'.noise_left = sweep.noise_left
        /\ sweep'.phase = IF sweep.active /\ sweep.noise_left = 0 THEN "level" ELSE "noise"
    BY <1>3, <1>6 DEF SweepNoise, Sweep
  <2>3. SweepNow.active
    BY <1>6 DEF SweepNoise
  <2>4. link_age + sweep.noise_left >= LinkTimeout \/ SweepNow.touched
    <3>1. CASE sweep.active
      BY <1>3, <3>1 DEF SweepInv, SweepQuiet
    <3>2. CASE ~sweep.active
      BY <1>1, <3>2 DEF SweepInv, SweepQuiet
    <3>3. QED BY <3>1, <3>2
  <2>5. QED
    BY <1>2, <2>1, <2>2, <2>3, <2>4 DEF SweepInv, SweepQuiet, SweepRemoved, Deciding
<1>7. CASE SweepLevel
  <2>1. /\ sweep' = SweepNow /\ sweep.phase = "level" /\ ~SweepNow.touched
    BY <1>7 DEF SweepLevel, SweepMustEnd
  <2>2. sweep.active /\ ~SweepGranted /\ ~sweep.touched
    BY <1>3, <2>1 DEF SweepInv, SweepQuiet
  <2>3. control_failsafe
    BY <1>2, <2>1, <2>2 DEF SweepInv, SweepQuiet
  <2>4. QED
    BY <1>2, <1>3, <2>1, <2>2, <2>3 DEF SweepInv, SweepQuiet, SweepRemoved, Deciding
<1>8. QED BY <1>4, <1>5, <1>6, <1>7 DEF CalibrationTick

(* The manual path: a sweep's throttle survives it in a cycle that takes a *)
(* PWR-OFF, or acts on a decision older than the command that came.        *)
LEMMA OutputsKeepSweep ==
  ASSUME TypeOK, BenchInv, MissionExcludesOthers, SweepInv, ApplyOutputs
  PROVE  SweepInv'
<1>1. /\ sweep \in Sweep /\ esc \in Esc
      /\ link_age \in 0 .. LinkTimeout /\ LinkTimeout \in Nat
  BY MotorControlAssumption DEF TypeOK
<1>2. /\ pc = "outputs" /\ pc' = "calibration"
      /\ UNCHANGED <<link_age, control_failsafe, sweep>>
  BY DEF ApplyOutputs, ApplyPowerOff, ApplySafeStop, ApplyManual, OutputsFrame, linkVars
<1>3. SweepQuiet'
  BY <1>2 DEF SweepInv, SweepQuiet, Deciding
<1>4. ASSUME sweep.active, esc'.thrust = "sweep"
      PROVE  /\ sweep.phase = "level"
             /\ rail_cut' \/ (sweep.touched /\ control_failsafe)
  <2>1. ~auto_out.own
    BY <1>4 DEF MissionExcludesOthers
  <2>2. CASE ApplyPowerOff
    BY <1>4, <2>2 DEF ApplyPowerOff, SweepInv, SweepRemoved
  <2>3. CASE ApplySafeStop
    BY <1>1, <1>4, <2>1, <2>3 DEF ApplySafeStop, SetThrottle, Esc, BenchInv
  <2>4. CASE ApplyManual
    <3>1. PICK moved \in BOOLEAN :
            esc' = IF (decision.drive_changed \/ moved) /\ ~auto_out.own
                     THEN SetThrottle(esc, StickThrust) ELSE esc
      BY <2>4 DEF ApplyManual
    <3>2. /\ esc.thrust = "sweep" /\ esc.state = "armed"
          /\ ~decision.drive_changed
      BY <1>1, <1>4, <2>1, <3>1 DEF SetThrottle, StickThrust, Esc, BenchInv
    <3>3. LinkAlive
      BY <2>4, <3>2 DEF ApplyManual, SafeStop
    <3>4. sweep.phase = "level" /\ control_failsafe
      BY <1>2, <1>4, <3>2 DEF SweepInv, SweepRemoved, Deciding
    <3>5. sweep.touched
      BY <1>1, <1>4, <3>3, <3>4 DEF SweepInv, SweepQuiet, LinkAlive
    <3>6. QED BY <3>4, <3>5
  <2>5. QED BY <2>2, <2>3, <2>4 DEF ApplyOutputs
<1>5. QED BY <1>2, <1>3, <1>4 DEF SweepInv, SweepRemoved, Deciding

LEMMA SweepStep ==
  ASSUME NoiseTicks >= LinkTimeout
  PROVE  TypeOK /\ BenchInv /\ MissionExcludesOthers /\ SweepInv /\ [Next]_vars => SweepInv'
<1>1. SUFFICES ASSUME TypeOK, BenchInv, MissionExcludesOthers, SweepInv, [Next]_vars
               PROVE  SweepInv'
  OBVIOUS
<1>2. sweep \in Sweep /\ decision \in Decision
      /\ link_age \in 0 .. LinkTimeout /\ LinkTimeout \in Nat
  BY <1>1, MotorControlAssumption DEF TypeOK
<1>3. CASE CalibrationTick
  BY <1>1, <1>3, CalibrationKeepsSweep
<1>4. CASE ApplyOutputs
  BY <1>1, <1>4, OutputsKeepSweep
<1>5. CASE CycleBegin
  <2>1. /\ pc = "idle" /\ pc' = "auto"
        /\ control_failsafe' = ~LinkAlive
        /\ decision'.drive_changed = TRUE \/ control_failsafe = ~LinkAlive
        /\ UNCHANGED <<esc, sweep, link_age>>
    <3>1. Decide(arbiter) \in Decision
      BY <1>1, DecideType DEF TypeOK, ArbiterOK
    <3>2. QED BY <1>5, <3>1 DEF CycleBegin, Decision
  <2>2. SweepQuiet'
    <3>1. sweep.phase = "level" /\ ~sweep.touched => ~LinkAlive
      BY <1>1, <1>2 DEF SweepInv, SweepQuiet, LinkAlive, Sweep
    <3>2. QED BY <1>1, <2>1, <3>1 DEF SweepInv, SweepQuiet
  <2>3. SweepRemoved'
    BY <1>1, <2>1 DEF SweepInv, SweepRemoved, Deciding
  <2>4. QED BY <2>2, <2>3 DEF SweepInv
<1>6. CASE AutoDecide \/ TakeArmAction \/ ApplyBegin \/ ApplyComplete \/ ApplyDisarm
  <2>1. /\ pc \in Deciding /\ pc' \in Deciding
        /\ decision'.drive_changed = decision.drive_changed
        /\ UNCHANGED <<sweep, link_age, control_failsafe>>
    BY <1>2, <1>6
    DEF AutoDecide, TakeArmAction, ApplyBegin, ApplyComplete, ApplyDisarm, ApplyFrame,
        Deciding, localVars, linkVars, Decision
  <2>2. esc'.thrust \in {esc.thrust, "off"}
    BY <1>1, <1>6
    DEF AutoDecide, TakeArmAction, ApplyBegin, ApplyComplete, ApplyDisarm, ArmBegin,
        ArmComplete, Disarm, TypeOK, Esc
  <2>3. QED BY <1>1, <2>1, <2>2 DEF SweepInv, SweepQuiet, SweepRemoved, Deciding
<1>7. CASE BenchTick \/ AutoTick
  <2>1. /\ pc \in {"bench", "auto_tick"} /\ pc' \in {"auto_tick", "idle"}
        /\ UNCHANGED <<sweep, link_age, control_failsafe>>
    BY <1>7
    DEF BenchTick, BenchStop, BenchIdle, BenchStart, BenchRun, BenchFail, BenchFinish,
        BenchFrame, AutoTick, linkVars
  <2>2. esc'.thrust = "sweep" => esc.thrust = "sweep"
    BY <1>1, <2>1, ThrustSteps DEF ApplyManual, OutputsFrame, SweepLevel, CalibrationFrame
  <2>3. QED BY <1>1, <2>1, <2>2 DEF SweepInv, SweepQuiet, SweepRemoved, Deciding
<1>8. CASE ArmSeqTask \/ Handlers \/ OtherTasks \/ Tick \/ UNCHANGED vars
  <2>1. UNCHANGED <<pc, decision, esc, control_failsafe, rail_cut>>
    BY <1>8, OthersFrame
  <2>2. /\ sweep'.active = sweep.active /\ sweep'.phase = sweep.phase
        /\ sweep.active /\ sweep.touched => sweep'.touched
        /\ sweep.noise_left = 0 => sweep'.noise_left = 0
        /\ ~sweep.active => sweep'.noise_left = sweep.noise_left
        /\ sweep.active /\ ~sweep'.touched => link_age' + sweep'.noise_left >= LinkTimeout
    BY <1>1, <1>8, OthersTouchSweep DEF SweepInv
  <2>3. QED BY <1>1, <2>1, <2>2 DEF SweepInv, SweepQuiet, SweepRemoved
<1>9. QED BY <1>1, <1>3, <1>4, <1>5, <1>6, <1>7, <1>8 DEF Next, ControlStep

(* Although the end of a sweep writes no throttle, none of the sweep's is  *)
(* left on the jets but in the two cases the property names, if the noise  *)
(* phase is at least as long as the link's timeout.  The shipped           *)
(* configuration (motor_control.c:112) makes it 1 s against 400 ms, but    *)
(* its range in Kconfig.projbuild:620 begins at 100 ms.                    *)
THEOREM SweepReleased ==
  ASSUME NoiseTicks >= LinkTimeout
  PROVE  Spec \/ ArmedSpec => SweepThrustReleased
<1> DEFINE Released ==
      pc = "calibration" /\ sweep.active /\ ~sweep'.active
        => \/ esc'.thrust # "sweep"
           \/ sweep.touched /\ control_failsafe
           \/ rail_cut
<1>1. Init \/ ArmedInit => BenchInv /\ MissionExcludesOthers /\ SweepInv
  BY DEF Init, ArmedInit, QuietInit, EscInit, AutoOutInit, BenchInv, MissionExcludesOthers,
         SweepInv, SweepQuiet, SweepRemoved
<1>2. TypeOK /\ SweepInv /\ [Next]_vars => Released
  <2>1. SUFFICES ASSUME TypeOK, SweepInv, [Next]_vars, pc = "calibration", sweep.active,
                        ~sweep'.active, esc'.thrust = "sweep"
                 PROVE  rail_cut \/ (sweep.touched /\ control_failsafe)
    OBVIOUS
  <2>2. ~SweepLevel
    <3>1. sweep \in Sweep
      BY <2>1 DEF TypeOK
    <3>2. QED BY <2>1, <3>1 DEF SweepLevel
  <2>3. esc.thrust = "sweep"
    BY <2>1, <2>2, ThrustSteps
    DEF ApplyManual, OutputsFrame, BenchRun, BenchFrame, AutoTick
  <2>4. QED BY <2>1, <2>3 DEF SweepInv, SweepRemoved
<1>3. QED
  BY <1>1, <1>2, SweepStep, BenchInvStep, MissionStep, TypeCorrect, PTL
  DEF Spec, ArmedSpec, SweepThrustReleased

-------------------------------------------------------------------------------
(* Missions, over the specification with its history.                      *)

HistoryNext == Next /\ HistoryStep

LEMMA HistorySteps ==
  ASSUME [HistoryNext]_<<vars, historyVars>>
  PROVE  [Next]_vars /\ (HistoryStep \/ UNCHANGED <<vars, historyVars>>)
  BY DEF HistoryNext

(* Every behaviour with a history is one of the armed boat.                *)
LEMMA HistoryKeepsSpec == HistorySpec => ArmedSpec
<1>1. [HistoryNext]_<<vars, historyVars>> => [Next]_vars
  BY HistorySteps
<1>2. QED BY <1>1, PTL DEF HistorySpec, ArmedSpec, HistoryNext

(* Only two steps of a cycle change who owns the jets, or owe them a zero. *)
LEMMA MissionFrame ==
  ASSUME [Next]_vars, ~AutoDecide
  PROVE  /\ UNCHANGED <<auto_out, aborted_run>>
         /\ AutoTick \/ UNCHANGED release_zero
<1>1. CASE ControlStep
  BY <1>1
  DEF ControlStep, CycleBegin, TakeArmAction, ApplyBegin, ApplyComplete, ApplyDisarm,
      ApplyFrame, ApplyOutputs, ApplyPowerOff, ApplySafeStop, ApplyManual, OutputsFrame,
      CalibrationTick, SweepIdle, SweepEnd, SweepNoise, SweepLevel, CalibrationFrame, BenchTick,
      BenchStop, BenchIdle, BenchStart, BenchRun, BenchFail, BenchFinish, BenchFrame, AutoTick,
      autoVars
<1>2. CASE ArmSeqTask \/ Handlers \/ OtherTasks \/ Tick \/ UNCHANGED vars
  BY <1>2, OthersFrame
<1>3. QED BY <1>1, <1>2 DEF Next

(* Run ids only grow, so that remembering the last aborted one is enough.  *)
RunInv ==
  /\ \A run \in aborted_runs : run <= aborted_run
  /\ aborted_runs \subseteq Nat
  /\ aborted_run <= setpoint.run_id
  /\ auto_out.own => auto_out.run_id > aborted_run

LEMMA RunIdsGrow ==
  ASSUME TypeOK, [Next]_vars
  PROVE  setpoint'.run_id >= setpoint.run_id
<1>1. setpoint \in Setpoint /\ setpoint.run_id \in Nat
  BY AutoDriveAssumption DEF TypeOK, Setpoint
<1>2. CASE UNCHANGED setpoint
  BY <1>1, <1>2
<1>3. CASE PublishSetpoint
  <2>1. PICK run \in {setpoint.run_id, setpoint.run_id + 1} \cap (0 .. MaxRuns),
             active, drive, dry \in BOOLEAN :
          setpoint' = [run_id |-> run, active |-> active, drive |-> drive,
                       dry_run |-> dry /\ run # 0, age |-> 0]
    BY <1>3 DEF PublishSetpoint
  <2>2. QED BY <1>1, <2>1
<1>4. CASE Tick
  BY <1>1, <1>4 DEF Tick, AgeSetpoint, Setpoint
<1>5. CASE ControlStep
  BY <1>2, <1>5, CycleFrame DEF CycleBegin, autoVars
<1>6. CASE ArmSeqTask \/ Handlers \/ (OtherTasks /\ ~PublishSetpoint) \/ UNCHANGED vars
  BY <1>2, <1>6
  DEF ArmSeqTask, ArmSeqReceive, ArmSeqTimeout, ArmSeqStep, ArmSeqFrame, Handlers,
      MotorCommand, WinchCommand, SteerCommand, EventCommand, CalibrateCommand, BenchCommand,
      MissionStop, HandlerFrame, OtherTasks, CompassClaim, CompassCheck, CompassEnd,
      CompassFrame, BenchFlush, vars, autoVars
<1>7. QED BY <1>3, <1>4, <1>5, <1>6 DEF Next

LEMMA RunStep ==
  TypeOK /\ TypeOK' /\ RunInv /\ [HistoryNext]_<<vars, historyVars>> => RunInv'
<1>1. SUFFICES ASSUME TypeOK, TypeOK', RunInv, [HistoryNext]_<<vars, historyVars>>
               PROVE  RunInv'
  OBVIOUS
<1>2. [Next]_vars
  BY <1>1, HistorySteps
<1>3. /\ setpoint.run_id \in Nat /\ setpoint'.run_id \in Nat
      /\ aborted_run \in Nat /\ aborted_run' \in Nat
      /\ setpoint'.run_id >= setpoint.run_id
  BY <1>1, <1>2, RunIdsGrow, AutoDriveAssumption DEF TypeOK, Setpoint
<1>4. /\ aborted_run' >= aborted_run /\ aborted_run' <= setpoint'.run_id
      /\ auto_out'.own => auto_out'.run_id > aborted_run'
  <2>1. CASE AutoDecide
    <3>1. /\ auto_out' = AutoStep(setpoint, aborted_run, AutoInputs)
          /\ aborted_run' = IF auto_out'.abort # "NONE" THEN setpoint.run_id ELSE aborted_run
          /\ setpoint' = setpoint
      BY <2>1 DEF AutoDecide
    <3>2. CASE Offered(setpoint, aborted_run)
      <4>1. /\ auto_out'.run_id = setpoint.run_id
            /\ auto_out'.own => auto_out'.abort = "NONE"
            /\ setpoint.run_id > aborted_run
        <5>1. setpoint.run_id > aborted_run
          BY <1>1, <1>3, <3>2 DEF Offered, RunInv
        <5>2. auto_out'.run_id = setpoint.run_id
          BY <3>1, <3>2 DEF AutoStep
        <5>3. auto_out'.own = (AbortFor(setpoint, AutoInputs) = "NONE")
          BY <3>1, <3>2 DEF AutoStep
        <5>4. auto_out'.abort = AbortFor(setpoint, AutoInputs)
          BY <3>1, <3>2 DEF AutoStep
        <5>5. QED BY <5>1, <5>2, <5>3, <5>4
      <4>2. QED BY <1>1, <1>3, <3>1, <4>1 DEF RunInv
    <3>3. CASE ~Offered(setpoint, aborted_run)
      BY <1>1, <1>3, <3>1, <3>3 DEF AutoStep, AutoOutInit, RunInv
    <3>4. QED BY <3>2, <3>3
  <2>2. CASE ~AutoDecide
    BY <1>1, <1>2, <1>3, <2>2, MissionFrame DEF RunInv
  <2>3. QED BY <2>1, <2>2
<1>5. aborted_runs' \subseteq aborted_runs \cup {aborted_run'}
  BY <1>1, HistorySteps DEF HistoryStep, historyVars
<1>6. QED BY <1>1, <1>3, <1>4, <1>5 DEF RunInv

(* A run the control task aborted never owns the jets again, although only *)
(* the last aborted id is kept.                                            *)
THEOREM AbortedRunsStayOver == HistorySpec => []AbortedRunIsOver
<1>1. ArmedInit /\ HistoryInit => RunInv
  BY DEF ArmedInit, QuietInit, HistoryInit, SetpointInit, AutoOutInit, RunInv
<1>2. TypeOK /\ RunInv => AbortedRunIsOver
  <2>1. SUFFICES ASSUME TypeOK, RunInv, auto_out.own, auto_out.run_id \in aborted_runs
                 PROVE  FALSE
    BY DEF AbortedRunIsOver
  <2>2. auto_out.run_id \in Nat /\ aborted_run \in Nat
    BY <2>1, AutoDriveAssumption DEF TypeOK, AutoOut
  <2>3. QED BY <2>1, <2>2 DEF RunInv
<1>3. QED
  BY <1>1, <1>2, RunStep, HistoryKeepsSpec, TypeCorrect, PTL DEF HistorySpec, HistoryNext

(* A mission that has let go of the jets owes them one zero until the end  *)
(* of the cycle it let go in, unless a manual command ended it.            *)
ReleaseInv ==
  esc.thrust = "mission" =>
    \/ auto_out.own
    \/ ended_by = "MANUAL"
    \/ release_zero /\ pc \notin {"idle", "auto"}

LEMMA ReleaseStep ==
  TypeOK /\ BenchInv /\ ReleaseInv /\ [HistoryNext]_<<vars, historyVars>> => ReleaseInv'
<1>1. SUFFICES ASSUME TypeOK, BenchInv, ReleaseInv, [HistoryNext]_<<vars, historyVars>>
               PROVE  ReleaseInv'
  OBVIOUS
<1>2. [Next]_vars /\ esc \in Esc /\ auto_out \in AutoOut
  BY <1>1, HistorySteps DEF TypeOK
<1>3. \/ UNCHANGED <<auto_out, ended_by>>
      \/ ended_by' = IF auto_out.own /\ ~auto_out'.own THEN auto_out'.abort ELSE ended_by
  BY <1>1, HistorySteps DEF HistoryStep, historyVars, vars, autoVars
<1>4. CASE AutoDecide
  <2>1. /\ release_zero' = ReleaseZero(auto_out, auto_out')
        /\ pc = "auto" /\ pc' = "action" /\ esc' = esc
    BY <1>4 DEF AutoDecide
  <2>2. auto_out'.own \in BOOLEAN
    BY <1>1, <1>4, AutoDecideType DEF TypeOK, AutoOut
  <2>3. QED BY <1>1, <1>2, <1>3, <2>1, <2>2 DEF ReleaseInv, ReleaseZero, AutoOut
<1>5. CASE AutoTick
  <2>1. UNCHANGED auto_out /\ ended_by' = ended_by
    BY <1>3, <1>5 DEF AutoTick
  <2>2. CASE auto_out.own
    BY <2>1, <2>2 DEF ReleaseInv
  <2>3. CASE ~auto_out.own /\ release_zero
    <3>1. esc' = SetThrottle(esc, "off")
      BY <1>5, <2>3 DEF AutoTick
    <3>2. esc'.thrust = "off"
      BY <1>1, <1>2, <3>1 DEF SetThrottle, Esc, BenchInv
    <3>3. QED BY <3>2 DEF ReleaseInv
  <2>4. CASE ~auto_out.own /\ ~release_zero
    BY <1>1, <1>5, <2>1, <2>4 DEF AutoTick, ReleaseInv
  <2>5. QED BY <2>2, <2>3, <2>4
<1>6. CASE ~AutoDecide /\ ~AutoTick
  <2>1. UNCHANGED <<auto_out, release_zero>> /\ ended_by' = ended_by
    BY <1>2, <1>3, <1>6, MissionFrame
  <2>2. esc'.thrust = "mission" => esc.thrust = "mission"
    BY <1>1, <1>2, <1>6, ThrustSteps DEF StickThrust
  <2>3. pc \notin {"idle", "auto"} => pc' \notin {"idle", "auto"}
    <3>1. CASE ControlStep
      BY <1>6, <3>1
      DEF ControlStep, CycleBegin, TakeArmAction, ApplyBegin, ApplyComplete, ApplyDisarm,
          ApplyFrame, ApplyOutputs, ApplyPowerOff, ApplySafeStop, ApplyManual, OutputsFrame,
          CalibrationTick, SweepIdle, SweepEnd, SweepNoise, SweepLevel, CalibrationFrame,
          BenchTick, BenchStop, BenchIdle, BenchStart, BenchRun, BenchFail, BenchFinish,
          BenchFrame
    <3>2. CASE ~ControlStep
      BY <1>2, <3>2, OthersFrame DEF Next
    <3>3. QED BY <3>1, <3>2
  <2>4. QED BY <1>1, <2>1, <2>2, <2>3 DEF ReleaseInv
<1>7. QED BY <1>4, <1>5, <1>6

(* Whatever ended the mission but a manual command, the cycle it let go in *)
(* takes its throttle off the jets, and nothing writes it again.           *)
THEOREM MissionReleases == HistorySpec => []MissionThrustReleased
<1>1. ArmedInit /\ HistoryInit => BenchInv /\ ReleaseInv
  BY DEF ArmedInit, QuietInit, EscInit, BenchInv, ReleaseInv
<1>2. ReleaseInv => MissionThrustReleased
  BY DEF ReleaseInv, MissionThrustReleased
<1>3. [HistoryNext]_<<vars, historyVars>> => [Next]_vars
  BY HistorySteps
<1>4. QED
  BY <1>1, <1>2, <1>3, ReleaseStep, BenchInvStep, HistoryKeepsSpec, TypeCorrect, PTL
  DEF HistorySpec, HistoryNext
===============================================================================
