---------------------------- MODULE AutonomyProofs -----------------------------
(***************************************************************************)
(* Theorems about the mission and the tasks around it, for any number of   *)
(* runs, requests and samples, and any situation the boat may be in: what  *)
(* the operator is promised of a run (the refinement of MissionRuns), and  *)
(* what the record of a run holds.                                         *)
(***************************************************************************)
EXTENDS AutonomyProperties, TLAPS

(***************************************************************************)
(* mission_step, as far as run, request and phase go.                      *)
(***************************************************************************)
(* The mission's record, without the bounds.                               *)
MissionOK(m) ==
  m \in [ state : MissionState, reason : MissionReason, run_id : Nat, request_id : 0 .. MaxRequests,
          stage : Stage, dry_run : BOOLEAN, home_n : Nat, frozen_count : Nat,
          outlier_run : Nat, confirmed : [ArrivalRule -> Nat] ]

(* n is m, a step later: the same run, and the phase kept, left for the    *)
(* next one or for the end.                                                *)
Follows(m, n) ==
  /\ MissionOK(n)
  /\ n.run_id = m.run_id /\ n.request_id = m.request_id /\ n.dry_run = m.dry_run
  /\ \/ n.state = m.state
     \/ n.state \in {"DONE", "ABORTED"}
     \/ m.state = "HOME" /\ n.state = "OUTBOUND"
     \/ m.state = "OUTBOUND" /\ n.state = "TURN"
     \/ m.state = "TURN" /\ n.state = "RETURN"

InputOK(in) ==
  /\ in.request_id \in 0 .. MaxRequests
  /\ in.stage \in Stage /\ in.dry_run \in BOOLEAN
  /\ in.abort_reason \in AbortReason

LEMMA Reasons ==
  /\ {"HOME_NOT_STILL", "OUT_REACHED", "TURNED"} \subseteq MissionReason
  /\ \A m, at : Arrived(Confirmed(m, at)) \in MissionReason
  /\ \A in, at : Refusal(in, at) \in MissionReason
  /\ \A m, in, at : InputOK(in) => StepAbort(m, in, at) \in MissionReason
<1>1. \A c : Arrived(c) \in {"zone", "passed", "slipping", "NONE"}
  BY DEF Arrived
<1>2. \A in, at : Refusal(in, at) \in {"SETTINGS", "BUSY", "NOT_ARMED", "NOT_READY", "NONE"}
  BY DEF Refusal
<1>3. \A m, in, at : StepAbort(m, in, at) \in
        {in.abort_reason, "STOP", "GPS_LOST", "HEADING_LOST", "GPS_FROZEN", "SPIN", "NONE"}
  BY DEF StepAbort
<1>4. QED BY <1>1, <1>2, <1>3 DEF MissionReason, AbortReason, InputOK

LEMMA FinishFollows ==
  ASSUME NEW m, NEW n, MissionOK(m), Follows(m, n),
         NEW state \in {"DONE", "ABORTED"}, NEW reason \in MissionReason
  PROVE  /\ Follows(m, Finish(n, state, reason))
         /\ Finish(n, state, reason).state = state
<1> DEFINE f == Finish(n, state, reason)
<1>1. MissionOK(n)
  BY DEF Follows
<1>2. MissionOK(f)
  BY <1>1 DEF MissionOK, Finish, MissionState
<1>3. f.state = state /\ f.run_id = n.run_id /\ f.request_id = n.request_id /\ f.dry_run = n.dry_run
  BY <1>1 DEF MissionOK, Finish
<1>4. QED BY <1>2, <1>3 DEF Follows

LEMMA UpdateFollows ==
  ASSUME NEW m, MissionOK(m), NEW at
  PROVE  Follows(m, UpdatePosition(m, at)) /\ UpdatePosition(m, at).state = m.state
<1> DEFINE frozen == IF at.still THEN m.frozen_count + 1 ELSE 0
           outlier == IF GoodFix(m, at) THEN 0 ELSE m.outlier_run + 1
<1>1. frozen \in Nat /\ outlier \in Nat
  BY DEF MissionOK
<1>2. UpdatePosition(m, at) = [m EXCEPT !.frozen_count = frozen, !.outlier_run = outlier]
  BY DEF UpdatePosition
<1> HIDE DEF frozen, outlier
<1>3. QED BY <1>1, <1>2 DEF Follows, MissionOK

LEMMA HomeFollows ==
  ASSUME NEW m, MissionOK(m), m.state = "HOME", NEW at
  PROVE  /\ Follows(m, StepHome(m, at))
         /\ m.home_n = 0 => StepHome(m, at).state \in {"HOME", "ABORTED"}
<1>1. Follows(m, m)
  BY DEF Follows
<1>2. ASSUME NEW k \in Nat
      PROVE  LET n == [m EXCEPT !.home_n = k] IN Follows(m, n) /\ n.state = "HOME"
  BY <1>2 DEF Follows, MissionOK
<1>3. ASSUME NEW n, Follows(m, n), n.state = "HOME"
      PROVE  Follows(m, HomeTimeout(n, at)) /\ HomeTimeout(n, at).state \in {"HOME", "ABORTED"}
  BY <1>3, FinishFollows, Reasons DEF HomeTimeout
<1>4. m.home_n + 1 \in Nat /\ 0 \in Nat /\ HomeFixes \in Nat /\ 1 < HomeFixes
  BY MissionAssumption DEF MissionOK
<1>5. CASE ~at.gps_new
  BY <1>1, <1>3, <1>5 DEF StepHome
<1>6. CASE at.gps_new /\ m.home_n + 1 < HomeFixes
  <2>1. StepHome(m, at) = HomeTimeout([m EXCEPT !.home_n = m.home_n + 1], at)
    BY <1>6 DEF StepHome
  <2>2. QED BY <1>2, <1>3, <1>4, <2>1
<1>7. CASE at.gps_new /\ ~(m.home_n + 1 < HomeFixes)
  <2>1. m.home_n # 0
    BY <1>4, <1>7
  <2>2. CASE at.together
    <3>1. StepHome(m, at) = [m EXCEPT !.state = "OUTBOUND", !.home_n = HomeFixes]
      BY <1>7, <2>2 DEF StepHome
    <3>2. Follows(m, StepHome(m, at))
      BY <1>4, <3>1 DEF Follows, MissionOK, MissionState, Leg
    <3>3. QED BY <2>1, <3>2
  <2>3. CASE ~at.together
    <3>1. StepHome(m, at) = HomeTimeout([m EXCEPT !.home_n = 0], at)
      BY <1>7, <2>3 DEF StepHome
    <3>2. QED BY <1>2, <1>3, <1>4, <2>1, <3>1
  <2>4. QED BY <2>2, <2>3
<1>8. QED BY <1>5, <1>6, <1>7

LEMMA LegFollows ==
  ASSUME NEW m, MissionOK(m), MissionActive(m), NEW at
  PROVE  Follows(m, StepLeg(m, at))
<1>0. Follows(m, m)
  BY DEF Follows
<1>1. CASE m.state = "HOME"
  BY <1>1, HomeFollows DEF StepLeg
<1>2. CASE m.state = "OUTBOUND"
  <2>1. StepLeg(m, at) = StepOutbound(m, at)
    BY <1>2 DEF StepLeg
  <2>2. Follows(m, [UpdatePosition(m, at) EXCEPT !.state = "TURN"])
    BY <1>2, UpdateFollows DEF Follows, MissionOK, MissionState, Leg
  <2> DEFINE u == UpdatePosition(m, at)
  <2>3. Follows(m, u) /\ Follows(m, Finish(u, "DONE", "OUT_REACHED"))
    BY UpdateFollows, FinishFollows, Reasons
  <2>4. StepOutbound(m, at) \in {m, u, Finish(u, "DONE", "OUT_REACHED"), [u EXCEPT !.state = "TURN"]}
    BY DEF StepOutbound
  <2>5. QED BY <1>0, <2>1, <2>2, <2>3, <2>4
<1>3. CASE m.state = "TURN"
  <2> DEFINE moved == IF at.gps_new THEN UpdatePosition(m, at) ELSE m
  <2>1. StepLeg(m, at) = StepTurn(m, at)
    BY <1>3 DEF StepLeg
  <2>2. Follows(m, moved)
    BY <1>0, UpdateFollows
  <2> DEFINE turned == [moved EXCEPT !.state = "RETURN", !.confirmed = NotConfirmed]
  <2>a. StepTurn(m, at) \in {moved, Finish(moved, "DONE", "TURNED"), turned}
    BY DEF StepTurn
  <2>b. NotConfirmed \in [ArrivalRule -> Nat]
    BY DEF NotConfirmed
  <2>3. Follows(m, turned)
    <3> HIDE DEF moved
    <3>1. MissionOK(turned)
      BY <2>2, <2>b DEF Follows, MissionOK, MissionState, Leg
    <3>2. /\ turned.state = "RETURN" /\ turned.run_id = moved.run_id
          /\ turned.request_id = moved.request_id /\ turned.dry_run = moved.dry_run
      BY <2>2 DEF Follows, MissionOK
    <3>3. QED BY <1>3, <2>2, <3>1, <3>2 DEF Follows
  <2>4. Follows(m, Finish(moved, "DONE", "TURNED"))
    BY <2>2, FinishFollows, Reasons
  <2>5. QED BY <2>1, <2>2, <2>3, <2>4, <2>a
<1>4. CASE m.state = "RETURN"
  <2> DEFINE counted == [UpdatePosition(m, at) EXCEPT !.confirmed = Confirmed(m, at)]
             rule == Arrived(counted.confirmed)
  <2>1. StepLeg(m, at) = StepReturn(m, at)
    BY <1>4 DEF StepLeg
  <2>a. Confirmed(m, at) \in [ArrivalRule -> Nat]
    BY DEF Confirmed, MissionOK
  <2>2. Follows(m, counted) /\ counted.confirmed = Confirmed(m, at)
    <3> DEFINE u == UpdatePosition(m, at)
    <3>1. Follows(m, u) /\ u.state = m.state
      BY UpdateFollows
    <3> HIDE DEF u
    <3>2. MissionOK([u EXCEPT !.confirmed = Confirmed(m, at)])
      BY <2>a, <3>1 DEF Follows, MissionOK
    <3>3. LET c == [u EXCEPT !.confirmed = Confirmed(m, at)] IN
          /\ c.state = u.state /\ c.run_id = u.run_id /\ c.request_id = u.request_id
          /\ c.dry_run = u.dry_run /\ c.confirmed = Confirmed(m, at)
      BY <3>1 DEF Follows, MissionOK
    <3>4. QED BY <3>1, <3>2, <3>3 DEF Follows, u
  <2>b. rule \in MissionReason
    BY <2>2, Reasons
  <2>3. Follows(m, Finish(counted, "DONE", rule))
    BY <2>2, <2>b, FinishFollows
  <2>4. StepReturn(m, at) \in {m, UpdatePosition(m, at), counted, Finish(counted, "DONE", rule)}
    BY DEF StepReturn
  <2>5. QED BY <1>0, <2>1, <2>2, <2>3, <2>4, UpdateFollows
<1>5. QED BY <1>1, <1>2, <1>3, <1>4 DEF MissionActive, Leg

LEMMA ActiveFollows ==
  ASSUME NEW m, MissionOK(m), NEW in, InputOK(in), NEW at
  PROVE  /\ Follows(m, StepActive(m, in, at))
         /\ ~MissionActive(m) => StepActive(m, in, at) = m
         /\ MissionActive(m) /\ m.state = "HOME" /\ m.home_n = 0
              => StepActive(m, in, at).state \in {"HOME", "ABORTED"}
<1>1. Follows(m, m)
  BY DEF Follows
<1>2. CASE ~MissionActive(m)
  BY <1>1, <1>2 DEF StepActive
<1>3. CASE MissionActive(m) /\ StepAbort(m, in, at) # "NONE"
  BY <1>1, <1>3, FinishFollows, Reasons DEF StepActive
<1>4. CASE MissionActive(m) /\ StepAbort(m, in, at) = "NONE"
  <2>1. StepActive(m, in, at) = StepLeg(m, at)
    BY <1>4 DEF StepActive
  <2>2. m.state = "HOME" => StepLeg(m, at) = StepHome(m, at)
    BY DEF StepLeg
  <2>3. QED BY <1>4, <2>1, <2>2, LegFollows, HomeFollows
<1>5. QED BY <1>2, <1>3, <1>4

(* A START that is taken begins the next run, in HOME or over at once.     *)
LEMMA StepFollows ==
  ASSUME NEW m, MissionOK(m), NEW in, InputOK(in), NEW at
  PROVE  LET n == MissionStep(m, in, at) IN
         /\ MissionOK(n)
         /\ ~StartTaken(m, in) => Follows(m, n) /\ (~MissionActive(m) => n = m)
         /\ StartTaken(m, in) =>
              /\ n.run_id = m.run_id + 1 /\ n.request_id = in.request_id
              /\ n.state \in {"HOME", "ABORTED", "REFUSED"}
              /\ n.state = "HOME" => ~in.saving
<1> DEFINE n == MissionStep(m, in, at)
           h == HandleStart(m, in, at)
<1>1. CASE ~StartTaken(m, in)
  <2>1. h = m
    BY <1>1 DEF HandleStart
  <2>2. n = StepActive(m, in, at)
    BY <2>1 DEF MissionStep
  <2>3. QED BY <1>1, <2>2, ActiveFollows DEF Follows
<1>2. CASE StartTaken(m, in)
  <2>1. /\ MissionOK(NewRun(m, in)) /\ NewRun(m, in).run_id = m.run_id + 1
        /\ NewRun(m, in).request_id = in.request_id /\ NewRun(m, in).home_n = 0
    <3>1. MissionOK(MissionInit) /\ MissionInit.home_n = 0
      <4>1. NotConfirmed \in [ArrivalRule -> Nat] /\ "NONE" \in MissionReason /\ 0 \in 0 .. MaxRequests
        BY MissionAssumption DEF NotConfirmed, MissionReason, AbortReason
      <4>2. QED BY <4>1 DEF MissionOK, MissionInit, MissionState, Stage
    <3>2. m.run_id + 1 \in Nat
      BY DEF MissionOK
    <3>3. QED BY <3>1, <3>2 DEF InputOK, MissionOK, NewRun
  <2>2. CASE Refusal(in, at) # "NONE"
    <3>1. h = Finish(NewRun(m, in), "REFUSED", Refusal(in, at))
      BY <1>2, <2>2 DEF HandleStart
    <3>2. /\ MissionOK(h) /\ h.run_id = m.run_id + 1 /\ h.request_id = in.request_id
          /\ h.state = "REFUSED"
      <4>1. Refusal(in, at) \in MissionReason
        BY Reasons
      <4>2. QED BY <2>1, <3>1, <4>1 DEF MissionOK, Finish, MissionState
    <3>3. n = h
      BY <3>2, ActiveFollows DEF MissionStep, MissionActive, Leg
    <3>4. QED BY <1>2, <3>2, <3>3
  <2>3. CASE Refusal(in, at) = "NONE"
    <3>1. h = [NewRun(m, in) EXCEPT !.state = "HOME"]
      BY <1>2, <2>3 DEF HandleStart
    <3>2. /\ MissionOK(h) /\ h.run_id = m.run_id + 1 /\ h.request_id = in.request_id
          /\ h.state = "HOME" /\ h.home_n = 0
      BY <2>1, <3>1 DEF MissionOK, MissionState
    <3>3. Follows(h, n) /\ n.state \in {"HOME", "ABORTED"}
      BY <3>2, ActiveFollows DEF MissionStep, MissionActive
    <3>4. ~in.saving
      BY <2>3 DEF Refusal
    <3>5. QED BY <1>2, <3>2, <3>3, <3>4 DEF Follows
  <2>4. QED BY <2>2, <2>3
<1>3. QED BY <1>1, <1>2

-------------------------------------------------------------------------------
(***************************************************************************)
(* The refinement of MissionRuns.                                          *)
(***************************************************************************)
TaskTypes ==
  /\ MissionOK(mission)
  /\ InputOK(input) /\ (input.start => input.request_id # 0)
  /\ command \in [start : BOOLEAN, stop : BOOLEAN, request_id : 0 .. MaxRequests,
                  settings : [stage : Stage, dry_run : BOOLEAN]]
  /\ command.start => command.request_id # 0

ControlTypes ==
  /\ setpoint \in [run_id : Nat, active : BOOLEAN, drive : BOOLEAN, dry_run : BOOLEAN, age : Nat]
  /\ aborted_run \in Nat /\ abort_reason \in AbortReason /\ spent \in Nat
  /\ auto_out \in [own : BOOLEAN, drive : BOOLEAN, run_id : Nat, abort : AbortReason]

(* The setpoint the control task acts on is that of the newest step.       *)
SetpointFollows ==
  /\ setpoint.run_id = mission.run_id
  /\ setpoint.active <=> MissionActive(mission)
  /\ setpoint.drive <=> mission.state \in Leg /\ ~mission.dry_run
  /\ setpoint.dry_run <=> mission.dry_run

Over == aborted_run = mission.run_id \/ ~MissionActive(mission)

(* The newest run gave the jets back only because it is over, and has them *)
(* only on a leg or before its end is noticed.                             *)
JetsOnce ==
  /\ spent <= mission.run_id /\ (spent = mission.run_id /\ spent # 0 => Over)
  /\ Driving(auto_out) <= mission.run_id
  /\ Driving(auto_out) = mission.run_id /\ Driving(auto_out) # 0
       => mission.state \in Leg \cup {"DONE", "ABORTED"} /\ ~mission.dry_run

RunsInv == TaskTypes /\ ControlTypes /\ SetpointFollows /\ JetsOnce

LEMMA RunsInvInit == Init => RunsInv
<1> SUFFICES ASSUME Init
             PROVE  RunsInv
  OBVIOUS
<1>0. 0 \in 0 .. MaxRequests
  BY MissionAssumption
<1>1. MissionOK(mission)
  BY <1>0 DEF Init, MissionInit, MissionOK, MissionState, MissionReason, AbortReason, Stage, NotConfirmed
<1>2. TaskTypes
  BY <1>0, <1>1 DEF Init, TaskTypes, InputOK, NoInput, NoCommand, Stage, AbortReason
<1>3. ControlTypes
  BY DEF Init, ControlTypes, SetpointInit, AutoOutInit, AbortReason
<1>4. SetpointFollows
  BY DEF Init, SetpointFollows, SetpointInit, MissionInit, MissionActive, Leg
<1>5. JetsOnce
  BY DEF Init, JetsOnce, Driving, AutoOutInit, MissionInit
<1>6. QED BY <1>2, <1>3, <1>4, <1>5 DEF RunsInv

(* The steps of the mission task that are not a step of the mission, and   *)
(* those of the receiving and the Diagnostics task.                        *)
LEMMA RunsStill ==
  ASSUME RunsInv, UNCHANGED <<mission, setpoint, aborted_run, abort_reason, auto_out, spent>>, TaskTypes'
  PROVE  RunsInv'
  BY DEF RunsInv, ControlTypes, SetpointFollows, JetsOnce, Over

LEMMA CommandsRuns ==
  ASSUME RunsInv, StartCommand \/ StopRequested \/ StopRecorded
  PROVE  RunsInv'
<1>1. UNCHANGED <<mission, input, setpoint, aborted_run, abort_reason, auto_out, spent>>
  BY DEF StartCommand, StopRequested, StopRecorded, RxFrame, taskVars
<1>2. TaskTypes'
  <2>1. CASE StartCommand
    <3>1. PICK request \in {mission.request_id, (mission.request_id % MaxRequests) + 1} \ {0},
               settings \in Settings :
            command' = [command EXCEPT !.start = TRUE, !.request_id = request, !.settings = settings]
      BY <2>1 DEF StartCommand
    <3>2. request \in 0 .. MaxRequests /\ request # 0
      BY MissionAssumption DEF RunsInv, TaskTypes, MissionOK
    <3>3. settings \in [stage : Stage, dry_run : BOOLEAN]
      BY AutonomyAssumption
    <3>4. QED BY <1>1, <3>1, <3>2, <3>3 DEF RunsInv, TaskTypes
  <2>2. CASE StopRequested
    BY <1>1, <2>2 DEF StopRequested, RunsInv, TaskTypes
  <2>3. CASE StopRecorded
    <3>1. command' = [start |-> FALSE, stop |-> TRUE, request_id |-> 0,
                      settings |-> [stage |-> "FULL", dry_run |-> FALSE]]
      BY <2>3 DEF StopRecorded, NoCommand
    <3>2. QED BY <1>1, <3>1, MissionAssumption DEF RunsInv, TaskTypes, Stage
  <2>4. QED BY <2>1, <2>2, <2>3
<1>3. QED BY <1>1, <1>2, RunsStill

LEMMA TaskRuns ==
  ASSUME RunsInv, TakeCommand \/ GatherInputs \/ RecordStep \/ CommitStatus
  PROVE  RunsInv'
<1>1. UNCHANGED <<mission, setpoint, aborted_run, abort_reason, auto_out, spent>>
  BY DEF TakeCommand, GatherInputs, RecordStep, CommitStatus, TaskFrame, controlVars
<1>2. TaskTypes'
  <2>1. CASE TakeCommand
    <3>1. /\ input' = CommandTaken /\ command' = NoCommand
          /\ CommandTaken.start = command.start /\ CommandTaken.request_id = command.request_id
          /\ CommandTaken.stage = command.settings.stage /\ CommandTaken.dry_run = command.settings.dry_run
          /\ CommandTaken.abort_reason = "NONE"
      BY <2>1 DEF TakeCommand, CommandTaken, NoInput
    <3>2. InputOK(input') /\ (input'.start => input'.request_id # 0)
      BY <3>1 DEF RunsInv, TaskTypes, InputOK, AbortReason
    <3>3. QED BY <1>1, <3>1, <3>2, MissionAssumption DEF RunsInv, TaskTypes, NoCommand, Stage
  <2>2. CASE GatherInputs
    <3>1. /\ input' = [input EXCEPT !.saving = save_pending, !.abort_run = aborted_run,
                                    !.abort_reason = abort_reason]
          /\ command' = command
      BY <2>2 DEF GatherInputs
    <3>2. abort_reason \in AbortReason
      BY DEF RunsInv, ControlTypes
    <3>3. /\ input'.start = input.start /\ input'.request_id = input.request_id
          /\ input'.stage = input.stage /\ input'.dry_run = input.dry_run
          /\ input'.abort_reason \in AbortReason
      BY <3>1, <3>2 DEF RunsInv, TaskTypes, InputOK
    <3>4. QED BY <1>1, <3>1, <3>3 DEF RunsInv, TaskTypes, InputOK
  <2>3. CASE RecordStep \/ CommitStatus
    BY <1>1, <2>3 DEF RecordStep, CommitStatus, RunsInv, TaskTypes
  <2>4. QED BY <2>1, <2>2, <2>3
<1>3. QED BY <1>1, <1>2, RunsStill

LEMMA DiagnosticsRuns == RunsInv /\ (Diagnostics \/ UNCHANGED vars) => RunsInv'
<1> SUFFICES ASSUME RunsInv, Diagnostics \/ UNCHANGED vars
             PROVE  RunsInv'
  OBVIOUS
<1>1. UNCHANGED <<mission, input, command, setpoint, aborted_run, abort_reason, auto_out, spent>>
  BY DEF Diagnostics, DiagWake, WriteRecord, ReleaseRecord, PublishStatus, DiagFrame, rxVars,
         taskVars, controlVars, vars
<1>2. TaskTypes'
  BY <1>1 DEF RunsInv, TaskTypes
<1>3. QED BY <1>1, <1>2, RunsStill

(***************************************************************************)
(* A step of the mission.                                                  *)
(***************************************************************************)
LEMMA StepRuns ==
  ASSUME RunsInv, StepMission
  PROVE  RunsInv' /\ [Runs!RunsNext]_(Runs!runVars)
<1>1. /\ UNCHANGED <<command, aborted_run, abort_reason, auto_out, spent>>
      /\ input' = NoInput /\ setpoint' = MissionOutput(mission')
  BY DEF StepMission, TaskFrame, controlVars
<1>2. PICK at \in Situations : mission' = MissionStep(mission, input, at)
  BY DEF StepMission
<1>3. MissionOK(mission) /\ InputOK(input)
  BY DEF RunsInv, TaskTypes
<1>4. /\ MissionOK(mission')
      /\ ~StartTaken(mission, input) =>
           Follows(mission, mission') /\ (~MissionActive(mission) => mission' = mission)
      /\ StartTaken(mission, input) =>
           /\ mission'.run_id = mission.run_id + 1 /\ mission'.request_id = input.request_id
           /\ mission'.state \in {"HOME", "ABORTED", "REFUSED"}
  BY <1>2, <1>3, StepFollows
<1>5. TaskTypes'
  BY <1>1, <1>4, MissionAssumption DEF RunsInv, TaskTypes, InputOK, NoInput, Stage, AbortReason
<1>6. ControlTypes' /\ SetpointFollows'
  <2>1. /\ MissionActive(mission') \in BOOLEAN
        /\ (mission'.state \in Leg /\ ~mission'.dry_run) \in BOOLEAN
    BY DEF MissionActive
  <2>2. mission'.run_id \in Nat /\ mission'.dry_run \in BOOLEAN
    BY <1>4 DEF MissionOK
  <2>3. setpoint' = [run_id |-> mission'.run_id, active |-> MissionActive(mission'),
                     drive |-> mission'.state \in Leg /\ ~mission'.dry_run,
                     dry_run |-> mission'.dry_run, age |-> 0]
    BY <1>1 DEF MissionOutput
  <2>4. SetpointFollows'
    BY <2>3 DEF SetpointFollows
  <2>5. setpoint' \in [run_id : Nat, active : BOOLEAN, drive : BOOLEAN, dry_run : BOOLEAN, age : Nat]
    BY <2>1, <2>2, <2>3, Zenon
  <2>6. QED BY <1>1, <2>4, <2>5 DEF RunsInv, ControlTypes
<1>7. JetsOnce'
  <2>1. /\ mission.run_id \in Nat /\ spent \in Nat /\ Driving(auto_out) \in Nat
        /\ JetsOnce /\ Driving(auto_out)' = Driving(auto_out)
    BY <1>1, <1>3 DEF RunsInv, ControlTypes, MissionOK, Driving
  <2>2. CASE StartTaken(mission, input)
    BY <1>1, <1>4, <2>1, <2>2 DEF JetsOnce
  <2>3. CASE ~StartTaken(mission, input)
    <3>1. mission'.run_id = mission.run_id /\ mission'.dry_run = mission.dry_run
      BY <1>4, <2>3 DEF Follows
    <3>2. mission.state \in Leg \cup {"DONE", "ABORTED"} => mission'.state \in Leg \cup {"DONE", "ABORTED"}
      BY <1>4, <2>3 DEF Follows, Leg
    <3>3. Over => Over'
      BY <1>1, <1>4, <2>3, <3>1 DEF Over
    <3>4. QED BY <1>1, <2>1, <3>1, <3>2, <3>3 DEF JetsOnce
  <2>4. QED BY <2>2, <2>3
<1>8. [Runs!RunsNext]_(Runs!runVars)
  <2>1. Driving(auto_out)' = Driving(auto_out) /\ spent' = spent
    BY <1>1 DEF Driving
  <2>2. CASE StartTaken(mission, input)
    <3>1. input.request_id \in 1 .. MaxRequests /\ input.request_id # mission.request_id /\ ~MissionActive(mission)
      BY <1>3, <2>2 DEF StartTaken, RunsInv, TaskTypes, InputOK
    <3>2. mission.state \in {"IDLE", "DONE", "ABORTED", "REFUSED"}
      BY <1>3, <3>1 DEF MissionActive, MissionOK, MissionState, Leg
    <3>3. Runs!Begin
      BY <1>4, <2>1, <2>2, <3>1, <3>2 DEF Runs!Begin, MissionTerminal
    <3>4. QED BY <3>3 DEF Runs!RunsNext
  <2>3. CASE ~StartTaken(mission, input)
    <3>1. Follows(mission, mission') /\ (~MissionActive(mission) => mission' = mission)
      BY <1>4, <2>3
    <3>2. CASE mission'.state = mission.state
      BY <2>1, <3>1, <3>2 DEF Follows, Runs!runVars, MissionTerminal
    <3>3. CASE mission'.state # mission.state /\ mission'.state \in {"DONE", "ABORTED"}
      <4>1. mission.state \in {"HOME", "OUTBOUND", "TURN", "RETURN"}
        BY <3>1, <3>3 DEF MissionActive, Leg
      <4>2. Runs!End
        BY <2>1, <3>1, <3>3, <4>1 DEF Runs!End, Follows, MissionTerminal
      <4>3. QED BY <4>2 DEF Runs!RunsNext
    <3>4. CASE mission'.state # mission.state /\ mission'.state \notin {"DONE", "ABORTED"}
      <4>1. Runs!Advance
        BY <2>1, <3>1, <3>4 DEF Runs!Advance, Follows, MissionTerminal
      <4>2. QED BY <4>1 DEF Runs!RunsNext
    <3>5. QED BY <3>2, <3>3, <3>4
  <2>4. QED BY <2>2, <2>3
<1>9. QED BY <1>5, <1>6, <1>7, <1>8 DEF RunsInv

(***************************************************************************)
(* A control cycle.                                                        *)
(***************************************************************************)
LEMMA CycleRuns ==
  ASSUME RunsInv, ControlCycle
  PROVE  RunsInv' /\ [Runs!RunsNext]_(Runs!runVars)
<1> DEFINE run == mission.run_id
           old == Driving(auto_out)
           new == Driving(auto_out')
<1>1. PICK in \in ControlInputs, sp \in {setpoint, AgeSetpoint(setpoint)} :
        /\ auto_out' = AutoStep(sp, aborted_run,
                         [stop_request |-> auto_stop, manual_input |-> in.manual_input,
                          rail_cut |-> in.rail_cut, other_owner |-> in.other_owner, armed |-> in.armed])
        /\ setpoint' = sp
        /\ aborted_run' = IF auto_out'.abort = "NONE" THEN aborted_run ELSE auto_out'.run_id
        /\ abort_reason' = IF auto_out'.abort = "NONE" THEN abort_reason ELSE auto_out'.abort
        /\ spent' = IF old \notin {0, new} THEN old ELSE spent
        /\ UNCHANGED <<mission, input, command>>
  BY DEF ControlCycle, taskVars, rxVars
<1>2. in.armed \in BOOLEAN
  BY AutonomyAssumption
<1>3. /\ sp \in [run_id : Nat, active : BOOLEAN, drive : BOOLEAN, dry_run : BOOLEAN, age : Nat]
      /\ sp.run_id = run /\ sp.active = setpoint.active /\ sp.drive = setpoint.drive
      /\ sp.dry_run = setpoint.dry_run
  BY DEF RunsInv, ControlTypes, SetpointFollows, AgeSetpoint
<1>4. /\ run \in Nat /\ spent \in Nat /\ old \in Nat /\ JetsOnce /\ aborted_run \in Nat
      /\ mission.state \in MissionState
  BY DEF RunsInv, TaskTypes, ControlTypes, MissionOK, Driving
<1>5. /\ sp.active <=> MissionActive(mission)
      /\ sp.drive <=> mission.state \in Leg /\ ~mission.dry_run
      /\ sp.dry_run <=> mission.dry_run
  BY <1>3 DEF RunsInv, SetpointFollows
<1> DEFINE with == [stop_request |-> auto_stop, manual_input |-> in.manual_input,
                    rail_cut |-> in.rail_cut, other_owner |-> in.other_owner, armed |-> in.armed]
           why == AbortFor(sp, with)
<1>6. why \in AbortReason
  BY DEF AbortFor, AbortReason
<1>7. CASE ~Offered(sp, aborted_run)
  <2>1. auto_out' = AutoOutInit
    BY <1>1, <1>7 DEF AutoStep
  <2>2. new = 0 /\ aborted_run' = aborted_run /\ abort_reason' = abort_reason
    BY <1>1, <2>1 DEF AutoOutInit, Driving
  <2>3. old = run /\ old # 0 => Over
    BY <1>3, <1>5, <1>7 DEF Offered, Over
  <2>4. ControlTypes' /\ SetpointFollows' /\ TaskTypes'
    <3>1. auto_out' \in [own : BOOLEAN, drive : BOOLEAN, run_id : Nat, abort : AbortReason]
      BY <1>4, <1>6, <2>1 DEF AutoOutInit, AbortReason
    <3>2. spent' \in Nat /\ aborted_run' \in Nat /\ abort_reason' \in AbortReason
      BY <1>1, <1>4, <1>6, <2>2 DEF RunsInv, ControlTypes
    <3>3. ControlTypes'
      BY <1>1, <1>3, <3>1, <3>2 DEF ControlTypes
    <3>4. SetpointFollows' /\ TaskTypes'
      BY <1>1, <1>3, <1>5 DEF RunsInv, SetpointFollows, TaskTypes
    <3>5. QED BY <3>3, <3>4
  <2>5. Over' <=> Over
    BY <1>1, <2>2 DEF Over
  <2>6. JetsOnce'
    <3>1. mission' = mission /\ Driving(auto_out)' = 0
      BY <1>1, <2>2
    <3>2. CASE old = 0
      <4>1. spent' = spent
        BY <1>1, <3>2
      <4>2. QED BY <1>4, <2>5, <3>1, <4>1 DEF JetsOnce
    <3>3. CASE old # 0
      <4>1. spent' = old
        BY <1>1, <2>2, <3>3
      <4>2. QED BY <1>4, <2>3, <2>5, <3>1, <4>1 DEF JetsOnce
    <3>4. QED BY <3>2, <3>3
  <2>7. [Runs!RunsNext]_(Runs!runVars)
    <3>1. CASE old = 0
      BY <1>1, <2>2, <3>1 DEF Runs!runVars
    <3>2. CASE old # 0
      <4>1. Runs!GiveJetsBack
        BY <1>1, <2>2, <3>2 DEF Runs!GiveJetsBack
      <4>2. QED BY <4>1 DEF Runs!RunsNext
    <3>3. QED BY <3>1, <3>2
  <2>8. QED BY <2>4, <2>6, <2>7 DEF RunsInv
<1>8. CASE Offered(sp, aborted_run) /\ why # "NONE"
  <2>1. auto_out' = [own |-> FALSE, drive |-> FALSE, run_id |-> run, abort |-> why]
    BY <1>1, <1>3, <1>8, Zenon DEF AutoStep
  <2>2. new = 0 /\ aborted_run' = run /\ abort_reason' = why
    BY <1>1, <1>8, <2>1 DEF Driving
  <2>3. Over'
    BY <1>1, <2>2 DEF Over
  <2>4. ControlTypes' /\ SetpointFollows' /\ TaskTypes'
    <3>1. auto_out' \in [own : BOOLEAN, drive : BOOLEAN, run_id : Nat, abort : AbortReason]
      BY <1>4, <1>6, <2>1
    <3>2. spent' \in Nat /\ aborted_run' \in Nat /\ abort_reason' \in AbortReason
      BY <1>1, <1>4, <1>6, <2>2 DEF RunsInv, ControlTypes
    <3>3. ControlTypes'
      BY <1>1, <1>3, <3>1, <3>2 DEF ControlTypes
    <3>4. SetpointFollows' /\ TaskTypes'
      BY <1>1, <1>3, <1>5 DEF RunsInv, SetpointFollows, TaskTypes
    <3>5. QED BY <3>3, <3>4
  <2>5. JetsOnce'
    <3>1. mission' = mission /\ Driving(auto_out)' = 0 /\ spent' \in {spent, old}
      BY <1>1, <2>2
    <3>2. QED BY <1>4, <2>3, <3>1 DEF JetsOnce
  <2>6. [Runs!RunsNext]_(Runs!runVars)
    <3>1. CASE old = 0
      BY <1>1, <2>2, <3>1 DEF Runs!runVars
    <3>2. CASE old # 0
      <4>1. Runs!GiveJetsBack
        BY <1>1, <2>2, <3>2 DEF Runs!GiveJetsBack
      <4>2. QED BY <4>1 DEF Runs!RunsNext
    <3>3. QED BY <3>1, <3>2
  <2>7. QED BY <2>4, <2>5, <2>6 DEF RunsInv
<1>9. CASE Offered(sp, aborted_run) /\ why = "NONE"
  <2> DEFINE drives == why = "NONE" /\ sp.drive /\ ~sp.dry_run /\ with.armed
  <2>1. auto_out' = [own |-> TRUE, drive |-> drives, run_id |-> run, abort |-> "NONE"]
    BY <1>1, <1>3, <1>9, Zenon DEF AutoStep
  <2>2. drives \in BOOLEAN /\ aborted_run' = aborted_run /\ abort_reason' = abort_reason
    BY <1>1, <2>1
  <2>3. /\ run # 0 /\ MissionActive(mission) /\ run # aborted_run
    BY <1>3, <1>5, <1>9 DEF Offered
  <2>4. ~sp.dry_run => with.armed
    BY <1>9 DEF AbortFor
  <2>5. drives <=> mission.state \in Leg /\ ~mission.dry_run
    BY <1>5, <1>9, <2>4
  <2> HIDE DEF drives
  <2>6. ControlTypes' /\ SetpointFollows' /\ TaskTypes'
    <3>1. auto_out' \in [own : BOOLEAN, drive : BOOLEAN, run_id : Nat, abort : AbortReason]
      BY <1>4, <2>1, <2>2 DEF AbortReason
    <3>2. spent' \in Nat
      BY <1>1, <1>4
    <3>3. QED BY <1>1, <1>3, <1>5, <2>2, <3>1, <3>2 DEF RunsInv, ControlTypes, SetpointFollows, TaskTypes
  <2>7. ~Over /\ spent # run /\ ~Over'
    BY <1>1, <1>4, <2>2, <2>3 DEF Over, JetsOnce
  <2>8. new = IF drives THEN run ELSE 0
    BY <2>1 DEF Driving
  <2>9. old = run => drives
    <3> SUFFICES ASSUME old = run
                 PROVE  mission.state \in Leg /\ ~mission.dry_run
      BY <2>5
    <3>1. mission.state \in Leg \cup {"DONE", "ABORTED"} /\ ~mission.dry_run
      BY <1>4, <2>3 DEF JetsOnce
    <3>2. mission.state \notin {"DONE", "ABORTED"}
      BY <2>3 DEF MissionActive, Leg
    <3>3. QED BY <3>1, <3>2
  <2>10. old # run => old < run
    BY <1>4 DEF JetsOnce
  <2>11. JetsOnce'
    <3>1. mission' = mission /\ Driving(auto_out)' = new
      BY <1>1
    <3>2. spent' < run
      BY <1>1, <1>4, <2>7, <2>8, <2>9, <2>10 DEF JetsOnce
    <3>3. new <= run /\ (new # 0 => mission.state \in Leg /\ ~mission.dry_run)
      BY <1>4, <2>5, <2>8
    <3>4. spent' \in Nat /\ spent' <= mission'.run_id /\ spent' # mission'.run_id
      BY <1>1, <1>4, <3>1, <3>2
    <3>5. /\ Driving(auto_out)' <= mission'.run_id
          /\ Driving(auto_out)' # 0 => mission'.state \in Leg /\ ~mission'.dry_run
      BY <3>1, <3>3
    <3>6. QED BY <3>4, <3>5 DEF JetsOnce
  <2>12. [Runs!RunsNext]_(Runs!runVars)
    <3>1. CASE new = old
      <4>1. spent' = spent
        BY <1>1, <3>1
      <4>2. QED BY <1>1, <3>1, <4>1 DEF Runs!runVars
    <3>2. CASE new # old /\ drives
      <4>1. new = run /\ mission.state \in Leg /\ spent' = IF old = 0 THEN spent ELSE old
        BY <1>1, <2>5, <2>8, <3>2
      <4>2. Runs!TakeJets
        BY <1>1, <2>3, <2>7, <3>2, <4>1 DEF Runs!TakeJets, MissionTerminal, Leg
      <4>3. QED BY <4>2 DEF Runs!RunsNext
    <3>3. CASE new # old /\ ~drives
      <4>1. new = 0 /\ spent' = old /\ old # 0
        BY <1>1, <2>8, <3>3
      <4>2. Runs!GiveJetsBack
        BY <1>1, <4>1 DEF Runs!GiveJetsBack
      <4>3. QED BY <4>2 DEF Runs!RunsNext
    <3>4. QED BY <3>1, <3>2, <3>3
  <2>13. QED BY <2>6, <2>11, <2>12 DEF RunsInv
<1>10. QED BY <1>7, <1>8, <1>9

(* The three tasks together are the abstract mission: one run per request, *)
(* its phases in order, one end, and the jets at most once and only on a   *)
(* leg, for any number of runs and any situation (autonomy_step,           *)
(* mission_step, auto_decide).                                             *)
THEOREM AutonomyImplementsRuns == Spec => ImplementsMissionRuns
<1>1. Init => Runs!RunsInit
  BY DEF Init, Runs!RunsInit, MissionInit, MissionTerminal, Driving, AutoOutInit
<1>2. RunsInv /\ [Next]_vars => RunsInv' /\ [Runs!RunsNext]_(Runs!runVars)
  <2> SUFFICES ASSUME RunsInv, [Next]_vars
               PROVE  RunsInv' /\ [Runs!RunsNext]_(Runs!runVars)
    OBVIOUS
  <2>1. CASE StepMission
    BY <2>1, StepRuns
  <2>2. CASE ControlCycle
    BY <2>2, CycleRuns
  <2>3. ASSUME UNCHANGED <<mission, auto_out, spent>>
        PROVE  UNCHANGED Runs!runVars
    BY <2>3 DEF Runs!runVars, MissionTerminal, Driving
  <2>4. CASE StartCommand \/ StopRequested \/ StopRecorded
    <3>1. UNCHANGED <<mission, auto_out, spent>>
      BY <2>4 DEF StartCommand, StopRequested, StopRecorded, RxFrame, taskVars
    <3>2. QED BY <2>3, <2>4, <3>1, CommandsRuns
  <2>5. CASE TakeCommand \/ GatherInputs \/ RecordStep \/ CommitStatus
    <3>1. UNCHANGED <<mission, auto_out, spent>>
      BY <2>5 DEF TakeCommand, GatherInputs, RecordStep, CommitStatus, TaskFrame, controlVars
    <3>2. QED BY <2>3, <2>5, <3>1, TaskRuns
  <2>6. CASE Diagnostics \/ UNCHANGED vars
    <3>1. UNCHANGED <<mission, auto_out, spent>>
      BY <2>6 DEF Diagnostics, DiagWake, WriteRecord, ReleaseRecord, PublishStatus, DiagFrame,
                  taskVars, controlVars, vars
    <3>2. QED BY <2>3, <2>6, <3>1, DiagnosticsRuns
  <2>7. QED BY <2>1, <2>2, <2>4, <2>5, <2>6 DEF Next, MissionTask
<1>3. QED BY <1>1, <1>2, RunsInvInit, PTL DEF Spec, ImplementsMissionRuns, Runs!RunsSpec

-------------------------------------------------------------------------------
(***************************************************************************)
(* The record of a run.                                                    *)
(***************************************************************************)
StepSample == [run_id : Nat, state : MissionState]

RecordTypes ==
  /\ record \in [run_id : Nat, samples : Seq(StepSample), overflow : BOOLEAN, final : StepSample]
  /\ prev \in StepSample
  /\ save_pending \in BOOLEAN

(* Before the record is looked at, the mission is one step ahead of what   *)
(* the task last saw of it.                                                *)
PrevBehind ==
  /\ step_pc # "record" => prev.run_id = mission.run_id /\ prev.state = mission.state
  /\ step_pc = "record" =>
       \/ mission.run_id = prev.run_id /\ mission.state = prev.state
       \/ mission.run_id = prev.run_id /\ MissionActive(prev)
            /\ (MissionActive(mission) \/ MissionTerminal(mission))
       \/ mission.run_id = prev.run_id + 1 /\ ~MissionActive(prev)
            /\ ((mission.state = "HOME" /\ ~save_pending) \/ MissionTerminal(mission))

(* The samples of one run, from its HOME on.                               *)
SamplesOf(run) ==
  /\ record.samples # << >>
  /\ record.samples[1].state = "HOME"
  /\ \A i \in DOMAIN record.samples : record.samples[i].run_id = run

(* A run that is under way has the buffer, and nothing waits to be written.*)
BeingRecorded ==
  /\ record.run_id <= prev.run_id
  /\ MissionActive(prev) =>
       /\ record_state = IF RecordCapacity > 0 THEN "RECORDING" ELSE "UNAVAILABLE"
       /\ record.run_id = prev.run_id /\ ~save_pending
       /\ RecordCapacity > 0 => SamplesOf(prev.run_id)

(* Diagnostics has the buffer until it says that it is done, and a START   *)
(* is told of it.                                                          *)
BeingSaved ==
  /\ diag_pc \in {"write", "written"} => save_pending
  /\ step_pc = "step" /\ save_pending => input.saving
  /\ RecordIsOneRun

RecordInv == RecordTypes /\ PrevBehind /\ BeingRecorded /\ BeingSaved

LEMMA RecordInvInit == Init => RecordInv
<1> SUFFICES ASSUME Init
             PROVE  RecordInv
  OBVIOUS
<1>1. RecordTypes
  <2>1. << >> \in Seq(StepSample)
    OBVIOUS
  <2>2. QED BY <2>1 DEF Init, RecordTypes, StepSample, MissionState
<1>2. PrevBehind /\ BeingRecorded /\ BeingSaved
  BY DEF Init, PrevBehind, BeingRecorded, BeingSaved, RecordIsOneRun, MissionInit, MissionActive, Leg
<1>3. QED BY <1>1, <1>2 DEF RecordInv

(* Steps that leave the mission and its record alone.                      *)
LEMMA RecordStill ==
  ASSUME RecordInv, UNCHANGED <<mission, prev, record, record_state, save_pending, diag_pc>>,
         step_pc' = "record" <=> step_pc = "record",
         step_pc' = "step" /\ save_pending => input'.saving
  PROVE  RecordInv'
<1>1. RecordTypes' /\ BeingRecorded'
  BY DEF RecordInv, RecordTypes, BeingRecorded, SamplesOf
<1>2. PrevBehind'
  BY DEF RecordInv, PrevBehind
<1>3. BeingSaved'
  BY DEF RecordInv, BeingSaved, RecordIsOneRun
<1>4. QED BY <1>1, <1>2, <1>3 DEF RecordInv

LEMMA CommandsRecord ==
  ASSUME RecordInv, RunsInv, StartCommand \/ StopRequested \/ StopRecorded \/ TakeCommand
                             \/ GatherInputs \/ CommitStatus \/ ControlCycle \/ UNCHANGED vars
  PROVE  RecordInv'
<1>1. UNCHANGED <<mission, prev, record, record_state, save_pending, diag_pc>>
  BY DEF StartCommand, StopRequested, StopRecorded, TakeCommand, GatherInputs, CommitStatus, ControlCycle,
         RxFrame, TaskFrame, taskVars, recordVars, diagVars, vars
<1>2. step_pc' = "record" <=> step_pc = "record"
  BY DEF StartCommand, StopRequested, StopRecorded, TakeCommand, GatherInputs, CommitStatus, ControlCycle,
         RxFrame, taskVars, vars
<1>3. step_pc' = "step" /\ save_pending => input'.saving
  <2>1. CASE GatherInputs
    BY <2>1 DEF GatherInputs, RunsInv, TaskTypes, RecordInv, RecordTypes
  <2>2. CASE TakeCommand \/ CommitStatus
    BY <2>2 DEF TakeCommand, CommitStatus
  <2>3. CASE StartCommand \/ StopRequested \/ StopRecorded \/ ControlCycle \/ UNCHANGED vars
    <3>1. step_pc' = step_pc /\ input' = input
      BY <2>3 DEF StartCommand, StopRequested, StopRecorded, ControlCycle, RxFrame, taskVars, vars
    <3>2. QED BY <3>1 DEF RecordInv, BeingSaved
  <2>4. QED BY <2>1, <2>2, <2>3
<1>4. QED BY <1>1, <1>2, <1>3, RecordStill

LEMMA DiagnosticsRecord ==
  ASSUME RecordInv, Diagnostics
  PROVE  RecordInv'
<1>1. UNCHANGED <<mission, prev, record, step_pc, input>>
  BY DEF Diagnostics, DiagWake, WriteRecord, ReleaseRecord, PublishStatus, DiagFrame, taskVars, recordVars
<1>2. \/ record_state' = record_state
      \/ diag_pc = "write" /\ diag_pc' = "written"
  BY DEF Diagnostics, DiagWake, WriteRecord, ReleaseRecord, PublishStatus, recordVars
<1>3. \/ save_pending' = save_pending /\ (diag_pc' = "write" => save_pending)
           /\ (diag_pc' = "written" => diag_pc = "write")
      \/ save_pending' = FALSE /\ diag_pc' = "copy"
  BY DEF Diagnostics, DiagWake, WriteRecord, ReleaseRecord, PublishStatus, recordVars
<1>4. RecordTypes' /\ (save_pending' => save_pending)
  <2>1. CASE save_pending' = save_pending
    BY <1>1, <2>1 DEF RecordInv, RecordTypes
  <2>2. CASE save_pending' = FALSE
    BY <1>1, <2>2 DEF RecordInv, RecordTypes
  <2>3. QED BY <1>3, <2>1, <2>2
<1>5. PrevBehind'
  BY <1>1, <1>4 DEF RecordInv, PrevBehind
<1>6. BeingRecorded'
  BY <1>1, <1>2, <1>4 DEF RecordInv, BeingRecorded, BeingSaved, SamplesOf
<1>7. BeingSaved'
  BY <1>1, <1>3, <1>4 DEF RecordInv, BeingSaved, RecordIsOneRun
<1>8. QED BY <1>4, <1>5, <1>6, <1>7 DEF RecordInv

LEMMA StepRecord ==
  ASSUME RecordInv, RunsInv, StepMission
  PROVE  RecordInv'
<1>1. /\ step_pc = "step" /\ step_pc' = "record"
      /\ UNCHANGED <<prev, record, record_state, save_pending, diag_pc>>
  BY DEF StepMission, TaskFrame, recordVars, diagVars
<1>2. PICK at \in Situations : mission' = MissionStep(mission, input, at)
  BY DEF StepMission
<1>3. MissionOK(mission) /\ InputOK(input)
  BY DEF RunsInv, TaskTypes
<1>4. /\ ~StartTaken(mission, input) =>
           Follows(mission, mission') /\ (~MissionActive(mission) => mission' = mission)
      /\ StartTaken(mission, input) =>
           /\ mission'.run_id = mission.run_id + 1
           /\ mission'.state \in {"HOME", "ABORTED", "REFUSED"}
           /\ mission'.state = "HOME" => ~input.saving
  BY <1>2, <1>3, StepFollows
<1>5. prev.run_id = mission.run_id /\ prev.state = mission.state /\ (save_pending => input.saving)
  BY <1>1 DEF RecordInv, PrevBehind, BeingSaved
<1>6. RecordTypes' /\ BeingRecorded' /\ BeingSaved'
  BY <1>1 DEF RecordInv, RecordTypes, BeingRecorded, BeingSaved, RecordIsOneRun, SamplesOf
<1>7. PrevBehind'
  <2>1. CASE StartTaken(mission, input)
    BY <1>1, <1>4, <1>5, <2>1 DEF PrevBehind, StartTaken, MissionActive, MissionTerminal
  <2>2. CASE ~StartTaken(mission, input) /\ ~MissionActive(mission)
    BY <1>1, <1>4, <1>5, <2>2 DEF PrevBehind
  <2>3. CASE ~StartTaken(mission, input) /\ MissionActive(mission)
    <3>1. mission'.run_id = mission.run_id /\ (MissionActive(mission') \/ MissionTerminal(mission'))
      BY <1>4, <2>3 DEF Follows, MissionActive, MissionTerminal, Leg
    <3>2. MissionActive(prev)'
      BY <1>1, <1>5, <2>3 DEF MissionActive
    <3>3. QED BY <1>1, <1>5, <3>1, <3>2 DEF PrevBehind
  <2>4. QED BY <2>1, <2>2, <2>3
<1>8. QED BY <1>6, <1>7 DEF RecordInv

LEMMA SamplesAppend ==
  ASSUME NEW q \in Seq(StepSample), NEW x \in StepSample
  PROVE  /\ Append(q, x) \in Seq(StepSample) /\ Len(Append(q, x)) = Len(q) + 1 /\ Len(q) \in Nat
         /\ Append(q, x) # << >> /\ DOMAIN Append(q, x) = 1 .. Len(q) + 1 /\ DOMAIN q = 1 .. Len(q)
         /\ \A i \in 1 .. Len(q) : Append(q, x)[i] = q[i]
         /\ Append(q, x)[Len(q) + 1] = x
         /\ q # << >> => Len(q) >= 1
         /\ q = << >> => Len(q) = 0
  OBVIOUS

(* A pass that finds no run under way, neither now nor before, leaves the  *)
(* record alone.                                                           *)
LEMMA RecordQuiet ==
  ASSUME RecordInv, RunsInv, RecordStep, ~MissionActive(prev), ~MissionActive(mission)
  PROVE  UNCHANGED <<record, record_state, save_pending>>
<1>1. ~NewRunActive /\ RecordBegin = record /\ Recording = record_state
  BY DEF NewRunActive, RecordBegin, Recording
<1>2. ~Sampled /\ WithSample = record
  BY <1>1 DEF Sampled, WithSample
<1>3. prev.run_id \in Nat /\ record.run_id \in Nat /\ record.run_id <= prev.run_id
  BY DEF RecordInv, RecordTypes, StepSample, BeingRecorded
<1>4. \/ mission.run_id = prev.run_id /\ mission.state = prev.state
      \/ mission.run_id = prev.run_id + 1
  BY DEF RecordStep, RecordInv, PrevBehind
<1>5. ~HandsOver
  BY <1>1, <1>3, <1>4 DEF HandsOver, Changed
<1>6. save_pending \in BOOLEAN
  BY DEF RecordInv, RecordTypes
<1>7. QED BY <1>1, <1>2, <1>5, <1>6 DEF RecordStep

(* The first sample of a run that begins.                                  *)
LEMMA RecordBegins ==
  ASSUME RecordInv, RunsInv, RecordStep, NewRunActive
  PROVE  RecordInv'
<1> DEFINE x == [run_id |-> mission.run_id, state |-> mission.state]
           b == [record EXCEPT !.run_id = mission.run_id, !.samples = << >>, !.overflow = FALSE]
<1>1. /\ mission.run_id = prev.run_id + 1 /\ mission.state = "HOME" /\ ~save_pending /\ ~MissionActive(prev)
  BY DEF RecordStep, RecordInv, PrevBehind, NewRunActive, MissionActive, MissionTerminal, Leg
<1>2. x \in StepSample /\ mission.run_id \in Nat
  BY DEF RunsInv, TaskTypes, MissionOK, StepSample
<1>3. /\ b \in [run_id : Nat, samples : Seq(StepSample), overflow : BOOLEAN, final : StepSample]
      /\ b.run_id = mission.run_id /\ b.samples = << >> /\ RecordBegin = b
  <2>1. << >> \in Seq(StepSample)
    OBVIOUS
  <2>2. QED BY <1>2, <2>1 DEF RecordInv, RecordTypes, RecordBegin
<1>4. Recording = IF RecordCapacity > 0 THEN "RECORDING" ELSE "UNAVAILABLE"
  BY DEF Recording
<1>5. ~HandsOver /\ MissionActive(mission) /\ ~MissionTerminal(mission)
  BY <1>1 DEF HandsOver, MissionTerminal, NewRunActive
<1>6. /\ record' = WithSample /\ record_state' = Recording /\ save_pending' = save_pending
      /\ prev' = x /\ step_pc' = "status" /\ UNCHANGED <<mission, diag_pc>>
  BY <1>5 DEF RecordStep, TaskFrame, diagVars, RecordInv, RecordTypes
<1> HIDE DEF b, x
<1>7. /\ record' \in [run_id : Nat, samples : Seq(StepSample), overflow : BOOLEAN, final : StepSample]
      /\ record'.run_id = mission.run_id
      /\ RecordCapacity > 0 => record'.samples = Append(<< >>, x)
  <2>1. CASE RecordCapacity > 0
    <3>1. Sampled /\ ~(Len(b.samples) >= RecordCapacity)
      BY <1>3, <1>4, <1>5, <2>1, AutonomyAssumption DEF Sampled
    <3>2. record' = [b EXCEPT !.samples = Append(b.samples, x)]
      BY <1>3, <1>6, <3>1 DEF WithSample, x
    <3>3. Append(b.samples, x) \in Seq(StepSample)
      BY <1>2, <1>3, SamplesAppend
    <3>4. QED BY <1>3, <3>2, <3>3
  <2>2. CASE ~(RecordCapacity > 0)
    <3>1. ~Sampled
      BY <1>4, <2>2 DEF Sampled
    <3>2. record' = b
      BY <1>3, <1>6, <3>1 DEF WithSample
    <3>3. QED BY <1>3, <2>2, <3>2
  <2>3. QED BY <2>1, <2>2
<1>8. prev'.run_id = mission.run_id /\ prev'.state = mission.state
  BY <1>6 DEF x
<1>9. RecordTypes'
  BY <1>2, <1>6, <1>7 DEF RecordInv, RecordTypes
<1>10. PrevBehind'
  BY <1>6, <1>8 DEF PrevBehind
<1>11. RecordCapacity > 0 => SamplesOf(mission.run_id)'
  <2> SUFFICES ASSUME RecordCapacity > 0
               PROVE  SamplesOf(mission.run_id)'
    OBVIOUS
  <2>1. << >> \in Seq(StepSample) /\ Len(<< >>) = 0
    OBVIOUS
  <2>2. /\ record'.samples # << >> /\ DOMAIN record'.samples = 1 .. 1 /\ record'.samples[1] = x
    BY <1>2, <1>7, <2>1, SamplesAppend
  <2>3. x.state = "HOME" /\ x.run_id = mission'.run_id
    BY <1>1, <1>6 DEF x
  <2>4. QED BY <2>2, <2>3 DEF SamplesOf
<1>12. BeingRecorded'
  BY <1>1, <1>2, <1>4, <1>6, <1>7, <1>8, <1>11 DEF BeingRecorded, SamplesOf
<1>13. BeingSaved'
  BY <1>1, <1>6 DEF RecordInv, BeingSaved, RecordIsOneRun
<1>14. QED BY <1>9, <1>10, <1>12, <1>13 DEF RecordInv

(* A pass of a run under way, or the one that ends it.                     *)
LEMMA RecordGoesOn ==
  ASSUME RecordInv, RunsInv, RecordStep, ~NewRunActive, MissionActive(prev)
  PROVE  RecordInv'
<1> DEFINE run == prev.run_id
           x == [run_id |-> mission.run_id, state |-> mission.state]
           q == record.samples
<1>1. /\ mission.run_id = run /\ (MissionActive(mission) \/ MissionTerminal(mission))
      /\ ~save_pending
      /\ record_state = IF RecordCapacity > 0 THEN "RECORDING" ELSE "UNAVAILABLE"
      /\ record.run_id = run /\ (RecordCapacity > 0 => SamplesOf(run))
  BY DEF RecordStep, RecordInv, PrevBehind, BeingRecorded, MissionActive
<1>2. x \in StepSample /\ q \in Seq(StepSample) /\ run \in Nat
  BY DEF RunsInv, RecordInv, TaskTypes, RecordTypes, MissionOK, StepSample
<1>3. Recording = record_state /\ RecordBegin = record
  BY DEF Recording, RecordBegin
<1>4. MissionTerminal(mission) <=> ~MissionActive(mission)
  BY <1>1 DEF MissionTerminal, MissionActive, Leg
<1>5. HandsOver <=> MissionTerminal(mission) /\ RecordCapacity > 0
  <2>1. MissionTerminal(mission) => mission.state # prev.state
    BY DEF MissionTerminal, MissionActive, Leg
  <2>2. QED BY <1>1, <1>3, <2>1 DEF HandsOver, Changed
<1>6. /\ record' = IF HandsOver THEN [WithSample EXCEPT !.final = x] ELSE WithSample
      /\ record_state' = IF HandsOver THEN "SAVING" ELSE record_state
      /\ save_pending' = (save_pending \/ HandsOver)
      /\ prev' = x /\ step_pc' = "status" /\ UNCHANGED <<mission, diag_pc>>
  BY <1>3 DEF RecordStep, TaskFrame, diagVars
<1>7. Sampled <=> RecordCapacity > 0
  BY <1>1, <1>3 DEF Sampled
<1>8. /\ WithSample \in [run_id : Nat, samples : Seq(StepSample), overflow : BOOLEAN, final : StepSample]
      /\ WithSample.run_id = run
      /\ RecordCapacity > 0 =>
           \/ WithSample.samples = q /\ WithSample.overflow
           \/ WithSample.samples = Append(q, x)
  <2>1. CASE ~(RecordCapacity > 0)
    BY <1>1, <1>3, <1>7, <2>1 DEF WithSample, RecordInv, RecordTypes
  <2>2. CASE RecordCapacity > 0 /\ Len(q) >= RecordCapacity
    BY <1>1, <1>3, <1>7, <2>2 DEF WithSample, RecordInv, RecordTypes
  <2>3. CASE RecordCapacity > 0 /\ ~(Len(q) >= RecordCapacity)
    <3>1. WithSample = [record EXCEPT !.samples = Append(q, x)]
      BY <1>3, <1>7, <2>3 DEF WithSample
    <3>2. Append(q, x) \in Seq(StepSample)
      BY <1>2, SamplesAppend
    <3>3. QED BY <1>1, <3>1, <3>2 DEF RecordInv, RecordTypes
  <2>4. QED BY <2>1, <2>2, <2>3
<1> HIDE DEF x, q
<1>9. /\ record' \in [run_id : Nat, samples : Seq(StepSample), overflow : BOOLEAN, final : StepSample]
      /\ record'.run_id = run /\ record'.samples = WithSample.samples /\ record'.overflow = WithSample.overflow
      /\ HandsOver => record'.final = x
  BY <1>2, <1>6, <1>8
<1>10. prev'.run_id = run /\ prev'.state = mission.state /\ x.run_id = run
  BY <1>1, <1>6 DEF x
<1>11. RecordTypes'
  <2>1. save_pending' \in BOOLEAN
    BY <1>6
  <2>2. QED BY <1>2, <1>6, <1>9, <2>1 DEF RecordTypes
<1>12. PrevBehind'
  BY <1>1, <1>6, <1>10 DEF PrevBehind
<1>13. ASSUME RecordCapacity > 0
       PROVE  /\ record'.samples # << >> /\ record'.samples[1].state = "HOME"
              /\ \A i \in DOMAIN record'.samples : record'.samples[i].run_id = run
              /\ record'.overflow \/ record'.samples[Len(record'.samples)] = x
  <2>1. /\ q # << >> /\ q[1].state = "HOME" /\ \A i \in DOMAIN q : q[i].run_id = run
    BY <1>1, <1>13 DEF SamplesOf, q
  <2>2. CASE record'.samples = q /\ record'.overflow
    BY <2>1, <2>2
  <2>3. CASE record'.samples = Append(q, x)
    <3>1. /\ Append(q, x) # << >> /\ DOMAIN Append(q, x) = 1 .. Len(q) + 1 /\ DOMAIN q = 1 .. Len(q)
          /\ \A i \in 1 .. Len(q) : Append(q, x)[i] = q[i]
          /\ Append(q, x)[Len(q) + 1] = x /\ Len(Append(q, x)) = Len(q) + 1
          /\ Len(q) \in Nat /\ Len(q) >= 1
      BY <1>2, <2>1, SamplesAppend
    <3>2. record'.samples[1].state = "HOME"
      BY <2>1, <2>3, <3>1
    <3>3. \A i \in DOMAIN record'.samples : record'.samples[i].run_id = run
      <4> TAKE i \in DOMAIN record'.samples
      <4>1. CASE i \in 1 .. Len(q)
        BY <2>1, <2>3, <3>1, <4>1
      <4>2. CASE i = Len(q) + 1
        BY <1>10, <2>3, <3>1, <4>2
      <4>3. QED BY <2>3, <3>1, <4>1, <4>2
    <3>4. QED BY <2>3, <3>1, <3>2, <3>3
  <2>4. QED BY <1>8, <1>9, <1>13, <2>2, <2>3
<1>14. BeingRecorded'
  <2>1. record'.run_id <= prev'.run_id
    BY <1>2, <1>9, <1>10
  <2>2. ASSUME MissionActive(prev)'
        PROVE  /\ record_state' = IF RecordCapacity > 0 THEN "RECORDING" ELSE "UNAVAILABLE"
               /\ ~save_pending'
    <3>1. MissionActive(mission)
      BY <1>10, <2>2 DEF MissionActive
    <3>2. ~HandsOver
      BY <1>4, <1>5, <3>1
    <3>3. QED BY <1>1, <1>6, <3>2
  <2>3. RecordCapacity > 0 => SamplesOf(prev.run_id)'
    BY <1>10, <1>13 DEF SamplesOf
  <2>4. QED BY <1>9, <1>10, <2>1, <2>2, <2>3 DEF BeingRecorded, SamplesOf
<1>15. BeingSaved'
  <2>1. diag_pc' \notin {"write", "written"} /\ step_pc' # "step"
    BY <1>1, <1>6 DEF RecordInv, BeingSaved
  <2>2. CASE HandsOver
    <3>1. record'.final = x /\ record'.final.run_id = run
      BY <1>9, <1>10, <2>2
    <3>2. RecordIsOneRun'
      BY <1>5, <1>13, <2>2, <3>1 DEF RecordIsOneRun
    <3>3. QED BY <2>1, <3>2 DEF BeingSaved
  <2>3. CASE ~HandsOver
    BY <1>1, <1>6, <2>1, <2>3 DEF BeingSaved, RecordIsOneRun
  <2>4. QED BY <2>2, <2>3
<1>16. QED BY <1>11, <1>12, <1>14, <1>15 DEF RecordInv

LEMMA RecordStepRecord ==
  ASSUME RecordInv, RunsInv, RecordStep
  PROVE  RecordInv'
<1>1. CASE NewRunActive
  BY <1>1, RecordBegins
<1>2. CASE ~NewRunActive /\ MissionActive(prev)
  BY <1>2, RecordGoesOn
<1>3. CASE ~NewRunActive /\ ~MissionActive(prev)
  <2>1. ~MissionActive(mission)
    <3>1. prev.run_id \in Nat
      BY DEF RecordStep, RecordInv, RecordTypes, StepSample
    <3>2. CASE mission.run_id = prev.run_id /\ mission.state = prev.state
      BY <1>3, <3>2 DEF MissionActive
    <3>3. CASE mission.run_id = prev.run_id + 1
      <4>1. mission.run_id # prev.run_id
        BY <3>1, <3>3
      <4>2. QED BY <1>3, <4>1 DEF NewRunActive
    <3>4. QED BY <1>3, <3>2, <3>3 DEF RecordStep, RecordInv, PrevBehind
  <2>2. UNCHANGED <<record, record_state, save_pending>>
    BY <1>3, <2>1, RecordQuiet
  <2>3. /\ step_pc' = "status" /\ prev' = [run_id |-> mission.run_id, state |-> mission.state]
        /\ UNCHANGED <<mission, diag_pc>>
    BY DEF RecordStep, TaskFrame, diagVars
  <2>4. mission.run_id \in Nat /\ mission.state \in MissionState
    BY DEF RunsInv, TaskTypes, MissionOK
  <2>5. RecordTypes'
    BY <2>2, <2>3, <2>4 DEF RecordInv, RecordTypes, StepSample
  <2>6. PrevBehind'
    BY <2>3 DEF PrevBehind
  <2>7. BeingRecorded'
    <3>1. ~MissionActive(prev)'
      BY <2>1, <2>3 DEF MissionActive
    <3>2. prev.run_id <= prev'.run_id /\ prev.run_id \in Nat /\ record.run_id \in Nat
      BY <2>3 DEF RecordStep, RecordInv, RecordTypes, StepSample, PrevBehind
    <3>3. record'.run_id <= prev'.run_id
      BY <2>2, <2>3, <2>4, <3>2 DEF RecordInv, BeingRecorded
    <3>4. QED BY <3>1, <3>3 DEF BeingRecorded
  <2>8. BeingSaved'
    BY <2>2, <2>3 DEF RecordInv, BeingSaved, RecordIsOneRun
  <2>9. QED BY <2>5, <2>6, <2>7, <2>8 DEF RecordInv
<1>4. QED BY <1>1, <1>2, <1>3

LEMMA RunsInvStep == RunsInv /\ [Next]_vars => RunsInv'
  BY StepRuns, CycleRuns, CommandsRuns, TaskRuns, DiagnosticsRuns DEF Next, MissionTask

LEMMA RecordInvStep == RunsInv /\ RecordInv /\ [Next]_vars => RecordInv'
  BY CommandsRecord, DiagnosticsRecord, StepRecord, RecordStepRecord DEF Next, MissionTask

(* What is written to the card is one run whole, whatever commands come in *)
(* between and for any size of the buffer; and a run under way keeps       *)
(* recording (record_begin, record_sample, autonomy_diagnostics_tick).     *)
THEOREM RecordsStayOneRun == Spec => [](RecordIsOneRun /\ RecordingGoesOn)
<1>1. RecordInv => RecordIsOneRun
  BY DEF RecordInv, BeingSaved
<1>2. RecordInv => RecordingGoesOn
  BY DEF RecordInv, PrevBehind, BeingRecorded, RecordingGoesOn, MissionActive
<1>3. QED BY <1>1, <1>2, RunsInvInit, RunsInvStep, RecordInvInit, RecordInvStep, PTL DEF Spec

(* The mission task leaves the buffer alone while Diagnostics writes it,   *)
(* although neither waits for the other (s_save_pending, autonomy.c).      *)
THEOREM BufferStaysUnshared == Spec => BufferNotShared
<1>1. RunsInv /\ RecordInv /\ [Next]_vars => [diag_pc = "write" => UNCHANGED record]_vars
  <2> SUFFICES ASSUME RunsInv, RecordInv, Next, diag_pc = "write"
               PROVE  record' = record
    OBVIOUS
  <2>1. save_pending
    BY DEF RecordInv, BeingSaved
  <2>2. CASE RecordStep
    <3>1. ~MissionActive(prev)
      BY <2>1 DEF RecordInv, BeingRecorded
    <3>2. ~MissionActive(mission)
      BY <2>1, <2>2, <3>1
         DEF RecordStep, RecordInv, PrevBehind, MissionActive, MissionTerminal, Leg
    <3>3. QED BY <2>2, <3>1, <3>2, RecordQuiet
  <2>3. CASE ~RecordStep
    BY <2>3 DEF Next, MissionTask, StartCommand, StopRequested, StopRecorded, TakeCommand, GatherInputs,
                StepMission, CommitStatus, Diagnostics, DiagWake, WriteRecord, ReleaseRecord, PublishStatus,
                ControlCycle, RxFrame, recordVars
  <2>4. QED BY <2>2, <2>3
<1>2. QED BY <1>1, RunsInvInit, RunsInvStep, RecordInvInit, RecordInvStep, PTL DEF Spec, BufferNotShared

-------------------------------------------------------------------------------
(***************************************************************************)
(* A stopped run and the jets.                                             *)
(***************************************************************************)
StopInHand == rx_pc \in {"stop", "stop_late"} \/ command.stop

(* A pass that took its commands steps the mission before the next one.    *)
StepAhead == IF step_pc \in {"gather", "step"} THEN 1 ELSE 0

(* The STOP reaches the mission task while the run still looks for home.   *)
StopComing ==
  /\ mission.state = "HOME"
  /\ \/ step_pc \in {"gather", "step"} /\ input.stop
     \/ (rx_pc = "stop_late" \/ command.stop) /\ mission.home_n + StepAhead < HomeFixes
     \/ rx_pc = "stop" /\ mission.home_n + StepAhead + 1 < HomeFixes

StoppedRuns ==
  /\ MissionActive(mission) => mission.run_id >= 1
  /\ stopped \subseteq 1 .. mission.run_id + 1
  /\ rx_pc \in {"wait", "stop", "stop_late"}

(* A STOP meant for the run about to begin is still in hand.               *)
NextRunStopped == mission.run_id + 1 \in stopped => Beginning /\ StopInHand

(* A STOP meant for the run under way ends it before its first leg: in the *)
(* control task, if it has not seen it yet, or in the mission task.        *)
ThisRunStopped ==
  mission.run_id \in stopped /\ MissionActive(mission) =>
    auto_stop \/ aborted_run = mission.run_id \/ StopComing

StopInv == StoppedRuns /\ NextRunStopped /\ ThisRunStopped

LEMMA HomeCounts ==
  ASSUME NEW m, MissionOK(m), m.state = "HOME", m.home_n + 1 < HomeFixes, NEW at
  PROVE  LET n == StepHome(m, at) IN
         n.state = "ABORTED" \/ (n.state = "HOME" /\ n.home_n <= m.home_n + 1)
<1>1. ASSUME NEW n, MissionOK(n), n.state = "HOME", n.home_n <= m.home_n + 1
      PROVE  LET t == HomeTimeout(n, at) IN
             t.state = "ABORTED" \/ (t.state = "HOME" /\ t.home_n <= m.home_n + 1)
  <2>1. Finish(n, "ABORTED", "HOME_NOT_STILL").state = "ABORTED"
    BY <1>1 DEF Finish, MissionOK
  <2>2. HomeTimeout(n, at) \in {n, Finish(n, "ABORTED", "HOME_NOT_STILL")}
    BY DEF HomeTimeout
  <2>3. QED BY <1>1, <2>1, <2>2
<1>2. CASE ~at.gps_new
  <2>1. StepHome(m, at) = HomeTimeout(m, at) /\ m.home_n <= m.home_n + 1
    BY <1>2 DEF StepHome, MissionOK
  <2>2. QED BY <1>1, <2>1
<1>3. CASE at.gps_new
  <2> DEFINE n == [m EXCEPT !.home_n = m.home_n + 1]
  <2>1. StepHome(m, at) = HomeTimeout(n, at)
    BY <1>3 DEF StepHome
  <2>2. m.home_n + 1 \in Nat
    BY DEF MissionOK
  <2>3. ASSUME NEW k \in Nat
        PROVE  LET c == [m EXCEPT !.home_n = k] IN MissionOK(c) /\ c.state = "HOME" /\ c.home_n = k
    BY <2>3 DEF MissionOK
  <2>4. MissionOK(n) /\ n.state = "HOME" /\ n.home_n = m.home_n + 1
    BY <2>2, <2>3
  <2> HIDE DEF n
  <2>5. QED BY <1>1, <2>1, <2>2, <2>4
<1>4. QED BY <1>2, <1>3

LEMMA ActiveStops ==
  ASSUME NEW m, MissionOK(m), NEW in, NEW at, MissionActive(m),
         MissionActive(StepActive(m, in, at))
  PROVE  LET n == StepActive(m, in, at) IN
         /\ ~in.stop
         /\ m.state = "HOME" /\ m.home_n + 1 < HomeFixes
              => n.state = "HOME" /\ n.home_n <= m.home_n + 1
<1>1. StepAbort(m, in, at) = "NONE"
  <2> SUFFICES ASSUME StepAbort(m, in, at) # "NONE"
               PROVE  FALSE
    OBVIOUS
  <2>1. StepActive(m, in, at).state = "ABORTED"
    BY DEF StepActive, Finish, MissionOK
  <2>2. QED BY <2>1 DEF MissionActive, Leg
<1>2. ~in.stop
  BY <1>1 DEF StepAbort
<1>3. StepActive(m, in, at) = StepLeg(m, at)
  BY <1>1 DEF StepActive
<1>4. m.state = "HOME" => StepLeg(m, at) = StepHome(m, at)
  BY DEF StepLeg
<1>5. QED BY <1>2, <1>3, <1>4, HomeCounts DEF MissionActive, Leg

LEMMA StepStops ==
  ASSUME HomeFixes > 2, NEW m, MissionOK(m), NEW in, InputOK(in), NEW at,
         MissionActive(MissionStep(m, in, at))
  PROVE  LET n == MissionStep(m, in, at) IN
         /\ StartTaken(m, in) => n.state = "HOME" /\ n.home_n <= 1
         /\ ~StartTaken(m, in) =>
              /\ MissionActive(m) /\ ~in.stop
              /\ m.state = "HOME" /\ m.home_n + 1 < HomeFixes
                   => n.state = "HOME" /\ n.home_n <= m.home_n + 1
<1> DEFINE n == MissionStep(m, in, at)
           h == HandleStart(m, in, at)
<1>1. CASE ~StartTaken(m, in)
  <2>1. n = StepActive(m, in, at)
    BY <1>1 DEF HandleStart, MissionStep
  <2>2. MissionActive(m)
    BY <2>1 DEF StepActive
  <2>3. QED BY <1>1, <2>1, <2>2, ActiveStops
<1>2. CASE StartTaken(m, in)
  <2>1. MissionOK(NewRun(m, in)) /\ NewRun(m, in).home_n = 0
    <3>1. MissionOK(MissionInit) /\ MissionInit.home_n = 0
      <4>1. NotConfirmed \in [ArrivalRule -> Nat] /\ "NONE" \in MissionReason /\ 0 \in 0 .. MaxRequests
        BY MissionAssumption DEF NotConfirmed, MissionReason, AbortReason
      <4>2. QED BY <4>1 DEF MissionOK, MissionInit, MissionState, Stage
    <3>2. m.run_id + 1 \in Nat
      BY DEF MissionOK
    <3>3. QED BY <3>1, <3>2 DEF InputOK, MissionOK, NewRun
  <2>2. CASE Refusal(in, at) # "NONE"
    <3>1. h.state = "REFUSED"
      BY <1>2, <2>1, <2>2 DEF HandleStart, Finish, MissionOK
    <3>2. n = h
      BY <3>1 DEF MissionStep, StepActive, MissionActive, Leg
    <3>3. QED BY <3>1, <3>2 DEF MissionActive, Leg
  <2>3. CASE Refusal(in, at) = "NONE"
    <3>1. h = [NewRun(m, in) EXCEPT !.state = "HOME"]
      BY <1>2, <2>3 DEF HandleStart
    <3>2. MissionOK(h) /\ h.state = "HOME" /\ h.home_n = 0
      BY <2>1, <3>1 DEF MissionOK, MissionState
    <3>3. n = StepActive(h, in, at) /\ MissionActive(h)
      BY <3>2 DEF MissionStep, MissionActive
    <3>4. 0 + 1 < HomeFixes
      BY MissionAssumption
    <3>5. QED BY <1>2, <3>2, <3>3, <3>4, ActiveStops
  <2>4. QED BY <2>2, <2>3
<1>3. QED BY <1>1, <1>2

LEMMA StopInvInit == Init => StopInv
  BY DEF Init, StopInv, StoppedRuns, NextRunStopped, ThisRunStopped, MissionInit, MissionActive, Leg

(* The receiving task: a STOP takes the control task's flag with it, and   *)
(* is recorded for the mission task afterwards.                            *)
LEMMA CommandsStop ==
  ASSUME RunsInv, StopInv, StartCommand \/ StopRequested \/ StopRecorded
  PROVE  StopInv'
<1>1. UNCHANGED <<mission, input, step_pc, aborted_run>>
  BY DEF StartCommand, StopRequested, StopRecorded, RxFrame, taskVars
<1>2. mission.run_id \in Nat /\ mission.home_n \in Nat /\ StepAhead \in Nat /\ HomeFixes \in Nat
  BY MissionAssumption DEF RunsInv, TaskTypes, MissionOK, StepAhead
<1>3. (MissionActive(mission) <=> MissionActive(mission)') /\ (Beginning <=> Beginning') /\ StepAhead' = StepAhead
  BY <1>1 DEF MissionActive, Beginning, StartTaken, StepAhead
<1>4. CASE StartCommand
  <2>1. command'.stop = command.stop
    BY <1>4 DEF StartCommand, RunsInv, TaskTypes
  <2>2. UNCHANGED <<rx_pc, stopped, auto_stop>>
    BY <1>4 DEF StartCommand
  <2>3. QED BY <1>1, <1>3, <2>1, <2>2
            DEF StopInv, StoppedRuns, NextRunStopped, ThisRunStopped, StopInHand, StopComing
<1>5. CASE StopRequested
  <2>1. /\ rx_pc' = "stop" /\ auto_stop' = TRUE /\ command' = command
        /\ stopped' = stopped \cup (IF MissionActive(mission) THEN {mission.run_id}
                                    ELSE IF Beginning THEN {mission.run_id + 1} ELSE {})
    BY <1>5 DEF StopRequested
  <2>2. StoppedRuns'
    <3>1. MissionActive(mission) => mission.run_id \in 1 .. mission.run_id + 1
      BY <1>2 DEF StopInv, StoppedRuns
    <3>2. mission.run_id + 1 \in 1 .. mission.run_id + 1
      BY <1>2
    <3>3. stopped' \subseteq 1 .. mission.run_id + 1
      BY <2>1, <3>1, <3>2 DEF StopInv, StoppedRuns
    <3>4. QED BY <1>1, <1>3, <2>1, <3>3 DEF StopInv, StoppedRuns
  <2>3. NextRunStopped'
    <3>1. mission.run_id + 1 # mission.run_id
      BY <1>2
    <3>2. mission.run_id + 1 \in stopped' => Beginning
      BY <2>1, <3>1 DEF StopInv, NextRunStopped
    <3>3. QED BY <1>1, <1>3, <2>1, <3>2 DEF NextRunStopped, StopInHand
  <2>4. ThisRunStopped'
    BY <2>1 DEF ThisRunStopped
  <2>5. QED BY <2>2, <2>3, <2>4 DEF StopInv
<1>6. CASE StopRecorded
  <2>1. /\ rx_pc \in {"stop", "stop_late"} /\ rx_pc' = "wait" /\ command'.stop
        /\ UNCHANGED <<stopped, auto_stop>>
    BY <1>6 DEF StopRecorded, NoCommand
  <2>2. StopComing => StopComing'
    <3>1. rx_pc = "stop" /\ mission.home_n + StepAhead + 1 < HomeFixes => mission.home_n + StepAhead < HomeFixes
      BY <1>2
    <3>2. QED BY <1>1, <1>3, <2>1, <3>1 DEF StopComing
  <2>3. StoppedRuns' /\ NextRunStopped'
    BY <1>1, <1>3, <2>1 DEF StopInv, StoppedRuns, NextRunStopped, StopInHand
  <2>4. ThisRunStopped'
    BY <1>1, <1>3, <2>1, <2>2 DEF StopInv, ThisRunStopped
  <2>5. QED BY <2>3, <2>4 DEF StopInv
<1>7. QED BY <1>4, <1>5, <1>6

(* The pass takes the STOP it finds; one it just misses is a pass late.    *)
LEMMA TakeStop ==
  ASSUME RunsInv, StopInv, TakeCommand
  PROVE  StopInv'
<1>1. /\ step_pc = "wait" /\ rx_pc # "stop_late" /\ step_pc' = "gather"
      /\ input' = CommandTaken /\ command' = NoCommand
      /\ rx_pc' = IF rx_pc = "stop" THEN "stop_late" ELSE rx_pc
      /\ stopped' = IF rx_pc = "stop" /\ StartTaken(mission, CommandTaken)
                      THEN stopped \cup {mission.run_id + 1} ELSE stopped
      /\ UNCHANGED <<mission, auto_stop, aborted_run>>
  BY DEF TakeCommand, controlVars
<1>2. /\ mission.run_id \in Nat /\ mission.home_n \in Nat /\ StepAhead = 0 /\ StepAhead' = 1
      /\ (MissionActive(mission) <=> MissionActive(mission)')
  BY <1>1 DEF RunsInv, TaskTypes, MissionOK, StepAhead, MissionActive
<1>3. mission.run_id + 1 \notin stopped
  BY <1>1 DEF StopInv, NextRunStopped, Beginning
<1>4. StoppedRuns'
  <2>1. mission.run_id + 1 \in 1 .. mission.run_id + 1
    BY <1>2
  <2>2. QED BY <1>1, <1>2, <2>1 DEF StopInv, StoppedRuns
<1>5. NextRunStopped'
  <2> SUFFICES ASSUME (mission.run_id + 1 \in stopped)'
               PROVE  Beginning' /\ StopInHand'
    BY DEF NextRunStopped
  <2>1. rx_pc = "stop" /\ StartTaken(mission, CommandTaken)
    BY <1>1, <1>3
  <2>2. QED BY <1>1, <2>1 DEF Beginning, StopInHand
<1>6. StopComing => StopComing'
  <2>1. input'.stop = command.stop
    BY <1>1 DEF CommandTaken, NoInput
  <2>2. rx_pc = "stop" /\ mission.home_n + StepAhead + 1 < HomeFixes => mission.home_n + StepAhead' < HomeFixes
    BY <1>2
  <2>3. QED BY <1>1, <2>1, <2>2 DEF StopComing
<1>7. ThisRunStopped'
  <2>1. mission.run_id \in stopped' => mission.run_id \in stopped
    BY <1>1, <1>2
  <2>2. QED BY <1>1, <1>2, <1>6, <2>1 DEF StopInv, ThisRunStopped
<1>8. QED BY <1>4, <1>5, <1>7 DEF StopInv

(* A run that begins is in HOME with one fix at most, so that a STOP still *)
(* in hand finds it there.                                                 *)
LEMMA StepStop ==
  ASSUME HomeFixes > 2, RunsInv, StopInv, StepMission
  PROVE  StopInv'
<1>1. /\ step_pc = "step" /\ step_pc' = "record"
      /\ UNCHANGED <<command, rx_pc, stopped, auto_stop, aborted_run>>
  BY DEF StepMission, TaskFrame, controlVars
<1>2. PICK at \in Situations : mission' = MissionStep(mission, input, at)
  BY DEF StepMission
<1>3. MissionOK(mission) /\ InputOK(input)
  BY DEF RunsInv, TaskTypes
<1>4. /\ MissionOK(mission')
      /\ ~StartTaken(mission, input) => mission'.run_id = mission.run_id
      /\ StartTaken(mission, input) => mission'.run_id = mission.run_id + 1
  BY <1>2, <1>3, StepFollows DEF Follows
<1>5. MissionActive(mission') =>
        /\ StartTaken(mission, input) => mission'.state = "HOME" /\ mission'.home_n <= 1
        /\ ~StartTaken(mission, input) =>
             /\ MissionActive(mission) /\ ~input.stop
             /\ mission.state = "HOME" /\ mission.home_n + 1 < HomeFixes
                  => mission'.state = "HOME" /\ mission'.home_n <= mission.home_n + 1
  BY <1>2, <1>3, StepStops
<1>6. /\ mission.run_id \in Nat /\ mission.home_n \in Nat /\ mission'.home_n \in Nat
      /\ HomeFixes \in Nat /\ StepAhead = 1 /\ StepAhead' = 0
  BY <1>1, <1>3, <1>4, MissionAssumption DEF MissionOK, StepAhead
<1>7. CASE StartTaken(mission, input)
  <2>1. ~MissionActive(mission) /\ mission'.run_id = mission.run_id + 1
    BY <1>4, <1>7 DEF StartTaken
  <2>2. StoppedRuns'
    BY <1>1, <1>6, <2>1 DEF StopInv, StoppedRuns
  <2>3. NextRunStopped'
    BY <1>1, <1>6, <2>1 DEF StopInv, StoppedRuns, NextRunStopped
  <2>4. ThisRunStopped'
    <3> SUFFICES ASSUME mission'.run_id \in stopped, MissionActive(mission')
                 PROVE  StopComing'
      BY <1>1 DEF ThisRunStopped
    <3>1. StopInHand /\ mission'.state = "HOME" /\ mission'.home_n <= 1
      BY <1>5, <1>7, <2>1 DEF StopInv, NextRunStopped
    <3>2. mission'.home_n + StepAhead' < HomeFixes /\ mission'.home_n + StepAhead' + 1 < HomeFixes
      BY <1>6, <3>1
    <3>3. QED BY <1>1, <3>1, <3>2 DEF StopInHand, StopComing
  <2>5. QED BY <2>2, <2>3, <2>4 DEF StopInv
<1>8. CASE ~StartTaken(mission, input)
  <2>1. mission'.run_id = mission.run_id /\ (MissionActive(mission') => MissionActive(mission))
    BY <1>4, <1>5, <1>8
  <2>2. StoppedRuns'
    BY <1>1, <2>1 DEF StopInv, StoppedRuns
  <2>3. NextRunStopped'
    BY <1>1, <1>8, <2>1 DEF StopInv, NextRunStopped, Beginning
  <2>4. ThisRunStopped'
    <3> SUFFICES ASSUME mission.run_id \in stopped, MissionActive(mission'), StopComing
                 PROVE  StopComing'
      BY <1>1, <2>1 DEF StopInv, ThisRunStopped
    <3>1. /\ mission.state = "HOME" /\ mission.home_n + 1 < HomeFixes
          /\ \/ rx_pc = "stop_late" \/ command.stop
             \/ rx_pc = "stop" /\ mission.home_n + 1 + 1 < HomeFixes
      BY <1>5, <1>6, <1>8 DEF StopComing
    <3>2. mission'.state = "HOME" /\ mission'.home_n <= mission.home_n + 1
      BY <1>5, <1>8, <3>1
    <3>3. QED BY <1>1, <1>6, <3>1, <3>2 DEF StopComing
  <2>5. QED BY <2>2, <2>3, <2>4 DEF StopInv
<1>9. QED BY <1>7, <1>8

(* The control task sees a STOP in its next cycle and ends what is         *)
(* offered; a run that is offered and drives is on a leg.                  *)
LEMMA CycleStop ==
  ASSUME RunsInv, StopInv, ControlCycle
  PROVE  StopInv' /\ Driving(auto_out') \notin stopped
<1> DEFINE run == mission.run_id
<1>1. PICK in \in ControlInputs, sp \in {setpoint, AgeSetpoint(setpoint)} :
        /\ auto_out' = AutoStep(sp, aborted_run,
                         [stop_request |-> auto_stop, manual_input |-> in.manual_input,
                          rail_cut |-> in.rail_cut, other_owner |-> in.other_owner, armed |-> in.armed])
        /\ aborted_run' = IF auto_out'.abort = "NONE" THEN aborted_run ELSE auto_out'.run_id
        /\ auto_stop' = FALSE
        /\ UNCHANGED <<mission, input, command, step_pc, rx_pc, stopped>>
  BY DEF ControlCycle, taskVars, rxVars
<1>2. /\ sp.run_id = run /\ (sp.active <=> MissionActive(mission))
      /\ sp.drive <=> mission.state \in Leg /\ ~mission.dry_run
  BY DEF RunsInv, ControlTypes, SetpointFollows, AgeSetpoint
<1> DEFINE with == [stop_request |-> auto_stop, manual_input |-> in.manual_input,
                    rail_cut |-> in.rail_cut, other_owner |-> in.other_owner, armed |-> in.armed]
           why == AbortFor(sp, with)
<1>3. auto_stop => why = "STOP"
  BY DEF AbortFor
<1>4. 0 \notin stopped /\ (MissionActive(mission) => run # 0)
  BY DEF StopInv, StoppedRuns
<1>5. CASE ~Offered(sp, aborted_run)
  <2>1. auto_out' = AutoOutInit
    BY <1>1, <1>5 DEF AutoStep
  <2>2. aborted_run' = aborted_run /\ Driving(auto_out') = 0
    BY <1>1, <2>1 DEF AutoOutInit, Driving
  <2>3. MissionActive(mission) => aborted_run = run
    BY <1>2, <1>4, <1>5 DEF Offered
  <2>4. ThisRunStopped'
    BY <1>1, <2>2, <2>3 DEF ThisRunStopped
  <2>5. StoppedRuns' /\ NextRunStopped'
    BY <1>1 DEF StopInv, StoppedRuns, NextRunStopped, Beginning, StopInHand
  <2>6. QED BY <1>4, <2>2, <2>4, <2>5 DEF StopInv
<1>6. CASE Offered(sp, aborted_run)
  <2>1. auto_out' = [own |-> why = "NONE",
                     drive |-> why = "NONE" /\ sp.drive /\ ~sp.dry_run /\ with.armed,
                     run_id |-> run, abort |-> why]
    BY <1>1, <1>2, <1>6, Zenon DEF AutoStep
  <2>2. /\ auto_out'.abort = why /\ auto_out'.run_id = run
        /\ auto_out'.drive => why = "NONE" /\ sp.drive
    BY <2>1
  <2>3. aborted_run # run /\ (why # "NONE" => aborted_run' = run)
    BY <1>1, <1>2, <1>6, <2>2 DEF Offered
  <2>4. StopComing => StopComing'
    BY <1>1 DEF StopComing, StepAhead
  <2>5. ThisRunStopped'
    BY <1>1, <1>3, <2>3, <2>4 DEF StopInv, ThisRunStopped
  <2>6. StoppedRuns' /\ NextRunStopped'
    BY <1>1 DEF StopInv, StoppedRuns, NextRunStopped, Beginning, StopInHand
  <2>7. Driving(auto_out') \notin stopped
    <3>1. CASE ~auto_out'.drive
      BY <1>4, <3>1 DEF Driving
    <3>2. CASE auto_out'.drive
      <4>1. ~auto_stop /\ mission.state \in Leg
        BY <1>2, <1>3, <2>2, <3>2
      <4>2. MissionActive(mission) /\ ~StopComing
        BY <4>1 DEF MissionActive, Leg, StopComing
      <4>3. run \notin stopped
        BY <2>3, <4>1, <4>2 DEF StopInv, ThisRunStopped
      <4>4. QED BY <2>2, <3>2, <4>3 DEF Driving
    <3>3. QED BY <3>1, <3>2
  <2>8. QED BY <2>5, <2>6, <2>7 DEF StopInv
<1>7. QED BY <1>5, <1>6

LEMMA OthersStop ==
  ASSUME RunsInv, StopInv,
         GatherInputs \/ RecordStep \/ CommitStatus \/ Diagnostics \/ UNCHANGED vars
  PROVE  StopInv'
<1>1. UNCHANGED <<mission, command, rx_pc, stopped, auto_stop, aborted_run>>
  BY DEF GatherInputs, RecordStep, CommitStatus, TaskFrame, Diagnostics, DiagWake, WriteRecord, ReleaseRecord,
         PublishStatus, DiagFrame, rxVars, taskVars, controlVars, vars
<1>2. CASE GatherInputs
  <2>1. /\ step_pc = "gather" /\ step_pc' = "step"
        /\ input'.start = input.start /\ input'.stop = input.stop /\ input'.request_id = input.request_id
    BY <1>2 DEF GatherInputs
  <2>2. (Beginning <=> Beginning') /\ StepAhead' = StepAhead
    BY <1>1, <2>1 DEF Beginning, StartTaken, StepAhead
  <2>3. QED BY <1>1, <2>1, <2>2
            DEF StopInv, StoppedRuns, NextRunStopped, ThisRunStopped, StopInHand, StopComing
<1>3. CASE RecordStep \/ CommitStatus
  <2>1. step_pc \notin {"gather", "step"} /\ step_pc' \notin {"gather", "step"}
    BY <1>3 DEF RecordStep, CommitStatus
  <2>2. QED BY <1>1, <2>1
            DEF StopInv, StoppedRuns, NextRunStopped, ThisRunStopped, Beginning, StopComing, StepAhead
<1>4. CASE Diagnostics \/ UNCHANGED vars
  <2>1. UNCHANGED <<step_pc, input>>
    BY <1>4 DEF Diagnostics, DiagWake, WriteRecord, ReleaseRecord, PublishStatus, DiagFrame, taskVars, vars
  <2>2. QED BY <1>1, <2>1
            DEF StopInv, StoppedRuns, NextRunStopped, ThisRunStopped, Beginning, StopInHand, StopComing, StepAhead
<1>5. QED BY <1>2, <1>3, <1>4

(* However the STOP falls between the passes of the mission task and the   *)
(* cycles of the control task, the run it was meant for never drives       *)
(* again: mission_command_handler tells the control task first, and where  *)
(* that was too early - the run had not reached it yet - the run is still  *)
(* in HOME when the mission task's copy arrives.  That takes three home    *)
(* fixes (home_fixes is 15, mission.c:28): with two, a pass that misses    *)
(* the STOP finishes HOME before the next one reads it.                    *)
THEOREM StopWins ==
  ASSUME HomeFixes > 2
  PROVE  Spec => StoppedRunNeverDrives
<1>1. RunsInv /\ StopInv /\ [Next]_vars => StopInv'
  BY CommandsStop, TakeStop, StepStop, CycleStop, OthersStop DEF Next, MissionTask
<1>2. RunsInv /\ StopInv /\ [Next]_vars => [ControlCycle => Driving(auto_out') \notin stopped]_vars
  BY CycleStop
<1>3. QED BY <1>1, <1>2, RunsInvInit, RunsInvStep, StopInvInit, PTL DEF Spec, StoppedRunNeverDrives

-------------------------------------------------------------------------------
(***************************************************************************)
(* The types, and what bounds the counters of a run.                       *)
(***************************************************************************)
Counted(m) ==
  /\ m.home_n <= HomeFixes /\ m.frozen_count <= FrozenFixes /\ m.outlier_run <= JumpAcceptFixes
  /\ \A rule \in ArrivalRule : m.confirmed[rule] <= ArriveFixes

(* No rule has confirmed the arrival of a run under way.                   *)
StillCounting(m) == MissionActive(m) => \A rule \in ArrivalRule : m.confirmed[rule] < ArriveFixes

Bounded(m) == MissionOK(m) /\ Counted(m) /\ StillCounting(m)

LEMMA UpdateBounded ==
  ASSUME NEW m, Bounded(m), m.frozen_count < FrozenFixes, NEW at
  PROVE  LET u == UpdatePosition(m, at) IN
         Bounded(u) /\ u.state = m.state /\ u.confirmed = m.confirmed
<1> DEFINE frozen == IF at.still THEN m.frozen_count + 1 ELSE 0
           outlier == IF GoodFix(m, at) THEN 0 ELSE m.outlier_run + 1
           u == [m EXCEPT !.frozen_count = frozen, !.outlier_run = outlier]
<1>1. /\ m.frozen_count \in Nat /\ m.outlier_run \in Nat
      /\ FrozenFixes \in Nat /\ JumpAcceptFixes \in Nat
  BY MissionAssumption DEF Bounded, MissionOK
<1>2. frozen \in Nat /\ frozen <= FrozenFixes
  BY <1>1
<1>3. outlier \in Nat /\ outlier <= JumpAcceptFixes
  BY <1>1 DEF GoodFix
<1>4. UpdatePosition(m, at) = u
  BY DEF UpdatePosition
<1> HIDE DEF frozen, outlier
<1>5. /\ MissionOK(u) /\ u.state = m.state /\ u.confirmed = m.confirmed /\ u.home_n = m.home_n
      /\ u.frozen_count = frozen /\ u.outlier_run = outlier
  BY <1>2, <1>3 DEF Bounded, MissionOK
<1> HIDE DEF u
<1>6. QED BY <1>2, <1>3, <1>4, <1>5 DEF Bounded, Counted, StillCounting, MissionActive

LEMMA FinishBounded ==
  ASSUME NEW m, MissionOK(m), Counted(m), NEW state \in {"DONE", "ABORTED", "REFUSED"},
         NEW reason \in MissionReason
  PROVE  Bounded(Finish(m, state, reason))
<1> DEFINE f == Finish(m, state, reason)
<1>1. /\ MissionOK(f) /\ f.state = state /\ f.confirmed = m.confirmed /\ f.home_n = m.home_n
      /\ f.frozen_count = m.frozen_count /\ f.outlier_run = m.outlier_run
  BY DEF MissionOK, Finish, MissionState
<1> HIDE DEF f
<1>2. QED BY <1>1 DEF f, Bounded, Counted, StillCounting, MissionActive, Leg

LEMMA HomeBounded ==
  ASSUME NEW m, Bounded(m), MissionActive(m), NEW at
  PROVE  Bounded(StepHome(m, at))
<1>1. ASSUME NEW n, Bounded(n)
      PROVE  Bounded(HomeTimeout(n, at))
  BY <1>1, FinishBounded, Reasons DEF HomeTimeout, Bounded
<1>2. ASSUME NEW k \in Nat, k <= HomeFixes
      PROVE  Bounded([m EXCEPT !.home_n = k])
  <2> DEFINE n == [m EXCEPT !.home_n = k]
  <2>1. /\ MissionOK(n) /\ n.state = m.state /\ n.confirmed = m.confirmed /\ n.home_n = k
        /\ n.frozen_count = m.frozen_count /\ n.outlier_run = m.outlier_run
    BY <1>2 DEF Bounded, MissionOK
  <2> HIDE DEF n
  <2>2. Bounded(n)
    BY <1>2, <2>1 DEF Bounded, Counted, StillCounting, MissionActive
  <2>3. QED BY <2>2 DEF n
<1>3. m.home_n \in Nat /\ m.home_n + 1 \in Nat /\ 0 \in Nat /\ HomeFixes \in Nat /\ 0 <= HomeFixes
  BY MissionAssumption DEF Bounded, MissionOK
<1>4. CASE ~at.gps_new
  BY <1>1, <1>4 DEF StepHome
<1>5. CASE at.gps_new /\ m.home_n + 1 < HomeFixes
  <2>1. StepHome(m, at) = HomeTimeout([m EXCEPT !.home_n = m.home_n + 1], at)
    BY <1>5 DEF StepHome
  <2>2. m.home_n + 1 <= HomeFixes
    BY <1>3, <1>5
  <2>3. QED BY <1>1, <1>2, <1>3, <2>1, <2>2
<1>6. CASE at.gps_new /\ ~(m.home_n + 1 < HomeFixes) /\ at.together
  <2> DEFINE n == [m EXCEPT !.state = "OUTBOUND", !.home_n = HomeFixes]
  <2>1. StepHome(m, at) = n
    BY <1>6 DEF StepHome
  <2>2. /\ MissionOK(n) /\ n.confirmed = m.confirmed /\ n.home_n = HomeFixes
        /\ n.frozen_count = m.frozen_count /\ n.outlier_run = m.outlier_run
    BY <1>3 DEF Bounded, MissionOK, MissionState, Leg
  <2> HIDE DEF n
  <2>3. QED BY <1>3, <2>1, <2>2 DEF Bounded, Counted, StillCounting
<1>7. CASE at.gps_new /\ ~(m.home_n + 1 < HomeFixes) /\ ~at.together
  <2>1. StepHome(m, at) = HomeTimeout([m EXCEPT !.home_n = 0], at)
    BY <1>7 DEF StepHome
  <2>2. QED BY <1>1, <1>2, <1>3, <2>1
<1>8. QED BY <1>4, <1>5, <1>6, <1>7

LEMMA LegBounded ==
  ASSUME NEW m, Bounded(m), MissionActive(m), m.frozen_count < FrozenFixes, NEW at
  PROVE  Bounded(StepLeg(m, at))
<1> DEFINE u == UpdatePosition(m, at)
<1>0. Bounded(u) /\ u.state = m.state /\ u.confirmed = m.confirmed /\ MissionOK(u) /\ Counted(u)
  BY UpdateBounded DEF Bounded
<1>a. ArriveFixes \in Nat /\ 0 < ArriveFixes
  BY MissionAssumption
<1>1. CASE m.state = "HOME"
  BY <1>1, HomeBounded DEF StepLeg
<1>2. CASE m.state = "OUTBOUND"
  <2> DEFINE t == [u EXCEPT !.state = "TURN"]
  <2>1. StepLeg(m, at) \in {m, u, Finish(u, "DONE", "OUT_REACHED"), t}
    BY <1>2 DEF StepLeg, StepOutbound
  <2> HIDE DEF u
  <2>2. /\ MissionOK(t) /\ t.confirmed = u.confirmed /\ t.home_n = u.home_n
        /\ t.frozen_count = u.frozen_count /\ t.outlier_run = u.outlier_run
    BY <1>0 DEF MissionOK, MissionState, Leg
  <2> HIDE DEF t
  <2>3. Bounded(t)
    <3>1. \A rule \in ArrivalRule : t.confirmed[rule] < ArriveFixes
      BY <1>0, <2>2 DEF Bounded, StillCounting
    <3>2. QED BY <1>0, <2>2, <3>1 DEF Bounded, Counted, StillCounting
  <2>4. Bounded(Finish(u, "DONE", "OUT_REACHED"))
    BY <1>0, FinishBounded, Reasons
  <2>5. QED BY <1>0, <2>1, <2>3, <2>4
<1>3. CASE m.state = "TURN"
  <2> DEFINE moved == IF at.gps_new THEN u ELSE m
             t == [moved EXCEPT !.state = "RETURN", !.confirmed = NotConfirmed]
  <2>1. StepLeg(m, at) \in {moved, Finish(moved, "DONE", "TURNED"), t}
    BY <1>3 DEF StepLeg, StepTurn
  <2>2. Bounded(moved) /\ MissionOK(moved) /\ Counted(moved)
    BY <1>0 DEF Bounded
  <2> HIDE DEF moved
  <2>3. NotConfirmed \in [ArrivalRule -> Nat] /\ \A rule \in ArrivalRule : NotConfirmed[rule] = 0
    BY DEF NotConfirmed
  <2>4. /\ MissionOK(t) /\ t.confirmed = NotConfirmed /\ t.home_n = moved.home_n
        /\ t.frozen_count = moved.frozen_count /\ t.outlier_run = moved.outlier_run
    BY <2>2, <2>3 DEF MissionOK, MissionState, Leg
  <2> HIDE DEF t
  <2>5. Bounded(t)
    <3>1. \A rule \in ArrivalRule : t.confirmed[rule] < ArriveFixes /\ t.confirmed[rule] <= ArriveFixes
      BY <1>a, <2>3, <2>4
    <3>2. QED BY <2>2, <2>4, <3>1 DEF Bounded, Counted, StillCounting
  <2>6. Bounded(Finish(moved, "DONE", "TURNED"))
    BY <2>2, FinishBounded, Reasons
  <2>7. QED BY <2>1, <2>2, <2>5, <2>6
<1>4. CASE m.state = "RETURN"
  <2> DEFINE t == [u EXCEPT !.confirmed = Confirmed(m, at)]
             rule == Arrived(t.confirmed)
  <2>1. StepLeg(m, at) \in {m, u} \cup {IF rule = "NONE" THEN t ELSE Finish(t, "DONE", rule)}
    BY <1>4 DEF StepLeg, StepReturn
  <2>2. /\ Confirmed(m, at) \in [ArrivalRule -> Nat]
        /\ \A r \in ArrivalRule : Confirmed(m, at)[r] <= ArriveFixes
    <3>1. /\ m.confirmed \in [ArrivalRule -> Nat]
          /\ \A r \in ArrivalRule : m.confirmed[r] < ArriveFixes
      BY DEF Bounded, MissionOK, StillCounting
    <3>2. \A r \in ArrivalRule : m.confirmed[r] + 1 \in 0 .. ArriveFixes /\ 0 \in 0 .. ArriveFixes
      BY <1>a, <3>1
    <3>3. Confirmed(m, at) \in [ArrivalRule -> 0 .. ArriveFixes]
      BY <3>2 DEF Confirmed
    <3>4. QED BY <1>a, <3>3
  <2> HIDE DEF u
  <2>3. /\ MissionOK(t) /\ t.confirmed = Confirmed(m, at) /\ t.home_n = u.home_n
        /\ t.frozen_count = u.frozen_count /\ t.outlier_run = u.outlier_run
    BY <1>0, <2>2 DEF MissionOK
  <2>4. rule \in MissionReason
    BY <2>3, Reasons
  <2> HIDE DEF t
  <2>5. Counted(t)
    BY <1>0, <2>2, <2>3 DEF Counted
  <2>6. rule = "NONE" => \A r \in ArrivalRule : t.confirmed[r] < ArriveFixes
    <3>1. \A r \in ArrivalRule : t.confirmed[r] \in Nat
      BY <2>2, <2>3
    <3>2. rule = "NONE" => \A r \in {"zone", "passed", "slipping"} : ~(t.confirmed[r] >= ArriveFixes)
      BY DEF Arrived
    <3>3. QED BY <1>a, <3>1, <3>2 DEF ArrivalRule
  <2>7. rule = "NONE" => Bounded(t)
    BY <2>3, <2>5, <2>6 DEF Bounded, StillCounting
  <2>8. Bounded(Finish(t, "DONE", rule))
    BY <2>3, <2>4, <2>5, FinishBounded
  <2>9. QED BY <1>0, <2>1, <2>7, <2>8
<1>5. QED BY <1>1, <1>2, <1>3, <1>4 DEF MissionActive, Leg

LEMMA StepBounded ==
  ASSUME NEW m, Bounded(m), NEW in, InputOK(in), NEW at
  PROVE  Bounded(MissionStep(m, in, at))
<1>1. ASSUME NEW h, Bounded(h)
      PROVE  Bounded(StepActive(h, in, at))
  <2>1. CASE ~MissionActive(h)
    BY <1>1, <2>1 DEF StepActive
  <2>2. CASE MissionActive(h) /\ StepAbort(h, in, at) # "NONE"
    BY <1>1, <2>2, FinishBounded, Reasons DEF StepActive, Bounded
  <2>3. CASE MissionActive(h) /\ StepAbort(h, in, at) = "NONE"
    <3>1. ~(h.frozen_count >= FrozenFixes)
      BY <2>3 DEF StepAbort
    <3>2. h.frozen_count < FrozenFixes
      BY <1>1, <3>1, MissionAssumption DEF Bounded, MissionOK
    <3>3. StepActive(h, in, at) = StepLeg(h, at)
      BY <2>3 DEF StepActive
    <3>4. QED BY <1>1, <2>3, <3>2, <3>3, LegBounded
  <2>4. QED BY <2>1, <2>2, <2>3
<1>2. Bounded(HandleStart(m, in, at))
  <2> DEFINE n == NewRun(m, in)
             h == [n EXCEPT !.state = "HOME"]
  <2>1. NotConfirmed \in [ArrivalRule -> Nat] /\ \A rule \in ArrivalRule : NotConfirmed[rule] = 0
    BY DEF NotConfirmed
  <2>2. "NONE" \in MissionReason /\ m.run_id + 1 \in Nat
    BY DEF MissionReason, AbortReason, Bounded, MissionOK
  <2>3. /\ MissionOK(n) /\ n.confirmed = NotConfirmed /\ n.home_n = 0
        /\ n.frozen_count = 0 /\ n.outlier_run = 0
    BY <2>1, <2>2 DEF NewRun, MissionInit, MissionOK, InputOK, MissionState, Stage
  <2> HIDE DEF n
  <2>4. Counted(n)
    BY <2>1, <2>3, MissionAssumption DEF Counted
  <2>5. /\ MissionOK(h) /\ h.confirmed = NotConfirmed /\ h.home_n = 0
        /\ h.frozen_count = 0 /\ h.outlier_run = 0
    BY <2>3 DEF MissionOK, MissionState
  <2> HIDE DEF h
  <2>6. Bounded(h)
    <3>1. \A rule \in ArrivalRule : h.confirmed[rule] < ArriveFixes /\ h.confirmed[rule] <= ArriveFixes
      BY <2>1, <2>5, MissionAssumption
    <3>2. QED BY <2>5, <3>1, MissionAssumption DEF Bounded, Counted, StillCounting
  <2>7. Bounded(Finish(n, "REFUSED", Refusal(in, at)))
    BY <2>3, <2>4, FinishBounded, Reasons
  <2>8. HandleStart(m, in, at) \in {m, Finish(n, "REFUSED", Refusal(in, at)), h}
    BY DEF HandleStart, n, h
  <2>9. QED BY <2>6, <2>7, <2>8
<1>3. QED BY <1>1, <1>2 DEF MissionStep

RxTypes ==
  /\ rx_pc \in {"wait", "stop", "stop_late"}
  /\ command \in Command
  /\ stops \in 0 .. MaxStops /\ stopped \subseteq 0 .. MaxRuns

PassTypes ==
  /\ step_pc \in StepPc /\ input \in MissionInput
  /\ mission \in MissionRecord /\ StillCounting(mission)

SampleTypes ==
  /\ prev \in Sample
  /\ record \in Record /\ Len(record.samples) <= RecordCapacity
  /\ record_state \in RecordState /\ save_pending \in BOOLEAN

StatusTypes ==
  /\ since_status \in Nat
  /\ status \in Status /\ published \in Status /\ status_new \in BOOLEAN
  /\ diag_pc \in {"wait", "write", "written", "copy"}

JetTypes ==
  /\ setpoint \in Setpoint /\ auto_stop \in BOOLEAN
  /\ aborted_run \in 0 .. MaxRuns /\ abort_reason \in AbortReason
  /\ auto_out \in AutoOut /\ spent \in 0 .. MaxRuns

(* A START in hand has a run left to begin.                                *)
RunsLeft ==
  /\ input.start => step_pc \in {"gather", "step"} /\ mission.run_id < MaxRuns
  /\ command.start => mission.run_id + (IF input.start THEN 1 ELSE 0) < MaxRuns

TypeInv == RxTypes /\ PassTypes /\ SampleTypes /\ StatusTypes /\ JetTypes /\ RunsLeft

LEMMA MissionBounds ==
  ASSUME NEW m, Bounded(m), m.run_id <= MaxRuns
  PROVE  m \in MissionRecord
<1>1. /\ m.run_id \in 0 .. MaxRuns /\ m.home_n \in 0 .. HomeFixes
      /\ m.frozen_count \in 0 .. FrozenFixes /\ m.outlier_run \in 0 .. JumpAcceptFixes
  BY MissionAssumption, AutoDriveAssumption DEF Bounded, MissionOK, Counted
<1>2. m.confirmed \in [ArrivalRule -> 0 .. ArriveFixes]
  <2>1. \A rule \in ArrivalRule : m.confirmed[rule] \in 0 .. ArriveFixes
    BY MissionAssumption DEF Bounded, MissionOK, Counted
  <2>2. QED BY <2>1 DEF Bounded, MissionOK
<1>3. QED BY <1>1, <1>2 DEF Bounded, MissionOK, MissionRecord

LEMMA BoundsMission ==
  ASSUME NEW m \in MissionRecord, StillCounting(m)
  PROVE  Bounded(m) /\ m.run_id \in 0 .. MaxRuns
<1>1. /\ m.run_id \in 0 .. MaxRuns /\ m.home_n \in 0 .. HomeFixes
      /\ m.frozen_count \in 0 .. FrozenFixes /\ m.outlier_run \in 0 .. JumpAcceptFixes
      /\ m.confirmed \in [ArrivalRule -> 0 .. ArriveFixes]
  BY DEF MissionRecord
<1>2. m.confirmed \in [ArrivalRule -> Nat] /\ \A rule \in ArrivalRule : m.confirmed[rule] <= ArriveFixes
  BY <1>1
<1>3. MissionOK(m)
  BY <1>1, <1>2 DEF MissionRecord, MissionOK
<1>4. QED BY <1>1, <1>2, <1>3, MissionAssumption DEF Bounded, Counted

LEMMA TypeInvInit == Init => TypeInv
<1> SUFFICES ASSUME Init
             PROVE  TypeInv
  OBVIOUS
<1>0. 0 \in Nat /\ MaxRuns \in Nat /\ MaxRequests \in Nat /\ MaxStops \in Nat /\ RecordCapacity \in Nat
      /\ 0 \in 0 .. MaxRuns /\ 0 \in 0 .. MaxRequests /\ 0 \in 0 .. MaxStops /\ 0 <= RecordCapacity
      /\ 0 \in 0 .. SetpointMaxAge + 1
  BY MissionAssumption, AutonomyAssumption, AutoDriveAssumption
<1>1. RxTypes
  BY <1>0 DEF Init, RxTypes, Command, NoCommand, Stage
<1>2. mission \in MissionRecord /\ StillCounting(mission)
  <2>1. NotConfirmed \in [ArrivalRule -> 0 .. ArriveFixes] /\ 0 \in 0 .. HomeFixes
        /\ 0 \in 0 .. FrozenFixes /\ 0 \in 0 .. JumpAcceptFixes
    BY MissionAssumption DEF NotConfirmed
  <2>2. mission \in MissionRecord
    BY <1>0, <2>1 DEF Init, MissionInit, MissionRecord, MissionState, MissionReason, AbortReason, Stage
  <2>3. QED BY <2>2 DEF Init, MissionInit, StillCounting, MissionActive, Leg
<1>3. input \in MissionInput
  BY <1>0 DEF Init, NoInput, MissionInput, Stage, AbortReason
<1>4. SampleTypes
  <2>1. << >> \in Seq(Sample) /\ Len(<< >>) = 0
    OBVIOUS
  <2>2. record \in Record /\ Len(record.samples) <= RecordCapacity
    BY <1>0, <2>1 DEF Init, Record, Sample, MissionState
  <2>3. QED BY <1>0, <2>2 DEF Init, SampleTypes, Sample, MissionState, RecordState
<1>5. StatusTypes
  BY <1>0 DEF Init, StatusTypes, Status, NoStatus
<1>6. JetTypes
  BY <1>0 DEF Init, JetTypes, Setpoint, SetpointInit, AutoOut, AutoOutInit, AbortReason
<1>7. PassTypes /\ RunsLeft
  BY <1>2, <1>3 DEF Init, PassTypes, StepPc, RunsLeft, NoInput, NoCommand
<1>8. QED BY <1>1, <1>4, <1>5, <1>6, <1>7 DEF TypeInv

LEMMA CommandsTyped ==
  ASSUME TypeInv, StartCommand \/ StopRequested \/ StopRecorded
  PROVE  TypeInv'
<1>1. UNCHANGED <<step_pc, input, mission, prev, since_status, status, record, record_state, save_pending,
                  diag_pc, published, aborted_run, abort_reason, auto_out, status_new, setpoint, spent>>
  BY DEF StartCommand, StopRequested, StopRecorded, RxFrame, taskVars, recordVars, diagVars
<1>2. PassTypes' /\ SampleTypes' /\ StatusTypes'
  BY <1>1 DEF TypeInv, PassTypes, SampleTypes, StatusTypes
<1>3. JetTypes'
  <2>1. auto_stop' \in BOOLEAN
    BY DEF StartCommand, StopRequested, StopRecorded, TypeInv, JetTypes
  <2>2. QED BY <1>1, <2>1 DEF TypeInv, JetTypes
<1>4. mission.run_id \in 0 .. MaxRuns /\ MaxRuns \in Nat /\ mission.request_id \in 0 .. MaxRequests
  BY AutoDriveAssumption DEF TypeInv, PassTypes, MissionRecord
<1>5. CASE StartCommand
  <2>1. PICK request \in {mission.request_id, (mission.request_id % MaxRequests) + 1} \ {0},
             settings \in Settings :
          command' = [command EXCEPT !.start = TRUE, !.request_id = request, !.settings = settings]
    BY <1>5 DEF StartCommand
  <2>2. request \in 0 .. MaxRequests
    BY <1>4, MissionAssumption
  <2>3. settings \in [stage : Stage, dry_run : BOOLEAN]
    BY AutonomyAssumption
  <2>4. command' \in Command
    BY <2>1, <2>2, <2>3, Zenon DEF TypeInv, RxTypes, Command
  <2>5. UNCHANGED <<rx_pc, stops, stopped>>
    BY <1>5 DEF StartCommand
  <2>6. mission.run_id + (IF input.start THEN 1 ELSE 0) < MaxRuns
    BY <1>5 DEF StartCommand, TypeInv, RunsLeft
  <2>7. RxTypes' /\ RunsLeft'
    BY <1>1, <2>4, <2>5, <2>6 DEF TypeInv, RxTypes, RunsLeft
  <2>8. QED BY <1>2, <1>3, <2>7 DEF TypeInv
<1>6. CASE StopRequested
  <2>1. /\ rx_pc' = "stop" /\ stops < MaxStops /\ stops' = stops + 1 /\ command' = command
        /\ stopped' = stopped \cup (IF MissionActive(mission) THEN {mission.run_id}
                                    ELSE IF Beginning THEN {mission.run_id + 1} ELSE {})
    BY <1>6 DEF StopRequested
  <2>2. Beginning => mission.run_id + 1 \in 0 .. MaxRuns
    BY <1>4 DEF TypeInv, RunsLeft, Beginning, StartTaken
  <2>3. stopped' \subseteq 0 .. MaxRuns
    BY <1>4, <2>1, <2>2 DEF TypeInv, RxTypes
  <2>4. stops' \in 0 .. MaxStops
    BY <2>1, AutonomyAssumption DEF TypeInv, RxTypes
  <2>5. RxTypes' /\ RunsLeft'
    BY <1>1, <2>1, <2>3, <2>4 DEF TypeInv, RxTypes, RunsLeft
  <2>6. QED BY <1>2, <1>3, <2>5 DEF TypeInv
<1>7. CASE StopRecorded
  <2>1. /\ rx_pc' = "wait" /\ UNCHANGED <<stops, stopped>>
        /\ command' = [start |-> FALSE, stop |-> TRUE, request_id |-> 0,
                       settings |-> [stage |-> "FULL", dry_run |-> FALSE]]
    BY <1>7 DEF StopRecorded, NoCommand
  <2>2. command' \in Command
    BY <2>1, MissionAssumption DEF Command, Stage
  <2>3. RxTypes' /\ RunsLeft'
    BY <1>1, <2>1, <2>2 DEF TypeInv, RxTypes, RunsLeft
  <2>4. QED BY <1>2, <1>3, <2>3 DEF TypeInv
<1>8. QED BY <1>5, <1>6, <1>7

LEMMA TakeTyped ==
  ASSUME TypeInv, TakeCommand
  PROVE  TypeInv'
<1>1. /\ step_pc = "wait" /\ step_pc' = "gather" /\ input' = CommandTaken /\ command' = NoCommand
      /\ rx_pc' = IF rx_pc = "stop" THEN "stop_late" ELSE rx_pc
      /\ stopped' = IF rx_pc = "stop" /\ StartTaken(mission, CommandTaken)
                      THEN stopped \cup {mission.run_id + 1} ELSE stopped
      /\ UNCHANGED <<stops, mission, prev, since_status, status, record, record_state, save_pending,
                     diag_pc, published, auto_stop, aborted_run, abort_reason, auto_out, status_new,
                     setpoint, spent>>
  BY DEF TakeCommand, recordVars, diagVars, controlVars
<1>2. SampleTypes' /\ StatusTypes' /\ JetTypes'
  BY <1>1 DEF TypeInv, SampleTypes, StatusTypes, JetTypes
<1>3. /\ command.start \in BOOLEAN /\ command.stop \in BOOLEAN /\ command.request_id \in 0 .. MaxRequests
      /\ command.settings.stage \in Stage /\ command.settings.dry_run \in BOOLEAN
      /\ 0 \in 0 .. MaxRuns /\ 0 \in 0 .. MaxRequests
  BY MissionAssumption, AutoDriveAssumption DEF TypeInv, RxTypes, Command
<1>4. NoInput \in MissionInput
  BY <1>3 DEF NoInput, MissionInput, Stage, AbortReason
<1>5. input' \in MissionInput /\ CommandTaken.start = command.start
  <2>1. CommandTaken \in MissionInput
    BY <1>3, <1>4, Zenon DEF CommandTaken, MissionInput
  <2>2. CommandTaken.start = command.start
    BY <1>4 DEF CommandTaken, MissionInput
  <2>3. QED BY <1>1, <2>1, <2>2
<1>6. PassTypes'
  BY <1>1, <1>5 DEF TypeInv, PassTypes, StepPc
<1>7. mission.run_id \in 0 .. MaxRuns /\ (command.start => mission.run_id + 1 \in 0 .. MaxRuns)
  <2>1. mission.run_id \in 0 .. MaxRuns
    BY DEF TypeInv, PassTypes, MissionRecord
  <2>2. command.start => mission.run_id < MaxRuns
    BY <1>1, <2>1, AutoDriveAssumption DEF TypeInv, RunsLeft
  <2>3. QED BY <2>1, <2>2, AutoDriveAssumption
<1>8. RxTypes'
  <2>1. StartTaken(mission, CommandTaken) => command.start
    BY <1>5 DEF StartTaken
  <2>2. stopped' \subseteq 0 .. MaxRuns
    BY <1>1, <1>7, <2>1 DEF TypeInv, RxTypes
  <2>3. command' \in Command
    BY <1>1, <1>3 DEF NoCommand, Command, Stage
  <2>4. QED BY <1>1, <2>2, <2>3 DEF TypeInv, RxTypes
<1>9. RunsLeft'
  BY <1>1, <1>5, <1>7, AutoDriveAssumption DEF RunsLeft, NoCommand
<1>10. QED BY <1>2, <1>6, <1>8, <1>9 DEF TypeInv

LEMMA GatherTyped ==
  ASSUME TypeInv, GatherInputs
  PROVE  TypeInv'
<1>1. /\ step_pc = "gather" /\ step_pc' = "step"
      /\ input' = [input EXCEPT !.saving = save_pending, !.abort_run = aborted_run,
                                !.abort_reason = abort_reason]
      /\ UNCHANGED <<rx_pc, command, stops, stopped, mission, prev, since_status, status, record,
                     record_state, save_pending, diag_pc, published, auto_stop, aborted_run,
                     abort_reason, auto_out, status_new, setpoint, spent>>
  BY DEF GatherInputs, TaskFrame, recordVars, diagVars, controlVars
<1>2. RxTypes' /\ SampleTypes' /\ StatusTypes' /\ JetTypes'
  BY <1>1 DEF TypeInv, RxTypes, SampleTypes, StatusTypes, JetTypes
<1>3. input' \in MissionInput /\ input'.start = input.start
  <2>1. save_pending \in BOOLEAN /\ aborted_run \in 0 .. MaxRuns /\ abort_reason \in AbortReason
        /\ input \in MissionInput
    BY DEF TypeInv, SampleTypes, JetTypes, PassTypes
  <2>2. input' \in MissionInput
    BY <1>1, <2>1, Zenon DEF MissionInput
  <2>3. input'.start = input.start
    BY <1>1, <2>1 DEF MissionInput
  <2>4. QED BY <2>2, <2>3
<1>4. PassTypes' /\ RunsLeft'
  BY <1>1, <1>3 DEF TypeInv, PassTypes, StepPc, RunsLeft
<1>5. QED BY <1>2, <1>4 DEF TypeInv

(* A step uses one of the runs left at most, and gives the START back.     *)
LEMMA StepTyped ==
  ASSUME TypeInv, StepMission
  PROVE  TypeInv'
<1>1. /\ step_pc = "step" /\ step_pc' = "record" /\ input' = NoInput
      /\ setpoint' = MissionOutput(mission')
      /\ UNCHANGED <<rx_pc, command, stops, stopped, prev, since_status, status, record,
                     record_state, save_pending, diag_pc, published, auto_stop, aborted_run,
                     abort_reason, auto_out, status_new, spent>>
  BY DEF StepMission, TaskFrame, recordVars, diagVars, controlVars
<1>2. PICK at \in Situations : mission' = MissionStep(mission, input, at)
  BY DEF StepMission
<1>3. Bounded(mission) /\ MissionOK(mission) /\ mission.run_id \in 0 .. MaxRuns /\ InputOK(input)
  <2>1. Bounded(mission) /\ mission.run_id \in 0 .. MaxRuns
    BY BoundsMission DEF TypeInv, PassTypes
  <2>2. InputOK(input)
    BY DEF TypeInv, PassTypes, MissionInput, InputOK
  <2>3. QED BY <2>1, <2>2 DEF Bounded
<1>4. /\ Bounded(mission')
      /\ ~StartTaken(mission, input) => mission'.run_id = mission.run_id
      /\ StartTaken(mission, input) => mission'.run_id = mission.run_id + 1 /\ input.start
  BY <1>2, <1>3, StepBounded, StepFollows DEF Follows, StartTaken
<1>5. /\ mission'.run_id \in 0 .. MaxRuns
      /\ command.start => mission'.run_id < MaxRuns
  <2>1. MaxRuns \in Nat
    BY AutoDriveAssumption
  <2>2. CASE StartTaken(mission, input)
    BY <1>3, <1>4, <2>1, <2>2 DEF TypeInv, RunsLeft
  <2>3. CASE ~StartTaken(mission, input)
    BY <1>3, <1>4, <2>1, <2>3 DEF TypeInv, RunsLeft
  <2>4. QED BY <2>2, <2>3
<1>6. mission' \in MissionRecord
  BY <1>4, <1>5, AutoDriveAssumption, MissionBounds
<1>7. PassTypes'
  <2>1. 0 \in 0 .. MaxRuns /\ 0 \in 0 .. MaxRequests
    BY MissionAssumption, AutoDriveAssumption
  <2>2. input' \in MissionInput
    BY <1>1, <2>1 DEF NoInput, MissionInput, Stage, AbortReason
  <2>3. QED BY <1>1, <1>4, <1>6, <2>2 DEF PassTypes, StepPc, Bounded
<1>8. JetTypes'
  <2>1. /\ MissionActive(mission') \in BOOLEAN
        /\ (mission'.state \in Leg /\ ~mission'.dry_run) \in BOOLEAN
    BY DEF MissionActive
  <2>2. mission'.dry_run \in BOOLEAN /\ 0 \in 0 .. SetpointMaxAge + 1
    BY <1>6, AutoDriveAssumption DEF MissionRecord
  <2>3. setpoint' = [run_id |-> mission'.run_id, active |-> MissionActive(mission'),
                     drive |-> mission'.state \in Leg /\ ~mission'.dry_run,
                     dry_run |-> mission'.dry_run, age |-> 0]
    BY <1>1 DEF MissionOutput
  <2>4. setpoint' \in Setpoint
    BY <1>5, <2>1, <2>2, <2>3, Zenon DEF Setpoint
  <2>5. QED BY <1>1, <2>4 DEF TypeInv, JetTypes
<1>9. RunsLeft'
  BY <1>1, <1>5 DEF RunsLeft, NoInput
<1>10. RxTypes' /\ SampleTypes' /\ StatusTypes'
  BY <1>1 DEF TypeInv, RxTypes, SampleTypes, StatusTypes
<1>11. QED BY <1>7, <1>8, <1>9, <1>10 DEF TypeInv

LEMMA AppendSample ==
  ASSUME NEW q \in Seq(Sample), NEW x \in Sample
  PROVE  Append(q, x) \in Seq(Sample) /\ Len(Append(q, x)) = Len(q) + 1 /\ Len(q) \in Nat
  OBVIOUS

LEMMA RecordTyped ==
  ASSUME TypeInv, RecordStep
  PROVE  TypeInv'
<1> DEFINE x == [run_id |-> mission.run_id, state |-> mission.state]
<1>1. /\ step_pc = "record" /\ step_pc' = "status"
      /\ record' = IF HandsOver THEN [WithSample EXCEPT !.final = x] ELSE WithSample
      /\ record_state' = IF HandsOver THEN "SAVING" ELSE Recording
      /\ save_pending' = (save_pending \/ HandsOver)
      /\ since_status' = IF Changed THEN 0 ELSE since_status
      /\ prev' = x
      /\ UNCHANGED <<rx_pc, command, stops, stopped, input, mission, status, diag_pc, published, auto_stop,
                     aborted_run, abort_reason, auto_out, status_new, setpoint, spent>>
  BY DEF RecordStep, TaskFrame, diagVars, controlVars
<1>2. x \in Sample /\ mission.run_id \in 0 .. MaxRuns
  BY DEF TypeInv, PassTypes, MissionRecord, Sample
<1> HIDE DEF x
<1>3. RecordBegin \in Record /\ Len(RecordBegin.samples) <= RecordCapacity
  <2> DEFINE b == [record EXCEPT !.run_id = mission.run_id, !.samples = << >>, !.overflow = FALSE]
  <2>1. RecordBegin = IF NewRunActive THEN b ELSE record
    BY DEF RecordBegin
  <2>2. record \in Record /\ Len(record.samples) <= RecordCapacity
    BY DEF TypeInv, SampleTypes
  <2>3. << >> \in Seq(Sample) /\ Len(<< >>) = 0 /\ FALSE \in BOOLEAN
    OBVIOUS
  <2>4. b \in Record /\ b.samples = << >>
    BY <1>2, <2>2, <2>3 DEF Record
  <2> HIDE DEF b
  <2>5. QED BY <2>1, <2>2, <2>3, <2>4, AutonomyAssumption
<1>4. WithSample \in Record /\ Len(WithSample.samples) <= RecordCapacity
  <2> DEFINE b == RecordBegin
             o == [b EXCEPT !.overflow = TRUE]
             a == [b EXCEPT !.samples = Append(b.samples, x)]
  <2>1. WithSample = IF ~Sampled THEN b ELSE IF Len(b.samples) >= RecordCapacity THEN o ELSE a
    BY DEF WithSample, x
  <2> HIDE DEF b
  <2>2. b \in Record /\ Len(b.samples) <= RecordCapacity /\ b.samples \in Seq(Sample)
    BY <1>3 DEF b, Record
  <2>3. o \in Record /\ o.samples = b.samples
    BY <2>2 DEF Record
  <2>4. /\ Append(b.samples, x) \in Seq(Sample) /\ Len(b.samples) \in Nat
        /\ Len(Append(b.samples, x)) = Len(b.samples) + 1
    BY <1>2, <2>2, AppendSample
  <2>5. a \in Record /\ a.samples = Append(b.samples, x)
    BY <2>2, <2>4 DEF Record
  <2> HIDE DEF a, o
  <2>6. QED BY <2>1, <2>2, <2>3, <2>4, <2>5, AutonomyAssumption
<1>5. record' \in Record /\ Len(record'.samples) <= RecordCapacity
  <2>1. /\ [WithSample EXCEPT !.final = x] \in Record
        /\ [WithSample EXCEPT !.final = x].samples = WithSample.samples
    BY <1>2, <1>4 DEF Record
  <2>2. QED BY <1>1, <1>4, <2>1
<1>6. record_state' \in RecordState
  BY <1>1 DEF TypeInv, SampleTypes, RecordState, Recording
<1>7. save_pending' \in BOOLEAN
  BY <1>1
<1>8. SampleTypes'
  BY <1>1, <1>2, <1>5, <1>6, <1>7 DEF SampleTypes
<1>9. since_status' \in Nat
  BY <1>1 DEF TypeInv, StatusTypes
<1>10. StatusTypes' /\ RxTypes' /\ JetTypes'
  BY <1>1, <1>9 DEF TypeInv, StatusTypes, RxTypes, JetTypes
<1>11. PassTypes' /\ RunsLeft'
  BY <1>1 DEF TypeInv, PassTypes, StepPc, RunsLeft
<1>12. QED BY <1>8, <1>10, <1>11 DEF TypeInv

LEMMA CommitTyped ==
  ASSUME TypeInv, CommitStatus
  PROVE  TypeInv'
<1>1. /\ step_pc = "status" /\ step_pc' = "wait"
      /\ status' = IF StatusDue THEN [run_id |-> mission.run_id, over |-> MissionTerminal(mission)]
                   ELSE status
      /\ status_new' = (status_new \/ StatusDue)
      /\ since_status' = IF StatusDue THEN 1 ELSE since_status + 1
      /\ UNCHANGED <<rx_pc, command, stops, stopped, input, mission, prev, record, record_state,
                     save_pending, diag_pc, published, auto_stop, aborted_run, abort_reason, auto_out,
                     setpoint, spent>>
  BY DEF CommitStatus, TaskFrame, recordVars, diagVars, controlVars
<1>2. [run_id |-> mission.run_id, over |-> MissionTerminal(mission)] \in Status
  <2>1. mission.run_id \in 0 .. MaxRuns
    BY DEF TypeInv, PassTypes, MissionRecord
  <2>2. MissionTerminal(mission) \in BOOLEAN
    BY DEF MissionTerminal
  <2>3. QED BY <2>1, <2>2, Zenon DEF Status
<1>3. status' \in Status
  BY <1>1, <1>2 DEF TypeInv, StatusTypes
<1>4. status_new' \in BOOLEAN
  BY <1>1
<1>5. since_status' \in Nat
  BY <1>1 DEF TypeInv, StatusTypes
<1>6. StatusTypes' /\ RxTypes' /\ JetTypes' /\ SampleTypes'
  BY <1>1, <1>3, <1>4, <1>5 DEF TypeInv, StatusTypes, RxTypes, JetTypes, SampleTypes
<1>7. PassTypes' /\ RunsLeft'
  BY <1>1 DEF TypeInv, PassTypes, StepPc, RunsLeft
<1>8. QED BY <1>6, <1>7 DEF TypeInv

LEMMA DiagnosticsTyped ==
  ASSUME TypeInv, Diagnostics \/ UNCHANGED vars
  PROVE  TypeInv'
<1>1. UNCHANGED <<rx_pc, command, stops, stopped, step_pc, input, mission, prev, since_status, status,
                  auto_stop, aborted_run, abort_reason, auto_out, setpoint, spent, record>>
  BY DEF Diagnostics, DiagWake, WriteRecord, ReleaseRecord, PublishStatus, DiagFrame, rxVars, taskVars,
         recordVars, controlVars, vars
<1>2. /\ diag_pc' \in {"wait", "write", "written", "copy"}
      /\ record_state' \in RecordState /\ save_pending' \in BOOLEAN
      /\ published' \in Status /\ status_new' \in BOOLEAN
  <2>1. CASE DiagWake
    BY <2>1 DEF DiagWake, recordVars, TypeInv, SampleTypes, StatusTypes
  <2>2. CASE WriteRecord
    BY <2>2 DEF WriteRecord, RecordState, TypeInv, SampleTypes, StatusTypes
  <2>3. CASE ReleaseRecord
    BY <2>3 DEF ReleaseRecord, TypeInv, SampleTypes, StatusTypes
  <2>4. CASE PublishStatus
    BY <2>4 DEF PublishStatus, recordVars, TypeInv, SampleTypes, StatusTypes
  <2>5. CASE UNCHANGED vars
    BY <2>5 DEF vars, recordVars, diagVars, TypeInv, SampleTypes, StatusTypes
  <2>6. QED BY <2>1, <2>2, <2>3, <2>4, <2>5 DEF Diagnostics
<1>3. SampleTypes' /\ StatusTypes'
  BY <1>1, <1>2 DEF TypeInv, SampleTypes, StatusTypes
<1>4. RxTypes' /\ PassTypes' /\ JetTypes' /\ RunsLeft'
  BY <1>1 DEF TypeInv, RxTypes, PassTypes, JetTypes, RunsLeft
<1>5. QED BY <1>3, <1>4 DEF TypeInv

(* A setpoint ages to one tick past stale and no further.                  *)
LEMMA AgeTyped ==
  ASSUME NEW sp \in Setpoint
  PROVE  AgeSetpoint(sp) \in Setpoint
<1>1. CASE ~(sp.run_id # 0 /\ ~Stale(sp))
  BY <1>1 DEF AgeSetpoint
<1>2. CASE sp.run_id # 0 /\ ~Stale(sp)
  <2>1. AgeSetpoint(sp) = [sp EXCEPT !.age = sp.age + 1]
    BY <1>2 DEF AgeSetpoint
  <2>2. sp.age \in 0 .. SetpointMaxAge + 1
    BY DEF Setpoint
  <2>3. sp.age + 1 \in 0 .. SetpointMaxAge + 1
    BY <1>2, <2>2, AutoDriveAssumption DEF Stale
  <2>4. QED BY <2>1, <2>3 DEF Setpoint
<1>3. QED BY <1>1, <1>2

LEMMA CycleTyped ==
  ASSUME TypeInv, ControlCycle
  PROVE  TypeInv'
<1>1. PICK in \in ControlInputs, sp \in {setpoint, AgeSetpoint(setpoint)} :
        /\ auto_out' = AutoStep(sp, aborted_run,
                         [stop_request |-> auto_stop, manual_input |-> in.manual_input,
                          rail_cut |-> in.rail_cut, other_owner |-> in.other_owner, armed |-> in.armed])
        /\ setpoint' = sp
        /\ aborted_run' = IF auto_out'.abort = "NONE" THEN aborted_run ELSE auto_out'.run_id
        /\ abort_reason' = IF auto_out'.abort = "NONE" THEN abort_reason ELSE auto_out'.abort
        /\ auto_stop' = FALSE
        /\ spent' = IF Driving(auto_out) \notin {0, Driving(auto_out')} THEN Driving(auto_out) ELSE spent
        /\ UNCHANGED <<rx_pc, command, stops, stopped, step_pc, input, mission, prev, since_status, status,
                       record, record_state, save_pending, diag_pc, published, status_new>>
  BY DEF ControlCycle, rxVars, taskVars, recordVars, diagVars
<1> DEFINE with == [stop_request |-> auto_stop, manual_input |-> in.manual_input,
                    rail_cut |-> in.rail_cut, other_owner |-> in.other_owner, armed |-> in.armed]
           why == AbortFor(sp, with)
<1>2. sp \in Setpoint /\ sp.run_id \in 0 .. MaxRuns
  <2>1. sp \in Setpoint
    BY <1>1, AgeTyped DEF TypeInv, JetTypes
  <2>2. QED BY <2>1 DEF Setpoint
<1>3. why \in AbortReason
  BY DEF AbortFor, AbortReason
<1>4. auto_out' \in AutoOut
  <2>1. CASE ~Offered(sp, aborted_run)
    <3>1. auto_out' = [own |-> FALSE, drive |-> FALSE, run_id |-> 0, abort |-> "NONE"]
      BY <1>1, <2>1 DEF AutoStep, AutoOutInit
    <3>2. 0 \in 0 .. MaxRuns
      BY AutoDriveAssumption
    <3>3. QED BY <3>1, <3>2 DEF AutoOut, AbortReason
  <2>2. CASE Offered(sp, aborted_run)
    <3>1. auto_out' = [own |-> why = "NONE",
                       drive |-> why = "NONE" /\ sp.drive /\ ~sp.dry_run /\ with.armed,
                       run_id |-> sp.run_id, abort |-> why]
      BY <1>1, <2>2, Zenon DEF AutoStep
    <3>2. (why = "NONE") \in BOOLEAN /\ (why = "NONE" /\ sp.drive /\ ~sp.dry_run /\ with.armed) \in BOOLEAN
      OBVIOUS
    <3> HIDE DEF why
    <3>3. QED BY <1>2, <1>3, <3>1, <3>2, Zenon DEF AutoOut
  <2>3. QED BY <2>1, <2>2
<1>5. aborted_run' \in 0 .. MaxRuns /\ abort_reason' \in AbortReason
  BY <1>1, <1>4 DEF AutoOut, TypeInv, JetTypes
<1>6. spent' \in 0 .. MaxRuns
  <2>1. Driving(auto_out) \in 0 .. MaxRuns
    BY AutoDriveAssumption DEF Driving, AutoOut, TypeInv, JetTypes
  <2>2. QED BY <1>1, <2>1 DEF TypeInv, JetTypes
<1>7. JetTypes'
  BY <1>1, <1>2, <1>4, <1>5, <1>6 DEF JetTypes
<1>8. RxTypes' /\ PassTypes' /\ SampleTypes' /\ StatusTypes' /\ RunsLeft'
  BY <1>1 DEF TypeInv, RxTypes, PassTypes, SampleTypes, StatusTypes, RunsLeft
<1>9. QED BY <1>7, <1>8 DEF TypeInv

(* Every variable keeps to its C type and its bound, whatever the bounds   *)
(* are: a counter of fixes ends the run before it can pass its limit, the  *)
(* sample buffer never exceeds its capacity, and a setpoint stops ageing.  *)
THEOREM AutonomyTypes == Spec => []AutonomyTypeOK
<1>1. TypeInv => AutonomyTypeOK
  BY DEF TypeInv, RxTypes, PassTypes, SampleTypes, StatusTypes, JetTypes, AutonomyTypeOK
<1>2. TypeInv /\ [Next]_vars => TypeInv'
  BY CommandsTyped, TakeTyped, GatherTyped, StepTyped, RecordTyped, CommitTyped, DiagnosticsTyped, CycleTyped
     DEF Next, MissionTask
<1>3. QED BY <1>1, <1>2, TypeInvInit, PTL DEF Spec
===============================================================================
