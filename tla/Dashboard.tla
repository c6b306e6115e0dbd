------------------------------- MODULE Dashboard --------------------------------
(***************************************************************************)
(* The boat on WiFi: the dashboard link and the camera, which meet in the  *)
(* HTTP task (the snapshot page holds a frame while it is sent) and in the *)
(* detector, which is started by a command and publishes what it found.    *)
(***************************************************************************)
EXTENDS WsTransport, Camera

dashboardVars == <<wsVars, camVars>>

Init == WsInit /\ CameraInit

(***************************************************************************)
(* snapshot_handler, in the HTTP task.                                     *)
(***************************************************************************)
SnapshotStarts == Respond("snapshot") /\ UNCHANGED camVars

SnapshotWants == http = "snapshot"

(* The last of ten attempts failed: error 500.                             *)
SnapshotGivesUp ==
  /\ Responded("snapshot") /\ at["snapshot"] = "idle"
  /\ UNCHANGED camVars

SnapshotSent ==
  /\ Responded("snapshot")
  /\ Release("snapshot")
  /\ UNCHANGED <<stream, detect, triggered>>

(***************************************************************************)
(* A binary frame: pipeline_handle_incoming hands a detect command on.     *)
(***************************************************************************)
DetectCommand ==
  /\ http = "idle" /\ \E f \in Fd : session[f] = "ws"
  /\ DetectTrigger
  /\ UNCHANGED wsVars

DetectPublishes == DetectEnds /\ \E m \in Message : Publish(m)

WsOnly ==
  /\ \/ \E f \in Fd : Connection(f)
     \/ Respond("page") \/ Responded("page")
     \/ WorkStep \/ TxStep
     \/ \E m \in Message : Publish(m)
  /\ UNCHANGED camVars

Wants(u) ==
  \/ u = "snapshot" /\ SnapshotWants
  \/ u = "stream" /\ StreamWants
  \/ u = "drain" /\ DrainWants
  \/ u = "detect" /\ DetectWants
  \/ u = "log"

Takes(u) ==
  \/ Wants(u) /\ Lock(u)
  \/ Dequeue(u) \/ EncodeFails(u) \/ Encode(u)

StreamStep == StreamCloses \/ StreamReleases
DetectStep == DetectStarts \/ DetectGivesUp \/ DetectDecodes \/ DetectInfers \/ DetectThaws

(* What a user that has the lock does next.                                *)
CaptureEnds ==
  \/ \E u \in User : Dequeue(u) \/ EncodeFails(u) \/ Encode(u)
  \/ StreamReleases \/ LogReleases \/ DetectDecodes

CameraOnly ==
  /\ \/ \E u \in User : Takes(u)
     \/ StreamOpens \/ StreamStep \/ LogReleases \/ DetectStep
  /\ UNCHANGED wsVars

Next ==
  \/ WsOnly \/ CameraOnly
  \/ SnapshotStarts \/ SnapshotGivesUp \/ SnapshotSent
  \/ DetectCommand \/ DetectPublishes

Spec == Init /\ [][Next]_dashboardVars

(***************************************************************************)
(* Fairness: the tasks get to run (runtime_schedule.c); the HTTP task      *)
(* finishes an answer, since its sends time out and a capture is tried ten *)
(* times and no more, and comes to queued work between requests however    *)
(* many there are; httpd_queue_work does not refuse for ever.  Nothing is  *)
(* promised of the clients.                                                *)
(***************************************************************************)
FairSpec ==
  /\ Spec
  /\ WF_dashboardVars(TxStep /\ UNCHANGED camVars)
  /\ SF_dashboardVars(TxHandsOver /\ UNCHANGED camVars)
  /\ SF_dashboardVars(WorkStarts /\ UNCHANGED camVars)
  /\ WF_dashboardVars((Responded("page") \/ WorkStep) /\ UNCHANGED camVars)
  /\ SF_dashboardVars(SnapshotGivesUp)
  /\ WF_dashboardVars(SnapshotSent)
  /\ WF_dashboardVars(CaptureEnds /\ UNCHANGED wsVars)
===============================================================================
