--------------------------------- MODULE Camera ---------------------------------
(***************************************************************************)
(* The camera and its users: the lock and the one frame slot of            *)
(* main/drivers/camera_driver.c, the MJPEG stream and the drain task of    *)
(* main/camera_stream.c, the detector's cycle (main/detect_task.cpp), the  *)
(* snapshot page and the training log.                                     *)
(***************************************************************************)
EXTENDS Integers, FiniteSets

CONSTANTS CamBufCount   \* CAM_BUF_COUNT, camera_driver.c:56

ASSUME CameraAssumption == CamBufCount \in Nat \ {0}

User == {"snapshot", "stream", "detect", "log", "drain"}

VARIABLES
  cam_lock,   \* who holds s_cam_mutex, or "free"
  at,         \* each user: "idle", and with the lock "check", "encode", "hold"
  held,       \* s_frame_held
  queued,     \* buffers queued with the video driver
  jpeg,       \* whose picture s_jpeg_buf holds, until it is given back
  stream,     \* the stream handler runs, s_client_streaming
  detect,     \* the detector: "wait", "capture", "freeze", "infer", "publish"
  triggered   \* its task notification

camVars == <<cam_lock, at, held, queued, jpeg, stream, detect, triggered>>

CameraTypeOK ==
  /\ cam_lock \in User \union {"free"}
  /\ at \in [User -> {"idle", "check", "encode", "hold"}]
  /\ held \in BOOLEAN
  /\ queued \in 0..CamBufCount
  /\ jpeg \in User \union {"none"}
  /\ stream \in BOOLEAN
  /\ detect \in {"wait", "capture", "freeze", "infer", "publish"}
  /\ triggered \in BOOLEAN

CameraInit ==
  /\ cam_lock = "free" /\ at = [u \in User |-> "idle"]
  /\ held = FALSE /\ queued = CamBufCount /\ jpeg = "none"
  /\ stream = FALSE /\ detect = "wait" /\ triggered = FALSE

InferenceActive == detect \in {"freeze", "infer"}   \* g_inference_active

Go(u, where) == at' = [at EXCEPT ![u] = where]
Gives(u) == cam_lock' = "free" /\ Go(u, "idle")

(***************************************************************************)
(* Taking and giving back a frame, for every user.                         *)
(***************************************************************************)
(* Who comes for the lock.  The stream and the drain look at               *)
(* g_inference_active first; a look that has turned stale by the time the  *)
(* lock is taken is covered by the detector's half second (Settled).       *)
StreamWants == stream /\ ~InferenceActive
DrainWants == ~stream /\ ~InferenceActive
DetectWants == detect = "capture"

(* Mutant: a lock that does not come in time is taken for granted.         *)
LockIgnoringTimeout(u) ==
  /\ at[u] = "idle"
  /\ cam_lock' = IF cam_lock = "free" THEN u ELSE cam_lock
  /\ Go(u, "check")
  /\ UNCHANGED <<held, queued, jpeg, stream, detect, triggered>>

(* CAM_LOCK_TIMEOUT_MS passing without the lock changes nothing.           *)
Lock(u) ==
  /\ at[u] = "idle" /\ cam_lock = "free"
  /\ cam_lock' = u
  /\ Go(u, "check")
  /\ UNCHANGED <<held, queued, jpeg, stream, detect, triggered>>

(* camera_capture_frame_locked up to the encoder.  The drain gives the     *)
(* buffer straight back; a held frame or a bad buffer is an error, and the *)
(* lock is given back with it.                                             *)
Dequeue(u) ==
  /\ at[u] = "check"
  /\ \/ /\ ~held /\ u # "drain" /\ queued > 0
        /\ queued' = queued - 1
        /\ Go(u, "encode") /\ UNCHANGED cam_lock
     \/ Gives(u) /\ UNCHANGED queued
  /\ UNCHANGED <<held, jpeg, stream, detect, triggered>>

(* The encoder fails: the buffer goes back, and so does the lock.          *)
EncodeFails(u) ==
  /\ at[u] = "encode"
  /\ jpeg' = "none"
  /\ queued' = queued + 1
  /\ Gives(u)
  /\ UNCHANGED <<held, stream, detect, triggered>>

(* The borrow begins, and the lock stays with it.                          *)
Encode(u) ==
  /\ at[u] = "encode"
  /\ jpeg' = u
  /\ held' = TRUE
  /\ Go(u, "hold")
  /\ UNCHANGED <<cam_lock, queued, stream, detect, triggered>>

(* camera_release_frame, or the end of camera_capture_copy.                *)
Release(u) ==
  /\ at[u] = "hold"
  /\ held' = FALSE
  /\ queued' = queued + 1
  /\ jpeg' = "none"
  /\ Gives(u)

(***************************************************************************)
(* camera_stream.c.                                                        *)
(***************************************************************************)
StreamOpens ==
  /\ ~stream /\ stream' = TRUE
  /\ UNCHANGED <<cam_lock, at, held, queued, jpeg, detect, triggered>>

(* The loop ends when inference begins.                                    *)
StreamCloses ==
  /\ stream /\ at["stream"] = "idle" /\ InferenceActive
  /\ stream' = FALSE
  /\ UNCHANGED <<cam_lock, at, held, queued, jpeg, detect, triggered>>

(* The picture is sent, or a send fails and the handler ends.              *)
StreamReleases ==
  /\ Release("stream")
  /\ stream' \in BOOLEAN
  /\ UNCHANGED <<detect, triggered>>

(***************************************************************************)
(* training_log_write_capture, whenever a command asks for it.             *)
(***************************************************************************)
LogReleases == Release("log") /\ UNCHANGED <<stream, detect, triggered>>

(***************************************************************************)
(* detect_task_fn.                                                         *)
(***************************************************************************)
DetectTrigger ==   \* detect_trigger
  /\ triggered' = TRUE
  /\ UNCHANGED <<cam_lock, at, held, queued, jpeg, stream, detect>>

DetectStarts ==
  /\ detect = "wait" /\ triggered
  /\ triggered' = FALSE
  /\ detect' = "capture"
  /\ UNCHANGED <<cam_lock, at, held, queued, jpeg, stream>>

(* The last of ten attempts failed.                                        *)
DetectGivesUp ==
  /\ detect = "capture" /\ at["detect"] = "idle"
  /\ detect' = "wait"
  /\ UNCHANGED <<cam_lock, at, held, queued, jpeg, stream, triggered>>

(* The picture is decoded; without an image the cycle ends.                *)
DetectDecodes ==
  /\ Release("detect")
  /\ detect' \in {"wait", "freeze"}
  /\ UNCHANGED <<stream, triggered>>

(* Half a second later.  A user that was past its look at                  *)
(* g_inference_active needs less for a lock and a frame; the detector      *)
(* does not look for the others.                                           *)
Settled == \A u \in {"stream", "drain"} : at[u] \in {"idle", "hold"}

DetectInfers ==
  /\ detect = "freeze" /\ Settled
  /\ detect' = "infer"
  /\ UNCHANGED <<cam_lock, at, held, queued, jpeg, stream, triggered>>

DetectThaws ==
  /\ detect = "infer"
  /\ detect' = "publish"
  /\ UNCHANGED <<cam_lock, at, held, queued, jpeg, stream, triggered>>

DetectEnds ==
  /\ detect = "publish"
  /\ detect' = "wait"
  /\ UNCHANGED <<cam_lock, at, held, queued, jpeg, stream, triggered>>
===============================================================================
