---------------------------- MODULE DashboardProofs ----------------------------
(***************************************************************************)
(* Theorems about the dashboard link and the camera, for any descriptors,  *)
(* messages and sizes of the tables.                                       *)
(***************************************************************************)
EXTENDS DashboardProperties, FiniteSetTheorems, TLAPS

(***************************************************************************)
(* The link.  Whose turn it is: the semaphore is free, or the transmit     *)
(* task works for the next send, or the HTTP task has it.                  *)
(***************************************************************************)
Turns ==
  /\ ws # "wait" => ~send_done /\ work = "none"
  /\ work # "none" => ~send_done
  /\ fds # {} => ws = "hand"

SessionsOpen == \A f \in Fd : session[f] # "none" => f \in open

LinkInv == WsTypeOK /\ Turns /\ SendsOneMessage /\ SessionsOpen /\ ListedIsOpen

LEMMA LinkInit == WsInit => LinkInv
  BY DEF WsInit, LinkInv, WsTypeOK, Turns, SendsOneMessage, Sending, SessionsOpen, ListedIsOpen, NoArg

LEMMA LinkStill == LinkInv /\ UNCHANGED wsVars => LinkInv'
  BY DEF LinkInv, wsVars, httpVars, clientVars, txVars, WsTypeOK, Turns, SendsOneMessage, Sending,
         SessionsOpen, ListedIsOpen

(* A session that ends always finds a place in the queue.                  *)
LEMMA PlaceToClose ==
  ASSUME LinkInv, NEW f \in Fd, session[f] # "none"
  PROVE  Cardinality(close_q) < CloseQSize
<1>1. IsFiniteSet(Fd) /\ Cardinality(Fd) <= CloseQSize /\ CloseQSize \in Nat
  BY WsTransportAssumption
<1>2. close_q \in SUBSET (Fd \ {f})
  BY DEF LinkInv, WsTypeOK, ListedIsOpen
<1>3. IsFiniteSet(Fd \ {f}) /\ Cardinality(Fd \ {f}) = Cardinality(Fd) - 1
  BY <1>1, FS_RemoveElement
<1>4. IsFiniteSet(close_q) /\ Cardinality(close_q) <= Cardinality(Fd \ {f})
  BY <1>2, <1>3, FS_Subset
<1>5. Cardinality(Fd) \in Nat /\ Cardinality(close_q) \in Nat
  BY <1>1, <1>4, FS_CardinalityType
<1>6. QED BY <1>1, <1>3, <1>4, <1>5

LEMMA AcceptStep ==
  ASSUME LinkInv, NEW f \in Fd, Accept(f)
  PROVE  LinkInv'
  BY DEF LinkInv, Accept, clientVars, txVars, WsTypeOK, Turns, SendsOneMessage, Sending,
         SessionsOpen, ListedIsOpen

LEMMA HandshakeStep ==
  ASSUME LinkInv, NEW f \in Fd, Handshake(f)
  PROVE  LinkInv'
  BY DEF LinkInv, Handshake, txVars, WsTypeOK, Turns, SendsOneMessage, Sending,
         SessionsOpen, ListedIsOpen

LEMMA CloseFrameStep ==
  ASSUME LinkInv, NEW f \in Fd, CloseFrame(f)
  PROVE  LinkInv'
  BY DEF LinkInv, CloseFrame, httpVars, txVars, WsTypeOK, Turns, SendsOneMessage, Sending,
         SessionsOpen, ListedIsOpen

LEMMA EndSessionStep ==
  ASSUME LinkInv, NEW f \in Fd, EndSession(f)
  PROVE  LinkInv'
<1>1. Cardinality(close_q) < CloseQSize
  BY PlaceToClose DEF EndSession
<1>2. /\ session' = [session EXCEPT ![f] = "none"] /\ clients' = clients \ {f}
      /\ close_q' = close_q \union {f} /\ session[f] # "none"
      /\ UNCHANGED <<open, http, newest, txVars>>
  BY <1>1 DEF EndSession
<1>3. QED BY <1>2 DEF LinkInv, txVars, WsTypeOK, Turns, SendsOneMessage, Sending, SessionsOpen, ListedIsOpen

(* Steps that leave sockets, sessions and tables alone.                    *)
LEMMA AnswerStep ==
  ASSUME LinkInv, NEW what \in {"page", "snapshot"}, Respond(what) \/ Responded(what)
  PROVE  LinkInv'
  BY DEF LinkInv, Respond, Responded, clientVars, txVars, WsTypeOK, Turns, SendsOneMessage, Sending,
         SessionsOpen, ListedIsOpen

LEMMA PublishStep ==
  ASSUME LinkInv, NEW m \in Message, Publish(m)
  PROVE  LinkInv'
  BY DEF LinkInv, Publish, httpVars, clientVars, txVars, WsTypeOK, Turns, SendsOneMessage, Sending,
         SessionsOpen, ListedIsOpen

LEMMA WorkLinkStep == LinkInv /\ WorkStep => LinkInv'
<1> SUFFICES ASSUME LinkInv, WorkStep
             PROVE  LinkInv'
  OBVIOUS
<1>1. CASE WorkStarts
  BY <1>1 DEF LinkInv, WorkStarts, clientVars, WsTypeOK, Turns, SendsOneMessage, Sending,
              SessionsOpen, ListedIsOpen
<1>2. CASE WorkEnds
  BY <1>2 DEF LinkInv, WorkEnds, clientVars, WsTypeOK, Turns, SendsOneMessage, Sending,
              SessionsOpen, ListedIsOpen, NoArg
<1>3. ASSUME NEW f \in Fd, WorkSends(f)
      PROVE  LinkInv'
  <2>1. /\ work = "running" /\ send_arg' = [send_arg EXCEPT !.fds = @ \ {f}]
        /\ clients' \in SUBSET clients
        /\ UNCHANGED <<httpVars, close_q, newest, send_done, ws, fds, tx_buf, work>>
    BY <1>3 DEF WorkSends
  <2>2. send_arg' \in [msg : Message \union {Nothing}, fds : SUBSET Fd] /\ send_arg'.msg = send_arg.msg
    BY <2>1 DEF LinkInv, WsTypeOK
  <2>3. QED BY <2>1, <2>2 DEF LinkInv, httpVars, WsTypeOK, Turns, SendsOneMessage, Sending,
                              SessionsOpen, ListedIsOpen
<1>4. QED BY <1>1, <1>2, <1>3 DEF WorkStep

LEMMA TxLinkStep == LinkInv /\ TxStep => LinkInv'
<1> SUFFICES ASSUME LinkInv, TxStep
             PROVE  LinkInv'
  OBVIOUS
<1> USE DEF LinkInv, httpVars, clientVars, WsTypeOK, Turns, SendsOneMessage, Sending, SessionsOpen, ListedIsOpen
<1>1. CASE TxTakes
  BY <1>1 DEF TxTakes
<1>2. CASE TxCloses
  BY <1>2 DEF TxCloses
<1>3. CASE TxCopies
  BY <1>3 DEF TxCopies, Released
<1>4. CASE TxLists
  BY <1>4 DEF TxLists, Released
<1>5. CASE TxHandsOver
  BY <1>5 DEF TxHandsOver
<1>6. CASE TxRefused
  BY <1>6 DEF TxRefused, Released
<1>7. QED BY <1>1, <1>2, <1>3, <1>4, <1>5, <1>6 DEF TxStep

LEMMA LinkStep == LinkInv /\ [Next]_dashboardVars => LinkInv'
<1> SUFFICES ASSUME LinkInv, [Next]_dashboardVars
             PROVE  LinkInv'
  OBVIOUS
<1>1. CASE WsOnly
  BY <1>1, AcceptStep, HandshakeStep, CloseFrameStep, EndSessionStep, AnswerStep, PublishStep,
     WorkLinkStep, TxLinkStep DEF WsOnly, Connection
<1>2. CASE SnapshotStarts \/ SnapshotGivesUp \/ SnapshotSent
  BY <1>2, AnswerStep DEF SnapshotStarts, SnapshotGivesUp, SnapshotSent
<1>3. CASE DetectPublishes
  BY <1>3, PublishStep DEF DetectPublishes
<1>4. CASE CameraOnly \/ DetectCommand \/ UNCHANGED dashboardVars
  BY <1>4, LinkStill DEF CameraOnly, DetectCommand, dashboardVars
<1>5. QED BY <1>1, <1>2, <1>3, <1>4 DEF Next

(* A client gets one message whole, and the transport only ever sends to   *)
(* connections that are open and its own, for any number of descriptors    *)
(* (ws_tx_task, ws_queued_send, ws_transport_close_fd).                    *)
THEOREM SendsStayWhole == Spec => [](SendsOneMessage /\ ListedIsOpen)
<1>1. Init => LinkInv
  BY LinkInit DEF Init
<1>2. LinkInv => SendsOneMessage /\ ListedIsOpen
  BY DEF LinkInv
<1>3. QED BY <1>1, <1>2, LinkStep, PTL DEF Spec

(* No socket is closed while a frame is on its way to it, or while the     *)
(* transmit task has listed it (ws_tx_task, ws_transport_close_fd).        *)
THEOREM SocketsCloseBetweenSends == Spec => ClosesBetweenSends
<1>1. LinkInv /\ [Next]_dashboardVars
        => [open \ open' # {} => ~Sending /\ fds = {}]_dashboardVars
  <2> SUFFICES ASSUME LinkInv, Next, open \ open' # {}
               PROVE  ~Sending /\ fds = {}
    OBVIOUS
  <2>1. ASSUME NEW f \in Fd, Connection(f)
        PROVE  open \subseteq open'
    <3>1. CASE EndSession(f)
      BY <3>1, PlaceToClose DEF EndSession
    <3>2. CASE Accept(f) \/ Handshake(f) \/ CloseFrame(f)
      BY <3>2 DEF Accept, Handshake, CloseFrame, httpVars
    <3>3. QED BY <2>1, <3>1, <3>2 DEF Connection
  <2>2. WorkStep => open' = open
    BY DEF WorkStep, WorkStarts, WorkEnds, WorkSends, httpVars
  <2>3. \A what \in {"page", "snapshot"} : Respond(what) \/ Responded(what) => open' = open
    BY DEF Respond, Responded
  <2>4. \A m \in Message : Publish(m) => open' = open
    BY DEF Publish, httpVars
  <2>5. TxStep => TxCloses \/ open' = open
    BY DEF TxStep, TxTakes, TxCopies, TxLists, TxHandsOver, TxRefused, httpVars
  <2>6. TxCloses
    BY <2>1, <2>2, <2>3, <2>4, <2>5
       DEF Next, WsOnly, CameraOnly, SnapshotStarts, SnapshotGivesUp, SnapshotSent, DetectCommand,
           DetectPublishes, wsVars, httpVars
  <2>7. QED BY <2>6 DEF TxCloses, LinkInv, Turns, Sending
<1>2. Init => LinkInv
  BY LinkInit DEF Init
<1>3. QED BY <1>1, <1>2, LinkStep, PTL DEF Spec, ClosesBetweenSends

-------------------------------------------------------------------------------
(***************************************************************************)
(* The camera: who is at it has the lock, and the one buffer that is not   *)
(* with the video driver.                                                  *)
(***************************************************************************)
Owner ==
  /\ \A u \in User : at[u] # "idle" => cam_lock = u
  /\ cam_lock # "free" => cam_lock \in User /\ at[cam_lock] # "idle"

OutOfQueue == cam_lock # "free" /\ at[cam_lock] \in {"encode", "hold"}

Buffers == queued = CamBufCount - (IF OutOfQueue THEN 1 ELSE 0)

CamInv == CameraTypeOK /\ Owner /\ Buffers /\ BorrowStable

LEMMA NoFreeUser == "free" \notin User
  BY DEF User

LEMMA CamInit == CameraInit => CamInv
<1> SUFFICES ASSUME CameraInit
             PROVE  CamInv
  OBVIOUS
<1>a. queued \in 0 .. CamBufCount
  BY CameraAssumption DEF CameraInit
<1>b. /\ cam_lock \in User \union {"free"} /\ at \in [User -> {"idle", "check", "encode", "hold"}]
      /\ jpeg \in User \union {"none"} /\ detect \in {"wait", "capture", "freeze", "infer", "publish"}
  BY DEF CameraInit
<1>c. held \in BOOLEAN /\ stream \in BOOLEAN /\ triggered \in BOOLEAN
  BY DEF CameraInit
<1>1. CameraTypeOK
  BY <1>a, <1>b, <1>c DEF CameraTypeOK
<1>2. Owner /\ BorrowStable
  BY DEF CameraInit, Owner, BorrowStable
<1>3. ~OutOfQueue
  BY DEF CameraInit, OutOfQueue
<1>4. Buffers
  BY <1>3, CameraAssumption DEF CameraInit, Buffers
<1>5. QED BY <1>1, <1>2, <1>4 DEF CamInv

(* A step of the owner u that moves it to where, or lets it go.            *)
LEMMA LockStep ==
  ASSUME CamInv, NEW u \in User, Lock(u)
  PROVE  CamInv'
  BY CameraAssumption, NoFreeUser DEF Lock, Go, CamInv, CameraTypeOK, Owner, OutOfQueue, Buffers, BorrowStable

LEMMA CaptureStep ==
  ASSUME CamInv, NEW u \in User, Dequeue(u) \/ EncodeFails(u) \/ Encode(u)
  PROVE  CamInv'
<1> USE CameraAssumption, NoFreeUser DEF CamInv, CameraTypeOK, Owner, OutOfQueue, Buffers, BorrowStable, Go, Gives
<1>1. CASE Dequeue(u)
  BY <1>1 DEF Dequeue
<1>2. CASE EncodeFails(u)
  BY <1>2 DEF EncodeFails
<1>3. CASE Encode(u)
  BY <1>3 DEF Encode
<1>4. QED BY <1>1, <1>2, <1>3

LEMMA ReleaseStep ==
  ASSUME CamInv, NEW u \in User, Release(u), stream' \in BOOLEAN, triggered' \in BOOLEAN,
         detect' \in {"wait", "capture", "freeze", "infer", "publish"}
  PROVE  CamInv'
<1>1. /\ at[u] = "hold" /\ held' = FALSE /\ queued' = queued + 1 /\ jpeg' = "none"
      /\ cam_lock' = "free" /\ at' = [at EXCEPT ![u] = "idle"]
  BY DEF Release, Go, Gives
<1>2. cam_lock = u /\ OutOfQueue
  BY <1>1, NoFreeUser DEF CamInv, Owner, OutOfQueue
<1>3. queued + 1 = CamBufCount /\ CamBufCount \in Nat
  BY <1>2, CameraAssumption DEF CamInv, CameraTypeOK, Buffers
<1>4. \A v \in User : at'[v] = "idle"
  BY <1>1, <1>2 DEF CamInv, CameraTypeOK, Owner
<1>a. queued' \in 0 .. CamBufCount
  BY <1>1, <1>3
<1>b. /\ cam_lock' \in User \union {"free"} /\ at' \in [User -> {"idle", "check", "encode", "hold"}]
      /\ jpeg' \in User \union {"none"}
  BY <1>1 DEF CamInv, CameraTypeOK
<1>c. held' \in BOOLEAN
  BY <1>1
<1>5. CameraTypeOK'
  BY <1>a, <1>b, <1>c DEF CameraTypeOK
<1>6. Owner' /\ BorrowStable'
  BY <1>1, <1>4 DEF Owner, BorrowStable
<1>7. ~OutOfQueue'
  BY <1>1 DEF OutOfQueue
<1>8. Buffers'
  BY <1>1, <1>3, <1>7 DEF Buffers
<1>9. QED BY <1>5, <1>6, <1>8 DEF CamInv

LEMMA CameraAlone ==
  ASSUME CamInv, UNCHANGED <<cam_lock, at, held, queued, jpeg>>, stream' \in BOOLEAN, triggered' \in BOOLEAN,
         detect' \in {"wait", "capture", "freeze", "infer", "publish"}
  PROVE  CamInv'
  BY DEF CamInv, CameraTypeOK, Owner, OutOfQueue, Buffers, BorrowStable

LEMMA CamStep == CamInv /\ [Next]_dashboardVars => CamInv'
<1> SUFFICES ASSUME CamInv, [Next]_dashboardVars
             PROVE  CamInv'
  OBVIOUS
<1>0. /\ stream \in BOOLEAN /\ triggered \in BOOLEAN
      /\ detect \in {"wait", "capture", "freeze", "infer", "publish"}
  BY DEF CamInv, CameraTypeOK
<1>1. CASE \E u \in User : Takes(u)
  BY <1>1, LockStep, CaptureStep DEF Takes
<1>2. CASE StreamReleases
  BY <1>0, <1>2, ReleaseStep DEF StreamReleases, User
<1>3. CASE LogReleases
  BY <1>0, <1>3, ReleaseStep DEF LogReleases, User
<1>4. CASE DetectDecodes
  BY <1>0, <1>4, ReleaseStep DEF DetectDecodes, User
<1>5. CASE SnapshotSent
  BY <1>0, <1>5, ReleaseStep DEF SnapshotSent, User
<1>6. CASE StreamOpens \/ StreamCloses
  BY <1>0, <1>6, CameraAlone DEF StreamOpens, StreamCloses
<1>7. CASE DetectStarts \/ DetectGivesUp \/ DetectInfers \/ DetectThaws
  BY <1>0, <1>7, CameraAlone DEF DetectStarts, DetectGivesUp, DetectInfers, DetectThaws
<1>8. CASE DetectCommand \/ DetectPublishes
  BY <1>0, <1>8, CameraAlone DEF DetectCommand, DetectTrigger, DetectPublishes, DetectEnds
<1>9. CASE UNCHANGED camVars
  BY <1>0, <1>9, CameraAlone DEF camVars
<1>10. QED BY <1>1, <1>2, <1>3, <1>4, <1>5, <1>6, <1>7, <1>8, <1>9
          DEF Next, WsOnly, CameraOnly, SnapshotStarts, SnapshotGivesUp, StreamStep, DetectStep, dashboardVars

LEMMA OneAtTheCamera ==
  ASSUME CamInv
  PROVE  CameraKept
<1> DEFINE out == {u \in User : at[u] \in {"encode", "hold"}}
           busy == {u \in User : at[u] \in {"check", "encode", "hold"}}
<1>1. busy = IF cam_lock = "free" THEN {} ELSE {cam_lock}
  BY NoFreeUser DEF CamInv, CameraTypeOK, Owner
<1>2. out = IF OutOfQueue THEN {cam_lock} ELSE {}
  BY NoFreeUser DEF CamInv, CameraTypeOK, Owner, OutOfQueue
<1>3. Cardinality(out) = IF OutOfQueue THEN 1 ELSE 0
  BY <1>2, FS_EmptySet, FS_Singleton
<1>4. queued + Cardinality(out) = CamBufCount
  BY <1>3, CameraAssumption DEF CamInv, Buffers
<1>5. QED BY <1>1, <1>4 DEF CameraKept, CamInv

(* A borrowed picture stays as it was taken, no buffer is lost to the      *)
(* video driver and the lock is given back on every way out, for any       *)
(* number of buffers (camera_capture_frame_locked, camera_release_frame).  *)
THEOREM CameraStaysKept == Spec => []CameraKept
<1>1. Init => CamInv
  BY CamInit DEF Init
<1>2. CamInv => CameraKept
  BY OneAtTheCamera DEF CamInv
<1>3. QED BY <1>1, <1>2, CamStep, PTL DEF Spec

-------------------------------------------------------------------------------
(***************************************************************************)
(* The tables of the link.                                                 *)
(***************************************************************************)
ClientsFit == Cardinality(clients) <= MaxClients

(* Only a handshake lists a client, and it looks for a place first.        *)
LEMMA ClientsGrow ==
  ASSUME [Next]_dashboardVars
  PROVE  \/ clients' \in SUBSET clients
         \/ \E f \in Fd : Cardinality(clients) < MaxClients /\ clients' = clients \union {f}
<1>1. CASE WsOnly
  <2>1. ASSUME NEW f \in Fd, Connection(f)
        PROVE  \/ clients' \in SUBSET clients
               \/ Cardinality(clients) < MaxClients /\ clients' = clients \union {f}
    BY <2>1 DEF Connection, Accept, Handshake, CloseFrame, EndSession, clientVars
  <2>2. CASE Respond("page") \/ Responded("page") \/ \E m \in Message : Publish(m)
    BY <2>2 DEF Respond, Responded, Publish, clientVars
  <2>3. CASE WorkStep
    BY <2>3 DEF WorkStep, WorkStarts, WorkSends, WorkEnds, clientVars
  <2>4. CASE TxStep
    BY <2>4 DEF TxStep, TxTakes, TxCloses, TxCopies, TxLists, TxHandsOver, TxRefused, clientVars
  <2>5. QED BY <1>1, <2>1, <2>2, <2>3, <2>4 DEF WsOnly
<1>2. CASE SnapshotStarts \/ SnapshotGivesUp \/ SnapshotSent
  BY <1>2 DEF SnapshotStarts, SnapshotGivesUp, SnapshotSent, Respond, Responded, clientVars
<1>3. CASE DetectPublishes
  BY <1>3 DEF DetectPublishes, Publish, clientVars
<1>4. CASE CameraOnly \/ DetectCommand \/ UNCHANGED dashboardVars
  BY <1>4 DEF CameraOnly, DetectCommand, dashboardVars, wsVars, clientVars
<1>5. QED BY <1>1, <1>2, <1>3, <1>4 DEF Next

LEMMA ClientsFitStep ==
  ASSUME LinkInv, ClientsFit, [Next]_dashboardVars
  PROVE  ClientsFit'
<1>1. IsFiniteSet(clients) /\ Cardinality(clients) \in Nat /\ MaxClients \in Nat
  BY WsTransportAssumption, FS_Subset, FS_CardinalityType DEF LinkInv, WsTypeOK
<1>2. CASE clients' \in SUBSET clients
  <2>1. IsFiniteSet(clients') /\ Cardinality(clients') <= Cardinality(clients)
    BY <1>1, <1>2, FS_Subset
  <2>2. Cardinality(clients') \in Nat
    BY <2>1, FS_CardinalityType
  <2>3. QED BY <1>1, <2>1, <2>2 DEF ClientsFit
<1>3. ASSUME NEW f \in Fd, Cardinality(clients) < MaxClients, clients' = clients \union {f}
      PROVE  ClientsFit'
  <2>1. Cardinality(clients \cup {f}) = IF f \in clients THEN Cardinality(clients)
                                                         ELSE Cardinality(clients) + 1
    BY <1>1, FS_AddElement
  <2>2. Cardinality(clients') \in {Cardinality(clients), Cardinality(clients) + 1}
    BY <1>3, <2>1
  <2>3. QED BY <1>1, <1>3, <2>2 DEF ClientsFit
<1>4. QED BY <1>2, <1>3, ClientsGrow

(* The table of clients and the queue of sockets to close keep to their    *)
(* sizes, for any of them: the table because a handshake looks for a place *)
(* and the queue because a socket is in it once (add_client,               *)
(* ws_transport_close_fd).                                                 *)
THEOREM WsTransportTypes == Spec => []WsTransportTypeOK
<1>1. Init => LinkInv /\ ClientsFit
  BY LinkInit, FS_EmptySet, WsTransportAssumption DEF Init, WsInit, ClientsFit
<1>2. LinkInv /\ ClientsFit /\ [Next]_dashboardVars => ClientsFit'
  BY ClientsFitStep
<1>3. LinkInv /\ ClientsFit => WsTransportTypeOK
  <2> SUFFICES ASSUME LinkInv PROVE Cardinality(close_q) <= CloseQSize
    BY DEF LinkInv, ClientsFit, WsTransportTypeOK
  <2>1. close_q \in SUBSET Fd
    BY DEF LinkInv, WsTypeOK
  <2>2. IsFiniteSet(close_q) /\ Cardinality(close_q) <= Cardinality(Fd)
    BY <2>1, WsTransportAssumption, FS_Subset
  <2>3. Cardinality(close_q) \in Nat /\ Cardinality(Fd) \in Nat
    BY <2>2, WsTransportAssumption, FS_CardinalityType
  <2>4. QED BY <2>2, <2>3, WsTransportAssumption
<1>4. QED BY <1>1, <1>2, <1>3, LinkStep, PTL DEF Spec
===============================================================================
