------------------------- MODULE DashboardProperties -------------------------
(***************************************************************************)
(* What the dashboard and the camera are meant to do.                      *)
(***************************************************************************)
EXTENDS Dashboard

Sending == work # "none"

(* Types, and the tables keep to their sizes.                              *)
WsTransportTypeOK ==
  /\ WsTypeOK
  /\ Cardinality(clients) <= MaxClients
  /\ Cardinality(close_q) <= CloseQSize

(* The buffer the HTTP task sends from holds one message from the moment   *)
(* it is handed over to the end of the send, so no client gets the head of *)
(* one message and the tail of another (ws_transport.c:46-51).             *)
SendsOneMessage == Sending => tx_buf = send_arg.msg

(* A descriptor the transport would still send to is open and belongs to   *)
(* a session or to one that has ended and waits to be closed: never to a   *)
(* connection that was given the number afterwards (ws_transport.c:297).   *)
ListedIsOpen ==
  /\ clients \subseteq {f \in open : session[f] = "ws"}
  /\ close_q = {f \in open : session[f] = "none"}

(* No socket is closed while a frame is on its way, and so none of the     *)
(* descriptors in the argument is closed and given out again before its    *)
(* turn (ws_transport.c:33-37, 297-301).                                   *)
ClosesBetweenSends ==
  [][open \ open' # {} => ~Sending /\ fds = {}]_dashboardVars

(* As long as a client is listed the sends go on, whatever the HTTP task   *)
(* is busy with and however often its queue refuses (ws_transport.c:195);  *)
(* each takes the newest message there is.                                 *)
SendsGoOn ==
  (newest # Nothing /\ clients # {}) ~> (Sending \/ clients = {})

(***************************************************************************)
(* The camera.                                                             *)
(***************************************************************************)
(* The picture a user has borrowed is the one it took: nobody encodes over *)
(* it before it is given back (camera_driver.c:24-39).                     *)
BorrowStable == \A u \in User : at[u] = "hold" => held /\ jpeg = u

(* Besides, no buffer is lost to the video driver, and the lock is taken   *)
(* exactly as long as somebody is at the camera, on every way out of a     *)
(* capture.                                                                *)
CameraKept ==
  LET busy == {u \in User : at[u] \in {"check", "encode", "hold"}}
  IN  /\ BorrowStable
      /\ queued + Cardinality({u \in User : at[u] \in {"encode", "hold"}}) = CamBufCount
      /\ busy = IF cam_lock = "free" THEN {} ELSE {cam_lock}
===============================================================================
