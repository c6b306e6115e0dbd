------------------------------ MODULE WsTransport -------------------------------
(***************************************************************************)
(* The dashboard link: main/transports/ws_transport.c and the one task of  *)
(* the HTTP server it runs in (main/http_server.c).  The HTTP task takes   *)
(* connections, answers requests, ends sessions and runs the work the      *)
(* transmit task queues for it, one thing at a time; the transmit task     *)
(* copies the newest message and closes the sockets of ended sessions.     *)
(***************************************************************************)
EXTENDS Integers, FiniteSets

CONSTANTS
  Fd,           \* socket descriptors the server's connections can have
  Message,      \* what the pipeline publishes
  MaxClients,   \* WS_MAX_CLIENTS, ws_transport.c:20
  CloseQSize,   \* CLOSE_Q_SIZE, ws_transport.c:37
  Nothing       \* a slot or a buffer with length 0

(* The IP stack has 10 sockets (LWIP_MAX_SOCKETS) and the server keeps     *)
(* three of them to itself: fewer connections than places in the queue.    *)
ASSUME WsTransportAssumption ==
  /\ IsFiniteSet(Fd) /\ Cardinality(Fd) <= CloseQSize
  /\ {MaxClients, CloseQSize} \subseteq Nat \ {0}
  /\ Nothing \notin Message

VARIABLES
  open,       \* descriptors the IP stack holds open
  session,    \* the HTTP server's sessions: "none", "http" or "ws"
  http,       \* the HTTP task: "idle", sending the "page" or a "snapshot", or
              \* at "work" for the transmit task
  clients,    \* s_client_fds
  close_q,    \* s_close_fds
  newest,     \* the half of s_slot_buf that s_write_idx does not point to; the
              \* other one is never read before it is written again
  send_done,  \* the semaphore s_send_done can be taken
  ws,         \* ws_tx_task: "wait", "close", "copy", "list", "hand"
  fds,        \* its copy of s_client_fds
  tx_buf,     \* the message it copied, until the send of it is over
  work,       \* ws_queued_send: "none", "queued" or "running"
  send_arg    \* its argument: the message, and the descriptors still to send to

httpVars == <<open, session, http>>
clientVars == <<clients, close_q>>
txVars == <<send_done, ws, fds, tx_buf, work, send_arg>>
wsVars == <<httpVars, clientVars, newest, txVars>>

NoArg == [msg |-> Nothing, fds |-> {}]

WsTypeOK ==
  /\ open \subseteq Fd
  /\ session \in [Fd -> {"none", "http", "ws"}]
  /\ http \in {"idle", "page", "snapshot", "work"}
  /\ clients \subseteq Fd
  /\ close_q \subseteq Fd
  /\ newest \in Message \union {Nothing}
  /\ send_done \in BOOLEAN
  /\ ws \in {"wait", "close", "copy", "list", "hand"}
  /\ fds \subseteq Fd
  /\ tx_buf \in Message \union {Nothing}
  /\ work \in {"none", "queued", "running"}
  /\ send_arg \in [msg : Message \union {Nothing}, fds : SUBSET Fd]

WsInit ==
  /\ open = {} /\ session = [f \in Fd |-> "none"] /\ http = "idle"
  /\ clients = {} /\ close_q = {}
  /\ newest = Nothing
  /\ send_done = TRUE /\ ws = "wait" /\ fds = {} /\ tx_buf = Nothing
  /\ work = "none" /\ send_arg = NoArg

(***************************************************************************)
(* Publishing: ws_transport_send, in the publisher's task and under the    *)
(* pipeline's envelope.  A message that was not copied yet is replaced.    *)
(***************************************************************************)
Publish(m) ==
  /\ newest' = m
  /\ UNCHANGED <<httpVars, clientVars, txVars>>

(***************************************************************************)
(* The HTTP task.                                                          *)
(***************************************************************************)
(* A new connection gets a descriptor nobody has open.                     *)
Accept(f) ==
  /\ http = "idle" /\ f \notin open
  /\ open' = open \union {f}
  /\ session' = [session EXCEPT ![f] = "http"]
  /\ UNCHANGED <<http, clientVars, newest, txVars>>

(* Mutant: the table is taken to have room.                                *)
HandshakeUnchecked(f) ==
  /\ http = "idle" /\ session[f] # "none"
  /\ session' = [session EXCEPT ![f] = "ws"]
  /\ clients' = clients \union {f}
  /\ UNCHANGED <<open, http, close_q, newest, txVars>>

(* ws_handler on the GET of /ws, add_client: a listed descriptor stays, and *)
(* a client too many is not listed but keeps its session.                  *)
Handshake(f) ==
  /\ http = "idle" /\ session[f] # "none"
  /\ session' = [session EXCEPT ![f] = "ws"]
  /\ clients' = IF Cardinality(clients) < MaxClients THEN clients \union {f} ELSE clients
  /\ UNCHANGED <<open, http, close_q, newest, txVars>>

(* ws_handler on a close frame, remove_client.                             *)
CloseFrame(f) ==
  /\ http = "idle" /\ session[f] = "ws"
  /\ clients' = clients \ {f}
  /\ UNCHANGED <<httpVars, close_q, newest, txVars>>

(* dashboard_handler or snapshot_handler: the answer takes its time.       *)
Respond(what) ==
  /\ http = "idle" /\ \E f \in Fd : session[f] = "http"
  /\ http' = what
  /\ UNCHANGED <<open, session, clientVars, newest, txVars>>

Responded(what) ==
  /\ http = what
  /\ http' = "idle"
  /\ UNCHANGED <<open, session, clientVars, newest, txVars>>

(* Mutant: the socket is closed where the session ends.                    *)
EndSessionInPlace(f) ==
  /\ http = "idle" /\ session[f] # "none"
  /\ session' = [session EXCEPT ![f] = "none"]
  /\ clients' = clients \ {f}
  /\ open' = open \ {f}
  /\ UNCHANGED <<http, close_q, newest, txVars>>

(* Mutant: the client stays listed until a send to it fails.               *)
EndSessionKeepsClient(f) ==
  /\ http = "idle" /\ session[f] # "none"
  /\ session' = [session EXCEPT ![f] = "none"]
  /\ close_q' = close_q \union {f}
  /\ UNCHANGED <<open, http, clients, newest, txVars>>

(* A session ends, ws_transport_close_fd: the socket is left to the        *)
(* transmit task as long as the queue has a place.                         *)
EndSession(f) ==
  /\ http = "idle" /\ session[f] # "none"
  /\ session' = [session EXCEPT ![f] = "none"]
  /\ clients' = clients \ {f}
  /\ IF Cardinality(close_q) < CloseQSize
     THEN close_q' = close_q \union {f} /\ UNCHANGED open
     ELSE open' = open \ {f} /\ UNCHANGED close_q
  /\ UNCHANGED <<http, newest, txVars>>

(***************************************************************************)
(* ws_queued_send, in the HTTP task.                                       *)
(***************************************************************************)
WorkStarts ==
  /\ http = "idle" /\ work = "queued"
  /\ http' = "work" /\ work' = "running"
  /\ UNCHANGED <<open, session, clientVars, newest, send_done, ws, fds, tx_buf, send_arg>>

(* One turn of its loop: the frame goes out, or is skipped because the     *)
(* socket takes nothing now, or the client is dropped: its session is      *)
(* gone, its socket is in error, or the send fails for good.               *)
WorkSends(f) ==
  /\ work = "running" /\ f \in send_arg.fds
  /\ send_arg' = [send_arg EXCEPT !.fds = @ \ {f}]
  /\ \/ session[f] # "none" /\ UNCHANGED clients
     \/ clients' = clients \ {f}
  /\ UNCHANGED <<httpVars, close_q, newest, send_done, ws, fds, tx_buf, work>>

WorkEnds ==
  /\ work = "running" /\ send_arg.fds = {}
  /\ http' = "idle" /\ work' = "none"
  /\ send_arg' = NoArg
  /\ tx_buf' = Nothing
  /\ send_done' = TRUE
  /\ UNCHANGED <<open, session, clientVars, newest, ws, fds>>

(***************************************************************************)
(* ws_tx_task.  It wakes for a notification or after 100 ms: always.       *)
(***************************************************************************)
(* Mutant: it goes on when the wait for s_send_done times out.             *)
TxTakesAnyway ==
  /\ ws = "wait"
  /\ send_done' = FALSE
  /\ ws' = "close"
  /\ UNCHANGED <<httpVars, clientVars, newest, fds, tx_buf, work, send_arg>>

TxTakes ==
  /\ ws = "wait" /\ send_done
  /\ send_done' = FALSE
  /\ ws' = "close"
  /\ UNCHANGED <<httpVars, clientVars, newest, fds, tx_buf, work, send_arg>>

TxCloses ==
  /\ ws = "close"
  /\ open' = open \ close_q
  /\ close_q' = {}
  /\ ws' = "copy"
  /\ UNCHANGED <<session, http, clients, newest, send_done, fds, tx_buf, work, send_arg>>

Released == ws' = "wait" /\ send_done' = TRUE /\ fds' = {} /\ tx_buf' = Nothing

TxCopies ==
  /\ ws = "copy"
  /\ IF newest = Nothing
     THEN Released
     ELSE ws' = "list" /\ tx_buf' = newest /\ UNCHANGED <<send_done, fds>>
  /\ UNCHANGED <<httpVars, clientVars, newest, work, send_arg>>

TxLists ==
  /\ ws = "list"
  /\ IF clients = {}
     THEN Released
     ELSE ws' = "hand" /\ fds' = clients /\ UNCHANGED <<send_done, tx_buf>>
  /\ UNCHANGED <<httpVars, clientVars, newest, work, send_arg>>

(* httpd_queue_work, which may refuse.                                     *)
TxHandsOver ==
  /\ ws = "hand"
  /\ work' = "queued"
  /\ send_arg' = [msg |-> tx_buf, fds |-> fds]
  /\ ws' = "wait" /\ fds' = {}
  /\ UNCHANGED <<httpVars, clientVars, newest, send_done, tx_buf>>

(* Mutant: a refusal is not told from a send under way.                    *)
TxRefusedKeeping ==
  /\ ws = "hand"
  /\ ws' = "wait" /\ fds' = {} /\ tx_buf' = Nothing
  /\ UNCHANGED <<httpVars, clientVars, newest, send_done, work, send_arg>>

TxRefused ==
  /\ ws = "hand"
  /\ Released
  /\ UNCHANGED <<httpVars, clientVars, newest, work, send_arg>>

TxStep == TxTakes \/ TxCloses \/ TxCopies \/ TxLists \/ TxHandsOver \/ TxRefused

Connection(f) ==
  Accept(f) \/ Handshake(f) \/ CloseFrame(f) \/ EndSession(f)

WorkStep == WorkStarts \/ WorkEnds \/ \E f \in Fd : WorkSends(f)
===============================================================================
