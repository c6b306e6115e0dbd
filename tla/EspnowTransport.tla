---------------------------- MODULE EspnowTransport ----------------------------
(***************************************************************************)
(* The boat's side of the field link: main/transports/espnow_transport.c,  *)
(* the two envelopes of main/pipeline.c, and the choice of the link in     *)
(* main.c.  A remote call to the co-processor returns when esp_hosted's    *)
(* one receiving task hands its response over; that task also runs         *)
(* upstream_cb, in the order things arrive.                                *)
(***************************************************************************)
EXTENDS Integers, Sequences, SequencesExt

CONSTANTS
  MaxReinitAttempts,  \* MAX_CONSECUTIVE_REINIT_ATTEMPTS, espnow_transport.c:118
  RxDepth             \* bound of the model: what waits for the receiving task

ASSUME EspnowTransportAssumption == {MaxReinitAttempts, RxDepth} \subseteq Nat \ {0}

Caller == {"boot", "watchdog", "snapshot", "publisher"}
Upstream == {"hello", "command"}
Arrival == Upstream \union Caller   \* a Caller stands for the response to its call

VARIABLES
  mode,       \* where boot is in choosing the link: "start", "calling", "listen",
              \* then "field" or "wifi" for good
  watching,   \* the watchdog timer runs
  upstream,   \* s_last_upstream_us: "never", or its age against the timeout
  attempts,   \* s_reinit_attempts
  wd,         \* where the timer's callback is, and its copy of s_reinit_attempts
  rx_queue,   \* what has arrived from the co-processor, in order
  rx,         \* the frame in upstream_cb, and where
  call,       \* esp_hosted_send_custom_data by each caller: "none", "sent", or
              \* "served" by the co-processor and not yet returned
  envelope,   \* the holders of s_msg_mutex ("tx") and s_rx_msg_mutex ("rx")
  seen        \* s_ground_seen

transportVars ==
  <<mode, watching, upstream, attempts, wd, rx_queue, rx, call, envelope, seen>>

WatchdogIdle == [pc |-> "idle", copy |-> 0]
RxIdle == [pc |-> "idle", frame |-> "none"]

TransportTypeOK ==
  /\ mode \in {"start", "calling", "listen", "field", "wifi"}
  /\ watching \in BOOLEAN
  /\ upstream \in {"never", "recent", "silent"}
  /\ attempts \in 0..MaxReinitAttempts
  /\ wd \in [pc : {"idle", "count", "sent"}, copy : 0..MaxReinitAttempts]
  /\ rx_queue \in Seq(Arrival) /\ Len(rx_queue) <= RxDepth
  /\ rx \in [pc : {"idle", "heard", "route", "handle"}, frame : Upstream \union {"none"}]
  /\ call \in [Caller -> {"none", "sent", "served"}]
  /\ envelope \in [{"tx", "rx"} -> {"free", "publisher", "receiver"}]
  /\ seen \in BOOLEAN

TransportInit ==
  /\ mode = "start" /\ watching = FALSE
  /\ upstream = "never" /\ attempts = 0 /\ wd = WatchdogIdle
  /\ rx_queue = <<>> /\ rx = RxIdle
  /\ call = [c \in Caller |-> "none"] /\ envelope = [e \in {"tx", "rx"} |-> "free"]
  /\ seen = FALSE

(***************************************************************************)
(* Remote calls.                                                           *)
(***************************************************************************)
Call(c) == call[c] = "none" /\ call' = [call EXCEPT ![c] = "sent"]
Arrive(a) == Len(rx_queue) < RxDepth /\ rx_queue' = Append(rx_queue, a)

Returned(c) == call[c] = "none"

(* A response to a caller that has given up is not delivered to it.        *)
Respond(c) ==
  IF call[c] = "served" THEN Arrive(c) ELSE UNCHANGED rx_queue

(* The remote-call layer gives up on an answer; the one that may be on its *)
(* way finds nobody waiting.                                               *)
CallTimesOut(c) ==
  /\ call[c] # "none"
  /\ call' = [call EXCEPT ![c] = "none"]
  /\ \/ \E i \in DOMAIN rx_queue :
            rx_queue[i] = c /\ rx_queue' = RemoveAt(rx_queue, i)
     \/ ~Contains(rx_queue, c) /\ UNCHANGED rx_queue
  /\ UNCHANGED <<mode, watching, upstream, attempts, wd, rx, envelope, seen>>

(***************************************************************************)
(* Boot: espnow_transport_probe, then main.c's choice.                     *)
(***************************************************************************)
ProbeSends ==
  /\ mode = "start"
  /\ mode' = "calling"
  /\ Call("boot")
  /\ UNCHANGED <<watching, upstream, attempts, wd, rx_queue, rx, envelope, seen>>

(* send_espnow_init failed: the probe returns its error.                   *)
ProbeReturns ==
  /\ mode = "calling" /\ Returned("boot")
  /\ mode' \in {"listen", "wifi"}
  /\ UNCHANGED <<watching, upstream, attempts, wd, rx_queue, rx, call, envelope, seen>>

(* xEventGroupWaitBits, then activate: no timer is not an error, and no    *)
(* place among the transports sends boot to WiFi.                          *)
ChooseField ==
  /\ mode = "listen" /\ seen
  /\ \/ mode' = "field" /\ watching' \in BOOLEAN
     \/ mode' = "wifi" /\ UNCHANGED watching
  /\ UNCHANGED <<upstream, attempts, wd, rx_queue, rx, call, envelope, seen>>

ChooseWifi ==
  /\ mode = "listen" /\ ~seen
  /\ mode' = "wifi"
  /\ UNCHANGED <<watching, upstream, attempts, wd, rx_queue, rx, call, envelope, seen>>

(***************************************************************************)
(* upstream_cb in the receiving task.                                      *)
(***************************************************************************)
(* The stamp is the first thing a frame changes.                           *)
RxTake ==
  /\ rx.pc = "idle" /\ rx_queue # <<>>
  /\ rx_queue' = Tail(rx_queue)
  /\ LET a == Head(rx_queue)
     IN  IF a \in Caller
         THEN call' = [call EXCEPT ![a] = "none"] /\ UNCHANGED <<upstream, rx>>
         ELSE upstream' = "recent" /\ rx' = [pc |-> "heard", frame |-> a] /\ UNCHANGED call
  /\ UNCHANGED <<mode, watching, attempts, wd, envelope, seen>>

(* The attempts start again, and a hello goes no further.                  *)
RxHeard ==
  /\ rx.pc = "heard"
  /\ attempts' = 0
  /\ seen' = (seen \/ rx.frame = "hello")
  /\ rx' = IF rx.frame = "hello" THEN RxIdle ELSE [rx EXCEPT !.pc = "route"]
  /\ UNCHANGED <<mode, watching, upstream, wd, rx_queue, call, envelope>>

(* Mutant: one envelope for both directions.                               *)
RxEnvelopeShared == "tx"

(* pipeline_handle_incoming has an envelope of its own, pipeline.c:77.     *)
RxEnvelope == "rx"

RxRoute ==
  /\ rx.pc = "route" /\ envelope[RxEnvelope] = "free"
  /\ envelope' = [envelope EXCEPT ![RxEnvelope] = "receiver"]
  /\ rx' = [rx EXCEPT !.pc = "handle"]
  /\ UNCHANGED <<mode, watching, upstream, attempts, wd, rx_queue, call, seen>>

RxHandled ==
  /\ rx.pc = "handle"
  /\ envelope' = [envelope EXCEPT ![RxEnvelope] = "free"]
  /\ rx' = RxIdle
  /\ UNCHANGED <<mode, watching, upstream, attempts, wd, rx_queue, call, seen>>

(***************************************************************************)
(* reinit_watchdog_cb.                                                     *)
(***************************************************************************)
(* UPSTREAM_SILENCE_TIMEOUT_US goes by without a frame.  (The stamp is two *)
(* words, so it could also be read half written; the halves disagree only  *)
(* when the upper one changes, once in 71 minutes: not modelled.)          *)
Silence ==
  /\ upstream = "recent" /\ rx.pc # "heard"
  /\ upstream' = "silent"
  /\ UNCHANGED <<mode, watching, attempts, wd, rx_queue, rx, call, envelope, seen>>

(* The callback reads the stamp, the limit, and then the counter it will   *)
(* write back one higher.                                                  *)
WatchdogLooks ==
  /\ watching /\ wd.pc = "idle"
  /\ upstream = "silent" /\ attempts < MaxReinitAttempts
  /\ wd' = [pc |-> "count", copy |-> attempts]
  /\ UNCHANGED <<mode, watching, upstream, attempts, rx_queue, rx, call, envelope, seen>>

WatchdogSends ==
  /\ wd.pc = "count"
  /\ attempts' = wd.copy + 1
  /\ wd' = [pc |-> "sent", copy |-> 0]
  /\ Call("watchdog")
  /\ UNCHANGED <<mode, watching, upstream, rx_queue, rx, envelope, seen>>

(* Mutant: the stamp is cleared until a frame comes.                       *)
AfterSendCleared == "never"

(* Stamped whatever the call returned, espnow_transport.c:151.             *)
AfterSend == "recent"

(* Mutant: an INIT that went out counts as a healthy link.                 *)
WatchdogStampsResets ==
  /\ wd.pc = "sent" /\ Returned("watchdog")
  /\ upstream' = AfterSend
  /\ wd' = WatchdogIdle
  /\ attempts' = 0
  /\ UNCHANGED <<mode, watching, rx_queue, rx, call, envelope, seen>>

WatchdogStamps ==
  /\ wd.pc = "sent" /\ Returned("watchdog")
  /\ upstream' = AfterSend
  /\ wd' = WatchdogIdle
  /\ UNCHANGED <<mode, watching, attempts, rx_queue, rx, call, envelope, seen>>

(***************************************************************************)
(* The senders.  Telemetry has a buffer of its own; everything else holds  *)
(* s_msg_mutex until its call returns, fanout_locked.                      *)
(***************************************************************************)
SendTelemetry ==
  /\ mode = "field"
  /\ Call("snapshot")
  /\ UNCHANGED <<mode, watching, upstream, attempts, wd, rx_queue, rx, envelope, seen>>

Publish ==
  /\ mode = "field" /\ envelope["tx"] = "free"
  /\ envelope' = [envelope EXCEPT !["tx"] = "publisher"]
  /\ Call("publisher")
  /\ UNCHANGED <<mode, watching, upstream, attempts, wd, rx_queue, rx, seen>>

PublishReturns ==
  /\ envelope["tx"] = "publisher" /\ Returned("publisher")
  /\ envelope' = [envelope EXCEPT !["tx"] = "free"]
  /\ UNCHANGED <<mode, watching, upstream, attempts, wd, rx_queue, rx, call, seen>>
===============================================================================
