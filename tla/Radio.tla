--------------------------------- MODULE Radio ---------------------------------
(***************************************************************************)
(* The field link: the boat's processor, its co-processor and the ground   *)
(* bridge, with a radio that loses packets and a co-processor that may     *)
(* crash at any time.                                                      *)
(***************************************************************************)
EXTENDS EspnowTransport, Coprocessor, GroundBridge

CONSTANTS MaxLosses   \* bound of the model: packets lost between two emptyings
                      \* of the ground bridge's buffer

(* Telemetry fits in one packet.                                           *)
ASSUME RadioAssumption == MaxLosses \in Nat /\ 1 \in Sizes

VARIABLES inits   \* history: INITs the watchdog sent since a frame was heard,
                  \* counted up to one more than can be

radioVars == <<transportVars, c6Vars, groundVars, inits>>

Init ==
  TransportInit /\ CoprocessorInit /\ GroundInit /\ inits = 0

(***************************************************************************)
(* The co-processor takes a call: a frame for its queue, or INIT.          *)
(***************************************************************************)
Served(c) ==
  /\ call[c] = "sent"
  /\ call' = [call EXCEPT ![c] = "served"]

TakesFrame(c, size) ==
  /\ Served(c) /\ Arrive(c)
  /\ VideoCb(size)
  /\ UNCHANGED <<mode, watching, upstream, attempts, wd, rx, envelope, seen>>
  /\ UNCHANGED <<groundVars, inits>>

(* Telemetry is one packet; what the pipeline publishes may be more.       *)
ServesTelemetry == TakesFrame("snapshot", 1)
ServesPublish == \E size \in Sizes : TakesFrame("publisher", size)

ServesInit ==
  \E c \in {"boot", "watchdog"} :
    /\ Served(c) /\ InitBegins
    /\ UNCHANGED <<mode, watching, upstream, attempts, wd, rx_queue, rx, envelope, seen>>
    /\ UNCHANGED <<groundVars, inits>>

(* Before boot has chosen there is no watchdog.                            *)
InitCaller == IF mode = "calling" THEN "boot" ELSE "watchdog"

InitReturns(ok) ==
  /\ InitEnds(ok) /\ Respond(InitCaller)
  /\ UNCHANGED <<mode, watching, upstream, attempts, wd, rx, call, envelope, seen>>
  /\ UNCHANGED <<groundVars, inits>>

(* Only a call the co-processor cannot answer any more runs out of time.   *)
GivesUp(c) ==
  /\ c6 = "down" \/ (call[c] = "served" /\ c6 # "initing")
  /\ CallTimesOut(c)
  /\ UNCHANGED <<c6Vars, groundVars, inits>>

(***************************************************************************)
(* The air.  espnow_recv_cb passes on what it hears when it is ready.      *)
(***************************************************************************)
Uplink(frame) ==
  /\ c6 = "ready" /\ Arrive(frame)
  /\ UNCHANGED <<mode, watching, upstream, attempts, wd, rx, call, envelope, seen>>
  /\ UNCHANGED <<c6Vars, groundVars, inits>>

(* esp_now_send fails while ESP-NOW is off, and any packet may be lost.    *)
Downlink ==
  /\ SendPacket
  /\ \/ c6 = "ready" /\ Hear(tx.size, LastPacket)
     \/ losses < MaxLosses /\ Miss(LastPacket)
  /\ UNCHANGED <<transportVars, inits>>

DropsFrame == TakeFrame /\ UNCHANGED <<transportVars, groundVars, inits>>

(* A crash in the middle of a frame loses the rest of it.                  *)
C6Crash ==
  /\ Crash
  /\ IF tx = NoFrame THEN UNCHANGED groundVars ELSE losses < MaxLosses /\ CutShort
  /\ UNCHANGED <<transportVars, inits>>

C6Boot == Boot /\ UNCHANGED <<transportVars, groundVars, inits>>

(***************************************************************************)
(* The boat's own steps, and what they do to the history.                  *)
(***************************************************************************)
Hears ==
  /\ RxTake
  /\ inits' = IF Head(rx_queue) \in Upstream THEN 0 ELSE inits

Reinit ==
  /\ WatchdogSends
  /\ inits' = IF inits > MaxReinitAttempts + 1 THEN inits ELSE inits + 1

BoatStep ==
  \/ Hears \/ Reinit
  \/ /\ \/ ProbeSends \/ ProbeReturns \/ ChooseField \/ ChooseWifi
        \/ RxHeard \/ RxRoute \/ RxHandled
        \/ Silence \/ WatchdogLooks \/ WatchdogStamps
        \/ SendTelemetry \/ Publish \/ PublishReturns
     /\ UNCHANGED inits

Next ==
  \/ BoatStep /\ UNCHANGED <<c6Vars, groundVars>>
  \/ ServesTelemetry \/ ServesPublish \/ ServesInit
  \/ \E ok \in BOOLEAN : InitReturns(ok)
  \/ \E c \in Caller : GivesUp(c)
  \/ \E frame \in Upstream : Uplink(frame)
  \/ Downlink \/ DropsFrame
  \/ C6Crash \/ C6Boot

Spec == Init /\ [][Next]_radioVars

(***************************************************************************)
(* Fairness: every task gets to run (runtime_schedule.c gives each its     *)
(* core and priority), time passes, calls are answered or give up, and a   *)
(* crashed co-processor starts again.  Nothing is promised of the radio,   *)
(* of the ground station, or of esp_now_init.                              *)
(***************************************************************************)
FairSpec ==
  /\ Spec
  /\ WF_radioVars((Hears \/ ((RxHeard \/ RxRoute \/ RxHandled) /\ UNCHANGED inits))
                  /\ UNCHANGED <<c6Vars, groundVars>>)
  /\ WF_radioVars((Reinit \/ ((Silence \/ WatchdogLooks \/ WatchdogStamps) /\ UNCHANGED inits))
                  /\ UNCHANGED <<c6Vars, groundVars>>)
  /\ WF_radioVars(ServesInit \/ \E ok \in BOOLEAN : InitReturns(ok))
  /\ WF_radioVars(GivesUp("watchdog"))
  /\ WF_radioVars(C6Boot)
===============================================================================
