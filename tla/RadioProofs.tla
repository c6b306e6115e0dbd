------------------------------ MODULE RadioProofs ------------------------------
(***************************************************************************)
(* Theorems about the field link, for any depth of the queues, any lengths *)
(* of frames, any limit on the attempts and any number of lost packets.    *)
(***************************************************************************)
EXTENDS RadioProperties, SequenceTheorems, TLAPS

(***************************************************************************)
(* What the invariants say.                                                *)
(***************************************************************************)

(* The watchdog counts before it sends, from a copy that was below the     *)
(* limit.                                                                  *)
CopyBelowLimit == wd.pc = "count" => wd.copy < MaxReinitAttempts

(* The counter starts again one step after the frame that restarts it was  *)
(* heard.  In that step an INIT that was already counted may still go out, *)
(* and it is forgotten; but the frame has just stamped the link, so that   *)
(* no second one can follow.                                               *)
TeardownInv ==
  /\ wd.pc = "count" => inits <= wd.copy + 1
  /\ rx.pc # "heard" => inits <= attempts + 1
  /\ rx.pc = "heard" =>
       /\ inits <= 1
       /\ inits = 1 => wd.pc # "count"
       /\ upstream # "silent"

(* Each direction has an envelope, and the receiving task frees its own    *)
(* before it looks at the next frame.                                      *)
EnvelopeInv ==
  /\ envelope["rx"] # "publisher"
  /\ rx.pc # "handle" => envelope["rx"] = "free"

(* The buffer of the ground bridge holds what is left of earlier frames    *)
(* and then the packets of the frame on the air, all of them unless there  *)
(* is a gap.  Leftovers have cost a packet, and a gap after them another:  *)
(* a gap that cost none emptied the buffer.                                *)
GroundInv ==
  /\ ~gap => reassembly = left + tx.sent
  /\ gap  => reassembly < left + tx.sent
  /\ left > 0 => losses >= 1
  /\ left > 0 /\ gap => losses >= 2

(***************************************************************************)
(* Types, and the copy of the attempts.                                    *)
(***************************************************************************)

(* Taking one response out of the queue leaves a shorter queue of the same *)
(* arrivals.                                                               *)
LEMMA RemoveAtType ==
  ASSUME NEW S, NEW s \in Seq(S), NEW i \in DOMAIN s
  PROVE  RemoveAt(s, i) \in Seq(S) /\ Len(RemoveAt(s, i)) = Len(s) - 1
  <1> DEFINE before == SubSeq(s, 1, i - 1)
             after == SubSeq(s, i + 1, Len(s))
  <1>1. i \in 1..Len(s) /\ Len(s) \in Nat
    OBVIOUS
  <1>2. before \in Seq(S) /\ Len(before) = i - 1
    BY <1>1
  <1>3. after \in Seq(S) /\ Len(after) = Len(s) - i
    BY <1>1
  <1>4. RemoveAt(s, i) = before \o after
    BY DEF RemoveAt
  <1> HIDE DEF before, after
  <1>5. before \o after \in Seq(S) /\ Len(before \o after) = Len(before) + Len(after)
    BY <1>2, <1>3, ConcatProperties
  <1> QED
    BY <1>1, <1>2, <1>3, <1>4, <1>5

(* Whatever arrives finds room in the queue of the receiving task.         *)
LEMMA ArriveType ==
  ASSUME NEW a \in Arrival, rx_queue \in Seq(Arrival), Arrive(a)
  PROVE  rx_queue' \in Seq(Arrival) /\ Len(rx_queue') <= RxDepth
  <1>1. Len(rx_queue) \in Nat /\ Len(Append(rx_queue, a)) = Len(rx_queue) + 1
    BY AppendProperties
  <1>2. Append(rx_queue, a) \in Seq(Arrival)
    BY AppendProperties
  <1> QED
    BY <1>1, <1>2, EspnowTransportAssumption DEF Arrive

LEMMA BoatKeepsTypes ==
  ASSUME RadioTypeOK, CopyBelowLimit, BoatStep
  PROVE  TransportTypeOK' /\ inits' \in Nat /\ CopyBelowLimit'
  <1> USE EspnowTransportAssumption DEF TransportTypeOK, CopyBelowLimit, Caller, WatchdogIdle, RxIdle
  <1>0. TransportTypeOK /\ inits \in Nat
    BY DEF RadioTypeOK
  <1>1. CASE Hears
    <2>1. rx_queue \in Seq(Arrival) /\ rx_queue # <<>>
      BY <1>0, <1>1 DEF Hears, RxTake
    <2>2. /\ Head(rx_queue) \in Arrival
          /\ Tail(rx_queue) \in Seq(Arrival) /\ Len(Tail(rx_queue)) = Len(rx_queue) - 1
      BY <2>1
    <2>3. Head(rx_queue) \notin Caller => Head(rx_queue) \in Upstream
      BY <2>2 DEF Arrival
    <2> HIDE DEF Caller
    <2>4. rx_queue' \in Seq(Arrival) /\ Len(rx_queue') <= RxDepth
      BY <1>0, <1>1, <2>2 DEF Hears, RxTake
    <2>5. call' \in [Caller -> {"none", "sent", "served"}]
      BY <1>0, <1>1 DEF Hears, RxTake
    <2>6. upstream' \in {"never", "recent", "silent"}
      BY <1>0, <1>1 DEF Hears, RxTake
    <2>7. rx' \in [pc : {"idle", "heard", "route", "handle"}, frame : Upstream \union {"none"}]
      BY <1>0, <1>1, <2>3 DEF Hears, RxTake
    <2> QED
      BY <1>0, <1>1, <2>4, <2>5, <2>6, <2>7 DEF Hears, RxTake
  <1>2. CASE Reinit
    BY <1>0, <1>2 DEF Reinit, WatchdogSends, Call
  <1>3. ASSUME UNCHANGED inits, ProbeSends \/ ProbeReturns \/ ChooseField \/ ChooseWifi
        PROVE  TransportTypeOK' /\ inits' \in Nat /\ CopyBelowLimit'
    BY <1>0, <1>3 DEF ProbeSends, ProbeReturns, ChooseField, ChooseWifi, Call
  <1>4. ASSUME UNCHANGED inits, RxHeard \/ RxRoute \/ RxHandled
        PROVE  TransportTypeOK' /\ inits' \in Nat /\ CopyBelowLimit'
    <2>1. CASE RxHeard
      BY <1>0, <1>4, <2>1 DEF RxHeard, Upstream
    <2>2. CASE RxRoute
      BY <1>0, <1>4, <2>2 DEF RxRoute, RxEnvelope
    <2>3. CASE RxHandled
      BY <1>0, <1>4, <2>3 DEF RxHandled, RxEnvelope
    <2> QED
      BY <1>4, <2>1, <2>2, <2>3
  <1>5. ASSUME UNCHANGED inits, Silence \/ WatchdogLooks \/ WatchdogStamps
        PROVE  TransportTypeOK' /\ inits' \in Nat /\ CopyBelowLimit'
    BY <1>0, <1>5 DEF Silence, WatchdogLooks, WatchdogStamps, AfterSend
  <1>6. ASSUME UNCHANGED inits, SendTelemetry \/ Publish \/ PublishReturns
        PROVE  TransportTypeOK' /\ inits' \in Nat /\ CopyBelowLimit'
    BY <1>0, <1>6 DEF SendTelemetry, Publish, PublishReturns, Call
  <1> QED
    BY <1>1, <1>2, <1>3, <1>4, <1>5, <1>6 DEF BoatStep

(* A turn of the transmitting task keeps its place in the frame.           *)
LEMMA SendPacketType ==
  ASSUME CoprocessorTypeOK, SendPacket
  PROVE  CoprocessorTypeOK'
  <1> USE CoprocessorAssumption
  <1>1. tx.size \in Nat /\ tx.sent \in 0..(tx.size - 1)
    BY DEF CoprocessorTypeOK, SendPacket
  <1>2. CASE LastPacket
    BY <1>2 DEF SendPacket, CoprocessorTypeOK
  <1>3. CASE ~LastPacket
    <2>1. tx'.size = tx.size /\ tx'.sent = tx.sent + 1
      BY <1>3 DEF SendPacket, CoprocessorTypeOK, NoFrame
    <2>2. tx.sent + 1 \in 0..(tx.size - 1)
      BY <1>1, <1>3 DEF LastPacket
    <2> QED
      BY <2>1, <2>2 DEF SendPacket, CoprocessorTypeOK
  <1> QED
    BY <1>2, <1>3

LEMMA LinkKeepsTypes ==
  ASSUME RadioTypeOK, CopyBelowLimit,
         \/ ServesTelemetry \/ ServesPublish \/ ServesInit
         \/ \E ok \in BOOLEAN : InitReturns(ok)
         \/ \E c \in Caller : GivesUp(c)
         \/ \E frame \in Upstream : Uplink(frame)
  PROVE  RadioTypeOK' /\ CopyBelowLimit'
  <1> USE EspnowTransportAssumption, CoprocessorAssumption, RadioAssumption
  <1>0. TransportTypeOK /\ CoprocessorTypeOK /\ GroundTypeOK /\ inits \in Nat /\ losses <= MaxLosses
    BY DEF RadioTypeOK
  <1>1. rx_queue \in Seq(Arrival) /\ Caller \subseteq Arrival /\ Upstream \subseteq Arrival
    BY <1>0 DEF TransportTypeOK, Arrival
  <1>2. ASSUME NEW c \in {"snapshot", "publisher"}, NEW size \in Sizes, TakesFrame(c, size)
        PROVE  RadioTypeOK' /\ CopyBelowLimit'
    <2>1. c \in Caller
      BY DEF Caller
    <2>2. rx_queue' \in Seq(Arrival) /\ Len(rx_queue') <= RxDepth
      BY <1>1, <1>2, <2>1, ArriveType DEF TakesFrame
    <2>3. call' \in [Caller -> {"none", "sent", "served"}]
      BY <1>0, <1>2, <2>1 DEF TakesFrame, Served, TransportTypeOK
    <2>4. TransportTypeOK'
      BY <1>0, <1>2, <2>2, <2>3 DEF TakesFrame, TransportTypeOK
    <2>5. tx_queue \in Seq(Sizes) /\ Len(tx_queue) <= TxQueueDepth /\ Len(tx_queue) \in Nat
      BY <1>0 DEF CoprocessorTypeOK
    <2>6. /\ Append(tx_queue, size) \in Seq(Sizes)
          /\ Len(Append(tx_queue, size)) = Len(tx_queue) + 1
      BY <2>5, AppendProperties
    <2>7. tx_queue' \in Seq(Sizes) /\ Len(tx_queue') <= TxQueueDepth
      BY <1>2, <2>5, <2>6 DEF TakesFrame, VideoCb
    <2>8. CoprocessorTypeOK'
      BY <1>0, <1>2, <2>7 DEF TakesFrame, VideoCb, CoprocessorTypeOK
    <2>9. GroundTypeOK' /\ UNCHANGED <<inits, losses, wd>>
      BY <1>0, <1>2 DEF TakesFrame, groundVars, GroundTypeOK
    <2> QED
      BY <1>0, <2>4, <2>8, <2>9 DEF RadioTypeOK, CopyBelowLimit
  <1>3. CASE ServesInit
    <2>1. PICK c \in {"boot", "watchdog"} :
            /\ Served(c) /\ InitBegins
            /\ UNCHANGED <<mode, watching, upstream, attempts, wd, rx_queue, rx, envelope, seen>>
            /\ UNCHANGED <<groundVars, inits>>
      BY <1>3 DEF ServesInit
    <2>2. TransportTypeOK'
      BY <1>0, <2>1 DEF Served, TransportTypeOK, Caller
    <2>3. CoprocessorTypeOK'
      BY <1>0, <2>1 DEF InitBegins, CoprocessorTypeOK
    <2>4. GroundTypeOK' /\ UNCHANGED <<inits, losses, wd>>
      BY <1>0, <2>1 DEF groundVars, GroundTypeOK
    <2> QED
      BY <1>0, <2>2, <2>3, <2>4 DEF RadioTypeOK, CopyBelowLimit
  <1>4. ASSUME NEW ok \in BOOLEAN, InitReturns(ok)
        PROVE  RadioTypeOK' /\ CopyBelowLimit'
    <2>1. InitCaller \in Arrival
      BY <1>1 DEF InitCaller, Caller
    <2>2. rx_queue' \in Seq(Arrival) /\ Len(rx_queue') <= RxDepth
      BY <1>0, <1>1, <1>4, <2>1, ArriveType DEF InitReturns, Respond, TransportTypeOK
    <2>3. TransportTypeOK'
      BY <1>0, <1>4, <2>2 DEF InitReturns, TransportTypeOK
    <2>4. CoprocessorTypeOK'
      BY <1>0, <1>4 DEF InitReturns, InitEnds, CoprocessorTypeOK
    <2>5. GroundTypeOK' /\ UNCHANGED <<inits, losses, wd>>
      BY <1>0, <1>4 DEF InitReturns, groundVars, GroundTypeOK
    <2> QED
      BY <1>0, <2>3, <2>4, <2>5 DEF RadioTypeOK, CopyBelowLimit
  <1>5. ASSUME NEW c \in Caller, GivesUp(c)
        PROVE  RadioTypeOK' /\ CopyBelowLimit'
    <2>1. Len(rx_queue) \in Nat /\ Len(rx_queue) <= RxDepth
      BY <1>0 DEF TransportTypeOK
    <2>2. rx_queue' \in Seq(Arrival) /\ Len(rx_queue') <= RxDepth
      <3>1. CASE UNCHANGED rx_queue
        BY <1>1, <2>1, <3>1
      <3>2. ASSUME NEW i \in DOMAIN rx_queue, rx_queue' = RemoveAt(rx_queue, i)
            PROVE  rx_queue' \in Seq(Arrival) /\ Len(rx_queue') <= RxDepth
        BY <1>1, <2>1, <3>2, RemoveAtType
      <3> QED
        BY <1>5, <3>1, <3>2 DEF GivesUp, CallTimesOut
    <2>3. TransportTypeOK'
      BY <1>0, <1>5, <2>2 DEF GivesUp, CallTimesOut, TransportTypeOK
    <2>4. CoprocessorTypeOK' /\ GroundTypeOK' /\ UNCHANGED <<inits, losses, wd>>
      BY <1>0, <1>5 DEF GivesUp, CallTimesOut, c6Vars, groundVars, CoprocessorTypeOK, GroundTypeOK
    <2> QED
      BY <1>0, <2>3, <2>4 DEF RadioTypeOK, CopyBelowLimit
  <1>6. ASSUME NEW frame \in Upstream, Uplink(frame)
        PROVE  RadioTypeOK' /\ CopyBelowLimit'
    <2>1. rx_queue' \in Seq(Arrival) /\ Len(rx_queue') <= RxDepth
      BY <1>1, <1>6, ArriveType DEF Uplink
    <2>2. TransportTypeOK'
      BY <1>0, <1>6, <2>1 DEF Uplink, TransportTypeOK
    <2>3. CoprocessorTypeOK' /\ GroundTypeOK' /\ UNCHANGED <<inits, losses, wd>>
      BY <1>0, <1>6 DEF Uplink, c6Vars, groundVars, CoprocessorTypeOK, GroundTypeOK
    <2> QED
      BY <1>0, <2>2, <2>3 DEF RadioTypeOK, CopyBelowLimit
  <1> QED
    BY <1>2, <1>3, <1>4, <1>5, <1>6 DEF ServesTelemetry, ServesPublish

(* What the ground bridge hears or misses keeps its buffer in bounds.      *)
LEMMA AirKeepsTypes ==
  ASSUME RadioTypeOK, CopyBelowLimit, Downlink \/ DropsFrame \/ C6Crash \/ C6Boot
  PROVE  RadioTypeOK' /\ CopyBelowLimit'
  <1> USE CoprocessorAssumption, RadioAssumption, GroundBridgeAssumption
  <1>0. TransportTypeOK /\ CoprocessorTypeOK /\ GroundTypeOK /\ inits \in Nat /\ losses <= MaxLosses
    BY DEF RadioTypeOK
  <1>1. UNCHANGED <<transportVars, inits>> => TransportTypeOK' /\ CopyBelowLimit' /\ inits' \in Nat
    BY <1>0 DEF transportVars, TransportTypeOK, CopyBelowLimit
  <1>2. ASSUME NEW size, Hear(size, LastPacket)
        PROVE  GroundTypeOK' /\ losses' <= MaxLosses
    <2>1. reassembly' \in 0..ReassemblyCap /\ left' \in 0..reassembly'
      BY <1>0, <1>2 DEF Hear, GroundTypeOK
    <2>2. losses' \in Nat /\ losses' <= MaxLosses
      BY <1>0, <1>2 DEF Hear, GroundTypeOK
    <2>4. gap' = IF LastPacket THEN FALSE ELSE gap \/ ~(reassembly < ReassemblyCap)
      BY <1>2, Zenon DEF Hear
    <2>5. gap' \in BOOLEAN
      BY <2>4, Zenon
    <2>3. handed' \in {"none", "delivered", "dropped"}
      BY <1>2 DEF Hear
    <2> QED
      BY <2>1, <2>2, <2>3, <2>5 DEF GroundTypeOK
  <1>3. ASSUME NEW last \in BOOLEAN, losses < MaxLosses, Miss(last)
        PROVE  GroundTypeOK' /\ losses' <= MaxLosses
    BY <1>0, <1>3 DEF Miss, GroundTypeOK
  <1>4. CASE Downlink
    BY <1>0, <1>1, <1>2, <1>3, <1>4, SendPacketType DEF Downlink, RadioTypeOK, LastPacket
  <1>5. CASE DropsFrame
    <2>1. tx_queue \in Seq(Sizes) /\ tx_queue # <<>> /\ Len(tx_queue) <= TxQueueDepth
      BY <1>0, <1>5 DEF DropsFrame, TakeFrame, CoprocessorTypeOK
    <2>2. /\ Head(tx_queue) \in Sizes
          /\ Tail(tx_queue) \in Seq(Sizes) /\ Len(Tail(tx_queue)) <= TxQueueDepth
      BY <2>1
    <2>3. CoprocessorTypeOK'
      <3>1. tx' = NoFrame \/ (tx'.size \in Sizes /\ tx'.sent \in 0..(tx'.size - 1))
        <4>1. CASE c6 = "ready"
          <5>1. tx' = [size |-> Head(tx_queue), sent |-> 0]
            BY <1>5, <4>1 DEF DropsFrame, TakeFrame
          <5>2. Head(tx_queue) \in Nat \ {0}
            BY <2>2
          <5> QED
            BY <2>2, <5>1, <5>2
        <4>2. CASE c6 # "ready"
          BY <1>5, <4>2 DEF DropsFrame, TakeFrame
        <4> QED
          BY <4>1, <4>2
      <3> QED
        BY <1>0, <1>5, <2>2, <3>1 DEF DropsFrame, TakeFrame, CoprocessorTypeOK
    <2>4. GroundTypeOK' /\ losses' <= MaxLosses
      BY <1>0, <1>5 DEF DropsFrame, groundVars, GroundTypeOK
    <2> QED
      BY <1>1, <1>5, <2>3, <2>4 DEF DropsFrame, RadioTypeOK
  <1>6. CASE C6Crash
    <2>1. CoprocessorTypeOK'
      BY <1>0, <1>6 DEF C6Crash, Crash, CoprocessorTypeOK
    <2>2. GroundTypeOK' /\ losses' <= MaxLosses
      BY <1>0, <1>3, <1>6 DEF C6Crash, CutShort, groundVars, GroundTypeOK
    <2> QED
      BY <1>1, <1>6, <2>1, <2>2 DEF C6Crash, RadioTypeOK
  <1>7. CASE C6Boot
    <2>1. CoprocessorTypeOK' /\ GroundTypeOK' /\ losses' <= MaxLosses
      BY <1>0, <1>7 DEF C6Boot, Boot, groundVars, CoprocessorTypeOK, GroundTypeOK
    <2> QED
      BY <1>1, <1>7, <2>1 DEF C6Boot, RadioTypeOK
  <1> QED
    BY <1>4, <1>5, <1>6, <1>7

LEMMA InitTypes == Init => RadioTypeOK /\ CopyBelowLimit
  <1> SUFFICES ASSUME Init PROVE RadioTypeOK /\ CopyBelowLimit
    OBVIOUS
  <1>1. TransportTypeOK /\ CopyBelowLimit
    <2>1. watching \in BOOLEAN /\ seen \in BOOLEAN
      BY Zenon DEF Init, TransportInit
    <2>2. rx_queue \in Seq(Arrival) /\ Len(rx_queue) <= RxDepth
      BY EspnowTransportAssumption DEF Init, TransportInit
    <2> QED
      BY <2>1, <2>2, EspnowTransportAssumption
         DEF Init, TransportInit, TransportTypeOK, CopyBelowLimit, WatchdogIdle, RxIdle
  <1>2. CoprocessorTypeOK
    BY CoprocessorAssumption DEF Init, CoprocessorInit, CoprocessorTypeOK
  <1>3. GroundTypeOK /\ losses <= MaxLosses /\ inits \in Nat
    <2>1. gap \in BOOLEAN
      BY Zenon DEF Init, GroundInit
    <2> QED
      BY <2>1, GroundBridgeAssumption, RadioAssumption DEF Init, GroundInit, GroundTypeOK
  <1> QED
    BY <1>1, <1>2, <1>3 DEF RadioTypeOK

LEMMA TypesKept ==
  ASSUME RadioTypeOK, CopyBelowLimit, [Next]_radioVars
  PROVE  RadioTypeOK' /\ CopyBelowLimit'
  <1>1. CASE BoatStep /\ UNCHANGED <<c6Vars, groundVars>>
    BY <1>1, BoatKeepsTypes
       DEF c6Vars, groundVars, RadioTypeOK, CoprocessorTypeOK, GroundTypeOK
  <1>2. CASE UNCHANGED radioVars
    BY <1>2 DEF radioVars, transportVars, c6Vars, groundVars, RadioTypeOK, CopyBelowLimit,
                TransportTypeOK, CoprocessorTypeOK, GroundTypeOK
  <1> QED
    BY <1>1, <1>2, LinkKeepsTypes, AirKeepsTypes DEF Next

(* No queue or buffer outgrows its size, whatever is lost and whoever      *)
(* crashes; the counter of attempts, written back by the watchdog from a   *)
(* copy that may be old, never passes its limit                            *)
(* (espnow_transport.c:133-151, espnow_bridge.c:90, main.c:354-395).       *)
THEOREM RadioTypes == Spec => [](RadioTypeOK /\ CopyBelowLimit)
  <1>1. Init => RadioTypeOK /\ CopyBelowLimit
    BY InitTypes
  <1>2. (RadioTypeOK /\ CopyBelowLimit) /\ [Next]_radioVars => (RadioTypeOK /\ CopyBelowLimit)'
    BY TypesKept
  <1> QED
    BY <1>1, <1>2, PTL DEF Spec

(***************************************************************************)
(* The envelopes.                                                          *)
(***************************************************************************)

(* The boat's variables change only in its own steps, but for its calls    *)
(* and what waits for the receiving task.                                  *)
LEMMA OthersLeaveBoat ==
  ASSUME ~(BoatStep /\ UNCHANGED <<c6Vars, groundVars>>), [Next]_radioVars
  PROVE  UNCHANGED <<upstream, attempts, wd, rx, envelope, inits>>
  <1>1. ASSUME NEW c, NEW size, TakesFrame(c, size)
        PROVE  UNCHANGED <<upstream, attempts, wd, rx, envelope, inits>>
    BY <1>1 DEF TakesFrame
  <1>2. ServesTelemetry \/ ServesPublish \/ ServesInit
          => UNCHANGED <<upstream, attempts, wd, rx, envelope, inits>>
    BY <1>1 DEF ServesTelemetry, ServesPublish, ServesInit
  <1>3. ASSUME \/ \E ok \in BOOLEAN : InitReturns(ok)
               \/ \E c \in Caller : GivesUp(c)
               \/ \E frame \in Upstream : Uplink(frame)
        PROVE  UNCHANGED <<upstream, attempts, wd, rx, envelope, inits>>
    BY <1>3 DEF InitReturns, GivesUp, CallTimesOut, Uplink
  <1>4. Downlink \/ DropsFrame \/ C6Crash \/ C6Boot \/ UNCHANGED radioVars
          => UNCHANGED <<upstream, attempts, wd, rx, envelope, inits>>
    BY DEF Downlink, DropsFrame, C6Crash, C6Boot, radioVars, transportVars
  <1> QED
    BY <1>2, <1>3, <1>4 DEF Next

LEMMA EnvelopeKept ==
  ASSUME TransportTypeOK, EnvelopeInv, [Next]_radioVars
  PROVE  EnvelopeInv'
  <1> USE DEF EnvelopeInv
  <1>1. CASE BoatStep
    <2>1. CASE Hears
      BY <2>1 DEF Hears, RxTake
    <2>2. CASE RxHeard
      BY <2>2 DEF RxHeard, RxIdle
    <2>3. CASE RxRoute
      BY <2>3 DEF RxRoute, RxEnvelope, TransportTypeOK
    <2>4. CASE RxHandled
      BY <2>4 DEF RxHandled, RxEnvelope, TransportTypeOK
    <2>5. CASE Publish \/ PublishReturns
      BY <2>5 DEF Publish, PublishReturns, TransportTypeOK
    <2>6. CASE \/ Reinit \/ ProbeSends \/ ProbeReturns \/ ChooseField \/ ChooseWifi
               \/ Silence \/ WatchdogLooks \/ WatchdogStamps \/ SendTelemetry
      BY <2>6 DEF Reinit, WatchdogSends, ProbeSends, ProbeReturns, ChooseField, ChooseWifi,
                  Silence, WatchdogLooks, WatchdogStamps, SendTelemetry
    <2> QED
      BY <1>1, <2>1, <2>2, <2>3, <2>4, <2>5, <2>6 DEF BoatStep
  <1>2. CASE ~BoatStep
    BY <1>2, OthersLeaveBoat
  <1> QED
    BY <1>1, <1>2

(* The receiving task never waits for an envelope whose holder waits for   *)
(* the receiving task: no one but the receiving task ever holds its        *)
(* envelope (pipeline.c:60-78).                                            *)
THEOREM RxThreadFree == Spec => []RxThreadNotBehindSend
  <1>1. Init => EnvelopeInv
    BY DEF Init, TransportInit, EnvelopeInv
  <1>2. RadioTypeOK /\ EnvelopeInv /\ [Next]_radioVars => EnvelopeInv'
    BY EnvelopeKept DEF RadioTypeOK
  <1>3. EnvelopeInv => RxThreadNotBehindSend
    BY DEF EnvelopeInv, RxThreadNotBehindSend, RxEnvelope
  <1> QED
    BY <1>1, <1>2, <1>3, RadioTypes, PTL DEF Spec

(***************************************************************************)
(* Tearing down.                                                           *)
(***************************************************************************)
LEMMA TeardownKept ==
  ASSUME RadioTypeOK, TeardownInv, [Next]_radioVars
  PROVE  TeardownInv'
  <1> USE EspnowTransportAssumption DEF TeardownInv, WatchdogIdle, RxIdle
  <1>0. /\ inits \in Nat /\ attempts \in Nat /\ wd.copy \in Nat
        /\ wd \in [pc : {"idle", "count", "sent"}, copy : 0..MaxReinitAttempts]
        /\ rx \in [pc : {"idle", "heard", "route", "handle"}, frame : Upstream \union {"none"}]
    BY DEF RadioTypeOK, TransportTypeOK
  <1>1. CASE BoatStep
    (* The frame that starts the count again is the one that stamps. *)
    <2>1. CASE Hears
      <3>1. CASE Head(rx_queue) \in Upstream
        <4>1. Head(rx_queue) \notin Caller
          BY <3>1 DEF Upstream, Caller
        <4>2. inits' = 0 /\ rx'.pc = "heard" /\ upstream' = "recent" /\ wd' = wd
          BY <2>1, <3>1, <4>1 DEF Hears, RxTake
        <4> QED
          BY <1>0, <4>2
      <3>2. CASE Head(rx_queue) \notin Upstream
        <4>1. Head(rx_queue) \in Caller
          BY <2>1, <3>2 DEF Hears, RxTake, RadioTypeOK, TransportTypeOK, Arrival
        <4>2. UNCHANGED <<inits, rx, upstream, attempts, wd>>
          BY <2>1, <3>2, <4>1 DEF Hears, RxTake
        <4> QED
          BY <4>2
      <3> QED
        BY <3>1, <3>2
    (* At most one INIT was counted between the frame and this step. *)
    <2>2. CASE UNCHANGED inits /\ RxHeard
      BY <1>0, <2>2 DEF RxHeard
    (* The attempt is added to the copy, not to what the counter holds now. *)
    <2>3. CASE Reinit
      <3>1. inits' <= inits + 1 /\ inits' \in Nat
        BY <1>0, <2>3 DEF Reinit
      <3>2. /\ wd.pc = "count" /\ wd'.pc = "sent" /\ attempts' = wd.copy + 1
            /\ UNCHANGED <<rx, upstream>>
        BY <2>3 DEF Reinit, WatchdogSends
      <3> QED
        BY <1>0, <3>1, <3>2
    <2>4. CASE UNCHANGED inits /\ WatchdogLooks
      BY <1>0, <2>4 DEF WatchdogLooks
    <2>5. CASE UNCHANGED inits /\ (WatchdogStamps \/ Silence)
      BY <1>0, <2>5 DEF WatchdogStamps, Silence, AfterSend
    <2>6. CASE UNCHANGED inits /\ (RxRoute \/ RxHandled)
      BY <1>0, <2>6 DEF RxRoute, RxHandled
    <2>7. CASE /\ UNCHANGED inits
               /\ \/ ProbeSends \/ ProbeReturns \/ ChooseField \/ ChooseWifi
                  \/ SendTelemetry \/ Publish \/ PublishReturns
      <3>1. UNCHANGED <<inits, rx, upstream, attempts, wd>>
        BY <2>7 DEF ProbeSends, ProbeReturns, ChooseField, ChooseWifi,
                    SendTelemetry, Publish, PublishReturns
      <3> QED
        BY <3>1
    <2> QED
      BY <1>1, <2>1, <2>2, <2>3, <2>4, <2>5, <2>6, <2>7 DEF BoatStep
  <1>2. CASE ~BoatStep
    <2>1. UNCHANGED <<upstream, attempts, wd, rx, inits>>
      BY <1>2, OthersLeaveBoat
    <2> QED
      BY <2>1
  <1> QED
    BY <1>1, <1>2

(* The bridge is torn down at most once more than the limit before         *)
(* anything is heard again, for any limit: the lost update of the counter  *)
(* (espnow_transport.c:133-151 against 163) costs one attempt, because the *)
(* frame that resets the counter has stamped the link before it.           *)
THEOREM TeardownsStop == Spec => []TeardownsBounded
  <1>1. Init => TeardownInv
    BY EspnowTransportAssumption
       DEF Init, TransportInit, TeardownInv, WatchdogIdle, RxIdle
  <1>2. RadioTypeOK /\ TeardownInv /\ [Next]_radioVars => TeardownInv'
    BY TeardownKept
  <1>3. RadioTypeOK /\ TeardownInv => TeardownsBounded
    BY EspnowTransportAssumption
       DEF TeardownInv, TeardownsBounded, RadioTypeOK, TransportTypeOK
  <1> QED
    BY <1>1, <1>2, <1>3, RadioTypes, PTL DEF Spec

(***************************************************************************)
(* What the ground bridge hands over.                                      *)
(***************************************************************************)

(* Only the air and the transmitting task touch what GroundInv is about.   *)
LEMMA OthersLeaveAir ==
  ASSUME ~Downlink, ~DropsFrame, ~C6Crash, [Next]_radioVars
  PROVE  UNCHANGED <<tx, reassembly, left, gap, losses>>
  <1>1. ASSUME NEW c, NEW size, TakesFrame(c, size)
        PROVE  UNCHANGED <<tx, reassembly, left, gap, losses>>
    BY <1>1 DEF TakesFrame, VideoCb, groundVars
  <1>2. ServesTelemetry \/ ServesPublish => UNCHANGED <<tx, reassembly, left, gap, losses>>
    BY <1>1 DEF ServesTelemetry, ServesPublish
  <1>3. ASSUME \/ ServesInit
               \/ \E ok \in BOOLEAN : InitReturns(ok)
               \/ \E c \in Caller : GivesUp(c)
               \/ \E frame \in Upstream : Uplink(frame)
        PROVE  UNCHANGED <<tx, reassembly, left, gap, losses>>
    BY <1>3 DEF ServesInit, InitBegins, InitReturns, InitEnds, GivesUp, Uplink, c6Vars, groundVars
  <1>4. C6Boot \/ UNCHANGED radioVars \/ UNCHANGED <<c6Vars, groundVars>>
          => UNCHANGED <<tx, reassembly, left, gap, losses>>
    BY DEF C6Boot, Boot, radioVars, c6Vars, groundVars
  <1> QED
    BY <1>2, <1>3, <1>4 DEF Next

LEMMA GroundKept ==
  ASSUME RadioTypeOK, GroundInv, [Next]_radioVars
  PROVE  GroundInv'
  <1> USE CoprocessorAssumption, GroundBridgeAssumption DEF GroundInv
  <1>0. /\ reassembly \in 0..ReassemblyCap /\ left \in 0..reassembly
        /\ losses \in Nat /\ tx.sent \in Nat
    BY DEF RadioTypeOK, GroundTypeOK, CoprocessorTypeOK, NoFrame
  <1>1. CASE Downlink
    <2>1. CASE LastPacket
      <3>1. tx'.sent = 0
        BY <1>1, <2>1 DEF Downlink, SendPacket, NoFrame
      <3>2. CASE Hear(tx.size, LastPacket)
        <4>1. reassembly' = 0 /\ left' = 0 /\ ~gap'
          BY <2>1, <3>2 DEF Hear
        <4> QED
          BY <3>1, <4>1
      <3>3. CASE Miss(LastPacket)
        <4>1. losses' = losses + 1 /\ ~gap' /\ left' = reassembly /\ reassembly' = reassembly
          BY <2>1, <3>3 DEF Miss
        <4> QED
          BY <1>0, <3>1, <4>1
      <3> QED
        BY <1>1, <3>2, <3>3 DEF Downlink
    <2>2. CASE ~LastPacket
      <3>1. tx'.sent = tx.sent + 1
        BY <1>1, <2>2 DEF Downlink, SendPacket, RadioTypeOK, CoprocessorTypeOK, NoFrame
      <3>2. CASE Hear(tx.size, LastPacket) /\ reassembly < ReassemblyCap
        <4>1. /\ reassembly' = reassembly + 1 /\ left' = left
              /\ gap' = (gap \/ ~(reassembly < ReassemblyCap)) /\ losses' = losses
          BY <2>2, <3>2, Zenon DEF Hear
        <4>2. gap' <=> gap
          BY <3>2, <4>1, Zenon
        <4> QED
          BY <1>0, <3>1, <4>1, <4>2
      <3>3. CASE Hear(tx.size, LastPacket) /\ ~(reassembly < ReassemblyCap)
        <4>1. /\ reassembly' = 0 /\ left' = 0
              /\ gap' = (gap \/ ~(reassembly < ReassemblyCap))
          BY <2>2, <3>3, Zenon DEF Hear
        <4>2. gap'
          BY <3>3, <4>1, Zenon
        <4> QED
          BY <1>0, <3>1, <4>1, <4>2
      (* A second packet missed while some are left over is a second loss. *)
      <3>4. CASE Miss(LastPacket)
        <4>1. losses' = losses + 1 /\ gap' /\ left' = left /\ reassembly' = reassembly
          BY <2>2, <3>4 DEF Miss
        <4> QED
          BY <1>0, <3>1, <4>1
      <3> QED
        BY <1>1, <3>2, <3>3, <3>4 DEF Downlink
    <2> QED
      BY <2>1, <2>2
  <1>2. CASE DropsFrame
    <2>1. tx.sent = 0 /\ tx'.sent = 0
      BY <1>2 DEF DropsFrame, TakeFrame, NoFrame
    <2>2. UNCHANGED <<reassembly, left, gap, losses>>
      BY <1>2 DEF DropsFrame, groundVars
    <2> QED
      BY <2>1, <2>2
  <1>3. CASE C6Crash
    <2>1. tx'.sent = 0
      BY <1>3 DEF C6Crash, Crash, NoFrame
    <2>2. CASE tx = NoFrame
      <3>1. tx.sent = 0 /\ UNCHANGED <<reassembly, left, gap, losses>>
        BY <1>3, <2>2 DEF C6Crash, NoFrame, groundVars
      <3> QED
        BY <2>1, <3>1
    <2>3. CASE tx # NoFrame
      <3>1. losses' = losses + 1 /\ ~gap' /\ left' = reassembly /\ reassembly' = reassembly
        BY <1>3, <2>3 DEF C6Crash, CutShort, Miss
      <3> QED
        BY <1>0, <2>1, <3>1
    <2> QED
      BY <2>2, <2>3
  <1>4. CASE ~Downlink /\ ~DropsFrame /\ ~C6Crash
    BY <1>4, OthersLeaveAir
  <1> QED
    BY <1>1, <1>2, <1>3, <1>4

(* With at most one packet lost, the length of the buffer tells a whole    *)
(* frame from every other: it agrees with the length in the last packet    *)
(* exactly when nothing is missing and nothing was left over.              *)
LEMMA LengthTellsWhole ==
  ASSUME RadioTypeOK, GroundInv, losses <= 1, handed' # "none", Downlink
  PROVE  handed' = "delivered" <=> ~gap /\ left = 0
  <1>1. /\ reassembly \in Nat /\ left \in Nat /\ losses \in Nat /\ tx.sent \in Nat
    BY CoprocessorAssumption, GroundBridgeAssumption
       DEF RadioTypeOK, GroundTypeOK, CoprocessorTypeOK, NoFrame
  <1>2. Hear(tx.size, LastPacket)
    BY DEF Downlink, Miss
  <1>3. LastPacket /\ (handed' = "delivered" <=> LengthMatches(tx.size))
    BY <1>2 DEF Hear
  <1>4. LengthMatches(tx.size) <=> reassembly = tx.sent
    BY <1>1, <1>3 DEF LengthMatches, LastPacket
  <1>5. reassembly = tx.sent <=> ~gap /\ left = 0
    BY <1>1 DEF GroundInv
  <1> QED
    BY <1>3, <1>4, <1>5

(* Whatever the frames, the queues and the number of packets lost before,  *)
(* what the ground bridge hands to the laptop while at most one packet has *)
(* been lost since it last emptied its buffer is exactly the frames that   *)
(* arrived whole with nothing left over before them (main.c:354-395).      *)
THEOREM WholeFrames == Spec => DeliveredWhole
  <1>1. Init => GroundInv
    BY DEF Init, GroundInit, CoprocessorInit, NoFrame, GroundInv
  <1>2. RadioTypeOK /\ GroundInv /\ [Next]_radioVars => GroundInv'
    BY GroundKept
  <1>3. RadioTypeOK /\ GroundInv
          => (losses <= 1 /\ handed' # "none" /\ Downlink =>
                (handed' = "delivered" <=> ~gap /\ left = 0))
    BY LengthTellsWhole
  <1> QED
    BY <1>1, <1>2, <1>3, RadioTypes, PTL DEF Spec, DeliveredWhole
===============================================================================
