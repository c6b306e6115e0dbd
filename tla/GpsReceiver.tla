------------------------------ MODULE GpsReceiver ------------------------------
(***************************************************************************)
(* The GPS: the UART's ring buffer and event queue, the task that reads    *)
(* as many bytes as an event announces, and the entry it publishes         *)
(* (drivers/gps_driver.c, gps_uart_events.c).  Bytes come in pieces: one   *)
(* that completes a NAV-PVT, another UBX frame or an NMEA sentence, or     *)
(* "other" ones.  How bytes make up a frame, and what a sentence says      *)
(* beyond having a fix, is left out.                                       *)
(***************************************************************************)
EXTENDS Naturals, Sequences

CONSTANTS
  RingSize,        \* UART_RX_BUF, in pieces
  EventQueueLen    \* length of the UART's event queue: 16

ASSUME GpsAssumption == {RingSize, EventQueueLen} \subseteq Nat \ {0}

Piece == {"pvt", "ubx", "nmea", "other"}

VARIABLES
  ring,       \* the bytes received and not read yet
  events,     \* s_uart_events: "data" for one piece, or "full"
  gps_pc,     \* gps_task: "wait", "read", "first", "second"
  parser,     \* s_parser: "clear" after a reset, "begun" in the stream
  entry,      \* s_parser_entry, as published
  fresh       \* s_last_ubx_us is within 2 s, the fix within GPS_STALE_US

gpsVars == <<ring, events, gps_pc, parser, entry, fresh>>

Authority == {"NONE", "NMEA", "UBX"}

GpsInit ==
  /\ ring = <<>> /\ events = <<>>
  /\ gps_pc = "wait" /\ parser = "clear"
  /\ entry = [authority |-> "NONE", valid |-> FALSE]
  /\ fresh = [ubx |-> FALSE, fix |-> FALSE]

(***************************************************************************)
(* The UART's interrupt handler, on the task's core: it fills the ring     *)
(* and posts the event before the task goes on.                            *)
(***************************************************************************)
Post(e) == events' = IF Len(events) < EventQueueLen THEN Append(events, e) ELSE events

UartReceives(p) ==
  /\ IF Len(ring) < RingSize
     THEN ring' = Append(ring, p) /\ Post("data")
     ELSE ring' = ring /\ Post("full")
  /\ UNCHANGED <<gps_pc, parser, entry, fresh>>

Ages(what) ==
  /\ fresh[what]
  /\ fresh' = [fresh EXCEPT ![what] = FALSE]
  /\ UNCHANGED <<ring, events, gps_pc, parser, entry>>

(***************************************************************************)
(* gps_task.                                                               *)
(***************************************************************************)
TakeEvent(kind, then) ==
  /\ gps_pc = "wait" /\ events # <<>> /\ Head(events) = kind
  /\ events' = Tail(events)
  /\ gps_pc' = then

DataEvent == TakeEvent("data", "read") /\ UNCHANGED <<ring, parser, entry, fresh>>

(* A frame that began before the parser was reset is not completed.        *)
Parsed(p) == IF parser = "clear" THEN {p, "other"} ELSE {p}

(* Any UBX frame that is whole makes UBX the authority; a sentence makes   *)
(* it NMEA only when the last NAV-PVT is no longer fresh.                  *)
MarkAlive(f) ==
  CASE f \in {"pvt", "ubx"} -> "UBX"
    [] f = "nmea" /\ ~fresh.ubx -> "NMEA"
    [] OTHER -> entry.authority

(* A sentence that is looked at says something of the fix when it is GGA   *)
(* or RMC.                                                                 *)
Sentence(places, valid) == IF places THEN valid ELSE entry.valid

(* What a complete frame leaves in the entry.                              *)
AfterFrame(f, places, valid) ==
  [authority |-> MarkAlive(f),
   valid |-> CASE f = "pvt" -> valid
               [] f = "nmea" /\ ~fresh.ubx -> Sentence(places, valid)
               [] OTHER -> entry.valid]

Freshened(f, places) ==
  [ubx |-> fresh.ubx \/ f = "pvt",
   fix |-> fresh.fix \/ f = "pvt" \/ (f = "nmea" /\ places /\ ~fresh.ubx)]

(* gps_read_available waits for the bytes without a limit, and parses them.*)
ReadAvailable ==
  /\ gps_pc = "read" /\ ring # <<>>
  /\ \E f \in Parsed(Head(ring)), places, valid \in BOOLEAN :
       /\ entry' = AfterFrame(f, places, valid)
       /\ fresh' = Freshened(f, places)
  /\ ring' = Tail(ring)
  /\ parser' = "begun"
  /\ gps_pc' = "wait"
  /\ UNCHANGED events

FlushInput == ring' = <<>> /\ UNCHANGED events
ResetQueue == events' = <<>> /\ UNCHANGED ring

(* Mutant: the queue is reset before the input is flushed.                 *)
RecoverySwapped(step) == IF step = 1 THEN ResetQueue ELSE FlushInput

Recovery(step) == IF step = 1 THEN FlushInput ELSE ResetQueue

FullEvent == TakeEvent("full", "first") /\ UNCHANGED <<ring, parser, entry, fresh>>

RecoveryBegins ==
  /\ gps_pc = "first"
  /\ Recovery(1)
  /\ gps_pc' = "second"
  /\ UNCHANGED <<parser, entry, fresh>>

RecoveryEnds ==
  /\ gps_pc = "second"
  /\ Recovery(2)
  /\ parser' = "clear"
  /\ gps_pc' = "wait"
  /\ UNCHANGED <<entry, fresh>>

(* gps_driver_get_fix.                                                     *)
FixValid == entry.valid /\ fresh.fix

GpsNext ==
  \/ \E p \in Piece : UartReceives(p)
  \/ \E what \in {"ubx", "fix"} : Ages(what)
  \/ DataEvent \/ ReadAvailable \/ FullEvent \/ RecoveryBegins \/ RecoveryEnds

GpsSpec == GpsInit /\ [][GpsNext]_gpsVars

(***************************************************************************)
(* What it promises.                                                       *)
(***************************************************************************)
GpsTypeOK ==
  /\ ring \in Seq(Piece) /\ Len(ring) <= RingSize
  /\ events \in Seq({"data", "full"}) /\ Len(events) <= EventQueueLen
  /\ gps_pc \in {"wait", "read", "first", "second"}
  /\ parser \in {"clear", "begun"}
  /\ entry \in [authority : Authority, valid : BOOLEAN]
  /\ fresh \in [ubx : BOOLEAN, fix : BOOLEAN]

(* The bytes an event announces are there to be read: the task never waits *)
(* in the middle of an event for bytes that were flushed, although the     *)
(* flush, the reset of the queue and the UART come in any order            *)
(* (gps_uart_events.c:26-27, gps_driver.c:666).                            *)
ReadNeverWaits == gps_pc = "read" => ring # <<>>
===============================================================================
