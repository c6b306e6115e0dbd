---------------------------- MODULE SampleSnapshot ----------------------------
(***************************************************************************)
(* A snapshot of two slots with a version each: main/sample_snapshot.c.    *)
(* One writer fills the slot the sequence number selects; any number of    *)
(* readers copy the published slot without a lock and check its version    *)
(* again.  sensor_fusion.c and gps_snapshot.c repeat the protocol.         *)
(*                                                                         *)
(* The payload's relaxed accesses come in any order.  The exchange and the *)
(* fence order them against the two accesses of the version, as the steps  *)
(* below are ordered.                                                      *)
(***************************************************************************)
EXTENDS Naturals

CONSTANTS
  Word,         \* the atomic words of a sample
  Stamped,      \* the words that repeat the sequence number, which a reader compares
  Reader,
  Consecutive   \* the writer never leaves out a sequence number

VARIABLES
  version,      \* of the two slots: 2 * sequence, 2 * sequence + 1 while written
  payload,      \* per slot, the sequence number of the sample each word is from
  published,    \* published_sequence, 0 before the first one
  writer,       \* sample_snapshot_publish: pc, sequence, words left to store
  reader        \* sample_snapshot_read: pc, sequence, words left, words loaded

snapshotVars == <<version, payload, published, writer, reader>>

(* Mutant: one slot.                                                       *)
SlotSingle(s) == 0

Slot(s) == s % 2

Idle == [pc |-> "idle", seq |-> 0, todo |-> {}]
IdleReader == [pc |-> "idle", seq |-> 0, todo |-> {}, got |-> [w \in Word |-> 0]]

Init ==
  /\ version = [i \in 0 .. 1 |-> 0]
  /\ payload = [i \in 0 .. 1 |-> [w \in Word |-> 0]]
  /\ published = 0
  /\ writer = Idle
  /\ reader = [r \in Reader |-> IdleReader]

(* Mutant: the slot keeps its old version while it is written.             *)
MarkUnmarked(s) == version

Mark(s) == [version EXCEPT ![Slot(s)] = 2 * s + 1]

Follows(s) == IF Consecutive THEN s = published + 1 ELSE s > published

PublishBegins(s) ==
  /\ writer.pc = "idle" /\ Follows(s)
  /\ writer' = [pc |-> "store", seq |-> s, todo |-> Word]
  /\ version' = Mark(s)
  /\ UNCHANGED <<payload, published, reader>>

Store(w) ==
  /\ writer.pc = "store" /\ w \in writer.todo
  /\ payload' = [payload EXCEPT ![Slot(writer.seq)][w] = writer.seq]
  /\ writer' = [writer EXCEPT !.todo = @ \ {w}]
  /\ UNCHANGED <<version, published, reader>>

Seal ==
  /\ writer.pc = "store" /\ writer.todo = {}
  /\ version' = [version EXCEPT ![Slot(writer.seq)] = 2 * writer.seq]
  /\ writer' = [writer EXCEPT !.pc = "sealed"]
  /\ UNCHANGED <<payload, published, reader>>

PublishEnds ==
  /\ writer.pc = "sealed"
  /\ published' = writer.seq
  /\ writer' = Idle
  /\ UNCHANGED <<version, payload, reader>>

(* The words of the last sample are kept: they are the caller's now.       *)
ReadBegins(r) ==
  /\ reader[r].pc = "idle"
  /\ reader' = [reader EXCEPT ![r].pc = "look"]
  /\ UNCHANGED <<version, payload, published, writer>>

Look(r) ==
  /\ reader[r].pc = "look"
  /\ reader' = [reader EXCEPT ![r].pc = IF published = 0 THEN "idle" ELSE "check", ![r].seq = published]
  /\ UNCHANGED <<version, payload, published, writer>>

Stable(s) == version[Slot(s)] = 2 * s

Check(r) ==
  /\ reader[r].pc = "check"
  /\ reader' = [reader EXCEPT ![r] =
                  IF Stable(@.seq) THEN [@ EXCEPT !.pc = "load", !.todo = Word] ELSE [@ EXCEPT !.pc = "look"]]
  /\ UNCHANGED <<version, payload, published, writer>>

Load(r, w) ==
  /\ reader[r].pc = "load" /\ w \in reader[r].todo
  /\ reader' = [reader EXCEPT ![r].todo = @ \ {w}, ![r].got[w] = payload[Slot(reader[r].seq)][w]]
  /\ UNCHANGED <<version, payload, published, writer>>

Accepted(r) == Stable(reader[r].seq) /\ \A w \in Stamped : reader[r].got[w] = reader[r].seq

Validate(r) ==
  /\ reader[r].pc = "load" /\ reader[r].todo = {}
  /\ reader' = [reader EXCEPT ![r].pc = IF Accepted(r) THEN "idle" ELSE "look"]
  /\ UNCHANGED <<version, payload, published, writer>>

WriterStep == (\E w \in Word : Store(w)) \/ Seal \/ PublishEnds
ReaderStep(r) == Look(r) \/ Check(r) \/ (\E w \in Word : Load(r, w)) \/ Validate(r)

Next ==
  \/ \E s \in Nat \ {0} : PublishBegins(s)
  \/ WriterStep
  \/ \E r \in Reader : ReadBegins(r) \/ ReaderStep(r)

Spec == Init /\ [][Next]_snapshotVars

(***************************************************************************)
(* What it promises.                                                       *)
(***************************************************************************)
SnapshotTypeOK ==
  /\ version \in [0 .. 1 -> Nat]
  /\ payload \in [0 .. 1 -> [Word -> Nat]]
  /\ published \in Nat
  /\ writer \in [pc : {"idle", "store", "sealed"}, seq : Nat, todo : SUBSET Word]
  /\ reader \in [Reader -> [pc : {"idle", "look", "check", "load"}, seq : Nat, todo : SUBSET Word, got : [Word -> Nat]]]

(* A read that returned gave every word of one sample, the published one   *)
(* it began with (sample_snapshot_read's second look at the version).      *)
ReadsWhole == \A r \in Reader : reader[r].pc = "idle" => \A w \in Word : reader[r].got[w] = reader[r].seq

(* The published sample stays readable: the writer is never in its slot,   *)
(* so that a reader need not wait for a writer it has preempted.           *)
PublishedStable == published # 0 => Stable(published)
===============================================================================
