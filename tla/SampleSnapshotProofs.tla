------------------------ MODULE SampleSnapshotProofs ------------------------
(***************************************************************************)
(* Theorems about the two-slot snapshot, for any words, readers and        *)
(* sequence numbers.                                                       *)
(***************************************************************************)
EXTENDS SampleSnapshot, TLAPS

-------------------------------------------------------------------------------
(* The slot of a sequence number, and that the next one has the other.     *)
LEMMA SlotType == \A s \in Nat : Slot(s) \in 0 .. 1
  BY DEF Slot

LEMMA SlotsAlternate == \A s \in Nat : Slot(s + 1) # Slot(s)
  BY DEF Slot

-------------------------------------------------------------------------------
(* Types.                                                                  *)

WriterPc == {"idle", "store", "sealed"}
ReaderPc == {"idle", "look", "check", "load"}
ReaderRecord == [pc : ReaderPc, seq : Nat, todo : SUBSET Word, got : [Word -> Nat]]

LEMMA TypeInit == Init => SnapshotTypeOK
  BY DEF Init, SnapshotTypeOK, Idle, IdleReader

LEMMA TypeWriter ==
  ASSUME SnapshotTypeOK,
         (\E s \in Nat \ {0} : PublishBegins(s)) \/ WriterStep
  PROVE  SnapshotTypeOK'
<1>1. ASSUME NEW s \in Nat \ {0}, PublishBegins(s)
      PROVE  SnapshotTypeOK'
  <2>1. version' \in [0 .. 1 -> Nat]
    BY <1>1, SlotType DEF PublishBegins, Mark, SnapshotTypeOK
  <2>2. QED BY <1>1, <2>1 DEF PublishBegins, SnapshotTypeOK
<1>2. ASSUME NEW w \in Word, Store(w)
      PROVE  SnapshotTypeOK'
  <2>1. payload' \in [0 .. 1 -> [Word -> Nat]]
    BY <1>2, SlotType DEF Store, SnapshotTypeOK
  <2>2. writer' \in [pc : WriterPc, seq : Nat, todo : SUBSET Word]
    BY <1>2 DEF Store, SnapshotTypeOK, WriterPc
  <2>3. QED BY <1>2, <2>1, <2>2 DEF Store, SnapshotTypeOK, WriterPc
<1>3. CASE Seal
  <2>1. version' \in [0 .. 1 -> Nat]
    BY <1>3, SlotType DEF Seal, SnapshotTypeOK
  <2>2. QED BY <1>3, <2>1 DEF Seal, SnapshotTypeOK
<1>4. CASE PublishEnds
  BY <1>4 DEF PublishEnds, SnapshotTypeOK, Idle
<1>5. QED BY <1>1, <1>2, <1>3, <1>4 DEF WriterStep

LEMMA TypeReader ==
  ASSUME SnapshotTypeOK, NEW r \in Reader, ReadBegins(r) \/ ReaderStep(r)
  PROVE  SnapshotTypeOK'
<1>1. SUFFICES reader' \in [Reader -> ReaderRecord]
  BY DEF SnapshotTypeOK, ReaderPc, ReaderRecord, ReadBegins, ReaderStep, Look, Check, Load, Validate
<1>2. reader[r] \in ReaderRecord /\ reader \in [Reader -> ReaderRecord]
  BY DEF SnapshotTypeOK, ReaderPc, ReaderRecord
<1>3. CASE ReadBegins(r)
  BY <1>2, <1>3 DEF ReadBegins, ReaderPc, ReaderRecord
<1>4. CASE Look(r)
  BY <1>2, <1>4 DEF Look, ReaderPc, ReaderRecord, SnapshotTypeOK
<1>5. CASE Check(r)
  BY <1>2, <1>5 DEF Check, ReaderPc, ReaderRecord
<1>6. ASSUME NEW w \in Word, Load(r, w)
      PROVE  reader' \in [Reader -> ReaderRecord]
  <2>1. payload[Slot(reader[r].seq)][w] \in Nat
    BY <1>2, SlotType DEF ReaderRecord, SnapshotTypeOK
  <2>2. QED BY <1>2, <1>6, <2>1 DEF Load, ReaderPc, ReaderRecord
<1>7. CASE Validate(r)
  BY <1>2, <1>7 DEF Validate, ReaderPc, ReaderRecord
<1>8. QED BY <1>3, <1>4, <1>5, <1>6, <1>7 DEF ReaderStep

LEMMA TypeStep == SnapshotTypeOK /\ [Next]_snapshotVars => SnapshotTypeOK'
<1> SUFFICES ASSUME SnapshotTypeOK, [Next]_snapshotVars
             PROVE  SnapshotTypeOK'
  OBVIOUS
<1>1. CASE UNCHANGED snapshotVars
  BY <1>1 DEF snapshotVars, SnapshotTypeOK
<1>2. QED BY <1>1, TypeWriter, TypeReader DEF Next

(* Every variable of a snapshot keeps to its C type and its writers        *)
(* (sample_snapshot_publish, sample_snapshot_read).                        *)
THEOREM SnapshotTypes == Spec => []SnapshotTypeOK
<1>1. QED BY TypeInit, TypeStep, PTL DEF Spec

-------------------------------------------------------------------------------
(***************************************************************************)
(* Why a read is whole.  The inductive invariant says what a version       *)
(* promises of its slot, and that a version only ever leaves a sequence    *)
(* number behind: once past 2 * s it is never 2 * s again, because every   *)
(* number written is above every number a reader can be after.             *)
(***************************************************************************)
Writing(i) == writer.pc = "store" /\ i = Slot(writer.seq)

(* A slot nobody writes holds the sample of its version, whole.            *)
SlotsHold ==
  \A i \in 0 .. 1 : ~Writing(i) => \A w \in Word : version[i] = 2 * payload[i][w]

(* The versions are those of published numbers, but for the writer's slot. *)
VersionsOld ==
  \A i \in 0 .. 1 :
    version[i] <= 2 * published \/ (writer.pc # "idle" /\ i = Slot(writer.seq))

WriterAhead ==
  /\ writer.pc # "idle" => writer.seq > published
  /\ writer.pc = "store" =>
       /\ version[Slot(writer.seq)] = 2 * writer.seq + 1
       /\ \A w \in Word \ writer.todo : payload[Slot(writer.seq)][w] = writer.seq
  /\ writer.pc = "sealed" => version[Slot(writer.seq)] = 2 * writer.seq

(* What a reader has loaded is of its sample, unless the version is past.  *)
LoadedWhole(r) ==
  reader[r].pc = "load" =>
    /\ version[Slot(reader[r].seq)] >= 2 * reader[r].seq
    /\ Stable(reader[r].seq) =>
         \A w \in Word \ reader[r].todo : reader[r].got[w] = reader[r].seq

NothingRead(r) ==
  reader[r].pc \in {"idle", "look"} /\ \A w \in Word : reader[r].got[w] = 0

ReaderOK(r) ==
  /\ reader[r].seq <= published
  /\ published = 0 => NothingRead(r)
  /\ LoadedWhole(r)
  /\ reader[r].pc = "idle" => \A w \in Word : reader[r].got[w] = reader[r].seq

SlotsOK == SlotsHold /\ VersionsOld /\ WriterAhead

SnapshotInv == SnapshotTypeOK /\ SlotsOK /\ \A r \in Reader : ReaderOK(r)

LEMMA InvInit == Init => SnapshotInv
<1> SUFFICES ASSUME Init
             PROVE  SnapshotInv
  OBVIOUS
<1>1. SlotsOK
  BY DEF Init, Idle, SlotsOK, SlotsHold, VersionsOld, WriterAhead, Writing
<1>2. \A r \in Reader : ReaderOK(r)
  BY DEF Init, IdleReader, ReaderOK, LoadedWhole, NothingRead
<1>3. QED BY <1>1, <1>2, TypeInit DEF SnapshotInv

(* The writer's own invariant.                                             *)
LEMMA SlotsWriter ==
  ASSUME SnapshotTypeOK, SlotsOK,
         (\E s \in Nat \ {0} : PublishBegins(s)) \/ WriterStep
  PROVE  SlotsOK'
<1> USE SlotType DEF SlotsOK, SlotsHold, VersionsOld, WriterAhead, Writing
<1>1. ASSUME NEW s \in Nat \ {0}, PublishBegins(s)
      PROVE  SlotsOK'
  <2>1. s > published /\ published \in Nat
    BY <1>1 DEF PublishBegins, Follows, SnapshotTypeOK
  <2>2. QED BY <1>1, <2>1 DEF PublishBegins, Mark, SnapshotTypeOK
<1>2. ASSUME NEW w \in Word, Store(w)
      PROVE  SlotsOK'
  BY <1>2 DEF Store, SnapshotTypeOK
<1>3. CASE Seal
  BY <1>3 DEF Seal, SnapshotTypeOK
<1>4. CASE PublishEnds
  BY <1>4 DEF PublishEnds, Idle, SnapshotTypeOK
<1>5. QED BY <1>1, <1>2, <1>3, <1>4 DEF WriterStep

(* A step of the writer leaves every reader's loads as they were, and only *)
(* ever puts a version past what a reader is after.                        *)
LEMMA ReadersWriter ==
  ASSUME SnapshotTypeOK, SlotsOK, NEW r \in Reader, ReaderOK(r),
         (\E s \in Nat \ {0} : PublishBegins(s)) \/ WriterStep
  PROVE  ReaderOK(r)'
<1> USE SlotType DEF ReaderOK, LoadedWhole, NothingRead, Stable
<1>0. reader[r] \in ReaderRecord /\ published \in Nat
  BY DEF SnapshotTypeOK, ReaderRecord, ReaderPc
<1>1. ASSUME NEW s \in Nat \ {0}, PublishBegins(s)
      PROVE  ReaderOK(r)'
  <2>1. s > published
    BY <1>0, <1>1 DEF PublishBegins, Follows
  <2>2. QED BY <1>0, <1>1, <2>1 DEF PublishBegins, Mark, SnapshotTypeOK, ReaderRecord
<1>2. ASSUME NEW w \in Word, Store(w)
      PROVE  ReaderOK(r)'
  BY <1>0, <1>2 DEF Store
<1>3. CASE Seal
  BY <1>0, <1>3 DEF Seal, SnapshotTypeOK, ReaderRecord, SlotsOK, WriterAhead
<1>4. CASE PublishEnds
  BY <1>0, <1>4 DEF PublishEnds, SnapshotTypeOK, ReaderRecord, SlotsOK, WriterAhead
<1>5. QED BY <1>1, <1>2, <1>3, <1>4 DEF WriterStep

(* A step of a reader.                                                     *)
LEMMA ReadersReader ==
  ASSUME SnapshotTypeOK, SlotsOK, NEW r \in Reader, ReaderOK(r), ReadBegins(r) \/ ReaderStep(r)
  PROVE  ReaderOK(r)'
<1> USE SlotType DEF ReaderOK, LoadedWhole, NothingRead, Stable
<1>0. /\ reader \in [Reader -> ReaderRecord] /\ reader[r] \in ReaderRecord
      /\ published \in Nat
  BY DEF SnapshotTypeOK, ReaderRecord, ReaderPc
<1>1. CASE ReadBegins(r)
  BY <1>0, <1>1 DEF ReadBegins, ReaderRecord
<1>2. CASE Look(r)
  BY <1>0, <1>2 DEF Look, ReaderRecord
<1>3. CASE Check(r)
  BY <1>0, <1>3 DEF Check, ReaderRecord, SnapshotTypeOK
<1>4. ASSUME NEW w \in Word, Load(r, w)
      PROVE  ReaderOK(r)'
  <2> DEFINE i == Slot(reader[r].seq)
  <2>1. i \in 0 .. 1
    BY <1>0 DEF ReaderRecord
  <2>2. Stable(reader[r].seq) => payload[i][w] = reader[r].seq
    <3>1. CASE Writing(i)
      BY <1>0, <2>1, <3>1 DEF SlotsOK, WriterAhead, Writing, SnapshotTypeOK, ReaderRecord
    <3>2. CASE ~Writing(i)
      <4>1. payload[i][w] \in Nat /\ version[i] = 2 * payload[i][w]
        BY <2>1, <3>2 DEF SlotsOK, SlotsHold, SnapshotTypeOK
      <4>2. QED BY <1>0, <4>1 DEF ReaderRecord
    <3>3. QED BY <3>1, <3>2
  <2>3. QED BY <1>0, <1>4, <2>1, <2>2 DEF Load, ReaderRecord, SnapshotTypeOK
<1>5. CASE Validate(r)
  BY <1>0, <1>5 DEF Validate, Accepted, ReaderRecord
<1>6. QED BY <1>1, <1>2, <1>3, <1>4, <1>5 DEF ReaderStep

LEMMA InvStep == SnapshotInv /\ [Next]_snapshotVars => SnapshotInv'
<1> SUFFICES ASSUME SnapshotInv, [Next]_snapshotVars
             PROVE  SnapshotInv'
  OBVIOUS
<1>1. SnapshotTypeOK'
  BY TypeStep DEF SnapshotInv
<1>2. CASE UNCHANGED snapshotVars
  BY <1>1, <1>2
  DEF snapshotVars, SnapshotInv, SlotsOK, SlotsHold, VersionsOld, WriterAhead, Writing,
      ReaderOK, LoadedWhole, NothingRead, Stable
<1>3. CASE (\E s \in Nat \ {0} : PublishBegins(s)) \/ WriterStep
  BY <1>1, <1>3, SlotsWriter, ReadersWriter DEF SnapshotInv
<1>4. ASSUME NEW r \in Reader, ReadBegins(r) \/ ReaderStep(r)
      PROVE  SnapshotInv'
  <2>1. SlotsOK'
    BY <1>4 DEF SnapshotInv, SlotsOK, SlotsHold, VersionsOld, WriterAhead, Writing,
                ReadBegins, ReaderStep, Look, Check, Load, Validate
  <2>2. ASSUME NEW q \in Reader, q # r
        PROVE  ReaderOK(q)'
    <3>1. reader'[q] = reader[q] /\ UNCHANGED <<version, published>>
      BY <1>4, <2>2 DEF SnapshotInv, SnapshotTypeOK, ReadBegins, ReaderStep, Look, Check, Load, Validate
    <3>2. QED BY <3>1 DEF SnapshotInv, ReaderOK, LoadedWhole, NothingRead, Stable
  <2>3. ReaderOK(r)'
    BY <1>4, ReadersReader DEF SnapshotInv
  <2>4. QED BY <1>1, <2>1, <2>2, <2>3 DEF SnapshotInv
<1>5. QED BY <1>2, <1>3, <1>4 DEF Next

LEMMA InvReads == SnapshotInv => ReadsWhole
  BY DEF SnapshotInv, ReaderOK, ReadsWhole

(* A read that returned gave every word of one sample, whatever the writer *)
(* did meanwhile and however many numbers it left out                      *)
(* (sample_snapshot_read).                                                 *)
THEOREM SnapshotReadsWhole == Spec => []ReadsWhole
<1>1. QED BY InvReads, InvInit, InvStep, PTL DEF Spec

-------------------------------------------------------------------------------
(***************************************************************************)
(* Why the published sample is always readable: numbers that follow each   *)
(* other alternate between the slots.                                      *)
(***************************************************************************)
NextInOther ==
  /\ Stable(published)
  /\ writer.pc # "idle" => writer.seq = published + 1

LEMMA StableInit == Init => NextInOther
  BY DEF Init, Idle, NextInOther, Stable, Slot

LEMMA StableReads == NextInOther => PublishedStable
  BY DEF NextInOther, PublishedStable

LEMMA StableStep ==
  ASSUME Consecutive = TRUE, SnapshotInv, NextInOther, [Next]_snapshotVars
  PROVE  NextInOther'
<1> USE SlotType, SlotsAlternate DEF NextInOther, Stable
<1>0. published \in Nat /\ version \in [0 .. 1 -> Nat]
  BY DEF SnapshotInv, SnapshotTypeOK
<1>1. ASSUME NEW s \in Nat \ {0}, PublishBegins(s)
      PROVE  NextInOther'
  <2>1. s = published + 1 /\ Slot(s) # Slot(published)
    BY <1>0, <1>1 DEF PublishBegins, Follows
  <2>2. QED BY <1>0, <1>1, <2>1 DEF PublishBegins, Mark
<1>2. ASSUME NEW w \in Word, Store(w)
      PROVE  NextInOther'
  BY <1>2 DEF Store, SnapshotInv, SnapshotTypeOK
<1>3. CASE Seal
  BY <1>0, <1>3 DEF Seal, SnapshotInv, SnapshotTypeOK
<1>4. CASE PublishEnds
  BY <1>4 DEF PublishEnds, Idle, SnapshotInv, SlotsOK, WriterAhead
<1>5. ASSUME NEW r \in Reader, ReadBegins(r) \/ ReaderStep(r)
      PROVE  NextInOther'
  BY <1>5 DEF ReadBegins, ReaderStep, Look, Check, Load, Validate
<1>6. CASE UNCHANGED snapshotVars
  BY <1>6 DEF snapshotVars
<1>7. QED BY <1>1, <1>2, <1>3, <1>4, <1>5, <1>6 DEF Next, WriterStep

(* A writer that leaves out no number keeps the published sample stable,   *)
(* so a reader never has to wait for it (sample_snapshot_publish).         *)
THEOREM SnapshotPublishedStable ==
  ASSUME Consecutive = TRUE
  PROVE  Spec => []PublishedStable
<1>1. SnapshotInv /\ NextInOther /\ [Next]_snapshotVars => NextInOther'
  BY StableStep
<1>2. QED BY <1>1, StableInit, StableReads, InvInit, InvStep, PTL DEF Spec
===============================================================================
