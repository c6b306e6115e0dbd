---------------------------- MODULE ImuChainProofs ----------------------------
(***************************************************************************)
(* The snapshots' lemmas carried over to the IMU chain: SensorBus and      *)
(* Fusion write, and Fusion, Control and the observers read, two           *)
(* snapshots, whatever the priorities and however many samples there are.  *)
(***************************************************************************)
EXTENDS ImuChainProperties, TLAPS

ImuSnapshot == INSTANCE SampleSnapshotProofs WITH
  Stamped <- {Sequence}, Reader <- {"Fusion"}, Consecutive <- TRUE,
  version <- imu_version, payload <- imu_payload, published <- imu_published,
  writer <- imu_writer, reader <- imu_reader

ResSnapshot == INSTANCE SampleSnapshotProofs WITH
  Stamped <- {}, Reader <- {"Control"} \union Observer, Consecutive <- FALSE,
  version <- res_version, payload <- res_payload, published <- res_published,
  writer <- res_writer, reader <- res_reader

-------------------------------------------------------------------------------
(* The two instances of the protocol and of its proofs are the same.       *)

LEMMA ImuSame ==
  /\ Imu!Init <=> ImuSnapshot!Init
  /\ [Imu!Next]_imuVars => [ImuSnapshot!Next]_ImuSnapshot!snapshotVars
  /\ ImuSnapshot!ReadsWhole => Imu!ReadsWhole
  /\ ImuSnapshot!PublishedStable => Imu!PublishedStable
<1>1. Imu!Init <=> ImuSnapshot!Init
  BY DEF Imu!Init, Imu!Idle, Imu!IdleReader, ImuSnapshot!Init, ImuSnapshot!Idle, ImuSnapshot!IdleReader
<1>2. Imu!Next => ImuSnapshot!Next
  BY DEF Imu!Next, Imu!PublishBegins, Imu!Follows, Imu!Mark, Imu!WriterStep, Imu!Store,
         Imu!Seal, Imu!PublishEnds, Imu!ReadBegins, Imu!ReaderStep, Imu!Look, Imu!Check,
         Imu!Load, Imu!Validate, Imu!Accepted, Imu!Stable, Imu!Slot, Imu!Idle,
         ImuSnapshot!Next, ImuSnapshot!PublishBegins, ImuSnapshot!Follows,
         ImuSnapshot!Mark, ImuSnapshot!WriterStep, ImuSnapshot!Store, ImuSnapshot!Seal,
         ImuSnapshot!PublishEnds, ImuSnapshot!ReadBegins, ImuSnapshot!ReaderStep,
         ImuSnapshot!Look, ImuSnapshot!Check, ImuSnapshot!Load, ImuSnapshot!Validate,
         ImuSnapshot!Accepted, ImuSnapshot!Stable, ImuSnapshot!Slot, ImuSnapshot!Idle
<1>3. imuVars = ImuSnapshot!snapshotVars
  BY DEF imuVars, ImuSnapshot!snapshotVars
<1>4. /\ ImuSnapshot!ReadsWhole => Imu!ReadsWhole
      /\ ImuSnapshot!PublishedStable => Imu!PublishedStable
  BY DEF Imu!ReadsWhole, ImuSnapshot!ReadsWhole, Imu!PublishedStable, ImuSnapshot!PublishedStable,
         Imu!Stable, Imu!Slot, ImuSnapshot!Stable, ImuSnapshot!Slot
<1>5. QED BY <1>1, <1>2, <1>3, <1>4 DEF imuVars, ImuSnapshot!snapshotVars

LEMMA ResultSame ==
  /\ Result!Init <=> ResSnapshot!Init
  /\ [Result!Next]_resVars => [ResSnapshot!Next]_ResSnapshot!snapshotVars
  /\ ResSnapshot!ReadsWhole => Result!ReadsWhole
  /\ ResSnapshot!PublishedStable => Result!PublishedStable
<1>1. Result!Init <=> ResSnapshot!Init
  BY DEF Result!Init, Result!Idle, Result!IdleReader, ResSnapshot!Init, ResSnapshot!Idle, ResSnapshot!IdleReader
<1>2. Result!Next => ResSnapshot!Next
  BY DEF Result!Next, Result!PublishBegins, Result!Follows, Result!Mark,
         Result!WriterStep, Result!Store, Result!Seal, Result!PublishEnds,
         Result!ReadBegins, Result!ReaderStep, Result!Look, Result!Check, Result!Load,
         Result!Validate, Result!Accepted, Result!Stable, Result!Slot, Result!Idle,
         ResSnapshot!Next, ResSnapshot!PublishBegins, ResSnapshot!Follows,
         ResSnapshot!Mark, ResSnapshot!WriterStep, ResSnapshot!Store, ResSnapshot!Seal,
         ResSnapshot!PublishEnds, ResSnapshot!ReadBegins, ResSnapshot!ReaderStep,
         ResSnapshot!Look, ResSnapshot!Check, ResSnapshot!Load, ResSnapshot!Validate,
         ResSnapshot!Accepted, ResSnapshot!Stable, ResSnapshot!Slot, ResSnapshot!Idle
<1>3. resVars = ResSnapshot!snapshotVars
  BY DEF resVars, ResSnapshot!snapshotVars
<1>4. /\ ResSnapshot!ReadsWhole => Result!ReadsWhole
      /\ ResSnapshot!PublishedStable => Result!PublishedStable
  BY DEF Result!ReadsWhole, ResSnapshot!ReadsWhole, Result!PublishedStable, ResSnapshot!PublishedStable,
         Result!Stable, Result!Slot, ResSnapshot!Stable, ResSnapshot!Slot
<1>5. QED BY <1>1, <1>2, <1>3, <1>4 DEF resVars, ResSnapshot!snapshotVars

-------------------------------------------------------------------------------
(* Every step of the chain is a step of each snapshot, or leaves it alone. *)

LEMMA ImuSteps ==
  ASSUME [ChainNext]_chainVars, imu_published \in Nat
  PROVE  [Imu!Next]_imuVars
<1>1. CASE UNCHANGED chainVars
  BY <1>1 DEF chainVars
<1>2. CASE SensorBus
  <2>1. ASSUME NEW valid \in BOOLEAN, BusPublishes(valid)
        PROVE  Imu!Next
    BY <2>1 DEF BusPublishes, Imu!Next
  <2>2. CASE BusStores
    BY <2>2 DEF BusStores, Imu!Next
  <2>3. CASE BusNotifies
    BY <2>3 DEF BusNotifies
  <2>4. QED BY <1>2, <2>1, <2>2, <2>3 DEF SensorBus
<1>3. CASE Fusion
  <2>1. CASE FusionWakes
    BY <2>1 DEF FusionWakes, Imu!Next
  <2>2. CASE FusionReads
    BY <2>2 DEF FusionReads, Imu!Next
  <2>3. CASE FusionRegisters \/ FusionSkips \/ FusionPublishes \/ FusionStores
    BY <2>3 DEF FusionRegisters, FusionSkips, FusionPublishes, FusionStores
  <2>4. QED BY <1>3, <2>1, <2>2, <2>3 DEF Fusion
<1>4. CASE Control \/ \E o \in Observer : Observe(o)
  BY <1>4 DEF Control, ControlStep, Observe
<1>5. QED BY <1>1, <1>2, <1>3, <1>4 DEF ChainNext

LEMMA ResultSteps ==
  ASSUME [ChainNext]_chainVars, FusionSample \in Nat
  PROVE  [Result!Next]_resVars
<1>1. CASE UNCHANGED chainVars
  BY <1>1 DEF chainVars
<1>2. CASE SensorBus
  BY <1>2 DEF SensorBus, BusPublishes, BusStores, BusNotifies
<1>3. CASE Fusion
  <2>1. CASE FusionPublishes
    BY <2>1 DEF FusionPublishes, Result!Next
  <2>2. CASE FusionStores
    BY <2>2 DEF FusionStores, Result!Next
  <2>3. CASE FusionRegisters \/ FusionWakes \/ FusionReads \/ FusionSkips
    BY <2>3 DEF FusionRegisters, FusionWakes, FusionReads, FusionSkips
  <2>4. QED BY <1>3, <2>1, <2>2, <2>3 DEF Fusion
<1>4. CASE Control
  BY <1>4 DEF Control, ControlStep, Result!Next
<1>5. ASSUME NEW o \in Observer, Observe(o)
      PROVE  Result!Next
  BY <1>5 DEF Observe, Result!Next
<1>6. QED BY <1>1, <1>2, <1>3, <1>4, <1>5 DEF ChainNext

-------------------------------------------------------------------------------
ChainInv == ImuSnapshot!SnapshotInv /\ ImuSnapshot!NextInOther /\ ResSnapshot!SnapshotInv

LEMMA ChainInvInit == ChainInit => ChainInv
<1>1. ChainInit => ImuSnapshot!Init /\ ResSnapshot!Init
  BY ImuSame, ResultSame DEF ChainInit
<1>2. QED BY <1>1, ImuSnapshot!InvInit, ImuSnapshot!StableInit, ResSnapshot!InvInit
          DEF ChainInv

LEMMA ChainInvStep == ChainInv /\ [ChainNext]_chainVars => ChainInv'
<1> SUFFICES ASSUME ChainInv, [ChainNext]_chainVars
             PROVE  ChainInv'
  OBVIOUS
<1>1. imu_published \in Nat /\ FusionSample \in Nat
  BY DEF ChainInv, ImuSnapshot!SnapshotInv, ImuSnapshot!SnapshotTypeOK, FusionSample
<1>2. [ImuSnapshot!Next]_ImuSnapshot!snapshotVars
  BY <1>1, ImuSteps, ImuSame
<1>3. [ResSnapshot!Next]_ResSnapshot!snapshotVars
  BY <1>1, ResultSteps, ResultSame
<1>4. ImuSnapshot!SnapshotInv' /\ ImuSnapshot!NextInOther'
  BY <1>2, ImuSnapshot!InvStep, ImuSnapshot!StableStep DEF ChainInv
<1>5. ResSnapshot!SnapshotInv'
  BY <1>3, ResSnapshot!InvStep DEF ChainInv
<1>6. QED BY <1>4, <1>5 DEF ChainInv

(* Neither the fusion task nor the control task ever works on a sample or  *)
(* a result some words of which are of another one (sample_snapshot_read,  *)
(* fusion_get_result).                                                     *)
THEOREM ChainSamplesWhole == ChainSpec => []SamplesWhole
<1>1. ChainInv => SamplesWhole
  BY ImuSame, ResultSame, ImuSnapshot!InvReads, ResSnapshot!InvReads
  DEF ChainInv, SamplesWhole
<1>2. QED BY <1>1, ChainInvInit, ChainInvStep, PTL DEF ChainSpec

(* The published IMU sample is always stable: SensorBus writes in the      *)
(* other slot (sample_snapshot_publish).                                   *)
THEOREM ChainSampleReadable == ChainSpec => []SampleReadable
<1>1. ChainInv => SampleReadable
  BY ImuSame, ImuSnapshot!StableReads DEF ChainInv, SampleReadable
<1>2. QED BY <1>1, ChainInvInit, ChainInvStep, PTL DEF ChainSpec

-------------------------------------------------------------------------------
(***************************************************************************)
(* Types.  The two snapshots keep their own; what the tasks keep is the    *)
(* number of a sample that was taken, so the bound on those is needed too. *)
(***************************************************************************)
SnapshotsTyped == Imu!SnapshotTypeOK /\ Result!SnapshotTypeOK

TasksTyped ==
  /\ bus \in {"idle", "publish", "notify"}
  /\ withheld \subseteq 1 .. MaxSequence
  /\ fusion \in {"start", "take", "read", "publish"}
  /\ notified \in BOOLEAN
  /\ last \in 0 .. MaxSequence
  /\ imu_published <= MaxSequence
  /\ imu_writer.pc # "idle" => imu_writer.seq <= MaxSequence

LEMMA SnapshotsKeepTypes == ChainInv => SnapshotsTyped
<1>1. ImuSnapshot!SnapshotTypeOK => Imu!SnapshotTypeOK
  BY DEF ImuSnapshot!SnapshotTypeOK, Imu!SnapshotTypeOK
<1>2. ResSnapshot!SnapshotTypeOK => Result!SnapshotTypeOK
  BY DEF ResSnapshot!SnapshotTypeOK, Result!SnapshotTypeOK
<1>3. QED BY <1>1, <1>2
          DEF ChainInv, SnapshotsTyped, ImuSnapshot!SnapshotInv, ResSnapshot!SnapshotInv

(* The fusion task holds the number of a sample that was published.        *)
LEMMA FusionSampleTaken ==
  ChainInv /\ TasksTyped => imu_published \in Nat /\ FusionSample \in 0 .. MaxSequence
<1> SUFFICES ASSUME ChainInv, TasksTyped
             PROVE  imu_published \in Nat /\ FusionSample \in 0 .. MaxSequence
  OBVIOUS
<1>1. imu_published \in Nat /\ FusionSample \in Nat
  BY DEF ChainInv, ImuSnapshot!SnapshotInv, ImuSnapshot!SnapshotTypeOK, FusionSample
<1>2. FusionSample <= imu_published
  BY DEF ChainInv, ImuSnapshot!SnapshotInv, ImuSnapshot!ReaderOK, FusionSample
<1>3. QED BY <1>1, <1>2, ImuChainAssumption DEF TasksTyped

LEMMA TasksKeepTypes ==
  ASSUME ChainInv, TasksTyped, [ChainNext]_chainVars
  PROVE  TasksTyped'
<1> USE DEF TasksTyped
<1>0. /\ imu_published \in Nat /\ FusionSample \in 0 .. MaxSequence /\ MaxSequence \in Nat
      /\ imu_writer.pc \in {"idle", "store", "sealed"}
      /\ imu_writer \in [pc : {"idle", "store", "sealed"}, seq : Nat, todo : SUBSET Word]
  BY FusionSampleTaken, ImuChainAssumption
     DEF ChainInv, ImuSnapshot!SnapshotInv, ImuSnapshot!SnapshotTypeOK
<1>1. ASSUME NEW valid \in BOOLEAN, BusPublishes(valid)
      PROVE  TasksTyped'
  <2>1. imu_published + 1 \in 1 .. MaxSequence
    BY <1>0, <1>1 DEF BusPublishes
  <2>2. imu_published' = imu_published /\ imu_writer'.seq = imu_published + 1
    BY <1>1 DEF BusPublishes, Imu!PublishBegins
  <2>3. withheld' \subseteq 1 .. MaxSequence
    BY <1>1, <2>1 DEF BusPublishes
  <2>4. QED BY <1>0, <1>1, <2>1, <2>2, <2>3 DEF BusPublishes
<1>2. CASE BusStores
  <2>1. /\ imu_published' <= MaxSequence
        /\ imu_writer'.pc # "idle" => imu_writer'.seq <= MaxSequence
    <3>1. CASE \E w \in Word : Imu!Store(w)
      BY <1>0, <3>1 DEF Imu!Store
    <3>2. CASE Imu!Seal
      BY <1>0, <3>2 DEF Imu!Seal
    <3>3. CASE Imu!PublishEnds
      BY <1>0, <3>3 DEF Imu!PublishEnds, Imu!Idle
    <3>4. QED BY <1>2, <3>1, <3>2, <3>3 DEF BusStores, Imu!WriterStep
  <2>2. QED BY <1>2, <2>1 DEF BusStores
<1>3. CASE BusNotifies
  <2>1. notified' \in BOOLEAN
    BY <1>3, Zenon DEF BusNotifies
  <2>2. QED BY <1>3, <2>1 DEF BusNotifies, imuVars
<1>4. CASE Fusion
  <2>1. imu_published' = imu_published /\ imu_writer' = imu_writer
    BY <1>4 DEF Fusion, FusionRegisters, FusionWakes, FusionReads, FusionSkips, FusionPublishes,
                FusionStores, imuVars, Imu!ReadBegins, Imu!ReaderStep, Imu!Look, Imu!Check,
                Imu!Load, Imu!Validate
  <2>2. UNCHANGED <<bus, withheld>> /\ fusion' \in {"start", "take", "read", "publish"}
    BY <1>4 DEF Fusion, FusionRegisters, FusionWakes, FusionReads, FusionSkips, FusionPublishes,
                FusionStores, taskVars
  <2>3. notified' \in {notified, FALSE}
    BY <1>4 DEF Fusion, FusionRegisters, FusionWakes, FusionReads, FusionSkips, FusionPublishes,
                FusionStores, taskVars
  <2>4. last' \in {last, FusionSample}
    BY <1>4 DEF Fusion, FusionRegisters, FusionWakes, FusionReads, FusionSkips, FusionPublishes,
                FusionStores, taskVars
  <2>5. QED BY <1>0, <2>1, <2>2, <2>3, <2>4
<1>5. CASE Control \/ (\E o \in Observer : Observe(o)) \/ UNCHANGED chainVars
  BY <1>5 DEF Control, ControlStep, Observe, chainVars, imuVars, taskVars
<1>6. QED BY <1>1, <1>2, <1>3, <1>4, <1>5 DEF ChainNext, SensorBus

(* Every variable of the chain keeps to its C type and its writers, and no *)
(* task ever holds the number of a sample that was not taken               *)
(* (sample_snapshot_read, task_imu_fusion).                                *)
THEOREM ChainTypes == ChainSpec => []ImuChainTypeOK
<1>1. ChainInit => TasksTyped
  <2>1. ChainInit => notified \in BOOLEAN
    BY Zenon DEF ChainInit
  <2>2. QED BY <2>1, ImuChainAssumption DEF ChainInit, Imu!Init, Imu!Idle, TasksTyped
<1>2. ChainInv /\ TasksTyped => ImuChainTypeOK
  BY SnapshotsKeepTypes DEF SnapshotsTyped, TasksTyped, ImuChainTypeOK
<1>3. QED BY <1>1, <1>2, TasksKeepTypes, ChainInvInit, ChainInvStep, PTL DEF ChainSpec
===============================================================================
