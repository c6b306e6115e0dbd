----------------------------- MODULE SensingProofs -----------------------------
(***************************************************************************)
(* Theorems about the sensor tasks: what SensorBus says of its two chips,  *)
(* for any limits; the two drivers that share a buffer with an interrupt   *)
(* or another core, the ToF sensors for any number of frames and of pieces *)
(* of a frame, and the GPS for any size of the ring and of the event       *)
(* queue; and the compass calibration, for any number of runs.             *)
(***************************************************************************)
EXTENDS MCSensing, ImuChainProofs, TLAPS

-------------------------------------------------------------------------------
(* What SensorBus says of its chips.                                        *)

AgType == [fails : Nat, have : BOOLEAN, same : Nat, frozen : BOOLEAN, ok : BOOLEAN]
MagType == [fails : Nat, still : Nat, frozen : BOOLEAN, ok : BOOLEAN]

HealthTypes == ag \in AgType /\ mag \in MagType /\ boot \in [ag : BOOLEAN, mag : BOOLEAN] /\ repeats \in Nat

(* The samples given on are counted by the detector, whatever comes in     *)
(* between: the count of unchanged reads is never behind them.             *)
Counted ==
  /\ repeats <= FreezeLimit /\ repeats <= ag.same + 1
  /\ ~ag.have => repeats = 0

(* A chip that was OK at boot and is not now: the next read that moves     *)
(* finds a reason to make it OK again.                                     *)
AgExcused == boot.ag /\ ~ag.ok => ag.fails >= FailLimit \/ ag.frozen
MagExcused == boot.mag /\ ~mag.ok => mag.fails >= FailLimit \/ mag.frozen

HealthInv == HealthTypes /\ Counted /\ AgExcused /\ MagExcused /\ ImuReported

LEMMA OneMoreGrows ==
  ASSUME NEW n \in Nat
  PROVE  /\ OneMore(n) \in Nat
         /\ n >= FailLimit => OneMore(n) >= FailLimit
  BY ImuHealthAssumption DEF OneMore

(* A failed read of either chip.                                           *)
LEMMA FailedKeeps ==
  ASSUME NEW c, c \in AgType \/ c \in MagType, NEW answers \in BOOLEAN
  PROVE  /\ c \in AgType => Failed(c, answers) \in AgType /\ Failed(c, answers).same = c.same /\ Failed(c, answers).have = c.have
         /\ c \in MagType => Failed(c, answers) \in MagType
         /\ Failed(c, answers).frozen = c.frozen
         /\ (~Failed(c, answers).ok /\ (~c.ok => c.fails >= FailLimit \/ c.frozen))
              => Failed(c, answers).fails >= FailLimit \/ c.frozen
<1> DEFINE n == OneMore(c.fails)
           r == Recovered(n, answers)
           d == Failed(c, answers)
<1>1. c.fails \in Nat /\ c.ok \in BOOLEAN
  BY DEF AgType, MagType
<1>2. n \in Nat /\ (c.fails >= FailLimit => n >= FailLimit)
  BY <1>1, OneMoreGrows
<1>3. r \in BOOLEAN
  BY DEF Recovered
<1>4. d = [c EXCEPT !.fails = IF r THEN 0 ELSE n, !.ok = r \/ (@ /\ n # FailLimit)]
  BY DEF Failed
<1>5. (r \/ (c.ok /\ n # FailLimit)) \in BOOLEAN
  OBVIOUS
<1>6. (IF r THEN 0 ELSE n) \in Nat
  BY <1>2
<1> HIDE DEF n, r, d
<1>7. c \in AgType => d \in AgType /\ d.same = c.same /\ d.have = c.have
  BY <1>4, <1>5, <1>6, Zenon DEF AgType
<1>8. c \in MagType => d \in MagType
  BY <1>4, <1>5, <1>6, Zenon DEF MagType
<1>9. d.frozen = c.frozen /\ d.fails = (IF r THEN 0 ELSE n) /\ d.ok = (r \/ (c.ok /\ n # FailLimit))
  BY <1>4 DEF AgType, MagType
<1>10. (~d.ok /\ (~c.ok => c.fails >= FailLimit \/ c.frozen)) => d.fails >= FailLimit \/ c.frozen
  <2> SUFFICES ASSUME ~d.ok, ~c.ok => c.fails >= FailLimit \/ c.frozen, ~c.frozen
               PROVE  d.fails >= FailLimit
    OBVIOUS
  <2>1. ~r /\ d.fails = n /\ (c.ok => n = FailLimit)
    BY <1>9
  <2>2. QED BY <1>2, <2>1, ImuHealthAssumption
<1>11. QED BY <1>7, <1>8, <1>9, <1>10 DEF d

LEMMA AnsweredKeeps ==
  ASSUME NEW c, c \in AgType \/ c \in MagType
  PROVE  /\ c \in AgType => Answered(c) \in AgType /\ Answered(c).same = c.same /\ Answered(c).have = c.have
         /\ c \in MagType => Answered(c) \in MagType
         /\ Answered(c).frozen = c.frozen
         /\ Answered(c).ok <=> c.ok \/ c.fails >= FailLimit
<1> DEFINE long == c.fails >= FailLimit
<1>1. c.ok \in BOOLEAN /\ long \in BOOLEAN /\ 0 \in Nat
  BY DEF AgType, MagType
<1>2. Answered(c) = [c EXCEPT !.ok = @ \/ long, !.fails = 0]
  BY DEF Answered
<1> HIDE DEF long
<1>3. (c.ok \/ long) \in BOOLEAN
  BY <1>1
<1>4. c \in AgType => Answered(c) \in AgType /\ Answered(c).same = c.same /\ Answered(c).have = c.have
  BY <1>1, <1>2, <1>3, Zenon DEF AgType
<1>5. c \in MagType => Answered(c) \in MagType
  BY <1>1, <1>2, <1>3, Zenon DEF MagType
<1>6. Answered(c).frozen = c.frozen /\ Answered(c).ok = (c.ok \/ long)
  BY <1>2 DEF AgType, MagType
<1>7. QED BY <1>4, <1>5, <1>6 DEF long

(* A read of the accelerometer and the gyro.                               *)
LEMMA AgReadKeeps ==
  ASSUME ag \in AgType, NEW changed \in BOOLEAN
  PROVE  LET a == AgRead(changed) IN
         /\ a \in AgType /\ a.have
         /\ (~changed /\ ag.have /\ ~a.frozen) => a.same = ag.same + 1 /\ ag.same + 1 < FreezeLimit
         /\ (~changed /\ ag.have /\ a.frozen) => a.same >= ag.same
         /\ (changed \/ ~ag.have) => ~a.frozen
         /\ AgExcused /\ boot.ag => (changed => a.ok) /\ (~a.ok => a.frozen)
<1> DEFINE c == Answered(ag)
           same == c.have /\ ~changed
           frozen == Frozen(c, same)
           count == IF ~same THEN 0 ELSE IF c.same < FreezeLimit THEN c.same + 1 ELSE c.same
           ok == IF same THEN c.ok /\ (c.frozen \/ ~frozen) ELSE c.ok \/ c.frozen
           a == AgRead(changed)
<1>1. /\ c \in AgType /\ c.same = ag.same /\ c.have = ag.have /\ c.frozen = ag.frozen
      /\ c.ok <=> ag.ok \/ ag.fails >= FailLimit
  BY AnsweredKeeps
<1>2. /\ c.have \in BOOLEAN /\ c.frozen \in BOOLEAN /\ c.ok \in BOOLEAN /\ c.same \in Nat
      /\ FreezeLimit \in Nat \ {0} /\ same \in BOOLEAN
  BY <1>1, ImuHealthAssumption DEF AgType
<1>3. frozen \in BOOLEAN /\ (frozen <=> same /\ (c.frozen \/ c.same + 1 >= FreezeLimit))
  BY <1>2 DEF Frozen
<1>4. count \in Nat
  BY <1>2
<1>5. ok \in BOOLEAN
  BY <1>2, <1>3
<1>6. a = [c EXCEPT !.have = TRUE, !.same = count, !.frozen = frozen, !.ok = ok]
  BY <1>1 DEF AgRead, AgType
<1> HIDE DEF c, ok, count, frozen, a
<1>7. a \in AgType
  BY <1>1, <1>3, <1>4, <1>5, <1>6, Zenon DEF AgType
<1>8. a.have = TRUE /\ a.same = count /\ a.frozen = frozen /\ a.ok = ok
  BY <1>1, <1>6 DEF AgType
<1>9. a.have
  BY <1>8
<1>10. (~changed /\ ag.have /\ ~a.frozen) => a.same = ag.same + 1 /\ ag.same + 1 < FreezeLimit
  BY <1>1, <1>2, <1>3, <1>8 DEF count
<1>11. (~changed /\ ag.have /\ a.frozen) => a.same >= ag.same
  BY <1>1, <1>2, <1>8 DEF count
<1>12. (changed \/ ~ag.have) => ~a.frozen
  BY <1>1, <1>3, <1>8
<1>13. ASSUME AgExcused, boot.ag
       PROVE  (changed => a.ok) /\ (~a.ok => a.frozen)
  <2>1. c.ok \/ c.frozen
    BY <1>1, <1>13 DEF AgExcused
  <2>2. CASE ~same
    BY <1>8, <2>1, <2>2 DEF ok
  <2>3. CASE same
    BY <1>3, <1>8, <2>1, <2>3 DEF ok
  <2>4. QED BY <2>2, <2>3
<1>14. QED BY <1>7, <1>9, <1>10, <1>11, <1>12, <1>13 DEF a

(* A read of the compass.                                                  *)
LEMMA MagReadKeeps ==
  ASSUME mag \in MagType, NEW changed \in BOOLEAN
  PROVE  LET m == MagRead(changed) IN
         /\ m \in MagType
         /\ MagExcused /\ boot.mag => (changed => m.ok) /\ (~m.ok => m.frozen)
<1> DEFINE c == IF changed THEN MagMoves(mag) ELSE MagStill(mag)
           m == MagRead(changed)
<1>1. mag.ok \in BOOLEAN /\ mag.frozen \in BOOLEAN /\ mag.still \in Nat /\ StillLimit \in Nat
  BY ImuHealthAssumption DEF MagType
<1>2. /\ c \in MagType /\ c.fails = mag.fails
      /\ changed => (c.ok <=> mag.ok \/ mag.frozen)
      /\ ~changed => (c.frozen <=> mag.frozen \/ mag.still + 1 >= StillLimit)
      /\ ~changed /\ ~c.ok => ~mag.ok \/ c.frozen
  <2>1. CASE changed
    <3>1. c = [mag EXCEPT !.still = 0, !.frozen = FALSE, !.ok = @ \/ mag.frozen]
      BY <2>1 DEF MagMoves
    <3>2. (mag.ok \/ mag.frozen) \in BOOLEAN /\ 0 \in Nat
      BY <1>1
    <3> HIDE DEF c
    <3>3. c \in MagType
      BY <3>1, <3>2, Zenon DEF MagType
    <3>4. c.fails = mag.fails /\ c.ok = (mag.ok \/ mag.frozen)
      BY <3>1 DEF MagType
    <3>5. QED BY <2>1, <3>3, <3>4
  <2>2. CASE ~changed /\ mag.still + 1 < StillLimit
    <3>1. c = [mag EXCEPT !.still = @ + 1]
      BY <2>2 DEF MagStill
    <3>2. mag.still + 1 \in Nat
      BY <1>1
    <3> HIDE DEF c
    <3>3. c \in MagType
      BY <3>1, <3>2, Zenon DEF MagType
    <3>4. c.fails = mag.fails /\ c.ok = mag.ok /\ c.frozen = mag.frozen
      BY <3>1 DEF MagType
    <3>5. ~(mag.still + 1 >= StillLimit)
      BY <1>1, <2>2
    <3>6. QED BY <2>2, <3>3, <3>4, <3>5
  <2>3. CASE ~changed /\ ~(mag.still + 1 < StillLimit)
    <3>1. c = [mag EXCEPT !.still = 0, !.frozen = TRUE, !.ok = @ /\ mag.frozen]
      BY <2>3 DEF MagStill
    <3>2. (mag.ok /\ mag.frozen) \in BOOLEAN /\ 0 \in Nat
      BY <1>1
    <3> HIDE DEF c
    <3>3. c \in MagType
      BY <3>1, <3>2, Zenon DEF MagType
    <3>4. c.fails = mag.fails /\ c.frozen = TRUE
      BY <3>1 DEF MagType
    <3>5. mag.still + 1 >= StillLimit
      BY <1>1, <2>3
    <3>6. QED BY <2>3, <3>3, <3>4, <3>5
  <2>4. QED BY <2>1, <2>2, <2>3
<1>3. m = Answered(c)
  BY DEF MagRead
<1> HIDE DEF c, m
<1>4. m \in MagType /\ m.frozen = c.frozen /\ (m.ok <=> c.ok \/ c.fails >= FailLimit)
  BY <1>2, <1>3, AnsweredKeeps
<1>5. ASSUME MagExcused, boot.mag
      PROVE  (changed => m.ok) /\ (~m.ok => m.frozen)
  <2>1. mag.ok \/ mag.fails >= FailLimit \/ mag.frozen
    BY <1>5 DEF MagExcused
  <2>2. CASE changed
    BY <1>2, <1>4, <2>1, <2>2
  <2>3. CASE ~changed
    BY <1>2, <1>4, <2>1, <2>3
  <2>4. QED BY <2>2, <2>3
<1>6. QED BY <1>4, <1>5 DEF m

-------------------------------------------------------------------------------
LEMMA HealthInvInit == HealthInit => HealthInv
<1> SUFFICES ASSUME HealthInit
             PROVE  HealthInv
  OBVIOUS
<1>1. boot.ag \in BOOLEAN /\ boot.mag \in BOOLEAN /\ FreezeLimit \in Nat
  BY ImuHealthAssumption DEF HealthInit
<1>2. HealthTypes
  <2>1. ag \in AgType
    BY <1>1, Zenon DEF HealthInit, AgType
  <2>2. mag \in MagType
    BY <1>1, Zenon DEF HealthInit, MagType
  <2>3. QED BY <2>1, <2>2 DEF HealthInit, HealthTypes
<1>3. ag.have = FALSE /\ ag.same = 0 /\ ag.ok = boot.ag /\ mag.ok = boot.mag /\ repeats = 0
      /\ moved.ag = FALSE /\ moved.mag = FALSE
  BY DEF HealthInit
<1>4. Counted
  BY <1>1, <1>3 DEF Counted
<1>5. AgExcused /\ MagExcused
  BY <1>3 DEF AgExcused, MagExcused
<1>6. ImuReported
  BY <1>3, <1>4 DEF ImuReported, FrozenGyroWithheld, MovingChipOK, Counted
<1>7. QED BY <1>2, <1>4, <1>5, <1>6 DEF HealthInv

LEMMA HealthInvStep == HealthInv /\ [HealthNext]_healthVars => HealthInv'
<1> SUFFICES ASSUME HealthInv, [HealthNext]_healthVars
             PROVE  HealthInv'
  OBVIOUS
<1>0. /\ ag \in AgType /\ mag \in MagType /\ repeats \in Nat /\ Counted /\ AgExcused /\ MagExcused
      /\ FreezeLimit \in Nat \ {0} /\ ag.same \in Nat
  BY ImuHealthAssumption DEF HealthInv, HealthTypes, AgType
<1>1. ASSUME NEW a \in Read, NEW m \in Read, ReadCycle(a, m)
      PROVE  HealthInv'
  <2> DEFINE agRead == a \in {"same", "changed"}
             magRead == m \in {"same", "changed"}
  <2>1. /\ agRead => ag' = AgRead(a = "changed")
        /\ ~agRead => ag' = Failed(ag, a = "recover")
        /\ magRead => mag' = MagRead(m = "changed")
        /\ ~magRead => mag' = Failed(mag, m = "recover")
        /\ boot' = boot
    BY <1>1 DEF ReadCycle, AgFailed
  <2>2. /\ sample'.ag = (agRead /\ ~ag'.frozen)
        /\ moved'.ag = (a = "changed") /\ moved'.mag = (m = "changed")
        /\ repeats' = IF ~sample'.ag THEN repeats ELSE IF a = "changed" THEN 1 ELSE repeats + 1
    BY <1>1 DEF ReadCycle
  <2>3. HealthTypes'
    <3>1. ag' \in AgType
      BY <1>0, <2>1, AgReadKeeps, FailedKeeps
    <3>2. mag' \in MagType
      BY <1>0, <2>1, MagReadKeeps, FailedKeeps
    <3>3. repeats' \in Nat
      BY <1>0, <2>2
    <3>4. QED BY <2>1, <3>1, <3>2, <3>3 DEF HealthInv, HealthTypes
  <2>4. Counted'
    <3>1. CASE ~agRead
      <4>1. ag'.same = ag.same /\ ag'.have = ag.have /\ repeats' = repeats
        BY <1>0, <2>1, <2>2, <3>1, FailedKeeps
      <4>2. QED BY <1>0, <4>1 DEF Counted
    <3>2. CASE agRead
      <4> DEFINE changed == a = "changed"
      <4>1. /\ ag' \in AgType /\ ag'.have
            /\ (~changed /\ ag.have /\ ~ag'.frozen) => ag'.same = ag.same + 1 /\ ag.same + 1 < FreezeLimit
            /\ (~changed /\ ag.have /\ ag'.frozen) => ag'.same >= ag.same
            /\ (changed \/ ~ag.have) => ~ag'.frozen
        BY <1>0, <2>1, <3>2, AgReadKeeps
      <4>2. ag'.same \in Nat
        BY <4>1 DEF AgType
      <4>3. CASE changed
        <5>1. ~ag'.frozen /\ repeats' = 1
          BY <2>2, <3>2, <4>1, <4>3
        <5>2. QED BY <1>0, <4>1, <4>2, <5>1 DEF Counted
      <4>4. CASE ~changed /\ ~ag.have
        BY <1>0, <2>2, <3>2, <4>1, <4>2, <4>4 DEF Counted
      <4>5. CASE ~changed /\ ag.have /\ ag'.frozen
        <5>1. repeats' = repeats
          BY <2>2, <4>5
        <5>2. QED BY <1>0, <4>1, <4>2, <4>5, <5>1 DEF Counted
      <4>6. CASE ~changed /\ ag.have /\ ~ag'.frozen
        BY <1>0, <2>2, <3>2, <4>1, <4>2, <4>6 DEF Counted
      <4>7. QED BY <4>3, <4>4, <4>5, <4>6
    <3>3. QED BY <3>1, <3>2
  <2>5. AgExcused' /\ (boot'.ag /\ moved'.ag => ag'.ok)
    <3> SUFFICES ASSUME boot.ag
                 PROVE  (~ag'.ok => ag'.fails >= FailLimit \/ ag'.frozen) /\ (moved'.ag => ag'.ok)
      BY <2>1 DEF AgExcused
    <3>1. CASE agRead
      BY <1>0, <2>1, <2>2, <3>1, AgReadKeeps
    <3>2. CASE ~agRead
      <4>1. ~moved'.ag
        BY <2>2, <3>2
      <4>2. ~ag.ok => ag.fails >= FailLimit \/ ag.frozen
        BY <1>0 DEF AgExcused
      <4>3. ag'.frozen = ag.frozen /\ (~ag'.ok => ag'.fails >= FailLimit \/ ag.frozen)
        BY <1>0, <2>1, <3>2, <4>2, FailedKeeps
      <4>4. QED BY <4>1, <4>3
    <3>3. QED BY <3>1, <3>2
  <2>6. MagExcused' /\ (boot'.mag /\ moved'.mag => mag'.ok)
    <3> SUFFICES ASSUME boot.mag
                 PROVE  (~mag'.ok => mag'.fails >= FailLimit \/ mag'.frozen) /\ (moved'.mag => mag'.ok)
      BY <2>1 DEF MagExcused
    <3>1. CASE magRead
      BY <1>0, <2>1, <2>2, <3>1, MagReadKeeps
    <3>2. CASE ~magRead
      <4>1. ~moved'.mag
        BY <2>2, <3>2
      <4>2. ~mag.ok => mag.fails >= FailLimit \/ mag.frozen
        BY <1>0 DEF MagExcused
      <4>3. mag'.frozen = mag.frozen /\ (~mag'.ok => mag'.fails >= FailLimit \/ mag.frozen)
        BY <1>0, <2>1, <3>2, <4>2, FailedKeeps
      <4>4. QED BY <4>1, <4>3
    <3>3. QED BY <3>1, <3>2
  <2>7. ImuReported'
    BY <2>4, <2>5, <2>6 DEF Counted, ImuReported, FrozenGyroWithheld, MovingChipOK
  <2>8. QED BY <2>3, <2>4, <2>5, <2>6, <2>7 DEF HealthInv
<1>2. CASE UNCHANGED healthVars
  BY <1>2 DEF healthVars, HealthInv, HealthTypes, Counted, AgExcused, MagExcused, ImuReported,
              FrozenGyroWithheld, MovingChipOK
<1>3. QED BY <1>1, <1>2 DEF HealthNext

(* Fusion is never given more than FreezeLimit samples with the same       *)
(* values, and a chip that moves is OK, for any limits and any order of    *)
(* failures and recoveries (sensor_read_imu_sample, imu_freeze_update).    *)
THEOREM ImuStaysReported == HealthSpec => []ImuReported
  BY HealthInvInit, HealthInvStep, PTL DEF HealthSpec, HealthInv

(***************************************************************************)
(* The ToF sensors.                                                        *)
(***************************************************************************)

RangeTypes ==
  /\ slot_state \in [Tof -> [0 .. 1 -> {"free", "writing", "reading"}]]
  /\ generation \in [Tof -> Nat]
  /\ buffer \in [Tof -> [0 .. 1 -> [Part -> Nat]]]
  /\ reading \in [pc : {"poll", "read", "free", "notify"}, tof : Tof, todo : SUBSET Part]
  /\ proc \in [pc : {"start", "look", "claim", "stable", "copy", "store", "wait"}, tof : Tof, seen : Nat, todo : SUBSET Part]
  /\ result \in [Part -> Nat]
  /\ cache \in [Tof -> [generation : Nat, frame : [Part -> Nat]]]

(* The reader owns the slot it fills until it has published and freed it,  *)
(* the processor the slot it verifies and copies.                          *)
WriterOwns ==
  /\ reading.pc = "read" => slot_state[reading.tof][Slot(NextGeneration(reading.tof))] = "writing"
  /\ reading.pc = "free" => slot_state[reading.tof][Slot(generation[reading.tof])] = "writing"

CopierOwns == proc.pc \in {"stable", "copy"} => slot_state[proc.tof][Slot(proc.seen)] = "reading"

(* The newest frame is whole, and so is what was read of the next.         *)
PublishedWhole ==
  \A t \in Tof : generation[t] # 0 => \A p \in Part : buffer[t][Slot(generation[t])][p] = generation[t]

WrittenWhole ==
  reading.pc = "read" =>
    \A p \in Part \ reading.todo :
      buffer[reading.tof][Slot(NextGeneration(reading.tof))][p] = NextGeneration(reading.tof)

(* The frame that is copied stays the one that was verified.               *)
CopiedWhole ==
  /\ proc.pc = "copy" => \A p \in Part : buffer[proc.tof][Slot(proc.seen)][p] = proc.seen
  /\ proc.pc = "copy" => \A p \in Part \ proc.todo : result[p] = proc.seen
  /\ proc.pc = "store" => \A p \in Part : result[p] = proc.seen
  /\ proc.pc \in {"claim", "stable", "copy", "store"} => proc.seen # 0

RangeInv ==
  RangeTypes /\ WriterOwns /\ CopierOwns /\ PublishedWhole /\ WrittenWhole /\ CopiedWhole /\ FramesWhole

LEMMA Slots ==
  ASSUME NEW g \in Nat
  PROVE  Slot(g) \in 0 .. 1 /\ Slot(g + 1) \in 0 .. 1 /\ Slot(g + 1) # Slot(g)
  BY DEF Slot

LEMMA RangeInit == RangingInit => RangeInv
  BY DEF RangingInit, RangeInv, RangeTypes, WriterOwns, CopierOwns, PublishedWhole, WrittenWhole,
         CopiedWhole, FramesWhole, Shown, NoReading, Unread, Tof

-------------------------------------------------------------------------------
(***************************************************************************)
(* Tick and the reader.                                                    *)
(***************************************************************************)
USE DEF NextGeneration

LEMMA RangeStill ==
  ASSUME RangeInv, UNCHANGED <<slot_state, generation, buffer, reading, proc, result, cache>>
  PROVE  RangeInv'
  BY DEF RangeInv, RangeTypes, WriterOwns, CopierOwns, PublishedWhole, WrittenWhole,
         CopiedWhole, FramesWhole, Shown

(* A step of the reader leaves the processor and its cache alone.          *)
LEMMA ReaderOnly ==
  ASSUME RangeInv, UNCHANGED <<proc, result, cache>>, RangeTypes',
         WriterOwns', PublishedWhole', WrittenWhole', CopierOwns',
         proc.pc = "copy" => UNCHANGED buffer[proc.tof][Slot(proc.seen)]
  PROVE  RangeInv'
<1>1. FramesWhole'
  BY DEF RangeInv, FramesWhole, Shown
<1>2. CopiedWhole'
  BY DEF RangeInv, CopiedWhole
<1>3. QED BY <1>1, <1>2 DEF RangeInv

LEMMA ReadClaimsStep ==
  ASSUME RangeInv, NEW t \in Tof, ReadClaims(t)
  PROVE  RangeInv'
<1> DEFINE s == Slot(NextGeneration(t))
<1>1. s \in 0 .. 1
  BY Slots DEF RangeInv, RangeTypes
<1>2. /\ slot_state[t][s] = "free" /\ slot_state' = [slot_state EXCEPT ![t][s] = "writing"]
      /\ reading' = [pc |-> "read", tof |-> t, todo |-> Part]
      /\ UNCHANGED <<generation, buffer, proc, result, cache>>
  BY DEF ReadClaims, Claimed, procVars
<1> HIDE DEF s
<1>3. RangeTypes'
  BY <1>1, <1>2 DEF RangeInv, RangeTypes
<1>4. slot_state'[t][s] = "writing"
  BY <1>1, <1>2 DEF RangeInv, RangeTypes
<1>5. WriterOwns'
  BY <1>2, <1>4 DEF WriterOwns, s
<1>6. CopierOwns'
  BY <1>1, <1>2 DEF RangeInv, RangeTypes, CopierOwns, Slot
<1>7. PublishedWhole' /\ WrittenWhole'
  BY <1>2 DEF RangeInv, PublishedWhole, WrittenWhole
<1>8. QED BY <1>2, <1>3, <1>5, <1>6, <1>7, ReaderOnly

LEMMA ReadPartStep ==
  ASSUME RangeInv, NEW q \in Part, ReadPart(q)
  PROVE  RangeInv'
<1> DEFINE t == reading.tof
           g == generation[t] + 1
           s == Slot(g)
<1>1. t \in Tof /\ g \in Nat /\ s \in 0 .. 1 /\ Slot(generation[t]) # s /\ Slot(generation[t]) \in 0 .. 1
  BY Slots DEF RangeInv, RangeTypes
<1>2. /\ reading.pc = "read" /\ buffer' = [buffer EXCEPT ![t][s][q] = g]
      /\ reading' = [reading EXCEPT !.todo = @ \ {q}]
      /\ UNCHANGED <<slot_state, generation, proc, result, cache>>
  BY DEF ReadPart, procVars
<1>3. slot_state[t][s] = "writing"
  BY <1>2 DEF RangeInv, WriterOwns
<1> HIDE DEF s, g
<1>4. RangeTypes'
  BY <1>1, <1>2 DEF RangeInv, RangeTypes
<1>5. WriterOwns' /\ CopierOwns'
  BY <1>2, <1>4 DEF RangeInv, RangeTypes, WriterOwns, CopierOwns
<1>6. \A u \in Tof : \A i \in 0 .. 1 : (u # t \/ i # s) => buffer'[u][i] = buffer[u][i]
  BY <1>1, <1>2 DEF RangeInv, RangeTypes
<1>7. \A p \in Part : buffer'[t][s][p] = IF p = q THEN g ELSE buffer[t][s][p]
  BY <1>1, <1>2 DEF RangeInv, RangeTypes
<1>8. PublishedWhole'
  <2> SUFFICES ASSUME NEW u \in Tof
               PROVE  buffer'[u][Slot(generation[u])] = buffer[u][Slot(generation[u])]
    BY <1>2 DEF RangeInv, PublishedWhole
  <2>1. Slot(generation[u]) \in 0 .. 1
    BY Slots DEF RangeInv, RangeTypes
  <2>2. QED BY <1>1, <1>6, <2>1
<1>9. WrittenWhole'
  <2>1. reading'.tof = t /\ reading'.todo = reading.todo \ {q} /\ generation' = generation
    BY <1>2 DEF RangeInv, RangeTypes
  <2>2. \A p \in Part \ reading'.todo : buffer'[t][s][p] = g
    BY <1>2, <1>7, <2>1 DEF RangeInv, WrittenWhole, s, g
  <2>3. QED BY <2>1, <2>2 DEF WrittenWhole, s, g
<1>10. ASSUME proc.pc = "copy"
       PROVE  buffer'[proc.tof][Slot(proc.seen)] = buffer[proc.tof][Slot(proc.seen)]
  <2>1. proc.tof \in Tof /\ Slot(proc.seen) \in 0 .. 1
    BY Slots DEF RangeInv, RangeTypes
  <2>2. slot_state[proc.tof][Slot(proc.seen)] = "reading"
    BY <1>10 DEF RangeInv, CopierOwns
  <2>3. QED BY <1>3, <1>6, <2>1, <2>2
<1>11. UNCHANGED <<proc, result, cache>>
  BY <1>2
<1>12. proc.pc = "copy" => UNCHANGED buffer[proc.tof][Slot(proc.seen)]
  BY <1>10, <1>11
<1>13. QED BY <1>4, <1>5, <1>8, <1>9, <1>11, <1>12, ReaderOnly

(* Freeing the slot the reader owns leaves the one that is copied.         *)
LEMMA FreedSlot ==
  ASSUME RangeInv, NEW t \in Tof, NEW s \in 0 .. 1, slot_state[t][s] = "writing",
         slot_state' = [slot_state EXCEPT ![t][s] = "free"], UNCHANGED proc
  PROVE  /\ slot_state' \in [Tof -> [0 .. 1 -> {"free", "writing", "reading"}]]
         /\ CopierOwns'
<1>1. slot_state' \in [Tof -> [0 .. 1 -> {"free", "writing", "reading"}]]
  BY DEF RangeInv, RangeTypes
<1>2. ASSUME proc.pc \in {"stable", "copy"}
      PROVE  slot_state'[proc.tof][Slot(proc.seen)] = "reading"
  <2>1. proc.tof \in Tof /\ Slot(proc.seen) \in 0 .. 1
    BY Slots DEF RangeInv, RangeTypes
  <2>2. slot_state[proc.tof][Slot(proc.seen)] = "reading"
    BY <1>2 DEF RangeInv, CopierOwns
  <2>3. QED BY <2>1, <2>2 DEF RangeInv, RangeTypes
<1>3. QED BY <1>1, <1>2 DEF CopierOwns

LEMMA ReadFailsStep == RangeInv /\ ReadFails => RangeInv'
<1> SUFFICES ASSUME RangeInv, ReadFails
             PROVE  RangeInv'
  OBVIOUS
<1> DEFINE t == reading.tof
           s == Slot(NextGeneration(t))
<1>1. t \in Tof /\ s \in 0 .. 1
  BY Slots DEF RangeInv, RangeTypes
<1>2. /\ reading.pc = "read" /\ slot_state' = [slot_state EXCEPT ![t][s] = "free"]
      /\ reading' = NoReading
      /\ UNCHANGED <<generation, buffer, proc, result, cache>>
  BY DEF ReadFails, Claimed, procVars
<1>3. slot_state[t][s] = "writing"
  BY <1>2 DEF RangeInv, WriterOwns
<1> HIDE DEF s, t
<1>4. slot_state' \in [Tof -> [0 .. 1 -> {"free", "writing", "reading"}]] /\ CopierOwns'
  BY <1>1, <1>2, <1>3, FreedSlot
<1>5. RangeTypes'
  BY <1>2, <1>4 DEF RangeInv, RangeTypes, NoReading, Tof
<1>6. WriterOwns' /\ PublishedWhole' /\ WrittenWhole'
  BY <1>2 DEF RangeInv, WriterOwns, PublishedWhole, WrittenWhole, NoReading
<1>7. QED BY <1>2, <1>4, <1>5, <1>6, ReaderOnly

LEMMA ReadFreesStep == RangeInv /\ ReadFrees => RangeInv'
<1> SUFFICES ASSUME RangeInv, ReadFrees
             PROVE  RangeInv'
  OBVIOUS
<1> DEFINE t == reading.tof
           s == Slot(generation[t])
<1>1. t \in Tof /\ s \in 0 .. 1
  BY Slots DEF RangeInv, RangeTypes
<1>2. /\ reading.pc = "free" /\ slot_state' = [slot_state EXCEPT ![t][s] = "free"]
      /\ reading' = [reading EXCEPT !.pc = "notify"]
      /\ UNCHANGED <<generation, buffer, proc, result, cache>>
  BY DEF ReadFrees, Claimed, procVars
<1>3. slot_state[t][s] = "writing"
  BY <1>2 DEF RangeInv, WriterOwns
<1> HIDE DEF s, t
<1>4. slot_state' \in [Tof -> [0 .. 1 -> {"free", "writing", "reading"}]] /\ CopierOwns'
  BY <1>1, <1>2, <1>3, FreedSlot
<1>5. RangeTypes'
  BY <1>2, <1>4 DEF RangeInv, RangeTypes
<1>6. reading'.pc = "notify"
  BY <1>2 DEF RangeInv, RangeTypes
<1>7. WriterOwns' /\ PublishedWhole' /\ WrittenWhole'
  BY <1>2, <1>6 DEF RangeInv, WriterOwns, PublishedWhole, WrittenWhole
<1>8. QED BY <1>2, <1>4, <1>5, <1>7, ReaderOnly

LEMMA ReadPublishesStep == RangeInv /\ ReadPublishes => RangeInv'
<1> SUFFICES ASSUME RangeInv, ReadPublishes
             PROVE  RangeInv'
  OBVIOUS
<1> DEFINE t == reading.tof
           g == generation[t] + 1
<1>1. t \in Tof /\ g \in Nat
  BY DEF RangeInv, RangeTypes
<1>2. /\ reading.pc = "read" /\ reading.todo = {}
      /\ generation' = [generation EXCEPT ![t] = g]
      /\ reading' = [reading EXCEPT !.pc = "free"]
      /\ UNCHANGED <<slot_state, buffer, proc, result, cache>>
  BY DEF ReadPublishes, procVars
<1>3. /\ reading'.pc = "free" /\ reading'.tof = t
      /\ generation'[t] = g /\ \A u \in Tof \ {t} : generation'[u] = generation[u]
  BY <1>1, <1>2 DEF RangeInv, RangeTypes
<1>4. slot_state[t][Slot(g)] = "writing" /\ \A p \in Part : buffer[t][Slot(g)][p] = g
  BY <1>2 DEF RangeInv, WriterOwns, WrittenWhole
<1> HIDE DEF g, t
<1>5. RangeTypes'
  BY <1>1, <1>2 DEF RangeInv, RangeTypes
<1>6. WriterOwns' /\ WrittenWhole'
  BY <1>2, <1>3, <1>4 DEF WriterOwns, WrittenWhole
<1>7. PublishedWhole'
  <2> SUFFICES ASSUME NEW u \in Tof, generation'[u] # 0, NEW p \in Part
               PROVE  buffer[u][Slot(generation'[u])][p] = generation'[u]
    BY <1>2 DEF PublishedWhole
  <2>1. CASE u = t
    BY <1>3, <1>4, <2>1
  <2>2. CASE u # t
    BY <1>3, <2>2 DEF RangeInv, PublishedWhole
  <2>3. QED BY <2>1, <2>2
<1>8. CopierOwns'
  BY <1>2 DEF RangeInv, CopierOwns
<1>9. QED BY <1>2, <1>5, <1>6, <1>7, <1>8, ReaderOnly

LEMMA ReadNotifiesStep == RangeInv /\ ReadNotifies => RangeInv'
<1> SUFFICES ASSUME RangeInv, ReadNotifies
             PROVE  RangeInv'
  OBVIOUS
<1>1. reading' = NoReading /\ UNCHANGED <<slot_state, generation, buffer, proc, result, cache>>
  BY DEF ReadNotifies, channelVars, procVars
<1>2. RangeTypes'
  BY <1>1 DEF RangeInv, RangeTypes, NoReading, Tof
<1>3. WriterOwns' /\ CopierOwns' /\ PublishedWhole' /\ WrittenWhole'
  BY <1>1 DEF RangeInv, WriterOwns, CopierOwns, PublishedWhole, WrittenWhole, NoReading
<1>4. QED BY <1>1, <1>2, <1>3, ReaderOnly

-------------------------------------------------------------------------------
(***************************************************************************)
(* The processor: it leaves the channels alone but for the slot it claims. *)
(***************************************************************************)
LEMMA ProcOnly ==
  ASSUME RangeInv, UNCHANGED <<slot_state, generation, buffer, reading>>,
         RangeTypes', CopierOwns', CopiedWhole', FramesWhole'
  PROVE  RangeInv'
  BY DEF RangeInv, WriterOwns, PublishedWhole, WrittenWhole

LEMMA ProcMovesStep ==
  ASSUME RangeInv, ProcStarts \/ ProcLooks \/ ProcWakes
  PROVE  RangeInv'
<1>1. UNCHANGED <<slot_state, generation, buffer, reading, result, cache>>
  BY DEF ProcStarts, ProcLooks, ProcWakes, channelVars, readVars
<1>2. RangeTypes'
  BY <1>1 DEF RangeInv, RangeTypes, ProcStarts, ProcLooks, ProcWakes, Tof
<1>3. proc'.pc \in {"look", "wait", "claim"} /\ (proc'.pc = "claim" => proc'.seen # 0)
  BY DEF RangeInv, RangeTypes, ProcStarts, ProcLooks, ProcWakes, Fresh
<1>4. CopierOwns' /\ CopiedWhole'
  BY <1>3 DEF CopierOwns, CopiedWhole
<1>5. FramesWhole'
  BY <1>1 DEF RangeInv, FramesWhole, Shown
<1>6. QED BY <1>1, <1>2, <1>4, <1>5, ProcOnly

(* Claiming or releasing its slot leaves the reader's.                     *)
LEMMA ClaimsSlot ==
  ASSUME RangeInv, NEW t \in Tof, NEW s \in 0 .. 1, slot_state[t][s] # "writing",
         NEW who \in {"free", "reading"},
         slot_state' = [slot_state EXCEPT ![t][s] = who],
         UNCHANGED <<generation, buffer, reading, cache>>,
         proc' \in [pc : {"start", "look", "claim", "stable", "copy", "store", "wait"}, tof : Tof, seen : Nat, todo : SUBSET Part],
         result' \in [Part -> Nat],
         CopierOwns', CopiedWhole'
  PROVE  RangeInv'
<1>1. slot_state' \in [Tof -> [0 .. 1 -> {"free", "writing", "reading"}]]
  BY DEF RangeInv, RangeTypes
<1>2. RangeTypes'
  BY <1>1 DEF RangeInv, RangeTypes
<1>3. ASSUME NEW u \in Tof, NEW i \in 0 .. 1, slot_state[u][i] = "writing"
      PROVE  slot_state'[u][i] = "writing"
  BY <1>3 DEF RangeInv, RangeTypes
<1>4. WriterOwns'
  <2>1. /\ reading.tof \in Tof
        /\ Slot(NextGeneration(reading.tof)) \in 0 .. 1 /\ Slot(generation[reading.tof]) \in 0 .. 1
    BY Slots DEF RangeInv, RangeTypes
  <2>2. QED BY <1>3, <2>1 DEF RangeInv, WriterOwns
<1>5. PublishedWhole' /\ WrittenWhole' /\ FramesWhole'
  BY DEF RangeInv, PublishedWhole, WrittenWhole, FramesWhole, Shown
<1>6. QED BY <1>2, <1>4, <1>5 DEF RangeInv

LEMMA ProcClaimsStep == RangeInv /\ ProcClaims => RangeInv'
<1> SUFFICES ASSUME RangeInv, ProcClaims
             PROVE  RangeInv'
  OBVIOUS
<1> DEFINE t == proc.tof
           s == Slot(proc.seen)
<1>1. t \in Tof /\ s \in 0 .. 1 /\ proc.pc = "claim" /\ proc.seen # 0
  BY Slots DEF RangeInv, RangeTypes, ProcClaims, CopiedWhole
<1>2. UNCHANGED <<generation, buffer, reading, result, cache>>
  BY DEF ProcClaims, readVars
<1>3. CASE slot_state[t][s] = "free"
  <2>1. proc' = [proc EXCEPT !.pc = "stable"] /\ slot_state' = [slot_state EXCEPT ![t][s] = "reading"]
    BY <1>3 DEF ProcClaims, Claimed
  <2>2. proc'.pc = "stable" /\ proc'.tof = t /\ proc'.seen = proc.seen
    BY <2>1 DEF RangeInv, RangeTypes
  <2>3. CopierOwns' /\ CopiedWhole'
    BY <1>1, <2>1, <2>2 DEF RangeInv, RangeTypes, CopierOwns, CopiedWhole
  <2>4. proc' \in [pc : {"start", "look", "claim", "stable", "copy", "store", "wait"}, tof : Tof, seen : Nat, todo : SUBSET Part]
        /\ result' \in [Part -> Nat]
    BY <1>2, <2>1 DEF RangeInv, RangeTypes
  <2> HIDE DEF s, t
  <2>5. QED BY <1>1, <1>2, <1>3, <2>1, <2>3, <2>4, ClaimsSlot
<1>4. CASE slot_state[t][s] # "free"
  <2>1. proc' = [proc EXCEPT !.pc = "look"] /\ UNCHANGED slot_state
    BY <1>4 DEF ProcClaims
  <2>2. proc'.pc = "look" /\ RangeTypes'
    BY <1>2, <2>1 DEF RangeInv, RangeTypes
  <2>3. CopierOwns' /\ CopiedWhole' /\ FramesWhole'
    BY <1>2, <2>2 DEF RangeInv, CopierOwns, CopiedWhole, FramesWhole, Shown
  <2>4. QED BY <1>2, <2>1, <2>2, <2>3, ProcOnly
<1>5. QED BY <1>3, <1>4

LEMMA ProcChecksStep == RangeInv /\ ProcChecks => RangeInv'
<1> SUFFICES ASSUME RangeInv, ProcChecks
             PROVE  RangeInv'
  OBVIOUS
<1> DEFINE t == proc.tof
           s == Slot(proc.seen)
<1>1. t \in Tof /\ s \in 0 .. 1 /\ proc.pc = "stable" /\ proc.seen # 0 /\ slot_state[t][s] = "reading"
  BY Slots DEF RangeInv, RangeTypes, ProcChecks, CopiedWhole, CopierOwns
<1>2. UNCHANGED <<generation, buffer, reading, result, cache>>
  BY DEF ProcChecks, readVars
<1>3. CASE generation[t] = proc.seen
  <2>1. proc' = [proc EXCEPT !.pc = "copy", !.todo = Part] /\ UNCHANGED slot_state
    BY <1>3 DEF ProcChecks, StillPublished
  <2>2. proc'.pc = "copy" /\ proc'.tof = t /\ proc'.seen = proc.seen /\ proc'.todo = Part /\ RangeTypes'
    BY <1>2, <2>1 DEF RangeInv, RangeTypes
  <2>3. \A p \in Part : buffer[t][s][p] = proc.seen
    BY <1>1, <1>3 DEF RangeInv, PublishedWhole
  <2>4. CopierOwns' /\ CopiedWhole'
    BY <1>1, <1>2, <2>1, <2>2, <2>3 DEF CopierOwns, CopiedWhole
  <2>5. FramesWhole'
    BY <1>2 DEF RangeInv, FramesWhole, Shown
  <2>6. QED BY <1>2, <2>1, <2>2, <2>4, <2>5, ProcOnly
<1>4. CASE generation[t] # proc.seen
  <2>1. proc' = [proc EXCEPT !.pc = "look", !.todo = {}] /\ slot_state' = [slot_state EXCEPT ![t][s] = "free"]
    BY <1>4 DEF ProcChecks, StillPublished, Claimed
  <2>2. proc'.pc = "look"
        /\ proc' \in [pc : {"start", "look", "claim", "stable", "copy", "store", "wait"}, tof : Tof, seen : Nat, todo : SUBSET Part]
        /\ result' \in [Part -> Nat]
    BY <1>2, <2>1 DEF RangeInv, RangeTypes
  <2>3. CopierOwns' /\ CopiedWhole'
    BY <2>2 DEF CopierOwns, CopiedWhole
  <2> HIDE DEF s, t
  <2>4. QED BY <1>1, <1>2, <2>1, <2>2, <2>3, ClaimsSlot
<1>5. QED BY <1>3, <1>4

LEMMA ProcCopiesStep ==
  ASSUME RangeInv, NEW q \in Part, ProcCopies(q)
  PROVE  RangeInv'
<1>1. /\ proc.pc = "copy" /\ result' = [result EXCEPT ![q] = buffer[proc.tof][Slot(proc.seen)][q]]
      /\ proc' = [proc EXCEPT !.todo = @ \ {q}]
      /\ UNCHANGED <<slot_state, generation, buffer, reading, cache>>
  BY DEF ProcCopies, channelVars, readVars
<1>2. buffer[proc.tof][Slot(proc.seen)][q] = proc.seen
  BY <1>1 DEF RangeInv, CopiedWhole
<1>3. proc'.pc = "copy" /\ proc'.tof = proc.tof /\ proc'.seen = proc.seen /\ proc'.todo = proc.todo \ {q}
  BY <1>1 DEF RangeInv, RangeTypes
<1>4. RangeTypes'
  BY <1>1, <1>2 DEF RangeInv, RangeTypes
<1>5. \A p \in Part : result'[p] = IF p = q THEN proc.seen ELSE result[p]
  BY <1>1, <1>2 DEF RangeInv, RangeTypes
<1>6. CopierOwns' /\ CopiedWhole'
  BY <1>1, <1>3, <1>5 DEF RangeInv, CopierOwns, CopiedWhole
<1>7. FramesWhole'
  BY <1>1 DEF RangeInv, FramesWhole, Shown
<1>8. QED BY <1>1, <1>4, <1>6, <1>7, ProcOnly

LEMMA ProcReleasesStep == RangeInv /\ ProcReleases => RangeInv'
<1> SUFFICES ASSUME RangeInv, ProcReleases
             PROVE  RangeInv'
  OBVIOUS
<1> DEFINE t == proc.tof
           s == Slot(proc.seen)
<1>1. /\ t \in Tof /\ s \in 0 .. 1 /\ proc.pc = "copy" /\ proc.todo = {}
      /\ slot_state[t][s] = "reading"
  BY Slots DEF RangeInv, RangeTypes, ProcReleases, CopierOwns
<1>2. /\ slot_state' = [slot_state EXCEPT ![t][s] = "free"] /\ proc' = [proc EXCEPT !.pc = "store"]
      /\ UNCHANGED <<generation, buffer, reading, result, cache>>
  BY DEF ProcReleases, Claimed, readVars
<1>3. proc'.pc = "store" /\ proc'.seen = proc.seen
      /\ proc' \in [pc : {"start", "look", "claim", "stable", "copy", "store", "wait"}, tof : Tof, seen : Nat, todo : SUBSET Part]
      /\ result' \in [Part -> Nat]
  BY <1>2 DEF RangeInv, RangeTypes
<1>4. CopierOwns' /\ CopiedWhole'
  BY <1>1, <1>2, <1>3 DEF RangeInv, CopierOwns, CopiedWhole
<1> HIDE DEF s, t
<1>5. QED BY <1>1, <1>2, <1>3, <1>4, ClaimsSlot

LEMMA ProcStoresStep == RangeInv /\ ProcStores => RangeInv'
<1> SUFFICES ASSUME RangeInv, ProcStores
             PROVE  RangeInv'
  OBVIOUS
<1>1. /\ proc.pc = "store" /\ proc.tof \in Tof /\ proc' = [proc EXCEPT !.pc = "look"]
      /\ cache' = [cache EXCEPT ![proc.tof] = [generation |-> proc.seen, frame |-> result]]
      /\ UNCHANGED <<slot_state, generation, buffer, reading, result>>
  BY DEF ProcStores, channelVars, readVars, RangeInv, RangeTypes
<1>2. RangeTypes' /\ proc'.pc = "look"
  BY <1>1 DEF RangeInv, RangeTypes
<1>3. CopierOwns' /\ CopiedWhole'
  BY <1>2 DEF CopierOwns, CopiedWhole
<1>4. \A p \in Part : result[p] = proc.seen
  BY <1>1 DEF RangeInv, CopiedWhole
<1>5. FramesWhole'
  BY <1>1, <1>4 DEF RangeInv, RangeTypes, FramesWhole, Shown
<1>6. QED BY <1>1, <1>2, <1>3, <1>5, ProcOnly

LEMMA RangeStep == RangeInv /\ [RangingNext]_rangingVars => RangeInv'
<1>1. RangeInv /\ (Tick \/ UNCHANGED rangingVars) => RangeInv'
  BY RangeStill DEF Tick, rangingVars, channelVars, readVars, procVars
<1>2. QED BY <1>1, ReadClaimsStep, ReadPartStep, ReadFailsStep, ReadPublishesStep, ReadFreesStep,
             ReadNotifiesStep, ProcMovesStep, ProcClaimsStep, ProcChecksStep, ProcCopiesStep,
             ProcReleasesStep, ProcStoresStep
          DEF RangingNext, ReadStep, ProcStep

(* A frame in the cache is one frame, and the one whose generation stands  *)
(* beside it, for any number of frames (tof_result_copy, task_tof_read).   *)
THEOREM CachedFramesWhole == RangingSpec => []FramesWhole
  BY RangeInit, RangeStep, PTL DEF RangingSpec, RangeInv

-------------------------------------------------------------------------------
(***************************************************************************)
(* The GPS.                                                                *)
(***************************************************************************)

EventKind == {"data", "full"}
GpsPc == {"wait", "read", "first", "second"}
Entry == [authority : Authority, valid : BOOLEAN]
Freshness == [ubx : BOOLEAN, fix : BOOLEAN]

(* The type invariant with these names, and without the bounds.            *)
GpsTypes ==
  /\ ring \in Seq(Piece) /\ events \in Seq(EventKind)
  /\ gps_pc \in GpsPc /\ parser \in {"clear", "begun"}
  /\ entry \in Entry /\ fresh \in Freshness

GpsBounds == Len(ring) <= RingSize /\ Len(events) <= EventQueueLen

LEMMA GpsTypeParts == GpsTypeOK <=> GpsTypes /\ GpsBounds
  BY DEF GpsTypeOK, GpsTypes, GpsBounds, EventKind, GpsPc, Entry, Freshness

LEMMA TailType ==
  ASSUME NEW S, NEW s \in Seq(S), s # << >>
  PROVE  /\ Tail(s) \in Seq(S) /\ Len(Tail(s)) = Len(s) - 1
         /\ Head(s) \in S
  OBVIOUS

LEMMA AppendType ==
  ASSUME NEW S, NEW s \in Seq(S), NEW x \in S
  PROVE  /\ Append(s, x) \in Seq(S) /\ Len(Append(s, x)) = Len(s) + 1
         /\ \A j \in 1 .. Len(s) : Append(s, x)[j] = s[j]
         /\ Append(s, x)[Len(s) + 1] = x
  OBVIOUS

LEMMA EmptyType == ASSUME NEW S PROVE << >> \in Seq(S) /\ Len(<< >>) = 0
  OBVIOUS

LEMMA GpsTypeInit == GpsInit => GpsTypeOK
  BY GpsAssumption DEF GpsInit, GpsTypeOK, Authority

LEMMA PostType ==
  ASSUME GpsTypeOK, NEW e \in EventKind, Post(e)
  PROVE  events' \in Seq(EventKind) /\ Len(events') <= EventQueueLen
<1>1. events \in Seq(EventKind) /\ Len(events) \in Nat /\ EventQueueLen \in Nat
  BY GpsAssumption DEF GpsTypeOK, EventKind
<1>2. Append(events, e) \in Seq(EventKind) /\ Len(Append(events, e)) = Len(events) + 1
  BY <1>1
<1>3. CASE Len(events) < EventQueueLen
  BY <1>1, <1>2, <1>3 DEF Post
<1>4. CASE ~(Len(events) < EventQueueLen)
  BY <1>1, <1>4 DEF Post, GpsTypeOK
<1>5. QED BY <1>3, <1>4

LEMMA GpsTypeStep == GpsTypeOK /\ [GpsNext]_gpsVars => GpsTypeOK'
<1> SUFFICES ASSUME GpsTypeOK, [GpsNext]_gpsVars
             PROVE  GpsTypeOK'
  OBVIOUS
<1>0. GpsTypes /\ GpsBounds /\ RingSize \in Nat /\ EventQueueLen \in Nat
  BY GpsTypeParts, GpsAssumption
<1> SUFFICES GpsTypes' /\ GpsBounds'
  BY DEF GpsTypeOK, GpsTypes, GpsBounds, EventKind, GpsPc, Entry, Freshness
<1>1. ASSUME NEW p \in Piece, UartReceives(p)
      PROVE  GpsTypes' /\ GpsBounds'
  <2>1. events' \in Seq(EventKind) /\ Len(events') <= EventQueueLen
    BY <1>1, PostType DEF UartReceives, EventKind
  <2>2. ring' \in Seq(Piece) /\ Len(ring') <= RingSize
    <3>1. CASE Len(ring) < RingSize
      <4>1. ring' = Append(ring, p)
        BY <1>1, <3>1 DEF UartReceives
      <4>2. ring \in Seq(Piece) /\ Len(ring) \in Nat
        BY <1>0 DEF GpsTypes
      <4>3. Append(ring, p) \in Seq(Piece) /\ Len(Append(ring, p)) = Len(ring) + 1
        BY <1>1, <4>2, AppendType
      <4>4. QED BY <1>0, <3>1, <4>1, <4>2, <4>3
    <3>2. CASE ~(Len(ring) < RingSize)
      BY <1>0, <1>1, <3>2 DEF UartReceives, GpsTypes, GpsBounds
    <3>3. QED BY <3>1, <3>2
  <2>3. QED BY <1>0, <1>1, <2>1, <2>2 DEF UartReceives, GpsTypes, GpsBounds
<1>2. ASSUME NEW what \in {"ubx", "fix"}, Ages(what)
      PROVE  GpsTypes' /\ GpsBounds'
  <2>1. fresh' \in Freshness
    BY <1>0, <1>2 DEF Ages, GpsTypes, Freshness
  <2>2. QED BY <1>0, <1>2, <2>1 DEF Ages, GpsTypes, GpsBounds
<1>3. CASE DataEvent \/ FullEvent
  <2>1. events # << >> /\ events' = Tail(events) /\ gps_pc' \in GpsPc
        /\ UNCHANGED <<ring, parser, entry, fresh>>
    BY <1>3 DEF DataEvent, FullEvent, TakeEvent, GpsPc
  <2>2. events' \in Seq(EventKind) /\ Len(events') <= EventQueueLen
    BY <1>0, <2>1, TailType DEF GpsTypes, GpsBounds
  <2>3. QED BY <1>0, <2>1, <2>2 DEF GpsTypes, GpsBounds
<1>4. CASE ReadAvailable
  <2>1. PICK f \in Piece, places \in BOOLEAN, valid \in BOOLEAN :
          entry' = AfterFrame(f, places, valid) /\ fresh' = Freshened(f, places)
    BY <1>0, <1>4, TailType DEF ReadAvailable, Parsed, GpsTypes, Piece
  <2>2. entry' \in Entry
    BY <1>0, <2>1 DEF AfterFrame, MarkAlive, Sentence, GpsTypes, Entry, Authority
  <2>3. fresh' \in Freshness
    BY <1>0, <2>1 DEF Freshened, GpsTypes, Freshness
  <2>4. ring' \in Seq(Piece) /\ Len(ring') <= RingSize
    BY <1>0, <1>4, TailType DEF ReadAvailable, GpsTypes, GpsBounds
  <2>5. QED BY <1>0, <1>4, <2>2, <2>3, <2>4 DEF ReadAvailable, GpsTypes, GpsBounds, GpsPc
<1>5. CASE RecoveryBegins \/ RecoveryEnds
  <2>1. << >> \in Seq(Piece) /\ << >> \in Seq(EventKind) /\ Len(<< >>) = 0
    BY EmptyType
  <2>2. ring' \in {ring, << >>} /\ events' \in {events, << >>}
    BY <1>5 DEF RecoveryBegins, RecoveryEnds, Recovery, FlushInput, ResetQueue
  <2>a. ring' \in Seq(Piece) /\ Len(ring') <= RingSize
    <3>1. CASE ring' = ring
      BY <1>0, <3>1 DEF GpsTypes, GpsBounds
    <3>2. CASE ring' = << >>
      BY <1>0, <2>1, <3>2
    <3>3. QED BY <2>2, <3>1, <3>2
  <2>b. events' \in Seq(EventKind) /\ Len(events') <= EventQueueLen
    <3>1. CASE events' = events
      BY <1>0, <3>1 DEF GpsTypes, GpsBounds
    <3>2. CASE events' = << >>
      BY <1>0, <2>1, <3>2
    <3>3. QED BY <2>2, <3>1, <3>2
  <2>3. GpsBounds' /\ ring' \in Seq(Piece) /\ events' \in Seq(EventKind)
    BY <2>a, <2>b DEF GpsBounds
  <2>4. gps_pc' \in GpsPc /\ parser' \in {"clear", "begun"} /\ UNCHANGED <<entry, fresh>>
    BY <1>0, <1>5 DEF RecoveryBegins, RecoveryEnds, GpsPc, GpsTypes
  <2>5. QED BY <1>0, <2>3, <2>4 DEF GpsTypes
<1>6. CASE UNCHANGED gpsVars
  BY <1>0, <1>6 DEF gpsVars, GpsTypes, GpsBounds
<1>7. QED BY <1>1, <1>2, <1>3, <1>4, <1>5, <1>6 DEF GpsNext

-------------------------------------------------------------------------------
(***************************************************************************)
(* Why a read never waits: the data events up to the first full one are    *)
(* covered by bytes in the ring, the one that is being read included.      *)
(* What stands behind a full event goes with it.                           *)
(***************************************************************************)
Reading == IF gps_pc = "read" THEN 1 ELSE 0

Announced ==
  gps_pc \in {"wait", "read"} =>
    \A i \in 0 .. Len(events) :
      (\A j \in 1 .. i : events[j] = "data") => i + Reading <= Len(ring)

LEMMA AnnouncedStep ==
  ASSUME GpsTypeOK, Announced, [GpsNext]_gpsVars
  PROVE  Announced'
<1>0. /\ ring \in Seq(Piece) /\ Len(ring) \in Nat /\ Len(ring) <= RingSize /\ RingSize \in Nat
      /\ events \in Seq(EventKind) /\ Len(events) \in Nat
  BY GpsAssumption DEF GpsTypeOK, EventKind
<1>1. ASSUME NEW p \in Piece, UartReceives(p)
      PROVE  Announced'
  <2> SUFFICES ASSUME gps_pc \in {"wait", "read"}, NEW i \in 0 .. Len(events'),
                      \A j \in 1 .. i : events'[j] = "data"
               PROVE  i + Reading <= Len(ring')
    BY <1>1 DEF Announced, UartReceives, Reading
  <2>1. CASE i <= Len(events)
    <3>1. \A j \in 1 .. i : events[j] = "data"
      <4>1. \A e \in EventKind : \A j \in 1 .. Len(events) : Append(events, e)[j] = events[j]
        BY <1>0, AppendType
      <4>2. PICK e \in EventKind : events' \in {events, Append(events, e)}
        BY <1>1 DEF UartReceives, Post, EventKind
      <4>3. \A j \in 1 .. i : j \in 1 .. Len(events)
        BY <1>0, <2>1
      <4>4. \A j \in 1 .. i : events'[j] = events[j]
        BY <4>1, <4>2, <4>3
      <4>5. QED BY <4>4
    <3>2. i + Reading <= Len(ring)
      BY <1>0, <2>1, <3>1 DEF Announced
    <3>3. Len(ring) <= Len(ring')
      BY <1>0, <1>1 DEF UartReceives
    <3>4. QED BY <1>0, <1>1, <3>2, <3>3 DEF Reading, UartReceives
  <2>2. CASE i > Len(events)
    <3>1. i = Len(events) + 1 /\ events'[i] = "data"
      BY <1>0, <1>1, <2>2 DEF UartReceives, Post
    <3>2. events' = Append(events, "data") /\ ring' = Append(ring, p)
      BY <1>0, <1>1, <2>2, <3>1 DEF UartReceives, Post
    <3>3. \A j \in 1 .. Len(events) : events[j] = "data"
      BY <1>0, <3>1, <3>2
    <3>4. Len(events) + Reading <= Len(ring)
      BY <1>0, <3>3 DEF Announced
    <3>5. QED BY <1>0, <1>1, <3>1, <3>2, <3>4 DEF Reading, UartReceives
  <2>3. QED BY <1>0, <2>1, <2>2
<1>2. ASSUME NEW what \in {"ubx", "fix"}, Ages(what)
      PROVE  Announced'
  BY <1>2 DEF Ages, Announced, Reading
<1>3. CASE DataEvent
  <2> SUFFICES ASSUME NEW i \in 0 .. Len(events'), \A j \in 1 .. i : events'[j] = "data"
               PROVE  i + 1 <= Len(ring)
    BY <1>3 DEF Announced, DataEvent, TakeEvent, Reading
  <2>1. /\ events # << >> /\ events[1] = "data" /\ events' = Tail(events) /\ gps_pc = "wait"
    BY <1>0, <1>3 DEF DataEvent, TakeEvent
  <2>2. /\ Len(events') = Len(events) - 1
        /\ \A j \in 1 .. Len(events') : events'[j] = events[j + 1]
    BY <1>0, <2>1
  <2>3. \A j \in 1 .. i + 1 : events[j] = "data"
    <3> TAKE j \in 1 .. i + 1
    <3>1. CASE j = 1
      BY <2>1, <3>1
    <3>2. CASE j # 1
      <4>1. j - 1 \in 1 .. i /\ j - 1 \in 1 .. Len(events')
        BY <1>0, <2>2, <3>2
      <4>2. events'[j - 1] = events[j]
        BY <1>0, <2>2, <4>1
      <4>3. QED BY <4>1, <4>2
    <3>3. QED BY <3>1, <3>2
  <2>4. i + 1 \in 0 .. Len(events)
    BY <1>0, <2>2
  <2>5. QED BY <1>0, <2>1, <2>3, <2>4 DEF Announced, Reading
<1>4. CASE ReadAvailable
  <2> SUFFICES ASSUME NEW i \in 0 .. Len(events), \A j \in 1 .. i : events[j] = "data"
               PROVE  i <= Len(ring')
    BY <1>0, <1>4 DEF Announced, ReadAvailable, Reading
  <2>1. i + 1 <= Len(ring) /\ ring' = Tail(ring) /\ ring # << >>
    BY <1>4 DEF Announced, ReadAvailable, Reading
  <2>2. QED BY <1>0, <2>1
<1>5. CASE FullEvent \/ RecoveryBegins
  BY <1>5 DEF FullEvent, TakeEvent, RecoveryBegins, Announced
<1>6. CASE RecoveryEnds
  BY <1>0, <1>6 DEF RecoveryEnds, Recovery, ResetQueue, Announced, Reading
<1>7. CASE UNCHANGED gpsVars
  BY <1>7 DEF gpsVars, Announced, Reading
<1>8. QED BY <1>1, <1>2, <1>3, <1>4, <1>5, <1>6, <1>7 DEF GpsNext

(* The GPS task never waits in the middle of a data event, for any sizes,  *)
(* although bytes arrive between its flush and its reset                   *)
(* (gps_uart_event_handle, gps_read_available).                            *)
THEOREM GpsReadNeverWaits == GpsSpec => []ReadNeverWaits
<1>1. GpsInit => Announced
  BY DEF GpsInit, Announced, Reading
<1>2. GpsTypeOK /\ Announced => ReadNeverWaits
  <2> SUFFICES ASSUME GpsTypeOK, Announced, gps_pc = "read"
               PROVE  ring # << >>
    BY DEF ReadNeverWaits
  <2>1. 0 \in 0 .. Len(events)
    BY DEF GpsTypeOK
  <2>2. 1 <= Len(ring)
    BY <2>1 DEF Announced, Reading
  <2>3. QED BY <2>2
<1>3. GpsTypeOK /\ Announced /\ [GpsNext]_gpsVars => Announced'
  BY AnnouncedStep
<1>4. QED BY <1>1, <1>2, <1>3, GpsTypeInit, GpsTypeStep, PTL DEF GpsSpec

-------------------------------------------------------------------------------
(* The compass calibration.                                                 *)

Record == [Field -> Nat]

(* The part of the type invariant the argument needs, without bounds.      *)
CalTypes ==
  /\ cal_run \in Nat
  /\ next_cal \in Record /\ live \in Record /\ stored \in Record
  /\ pending \in Record /\ fusion_cal \in Record
  /\ handing \subseteq Field /\ taking \subseteq Field
  /\ ready \in BOOLEAN /\ cal_active \in BOOLEAN /\ overdue \in BOOLEAN

(* A compass part is of the run the gyro part is of.                       *)
Whole(c) == c["compass"] \in {0, c["gyro"]}

(* What fusion corrects with, or is about to take, is what is in use, but  *)
(* for a hand-over given up: the run under way has written at most the     *)
(* parts it no longer has to write, and only while nothing waits for       *)
(* fusion, and fusion has copied the parts it no longer has to copy.       *)
HandOver ==
  /\ overdue \/ FusionRecord = live
  /\ taking # {} => ready
  /\ ready => \A f \in Field \ taking : taking # {} => fusion_cal[f] = pending[f]
  /\ cal_pc = "hand" => \A f \in Field \ handing : pending[f] = next_cal[f]
  /\ cal_pc = "hand" /\ handing # Field => ~ready

(* What is saved is what will be in use.                                   *)
Saved ==
  /\ cal_pc = "hand" => stored = next_cal
  /\ (cal_pc # "hand" /\ stored_valid) => live = stored

(* Runs are numbered upwards, and what is in use, in fusion or waiting for *)
(* it is of no later run than what is saved.                               *)
NotAhead ==
  /\ stored["gyro"] <= cal_run + 1
  /\ cal_pc \in {"spin", "judge", "save", "hand"} => next_cal["gyro"] = cal_run + 1
  /\ NothingUnsaved
  /\ ready => \A f \in Field : pending[f] <= stored["gyro"]

(* The parts of a run's record are of one run once it is saved.            *)
OneRun ==
  /\ taking = {} => Whole(fusion_cal)
  /\ ready => Whole(pending)
  /\ cal_pc \in {"save", "hand"} => Whole(next_cal)

CalInv == CalTypes /\ ClaimIsRun /\ HandOver /\ Saved /\ NotAhead /\ OneRun

LEMMA SameRecord ==
  ASSUME NEW a \in Record, NEW b \in Record, \A f \in Field : a[f] = b[f]
  PROVE  a = b
  BY DEF Record

LEMMA SameWhole ==
  ASSUME NEW a, NEW b, a = b, Whole(a)
  PROVE  Whole(b)
  OBVIOUS

LEMMA CalInit == CalibrationInit => CalInv
<1> SUFFICES ASSUME CalibrationInit
             PROVE  CalInv
  OBVIOUS
<1>1. BootCal \in Record /\ NoCal \in Record /\ Whole(BootCal) /\ Whole(NoCal)
  BY DEF BootCal, NoCal, Record, Field, Whole
<1>2. stored \in {BootCal, NoCal} /\ live = stored /\ fusion_cal = stored /\ next_cal = NoCal /\ pending = NoCal
  BY DEF CalibrationInit
<1>3. CalTypes
  BY <1>1, <1>2 DEF CalibrationInit, CalTypes
<1>4. ClaimIsRun
  BY DEF CalibrationInit, ClaimIsRun, Running
<1>5. HandOver /\ Saved
  BY <1>2 DEF CalibrationInit, HandOver, FusionRecord, Saved
<1>6. OneRun
  BY <1>1, <1>2 DEF CalibrationInit, OneRun, Whole
<1>7. NotAhead
  BY <1>2 DEF CalibrationInit, NotAhead, NothingUnsaved, BootCal, NoCal, Field
<1>8. QED BY <1>3, <1>4, <1>5, <1>6, <1>7 DEF CalInv

-------------------------------------------------------------------------------
(***************************************************************************)
(* The steps that leave the records and their hand-over alone.             *)
(***************************************************************************)
Plain ==
  \/ \E what \in {"start", "cancel"} : DashboardLooks(what)
  \/ DashboardAsks
  \/ StartTakenUp \/ Claims \/ ResultExpires \/ RefuseArmed \/ NotArmed
  \/ StillFails \/ SpinComplete \/ SaveFails

LEMMA PlainStep == CalInv /\ Plain => CalInv'
<1> SUFFICES ASSUME CalInv, Plain
             PROVE  CalInv'
  OBVIOUS
<1>1. UNCHANGED <<next_cal, live, stored, stored_valid, pending, ready, handing, overdue, fusion_cal, taking>>
  BY DEF Plain, DashboardLooks, DashboardAsks, StartTakenUp, Claims, ResultExpires, RefuseArmed,
         NotArmed, StillFails, SpinComplete, SaveFails, Unhanded, resultVars, takingVars, handoverVars
<1>2. /\ cal_pc' = "hand" <=> cal_pc = "hand"
      /\ cal_pc' \in {"save", "hand"} => cal_pc \in {"save", "hand"}
      /\ cal_pc' \in {"spin", "judge", "save", "hand"} =>
           cal_pc \in {"spin", "judge", "save", "hand"} /\ cal_run' = cal_run
  BY DEF Plain, DashboardLooks, DashboardAsks, StartTakenUp, Claims, ResultExpires, RefuseArmed,
         NotArmed, StillFails, SpinComplete, SaveFails, Enter
<1>a. \/ cal_active' = cal_active /\ (cal_pc' \in Running <=> cal_pc \in Running)
      \/ cal_active' = TRUE /\ cal_pc' \in Running
      \/ cal_active' = FALSE /\ cal_pc' \notin Running
  BY DEF Plain, DashboardLooks, DashboardAsks, StartTakenUp, Claims, ResultExpires, RefuseArmed,
         NotArmed, StillFails, SpinComplete, SaveFails, Enter, RefusedClaim, Running
<1>b. cal_run' \in {cal_run, cal_run + 1}
  BY DEF Plain, DashboardLooks, DashboardAsks, StartTakenUp, Claims, ResultExpires, RefuseArmed,
         NotArmed, StillFails, SpinComplete, SaveFails
<1>3. ClaimIsRun' /\ cal_active' \in BOOLEAN /\ cal_run' \in Nat
  <2>1. cal_run' \in Nat
    BY <1>b DEF CalInv, CalTypes
  <2>2. ClaimIsRun /\ cal_active \in BOOLEAN
    BY DEF CalInv, CalTypes
  <2>3. ClaimIsRun' /\ cal_active' \in BOOLEAN
    <3>1. CASE cal_active' = cal_active /\ (cal_pc' \in Running <=> cal_pc \in Running)
      BY <2>2, <3>1, Zenon DEF ClaimIsRun
    <3>2. CASE cal_active' = TRUE /\ cal_pc' \in Running
      BY <3>2 DEF ClaimIsRun
    <3>3. CASE cal_active' = FALSE /\ cal_pc' \notin Running
      BY <3>3 DEF ClaimIsRun
    <3>4. QED BY <1>a, <3>1, <3>2, <3>3
  <2>4. QED BY <2>1, <2>3
<1>4. CalTypes'
  BY <1>1, <1>3 DEF CalInv, CalTypes
<1>5. HandOver' /\ Saved'
  BY <1>1, <1>2 DEF CalInv, HandOver, FusionRecord, Saved
<1>6. OneRun'
  BY <1>1, <1>2 DEF CalInv, OneRun, Whole
<1>7. NotAhead'
  BY <1>1, <1>2, <1>b DEF CalInv, CalTypes, NotAhead, NothingUnsaved, Record, Field
<1>8. QED BY <1>3, <1>4, <1>5, <1>6, <1>7 DEF CalInv

(***************************************************************************)
(* The steps of a run that change its record and hand nothing over.        *)
(***************************************************************************)
Recorded == RunBegins \/ StillDone \/ SpinFails \/ FitPasses \/ RunEnds

LEMMA RecordedStep == CalInv /\ Recorded => CalInv'
<1> SUFFICES ASSUME CalInv, Recorded
             PROVE  CalInv'
  OBVIOUS
<1>1. UNCHANGED <<live, stored, stored_valid, pending, ready, handing, overdue, fusion_cal, taking>>
  BY DEF Recorded, RunBegins, StillDone, SpinFails, FitPasses, RunEnds, Unhanded, takingVars, handoverVars
<1>2. cal_pc # "hand" /\ cal_pc' # "hand"
  BY DEF Recorded, RunBegins, StillDone, SpinFails, FitPasses, RunEnds, Enter
<1>a. \/ cal_active' = cal_active /\ cal_pc' \in Running /\ cal_pc \in Running
      \/ cal_active' = FALSE /\ cal_pc' \notin Running
  BY DEF Recorded, RunBegins, StillDone, SpinFails, FitPasses, RunEnds, Enter, Running
<1>b. cal_run' \in {cal_run, cal_run + 1}
  BY DEF Recorded, RunBegins, StillDone, SpinFails, FitPasses, RunEnds
<1>3. ClaimIsRun' /\ cal_active' \in BOOLEAN /\ cal_run' \in Nat
  <2>1. cal_run' \in Nat
    BY <1>b DEF CalInv, CalTypes
  <2>2. ClaimIsRun /\ cal_active \in BOOLEAN
    BY DEF CalInv, CalTypes
  <2>3. ClaimIsRun' /\ cal_active' \in BOOLEAN
    BY <1>a, <2>2, Zenon DEF ClaimIsRun
  <2>4. QED BY <2>1, <2>3
<1>4. next_cal' \in Record
  BY DEF Recorded, RunBegins, StillDone, SpinFails, FitPasses, RunEnds, CalInv, CalTypes, Record, Field, NoCal, Number
<1>5. CalTypes'
  BY <1>1, <1>3, <1>4 DEF CalInv, CalTypes
<1>6. HandOver' /\ Saved'
  BY <1>1, <1>2 DEF CalInv, HandOver, FusionRecord, Saved
<1>7. OneRun'
  <2>1. (taking' = {} => Whole(fusion_cal)') /\ (ready' => Whole(pending)')
    BY <1>1 DEF CalInv, OneRun, Whole
  <2>2. cal_pc' \in {"save", "hand"} => Whole(next_cal')
    <3>1. CASE SpinFails
      BY <3>1 DEF SpinFails, Enter, CalInv, CalTypes, Record, Field, Whole
    <3>2. CASE FitPasses
      BY <3>2 DEF FitPasses, Enter, Number, CalInv, CalTypes, NotAhead, Record, Field, Whole
    <3>3. CASE RunBegins \/ StillDone \/ RunEnds
      BY <3>3 DEF RunBegins, StillDone, RunEnds, Enter
    <3>4. QED BY <3>1, <3>2, <3>3 DEF Recorded
  <2>3. QED BY <2>1, <2>2 DEF OneRun, Whole
<1>8. NotAhead'
  <2>1. cal_pc' \in {"spin", "judge", "save", "hand"} => next_cal'["gyro"] = cal_run' + 1
    BY DEF Recorded, RunBegins, StillDone, SpinFails, FitPasses, RunEnds, Enter, Number, CalInv, CalTypes,
           NotAhead, Record, Field
  <2>2. QED BY <1>1, <1>b, <2>1 DEF CalInv, CalTypes, NotAhead, NothingUnsaved, Record, Field
<1>9. QED BY <1>3, <1>5, <1>6, <1>7, <1>8 DEF CalInv

-------------------------------------------------------------------------------
(***************************************************************************)
(* Saving, and the hand-over to fusion.                                    *)
(***************************************************************************)
LEMMA SavesStep == CalInv /\ Saves => CalInv'
<1> SUFFICES ASSUME CalInv, Saves
             PROVE  CalInv'
  OBVIOUS
<1>1. /\ cal_pc = "save" /\ cal_pc' = "hand" /\ stored' = next_cal /\ handing' = Field
      /\ UNCHANGED <<cal_run, cal_active, next_cal, live, fusion_cal, taking, pending, ready, overdue>>
  BY DEF Saves, Enter, takingVars
<1>2. CalTypes' /\ Saved'
  BY <1>1 DEF CalInv, CalTypes, Saved
<1>3. cal_pc \in Running /\ cal_pc' \in Running
  BY <1>1 DEF Running
<1>4. ClaimIsRun'
  BY <1>1, <1>3 DEF CalInv, ClaimIsRun
<1>5. HandOver'
  BY <1>1 DEF CalInv, HandOver, FusionRecord
<1>6. OneRun'
  BY <1>1 DEF CalInv, OneRun, Whole
<1>7. NotAhead'
  <2>1. stored["gyro"] <= stored'["gyro"] /\ stored'["gyro"] = cal_run + 1
    BY <1>1 DEF CalInv, NotAhead
  <2>2. stored["gyro"] \in Nat /\ stored'["gyro"] \in Nat
        /\ \A f \in Field : live[f] \in Nat /\ fusion_cal[f] \in Nat /\ pending[f] \in Nat
    BY <1>2 DEF CalInv, CalTypes, Record, Field
  <2>3. QED BY <1>1, <2>1, <2>2 DEF CalInv, CalTypes, NotAhead, NothingUnsaved
<1>8. QED BY <1>2, <1>4, <1>5, <1>6, <1>7 DEF CalInv

LEMMA HandsOverStep ==
  ASSUME CalInv, NEW g \in Field, HandsOver(g)
  PROVE  CalInv'
<1>1. UNCHANGED <<cal_pc, cal_run, cal_active, next_cal, live, stored, stored_valid, ready, overdue, fusion_cal, taking>>
  BY DEF HandsOver, resultVars, takingVars
<1>2. /\ cal_pc = "hand" /\ ~ready /\ handing' = handing \ {g}
      /\ pending' = [pending EXCEPT ![g] = next_cal[g]]
  BY DEF HandsOver, PendingFree, CalInv, HandOver
<1>3. CalTypes'
  BY <1>1, <1>2 DEF CalInv, CalTypes, Record
<1>4. \A f \in Field \ handing' : pending'[f] = next_cal'[f]
  BY <1>1, <1>2 DEF CalInv, CalTypes, HandOver, Record
<1>5. HandOver'
  BY <1>1, <1>2, <1>4 DEF CalInv, HandOver, FusionRecord
<1>6. ClaimIsRun' /\ Saved' /\ OneRun'
  BY <1>1, <1>2 DEF CalInv, ClaimIsRun, Saved, OneRun, Whole
<1>7. NotAhead'
  BY <1>1, <1>2 DEF CalInv, NotAhead, NothingUnsaved
<1>8. QED BY <1>3, <1>5, <1>6, <1>7 DEF CalInv

(* What a run leaves when it comes to use its record, handed over or not.  *)
LEMMA AppliedStep ==
  ASSUME CalInv, cal_pc = "hand", Applied
  PROVE  /\ ClaimIsRun' /\ Saved' /\ NothingUnsaved'
         /\ live' = next_cal /\ live' \in Record
         /\ \A f \in Field : next_cal[f] <= stored["gyro"]
<1>1. /\ cal_pc' = "end" /\ live' = next_cal
      /\ UNCHANGED <<cal_run, cal_active, next_cal, stored, stored_valid, fusion_cal, taking, pending>>
  BY DEF Applied, Enter, takingVars
<1>2. stored = next_cal /\ next_cal \in Record /\ Whole(next_cal)
  BY DEF CalInv, CalTypes, Saved, OneRun
<1>3. \A f \in Field : next_cal[f] <= stored["gyro"]
  BY <1>2 DEF Record, Field, Whole
<1>4. NothingUnsaved'
  BY <1>1, <1>3 DEF CalInv, NotAhead, NothingUnsaved
<1>5. ClaimIsRun'
  BY <1>1 DEF CalInv, ClaimIsRun, Running
<1>6. QED BY <1>1, <1>2, <1>3, <1>4, <1>5 DEF Saved

LEMMA HandedOverStep == CalInv /\ HandedOver => CalInv'
<1> SUFFICES ASSUME CalInv, HandedOver
             PROVE  CalInv'
  OBVIOUS
<1>1. /\ cal_pc = "hand" /\ handing = {} /\ ready' = TRUE /\ overdue' = FALSE /\ Applied
      /\ cal_pc' = "end"
      /\ UNCHANGED <<cal_run, cal_active, next_cal, stored, stored_valid, fusion_cal, taking, pending, handing>>
  BY DEF HandedOver, Applied, Enter, takingVars
<1>2. pending = next_cal
  BY <1>1, SameRecord DEF CalInv, CalTypes, HandOver
<1>3. taking = {} /\ ~ready
  BY <1>1 DEF CalInv, HandOver, Field
<1>4. CalTypes'
  BY <1>1, AppliedStep DEF CalInv, CalTypes
<1>5. HandOver' /\ OneRun'
  BY <1>1, <1>2, <1>3, AppliedStep DEF CalInv, HandOver, FusionRecord, OneRun, Whole
<1>6. NotAhead'
  BY <1>1, <1>2, AppliedStep DEF CalInv, NotAhead
<1>7. QED BY <1>1, <1>4, <1>5, <1>6, AppliedStep DEF CalInv

LEMMA HandOverGivenUpStep == CalInv /\ HandOverGivenUp => CalInv'
<1> SUFFICES ASSUME CalInv, HandOverGivenUp
             PROVE  CalInv'
  OBVIOUS
<1>1. /\ cal_pc = "hand" /\ handing' = {} /\ overdue' = TRUE /\ Applied
      /\ cal_pc' = "end"
      /\ UNCHANGED <<cal_run, cal_active, next_cal, stored, stored_valid, fusion_cal, taking, pending, ready>>
  BY DEF HandOverGivenUp, Applied, Enter, takingVars
<1>2. CalTypes'
  BY <1>1, AppliedStep DEF CalInv, CalTypes
<1>3. HandOver' /\ OneRun'
  BY <1>1 DEF CalInv, HandOver, FusionRecord, OneRun, Whole
<1>4. NotAhead'
  BY <1>1, AppliedStep DEF CalInv, NotAhead
<1>5. QED BY <1>1, <1>2, <1>3, <1>4, AppliedStep DEF CalInv

LEMMA FusionLooksStep == CalInv /\ FusionLooks => CalInv'
<1> SUFFICES ASSUME CalInv, FusionLooks
             PROVE  CalInv'
  OBVIOUS
<1>1. /\ taking = {} /\ ready /\ taking' = Field
      /\ UNCHANGED <<cal_pc, cal_run, cal_active, next_cal, live, stored, stored_valid, fusion_cal, pending,
                     ready, handing, overdue>>
  BY DEF FusionLooks, resultVars, handoverVars
<1>2. NotAhead'
  BY <1>1 DEF CalInv, NotAhead, NothingUnsaved
<1>3. QED BY <1>1, <1>2
          DEF CalInv, CalTypes, ClaimIsRun, HandOver, FusionRecord, Saved, OneRun, Whole, Field

LEMMA FusionTakesStep ==
  ASSUME CalInv, NEW g \in Field, FusionTakes(g)
  PROVE  CalInv'
<1>1. /\ g \in taking /\ taking' = taking \ {g} /\ ready' = (ready /\ taking' # {})
      /\ fusion_cal' = [fusion_cal EXCEPT ![g] = pending[g]]
      /\ UNCHANGED <<cal_pc, cal_run, cal_active, next_cal, live, stored, stored_valid, pending, handing, overdue>>
  BY DEF FusionTakes, resultVars
<1>2. ready /\ Whole(pending)
  BY <1>1 DEF CalInv, HandOver, OneRun
<1>3. CalTypes' /\ ClaimIsRun' /\ Saved'
  BY <1>1 DEF CalInv, CalTypes, ClaimIsRun, Saved, Record
<1>4. \A f \in Field \ taking' : fusion_cal'[f] = pending'[f]
  BY <1>1, <1>2 DEF CalInv, CalTypes, HandOver, Record
<1>5. taking' = {} => fusion_cal' = pending'
  BY <1>3, <1>4, SameRecord DEF CalTypes
<1>6. HandOver'
  BY <1>1, <1>2, <1>4, <1>5 DEF CalInv, HandOver, FusionRecord
<1>7. OneRun'
  BY <1>1, <1>2, <1>5 DEF CalInv, OneRun, Whole
<1>8. NotAhead'
  BY <1>1, <1>2 DEF CalInv, CalTypes, NotAhead, NothingUnsaved, Record
<1>9. QED BY <1>3, <1>6, <1>7, <1>8 DEF CalInv

LEMMA CalInvStep == CalInv /\ [CalibrationNext]_calibrationVars => CalInv'
<1>1. CalInv /\ UNCHANGED calibrationVars => CalInv'
  BY DEF CalInv, calibrationVars, resultVars, commandVars, takingVars, handoverVars, CalTypes,
         ClaimIsRun, HandOver, FusionRecord, Saved, NotAhead, NothingUnsaved, OneRun, Whole
<1>2. QED BY <1>1, PlainStep, RecordedStep, SavesStep, HandsOverStep, HandedOverStep,
             HandOverGivenUpStep, FusionLooksStep, FusionTakesStep
          DEF CalibrationNext, TaskStep, Plain, Recorded

(* However a run ends, refused, cancelled, failed, not saved, or with its  *)
(* hand-over given up: the claim on the boat ends with it, what is in use  *)
(* is what is in flash, nothing is used before it is saved, fusion never   *)
(* corrects with parts of two runs, and it has or is about to take what is *)
(* in use unless a hand-over was given up and none succeeded since; for    *)
(* any number of runs, commands and failures (task_compass_cal, apply,     *)
(* fusion_set_calibration, take_pending_calibration).                      *)
THEOREM CalibrationStaysKept == CalibrationSpec => []CalibrationKept
<1>1. CalInv => CalibrationKept
  BY DEF CalInv, HandOver, Saved, NotAhead, OneRun, Whole, CalibrationKept, UsedIsStored, TakenWhole
<1>2. QED BY <1>1, CalInit, CalInvStep, PTL DEF CalibrationSpec

-------------------------------------------------------------------------------
(***************************************************************************)
(* Types.  What SensorBus counts stays within the limits it counts to.     *)
(***************************************************************************)
AgBounds == ag.fails <= 2 * RecoverEvery /\ ag.same <= FreezeLimit
MagBounds == mag.fails <= 2 * RecoverEvery /\ mag.still <= StillLimit - 1
SampleTypes == sample \in [ag : BOOLEAN, mag : BOOLEAN] /\ moved \in [ag : BOOLEAN, mag : BOOLEAN]

LEMMA OneMoreBounded ==
  ASSUME NEW n \in Nat, n <= 2 * RecoverEvery
  PROVE  OneMore(n) <= 2 * RecoverEvery
  BY ImuHealthAssumption DEF OneMore

LEMMA FailedBounds ==
  ASSUME NEW c, c \in AgType \/ c \in MagType, c.fails <= 2 * RecoverEvery, NEW answers
  PROVE  /\ Failed(c, answers).fails <= 2 * RecoverEvery
         /\ c \in AgType => Failed(c, answers).same = c.same
         /\ c \in MagType => Failed(c, answers).still = c.still
<1>1. c.fails \in Nat
  BY DEF AgType, MagType
<1>2. OneMore(c.fails) <= 2 * RecoverEvery
  BY <1>1, OneMoreBounded
<1>3. Failed(c, answers).fails \in {0, OneMore(c.fails)}
  BY DEF Failed, AgType, MagType
<1>4. /\ c \in AgType => Failed(c, answers).same = c.same
      /\ c \in MagType => Failed(c, answers).still = c.still
  BY DEF Failed, AgType, MagType
<1>5. QED BY <1>2, <1>3, <1>4, ImuHealthAssumption

LEMMA AnsweredCounts ==
  ASSUME NEW c, c \in AgType \/ c \in MagType
  PROVE  /\ Answered(c).fails = 0
         /\ c \in AgType => Answered(c).same = c.same
         /\ c \in MagType => Answered(c).still = c.still
  BY DEF Answered, AgType, MagType

LEMMA AgReadBounds ==
  ASSUME ag \in AgType, AgBounds, NEW changed
  PROVE  AgRead(changed).fails = 0 /\ AgRead(changed).same <= FreezeLimit
<1> DEFINE a == Answered(ag)
           same == a.have /\ ~changed
           n == IF ~same THEN 0 ELSE IF a.same < FreezeLimit THEN a.same + 1 ELSE a.same
<1>1. a \in AgType /\ a.fails = 0 /\ a.same = ag.same
  BY AnsweredKeeps, AnsweredCounts
<1>2. AgRead(changed).fails = a.fails /\ AgRead(changed).same = n
  <2> HIDE DEF a
  <2>1. AgRead(changed) =
          [a EXCEPT !.have = TRUE,
                    !.same = IF ~same THEN 0 ELSE IF @ < FreezeLimit THEN @ + 1 ELSE @,
                    !.frozen = Frozen(a, same),
                    !.ok = IF same THEN @ /\ (a.frozen \/ ~Frozen(a, same)) ELSE @ \/ a.frozen]
    BY DEF AgRead, a
  <2>2. QED BY <1>1, <2>1 DEF AgType
<1>3. n <= FreezeLimit
  BY <1>1, ImuHealthAssumption DEF AgBounds, AgType
<1>4. QED BY <1>1, <1>2, <1>3

LEMMA MagReadBounds ==
  ASSUME mag \in MagType, MagBounds, NEW changed \in BOOLEAN
  PROVE  MagRead(changed).fails = 0 /\ MagRead(changed).still <= StillLimit - 1
<1> DEFINE m == IF changed THEN MagMoves(mag) ELSE MagStill(mag)
<1>1. m \in MagType
  <2>1. mag.ok \in BOOLEAN /\ mag.frozen \in BOOLEAN /\ mag.still \in Nat
    BY DEF MagType
  <2>2. (mag.ok \/ mag.frozen) \in BOOLEAN /\ (mag.ok /\ mag.frozen) \in BOOLEAN
    OBVIOUS
  <2>3. MagMoves(mag) \in MagType
    BY <2>1, <2>2 DEF MagMoves, MagType
  <2>4. MagStill(mag) \in MagType
    <3>1. CASE mag.still + 1 < StillLimit
      BY <2>1, <3>1 DEF MagStill, MagType
    <3>2. CASE ~(mag.still + 1 < StillLimit)
      <4>0. 0 \in Nat /\ TRUE \in BOOLEAN
        OBVIOUS
      <4>1. MagStill(mag) = [mag EXCEPT !.still = 0, !.frozen = TRUE, !.ok = @ /\ mag.frozen]
        BY <3>2 DEF MagStill
      <4>2. QED BY <2>2, <4>0, <4>1, Zenon DEF MagType
    <3>3. QED BY <3>1, <3>2
  <2>5. QED BY <2>3, <2>4
<1>2. m.still <= StillLimit - 1
  <2>1. mag.still \in Nat /\ mag.still <= StillLimit - 1
    BY DEF MagType, MagBounds
  <2>2. MagMoves(mag).still = 0
    BY DEF MagMoves, MagType
  <2>3. MagStill(mag).still = IF mag.still + 1 < StillLimit THEN mag.still + 1 ELSE 0
    BY DEF MagStill, MagType
  <2>4. QED BY <2>1, <2>2, <2>3, ImuHealthAssumption
<1>3. MagRead(changed) = Answered(m)
  BY DEF MagRead
<1> HIDE DEF m
<1>4. QED BY <1>1, <1>2, <1>3, AnsweredCounts

LEMMA HealthBoundsStep ==
  ASSUME HealthInv, AgBounds, MagBounds, SampleTypes, [HealthNext]_healthVars
  PROVE  AgBounds' /\ MagBounds' /\ SampleTypes'
<1>0. ag \in AgType /\ mag \in MagType /\ RecoverEvery \in Nat /\ ag' \in AgType /\ mag' \in MagType
  BY HealthInvStep, ImuHealthAssumption DEF HealthInv, HealthTypes
<1>1. ASSUME NEW a \in Read, NEW m \in Read, ReadCycle(a, m)
      PROVE  AgBounds' /\ MagBounds' /\ SampleTypes'
  <2>1. AgBounds'
    <3>1. CASE a \in {"same", "changed"}
      BY <1>0, <1>1, <3>1, AgReadBounds DEF ReadCycle, AgBounds
    <3>2. CASE a \notin {"same", "changed"}
      <4>1. ag' = Failed(ag, a = "recover")
        BY <1>1, <3>2 DEF ReadCycle, AgFailed
      <4>2. Failed(ag, a = "recover").fails <= 2 * RecoverEvery /\ Failed(ag, a = "recover").same = ag.same
        BY <1>0, FailedBounds DEF AgBounds
      <4>3. QED BY <4>1, <4>2 DEF AgBounds
    <3>3. QED BY <3>1, <3>2
  <2>2. MagBounds'
    <3>1. CASE m \in {"same", "changed"}
      <4>1. mag' = MagRead(m = "changed") /\ (m = "changed") \in BOOLEAN
        BY <1>1, <3>1 DEF ReadCycle
      <4>2. MagRead(m = "changed").fails = 0 /\ MagRead(m = "changed").still <= StillLimit - 1
        BY <1>0, <4>1, MagReadBounds
      <4>3. QED BY <1>0, <4>1, <4>2 DEF MagBounds
    <3>2. CASE m \notin {"same", "changed"}
      <4>1. mag' = Failed(mag, m = "recover")
        BY <1>1, <3>2 DEF ReadCycle
      <4>2. Failed(mag, m = "recover").fails <= 2 * RecoverEvery /\ Failed(mag, m = "recover").still = mag.still
        BY <1>0, FailedBounds DEF MagBounds
      <4>3. QED BY <4>1, <4>2 DEF MagBounds
    <3>3. QED BY <3>1, <3>2
  <2>3. SampleTypes'
    <3>1. /\ (a \in {"same", "changed"} /\ ~ag'.frozen) \in BOOLEAN
          /\ (m \in {"same", "changed"}) \in BOOLEAN
          /\ (a = "changed") \in BOOLEAN /\ (m = "changed") \in BOOLEAN
      OBVIOUS
    <3>2. QED BY <1>1, <3>1, Zenon DEF ReadCycle, SampleTypes
  <2>4. QED BY <2>1, <2>2, <2>3
<1>2. CASE UNCHANGED healthVars
  BY <1>2 DEF healthVars, AgBounds, MagBounds, SampleTypes
<1>3. QED BY <1>1, <1>2 DEF HealthNext

(* The counters of failed and of unchanged reads, which decide when a chip *)
(* is recovered and when it is frozen, never leave the range they are      *)
(* compared in (task_sensor_bus, sensor_task.c:51).                        *)
THEOREM HealthTypesKept == HealthSpec => []HealthTypeOK
<1> DEFINE Bounds == AgBounds /\ MagBounds /\ SampleTypes
<1>1. HealthInit => Bounds
  BY ImuHealthAssumption DEF HealthInit, AgBounds, MagBounds, SampleTypes
<1>2. HealthInv /\ Bounds /\ [HealthNext]_healthVars => Bounds'
  BY HealthBoundsStep
<1>3. HealthInv /\ Bounds => HealthTypeOK
  BY ImuHealthAssumption
     DEF HealthInv, HealthTypes, AgType, MagType, AgBounds, MagBounds, SampleTypes, HealthTypeOK
<1>4. QED BY <1>1, <1>2, <1>3, HealthInvInit, HealthInvStep, PTL DEF HealthSpec

-------------------------------------------------------------------------------
(***************************************************************************)
(* Types of the ranging tasks: the frame a task has taken is the one it    *)
(* saw.                                                                    *)
(***************************************************************************)
RangeClock ==
  /\ now \in 0 .. MaxTime /\ due \in [Tof -> Nat]
  /\ taken \in [Tof -> Nat]
  /\ tof_notified \in BOOLEAN

LEMMA RangeClockStep ==
  ASSUME RangeInv, RangeClock, [RangingNext]_rangingVars
  PROVE  RangeClock'
<1> USE DEF RangeClock
<1>0. proc.tof \in Tof /\ proc.seen \in Nat /\ reading.tof \in Tof /\ MaxTime \in Nat
  BY RangingAssumption DEF RangeInv, RangeTypes
<1>1. CASE Tick
  <2>1. now' \in 0 .. MaxTime
    BY <1>0, <1>1 DEF Tick
  <2>2. QED BY <1>1, <2>1 DEF Tick, procVars
<1>2. CASE (\E t \in Tof : ReadClaims(t)) \/ (\E p \in Part : ReadPart(p)) \/ ReadPublishes
  BY <1>2 DEF ReadClaims, ReadPart, ReadPublishes, procVars
<1>3. CASE ReadFails \/ ReadFrees
  <2>1. due' = [due EXCEPT ![reading.tof] = @ + 2] /\ UNCHANGED <<now, taken, tof_notified>>
    BY <1>3 DEF ReadFails, ReadFrees, procVars
  <2>2. due' \in [Tof -> Nat]
    BY <1>0, <2>1
  <2>3. QED BY <2>1, <2>2
<1>4. CASE ReadNotifies
  <2>1. tof_notified' \in BOOLEAN
    BY <1>4, Zenon DEF ReadNotifies
  <2>2. QED BY <1>4, <2>1 DEF ReadNotifies, procVars
<1>5. CASE ProcWakes
  <2>1. tof_notified' \in BOOLEAN
    BY <1>5, Zenon DEF ProcWakes
  <2>2. QED BY <1>5, <2>1 DEF ProcWakes, readVars
<1>6. CASE ProcStores
  BY <1>0, <1>6 DEF ProcStores, readVars
<1>7. CASE \/ ProcStarts \/ ProcLooks \/ ProcClaims \/ ProcChecks \/ ProcReleases
           \/ \E p \in Part : ProcCopies(p)
  BY <1>7 DEF ProcStarts, ProcLooks, ProcClaims, ProcChecks, ProcReleases, ProcCopies, readVars
<1>8. CASE UNCHANGED rangingVars
  BY <1>8 DEF rangingVars, readVars, procVars
<1>9. QED BY <1>1, <1>2, <1>3, <1>4, <1>5, <1>6, <1>7, <1>8 DEF RangingNext, ReadStep, ProcStep

(* Every variable of the ranging tasks keeps to its C type, and a claim on *)
(* a slot to the three states its word has (tof_channel_t).                *)
THEOREM RangingTypes == RangingSpec => []RangingTypeOK
<1>1. RangingInit => RangeClock
  <2>1. RangingInit => tof_notified \in BOOLEAN
    BY Zenon DEF RangingInit
  <2>2. QED BY <2>1, RangingAssumption DEF RangingInit, RangeClock
<1>2. RangeInv /\ RangeClock => RangingTypeOK
  BY DEF RangeInv, RangeTypes, RangeClock, RangingTypeOK
<1>3. RangeInv /\ RangeClock /\ [RangingNext]_rangingVars => RangeClock'
  BY RangeClockStep
<1>4. QED BY <1>1, <1>2, <1>3, RangeInit, RangeStep, PTL DEF RangingSpec

(* The GPS ring and the queue of its events never outgrow their sizes,     *)
(* whatever arrives while the task is busy (gps_driver.c, gps_task).       *)
THEOREM GpsTypesKept == GpsSpec => []GpsTypeOK
  BY GpsTypeInit, GpsTypeStep, PTL DEF GpsSpec

-------------------------------------------------------------------------------
(***************************************************************************)
(* Types of the calibration: a run is numbered once, between the claim and *)
(* its first reading, and a record names no run that was not numbered.     *)
(***************************************************************************)
CalPlaces ==
  /\ cal_pc \in Running \cup {"wait", "claim"}
  /\ cal_state \in {"IDLE", "STILL", "SPIN", "CHECKING", "PASS", "FAIL"}
  /\ cal_command \in {"none", "start", "cancel"}
  /\ {stored_valid, cal_active, start_asked, cancel_asked, ready, overdue} \subseteq BOOLEAN

CalNumbers ==
  /\ cal_run \in Nat /\ cal_run <= MaxCalRuns
  /\ cal_pc \in {"claim", "check", "clear"} => cal_run < MaxCalRuns

CalRecords ==
  /\ next_cal \in Cal /\ live \in Cal /\ stored \in Cal
  /\ pending \in Cal /\ fusion_cal \in Cal
  /\ handing \subseteq Field /\ taking \subseteq Field

LEMMA CalPlacesStep ==
  ASSUME CalPlaces, [CalibrationNext]_calibrationVars
  PROVE  CalPlaces'
<1>0. {stored_valid, cal_active, start_asked, cancel_asked, ready, overdue} \subseteq BOOLEAN
  BY DEF CalPlaces
<1>1. ASSUME NEW what \in {"start", "cancel"}, DashboardLooks(what)
      PROVE  CalPlaces'
  BY <1>1 DEF DashboardLooks, CalPlaces, resultVars, handoverVars
<1>2. CASE DashboardAsks
  <2>1. start_asked' \in BOOLEAN /\ cancel_asked' \in BOOLEAN
    BY <1>2, Zenon DEF DashboardAsks
  <2>2. QED BY <1>2, <2>1 DEF DashboardAsks, CalPlaces, resultVars, handoverVars
<1>3. CASE StartTakenUp \/ Claims \/ ResultExpires \/ RefuseArmed \/ NotArmed \/ RunBegins
  <2>1. /\ UNCHANGED <<stored_valid, ready, overdue, cal_command>>
        /\ start_asked' \in {start_asked, FALSE} /\ cancel_asked' \in {cancel_asked, FALSE}
        /\ cal_active' \in {cal_active, TRUE, FALSE}
    BY <1>3 DEF StartTakenUp, Claims, ResultExpires, RefuseArmed, NotArmed, RunBegins, RefusedClaim,
                Unhanded, resultVars, commandVars, handoverVars
  <2>2. /\ cal_pc' \in Running \cup {"wait", "claim"}
        /\ cal_state' \in {"IDLE", "STILL", "SPIN", "CHECKING", "PASS", "FAIL"}
    BY <1>3 DEF StartTakenUp, Claims, ResultExpires, RefuseArmed, NotArmed, RunBegins, Enter,
                Running, CalPlaces
  <2>3. QED BY <2>1, <2>2 DEF CalPlaces
<1>4. CASE StillDone \/ StillFails \/ SpinComplete \/ SpinFails \/ FitPasses \/ SaveFails
  <2>1. UNCHANGED <<stored_valid, ready, overdue, cal_command, start_asked, cancel_asked, cal_active>>
    BY <1>4 DEF StillDone, StillFails, SpinComplete, SpinFails, FitPasses, SaveFails,
                Unhanded, resultVars, commandVars, handoverVars
  <2>2. /\ cal_pc' \in Running \cup {"wait", "claim"}
        /\ cal_state' \in {"IDLE", "STILL", "SPIN", "CHECKING", "PASS", "FAIL"}
    BY <1>4 DEF StillDone, StillFails, SpinComplete, SpinFails, FitPasses, SaveFails, Enter, Running
  <2>3. QED BY <2>1, <2>2 DEF CalPlaces
<1>5. CASE Saves \/ (\E f \in Field : HandsOver(f)) \/ HandedOver \/ HandOverGivenUp \/ RunEnds
  <2>1. /\ UNCHANGED <<cal_command, start_asked, cancel_asked>>
        /\ stored_valid' \in {stored_valid, TRUE} /\ ready' \in {ready, TRUE}
        /\ overdue' \in {overdue, TRUE, FALSE}
        /\ cal_active' \in {cal_active, FALSE}
    BY <1>5 DEF Saves, HandsOver, HandedOver, HandOverGivenUp, Applied, RunEnds,
                Unhanded, resultVars, commandVars, handoverVars
  <2>2. /\ cal_pc' \in Running \cup {"wait", "claim"}
        /\ cal_state' \in {"IDLE", "STILL", "SPIN", "CHECKING", "PASS", "FAIL"}
    BY <1>5 DEF Saves, HandsOver, HandedOver, HandOverGivenUp, Applied, RunEnds, Enter, Running, CalPlaces
  <2>3. QED BY <2>1, <2>2 DEF CalPlaces
<1>6. CASE FusionLooks
  BY <1>6 DEF FusionLooks, CalPlaces, resultVars, commandVars, handoverVars
<1>7. ASSUME NEW f \in Field, FusionTakes(f)
      PROVE  CalPlaces'
  <2>1. ready' \in BOOLEAN
    BY <1>7, Zenon DEF FusionTakes
  <2>2. QED BY <1>7, <2>1 DEF FusionTakes, CalPlaces, resultVars, commandVars
<1>8. CASE UNCHANGED calibrationVars
  BY <1>8 DEF calibrationVars, resultVars, commandVars, handoverVars, CalPlaces
<1>9. QED BY <1>1, <1>2, <1>3, <1>4, <1>5, <1>6, <1>7, <1>8 DEF CalibrationNext, TaskStep

LEMMA CalNumbersStep ==
  ASSUME CalNumbers, CalPlaces, [CalibrationNext]_calibrationVars
  PROVE  CalNumbers'
<1> USE CalibrationAssumption DEF CalNumbers
<1>1. CASE StartTakenUp \/ Claims \/ NotArmed
  BY <1>1 DEF StartTakenUp, Claims, NotArmed, Enter
<1>2. CASE RefuseArmed \/ RunBegins
  BY <1>2 DEF RefuseArmed, RunBegins, Enter
<1>3. CASE \/ ResultExpires \/ StillDone \/ StillFails \/ SpinComplete \/ SpinFails \/ FitPasses
           \/ Saves \/ SaveFails \/ HandedOver \/ HandOverGivenUp \/ RunEnds
  BY <1>3 DEF ResultExpires, StillDone, StillFails, SpinComplete, SpinFails, FitPasses, Saves,
              SaveFails, HandedOver, HandOverGivenUp, Applied, RunEnds, Enter
<1>4. CASE \/ \E what \in {"start", "cancel"} : DashboardLooks(what)
           \/ DashboardAsks \/ FusionLooks
           \/ \E f \in Field : HandsOver(f) \/ FusionTakes(f)
           \/ UNCHANGED calibrationVars
  BY <1>4 DEF DashboardLooks, DashboardAsks, FusionLooks, HandsOver, FusionTakes, calibrationVars
<1>5. QED BY <1>1, <1>2, <1>3, <1>4 DEF CalibrationNext, TaskStep

LEMMA CalRecordsStep ==
  ASSUME CalNumbers, CalRecords, [CalibrationNext]_calibrationVars
  PROVE  CalRecords'
<1> USE DEF CalRecords
<1>0. 0 \in 0 .. MaxCalRuns + 1 /\ Number \in 0 .. MaxCalRuns + 1 /\ NoCal \in Cal
  BY CalibrationAssumption DEF CalNumbers, Number, NoCal, Cal
<1>1. CASE \/ \E what \in {"start", "cancel"} : DashboardLooks(what)
           \/ DashboardAsks
           \/ StartTakenUp \/ Claims \/ ResultExpires \/ RefuseArmed \/ NotArmed
           \/ StillFails \/ SpinComplete \/ SaveFails \/ UNCHANGED calibrationVars
  BY <1>1 DEF DashboardLooks, DashboardAsks, StartTakenUp, Claims, ResultExpires, RefuseArmed,
              NotArmed, StillFails, SpinComplete, SaveFails, Unhanded, resultVars, takingVars,
              handoverVars, calibrationVars
<1>2. CASE RunBegins \/ RunEnds
  BY <1>0, <1>2 DEF RunBegins, RunEnds, Unhanded, takingVars, handoverVars
<1>3. CASE StillDone \/ SpinFails \/ FitPasses
  <2>1. next_cal' \in Cal
    BY <1>0, <1>3 DEF StillDone, SpinFails, FitPasses, Cal
  <2>2. QED BY <1>3, <2>1 DEF StillDone, SpinFails, FitPasses, Unhanded, takingVars, handoverVars
<1>4. CASE Saves \/ HandedOver \/ HandOverGivenUp
  BY <1>4 DEF Saves, HandedOver, HandOverGivenUp, Applied, takingVars
<1>5. ASSUME NEW f \in Field, HandsOver(f)
      PROVE  CalRecords'
  BY <1>5 DEF HandsOver, Cal, resultVars, takingVars
<1>6. CASE FusionLooks
  BY <1>6 DEF FusionLooks, resultVars, handoverVars
<1>7. ASSUME NEW f \in Field, FusionTakes(f)
      PROVE  CalRecords'
  BY <1>7 DEF FusionTakes, Cal, resultVars
<1>8. QED BY <1>1, <1>2, <1>3, <1>4, <1>5, <1>6, <1>7 DEF CalibrationNext, TaskStep

(* The calibration's task, its record and fusion's copy keep to their      *)
(* types, and no record names a run that was not numbered                  *)
(* (task_compass_cal, run_calibration).                                    *)
THEOREM CalibrationTypes == CalibrationSpec => []CalibrationTypeOK
<1> DEFINE Inv == CalPlaces /\ CalNumbers /\ CalRecords
<1>1. CalibrationInit => Inv
  <2> SUFFICES ASSUME CalibrationInit PROVE Inv
    OBVIOUS
  <2>1. {stored_valid, cal_active, start_asked, cancel_asked, ready, overdue} \subseteq BOOLEAN
    <3>1. stored_valid \in BOOLEAN /\ cal_active \in BOOLEAN /\ start_asked \in BOOLEAN
          /\ cancel_asked \in BOOLEAN /\ ready \in BOOLEAN /\ overdue \in BOOLEAN
      BY Zenon DEF CalibrationInit
    <3>2. QED BY <3>1
  <2>2. NoCal \in Cal /\ BootCal \in Cal
    BY CalibrationAssumption DEF NoCal, BootCal, Cal
  <2>3. QED BY <2>1, <2>2, CalibrationAssumption
            DEF CalibrationInit, CalPlaces, CalNumbers, CalRecords, Running
<1>2. Inv /\ [CalibrationNext]_calibrationVars => Inv'
  BY CalPlacesStep, CalNumbersStep, CalRecordsStep
<1>3. Inv => CalibrationTypeOK
  BY CalibrationAssumption DEF CalPlaces, CalNumbers, CalRecords, CalibrationTypeOK
<1>4. QED BY <1>1, <1>2, <1>3, PTL DEF CalibrationSpec

-------------------------------------------------------------------------------
(* The five parts side by side: each one's behaviour is its own.           *)
LEMMA EachPartAlone == MCSpec => ChainSpec /\ HealthSpec /\ RangingSpec /\ GpsSpec /\ CalibrationSpec
<1> DEFINE partVars == <<chainVars, healthVars, rangingVars, gpsVars, calibrationVars, explored>>
<1>1. MCInit => ChainInit /\ HealthInit /\ RangingInit /\ GpsInit /\ CalibrationInit
  BY DEF MCInit
<1>2. [MCNext]_partVars => /\ [ChainNext]_chainVars /\ [HealthNext]_healthVars
                           /\ [RangingNext]_rangingVars /\ [GpsNext]_gpsVars
                           /\ [CalibrationNext]_calibrationVars
  BY DEF MCNext
<1>3. QED BY <1>1, <1>2, PTL
          DEF MCSpec, ChainSpec, HealthSpec, RangingSpec, GpsSpec, CalibrationSpec

(* Every variable of the sensor tasks keeps to its type, for any limits,   *)
(* sizes and numbers of samples, frames and runs (task_sensor_bus,         *)
(* task_imu_fusion, task_tof_read, gps_task, task_compass_cal).            *)
THEOREM SensingTypes == MCSpec => []SensingTypeOK
  BY EachPartAlone, ChainTypes, HealthTypesKept, RangingTypes, GpsTypesKept, CalibrationTypes, PTL
     DEF SensingTypeOK
===============================================================================
