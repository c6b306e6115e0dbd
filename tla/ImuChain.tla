------------------------------- MODULE ImuChain -------------------------------
(***************************************************************************)
(* From an IMU sample to the attitude the control task steers by: the      *)
(* SensorBus task (sensor_task.c) publishes samples, the Fusion task       *)
(* (sensor_fusion.c) turns each into a result, and the Control task reads  *)
(* the newest result in every cycle.  All three share core 0, where a task *)
(* runs only while no task of a higher priority is busy                    *)
(* (runtime_schedule.c: Control 10, SensorBus 8, Fusion 7); the other      *)
(* readers are on core 1.  Calibration data is present from the start.     *)
(***************************************************************************)
EXTENDS Naturals, FiniteSets

CONSTANTS
  Word,         \* the words of a payload
  Sequence,     \* the word that repeats the sample's sequence number
  Observer,     \* tasks on core 1 that read the results
  MaxSequence   \* bound of the model: samples taken

ASSUME ImuChainAssumption == Sequence \in Word /\ MaxSequence \in Nat /\ "Control" \notin Observer

VARIABLES
  imu_version, imu_payload, imu_published, imu_writer, imu_reader,   \* s_imu_samples
  res_version, res_payload, res_published, res_writer, res_reader,   \* result_snapshot
  bus,          \* task_sensor_bus: "idle", "publish", "notify"
  withheld,     \* sequence numbers of the samples without accel_gyro_valid
  fusion,       \* task_imu_fusion: "start", "take", "read", "publish"
  notified,     \* its notification is pending
  last          \* its last_sequence

imuVars == <<imu_version, imu_payload, imu_published, imu_writer, imu_reader>>
resVars == <<res_version, res_payload, res_published, res_writer, res_reader>>
taskVars == <<bus, withheld, fusion, notified, last>>
chainVars == <<imuVars, resVars, taskVars>>

Imu == INSTANCE SampleSnapshot WITH
  Stamped <- {Sequence}, Reader <- {"Fusion"}, Consecutive <- TRUE,
  version <- imu_version, payload <- imu_payload, published <- imu_published,
  writer <- imu_writer, reader <- imu_reader

(* A result is published under the sequence number of its sample, and a    *)
(* sample may bring no result.                                             *)
Result == INSTANCE SampleSnapshot WITH
  Stamped <- {}, Reader <- {"Control"} \union Observer, Consecutive <- FALSE,
  version <- res_version, payload <- res_payload, published <- res_published,
  writer <- res_writer, reader <- res_reader

ChainInit ==
  /\ Imu!Init /\ Result!Init
  /\ bus = "idle" /\ withheld = {}
  /\ fusion = "start" /\ notified = FALSE /\ last = 0

ControlBusy == res_reader["Control"].pc # "idle"
BusBusy == bus # "idle"

(***************************************************************************)
(* SensorBus, while Control is not busy.                                   *)
(***************************************************************************)
(* sensor_read_imu_sample returned TRUE; ImuHealth says what it withholds. *)
BusPublishes(valid) ==
  /\ bus = "idle" /\ imu_published < MaxSequence
  /\ Imu!PublishBegins(imu_published + 1)
  /\ bus' = "publish"
  /\ withheld' = IF valid THEN withheld ELSE withheld \union {imu_published + 1}
  /\ UNCHANGED <<resVars, fusion, notified, last>>

BusStores ==
  /\ bus = "publish" /\ Imu!WriterStep
  /\ bus' = IF imu_writer'.pc = "idle" THEN "notify" ELSE bus
  /\ UNCHANGED <<resVars, withheld, fusion, notified, last>>

BusNotifies ==
  /\ bus = "notify"
  /\ notified' = (notified \/ fusion # "start")
  /\ bus' = "idle"
  /\ UNCHANGED <<imuVars, resVars, withheld, fusion, last>>

SensorBus == ~ControlBusy /\ (BusStores \/ BusNotifies \/ \E valid \in BOOLEAN : BusPublishes(valid))

(***************************************************************************)
(* Fusion, while neither of them is busy.                                  *)
(***************************************************************************)
FusionRegisters ==
  /\ fusion = "start"
  /\ fusion' = "take"
  /\ UNCHANGED <<imuVars, resVars, bus, withheld, notified, last>>

FusionWakes ==
  /\ fusion = "take" /\ notified
  /\ notified' = FALSE
  /\ Imu!ReadBegins("Fusion")
  /\ fusion' = "read"
  /\ UNCHANGED <<resVars, bus, withheld, last>>

FusionReads ==
  /\ fusion = "read" /\ Imu!ReaderStep("Fusion")
  /\ UNCHANGED <<resVars, taskVars>>

FusionSample == imu_reader["Fusion"].seq
FusionHasRead == fusion = "read" /\ imu_reader["Fusion"].pc = "idle"

(* No sample, the last one again, or one the accelerometer has no part in. *)
FusionSkips ==
  /\ FusionHasRead /\ FusionSample \in {0, last} \union withheld
  /\ last' = IF FusionSample = 0 THEN last ELSE FusionSample
  /\ fusion' = "take"
  /\ UNCHANGED <<imuVars, resVars, bus, withheld, notified>>

FusionPublishes ==
  /\ FusionHasRead /\ FusionSample \notin {0, last} \union withheld
  /\ Result!PublishBegins(FusionSample)
  /\ fusion' = "publish"
  /\ UNCHANGED <<imuVars, bus, withheld, notified, last>>

FusionStores ==
  /\ fusion = "publish" /\ Result!WriterStep
  /\ fusion' = IF res_writer'.pc = "idle" THEN "take" ELSE fusion
  /\ last' = IF res_writer'.pc = "idle" THEN FusionSample ELSE last
  /\ UNCHANGED <<imuVars, bus, withheld, notified>>

Fusion ==
  /\ ~ControlBusy /\ ~BusBusy
  /\ FusionRegisters \/ FusionWakes \/ FusionReads \/ FusionSkips \/ FusionPublishes \/ FusionStores

(***************************************************************************)
(* The readers of the results.                                             *)
(***************************************************************************)
ControlStep == Result!ReaderStep("Control") /\ UNCHANGED <<imuVars, taskVars>>

Control ==
  \/ Result!ReadBegins("Control") /\ UNCHANGED <<imuVars, taskVars>>
  \/ ControlStep

Observe(o) == (Result!ReadBegins(o) \/ Result!ReaderStep(o)) /\ UNCHANGED <<imuVars, taskVars>>

ChainNext == SensorBus \/ Fusion \/ Control \/ \E o \in Observer : Observe(o)

ChainSpec == ChainInit /\ [][ChainNext]_chainVars

(* Core 0 always runs the busy task of the highest priority; a task that   *)
(* is waiting need not begin.                                              *)
ChainFairness ==
  /\ WF_chainVars(ControlStep)
  /\ WF_chainVars(~ControlBusy /\ (BusStores \/ BusNotifies))
  /\ WF_chainVars(Fusion)

ChainFairSpec == ChainSpec /\ ChainFairness
===============================================================================
