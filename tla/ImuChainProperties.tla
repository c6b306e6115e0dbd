-------------------------- MODULE ImuChainProperties --------------------------
(***************************************************************************)
(* What the IMU sample and the fusion result snapshots must guarantee.     *)
(***************************************************************************)
EXTENDS ImuChain

(* Every variable keeps to its C type and its writers.                     *)
ImuChainTypeOK ==
  /\ Imu!SnapshotTypeOK /\ Result!SnapshotTypeOK
  /\ bus \in {"idle", "publish", "notify"}
  /\ withheld \subseteq 1 .. MaxSequence
  /\ fusion \in {"start", "take", "read", "publish"}
  /\ notified \in BOOLEAN
  /\ last \in 0 .. MaxSequence

(* Neither the fusion task nor the control task ever works on a sample or  *)
(* a result of which some words are of another one, though each word is    *)
(* loaded on its own while the writer goes on (sample_snapshot_read,       *)
(* fusion_get_result).                                                     *)
SamplesWhole == Imu!ReadsWhole /\ Result!ReadsWhole

(* The fusion task, which a SensorBus publication may have preempted, and  *)
(* the readers on the other core always find the published sample stable:  *)
(* the writer is in the other slot (sample_snapshot_publish).              *)
SampleReadable == Imu!PublishedStable

(* A control tick's read of the fusion result comes to an end: the design  *)
(* notes ask for a lock-free read "without holding a mutex a               *)
(* lower-priority producer could stall on" (docs/superpowers/specs/        *)
(* 2026-08-11-boat-stability-sas-autopilot-design.md:159-160).             *)
ControlReadEnds == ControlBusy ~> ~ControlBusy
===============================================================================
