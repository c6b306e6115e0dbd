------------------------------ MODULE MCSensing -------------------------------
(***************************************************************************)
(* The sensor tasks.  What SensorBus makes of its reads, the way of its    *)
(* samples to the control task, the two ranging tasks, the GPS task and    *)
(* the calibration share nothing but whether a sample is withheld, which   *)
(* the second takes as it comes; each is explored on its own.              *)
(***************************************************************************)
EXTENDS ImuChainProperties, ImuHealth, Ranging, GpsReceiver, Calibration

VARIABLE explored

MCWord == {"attitude", "sequence"}
MCPart == {"near", "far"}
MCTof == {"A", "B"}

MCInit ==
  /\ ChainInit /\ HealthInit /\ RangingInit /\ GpsInit /\ CalibrationInit
  /\ explored \in {"chain", "health", "ranging", "gps", "calibration"}
  /\ explored # "health" => boot = [ag |-> TRUE, mag |-> TRUE]
  /\ explored # "calibration" => stored_valid /\ ~cal_active

MCNext ==
  /\ UNCHANGED explored
  /\ \/ /\ explored = "chain" /\ ChainNext
        /\ UNCHANGED <<healthVars, rangingVars, gpsVars, calibrationVars>>
     \/ /\ explored = "health" /\ HealthNext
        /\ UNCHANGED <<chainVars, rangingVars, gpsVars, calibrationVars>>
     \/ /\ explored = "ranging" /\ RangingNext
        /\ UNCHANGED <<chainVars, healthVars, gpsVars, calibrationVars>>
     \/ /\ explored = "gps" /\ GpsNext
        /\ UNCHANGED <<chainVars, healthVars, rangingVars, calibrationVars>>
     \/ /\ explored = "calibration" /\ CalibrationNext
        /\ UNCHANGED <<chainVars, healthVars, rangingVars, gpsVars>>

MCSpec ==
  /\ MCInit
  /\ [][MCNext]_<<chainVars, healthVars, rangingVars, gpsVars, calibrationVars, explored>>
  /\ RangingFairness

(* One type invariant for the five parts.                                  *)
SensingTypeOK ==
  ImuChainTypeOK /\ HealthTypeOK /\ RangingTypeOK /\ GpsTypeOK /\ CalibrationTypeOK
===============================================================================
