------------------------------- MODULE MCSweep --------------------------------
(***************************************************************************)
(* A sweep and a bench run asked for on an armed boat.                     *)
(***************************************************************************)
EXTENDS MotorControlProperties

MCSessions == {{"power_off", "calibrate", "bench"}}

(* The commands take effect at the begin of a cycle.                       *)
MCPreemptAt == {"idle"}
===============================================================================
