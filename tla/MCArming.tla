------------------------------- MODULE MCArming -------------------------------
(***************************************************************************)
(* Arming and disarming over a link that may fall silent, with a compass   *)
(* calibration that claims the boat at any time.  Every task may act       *)
(* between any two steps of the control task.                              *)
(***************************************************************************)
EXTENDS MotorControlProperties

MCSessions == {{"arm", "disarm", "compass"}}

MCPreemptAt == ControlPc
===============================================================================
