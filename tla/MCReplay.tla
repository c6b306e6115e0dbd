------------------------------- MODULE MCReplay -------------------------------
(***************************************************************************)
(* A sweep on an armed boat, between two spells of manual driving.         *)
(***************************************************************************)
EXTENDS MotorHistory

MCSessions == {{"motor", "winch", "calibrate"}}

(* The commands take effect at the begin of a cycle.                       *)
MCPreemptAt == {"idle"}
===============================================================================
