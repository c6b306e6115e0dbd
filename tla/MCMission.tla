------------------------------ MODULE MCMission -------------------------------
(***************************************************************************)
(* An armed boat, two missions in a row, and an operator who ends them.    *)
(***************************************************************************)
EXTENDS MotorHistory

MCSessions == {{"winch", "power_off", "mission", "mission_stop"}}

(* The commands take effect at the begin of a cycle.                       *)
MCPreemptAt == {"idle"}
===============================================================================
