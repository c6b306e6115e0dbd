----------------------------- MODULE MCArmedBoat ------------------------------
(***************************************************************************)
(* An armed boat whose jets somebody competes for: a mission and a bench   *)
(* run, or the stick or the rudder with a PWR-OFF and a trim sweep, over a *)
(* link that falls silent and comes back.                                  *)
(***************************************************************************)
EXTENDS MotorControlProperties

MCSessions ==
  {{"winch", "bench", "mission", "mission_stop"},
   {"motor", "power_off", "calibrate"},
   {"steer", "power_off", "calibrate"},
   {"motor", "steer"}}

(* A command before control_apply_decision brings a silent link to life;   *)
(* the mission's requests take effect at the begin of a cycle.             *)
MCPreemptAt == {"idle", "outputs"}
===============================================================================
