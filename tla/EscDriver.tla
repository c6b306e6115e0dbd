------------------------------ MODULE EscDriver ------------------------------
(***************************************************************************)
(* The ESC driver's state machine: main/drivers/esc_driver.c.  The pair of *)
(* throttle pulses is abstracted to the source whose thrust is on the      *)
(* pins: "off", or the command path that wrote a non-zero throttle last.   *)
(* Every operation of the driver runs under its mutex, so each is atomic;  *)
(* a failing MCPWM write is not modelled.                                  *)
(***************************************************************************)

EscState == {"disarmed", "arming", "armed"}
Thrust   == {"off", "stick", "mission", "sweep", "bench"}

Esc == [state : EscState, thrust : Thrust]

EscInit == [state |-> "disarmed", thrust |-> "off"]

CanArmBegin(esc)    == esc.state = "disarmed"
CanArmComplete(esc) == esc.state = "arming"

ArmBegin(esc) ==
  IF CanArmBegin(esc) THEN [state |-> "arming", thrust |-> "off"] ELSE esc

ArmComplete(esc) ==
  IF CanArmComplete(esc) THEN [esc EXCEPT !.state = "armed"] ELSE esc

(* A throttle is written only when armed, and refused otherwise.           *)
SetThrottle(esc, thrust) ==
  IF esc.state = "armed" THEN [esc EXCEPT !.thrust = thrust] ELSE esc

(* Mutant: only an armed ESC is disarmed.                                  *)
DisarmOnlyArmed(esc) ==
  IF esc.state = "armed" THEN [state |-> "disarmed", thrust |-> "off"] ELSE esc

Disarm(esc) == [state |-> "disarmed", thrust |-> "off"]
===============================================================================
