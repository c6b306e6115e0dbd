-------------------------------- MODULE Arming --------------------------------
(***************************************************************************)
(* What arming promises the operator, without queues, tasks or cycles: the *)
(* boat arms only for an order to arm and only with a permission, a disarm *)
(* stays on its way until it has disarmed the boat, and it takes the       *)
(* permission away, so that no order older than it arms the boat unless    *)
(* the operator permits it anew.  MotorControl implements it.              *)
(***************************************************************************)

VARIABLES
  phase,   \* what the ESCs are: disarmed, arming or armed
  order,   \* an order to arm is open
  permit,  \* the permission to arm
  disarm   \* a disarm is on its way

armingVars == <<phase, order, permit, disarm>>

OrdersInit == phase = "disarmed" /\ ~order /\ ~permit /\ ~disarm

(* An open order may be refused or called off in any step but this one.    *)
OrderArm == order' /\ UNCHANGED <<phase, permit, disarm>>

MayLapse == order' => order

Refuse == ~order' /\ UNCHANGED <<phase, permit, disarm>>

(* The operator disarms, or the boat calls an arming off.                  *)
OrderDisarm == disarm' /\ MayLapse /\ UNCHANGED <<phase, permit>>

(* An ARM or a PWR-ON permits arming; a stop of any kind ends that.        *)
Grant  == permit' /\ MayLapse /\ UNCHANGED <<phase, disarm>>
Revoke == ~permit' /\ MayLapse /\ UNCHANGED <<phase, disarm>>

(* Another order may stay open behind the one that begins.                 *)
Begin ==
  /\ order /\ permit
  /\ phase = "disarmed" /\ phase' = "arming"
  /\ UNCHANGED <<permit, disarm>>

Complete ==
  /\ permit
  /\ phase = "arming" /\ phase' = "armed"
  /\ UNCHANGED <<order, permit, disarm>>

(* A later disarm may be on its way already.                               *)
Disarm ==
  /\ disarm
  /\ phase' = "disarmed" /\ ~permit'
  /\ MayLapse

(* The boat disarms itself, and a disarm follows to tell everybody.        *)
Trip ==
  /\ phase # "disarmed" /\ phase' = "disarmed"
  /\ disarm'
  /\ MayLapse
  /\ UNCHANGED permit

OrdersNext ==
  \/ OrderArm \/ Refuse \/ OrderDisarm \/ Grant \/ Revoke
  \/ Begin \/ Complete \/ Disarm \/ Trip

OrdersSpec == OrdersInit /\ [][OrdersNext]_armingVars
===============================================================================
