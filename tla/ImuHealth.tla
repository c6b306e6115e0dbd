------------------------------- MODULE ImuHealth -------------------------------
(***************************************************************************)
(* What SensorBus makes of the raw IMU and compass reads of a cycle        *)
(* (sensor_read_imu_sample and imu_freeze.h): counting failures and        *)
(* unchanged values, withholding frozen readings, and the two flags        *)
(* imu_icm_ok() and imu_mag_ok() the rest of the boat looks at.  Device    *)
(* writes that only wake a chip are left out: a chip may move again at any *)
(* read.                                                                   *)
(***************************************************************************)
EXTENDS Naturals

CONSTANTS
  FailLimit,      \* failed reads before a chip is marked not OK: 50
  RecoverEvery,   \* failed reads between two attempts to recover it: 100
  FreezeLimit,    \* IMU_FREEZE_LIMIT, sensor_task.c:51
  StillLimit      \* unchanged compass reads before it counts as frozen: 50

ASSUME ImuHealthAssumption ==
  /\ {FailLimit, RecoverEvery, FreezeLimit, StillLimit} \subseteq Nat \ {0}
  /\ FailLimit <= RecoverEvery

VARIABLES
  boot,      \* which chips imu_init found, and could configure
  ag,        \* accelerometer and gyro: ag_fails, s_ag_freeze, imu_icm_ok()
  mag,       \* compass: mag_fails, mag_static, mag_frozen, imu_mag_ok()
  sample,    \* the validity of the sample of the last cycle
  moved,     \* what the last cycle read of each chip: values that moved
  repeats    \* samples in a row given to the fusion task with the same values

healthVars == <<boot, ag, mag, sample, moved, repeats>>

(* imu_init marks a chip that did not answer, or a compass whose settings  *)
(* did not read back, not OK; it may well answer later.                    *)
HealthInit ==
  /\ boot \in [ag : BOOLEAN, mag : BOOLEAN]
  /\ ag = [fails |-> 0, have |-> FALSE, same |-> 0, frozen |-> FALSE, ok |-> boot.ag]
  /\ mag = [fails |-> 0, still |-> 0, frozen |-> FALSE, ok |-> boot.mag]
  /\ sample = [ag |-> FALSE, mag |-> FALSE]
  /\ moved = [ag |-> FALSE, mag |-> FALSE]
  /\ repeats = 0

(* Beyond the first attempt only the distance to the next one matters.     *)
OneMore(n) == IF n = 2 * RecoverEvery THEN RecoverEvery + 1 ELSE n + 1

(* imu_recover_accel_gyro, imu_recover_mag: probed and configured again.   *)
Recovered(n, answers) == n % RecoverEvery = 0 /\ answers

Failed(c, answers) ==
  LET n == OneMore(c.fails)
      recovered == Recovered(n, answers) IN
  [c EXCEPT !.fails = IF recovered THEN 0 ELSE n, !.ok = recovered \/ (@ /\ n # FailLimit)]

(* A chip that answers after many failed reads is OK again.                *)
Answered(c) == [c EXCEPT !.ok = @ \/ c.fails >= FailLimit, !.fails = 0]

(* Mutant: a failed read makes the detector begin again.                   *)
AgFailedForgets(answers) == [Failed(ag, answers) EXCEPT !.have = FALSE, !.same = 0]

AgFailed(answers) == Failed(ag, answers)

Frozen(a, same) == same /\ (a.frozen \/ a.same + 1 >= FreezeLimit)

(* Only the sample that crosses the limit marks the chip not OK.           *)
AgRead(changed) ==
  LET a == Answered(ag)
      same == a.have /\ ~changed IN
  [a EXCEPT !.have = TRUE,
            !.same = IF ~same THEN 0 ELSE IF @ < FreezeLimit THEN @ + 1 ELSE @,
            !.frozen = Frozen(a, same),
            !.ok = IF same THEN @ /\ (a.frozen \/ ~Frozen(a, same)) ELSE @ \/ a.frozen]

(* Mutant: the count of unchanged reads is not cleared at its limit.       *)
MagStillUncleared(m) ==
  LET limit == m.still + 1 >= StillLimit IN
  [m EXCEPT !.still = @ + 1, !.frozen = @ \/ limit, !.ok = @ /\ (m.frozen \/ ~limit)]

MagStill(m) ==
  IF m.still + 1 < StillLimit THEN [m EXCEPT !.still = @ + 1]
  ELSE [m EXCEPT !.still = 0, !.frozen = TRUE, !.ok = @ /\ m.frozen]

MagMoves(m) == [m EXCEPT !.still = 0, !.frozen = FALSE, !.ok = @ \/ m.frozen]

(* The failures before are looked at after the values are.                 *)
MagRead(changed) == Answered(IF changed THEN MagMoves(mag) ELSE MagStill(mag))

Read == {"fail", "recover", "same", "changed"}

ReadCycle(a, m) ==
  /\ ag' = IF a \in {"same", "changed"} THEN AgRead(a = "changed") ELSE AgFailed(a = "recover")
  /\ mag' = IF m \in {"same", "changed"} THEN MagRead(m = "changed") ELSE Failed(mag, m = "recover")
  /\ sample' = [ag |-> a \in {"same", "changed"} /\ ~ag'.frozen, mag |-> m \in {"same", "changed"}]
  /\ moved' = [ag |-> a = "changed", mag |-> m = "changed"]
  /\ repeats' = IF ~sample'.ag THEN repeats ELSE IF a = "changed" THEN 1 ELSE repeats + 1
  /\ UNCHANGED boot

HealthNext == \E a, m \in Read : ReadCycle(a, m)

HealthSpec == HealthInit /\ [][HealthNext]_healthVars

(***************************************************************************)
(* What it promises.                                                       *)
(***************************************************************************)
HealthTypeOK ==
  /\ boot \in [ag : BOOLEAN, mag : BOOLEAN]
  /\ ag \in [fails : 0 .. 2 * RecoverEvery, have : BOOLEAN, same : 0 .. FreezeLimit, frozen : BOOLEAN, ok : BOOLEAN]
  /\ mag \in [fails : 0 .. 2 * RecoverEvery, still : 0 .. StillLimit - 1, frozen : BOOLEAN, ok : BOOLEAN]
  /\ sample \in [ag : BOOLEAN, mag : BOOLEAN] /\ moved \in [ag : BOOLEAN, mag : BOOLEAN]
  /\ repeats \in Nat

(* The fusion task never integrates more than FreezeLimit samples with the *)
(* same values, whatever failures and recoveries come between them         *)
(* (sensor_task.c:342-385).                                                *)
FrozenGyroWithheld == repeats <= FreezeLimit

(* A chip that was OK at boot is OK whenever its values move: what marked  *)
(* it not OK is undone by the read that shows it works (imu_icm_ok(),      *)
(* imu_mag_ok()).                                                          *)
MovingChipOK == (boot.ag /\ moved.ag => ag.ok) /\ (boot.mag /\ moved.mag => mag.ok)

(* What SensorBus says of its two chips: neither stale readings as live    *)
(* ones, nor a working chip as broken.                                     *)
ImuReported == FrozenGyroWithheld /\ MovingChipOK
===============================================================================
