---------------------------- MODULE MCFusionStall -----------------------------
(***************************************************************************)
(* The IMU chain with two words per payload and nobody on core 1.          *)
(***************************************************************************)
EXTENDS ImuChainProperties

MCWord == {"attitude", "sequence"}
===============================================================================
