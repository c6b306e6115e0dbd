---------------------------- MODULE RadioProperties ----------------------------
(***************************************************************************)
(* What the field link is meant to do.                                     *)
(***************************************************************************)
EXTENDS Radio

(* Every variable has its type, and no queue or buffer outgrows its size.  *)
RadioTypeOK ==
  /\ TransportTypeOK /\ CoprocessorTypeOK /\ GroundTypeOK
  /\ losses <= MaxLosses
  /\ inits \in Nat

(* The receiving task never waits for an envelope whose holder waits for   *)
(* the receiving task: a response can always be handed over, so a slow     *)
(* send never stops commands (pipeline.c:60-78).                           *)
RxThreadNotBehindSend ==
  ~ /\ rx.pc = "route" /\ envelope[RxEnvelope] = "publisher"
    /\ ~Returned("publisher")

(* The bridge is torn down and rebuilt at most once more than the limit    *)
(* before anything is heard again: the counter is written without a lock   *)
(* (espnow_transport.c:133-151 and 163), which costs one attempt and no    *)
(* more.                                                                   *)
TeardownsBounded == inits <= MaxReinitAttempts + 1

(* Unless more than one packet is lost in between, what the ground bridge  *)
(* hands to the laptop is exactly the frames that arrived whole with       *)
(* nothing left over before them (main.c:354-395).                         *)
DeliveredWhole ==
  [][losses <= 1 /\ handed' # "none" /\ Downlink =>
       (handed' = "delivered" <=> ~gap /\ left = 0)]_radioVars

(* A co-processor that came back deaf is made ready again, unless it       *)
(* crashes once more or the boat has used up its attempts                  *)
(* (espnow_transport.c:93-110).                                            *)
Healing ==
  (mode = "field" /\ watching /\ c6 = "deaf") ~>
    (c6 \in {"ready", "down"} \/ attempts = MaxReinitAttempts)
===============================================================================
