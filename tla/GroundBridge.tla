----------------------------- MODULE GroundBridge ------------------------------
(***************************************************************************)
(* The receiving side of the S3 ground bridge                              *)
(* (tools/espnow_bridge/main/main.c): packets are appended to one buffer   *)
(* until one carries a length, and the buffer goes to the laptop when it   *)
(* has that length.  Packets carry no number, so the bridge cannot tell    *)
(* which frame a packet belongs to: `left` and `gap` are what an observer  *)
(* of the air knows and the bridge does not.                               *)
(***************************************************************************)
EXTENDS Integers

CONSTANTS ReassemblyCap   \* REASSEMBLY_BUF_SIZE, main.c:34, in packets

ASSUME GroundBridgeAssumption == ReassemblyCap \in Nat

VARIABLES
  reassembly,  \* s_reassembly_len, in packets
  left,        \* how many of them belong to frames before the one on the air
  gap,         \* a packet of the frame on the air was lost
  losses,      \* packets lost since the buffer was last emptied
  handed       \* what became of the last frame whose last packet arrived

groundVars == <<reassembly, left, gap, losses, handed>>

GroundTypeOK ==
  /\ reassembly \in 0..ReassemblyCap
  /\ left \in 0..reassembly
  /\ gap \in BOOLEAN
  /\ losses \in Nat
  /\ handed \in {"none", "delivered", "dropped"}

GroundInit ==
  /\ reassembly = 0 /\ left = 0 /\ gap = FALSE /\ losses = 0
  /\ handed = "none"

(* Mutant: any last packet completes a frame.                              *)
LengthMatchesAny(size) == TRUE

(* main.c:370: the buffer has the length the last packet announces.        *)
LengthMatches(size) == reassembly + 1 = size

(* espnow_recv_cb: a packet that does not fit empties the buffer, an       *)
(* intermediate one waits for more, and the last one empties the buffer    *)
(* after handing it to the USB queue, or without when the length differs.  *)
Hear(size, last) ==
  LET fits == reassembly < ReassemblyCap
      emptied == ~fits \/ last
  IN  /\ handed' = IF ~fits \/ ~last THEN "none"
                   ELSE IF LengthMatches(size) THEN "delivered" ELSE "dropped"
      /\ reassembly' = IF emptied THEN 0 ELSE reassembly + 1
      /\ left' = IF emptied THEN 0 ELSE left
      /\ gap' = IF last THEN FALSE ELSE gap \/ ~fits
      /\ losses' = IF emptied THEN 0 ELSE losses

(* The packet never arrives; a lost last packet leaves the rest behind.    *)
Miss(last) ==
  /\ losses' = losses + 1
  /\ gap' = ~last
  /\ left' = IF last THEN reassembly ELSE left
  /\ handed' = "none"
  /\ UNCHANGED reassembly

(* The sender stops in the middle of a frame.                              *)
CutShort == Miss(TRUE)
===============================================================================
