------------------------------ MODULE Coprocessor ------------------------------
(***************************************************************************)
(* The ESP-NOW bridge on the C6 co-processor                               *)
(* (tools/slave_firmware/espnow_bridge.c): the handlers of the host's      *)
(* custom messages, the transmit queue, and the task that cuts a frame     *)
(* into radio packets.  The host reaches the handlers by remote calls that *)
(* run one at a time in one task of the C6.                                *)
(***************************************************************************)
EXTENDS Integers, Sequences

CONSTANTS
  TxQueueDepth,   \* TX_QUEUE_DEPTH, espnow_bridge.c:90
  Sizes           \* the lengths of frames, in packets of FRAG_DATA_SIZE bytes

ASSUME CoprocessorAssumption ==
  /\ TxQueueDepth \in Nat \ {0}
  /\ Sizes \subseteq Nat \ {0}

VARIABLES
  c6,         \* "down", or booted and s_espnow_ready FALSE ("deaf", or inside
              \* init_cb, "initing"), or s_espnow_ready TRUE ("ready")
  tx_queue,   \* s_tx_queue, a sequence of frame lengths
  tx          \* espnow_tx_task: the length of its frame, 0 for none, and the
              \* packets it has sent of it

c6Vars == <<c6, tx_queue, tx>>

NoFrame == [size |-> 0, sent |-> 0]

CoprocessorTypeOK ==
  /\ c6 \in {"down", "deaf", "initing", "ready"}
  /\ tx_queue \in Seq(Sizes) /\ Len(tx_queue) <= TxQueueDepth
  /\ tx = NoFrame \/ (tx.size \in Sizes /\ tx.sent \in 0..(tx.size - 1))

(* espnow_bridge_init has registered the handlers and waits for INIT.      *)
CoprocessorInit ==
  /\ c6 = "deaf"
  /\ tx_queue = <<>>
  /\ tx = NoFrame

(* A crash or a brown-out: everything the C6 held is gone.                 *)
Crash ==
  /\ c6 # "down"
  /\ c6' = "down"
  /\ tx_queue' = <<>>
  /\ tx' = NoFrame

(* espnow_bridge_init after a reset: nothing here asks the host for INIT.  *)
Boot ==
  /\ c6 = "down"
  /\ c6' = "deaf"
  /\ UNCHANGED <<tx_queue, tx>>

(* The remote-call task is free to take the host's next call.              *)
CanServe == c6 \in {"deaf", "ready"}

(* init_cb until esp_now_init: a previous session is torn down.            *)
InitBegins ==
  /\ CanServe
  /\ c6' = "initing"
  /\ UNCHANGED <<tx_queue, tx>>

(* init_cb from esp_now_init: ready, or an error return with ESP-NOW off.  *)
InitEnds(ok) ==
  /\ c6 = "initing"
  /\ c6' = IF ok THEN "ready" ELSE "deaf"
  /\ UNCHANGED <<tx_queue, tx>>

(* Mutant: the queue is taken to have room.                                *)
VideoCbUnchecked(size) ==
  /\ CanServe
  /\ tx_queue' = Append(tx_queue, size)
  /\ UNCHANGED <<c6, tx>>

(* video_cb: a full queue drops the frame, and the host is not told.       *)
VideoCb(size) ==
  /\ CanServe
  /\ tx_queue' = IF Len(tx_queue) < TxQueueDepth THEN Append(tx_queue, size) ELSE tx_queue
  /\ UNCHANGED <<c6, tx>>

(* espnow_tx_task takes the next frame, and drops it when not ready.       *)
TakeFrame ==
  /\ c6 # "down" /\ tx = NoFrame /\ tx_queue # <<>>
  /\ tx' = IF c6 = "ready" THEN [size |-> Head(tx_queue), sent |-> 0] ELSE NoFrame
  /\ tx_queue' = Tail(tx_queue)
  /\ UNCHANGED c6

(* One turn of espnow_frag_send: the header of the last packet alone       *)
(* carries the length of the frame, the header of the others is 0.         *)
LastPacket == tx.sent + 1 = tx.size

SendPacket ==
  /\ c6 # "down" /\ tx # NoFrame
  /\ tx' = IF LastPacket THEN NoFrame ELSE [tx EXCEPT !.sent = @ + 1]
  /\ UNCHANGED <<c6, tx_queue>>
===============================================================================
