-------------------------------- MODULE MCRadio --------------------------------
(***************************************************************************)
(* Frames of one packet (telemetry, every status) and of three (the        *)
(* detections), and one packet lost between two emptyings of the buffer.   *)
(***************************************************************************)
EXTENDS RadioProperties

MCSizes == {1, 3}
===============================================================================
