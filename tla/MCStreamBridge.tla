--------------------------- MODULE MCStreamBridge ---------------------------
(* Small instances of StreamBridge for TLC. *)
EXTENDS StreamBridge

CONSTANTS r1, r2, r3, a1, a2 \* model values
=============================================================================
