--------------------------- MODULE MCTokenRefresh ---------------------------
(* Small instances of TokenRefresh for TLC. *)
EXTENDS TokenRefresh

CONSTANTS c1, c2, c3, k1, k2 \* model values
=============================================================================
