--------------------------- MODULE MCCarefulFlush ---------------------------
(* Small instances of CarefulFlush for TLC. *)
EXTENDS CarefulFlush, TLC
=============================================================================
