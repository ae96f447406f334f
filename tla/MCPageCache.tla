---------------------------- MODULE MCPageCache ----------------------------
(* Small instances of PageCache for TLC. *)
EXTENDS PageCache, TLC
============================================================================
