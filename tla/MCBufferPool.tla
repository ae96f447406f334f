---------------------------- MODULE MCBufferPool ----------------------------
(* Small instances of BufferPool for TLC. *)
EXTENDS BufferPool, TLC

Symmetry == Permutations(Threads) \cup Permutations(Pages) \cup Permutations(Writes)
=============================================================================
