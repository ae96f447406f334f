------------------------------- MODULE MCEvents -------------------------------
(* Small instances of Events for TLC. *)
EXTENDS Events, TLC

Symmetry == Permutations(Sessions) \cup Permutations(Names)

(* Queues are kept short. *)
FewInterests == Len(interests) <= 2
===============================================================================
