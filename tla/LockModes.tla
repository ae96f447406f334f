------------------------------ MODULE LockModes ------------------------------
(***************************************************************************)
(* The seven lock modes of src/crates/lck/src/lib.rs and the compatibility *)
(* matrix every grant decision probes.  A mode is its number in the source *)
(* because a lock block's aggregate state is "the highest granted mode".   *)
(***************************************************************************)
EXTENDS Naturals

None_ == 0
Null == 1
SharedRead == 2
ProtectedRead == 3
SharedWrite == 4
ProtectedWrite == 5
Exclusive == 6

Mode == None_..Exclusive

(* One row of the matrix per requested mode: the held modes it tolerates.  *)
Tolerates(m) ==
    CASE m \in {None_, Null}   -> Mode
      [] m = SharedRead        -> Mode \ {Exclusive}
      [] m = ProtectedRead     -> None_..ProtectedRead
      [] m = SharedWrite       -> {None_, Null, SharedRead, SharedWrite}
      [] m = ProtectedWrite    -> None_..SharedRead
      [] m = Exclusive         -> {None_, Null}

Compatible(requested, held) == held \in Tolerates(requested)

(* The aggregate of a non-empty set of granted modes. *)
Highest(S) == CHOOSE m \in S : \A n \in S : n <= m
==============================================================================
