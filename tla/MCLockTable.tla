---------------------------- MODULE MCLockTable ----------------------------
(* Small instances of LockTable for TLC: owners and locks as symmetric      *)
(* model values.                                                            *)
EXTENDS LockTable, TLC

CONSTANTS a, b, c, l1, l2

TwoOwners == {a, b}
ThreeOwners == {a, b, c}
OneLock == {l1}
TwoLocks == {l1, l2}

SymTwoOwners == Permutations(TwoOwners)
SymThreeTwo == Permutations(ThreeOwners) \cup Permutations(TwoLocks)

(* Knocks are posted and never read by the calls of DisciplinedSpec, and no *)
(* property of it speaks of them: states that differ in them alone are one. *)
KnocksApart == <<owners, table>>
============================================================================
