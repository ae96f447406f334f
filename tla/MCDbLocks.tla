----------------------------- MODULE MCDbLocks -----------------------------
(* Small instances of DbLocks for TLC.                                      *)
EXTENDS DbLocks, TLC

CONSTANTS o1, o2, o3, probe, relation

ThreeCallers == {o1, o2, o3}
TwoCallers == {o1, o2}
OneCaller == {o1}
ThreeAndProbe == ThreeCallers \cup {probe}
TwoAndProbe == TwoCallers \cup {probe}
OneRelation == {relation}

LocksOfThree == {TraLock(o) : o \in ThreeCallers} \cup {RelLock(relation)}
LocksOfTwo == {TraLock(o) : o \in TwoCallers} \cup {RelLock(relation)}
============================================================================
