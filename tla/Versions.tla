------------------------------- MODULE Versions -------------------------------
(***************************************************************************)
(* Record versions: who sees which version of a row, how a write puts a    *)
(* version in front of a chain and what garbage collection takes out of    *)
(* it (src/crates/ods/src/tra.rs, dml.rs, gc.rs).                          *)
(*                                                                         *)
(* A chain is a sequence of versions, the head first.  A version is the    *)
(* transaction that wrote it and whether it is a deleted stub; the bytes   *)
(* of the record are left out.  tip is the transaction inventory.          *)
(***************************************************************************)
EXTENDS Naturals, Sequences

TxState == {"Active", "Limbo", "Dead", "Committed"}

Version(tx, del) == [tx |-> tx, del |-> del]
NoRow == Version(0, TRUE)   \* what a reader without a visible version reads

(* The system transaction is committed by definition. *)
StateOf(tip, t) == IF t = 0 THEN "Committed" ELSE tip[t]

Least(S) == CHOOSE i \in S : \A j \in S : i <= j

-------------------------------------------------------------------------------
(* A snapshot is the inventory as it stood: the first id not handed out    *)
(* and the ids below it that could still commit.  committed_own are ids    *)
(* its transaction committed since while it went on (COMMIT RETAIN).       *)
Latest == [limit |-> 0, active |-> {}, committed_own |-> {}]   \* no snapshot

(* Mutant: the limit is one past the id to be handed out next. *)
Capture_PastNext(next, tip) ==
    [limit |-> next + 2,
     active |-> {t \in 1..next : tip[t] \in {"Active", "Limbo"}},
     committed_own |-> {}]

(* Mutant: a transaction in limbo is not held out of the snapshot. *)
Capture_LimboIsOver(next, tip) ==
    [limit |-> next + 1,
     active |-> {t \in 1..next : tip[t] = "Active"},
     committed_own |-> {}]

Capture(next, tip) ==
    [limit |-> next + 1,
     active |-> {t \in 1..next : tip[t] \in {"Active", "Limbo"}},
     committed_own |-> {}]

Sees(snap, t) ==
    \/ t < snap.limit /\ t \notin snap.active
    \/ t \in snap.committed_own

Counts(tip, own, snap, t) ==
    \/ t \in own
    \/ t = 0
    \/ StateOf(tip, t) = "Committed" /\ (snap = Latest \/ Sees(snap, t))

(* The walk stops at the first version that counts. *)
Counted(tip, own, snap, chain) ==
    {i \in DOMAIN chain : Counts(tip, own, snap, chain[i].tx)}

Visible(tip, own, snap, chain) ==
    LET C == Counted(tip, own, snap, chain)
    IN  IF C = {} \/ chain[Least(C)].del THEN NoRow ELSE chain[Least(C)]

(* A strict walk refuses to step past a version in limbo. *)
MeetsLimbo(tip, own, snap, chain) ==
    \E i \in DOMAIN chain :
        /\ StateOf(tip, chain[i].tx) = "Limbo" /\ chain[i].tx \notin own
        /\ \A j \in 1..i : ~Counts(tip, own, snap, chain[j].tx)

-------------------------------------------------------------------------------
(* A write puts its version in front.  A deleted stub of a dead            *)
(* transaction is overwritten in place: it would be a back version without *)
(* data.                                                                   *)
WriteOver(tip, chain, version) ==
    IF Head(chain).del /\ StateOf(tip, Head(chain).tx) = "Dead"
    THEN <<version>> \o Tail(chain)
    ELSE <<version>> \o chain

(* The sweep backs out versions of dead transactions, and of active ones   *)
(* nobody holds, from the head on.                                         *)
BackedOut(tip, held, t) ==
    \/ StateOf(tip, t) = "Dead"
    \/ StateOf(tip, t) = "Active" /\ t \notin held

Remaining(tip, held, chain) ==
    {i \in DOMAIN chain : ~BackedOut(tip, held, chain[i].tx)}

(* Mutant: a limbo head loses its history like a committed one. *)
SweepChain_LimboToo(tip, held, chain) ==
    LET K == Remaining(tip, held, chain)
        head == chain[Least(K)]
    IN  IF K = {} THEN <<>>
        ELSE IF StateOf(tip, head.tx) \in {"Committed", "Limbo"}
             THEN IF head.del THEN <<>> ELSE <<head>>
             ELSE SubSeq(chain, Least(K), Len(chain))

(* What is left of a chain: of a committed head the head alone, or nothing *)
(* if it is a stub; a live or limbo head keeps what is behind it.          *)
SweepChain(tip, held, chain) ==
    LET K == Remaining(tip, held, chain)
        head == chain[Least(K)]
    IN  IF K = {} THEN <<>>
        ELSE IF StateOf(tip, head.tx) = "Committed"
             THEN IF head.del THEN <<>> ELSE <<head>>
             ELSE SubSeq(chain, Least(K), Len(chain))

(* The active transactions the sweep finds abandoned and marks dead: the   *)
(* ones whose version becomes the head of its row.                         *)
Abandoned(tip, held, chain) ==
    {t \in {chain[i].tx : i \in {j \in DOMAIN chain :
                                    \A k \in 1..j : BackedOut(tip, held, chain[k].tx)}} :
        StateOf(tip, t) = "Active"}
===============================================================================
