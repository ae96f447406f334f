----------------------------- MODULE LockTableOps -----------------------------
(***************************************************************************)
(* The policy of the lock manager (src/crates/lck/src/lib.rs) as operators *)
(* on values: what one call makes of a lock block, of the table and of the *)
(* posted knocks.  LockTable.tla and DbLocks.tla build their actions from  *)
(* these.                                                                  *)
(*                                                                         *)
(* A table is a function from lock names to blocks.  The source keeps only *)
(* the blocks somebody asked for; here a name without one has EmptyBlock,  *)
(* which every query of the source answers in the same way.                *)
(***************************************************************************)
EXTENDS LockModes, Integers, Sequences, SequencesExt, FiniteSets

CONSTANTS Owners,   \* the ids create_owner may hand out
          Locks     \* the (series, key) names

ASSUME OwnersAssumption == IsFiniteSet(Owners)

NoDeadline == -1    \* a parked request without a lock timeout
NoKnock == -1       \* nothing posted to an owner about a lock

Grant == [owner : Owners, mode : Mode]
Waiter == [owner : Owners, mode : Mode, deadline : Nat \cup {NoDeadline}]
EmptyBlock ==
    [data |-> 0, granted |-> <<>>, counts |-> [m \in Mode |-> 0], pending |-> <<>>]

-------------------------------------------------------------------------------
(* One lock block.                                                         *)

State(b) == Highest({m \in Mode : b.counts[m] > 0} \cup {None_})

StateExcluding(b, o) ==
    LET mine(m) == Cardinality({i \in DOMAIN b.granted :
                                   b.granted[i].owner = o /\ b.granted[i].mode = m})
    IN  Highest({m \in Mode : b.counts[m] > mine(m)} \cup {None_})

HoldsOn(b, o) == \E i \in DOMAIN b.granted : b.granted[i].owner = o
ParkedOn(b, o) == \E i \in DOMAIN b.pending : b.pending[i].owner = o

(* Vec::position over the grants: the first one of the owner. *)
FirstGrant(b, o) ==
    CHOOSE i \in DOMAIN b.granted :
        /\ b.granted[i].owner = o
        /\ \A j \in 1..(i - 1) : b.granted[j].owner # o

BlockedByQueue(b, m) ==
    \E i \in DOMAIN b.pending :
        \/ ~Compatible(m, b.pending[i].mode)
        \/ ~Compatible(b.pending[i].mode, m)

(* Mutant: only the holders are asked. *)
Admits_HoldersOnly(b, m) == Compatible(m, State(b))

Admits(b, m) == Compatible(m, State(b)) /\ ~BlockedByQueue(b, m)

(* Mutant: the grant is pushed, the count forgotten. *)
AddGrant_Uncounted(b, o, m) ==
    [b EXCEPT !.granted = Append(@, [owner |-> o, mode |-> m])]

AddGrant(b, o, m) ==
    [b EXCEPT !.granted = Append(@, [owner |-> o, mode |-> m]),
              !.counts = [b.counts EXCEPT ![m] = @ + 1]]

Park(b, o, m, d) ==
    [b EXCEPT !.pending = Append(@, [owner |-> o, mode |-> m, deadline |-> d])]

(* Mutant: the new mode is not counted. *)
ChangeGrant_OldCountOnly(b, o, m) ==
    LET i == FirstGrant(b, o)
    IN  [b EXCEPT !.granted[i].mode = m,
                  !.counts[b.granted[i].mode] = @ - 1]

(* convert in place: the owner's first grant changes mode. *)
ChangeGrant(b, o, m) ==
    LET i == FirstGrant(b, o)
        old == b.granted[i].mode
        less == [b.counts EXCEPT ![old] = @ - 1]
        more == [less EXCEPT ![m] = @ + 1]
    IN  [b EXCEPT !.granted = [b.granted EXCEPT ![i].mode = m],
                  !.counts = more]

(* The first grant of the owner comes down, if there is one. *)
DropGrant(b, o) ==
    IF HoldsOn(b, o)
    THEN LET i == FirstGrant(b, o)
         IN  [b EXCEPT !.counts = [b.counts EXCEPT ![b.granted[i].mode] = @ - 1],
                       !.granted = RemoveAt(@, i)]
    ELSE b

(* Mutant: every step of the sweep asks the state the sweep began with. *)
AheadState_Stale(b, i) == State(b)

(* The regrant sweep walks the queue in order and stops at the first       *)
(* request the aggregate refuses, each grant raising the aggregate for the *)
(* next.  RegrantCount is how far it gets.                                 *)
AheadState(b, i) ==
    Highest({State(b)} \cup {b.pending[j].mode : j \in 1..(i - 1)})

RegrantCount(b) ==
    Cardinality({k \in DOMAIN b.pending :
        \A i \in 1..k : Compatible(b.pending[i].mode, AheadState(b, i))})

(* Mutant: the granted requests stay in the queue. *)
Regrant_KeepsQueue(b) ==
    LET n == RegrantCount(b)
        new == [i \in 1..n |-> [owner |-> b.pending[i].owner,
                                mode |-> b.pending[i].mode]]
    IN  [b EXCEPT !.granted = @ \o new,
                  !.counts = [m \in Mode |->
                      b.counts[m] + Cardinality({i \in 1..n : new[i].mode = m})]]

Regrant(b) ==
    LET n == RegrantCount(b)
        new == [i \in 1..n |-> [owner |-> b.pending[i].owner,
                                mode |-> b.pending[i].mode]]
    IN  [b EXCEPT !.granted = @ \o new,
                  !.counts = [m \in Mode |->
                      b.counts[m] + Cardinality({i \in 1..n : new[i].mode = m})],
                  !.pending = SubSeq(@, n + 1, Len(@))]

(* Mutant: an empty block is kept. *)
Reap_Never(b) == b

(* A block nobody holds or waits for is removed, its data word with it. *)
Reap(b) == IF b.granted = <<>> /\ b.pending = <<>> THEN EmptyBlock ELSE b

(* The subsequence of s at the positions K. *)
AtPositions(s, K) ==
    [n \in 1..Cardinality(K) |->
        s[CHOOSE k \in K : Cardinality({j \in K : j <= k}) = n]]

Overdue(b, now) ==
    {i \in DOMAIN b.pending :
        b.pending[i].deadline # NoDeadline /\ b.pending[i].deadline <= now}
ExpireBlock(b, now) ==
    [b EXCEPT !.pending = AtPositions(@, DOMAIN b.pending \ Overdue(b, now))]

(* Mutant: a release that does not sweep the queue. *)
DequeueBlock_NoRegrant(b, o) == Reap(DropGrant(b, o))

DequeueBlock(b, o) == Reap(Regrant(DropGrant(b, o)))

(* Mutant: a purge that drops the grant without the release path. *)
PurgeBlock_NoRegrant(b, o) == Reap(DropGrant(b, o))

(* purge_owner on one lock: the owner's waits come down, then one grant by *)
(* way of dequeue; without a grant nothing is regranted.                   *)
PurgeBlock(b, o) ==
    LET mine == {i \in DOMAIN b.pending : b.pending[i].owner = o}
        rest == [b EXCEPT !.pending = AtPositions(@, DOMAIN b.pending \ mine)]
    IN  IF HoldsOn(rest, o) THEN DequeueBlock(rest, o) ELSE Reap(rest)

-------------------------------------------------------------------------------
(* The table: who stands in whose way.                                     *)

Blockers(b, o) ==
    {g \in Owners \ {o} :
        \E i \in DOMAIN b.pending, j \in DOMAIN b.granted :
            /\ b.pending[i].owner = o /\ b.granted[j].owner = g
            /\ ~Compatible(b.pending[i].mode, b.granted[j].mode)}

WaitsFor(t, o) == UNION {Blockers(t[l], o) : l \in Locks}

(* The scan looks for a path of waits from start back to itself: start is  *)
(* in every set that holds whom it waits for and is closed under waiting.  *)
DeadlockFrom(t, start) ==
    \A S \in SUBSET Owners :
        /\ WaitsFor(t, start) \subseteq S
        /\ \A o \in S : WaitsFor(t, o) \subseteq S
        => start \in S

(* A parked request knocks at every owner in its way, once per lock: the   *)
(* mode of an undelivered knock stays.                                     *)
PostKnocks(k, t, o, l, m) ==
    [g \in Owners |->
        IF g \in Blockers(t[l], o) /\ k[g][l] = NoKnock
        THEN [k[g] EXCEPT ![l] = m]
        ELSE k[g]]

-------------------------------------------------------------------------------
(* The verdict of a request and what it makes of the table and the knocks: *)
(* Granted, Waiting and Deadlock come from the state, Rejected from NO     *)
(* WAIT.  The victim of the scan is withdrawn again; its knocks are not.   *)

(* Mutant: the scan runs before the request is parked. *)
EnqueueVerdict_ScanFirst(t, o, l, m, wait, d) ==
    IF Admits(t[l], m) THEN "Granted"
    ELSE IF ~wait THEN "Rejected"
    ELSE IF DeadlockFrom(t, o) THEN "Deadlock"
    ELSE "Waiting"

EnqueueVerdict(t, o, l, m, wait, d) ==
    IF Admits(t[l], m) THEN "Granted"
    ELSE IF ~wait THEN "Rejected"
    ELSE IF DeadlockFrom([t EXCEPT ![l] = Park(@, o, m, d)], o) THEN "Deadlock"
    ELSE "Waiting"

ConvertVerdict(t, o, l, m, wait) ==
    IF ~HoldsOn(t[l], o) THEN "Rejected"
    ELSE IF Compatible(m, StateExcluding(t[l], o)) THEN "Granted"
    ELSE IF ~wait THEN "Rejected"
    ELSE IF DeadlockFrom([t EXCEPT ![l] = Park(@, o, m, NoDeadline)], o) THEN "Deadlock"
    ELSE "Waiting"

AfterEnqueue(t, o, l, m, v, d) ==
    CASE v = "Granted" -> [t EXCEPT ![l] = AddGrant(@, o, m)]
      [] v = "Waiting" -> [t EXCEPT ![l] = Park(@, o, m, d)]
      [] OTHER         -> t

AfterConvert(t, o, l, m, v) ==
    CASE v = "Granted" -> [t EXCEPT ![l] = ChangeGrant(@, o, m)]
      [] v = "Waiting" -> [t EXCEPT ![l] = Park(@, o, m, NoDeadline)]
      [] OTHER         -> t

KnocksAfter(k, t, o, l, m, v, d) ==
    IF v \in {"Waiting", "Deadlock"}
    THEN PostKnocks(k, [t EXCEPT ![l] = Park(@, o, m, d)], o, l, m)
    ELSE k

-------------------------------------------------------------------------------
(* What a block is made of, and what its requests are to each other.       *)

BlockType(b) ==
    /\ b \in [data : Nat, granted : Seq(Grant), counts : [Mode -> Nat],
              pending : Seq(Waiter)]

(* lbl_counts are the grants per mode. *)
CountsMatch(b) ==
    \A m \in Mode :
        b.counts[m] = Cardinality({i \in DOMAIN b.granted : b.granted[i].mode = m})

MutuallyCompatible(b) ==
    \A i, j \in DOMAIN b.granted :
        i # j => Compatible(b.granted[i].mode, b.granted[j].mode)

OneEachOn(b) ==
    /\ \A i, j \in DOMAIN b.granted :
          i # j => b.granted[i].owner # b.granted[j].owner
    /\ \A i, j \in DOMAIN b.pending :
          i # j => b.pending[i].owner # b.pending[j].owner
    /\ \A i \in DOMAIN b.granted, j \in DOMAIN b.pending :
          b.granted[i].owner # b.pending[j].owner
===============================================================================
