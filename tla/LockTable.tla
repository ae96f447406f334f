------------------------------ MODULE LockTable ------------------------------
(***************************************************************************)
(* LockTable of src/crates/lck/src/lib.rs: the in-process lock manager.    *)
(* Every call runs under one mutex, so every action is one whole call.     *)
(*                                                                         *)
(* Spec lets any caller make any call the API offers.  DisciplinedSpec     *)
(* keeps to what the callers in wire/src/dblocks.rs do: an owner asks for  *)
(* a lock it has no request on, never waits in a convert, and makes no     *)
(* call while a request of its own is parked (its thread is asleep).       *)
(***************************************************************************)
EXTENDS LockTableOps

CONSTANTS RequestModes,   \* the modes callers ask for
          Deadlines,      \* the lock-timeout ticks a wait may carry
          DataWords,      \* the values write_data stamps
          MaxRequests     \* bound: grants and waits, all locks together

ASSUME LockTableAssumption ==
    /\ RequestModes \subseteq Mode
    /\ Deadlines \subseteq Nat
    /\ DataWords \subseteq Nat

VARIABLES owners,   \* ids handed out by create_owner
          table,    \* locks
          knocks    \* the knocks not yet taken, per owner and lock

vars == <<owners, table, knocks>>

-------------------------------------------------------------------------------
Init ==
    /\ owners = {}
    /\ table = [l \in Locks |-> EmptyBlock]
    /\ knocks = [o \in Owners |-> [l \in Locks |-> NoKnock]]

Requests(l) == Len(table[l].granted) + Len(table[l].pending)
Room == MapThenSumSet(Requests, Locks) < MaxRequests

CreateOwner(o) ==
    /\ o \notin owners
    /\ owners' = owners \cup {o}
    /\ UNCHANGED <<table, knocks>>

Enqueue(o, l, m, wait, d) ==
    LET v == EnqueueVerdict(table, o, l, m, wait, d)
    IN  /\ Room
        /\ table' = AfterEnqueue(table, o, l, m, v, d)
        /\ knocks' = KnocksAfter(knocks, table, o, l, m, v, d)
        /\ UNCHANGED owners

Convert(o, l, m, wait) ==
    LET v == ConvertVerdict(table, o, l, m, wait)
    IN  /\ v = "Waiting" => Room
        /\ table' = AfterConvert(table, o, l, m, v)
        /\ knocks' = KnocksAfter(knocks, table, o, l, m, v, NoDeadline)
        /\ UNCHANGED owners

Dequeue(o, l) ==
    /\ table' = [table EXCEPT ![l] = DequeueBlock(@, o)]
    /\ UNCHANGED <<owners, knocks>>

TakeKnocks(o) ==
    /\ knocks' = [knocks EXCEPT ![o] = [l \in Locks |-> NoKnock]]
    /\ UNCHANGED <<owners, table>>

Expire(now) ==
    /\ table' = [l \in Locks |-> ExpireBlock(table[l], now)]
    /\ UNCHANGED <<owners, knocks>>

PurgeOwner(o) ==
    /\ table' = [l \in Locks |-> PurgeBlock(table[l], o)]
    /\ UNCHANGED <<owners, knocks>>

WriteData(o, l, w) ==
    /\ HoldsOn(table[l], o)
    /\ table' = [table EXCEPT ![l].data = w]
    /\ UNCHANGED <<owners, knocks>>

-------------------------------------------------------------------------------
Waits == Deadlines \cup {NoDeadline}

EnqueueWait == \E o \in owners, l \in Locks, m \in RequestModes, d \in Waits :
    Enqueue(o, l, m, TRUE, d)
EnqueueNoWait == \E o \in owners, l \in Locks, m \in RequestModes :
    Enqueue(o, l, m, FALSE, NoDeadline)
ConvertWait == \E o \in owners, l \in Locks, m \in RequestModes :
    Convert(o, l, m, TRUE)
ConvertNoWait == \E o \in owners, l \in Locks, m \in RequestModes :
    Convert(o, l, m, FALSE)

Next ==
    \/ \E o \in Owners : CreateOwner(o)
    \/ EnqueueWait
    \/ EnqueueNoWait
    \/ ConvertWait
    \/ ConvertNoWait
    \/ \E o \in owners, l \in Locks : Dequeue(o, l)
    \/ \E o \in owners : TakeKnocks(o)
    \/ \E now \in Deadlines : Expire(now)
    \/ \E o \in owners : PurgeOwner(o)
    \/ \E o \in owners, l \in Locks, w \in DataWords : WriteData(o, l, w)

Spec == Init /\ [][Next]_vars

-------------------------------------------------------------------------------
(* The calls of wire/src/dblocks.rs.                                       *)

Idle(o) == \A l \in Locks : ~ParkedOn(table[l], o)
Fresh(o, l) == Idle(o) /\ ~HoldsOn(table[l], o)

DisciplinedEnqueue ==
    \E o \in owners, l \in Locks, m \in RequestModes, wait \in BOOLEAN, d \in Waits :
        Fresh(o, l) /\ Enqueue(o, l, m, wait, d)
DisciplinedConvert ==
    \E o \in owners, l \in Locks, m \in RequestModes :
        Idle(o) /\ Convert(o, l, m, FALSE)
DisciplinedDequeue ==
    \E o \in owners, l \in Locks : Idle(o) /\ Dequeue(o, l)
DisciplinedPurge ==
    \E o \in owners : Idle(o) /\ PurgeOwner(o)
AnyExpire == \E now \in Deadlines : Expire(now)

DisciplinedNext ==
    \/ \E o \in Owners : CreateOwner(o)
    \/ DisciplinedEnqueue
    \/ DisciplinedConvert
    \/ DisciplinedDequeue
    \/ DisciplinedPurge
    \/ AnyExpire

DisciplinedSpec == Init /\ [][DisciplinedNext]_vars

-------------------------------------------------------------------------------
(* What every state is made of.                                            *)
TypeOK ==
    /\ owners \subseteq Owners
    /\ DOMAIN table = Locks
    /\ \A l \in Locks : BlockType(table[l])
    /\ knocks \in [Owners -> [Locks -> Mode \cup {NoKnock}]]

(* lbl_counts are exactly the grants per mode: a count that drifts makes   *)
(* the single probe of the grant test answer for holders that are not      *)
(* there, or underflows (enqueue, convert, dequeue and the regrant sweep   *)
(* each update grants and counts separately).                              *)
CountsExact == \A l \in Locks : CountsMatch(table[l])

(* Nobody is parked on a lock without holders: there is always a release   *)
(* to come that runs the regrant sweep over the queue (a lost wakeup would *)
(* leave the queue standing on a free lock).                               *)
QueueHasHolder ==
    \A l \in Locks : table[l].pending # <<>> => table[l].granted # <<>>

(* "data outlives no lock": the next taker of a name that everybody gave   *)
(* up reads zero, whichever call took the last request down.               *)
DataDiesWithLock ==
    \A l \in Locks :
        table[l].granted = <<>> /\ table[l].pending = <<>> => table[l].data = 0

(* The granted modes of one lock are mutually compatible: what the single  *)
(* probe against the highest mode rests on (lib.rs, "The granted-state     *)
(* aggregate").                                                            *)
GrantedCompatible == \A l \in Locks : MutuallyCompatible(table[l])

(* An owner has at most one request on a lock: one grant, or one wait      *)
(* and no grant (purge_owner releases one grant per lock and relies on it).*)
OneRequest == \A l \in Locks : OneEachOn(table[l])

(* No set of owners wait for each other's grants: the scan at park time    *)
(* catches every cycle, though later regrants add edges it never sees.     *)
WaitForAcyclic ==
    \A S \in SUBSET Owners :
        S # {} => \E o \in S : WaitsFor(table, o) \cap S = {}

(* Nobody is granted past an earlier waiter it conflicts with: an owner    *)
(* that comes to hold a lock is compatible with everybody that was parked  *)
(* there before it and still is.                                           *)
ParkedBefore(b, q, o) ==
    \E i \in DOMAIN b.pending :
        /\ b.pending[i].owner = q
        /\ \A j \in 1..i : b.pending[j].owner # o
NobodyOvertaken ==
    \A l \in Locks : \A g \in DOMAIN table'[l].granted :
        LET new == table'[l].granted[g]
        IN  ~HoldsOn(table[l], new.owner) =>
              \A q \in DOMAIN table'[l].pending :
                  LET old == table'[l].pending[q]
                  IN  ParkedBefore(table[l], old.owner, new.owner) =>
                          Compatible(new.mode, old.mode)
NoOvertaking == [][NobodyOvertaken]_vars

(* A purged owner is gone from every lock, and what its grants blocked is  *)
(* granted in the same call: no waiter is left at the head of a queue that *)
(* the remaining holders would admit.  (purge_owner, release_all)          *)
HeadAdmitted(b) ==
    b.pending # <<>> /\ Compatible(Head(b.pending).mode, State(b))
PurgeLeavesNothing ==
    \A o \in Owners : PurgeOwner(o) =>
        \A l \in Locks :
            /\ ~HoldsOn(table'[l], o)
            /\ ~ParkedOn(table'[l], o)
            /\ HoldsOn(table[l], o) => ~HeadAdmitted(table'[l])
PurgeIsComplete == [][PurgeLeavesNothing]_vars

(* The verdict Deadlock is given "instead of letting it wait forever": no  *)
(* set of owners is stuck on each other.  A parked request waits for the   *)
(* grants it conflicts with and for everybody ahead of it in the queue,    *)
(* since the sweep stops at the first request it cannot grant.  Of this    *)
(* code it does not hold: the scan follows the grants only (README, 4).    *)
AheadInQueue(b, o) ==
    {q \in Owners \ {o} : ParkedOn(b, o) /\ ParkedBefore(b, q, o)}
StuckBehind(o) ==
    UNION {Blockers(table[l], o) \cup AheadInQueue(table[l], o) : l \in Locks}
NobodyWaitsForever ==
    \A S \in SUBSET Owners :
        S # {} => \E o \in S : StuckBehind(o) \cap S = {}
===============================================================================
