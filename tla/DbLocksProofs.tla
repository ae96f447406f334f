---------------------------- MODULE DbLocksProofs ----------------------------
(***************************************************************************)
(* Theorems about DbLocks, for any callers, relations, timeouts and any    *)
(* bound on the clock: what a thread may rely on when it reserves a        *)
(* relation or waits for a transaction beside any number of others.        *)
(***************************************************************************)
EXTENDS DbLocks, LockTableOpsProofs

-------------------------------------------------------------------------------
(* The inductive invariant.  A grant is there for a reason: a reservation  *)
(* at the level its owner asks for, the lock of a transaction that lives,  *)
(* or the share of a thread that still waits for that transaction's end.   *)
ReservedMode(o, m) ==
    m \in IF o \in Consistency THEN {ProtectedRead, ProtectedWrite} ELSE {SharedWrite}
MayHold(o, l, m) ==
    /\ o \in Callers
    /\ \/ \E r \in Relations : l = RelLock(r) /\ ReservedMode(o, m)
       \/ l = TraLock(o) /\ m = Exclusive /\ phase[o] = "live"
       \/ m = SharedRead /\ call[o].lock = l /\ \E x \in Callers \ {o} : l = TraLock(x)

(* A wait in the table is the call its thread is parked in. *)
MayWait(w, l) ==
    /\ w.owner \in Callers
    /\ call[w.owner] = [lock |-> l, mode |-> w.mode, deadline |-> w.deadline]

(* A thread is parked for a relation, or for a transaction that has held   *)
(* its own lock.                                                           *)
WaitsFairly(o, l, m) ==
    \/ m = SharedRead /\ \E x \in Callers \ {o} :
          l = TraLock(x) /\ phase[x] \in {"live", "ended"}
    \/ m = DmlMode(o) /\ \E r \in Relations : l = RelLock(r)
CallOK(o) ==
    \/ call[o] = NotWaiting
    \/ /\ call[o] \in [lock : Locks, mode : Mode, deadline : Nat]
       /\ WaitsFairly(o, call[o].lock, call[o].mode)

Typing ==
    /\ now \in 0..MaxTime
    /\ phase \in [Callers -> {"new", "live", "ended", "closed"}]
    /\ DOMAIN call = Callers /\ \A o \in Callers : CallOK(o)
    /\ DOMAIN table = Locks /\ \A l \in Locks : Orderly(table[l])
    /\ answer.says \in {"nothing", "Granted", "Conflict", "Deadlock", "Ended", "TimedOut"}

GrantsAreDue ==
    \A l \in Locks : \A g \in GrantsOf(table[l]) : MayHold(g.owner, l, g.mode)
WaitsAreCalls ==
    \A l \in Locks : \A w \in QueueOf(table[l]) : MayWait(w, l)
LiveHolds ==
    \A x \in Callers : phase[x] = "live" =>
        [owner |-> x, mode |-> Exclusive] \in GrantsOf(table[TraLock(x)])
WritersHold ==
    \A w \in writers : \E o \in Callers, r \in Relations :
        w = <<o, r>> /\ HoldsOn(table[RelLock(r)], o)

DbInv ==
    /\ Typing
    /\ GrantsAreDue
    /\ WaitsAreCalls
    /\ LiveHolds
    /\ NoLostWait
    /\ WritersHold
    /\ EndedMeansEnded

-------------------------------------------------------------------------------
(* Names and modes.                                                        *)
LEMMA LockNames ==
    /\ \A o, p : TraLock(o) = TraLock(p) => o = p
    /\ \A r, s : RelLock(r) = RelLock(s) => r = s
    /\ \A o, r : TraLock(o) # RelLock(r)
    /\ \A o : IsTra(TraLock(o))
    /\ \A r : ~IsTra(RelLock(r)) /\ RelLock(r)[2] = r
    /\ \A o \in Callers : TraLock(o) \in Locks
    /\ \A r \in Relations : RelLock(r) \in Locks
    /\ \A l \in Locks : \/ \E o \in Callers : l = TraLock(o)
                        \/ \E r \in Relations : l = RelLock(r)
BY DbLocksAssumption DEF TraLock, RelLock, IsTra

LEMMA NoLockIsEmpty == <<>> \notin Locks
<1>1. \A o, r : TraLock(o) # <<>> /\ RelLock(r) # <<>>
  BY DEF TraLock, RelLock
<1>. QED
  BY <1>1, LockNames

LEMMA UsedModes ==
    /\ SharedRead \in Mode /\ ProtectedRead \in Mode /\ SharedWrite \in Mode
    /\ ProtectedWrite \in Mode /\ Exclusive \in Mode
    /\ \A o : DmlMode(o) \in Mode /\ ReservedMode(o, DmlMode(o))
    /\ \A o \in Consistency : ReservedMode(o, ProtectedRead)
BY ModeNumbers DEF SharedRead, ProtectedRead, SharedWrite, ProtectedWrite, Exclusive,
                   DmlMode, ReservedMode

LEMMA ModesMeet ==
    /\ Compatible(SharedRead, SharedRead)
    /\ ~Compatible(SharedRead, Exclusive) /\ ~Compatible(Exclusive, SharedRead)
    /\ ~Compatible(ProtectedRead, SharedWrite) /\ ~Compatible(ProtectedWrite, SharedWrite)
BY CompatibleTable, UsedModes
   DEF SharedRead, ProtectedRead, SharedWrite, ProtectedWrite, Exclusive

(* What enqueue answers, and what it makes of the table. *)
LEMMA VerdictCases ==
    ASSUME NEW t, NEW o, NEW l, NEW m, NEW wait, NEW d
    PROVE  LET v == EnqueueVerdict(t, o, l, m, wait, d)
               u == AfterEnqueue(t, o, l, m, v, d)
           IN  \/ v = "Granted" /\ Admits(t[l], m) /\ u = [t EXCEPT ![l] = AddGrant(@, o, m)]
               \/ v = "Waiting" /\ wait = TRUE /\ ~Admits(t[l], m)
                  /\ u = [t EXCEPT ![l] = Park(@, o, m, d)]
               \/ v = "Rejected" /\ ~wait /\ ~Admits(t[l], m) /\ u = t
               \/ v = "Deadlock" /\ ~Admits(t[l], m) /\ u = t
BY DEF EnqueueVerdict, AfterEnqueue

-------------------------------------------------------------------------------
(* What the invariant says of the requests on a lock.                      *)
LEMMA CallIsWait ==
    ASSUME DbInv, NEW l \in Locks, NEW w \in QueueOf(table[l])
    PROVE  /\ w.owner \in Callers
           /\ call[w.owner].lock = l /\ call[w.owner].mode = w.mode
           /\ call[w.owner].deadline = w.deadline /\ w.deadline \in Nat
           /\ call[w.owner] # NotWaiting
           /\ \/ \E x \in Callers \ {w.owner} :
                    l = TraLock(x) /\ phase[x] \in {"live", "ended"} /\ w.mode = SharedRead
              \/ \E r \in Relations : l = RelLock(r) /\ w.mode = DmlMode(w.owner)
<1>1. w.owner \in Callers
      /\ call[w.owner] = [lock |-> l, mode |-> w.mode, deadline |-> w.deadline]
  BY DEF DbInv, WaitsAreCalls, MayWait
<1>2. /\ call[w.owner].lock = l /\ call[w.owner].mode = w.mode
      /\ call[w.owner].deadline = w.deadline
  BY <1>1
<1>3. call[w.owner] # NotWaiting
  BY <1>2, NoLockIsEmpty DEF NotWaiting
<1>4. CallOK(w.owner)
  BY <1>1 DEF DbInv, Typing
<1>. QED
  BY <1>1, <1>2, <1>3, <1>4 DEF CallOK, WaitsFairly

LEMMA WaitMayHold ==
    ASSUME DbInv, NEW l \in Locks, NEW w \in QueueOf(table[l])
    PROVE  MayHold(w.owner, l, w.mode)
BY CallIsWait, UsedModes DEF MayHold

(* An owner that is not parked waits nowhere, and shares nobody's lock. *)
LEMMA AwakeIsNowhere ==
    ASSUME DbInv, NEW o, o = Probe \/ call[o] = NotWaiting, NEW l \in Locks
    PROVE  /\ \A w \in QueueOf(table[l]) : w.owner # o
           /\ ~ParkedOn(table[l], o)
           /\ \A x \in Callers \ {o} : l = TraLock(x) => ~HoldsOn(table[l], o)
           /\ o = Probe => ~HoldsOn(table[l], o)
<1>1. \A w \in QueueOf(table[l]) : w.owner # o
  BY CallIsWait DEF Callers
<1>2. ASSUME HoldsOn(table[l], o), NEW x, l = TraLock(x), x # o PROVE FALSE
  <2>1. PICK g \in GrantsOf(table[l]) : g.owner = o
    BY <1>2, OnSets
  <2>2. MayHold(o, l, g.mode)
    BY <2>1 DEF DbInv, GrantsAreDue
  <2>3. call[o].lock = l /\ o \in Callers
    BY <1>2, <2>2, LockNames DEF MayHold
  <2>4. call[o].lock = <<>>
    BY <2>3 DEF NotWaiting, Callers
  <2>. QED
    BY <2>3, <2>4, NoLockIsEmpty
<1>3. o = Probe => ~HoldsOn(table[l], o)
  BY OnSets DEF DbInv, GrantsAreDue, MayHold, Callers
<1>. QED
  BY <1>1, <1>2, <1>3, OnSets

(* The lock of a transaction: nobody's before it wrote, its own alone      *)
(* while it lives, shared by its last waiters when it has ended.           *)
LEMMA TransactionLock ==
    ASSUME DbInv, NEW x \in Callers
    PROVE  /\ phase[x] = "live" =>
                 GrantsOf(table[TraLock(x)]) = {[owner |-> x, mode |-> Exclusive]}
           /\ phase[x] = "ended" =>
                 /\ \A g \in GrantsOf(table[TraLock(x)]) : g.mode = SharedRead
                 /\ \A w \in QueueOf(table[TraLock(x)]) : w.mode = SharedRead
           /\ phase[x] \in {"new", "closed"} =>
                 GrantsOf(table[TraLock(x)]) = {} /\ QueueOf(table[TraLock(x)]) = {}
<1>. DEFINE l == TraLock(x)
            b == table[l]
<1>1. l \in Locks /\ Orderly(b)
  BY LockNames DEF DbInv, Typing
<1>2. \A g \in GrantsOf(b) :
          \/ g.owner = x /\ g.mode = Exclusive /\ phase[x] = "live"
          \/ g.mode = SharedRead /\ phase[x] \in {"live", "ended"}
  <2>. SUFFICES ASSUME NEW g \in GrantsOf(b)
                PROVE  \/ g.owner = x /\ g.mode = Exclusive /\ phase[x] = "live"
                       \/ g.mode = SharedRead /\ phase[x] \in {"live", "ended"}
    OBVIOUS
  <2>1. MayHold(g.owner, l, g.mode)
    BY <1>1 DEF DbInv, GrantsAreDue
  <2>2. CASE l = TraLock(g.owner) /\ g.mode = Exclusive /\ phase[g.owner] = "live"
    BY <2>2, LockNames
  <2>3. CASE g.mode = SharedRead /\ call[g.owner].lock = l
    <3>1. g.owner \in Callers /\ CallOK(g.owner)
      BY <2>1 DEF MayHold, DbInv, Typing
    <3>2. call[g.owner] # NotWaiting
      BY <1>1, <2>3, NoLockIsEmpty DEF NotWaiting
    <3>. QED
      BY <2>3, <3>1, <3>2, LockNames DEF CallOK, WaitsFairly
  <2>. QED
    BY <2>1, <2>2, <2>3, LockNames DEF MayHold
<1>3. \A w \in QueueOf(b) : w.mode = SharedRead /\ phase[x] \in {"live", "ended"}
  BY <1>1, CallIsWait, LockNames
<1>4. ASSUME phase[x] = "live"
      PROVE  GrantsOf(b) = {[owner |-> x, mode |-> Exclusive]}
  <2>. DEFINE h == [owner |-> x, mode |-> Exclusive]
  <2>1. h \in GrantsOf(b) /\ h.owner = x /\ h.mode = Exclusive
    BY <1>4 DEF DbInv, LiveHolds
  <2>2. ASSUME NEW g \in GrantsOf(b) PROVE g = h
    <3>1. g # h => g.owner # h.owner /\ Compatible(g.mode, h.mode)
      BY <1>1, <2>1, OrderlySets
    <3>. QED
      BY <1>2, <2>1, <3>1, ModesMeet
  <2>. QED
    BY <2>1, <2>2
<1>. QED
  BY <1>2, <1>3, <1>4

(* What is left to say of a relation two owners hold. *)
LEMMA RelationLock ==
    ASSUME DbInv, NEW r \in Relations, NEW o \in Consistency, NEW p \in Callers \ Consistency,
           HoldsOn(table[RelLock(r)], o)
    PROVE  ~HoldsOn(table[RelLock(r)], p)
<1>. SUFFICES ASSUME HoldsOn(table[RelLock(r)], p) PROVE FALSE
  OBVIOUS
<1>1. RelLock(r) \in Locks /\ Orderly(table[RelLock(r)])
  BY LockNames DEF DbInv, Typing
<1>2. PICK g \in GrantsOf(table[RelLock(r)]) : g.owner = o
  BY OnSets
<1>3. PICK h \in GrantsOf(table[RelLock(r)]) : h.owner = p
  BY OnSets
<1>4. MayHold(o, RelLock(r), g.mode) /\ MayHold(p, RelLock(r), h.mode)
  BY <1>1, <1>2, <1>3 DEF DbInv, GrantsAreDue
<1>5. g.mode \in {ProtectedRead, ProtectedWrite} /\ h.mode = SharedWrite
  BY <1>4, LockNames DEF MayHold, ReservedMode
<1>6. g # h
  BY <1>2, <1>3
<1>7. Compatible(g.mode, h.mode)
  BY <1>1, <1>2, <1>3, <1>6, OrderlySets
<1>. QED
  BY <1>5, <1>7, ModesMeet

-------------------------------------------------------------------------------
(* What the invariant promises.                                            *)
LEMMA InvTypeOK == DbInv => TypeOK
<1>. SUFFICES ASSUME DbInv PROVE TypeOK
  OBVIOUS
<1>1. \A o \in Callers : call[o].lock \in Locks \cup {<<>>} /\ call[o].deadline \in Nat
  BY DEF DbInv, Typing, CallOK, WaitsFairly, NotWaiting
<1>2. \A l \in Locks : \A i \in DOMAIN table[l].pending :
          table[l].pending[i].deadline \in Nat
  BY CallIsWait DEF QueueOf
<1>. QED
  BY <1>1, <1>2 DEF DbInv, Typing, TypeOK

LEMMA InvHeldIffLive == DbInv => HeldIffLive
<1>. SUFFICES ASSUME DbInv, NEW x \in Callers, phase[x] \in {"live", "ended"}
              PROVE  ProbeVerdict(x) # "Granted" <=> phase[x] = "live"
  BY DEF HeldIffLive
<1>1. TraLock(x) \in Locks /\ Orderly(table[TraLock(x)])
  BY LockNames DEF DbInv, Typing
<1>2. ProbeVerdict(x) = "Granted" <=> Admits(table[TraLock(x)], SharedRead)
  BY DEF ProbeVerdict, EnqueueVerdict
<1>3. CASE phase[x] = "live"
  <2>1. [owner |-> x, mode |-> Exclusive] \in GrantsOf(table[TraLock(x)])
    BY <1>3, TransactionLock
  <2>2. ~Admits(table[TraLock(x)], SharedRead)
    BY <1>1, <2>1, AdmitsSets, ModesMeet, UsedModes
  <2>. QED
    BY <1>2, <1>3, <2>2
<1>4. CASE phase[x] = "ended"
  <2>1. Admits(table[TraLock(x)], SharedRead)
    BY <1>1, <1>4, TransactionLock, AdmitsSets, ModesMeet, UsedModes
  <2>. QED
    BY <1>2, <1>4, <2>1
<1>. QED
  BY <1>3, <1>4

LEMMA InvNoOrphanWait == DbInv => NoOrphanWait
BY CallIsWait, OnSets DEF NoOrphanWait

-------------------------------------------------------------------------------
(* What a step must show: its own requests are in order, the others' are   *)
(* where they were, or served, or out of time.                             *)
Kept(p) ==
    /\ \A q \in Callers \ {p} : call'[q] = call[q] /\ phase'[q] = phase[q]
    /\ now <= now'
    /\ \A k \in Locks : \A g \in GrantsOf(table[k]) :
          g.owner # p => g \in GrantsOf(table'[k])
    /\ \A k \in Locks : \A w \in QueueOf(table[k]) : w.owner # p =>
          w \in QueueOf(table'[k]) \/ HoldsOn(table'[k], w.owner) \/ w.deadline <= now'
    /\ \A k \in Locks : \A g \in GrantsOf(table'[k]) :
          g.owner # p => MayHold(g.owner, k, g.mode)
    /\ \A k \in Locks : \A w \in QueueOf(table'[k]) :
          w.owner # p => w \in QueueOf(table[k])
Own(p) ==
    /\ \A k \in Locks : \A g \in GrantsOf(table'[k]) :
          g.owner = p => MayHold(p, k, g.mode)'
    /\ \A k \in Locks : \A w \in QueueOf(table'[k]) : w.owner = p => MayWait(w, k)'
    /\ p \in Callers /\ phase'[p] = "live" =>
          [owner |-> p, mode |-> Exclusive] \in GrantsOf(table'[TraLock(p)])
    /\ p \in Callers /\ call'[p] # NotWaiting =>
          \/ ParkedOn(table'[call'[p].lock], p)
          \/ HoldsOn(table'[call'[p].lock], p)
          \/ call'[p].deadline <= now'
    /\ \A w \in writers' :
          \/ w \in writers /\ w[1] # p
          \/ \E r \in Relations : p \in Callers /\ w = <<p, r>> /\ HoldsOn(table'[RelLock(r)], p)

LEMMA StepKeepsInv ==
    ASSUME DbInv, NEW p \in Owners, Kept(p), Own(p), Typing', EndedMeansEnded'
    PROVE  DbInv'
<1>1. GrantsAreDue'
  <2>. SUFFICES ASSUME NEW l \in Locks, NEW g \in GrantsOf(table'[l])
                PROVE  MayHold(g.owner, l, g.mode)'
    BY DEF GrantsAreDue
  <2>1. CASE g.owner = p
    BY <2>1 DEF Own
  <2>2. CASE g.owner # p
    <3>1. MayHold(g.owner, l, g.mode)
      BY <2>2 DEF Kept
    <3>2. call'[g.owner] = call[g.owner] /\ phase'[g.owner] = phase[g.owner]
      BY <2>2, <3>1 DEF Kept, MayHold
    <3>. QED
      BY <3>1, <3>2 DEF MayHold
  <2>. QED
    BY <2>1, <2>2
<1>2. WaitsAreCalls'
  <2>. SUFFICES ASSUME NEW l \in Locks, NEW w \in QueueOf(table'[l])
                PROVE  MayWait(w, l)'
    BY DEF WaitsAreCalls
  <2>1. CASE w.owner = p
    BY <2>1 DEF Own
  <2>2. CASE w.owner # p
    <3>1. MayWait(w, l)
      BY <2>2 DEF Kept, DbInv, WaitsAreCalls
    <3>2. call'[w.owner] = call[w.owner]
      BY <2>2, <3>1 DEF Kept, MayWait
    <3>. QED
      BY <3>1, <3>2 DEF MayWait
  <2>. QED
    BY <2>1, <2>2
<1>3. LiveHolds'
  <2>. SUFFICES ASSUME NEW x \in Callers, phase'[x] = "live"
                PROVE  [owner |-> x, mode |-> Exclusive] \in GrantsOf(table'[TraLock(x)])
    BY DEF LiveHolds
  <2>1. CASE x = p
    BY <2>1 DEF Own
  <2>2. CASE x # p
    <3>1. phase[x] = "live" /\ TraLock(x) \in Locks
      BY <2>2, LockNames DEF Kept
    <3>2. [owner |-> x, mode |-> Exclusive] \in GrantsOf(table[TraLock(x)])
      BY <3>1 DEF DbInv, LiveHolds
    <3>3. [owner |-> x, mode |-> Exclusive].owner # p
      BY <2>2
    <3>. QED
      BY <3>1, <3>2, <3>3 DEF Kept
  <2>. QED
    BY <2>1, <2>2
<1>4. NoLostWait'
  <2>. SUFFICES ASSUME NEW o \in Callers, call'[o] # NotWaiting
                PROVE  \/ ParkedOn(table'[call'[o].lock], o)
                       \/ HoldsOn(table'[call'[o].lock], o)
                       \/ call'[o].deadline <= now'
    BY DEF NoLostWait
  <2>1. CASE o = p
    BY <2>1 DEF Own
  <2>2. CASE o # p
    <3>. DEFINE k == call[o].lock
    <3>1. call'[o] = call[o] /\ now <= now'
      BY <2>2 DEF Kept
    <3>2. k \in Locks /\ call[o].deadline \in Nat
      BY <3>1 DEF DbInv, Typing, CallOK, WaitsFairly
    <3>3. CASE ParkedOn(table[k], o)
      <4>1. PICK w \in QueueOf(table[k]) : w.owner = o
        BY <3>3, OnSets
      <4>2. w.deadline = call[o].deadline
        BY <3>2, <4>1, CallIsWait
      <4>3. w \in QueueOf(table'[k]) \/ HoldsOn(table'[k], o) \/ w.deadline <= now'
        BY <2>2, <3>2, <4>1 DEF Kept
      <4>. QED
        BY <3>1, <4>1, <4>2, <4>3, OnSets
    <3>4. CASE HoldsOn(table[k], o)
      <4>1. PICK g \in GrantsOf(table[k]) : g.owner = o
        BY <3>4, OnSets
      <4>2. g \in GrantsOf(table'[k])
        BY <2>2, <3>2, <4>1 DEF Kept
      <4>. QED
        BY <3>1, <4>1, <4>2, OnSets
    <3>5. CASE call[o].deadline <= now
      <4>1. now \in Nat /\ now' \in Nat
        BY DbLocksAssumption DEF DbInv, Typing
      <4>2. call[o].deadline <= now'
        BY <3>1, <3>2, <3>5, <4>1
      <4>. QED
        BY <3>1, <4>2
    <3>6. ParkedOn(table[k], o) \/ HoldsOn(table[k], o) \/ call[o].deadline <= now
      BY <3>1 DEF DbInv, NoLostWait
    <3>. QED
      BY <3>3, <3>4, <3>5, <3>6
  <2>. QED
    BY <2>1, <2>2
<1>5. WritersHold'
  <2>. SUFFICES ASSUME NEW w \in writers'
                PROVE  \E o \in Callers, r \in Relations :
                          w = <<o, r>> /\ HoldsOn(table'[RelLock(r)], o)
    BY DEF WritersHold
  <2>1. CASE \E r \in Relations : p \in Callers /\ w = <<p, r>> /\ HoldsOn(table'[RelLock(r)], p)
    BY <2>1
  <2>2. CASE w \in writers /\ w[1] # p
    <3>1. PICK o \in Callers, r \in Relations : w = <<o, r>> /\ HoldsOn(table[RelLock(r)], o)
      BY <2>2 DEF DbInv, WritersHold
    <3>2. o # p /\ RelLock(r) \in Locks
      BY <2>2, <3>1, LockNames
    <3>3. PICK g \in GrantsOf(table[RelLock(r)]) : g.owner = o
      BY <3>1, OnSets
    <3>4. g \in GrantsOf(table'[RelLock(r)])
      BY <3>2, <3>3 DEF Kept
    <3>. QED
      BY <3>1, <3>3, <3>4, OnSets
  <2>. QED
    BY <2>1, <2>2 DEF Own
<1>. QED
  BY <1>1, <1>2, <1>3, <1>4, <1>5 DEF DbInv

(* Blocks served for p keep what the others have. *)
LEMMA ServedTable ==
    ASSUME DbInv, NEW p \in Owners,
           DOMAIN table' = Locks,
           \A k \in Locks : \/ table'[k] = table[k]
                            \/ Orderly(table'[k]) /\ Served(table'[k], table[k], p),
           \A q \in Callers \ {p} : call'[q] = call[q] /\ phase'[q] = phase[q],
           now' = now
    PROVE  /\ Kept(p)
           /\ \A k \in Locks : Orderly(table'[k])
           /\ \A k \in Locks : \A g \in GrantsOf(table'[k]) : g.owner = p =>
                 table'[k] = table[k]
           /\ \A k \in Locks : \A w \in QueueOf(table'[k]) : w.owner = p =>
                 table'[k] = table[k]
<1>0. now \in Nat
  BY DbLocksAssumption DEF DbInv, Typing
<1>1. ASSUME NEW k \in Locks
      PROVE  /\ Orderly(table'[k])
             /\ \A g \in GrantsOf(table[k]) : g.owner # p => g \in GrantsOf(table'[k])
             /\ \A w \in QueueOf(table[k]) : w.owner # p =>
                   w \in QueueOf(table'[k]) \/ HoldsOn(table'[k], w.owner)
             /\ \A g \in GrantsOf(table'[k]) : g.owner # p => MayHold(g.owner, k, g.mode)
             /\ \A w \in QueueOf(table'[k]) : w.owner # p => w \in QueueOf(table[k])
             /\ \A g \in GrantsOf(table'[k]) : g.owner = p => table'[k] = table[k]
             /\ \A w \in QueueOf(table'[k]) : w.owner = p => table'[k] = table[k]
  <2>1. \A g \in GrantsOf(table[k]) : MayHold(g.owner, k, g.mode)
    BY DEF DbInv, GrantsAreDue
  <2>2. CASE table'[k] = table[k]
    BY <2>1, <2>2 DEF DbInv, Typing
  <2>3. CASE Orderly(table'[k]) /\ Served(table'[k], table[k], p)
    <3>1. \A w : AsGrant(w).owner = w.owner /\ AsGrant(w).mode = w.mode
      BY DEF AsGrant
    <3>2. \A w \in QueueOf(table[k]) : MayHold(w.owner, k, w.mode)
      BY WaitMayHold
    <3>3. /\ QueueOf(table'[k]) \subseteq QueueWithout(table[k], p)
          /\ GrantsOf(table'[k]) = {g \in GrantsOf(table[k]) : g.owner # p}
                \cup {AsGrant(w) : w \in QueueWithout(table[k], p) \ QueueOf(table'[k])}
      BY <2>3 DEF Served
    <3>4. ASSUME NEW w \in QueueOf(table[k]), w.owner # p, w \notin QueueOf(table'[k])
          PROVE  HoldsOn(table'[k], w.owner)
      <4>1. AsGrant(w) \in GrantsOf(table'[k])
        BY <3>3, <3>4 DEF QueueWithout
      <4>. QED
        BY <3>1, <4>1, OnSets
    <3>5. ASSUME NEW g \in GrantsOf(table'[k])
          PROVE  g.owner # p /\ MayHold(g.owner, k, g.mode)
      <4>1. CASE g \in GrantsOf(table[k]) /\ g.owner # p
        BY <2>1, <4>1
      <4>2. CASE \E w \in QueueWithout(table[k], p) : g = AsGrant(w)
        BY <3>1, <3>2, <4>2 DEF QueueWithout
      <4>. QED
        BY <3>3, <4>1, <4>2
    <3>. QED
      BY <2>3, <3>3, <3>4, <3>5 DEF QueueWithout
  <2>. QED
    BY <2>2, <2>3
<1>. QED
  BY <1>0, <1>1 DEF Kept

LEMMA CallsStayOK ==
    ASSUME DbInv, NEW p, \A q \in Callers \ {p} : call'[q] = call[q],
           \A x \in Callers : phase[x] \in {"live", "ended"} => phase'[x] \in {"live", "ended"}
    PROVE  \A q \in Callers \ {p} : CallOK(q)'
<1>. SUFFICES ASSUME NEW q \in Callers \ {p} PROVE CallOK(q)'
  OBVIOUS
<1>1. CallOK(q) /\ call'[q] = call[q]
  BY DEF DbInv, Typing
<1>. QED
  BY <1>1 DEF CallOK, WaitsFairly

LEMMA GrantedTable ==
    ASSUME DbInv, NEW o \in Callers, NEW l \in Locks, NEW m \in Mode,
           Admits(table[l], m), ~HoldsOn(table[l], o), call[o] = NotWaiting,
           table' = [table EXCEPT ![l] = AddGrant(@, o, m)],
           \A q \in Callers \ {o} : call'[q] = call[q] /\ phase'[q] = phase[q],
           now' = now
    PROVE  /\ Kept(o)
           /\ DOMAIN table' = Locks /\ \A k \in Locks : Orderly(table'[k])
           /\ [owner |-> o, mode |-> m] \in GrantsOf(table'[l])
           /\ \A k \in Locks : \A g \in GrantsOf(table[k]) : g \in GrantsOf(table'[k])
           /\ \A k \in Locks : \A g \in GrantsOf(table'[k]) :
                 g \in GrantsOf(table[k]) \/ (k = l /\ g = [owner |-> o, mode |-> m])
           /\ \A k \in Locks : \A w \in QueueOf(table'[k]) : w.owner # o
<1>. DEFINE c == AddGrant(table[l], o, m)
            h == [owner |-> o, mode |-> m]
<1>0. now \in Nat /\ DOMAIN table = Locks /\ o \in Owners
  BY DbLocksAssumption DEF DbInv, Typing, Callers
<1>1. Orderly(table[l]) /\ ~ParkedOn(table[l], o)
  BY AwakeIsNowhere DEF DbInv, Typing
<1>2. Orderly(c) /\ GrantsOf(c) = GrantsOf(table[l]) \cup {h} /\ QueueOf(c) = QueueOf(table[l])
  BY <1>0, <1>1, AddGrantOrderly, AddGrantSets
<1>3. \A k \in Locks : table'[k] = IF k = l THEN c ELSE table[k]
  BY <1>0
<1>4. DOMAIN table' = Locks
  BY <1>0
<1>. HIDE DEF c
<1>5. h.owner = o
  OBVIOUS
<1>. HIDE DEF h
<1>6. ASSUME NEW k \in Locks
      PROVE  /\ Orderly(table'[k])
             /\ QueueOf(table'[k]) = QueueOf(table[k])
             /\ GrantsOf(table[k]) \subseteq GrantsOf(table'[k])
             /\ k = l => h \in GrantsOf(table'[k])
             /\ \A g \in GrantsOf(table'[k]) : g \in GrantsOf(table[k]) \/ (k = l /\ g = h)
             /\ \A g \in GrantsOf(table[k]) : MayHold(g.owner, k, g.mode)
             /\ \A w \in QueueOf(table[k]) : w.owner # o
  <2>1. /\ Orderly(table[k])
        /\ \A g \in GrantsOf(table[k]) : MayHold(g.owner, k, g.mode)
        /\ \A w \in QueueOf(table[k]) : w.owner # o
    BY AwakeIsNowhere DEF DbInv, Typing, GrantsAreDue
  <2>2. CASE k = l
    BY <1>2, <1>3, <2>1, <2>2
  <2>3. CASE k # l
    BY <1>3, <2>1, <2>3
  <2>. QED
    BY <2>2, <2>3
<1>7. Kept(o)
  <2>1. \A k \in Locks : \A g \in GrantsOf(table'[k]) :
            g.owner # o => MayHold(g.owner, k, g.mode)
    BY <1>5, <1>6
  <2>2. \A k \in Locks : /\ GrantsOf(table[k]) \subseteq GrantsOf(table'[k])
                         /\ QueueOf(table'[k]) = QueueOf(table[k])
    BY <1>6
  <2>. QED
    BY <1>0, <2>1, <2>2 DEF Kept
<1>. QED
  BY <1>4, <1>6, <1>7 DEF h

LEMMA ParkedTable ==
    ASSUME DbInv, NEW o \in Callers, NEW l \in Locks, NEW m \in Mode, NEW d \in Nat,
           ~HoldsOn(table[l], o), call[o] = NotWaiting,
           table' = [table EXCEPT ![l] = Park(@, o, m, d)],
           \A q \in Callers \ {o} : call'[q] = call[q] /\ phase'[q] = phase[q],
           now' = now
    PROVE  /\ Kept(o)
           /\ DOMAIN table' = Locks /\ \A k \in Locks : Orderly(table'[k])
           /\ ParkedOn(table'[l], o)
           /\ \A k \in Locks : GrantsOf(table'[k]) = GrantsOf(table[k])
           /\ \A k \in Locks : k # l => ~ParkedOn(table'[k], o)
           /\ \A w \in QueueOf(table'[l]) : w.owner = o => w.mode = m /\ w.deadline = d
<1>. DEFINE c == Park(table[l], o, m, d)
            h == [owner |-> o, mode |-> m, deadline |-> d]
<1>0. now \in Nat /\ DOMAIN table = Locks /\ o \in Owners
  BY DbLocksAssumption DEF DbInv, Typing, Callers
<1>1. Orderly(table[l]) /\ ~ParkedOn(table[l], o)
  BY AwakeIsNowhere DEF DbInv, Typing
<1>2. Orderly(c) /\ GrantsOf(c) = GrantsOf(table[l]) /\ QueueOf(c) = QueueOf(table[l]) \cup {h}
  BY <1>0, <1>1, ParkOrderly, ParkSets
<1>3. \A k \in Locks : table'[k] = IF k = l THEN c ELSE table[k]
  BY <1>0
<1>4. DOMAIN table' = Locks
  BY <1>0
<1>. HIDE DEF c
<1>5. h.owner = o /\ h.mode = m /\ h.deadline = d
  OBVIOUS
<1>. HIDE DEF h
<1>6. ASSUME NEW k \in Locks
      PROVE  /\ Orderly(table'[k])
             /\ GrantsOf(table'[k]) = GrantsOf(table[k])
             /\ QueueOf(table[k]) \subseteq QueueOf(table'[k])
             /\ k = l => h \in QueueOf(table'[k])
             /\ \A w \in QueueOf(table'[k]) : w \in QueueOf(table[k]) \/ (k = l /\ w = h)
             /\ \A g \in GrantsOf(table[k]) : MayHold(g.owner, k, g.mode)
             /\ \A w \in QueueOf(table[k]) : w.owner # o
  <2>1. /\ Orderly(table[k])
        /\ \A g \in GrantsOf(table[k]) : MayHold(g.owner, k, g.mode)
        /\ \A w \in QueueOf(table[k]) : w.owner # o
    BY AwakeIsNowhere DEF DbInv, Typing, GrantsAreDue
  <2>2. CASE k = l
    BY <1>2, <1>3, <2>1, <2>2
  <2>3. CASE k # l
    BY <1>3, <2>1, <2>3
  <2>. QED
    BY <2>2, <2>3
<1>7. Kept(o)
  <2>1. \A k \in Locks : \A g \in GrantsOf(table'[k]) : MayHold(g.owner, k, g.mode)
    BY <1>6
  <2>2. \A k \in Locks : GrantsOf(table'[k]) = GrantsOf(table[k])
    BY <1>6
  <2>3. \A k \in Locks : QueueOf(table[k]) \subseteq QueueOf(table'[k])
    BY <1>6
  <2>4. \A k \in Locks : \A w \in QueueOf(table'[k]) : w.owner # o => w \in QueueOf(table[k])
    BY <1>5, <1>6
  <2>. QED
    BY <1>0, <2>1, <2>2, <2>3, <2>4 DEF Kept
<1>. QED
  BY <1>4, <1>5, <1>6, <1>7, OnSets

LEMMA ExpiredTable ==
    ASSUME DbInv, NEW o \in Callers, NEW n, n = now,
           table' = [k \in Locks |-> ExpireBlock(table[k], n)],
           \A q \in Callers \ {o} : call'[q] = call[q] /\ phase'[q] = phase[q],
           now' = now
    PROVE  /\ Kept(o)
           /\ DOMAIN table' = Locks /\ \A k \in Locks : Orderly(table'[k])
           /\ \A k \in Locks : GrantsOf(table'[k]) = GrantsOf(table[k])
           /\ \A k \in Locks : \A w \in QueueOf(table'[k]) :
                 w \in QueueOf(table[k]) /\ ~(w.deadline <= now)
<1>0. now \in Nat
  BY DbLocksAssumption DEF DbInv, Typing
<1>1. ASSUME NEW k \in Locks
      PROVE  /\ Orderly(table'[k])
             /\ GrantsOf(table'[k]) = GrantsOf(table[k])
             /\ QueueOf(table'[k]) = {w \in QueueOf(table[k]) : ~(w.deadline <= now)}
             /\ \A g \in GrantsOf(table[k]) : MayHold(g.owner, k, g.mode)
  <2>1. Orderly(table[k]) /\ table'[k] = ExpireBlock(table[k], now)
    BY DEF DbInv, Typing
  <2>2. \A w \in QueueOf(table[k]) : w.deadline # NoDeadline
    BY CallIsWait DEF NoDeadline
  <2>3. QueueOf(table'[k]) =
            {w \in QueueOf(table[k]) : ~(w.deadline # NoDeadline /\ w.deadline <= now)}
    BY <2>1, ExpireSets
  <2>4. QueueOf(table'[k]) = {w \in QueueOf(table[k]) : ~(w.deadline <= now)}
    BY <2>2, <2>3
  <2>. QED
    BY <2>1, <2>4, ExpireOrderly, ExpireSets DEF DbInv, GrantsAreDue
<1>2. Kept(o)
  BY <1>0, <1>1 DEF Kept
<1>. QED
  BY <1>1, <1>2

(* Where p's grants stay, what p wrote is still reserved. *)
LEMMA WritersStay ==
    ASSUME DbInv, NEW p,
           \A k \in Locks : \A g \in GrantsOf(table[k]) :
              g.owner = p => g \in GrantsOf(table'[k])
    PROVE  \A w \in writers :
              \/ w[1] # p
              \/ \E r \in Relations : p \in Callers /\ w = <<p, r>> /\ HoldsOn(table'[RelLock(r)], p)
<1>. SUFFICES ASSUME NEW w \in writers, w[1] = p
              PROVE  \E r \in Relations :
                        p \in Callers /\ w = <<p, r>> /\ HoldsOn(table'[RelLock(r)], p)
  OBVIOUS
<1>1. PICK q \in Callers, r \in Relations : w = <<q, r>> /\ HoldsOn(table[RelLock(r)], q)
  BY DEF DbInv, WritersHold
<1>2. q = p /\ RelLock(r) \in Locks
  BY <1>1, LockNames
<1>3. PICK g \in GrantsOf(table[RelLock(r)]) : g.owner = p
  BY <1>1, <1>2, OnSets
<1>4. g \in GrantsOf(table'[RelLock(r)])
  BY <1>2, <1>3
<1>. QED
  BY <1>1, <1>2, <1>3, <1>4, OnSets

(* A step that leaves table, calls and phases alone. *)
LEMMA SameTable ==
    ASSUME DbInv, NEW p \in Owners, UNCHANGED <<table, call, phase>>,
           now' \in 0..MaxTime, now <= now',
           answer'.says \in {"nothing", "Granted", "Conflict", "Deadlock"},
           \A w \in writers' :
              \/ w \in writers
              \/ \E r \in Relations : p \in Callers /\ w = <<p, r>> /\ HoldsOn(table[RelLock(r)], p)
    PROVE  DbInv'
<1>0. now \in Nat /\ now' \in Nat
  BY DbLocksAssumption DEF DbInv, Typing
<1>1. Kept(p)
  <2>1. \A k \in Locks : \A g \in GrantsOf(table[k]) : MayHold(g.owner, k, g.mode)
    BY DEF DbInv, GrantsAreDue
  <2>. QED
    BY <2>1 DEF Kept
<1>3. Own(p)
  <2>1. ASSUME NEW k \in Locks, NEW g \in GrantsOf(table[k]), g.owner = p
        PROVE  MayHold(p, k, g.mode)'
    <3>1. MayHold(p, k, g.mode)
      BY <2>1 DEF DbInv, GrantsAreDue
    <3>. QED
      BY <3>1 DEF MayHold
  <2>2. ASSUME NEW k \in Locks, NEW w \in QueueOf(table[k]), w.owner = p
        PROVE  MayWait(w, k)'
    <3>1. MayWait(w, k)
      BY DEF DbInv, WaitsAreCalls
    <3>. QED
      BY <3>1 DEF MayWait
  <2>3. p \in Callers /\ call[p] # NotWaiting =>
          \/ ParkedOn(table[call[p].lock], p)
          \/ HoldsOn(table[call[p].lock], p)
          \/ call[p].deadline <= now'
    <3>. SUFFICES ASSUME p \in Callers, call[p] # NotWaiting, call[p].deadline <= now
                  PROVE  call[p].deadline <= now'
      BY DEF DbInv, NoLostWait
    <3>1. call[p].deadline \in Nat
      BY DEF DbInv, Typing, CallOK, WaitsFairly
    <3>. QED
      BY <1>0, <3>1
  <2>4. p \in Callers /\ phase[p] = "live" =>
            [owner |-> p, mode |-> Exclusive] \in GrantsOf(table[TraLock(p)])
    BY DEF DbInv, LiveHolds
  <2>5. \A w \in writers' :
            \/ w \in writers /\ w[1] # p
            \/ \E r \in Relations :
                  p \in Callers /\ w = <<p, r>> /\ HoldsOn(table'[RelLock(r)], p)
    BY WritersStay
  <2>. QED
    BY <2>1, <2>2, <2>3, <2>4, <2>5 DEF Own
<1>4. Typing'
  <2>1. \A q \in Callers : CallOK(q)'
    BY DEF DbInv, Typing, CallOK, WaitsFairly
  <2>. QED
    BY <2>1 DEF DbInv, Typing
<1>5. EndedMeansEnded'
  BY DEF EndedMeansEnded
<1>. QED
  BY <1>1, <1>3, <1>4, <1>5, StepKeepsInv

LEMMA HoldTransactionKeeps ==
    ASSUME DbInv, NEW o \in Callers, HoldTransaction(o)
    PROVE  DbInv'
<1>. DEFINE l == TraLock(o)
            h == [owner |-> o, mode |-> Exclusive]
<1>1. /\ l \in Locks /\ Exclusive \in Mode /\ phase[o] = "new" /\ call[o] = NotWaiting
      /\ Orderly(table[l]) /\ o \in Owners
  BY LockNames, UsedModes DEF HoldTransaction, Awake, DbInv, Typing, Callers
<1>2. GrantsOf(table[l]) = {} /\ QueueOf(table[l]) = {}
  BY <1>1, TransactionLock
<1>3. Admits(table[l], Exclusive) /\ ~HoldsOn(table[l], o)
  BY <1>1, <1>2, AdmitsSets, OnSets
<1>4. table' = [table EXCEPT ![l] = AddGrant(@, o, Exclusive)]
  <2>. DEFINE v == EnqueueVerdict(table, o, l, Exclusive, FALSE, NoDeadline)
  <2>1. table' = AfterEnqueue(table, o, l, Exclusive, v, NoDeadline)
    BY DEF HoldTransaction
  <2>2. v = "Granted"
    BY <1>3 DEF EnqueueVerdict
  <2>. QED
    BY <2>1, <2>2 DEF AfterEnqueue
<1>5. /\ call' = call /\ now' = now /\ writers' = writers
      /\ phase' = [phase EXCEPT ![o] = "live"] /\ answer'.says = "nothing"
  BY DEF HoldTransaction, SayNothing, NoAnswer
<1>6. /\ phase'[o] = "live" /\ \A q \in Callers \ {o} : phase'[q] = phase[q]
      /\ phase' \in [Callers -> {"new", "live", "ended", "closed"}]
  BY <1>5 DEF DbInv, Typing
<1>7. /\ Kept(o)
      /\ DOMAIN table' = Locks /\ \A k \in Locks : Orderly(table'[k])
      /\ h \in GrantsOf(table'[l])
      /\ \A k \in Locks : \A g \in GrantsOf(table[k]) : g \in GrantsOf(table'[k])
      /\ \A k \in Locks : \A g \in GrantsOf(table'[k]) :
            g \in GrantsOf(table[k]) \/ (k = l /\ g = h)
      /\ \A k \in Locks : \A w \in QueueOf(table'[k]) : w.owner # o
  BY <1>1, <1>3, <1>4, <1>5, <1>6, GrantedTable
<1>8. Own(o)
  <2>1. ASSUME NEW k \in Locks, NEW g \in GrantsOf(table'[k]), g.owner = o
        PROVE  MayHold(o, k, g.mode)'
    <3>1. CASE k = l /\ g = h
      BY <1>6, <3>1 DEF MayHold
    <3>2. CASE g \in GrantsOf(table[k])
      <4>1. MayHold(o, k, g.mode)
        BY <2>1, <3>2 DEF DbInv, GrantsAreDue
      <4>. QED
        BY <1>5, <1>6, <4>1 DEF MayHold
    <3>. QED
      BY <1>7, <3>1, <3>2
  <2>2. \A w \in writers' :
            \/ w \in writers /\ w[1] # o
            \/ \E r \in Relations :
                  o \in Callers /\ w = <<o, r>> /\ HoldsOn(table'[RelLock(r)], o)
    BY <1>5, <1>7, WritersStay
  <2>. QED
    BY <1>1, <1>5, <1>7, <2>1, <2>2 DEF Own
<1>9. Typing'
  <2>1. \A x \in Callers : phase[x] \in {"live", "ended"} => phase'[x] \in {"live", "ended"}
    BY <1>1, <1>6
  <2>2. \A q \in Callers \ {o} : CallOK(q)'
    BY <1>5, <2>1, CallsStayOK
  <2>3. CallOK(o)'
    BY <1>1, <1>5 DEF CallOK, WaitsFairly
  <2>. QED
    BY <1>5, <1>6, <1>7, <2>2, <2>3 DEF DbInv, Typing
<1>10. EndedMeansEnded'
  BY <1>5 DEF EndedMeansEnded
<1>. QED
  BY <1>1, <1>7, <1>8, <1>9, <1>10, StepKeepsInv

(* A request that parked: table and call say the same. *)
LEMMA ParkedStep ==
    ASSUME DbInv, NEW o \in Callers, NEW l \in Locks, NEW m \in Mode, NEW d \in Nat,
           ~HoldsOn(table[l], o), call[o] = NotWaiting,
           WaitsFairly(o, l, m),
           table' = [table EXCEPT ![l] = Park(@, o, m, d)],
           call'[o] = [lock |-> l, mode |-> m, deadline |-> d],
           \A q \in Callers \ {o} : call'[q] = call[q], DOMAIN call' = Callers,
           now' = now, phase' = phase, writers' = writers, answer'.says = "nothing"
    PROVE  DbInv'
<1>. DEFINE c == [lock |-> l, mode |-> m, deadline |-> d]
<1>1. /\ call'[o] = c
      /\ \A q \in Callers \ {o} : call'[q] = call[q] /\ phase'[q] = phase[q]
  BY DEF DbInv, Typing
<1>2. /\ Kept(o)
      /\ DOMAIN table' = Locks /\ \A k \in Locks : Orderly(table'[k])
      /\ ParkedOn(table'[l], o)
      /\ \A k \in Locks : GrantsOf(table'[k]) = GrantsOf(table[k])
      /\ \A k \in Locks : k # l => ~ParkedOn(table'[k], o)
      /\ \A w \in QueueOf(table'[l]) : w.owner = o => w.mode = m /\ w.deadline = d
  <2>. HIDE DEF c
  <2>. QED
    BY <1>1, ParkedTable
<1>3. /\ c.lock = l /\ c.mode = m /\ c.deadline = d
      /\ c \in [lock : Locks, mode : Mode, deadline : Nat]
  OBVIOUS
<1>. HIDE DEF c
<1>4. Own(o)
  <2>1. ASSUME NEW k \in Locks, NEW g \in GrantsOf(table'[k]), g.owner = o
        PROVE  MayHold(o, k, g.mode)'
    <3>1. MayHold(o, k, g.mode) /\ HoldsOn(table[k], o)
      BY <1>2, <2>1, OnSets DEF DbInv, GrantsAreDue
    <3>2. \A x \in Callers \ {o} : k # TraLock(x)
      BY <3>1, AwakeIsNowhere
    <3>. QED
      BY <3>1, <3>2 DEF MayHold
  <2>2. ASSUME NEW k \in Locks, NEW w \in QueueOf(table'[k]), w.owner = o
        PROVE  MayWait(w, k)'
    BY <1>1, <1>2, <2>2, OnSets DEF MayWait, c
  <2>3. ParkedOn(table'[call'[o].lock], o)
    BY <1>1, <1>2, <1>3, OnSets
  <2>4. \A w \in writers' :
            \/ w \in writers /\ w[1] # o
            \/ \E r \in Relations :
                  o \in Callers /\ w = <<o, r>> /\ HoldsOn(table'[RelLock(r)], o)
    BY <1>2, WritersStay
  <2>5. phase'[o] = "live" =>
            [owner |-> o, mode |-> Exclusive] \in GrantsOf(table'[TraLock(o)])
    BY <1>2, LockNames DEF DbInv, LiveHolds
  <2>. QED
    BY <2>1, <2>2, <2>3, <2>4, <2>5 DEF Own
<1>5. Typing'
  <2>1. \A q \in Callers \ {o} : CallOK(q)'
    BY <1>1, CallsStayOK
  <2>2. CallOK(o)'
    BY <1>1, <1>3 DEF CallOK, WaitsFairly
  <2>3. DOMAIN call' = Callers
    BY DEF DbInv, Typing
  <2>. QED
    BY <1>2, <2>1, <2>2, <2>3 DEF DbInv, Typing
<1>6. EndedMeansEnded'
  BY DEF EndedMeansEnded
<1>7. o \in Owners
  BY DEF Callers
<1>. QED
  BY <1>2, <1>4, <1>5, <1>6, <1>7, StepKeepsInv

LEMMA ReserveRelationKeeps ==
    ASSUME DbInv, NEW o \in Callers, NEW r \in Relations, NEW m \in Mode,
           NEW wait \in BOOLEAN, NEW timeout \in Nat,
           ReservedMode(o, m), wait => m = DmlMode(o),
           ReserveRelation(o, r, m, wait, timeout)
    PROVE  DbInv'
<1>. DEFINE l == RelLock(r)
            d == IF wait THEN now + timeout ELSE NoDeadline
            v == EnqueueVerdict(table, o, l, m, wait, d)
            h == [owner |-> o, mode |-> m]
<1>1. /\ l \in Locks /\ Orderly(table[l]) /\ o \in Owners
      /\ call[o] = NotWaiting /\ now \in Nat /\ now <= now /\ now \in 0..MaxTime
  BY LockNames, DbLocksAssumption DEF ReserveRelation, Awake, DbInv, Typing, Callers
<1>2. now' = now /\ phase' = phase
  BY DEF ReserveRelation, Ask
<1>3. CASE HoldsOn(table[l], o)
  <2>1. UNCHANGED <<table, call, phase>> /\ Reserved(o, r, m)
    BY <1>3 DEF ReserveRelation
  <2>2. answer'.says = "Granted"
    BY <2>1 DEF Reserved, Say
  <2>3. \A w \in writers' : w \in writers \/ w = <<o, r>>
    BY <2>1 DEF Reserved
  <2>4. \A w \in writers' :
            \/ w \in writers
            \/ \E s \in Relations :
                  o \in Callers /\ w = <<o, s>> /\ HoldsOn(table[RelLock(s)], o)
    BY <1>3, <2>3
  <2>. QED
    BY <1>1, <1>2, <2>1, <2>2, <2>4, SameTable
<1>4. CASE ~HoldsOn(table[l], o) /\ v = "Granted"
  <2>1. Ask(o, l, m, d, v) /\ Reserved(o, r, m)
    BY <1>4 DEF ReserveRelation
  <2>2. /\ Admits(table[l], m) /\ table' = [table EXCEPT ![l] = AddGrant(@, o, m)]
        /\ call' = call
    BY <1>4, <2>1 DEF Ask, AfterEnqueue, EnqueueVerdict
  <2>3. answer'.says = "Granted" /\ \A w \in writers' : w \in writers \/ w = <<o, r>>
    BY <2>1 DEF Reserved, Say
  <2>4. /\ Kept(o)
        /\ DOMAIN table' = Locks /\ \A k \in Locks : Orderly(table'[k])
        /\ h \in GrantsOf(table'[l])
        /\ \A k \in Locks : \A g \in GrantsOf(table[k]) : g \in GrantsOf(table'[k])
        /\ \A k \in Locks : \A g \in GrantsOf(table'[k]) :
              g \in GrantsOf(table[k]) \/ (k = l /\ g = h)
        /\ \A k \in Locks : \A w \in QueueOf(table'[k]) : w.owner # o
    BY <1>1, <1>2, <1>4, <2>2, GrantedTable
  <2>5. h.owner = o /\ h.mode = m
    OBVIOUS
  <2>. HIDE DEF h
  <2>6. Own(o)
    <3>1. ASSUME NEW k \in Locks, NEW g \in GrantsOf(table'[k]), g.owner = o
          PROVE  MayHold(o, k, g.mode)'
      <4>1. CASE k = l /\ g = h
        BY <2>5, <4>1 DEF MayHold
      <4>2. CASE g \in GrantsOf(table[k])
        <5>1. MayHold(o, k, g.mode)
          BY <3>1, <4>2 DEF DbInv, GrantsAreDue
        <5>. QED
          BY <1>2, <2>2, <5>1 DEF MayHold
      <4>. QED
        BY <2>4, <4>1, <4>2
    <3>2. HoldsOn(table'[l], o)
      BY <2>4, <2>5, OnSets
    <3>3. \A w \in writers' :
              \/ w \in writers /\ w[1] # o
              \/ \E s \in Relations :
                    o \in Callers /\ w = <<o, s>> /\ HoldsOn(table'[RelLock(s)], o)
      BY <2>3, <2>4, <3>2, WritersStay
    <3>4. phase'[o] = "live" =>
              [owner |-> o, mode |-> Exclusive] \in GrantsOf(table'[TraLock(o)])
      BY <1>2, <2>4, LockNames DEF DbInv, LiveHolds
    <3>. QED
      BY <1>1, <2>2, <2>4, <3>1, <3>3, <3>4 DEF Own
  <2>7. Typing'
    <3>1. \A q \in Callers : CallOK(q)'
      BY <1>2, <2>2 DEF DbInv, Typing, CallOK, WaitsFairly
    <3>. QED
      BY <1>2, <2>2, <2>3, <2>4, <3>1 DEF DbInv, Typing
  <2>8. EndedMeansEnded'
    BY <2>3 DEF EndedMeansEnded
  <2>. QED
    BY <1>1, <2>4, <2>6, <2>7, <2>8, StepKeepsInv
<1>5. CASE ~HoldsOn(table[l], o) /\ v = "Waiting"
  <2>1. /\ Ask(o, l, m, d, v) /\ SayNothing /\ writers' = writers
    BY <1>5 DEF ReserveRelation
  <2>2. wait = TRUE
    BY <1>5 DEF EnqueueVerdict
  <2>3. d \in Nat /\ m = DmlMode(o)
    BY <1>1, <2>2
  <2>. HIDE DEF d
  <2>4. /\ table' = [table EXCEPT ![l] = Park(@, o, m, d)]
        /\ call' = [call EXCEPT ![o] = [lock |-> l, mode |-> m, deadline |-> d]]
        /\ answer'.says = "nothing"
    BY <1>5, <2>1 DEF Ask, AfterEnqueue, SayNothing, NoAnswer
  <2>5. /\ call'[o] = [lock |-> l, mode |-> m, deadline |-> d]
        /\ \A q \in Callers \ {o} : call'[q] = call[q]
        /\ DOMAIN call' = Callers
    BY <2>4 DEF DbInv, Typing
  <2>6. WaitsFairly(o, l, m)
    BY <2>3 DEF WaitsFairly
  <2>7. table' = [table EXCEPT ![l] = Park(@, o, m, d)] /\ answer'.says = "nothing"
    BY <2>4
  <2>. QED
    BY <1>1, <1>2, <1>5, <2>1, <2>3, <2>5, <2>6, <2>7, ParkedStep
<1>6. CASE ~HoldsOn(table[l], o) /\ v \notin {"Granted", "Waiting"}
  <2>1. v \in {"Rejected", "Deadlock"} /\ Ask(o, l, m, d, v)
    BY <1>6 DEF ReserveRelation, EnqueueVerdict
  <2>2. UNCHANGED <<table, call, phase>>
    BY <1>6, <2>1 DEF Ask, AfterEnqueue
  <2>3. answer'.says \in {"Conflict", "Deadlock"} /\ writers' = writers
    BY <1>6, <2>1 DEF ReserveRelation, NotReserved, Say
  <2>. QED
    BY <1>1, <1>2, <2>2, <2>3, SameTable
<1>. QED
  BY <1>3, <1>4, <1>5, <1>6

LEMMA ReserveKeeps ==
    ASSUME DbInv, NEW o \in Callers, NEW r \in Relations,
           ReserveRead(o, r) \/ ReserveDml(o, r)
    PROVE  DbInv'
<1>1. CASE ReserveRead(o, r)
  BY <1>1, ReserveRelationKeeps, UsedModes DEF ReserveRead
<1>2. CASE ReserveDml(o, r)
  BY <1>2, ReserveRelationKeeps, UsedModes, DbLocksAssumption DEF ReserveDml
<1>. QED
  BY <1>1, <1>2

LEMMA GrantThenServe ==
    ASSUME NEW b, Orderly(b), NEW o \in Owners, NEW m \in Mode,
           NEW d, Served(d, AddGrant(b, o, m), o)
    PROVE  Served(d, b, o)
<1>. DEFINE c == AddGrant(b, o, m)
            h == [owner |-> o, mode |-> m]
<1>1. GrantsOf(c) = GrantsOf(b) \cup {h} /\ QueueOf(c) = QueueOf(b) /\ h.owner = o
  BY AddGrantSets
<1>. HIDE DEF c, h
<1>2. QueueWithout(c, o) = QueueWithout(b, o)
  BY <1>1 DEF QueueWithout
<1>3. {g \in GrantsOf(c) : g.owner # o} = {g \in GrantsOf(b) : g.owner # o}
  BY <1>1
<1>4. Served(d, c, o)
  BY DEF c
<1>. QED
  BY <1>2, <1>3, <1>4 DEF Served

(* A step that serves blocks for p. *)
LEMMA ServedStep ==
    ASSUME DbInv, NEW p \in Owners,
           DOMAIN table' = Locks,
           \A k \in Locks : \/ table'[k] = table[k]
                            \/ Orderly(table'[k]) /\ Served(table'[k], table[k], p),
           \A q \in Callers \ {p} : call'[q] = call[q] /\ phase'[q] = phase[q],
           now' = now, DOMAIN call' = Callers,
           phase' \in [Callers -> {"new", "live", "ended", "closed"}],
           \A x \in Callers : phase[x] \in {"live", "ended"} => phase'[x] \in {"live", "ended"},
           p \in Callers => call'[p] = NotWaiting,
           p \in Callers /\ phase'[p] = "live" =>
              phase[p] = "live" /\ table'[TraLock(p)] = table[TraLock(p)],
           \A k \in Locks : \A g \in GrantsOf(table'[k]) :
              g.owner = p => MayHold(p, k, g.mode)',
           \A k \in Locks : \A w \in QueueOf(table'[k]) : w.owner # p,
           \A w \in writers' :
              \/ w \in writers /\ w[1] # p
              \/ \E r \in Relations :
                    p \in Callers /\ w = <<p, r>> /\ HoldsOn(table'[RelLock(r)], p),
           answer'.says \in {"nothing", "Granted", "Conflict", "Deadlock", "Ended", "TimedOut"},
           EndedMeansEnded'
    PROVE  DbInv'
<1>1. Kept(p) /\ \A k \in Locks : Orderly(table'[k])
  BY ServedTable
<1>2. Own(p)
  <2>1. p \in Callers /\ phase'[p] = "live" =>
            [owner |-> p, mode |-> Exclusive] \in GrantsOf(table'[TraLock(p)])
    BY DEF DbInv, LiveHolds
  <2>. QED
    BY <2>1 DEF Own
<1>3. Typing'
  <2>1. \A q \in Callers \ {p} : CallOK(q)'
    BY CallsStayOK
  <2>2. p \in Callers => CallOK(p)'
    BY DEF CallOK
  <2>. QED
    BY <1>1, <2>1, <2>2 DEF DbInv, Typing
<1>. QED
  BY <1>1, <1>2, <1>3, StepKeepsInv

(* p holds what it may, as before. *)
LEMMA OwnGrantsStay ==
    ASSUME DbInv, NEW p, call[p] = NotWaiting \/ p = Probe, UNCHANGED phase,
           NEW k \in Locks, table'[k] = table[k], NEW g \in GrantsOf(table'[k]), g.owner = p
    PROVE  MayHold(p, k, g.mode)'
<1>1. MayHold(p, k, g.mode) /\ HoldsOn(table[k], p)
  BY OnSets DEF DbInv, GrantsAreDue
<1>2. \A x \in Callers \ {p} : k # TraLock(x)
  BY <1>1, AwakeIsNowhere
<1>. QED
  BY <1>1, <1>2 DEF MayHold

LEMMA WaitForTransactionKeeps ==
    ASSUME DbInv, NEW o \in Callers, NEW x \in Callers, NEW timeout \in Nat,
           WaitForTransaction(o, x, timeout)
    PROVE  DbInv'
<1>. DEFINE l == TraLock(x)
            d == now + timeout
            v == EnqueueVerdict(table, o, l, SharedRead, TRUE, d)
            t == AfterEnqueue(table, o, l, SharedRead, v, d)
            b == DequeueBlock(AddGrant(table[l], o, SharedRead), o)
<1>1. /\ l \in Locks /\ Orderly(table[l]) /\ o \in Owners /\ x # o
      /\ call[o] = NotWaiting /\ phase[x] \in {"live", "ended"}
      /\ now \in Nat /\ d \in Nat /\ now <= now /\ now \in 0..MaxTime
      /\ DOMAIN table = Locks
      /\ SharedRead \in Mode
  BY LockNames, UsedModes, DbLocksAssumption
     DEF WaitForTransaction, Awake, DbInv, Typing, Callers
<1>2. writers' = writers /\ now' = now /\ phase' = phase
  BY DEF WaitForTransaction, Ask
<1>3. ~HoldsOn(table[l], o) /\ ~ParkedOn(table[l], o)
  BY <1>1, AwakeIsNowhere
<1>4. CASE v = "Granted"
  <2>1. /\ Admits(table[l], SharedRead)
        /\ t = [table EXCEPT ![l] = AddGrant(@, o, SharedRead)]
        /\ table' = [t EXCEPT ![l] = DequeueBlock(@, o)]
        /\ Say(o, "Ended", l) /\ call' = call
    BY <1>4 DEF WaitForTransaction, AfterEnqueue, EnqueueVerdict
  <2>2. table' = [table EXCEPT ![l] = b]
    BY <1>1, <2>1
  <2>3. /\ Orderly(AddGrant(table[l], o, SharedRead))
        /\ HoldsOn(AddGrant(table[l], o, SharedRead), o)
    <3>1. [owner |-> o, mode |-> SharedRead].owner = o
      OBVIOUS
    <3>2. [owner |-> o, mode |-> SharedRead] \in GrantsOf(AddGrant(table[l], o, SharedRead))
      BY <1>1, AddGrantSets
    <3>. QED
      BY <1>1, <1>3, <2>1, <3>1, <3>2, AddGrantOrderly, OnSets
  <2>4. Orderly(b) /\ Served(b, table[l], o)
    BY <1>1, <2>3, DequeueServes, DequeueOrderly, GrantThenServe
  <2>5. phase[x] = "ended"
    <3>. SUFFICES ASSUME phase[x] = "live" PROVE FALSE
      BY <1>1
    <3>1. [owner |-> x, mode |-> Exclusive] \in GrantsOf(table[l])
      BY TransactionLock
    <3>. QED
      BY <1>1, <2>1, <3>1, AdmitsSets, ModesMeet
  <2>. HIDE DEF b, t
  <2>6. DOMAIN table' = Locks /\ \A k \in Locks : table'[k] = IF k = l THEN b ELSE table[k]
    BY <1>1, <2>2
  <2>. HIDE DEF l
  <2>7. /\ \A k \in Locks : \A g \in GrantsOf(table'[k]) : g.owner = o => table'[k] = table[k]
        /\ \A k \in Locks : \A g \in GrantsOf(table[k]) : g.owner = o => g \in GrantsOf(table'[k])
    <3>1. \A g \in GrantsOf(table[l]) : g.owner # o
      BY <1>3, OnSets
    <3>2. \A g \in GrantsOf(b) : g.owner # o
      BY <2>4 DEF Served, QueueWithout, AsGrant
    <3>. QED
      BY <2>6, <3>1, <3>2
  <2>8. \A k \in Locks : \A g \in GrantsOf(table'[k]) : g.owner = o => MayHold(o, k, g.mode)'
    BY <1>1, <1>2, <2>7, OwnGrantsStay
  <2>9. \A k \in Locks : \A w \in QueueOf(table'[k]) : w.owner # o
    <3>1. \A w \in QueueOf(b) : w.owner # o
      BY <2>4 DEF Served, QueueWithout
    <3>2. \A k \in Locks : \A w \in QueueOf(table[k]) : w.owner # o
      BY <1>1, AwakeIsNowhere
    <3>. QED
      BY <2>6, <3>1, <3>2
  <2>10. \A w \in writers' :
            \/ w \in writers /\ w[1] # o
            \/ \E r \in Relations :
                  o \in Callers /\ w = <<o, r>> /\ HoldsOn(table'[RelLock(r)], o)
    BY <1>2, <2>7, WritersStay
  <2>11. EndedMeansEnded'
    <3>1. answer'.lock = TraLock(x)
      BY <2>1 DEF Say, l
    <3>. QED
      BY <1>2, <2>5, <3>1, LockNames DEF EndedMeansEnded
  <2>12. answer'.says = "Ended"
    BY <2>1 DEF Say
  <2>13. table'[TraLock(o)] = table[TraLock(o)]
    BY <1>1, <2>6, LockNames DEF l
  <2>14. \A k \in Locks : \/ table'[k] = table[k]
                          \/ Orderly(table'[k]) /\ Served(table'[k], table[k], o)
    BY <2>4, <2>6
  <2>15. /\ \A q \in Callers \ {o} : call'[q] = call[q] /\ phase'[q] = phase[q]
         /\ DOMAIN call' = Callers /\ call'[o] = NotWaiting
         /\ phase' \in [Callers -> {"new", "live", "ended", "closed"}]
    BY <1>1, <1>2, <2>1 DEF DbInv, Typing
  <2>. QED
    BY <1>1, <1>2, <2>6, <2>8, <2>9, <2>10, <2>11, <2>12, <2>13, <2>14, <2>15, ServedStep
<1>5. CASE v = "Waiting"
  <2>1. Ask(o, l, SharedRead, d, v) /\ answer'.says = "nothing"
    <3>1. Ask(o, l, SharedRead, d, v) /\ SayNothing
      BY <1>5 DEF WaitForTransaction
    <3>. QED
      BY <3>1 DEF SayNothing, NoAnswer
  <2>. HIDE DEF d
  <2>2. /\ table' = [table EXCEPT ![l] = Park(@, o, SharedRead, d)]
        /\ call' = [call EXCEPT ![o] = [lock |-> l, mode |-> SharedRead, deadline |-> d]]
    BY <1>5, <2>1 DEF Ask, AfterEnqueue
  <2>3. /\ call'[o] = [lock |-> l, mode |-> SharedRead, deadline |-> d]
        /\ \A q \in Callers \ {o} : call'[q] = call[q]
        /\ DOMAIN call' = Callers
    BY <2>2 DEF DbInv, Typing
  <2>4. WaitsFairly(o, l, SharedRead)
    BY <1>1 DEF WaitsFairly
  <2>5. table' = [table EXCEPT ![l] = Park(@, o, SharedRead, d)]
    BY <2>2
  <2>. QED
    BY <1>1, <1>2, <1>3, <2>1, <2>3, <2>4, <2>5, ParkedStep
<1>6. CASE v \notin {"Granted", "Waiting"}
  <2>1. v = "Deadlock" /\ Ask(o, l, SharedRead, d, v) /\ Say(o, "Deadlock", l)
    BY <1>6 DEF WaitForTransaction, EnqueueVerdict
  <2>2. UNCHANGED <<table, call, phase>> /\ answer'.says = "Deadlock"
    BY <2>1 DEF Ask, AfterEnqueue, Say
  <2>. QED
    BY <1>1, <1>2, <2>2, SameTable
<1>. QED
  BY <1>4, <1>5, <1>6

(* What a call says of the thread parked in it. *)
LEMMA ParkedCall ==
    ASSUME DbInv, NEW o \in Callers, call[o] # NotWaiting
    PROVE  /\ call[o].lock \in Locks /\ call[o].deadline \in Nat
           /\ WaitsFairly(o, call[o].lock, call[o].mode)
           /\ \A k \in Locks : k # call[o].lock =>
                 /\ \A w \in QueueOf(table[k]) : w.owner # o
                 /\ \A g \in GrantsOf(table[k]) : g.owner = o =>
                       \/ \E r \in Relations : k = RelLock(r) /\ ReservedMode(o, g.mode)
                       \/ k = TraLock(o) /\ g.mode = Exclusive /\ phase[o] = "live"
<1>1. CallOK(o)
  BY DEF DbInv, Typing
<1>2. \A k \in Locks : k # call[o].lock => \A w \in QueueOf(table[k]) : w.owner # o
  BY CallIsWait
<1>3. \A k \in Locks : \A g \in GrantsOf(table[k]) : MayHold(g.owner, k, g.mode)
  BY DEF DbInv, GrantsAreDue
<1>. QED
  BY <1>1, <1>2, <1>3 DEF CallOK, MayHold

LEMMA WakeGrantedKeeps ==
    ASSUME DbInv, NEW o \in Callers, WakeGranted(o)
    PROVE  DbInv'
<1>. DEFINE l == call[o].lock
            b == DequeueBlock(table[l], o)
<1>1. /\ call[o] # NotWaiting /\ HoldsOn(table[l], o) /\ o \in Owners
      /\ now' = now /\ phase' = phase
      /\ call' = [call EXCEPT ![o] = NotWaiting]
  BY DEF WakeGranted, Wake, Callers
<1>2. /\ call'[o] = NotWaiting /\ \A q \in Callers \ {o} : call'[q] = call[q]
      /\ DOMAIN call' = Callers
  BY <1>1 DEF DbInv, Typing
<1>3. /\ l \in Locks /\ WaitsFairly(o, l, call[o].mode)
      /\ \A k \in Locks : k # l =>
            /\ \A w \in QueueOf(table[k]) : w.owner # o
            /\ \A g \in GrantsOf(table[k]) : g.owner = o =>
                  \/ \E r \in Relations : k = RelLock(r) /\ ReservedMode(o, g.mode)
                  \/ k = TraLock(o) /\ g.mode = Exclusive /\ phase[o] = "live"
  BY <1>1, ParkedCall
<1>4. Orderly(table[l]) /\ DOMAIN table = Locks
  BY <1>3 DEF DbInv, Typing
<1>5. PICK g0 \in GrantsOf(table[l]) : g0.owner = o
  BY <1>1, OnSets
<1>6. \A w \in QueueOf(table[l]) : w.owner # o
  BY <1>4, <1>5, OrderlySets
<1>. HIDE DEF l
<1>7. CASE IsTra(l)
  <2>1. /\ table' = [table EXCEPT ![l] = DequeueBlock(@, o)]
        /\ answer'.says = "Ended" /\ answer'.lock = l /\ writers' = writers
    BY <1>7 DEF WakeGranted, Say, l
  <2>2. PICK x \in Callers \ {o} : l = TraLock(x) /\ phase[x] \in {"live", "ended"}
    BY <1>3, <1>7, LockNames DEF WaitsFairly
  <2>3. phase[x] = "ended"
    <3>. SUFFICES ASSUME phase[x] = "live" PROVE FALSE
      BY <2>2
    <3>1. g0 = [owner |-> x, mode |-> Exclusive]
      BY <1>5, <2>2, TransactionLock
    <3>. QED
      BY <1>5, <2>2, <3>1
  <2>4. Orderly(b) /\ Served(b, table[l], o)
    BY <1>1, <1>4, DequeueServes, DequeueOrderly DEF l
  <2>5. \A k \in Locks : table'[k] = IF k = l THEN b ELSE table[k]
    BY <1>4, <2>1 DEF l
  <2>6. DOMAIN table' = Locks
    BY <1>4, <2>1
  <2>. HIDE DEF b
  <2>7. /\ \A g \in GrantsOf(b) : g.owner # o
        /\ \A w \in QueueOf(b) : w.owner # o
    BY <2>4 DEF Served, QueueWithout, AsGrant
  <2>8. \A k \in Locks : \A g \in GrantsOf(table'[k]) : g.owner = o => MayHold(o, k, g.mode)'
    <3>. SUFFICES ASSUME NEW k \in Locks, NEW g \in GrantsOf(table'[k]), g.owner = o
                  PROVE  MayHold(o, k, g.mode)'
      OBVIOUS
    <3>1. k # l /\ g \in GrantsOf(table[k])
      BY <2>5, <2>7
    <3>. QED
      BY <1>1, <1>3, <3>1 DEF MayHold
  <2>9. \A k \in Locks : \A w \in QueueOf(table'[k]) : w.owner # o
    BY <1>3, <2>5, <2>7
  <2>10. \A w \in writers' :
            \/ w \in writers /\ w[1] # o
            \/ \E r \in Relations :
                  o \in Callers /\ w = <<o, r>> /\ HoldsOn(table'[RelLock(r)], o)
    <3>. SUFFICES ASSUME NEW w \in writers, w[1] = o
                  PROVE  \E r \in Relations : w = <<o, r>> /\ HoldsOn(table'[RelLock(r)], o)
      BY <2>1
    <3>1. PICK q \in Callers, r \in Relations : w = <<q, r>> /\ HoldsOn(table[RelLock(r)], q)
      BY DEF DbInv, WritersHold
    <3>2. q = o /\ RelLock(r) \in Locks /\ RelLock(r) # l
      BY <2>2, <3>1, LockNames
    <3>. QED
      BY <2>5, <3>1, <3>2
  <2>11. EndedMeansEnded'
    BY <1>1, <2>1, <2>2, <2>3, LockNames DEF EndedMeansEnded
  <2>12. phase'[o] = "live" => phase[o] = "live" /\ table'[TraLock(o)] = table[TraLock(o)]
    <3>1. TraLock(o) \in Locks /\ TraLock(o) # l
      BY <2>2, LockNames
    <3>. QED
      BY <1>1, <2>5, <3>1
  <2>13. \A k \in Locks : \/ table'[k] = table[k]
                          \/ Orderly(table'[k]) /\ Served(table'[k], table[k], o)
    BY <2>4, <2>5
  <2>14. /\ \A q \in Callers \ {o} : call'[q] = call[q] /\ phase'[q] = phase[q]
         /\ phase' \in [Callers -> {"new", "live", "ended", "closed"}]
         /\ \A y \in Callers : phase[y] \in {"live", "ended"} => phase'[y] \in {"live", "ended"}
    BY <1>1, <1>2 DEF DbInv, Typing
  <2>. QED
    BY <1>1, <1>2, <2>1, <2>6, <2>8, <2>9, <2>10, <2>11, <2>12, <2>13, <2>14, ServedStep
<1>8. CASE ~IsTra(l)
  <2>1. Reserved(o, l[2], call[o].mode) /\ table' = table
    BY <1>8 DEF WakeGranted, l
  <2>2. PICK r \in Relations : l = RelLock(r)
    BY <1>3, <1>8, LockNames DEF WaitsFairly
  <2>3. answer'.says = "Granted" /\ \A w \in writers' : w \in writers \/ w = <<o, r>>
    BY <2>1, <2>2, LockNames DEF Reserved, Say
  <2>4. \A k \in Locks : \A g \in GrantsOf(table'[k]) : g.owner = o => MayHold(o, k, g.mode)'
    <3>. SUFFICES ASSUME NEW k \in Locks, NEW g \in GrantsOf(table[k]), g.owner = o
                  PROVE  MayHold(o, k, g.mode)'
      BY <2>1
    <3>1. MayHold(o, k, g.mode)
      BY DEF DbInv, GrantsAreDue
    <3>2. CASE k = l
      BY <1>1, <2>2, <3>1, <3>2, LockNames DEF MayHold
    <3>3. CASE k # l
      BY <1>1, <1>3, <3>3 DEF MayHold
    <3>. QED
      BY <3>2, <3>3
  <2>5. \A k \in Locks : \A w \in QueueOf(table'[k]) : w.owner # o
    BY <1>3, <1>6, <2>1
  <2>6. \A w \in writers' :
            \/ w \in writers /\ w[1] # o
            \/ \E s \in Relations :
                  o \in Callers /\ w = <<o, s>> /\ HoldsOn(table'[RelLock(s)], o)
    <3>1. \A w \in writers :
            \/ w[1] # o
            \/ \E s \in Relations :
                  o \in Callers /\ w = <<o, s>> /\ HoldsOn(table'[RelLock(s)], o)
      BY <2>1, WritersStay
    <3>2. HoldsOn(table'[RelLock(r)], o)
      BY <1>1, <2>1, <2>2
    <3>. QED
      BY <2>3, <3>1, <3>2
  <2>7. EndedMeansEnded'
    BY <2>3 DEF EndedMeansEnded
  <2>8. /\ \A q \in Callers \ {o} : call'[q] = call[q] /\ phase'[q] = phase[q]
        /\ phase' \in [Callers -> {"new", "live", "ended", "closed"}]
        /\ \A y \in Callers : phase[y] \in {"live", "ended"} => phase'[y] \in {"live", "ended"}
        /\ phase'[o] = "live" => phase[o] = "live" /\ table'[TraLock(o)] = table[TraLock(o)]
    BY <1>1, <1>2, <2>1 DEF DbInv, Typing
  <2>. QED
    BY <1>1, <1>2, <1>4, <2>1, <2>3, <2>4, <2>5, <2>6, <2>7, <2>8, ServedStep
<1>. QED
  BY <1>7, <1>8

LEMMA WakeTimedOutKeeps ==
    ASSUME DbInv, NEW o \in Callers, WakeTimedOut(o)
    PROVE  DbInv'
<1>. DEFINE l == call[o].lock
<1>1. /\ call[o] # NotWaiting /\ ~HoldsOn(table[l], o) /\ call[o].deadline <= now
      /\ o \in Owners /\ now' = now /\ phase' = phase /\ writers' = writers
      /\ call' = [call EXCEPT ![o] = NotWaiting]
      /\ table' = [k \in Locks |-> ExpireBlock(table[k], now)]
  BY DEF WakeTimedOut, Wake, Callers
<1>2. /\ call'[o] = NotWaiting /\ DOMAIN call' = Callers
      /\ \A q \in Callers \ {o} : call'[q] = call[q] /\ phase'[q] = phase[q]
  BY <1>1 DEF DbInv, Typing
<1>3. answer'.says \in {"TimedOut", "Conflict"}
  BY DEF WakeTimedOut, Say
<1>4. /\ l \in Locks
      /\ \A k \in Locks : k # l =>
            /\ \A w \in QueueOf(table[k]) : w.owner # o
            /\ \A g \in GrantsOf(table[k]) : g.owner = o =>
                  \/ \E r \in Relations : k = RelLock(r) /\ ReservedMode(o, g.mode)
                  \/ k = TraLock(o) /\ g.mode = Exclusive /\ phase[o] = "live"
  BY <1>1, ParkedCall
<1>5. /\ Kept(o)
      /\ DOMAIN table' = Locks /\ \A k \in Locks : Orderly(table'[k])
      /\ \A k \in Locks : GrantsOf(table'[k]) = GrantsOf(table[k])
      /\ \A k \in Locks : \A w \in QueueOf(table'[k]) :
            w \in QueueOf(table[k]) /\ ~(w.deadline <= now)
  BY <1>1, <1>2, ExpiredTable
<1>6. Own(o)
  <2>1. ASSUME NEW k \in Locks, NEW g \in GrantsOf(table'[k]), g.owner = o
        PROVE  MayHold(o, k, g.mode)'
    <3>1. k # l
      BY <1>1, <1>5, <2>1, OnSets
    <3>. QED
      BY <1>1, <1>4, <1>5, <2>1, <3>1 DEF MayHold
  <2>2. ASSUME NEW k \in Locks, NEW w \in QueueOf(table'[k]), w.owner = o
        PROVE  FALSE
    <3>1. w.deadline = call[o].deadline
      BY <1>5, <2>2, CallIsWait
    <3>. QED
      BY <1>1, <1>5, <2>2, <3>1
  <2>3. \A w \in writers' :
            \/ w \in writers /\ w[1] # o
            \/ \E r \in Relations :
                  o \in Callers /\ w = <<o, r>> /\ HoldsOn(table'[RelLock(r)], o)
    BY <1>1, <1>5, WritersStay
  <2>4. phase'[o] = "live" =>
            [owner |-> o, mode |-> Exclusive] \in GrantsOf(table'[TraLock(o)])
    BY <1>1, <1>5, LockNames DEF DbInv, LiveHolds
  <2>. QED
    BY <1>2, <2>1, <2>2, <2>3, <2>4 DEF Own
<1>7. Typing'
  <2>1. \A q \in Callers \ {o} : CallOK(q)'
    BY <1>1, <1>2, CallsStayOK
  <2>2. CallOK(o)'
    BY <1>2 DEF CallOK
  <2>. QED
    BY <1>1, <1>2, <1>3, <1>5, <2>1, <2>2 DEF DbInv, Typing
<1>8. EndedMeansEnded'
  BY <1>3 DEF EndedMeansEnded
<1>. QED
  BY <1>1, <1>5, <1>6, <1>7, <1>8, StepKeepsInv

LEMMA ReleaseKeeps ==
    ASSUME DbInv, NEW o \in Callers, Release(o)
    PROVE  DbInv'
<1>1. /\ call[o] = NotWaiting /\ phase[o] \in {"new", "live"} /\ o \in Owners
      /\ now' = now /\ call' = call /\ answer'.says = "nothing"
      /\ table' = [k \in Locks |-> PurgeBlock(table[k], o)]
      /\ writers' = {w \in writers : w[1] # o}
      /\ phase' = [phase EXCEPT ![o] = IF @ = "live" THEN "ended" ELSE "closed"]
  BY DEF Release, Awake, SayNothing, NoAnswer, Callers
<1>2. /\ phase' \in [Callers -> {"new", "live", "ended", "closed"}]
      /\ phase'[o] = IF phase[o] = "live" THEN "ended" ELSE "closed"
      /\ \A q \in Callers \ {o} : call'[q] = call[q] /\ phase'[q] = phase[q]
      /\ DOMAIN call' = Callers
  BY <1>1 DEF DbInv, Typing
<1>3. \A x \in Callers : phase[x] \in {"live", "ended"} => phase'[x] \in {"live", "ended"}
  BY <1>1, <1>2
<1>4. ASSUME NEW k \in Locks
      PROVE  /\ Orderly(table'[k]) /\ Served(table'[k], table[k], o)
             /\ \A g \in GrantsOf(table'[k]) : g.owner # o
             /\ \A w \in QueueOf(table'[k]) : w.owner # o
  <2>1. Orderly(table[k]) /\ table'[k] = PurgeBlock(table[k], o)
    BY <1>1 DEF DbInv, Typing
  <2>2. Orderly(table'[k]) /\ Served(table'[k], table[k], o)
    BY <2>1, PurgeOrderly, PurgeServes
  <2>. QED
    BY <2>2 DEF Served, QueueWithout, AsGrant
<1>5. DOMAIN table' = Locks
  BY <1>1
<1>6. EndedMeansEnded'
  BY <1>1 DEF EndedMeansEnded
<1>7. \A w \in writers' : w \in writers /\ w[1] # o
  BY <1>1
<1>8. phase'[o] # "live" /\ call'[o] = NotWaiting
  BY <1>1, <1>2
<1>9. answer'.says \in {"nothing", "Granted", "Conflict", "Deadlock", "Ended", "TimedOut"}
  BY <1>1
<1>10. /\ \A k \in Locks : \/ table'[k] = table[k]
                           \/ Orderly(table'[k]) /\ Served(table'[k], table[k], o)
       /\ \A k \in Locks : \A g \in GrantsOf(table'[k]) :
             g.owner = o => MayHold(o, k, g.mode)'
       /\ \A k \in Locks : \A w \in QueueOf(table'[k]) : w.owner # o
  BY <1>4
<1>11. now' = now /\ o \in Owners
  BY <1>1
<1>. QED
  BY <1>2, <1>3, <1>5, <1>6, <1>7, <1>8, <1>9, <1>10, <1>11, ServedStep

LEMMA TransactionIsHeldKeeps ==
    ASSUME DbInv, NEW x \in Callers, TransactionIsHeld(x)
    PROVE  DbInv'
<1>. DEFINE l == TraLock(x)
            t == AfterEnqueue(table, Probe, l, SharedRead, ProbeVerdict(x), NoDeadline)
<1>1. /\ l \in Locks /\ DOMAIN table = Locks /\ Probe \in Owners /\ Probe \notin Callers
      /\ UNCHANGED <<now, phase, call, writers>> /\ answer'.says = "nothing"
      /\ table' = [k \in Locks |-> PurgeBlock(t[k], Probe)] /\ SharedRead \in Mode
  BY LockNames, UsedModes, DbLocksAssumption
     DEF TransactionIsHeld, SayNothing, NoAnswer, Callers, DbInv, Typing
<1>2. \/ Admits(table[l], SharedRead) /\ t = [table EXCEPT ![l] = AddGrant(@, Probe, SharedRead)]
      \/ t = table
  BY DEF ProbeVerdict, EnqueueVerdict, AfterEnqueue
<1>. HIDE DEF t
<1>3. ASSUME NEW k \in Locks
      PROVE  /\ Orderly(table'[k]) /\ Served(table'[k], table[k], Probe)
             /\ \A g \in GrantsOf(table'[k]) : g.owner # Probe
             /\ \A w \in QueueOf(table'[k]) : w.owner # Probe
  <2>1. table'[k] = PurgeBlock(t[k], Probe) /\ Orderly(table[k])
    BY <1>1 DEF DbInv, Typing
  <2>2. CASE t[k] = table[k]
    <3>1. Orderly(table'[k]) /\ Served(table'[k], table[k], Probe)
      BY <2>1, <2>2, PurgeOrderly, PurgeServes
    <3>. QED
      BY <3>1 DEF Served, QueueWithout, AsGrant
  <2>3. CASE /\ k = l /\ Admits(table[l], SharedRead)
             /\ t[k] = AddGrant(table[k], Probe, SharedRead)
    <3>1. ~HoldsOn(table[k], Probe) /\ ~ParkedOn(table[k], Probe)
      BY AwakeIsNowhere
    <3>2. Orderly(t[k])
      BY <1>1, <2>1, <2>3, <3>1, AddGrantOrderly
    <3>3. Orderly(table'[k]) /\ Served(table'[k], t[k], Probe)
      BY <2>1, <3>2, PurgeOrderly, PurgeServes
    <3>4. Served(table'[k], table[k], Probe)
      BY <1>1, <2>1, <2>3, <3>3, GrantThenServe
    <3>. QED
      BY <3>3, <3>4 DEF Served, QueueWithout, AsGrant
  <2>. QED
    BY <1>1, <1>2, <2>2, <2>3
<1>4. EndedMeansEnded'
  BY <1>1 DEF EndedMeansEnded
<1>5. \A w \in writers' : w \in writers /\ w[1] # Probe
  <2>1. \A w \in writers : w[1] \in Callers
    BY DEF DbInv, WritersHold
  <2>. QED
    BY <1>1, <2>1
<1>6. /\ \A k \in Locks : \/ table'[k] = table[k]
                          \/ Orderly(table'[k]) /\ Served(table'[k], table[k], Probe)
      /\ \A k \in Locks : \A g \in GrantsOf(table'[k]) :
            g.owner = Probe => MayHold(Probe, k, g.mode)'
      /\ \A k \in Locks : \A w \in QueueOf(table'[k]) : w.owner # Probe
  BY <1>3
<1>7. /\ \A q \in Callers \ {Probe} : call'[q] = call[q] /\ phase'[q] = phase[q]
      /\ phase' \in [Callers -> {"new", "live", "ended", "closed"}]
      /\ \A y \in Callers : phase[y] \in {"live", "ended"} => phase'[y] \in {"live", "ended"}
      /\ now' = now /\ DOMAIN call' = Callers /\ DOMAIN table' = Locks
      /\ Probe \in Owners /\ Probe \notin Callers
      /\ answer'.says \in {"nothing", "Granted", "Conflict", "Deadlock", "Ended", "TimedOut"}
  BY <1>1 DEF DbInv, Typing
<1>. QED
  BY <1>4, <1>5, <1>6, <1>7, ServedStep

LEMMA TickKeeps ==
    ASSUME DbInv, Tick
    PROVE  DbInv'
<1>1. /\ now' \in 0..MaxTime /\ now <= now' /\ Probe \in Owners
      /\ UNCHANGED <<table, call, phase>> /\ writers' = writers /\ answer'.says = "nothing"
  BY DbLocksAssumption DEF Tick, SayNothing, NoAnswer, DbInv, Typing
<1>. QED
  BY <1>1, SameTable

LEMMA DbInvInit == Init => DbInv
<1>. SUFFICES ASSUME Init PROVE DbInv
  OBVIOUS
<1>1. \A l \in Locks : table[l] = EmptyBlock
  BY DEF Init
<1>2. \A o \in Callers : call[o] = NotWaiting /\ phase[o] = "new"
  BY DEF Init
<1>3. answer.says = "nothing"
  BY DEF Init, NoAnswer
<1>4. Typing
  <2>1. \A l \in Locks : Orderly(table[l])
    BY <1>1, EmptyBlockIsSound DEF Orderly
  <2>2. now \in 0..MaxTime /\ phase \in [Callers -> {"new", "live", "ended", "closed"}]
    BY DbLocksAssumption DEF Init
  <2>. QED
    BY <1>2, <1>3, <2>1, <2>2 DEF Init, Typing, CallOK
<1>5. GrantsAreDue /\ WaitsAreCalls
  BY <1>1, EmptySets DEF GrantsAreDue, WaitsAreCalls
<1>6. LiveHolds /\ NoLostWait /\ WritersHold /\ EndedMeansEnded
  BY <1>2, <1>3 DEF LiveHolds, NoLostWait, WritersHold, EndedMeansEnded, Init
<1>. QED
  BY <1>4, <1>5, <1>6 DEF DbInv

LEMMA DbInvNext == DbInv /\ [Next]_vars => DbInv'
<1>. SUFFICES ASSUME DbInv, [Next]_vars PROVE DbInv'
  OBVIOUS
<1>1. CASE \E o \in Callers : HoldTransaction(o)
  BY <1>1, HoldTransactionKeeps
<1>2. CASE \E o \in Callers, r \in Relations : ReserveRead(o, r) \/ ReserveDml(o, r)
  BY <1>2, ReserveKeeps
<1>3. CASE \E o, x \in Callers, timeout \in Timeouts : WaitForTransaction(o, x, timeout)
  BY <1>3, WaitForTransactionKeeps, DbLocksAssumption
<1>4. CASE \E o \in Callers : WakeGranted(o)
  BY <1>4, WakeGrantedKeeps
<1>5. CASE \E o \in Callers : WakeTimedOut(o)
  BY <1>5, WakeTimedOutKeeps
<1>6. CASE \E o \in Callers : Release(o)
  BY <1>6, ReleaseKeeps
<1>7. CASE \E x \in Callers : TransactionIsHeld(x)
  BY <1>7, TransactionIsHeldKeeps
<1>8. CASE Tick
  BY <1>8, TickKeeps
<1>9. CASE UNCHANGED vars
  BY <1>9 DEF vars, DbInv, Typing, CallOK, WaitsFairly, GrantsAreDue, MayHold,
              WaitsAreCalls, MayWait, LiveHolds, NoLostWait, WritersHold, EndedMeansEnded
<1>. QED
  BY <1>1, <1>2, <1>3, <1>4, <1>5, <1>6, <1>7, <1>8, <1>9 DEF Next

(* The invariant holds of every state the attachments reach. *)
THEOREM DbInvAlways == Spec => []DbInv
BY DbInvInit, DbInvNext, PTL DEF Spec

-------------------------------------------------------------------------------
(* The record is of one shape whoever asks: an owner's wait is for a lock  *)
(* there is, the clock stays within its bound and the answers are the six  *)
(* the callers know.                                                       *)
THEOREM TypeCorrect == Spec => []TypeOK
BY DbInvAlways, InvTypeOK, PTL

(* A thread that wait_for_transaction tells "ended" may write over the     *)
(* rows of that transaction: it has ended, with any number of others       *)
(* waiting for it, timing out beside them or probing its lock.             *)
THEOREM EndedIsTrue == Spec => []EndedMeansEnded
<1>1. DbInv => EndedMeansEnded
  BY DEF DbInv
<1>. QED
  BY <1>1, DbInvAlways, PTL

(* transaction_is_held is exact: the sweep finds the lock of a transaction *)
(* that wrote taken exactly while that transaction lives, so it backs out  *)
(* no version of a living one and spares none of a dead one.               *)
THEOREM ProbeIsExact == Spec => []HeldIffLive
BY DbInvAlways, InvHeldIffLive, PTL

(* Whoever's deadline runs expire, what is parked in the table is what a   *)
(* thread is asleep in now.                                                *)
THEOREM EveryWaitHasItsThread == Spec => []NoOrphanWait
BY DbInvAlways, InvNoOrphanWait, PTL

(* No call of another thread takes away the request a thread sleeps on:    *)
(* it waits, or it is granted, or its own time is up.                      *)
THEOREM EveryThreadHasItsWait == Spec => []NoLostWait
<1>1. DbInv => NoLostWait
  BY DEF DbInv
<1>. QED
  BY <1>1, DbInvAlways, PTL

(* What CONSISTENCY promises and the table gives: while a transaction of   *)
(* degree 3 holds a relation, nobody else that was let in to write it may  *)
(* be a transaction of another degree.                                     *)
ProtectedFromOthers ==
    \A o \in Consistency, p \in Callers \ Consistency, r \in Relations :
        HoldsOn(table[RelLock(r)], o) => <<p, r>> \notin writers
LEMMA InvProtectedFromOthers == DbInv => ProtectedFromOthers
<1>. SUFFICES ASSUME DbInv, NEW o \in Consistency, NEW p \in Callers \ Consistency,
                     NEW r \in Relations, HoldsOn(table[RelLock(r)], o), <<p, r>> \in writers
              PROVE  FALSE
  BY DEF ProtectedFromOthers
<1>1. PICK q \in Callers, s \in Relations : <<p, r>> = <<q, s>> /\ HoldsOn(table[RelLock(s)], q)
  BY DEF DbInv, WritersHold
<1>2. HoldsOn(table[RelLock(r)], p)
  BY <1>1
<1>. QED
  BY <1>2, RelationLock

(* reserve_dml_relation lets nobody of another degree write a relation     *)
(* while a CONSISTENCY transaction holds it.                               *)
THEOREM ConsistencyKeepsOthersOut == Spec => []ProtectedFromOthers
BY DbInvAlways, InvProtectedFromOthers, PTL

(* With at most one transaction of degree 3 that is the whole of what      *)
(* reserve_relation documents: no one else may write what it touched.  Two *)
(* of them are let in to write the same relation after both have read it   *)
(* (the run DbLocksUpgrade).                                               *)
THEOREM OneConsistencyIsProtected ==
    ASSUME \A o, p \in Consistency : o = p
    PROVE  Spec => []ProtectedFromWriters
<1>1. ProtectedFromOthers => ProtectedFromWriters
  BY DbLocksAssumption DEF ProtectedFromOthers, ProtectedFromWriters
<1>. QED
  BY <1>1, ConsistencyKeepsOthersOut, PTL

-------------------------------------------------------------------------------
(* What a step may never do.                                               *)
LEMMA GrantsOnRelationsStay ==
    ASSUME DbInv, Next, NEW r \in Relations, NEW g \in GrantsOf(table[RelLock(r)])
    PROVE  \/ g \in GrantsOf(table'[RelLock(r)])
           \/ phase[g.owner] # phase'[g.owner] /\ phase'[g.owner] \in {"ended", "closed"}
<1>. DEFINE k == RelLock(r)
<1>1. /\ k \in Locks /\ Orderly(table[k]) /\ DOMAIN table = Locks /\ Callers \subseteq Owners
      /\ \A o : k # TraLock(o)
  BY LockNames DEF DbInv, Typing, Callers
<1>. HIDE DEF k
<1>2. ASSUME NEW o \in Callers, HoldTransaction(o) PROVE table'[k] = table[k]
  BY <1>1, <1>2 DEF HoldTransaction, AfterEnqueue, TraLock, EnqueueVerdict
<1>3. ASSUME NEW o \in Callers, NEW s \in Relations, NEW m \in Mode,
             NEW wait \in BOOLEAN, NEW timeout \in Nat, ReserveRelation(o, s, m, wait, timeout)
      PROVE  g \in GrantsOf(table'[k])
  <2>. DEFINE l == RelLock(s)
              d == IF wait THEN now + timeout ELSE NoDeadline
              v == EnqueueVerdict(table, o, l, m, wait, d)
  <2>1. \/ table' = table
        \/ table' = [table EXCEPT ![l] = AddGrant(@, o, m)]
        \/ wait /\ table' = [table EXCEPT ![l] = Park(@, o, m, d)]
    BY <1>3 DEF ReserveRelation, Ask, AfterEnqueue, EnqueueVerdict
  <2>2. wait => d \in Nat
    BY DbLocksAssumption DEF DbInv, Typing
  <2>. HIDE DEF l, d
  <2>3. \/ table'[k] = table[k]
        \/ table'[k] = AddGrant(table[k], o, m)
        \/ wait /\ table'[k] = Park(table[k], o, m, d)
    BY <1>1, <2>1
  <2>. QED
    BY <1>1, <2>2, <2>3, AddGrantSets, ParkSets DEF k
<1>4. ASSUME NEW o \in Callers, NEW x \in Callers, NEW timeout \in Timeouts,
             WaitForTransaction(o, x, timeout)
      PROVE  table'[k] = table[k]
  BY <1>1, <1>4 DEF WaitForTransaction, Ask, AfterEnqueue
<1>5. ASSUME NEW o \in Callers, WakeGranted(o) PROVE table'[k] = table[k]
  <2>1. call[o].lock # k \/ ~IsTra(k)
    BY LockNames DEF k
  <2>. QED
    BY <1>1, <1>5, <2>1 DEF WakeGranted
<1>6. ASSUME NEW o \in Callers, WakeTimedOut(o) PROVE g \in GrantsOf(table'[k])
  <2>1. table'[k] = ExpireBlock(table[k], now)
    BY <1>1, <1>6 DEF WakeTimedOut
  <2>. QED
    BY <1>1, <2>1, ExpireSets DEF k
<1>7. ASSUME NEW o \in Callers, Release(o)
      PROVE  \/ g \in GrantsOf(table'[k])
             \/ phase[g.owner] # phase'[g.owner] /\ phase'[g.owner] \in {"ended", "closed"}
  <2>1. /\ table'[k] = PurgeBlock(table[k], o) /\ phase[o] \in {"new", "live"}
        /\ phase' = [phase EXCEPT ![o] = IF @ = "live" THEN "ended" ELSE "closed"]
    BY <1>1, <1>7 DEF Release, Awake
  <2>2. Served(table'[k], table[k], o)
    BY <1>1, <2>1, PurgeServes
  <2>3. g.owner # o => g \in GrantsOf(table'[k])
    BY <2>2 DEF Served, k
  <2>4. phase'[o] = IF phase[o] = "live" THEN "ended" ELSE "closed"
    BY <2>1 DEF DbInv, Typing
  <2>. QED
    BY <2>1, <2>3, <2>4
<1>8. ASSUME NEW x \in Callers, TransactionIsHeld(x) PROVE g \in GrantsOf(table'[k])
  <2>. DEFINE t == AfterEnqueue(table, Probe, TraLock(x), SharedRead, ProbeVerdict(x), NoDeadline)
  <2>1. t[k] = table[k]
    BY <1>1 DEF AfterEnqueue
  <2>2. table'[k] = PurgeBlock(table[k], Probe)
    BY <1>1, <1>8, <2>1 DEF TransactionIsHeld
  <2>3. Served(table'[k], table[k], Probe)
    BY <1>1, <2>2, PurgeServes
  <2>4. g.owner # Probe
    BY <1>1 DEF DbInv, GrantsAreDue, MayHold, Callers, k
  <2>. QED
    BY <2>3, <2>4 DEF Served, k
<1>9. ASSUME NEW o \in Callers, NEW s \in Relations, ReserveRead(o, s) \/ ReserveDml(o, s)
      PROVE  g \in GrantsOf(table'[k])
  <2>1. CASE ReserveRead(o, s)
    BY <1>3, <2>1, UsedModes DEF ReserveRead
  <2>2. CASE ReserveDml(o, s)
    BY <1>3, <2>2, UsedModes, DbLocksAssumption DEF ReserveDml
  <2>. QED
    BY <1>9, <2>1, <2>2
<1>10. Tick => table'[k] = table[k]
  BY DEF Tick
<1>. QED
  BY <1>2, <1>4, <1>5, <1>6, <1>7, <1>8, <1>9, <1>10 DEF Next, k

(* A reservation stays, at the level it was taken, until the transaction   *)
(* of its owner ends: no release, timeout or sweep of another one takes it *)
(* away or weakens it.                                                     *)
THEOREM ReservationsStay == Spec => ReservationsLast
<1>1. DbInv /\ [Next]_vars => [KeepsReservations]_vars
  <2>. SUFFICES ASSUME DbInv, Next, NEW o \in Callers, NEW r \in Relations, NEW m \in Mode,
                       HasReserved(table, o, r, m)
                PROVE  \/ HasReserved(table', o, r, m)
                       \/ phase[o] # phase'[o] /\ phase'[o] \in {"ended", "closed"}
    BY DEF KeepsReservations
  <2>. DEFINE g == [owner |-> o, mode |-> m]
  <2>1. g \in GrantsOf(table[RelLock(r)]) /\ g.owner = o
    BY DEF HasReserved, GrantsOf
  <2>2. g \in GrantsOf(table'[RelLock(r)]) => HasReserved(table', o, r, m)
    BY DEF HasReserved, GrantsOf
  <2>. HIDE DEF g
  <2>. QED
    BY <2>1, <2>2, GrantsOnRelationsStay
<1>. QED
  BY <1>1, DbInvAlways, PTL DEF Spec, ReservationsLast

(* A thread whose wait for a transaction was granted hears that it ended,  *)
(* though its deadline may have passed by the time it wakes.               *)
THEOREM GrantsBeatTimeouts == Spec => GrantBeatsTimeout
<1>1. DbInv /\ [Next]_vars => [HearsOfTheGrant]_vars
  <2>. SUFFICES ASSUME DbInv, Next, NEW o \in Callers, NEW x \in Callers,
                       call[o].lock = TraLock(x), HoldsOn(table[TraLock(x)], o),
                       call'[o] = NotWaiting
                PROVE  answer'.says = "Ended"
    BY DEF HearsOfTheGrant
  <2>1. call[o] # NotWaiting
    BY NoLockIsEmpty, LockNames DEF NotWaiting
  <2>2. call'[o] # call[o]
    BY <2>1
  <2>3. ASSUME NEW p \in Callers, NEW l, NEW m, NEW d, NEW v, Ask(p, l, m, d, v), Awake(p)
        PROVE  FALSE
    <3>1. p # o
      BY <2>1, <2>3 DEF Awake
    <3>. QED
      BY <2>2, <2>3, <3>1 DEF Ask, DbInv, Typing
  <2>4. ASSUME NEW p \in Callers, HoldTransaction(p) \/ Release(p) \/ TransactionIsHeld(p)
        PROVE  FALSE
    BY <2>2, <2>4 DEF HoldTransaction, Release, TransactionIsHeld
  <2>5. ASSUME NEW p \in Callers, NEW r, NEW m, NEW wait, NEW timeout,
               ReserveRelation(p, r, m, wait, timeout)
        PROVE  FALSE
    BY <2>2, <2>3, <2>5 DEF ReserveRelation
  <2>6. ASSUME NEW p \in Callers, NEW y, NEW timeout, WaitForTransaction(p, y, timeout)
        PROVE  FALSE
    BY <2>2, <2>3, <2>6 DEF WaitForTransaction
  <2>7. ASSUME NEW p \in Callers, WakeGranted(p) PROVE answer'.says = "Ended"
    <3>1. p = o
      BY <2>2, <2>7 DEF WakeGranted, Wake, DbInv, Typing
    <3>2. IsTra(call[o].lock)
      BY LockNames
    <3>. QED
      BY <2>7, <3>1, <3>2 DEF WakeGranted, Say
  <2>8. ASSUME NEW p \in Callers, WakeTimedOut(p) PROVE FALSE
    <3>1. p = o
      BY <2>2, <2>8 DEF WakeTimedOut, Wake, DbInv, Typing
    <3>. QED
      BY <2>8, <3>1 DEF WakeTimedOut
  <2>9. ~Tick
    BY <2>2 DEF Tick
  <2>. QED
    BY <2>4, <2>5, <2>6, <2>7, <2>8, <2>9 DEF Next, ReserveRead, ReserveDml
<1>. QED
  BY <1>1, DbInvAlways, PTL DEF Spec, GrantBeatsTimeout
==============================================================================
