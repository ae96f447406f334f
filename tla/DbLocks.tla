------------------------------- MODULE DbLocks -------------------------------
(***************************************************************************)
(* src/crates/wire/src/dblocks.rs: the attachments of one database and the *)
(* lock table they share.  A thread waits for a lock by parking on a       *)
(* condition variable and re-testing the table whenever it is notified or  *)
(* 50 ms have passed; a wait whose deadline has come runs the table's      *)
(* expire, which drops the overdue waits of EVERY thread.                  *)
(*                                                                         *)
(* A caller stands for one transaction and the thread that runs it: it     *)
(* reserves relations, holds the lock of its own transaction once that has *)
(* written, waits for the transactions whose rows it meets, and ends.      *)
(* Each action is one critical section of the table's mutex.  Knocks are   *)
(* left out: nothing in the server takes them.                             *)
(***************************************************************************)
EXTENDS LockTableOps

CONSTANTS Probe,         \* the owner transaction_is_held makes and purges
          Consistency,   \* the callers with table stability (degree 3)
          Relations,
          Timeouts,      \* how many ticks a wait may last
          MaxTime        \* bound: no wait lasts beyond this tick

Callers == Owners \ {Probe}

TraLock(o) == <<"tra", o>>
RelLock(r) == <<"rel", r>>

ASSUME DbLocksAssumption ==
    /\ Probe \in Owners
    /\ Consistency \subseteq Callers
    /\ Locks = {TraLock(o) : o \in Callers} \cup {RelLock(r) : r \in Relations}
    /\ Timeouts \subseteq Nat
    /\ MaxTime \in Nat

VARIABLES table,    \* Mutex<LockTable>
          now,      \* now_ms()
          phase,    \* per owner: where its transaction is
          call,     \* per owner: the wait it is parked in
          answer,   \* what the last step told an owner, if it told one
          writers   \* <<o, r>>: o's reservation of r for DML was granted

vars == <<table, now, phase, call, answer, writers>>

NotWaiting == [lock |-> <<>>, mode |-> None_, deadline |-> 0]
NoAnswer == [owner |-> Probe, says |-> "nothing", lock |-> <<>>]
Say(o, what, l) == answer' = [owner |-> o, says |-> what, lock |-> l]
SayNothing == answer' = NoAnswer

IsTra(l) == l[1] = "tra"
Awake(o) == call[o] = NotWaiting /\ phase[o] \in {"new", "live"}

-------------------------------------------------------------------------------
Init ==
    /\ table = [l \in Locks |-> EmptyBlock]
    /\ now = 0
    /\ phase = [o \in Callers |-> "new"]
    /\ call = [o \in Callers |-> NotWaiting]
    /\ answer = NoAnswer
    /\ writers = {}

(* Mutant: the transaction's lock is held shared. *)
HoldTransaction_Shared(o) ==
    LET l == TraLock(o)
        v == EnqueueVerdict(table, o, l, SharedRead, FALSE, NoDeadline)
    IN  /\ Awake(o) /\ phase[o] = "new"
        /\ table' = AfterEnqueue(table, o, l, SharedRead, v, NoDeadline)
        /\ phase' = [phase EXCEPT ![o] = "live"]
        /\ UNCHANGED <<now, call, writers>>
        /\ SayNothing

(* The first write of a transaction: it holds its own lock.  The verdict   *)
(* is not looked at.                                                       *)
HoldTransaction(o) ==
    LET l == TraLock(o)
        v == EnqueueVerdict(table, o, l, Exclusive, FALSE, NoDeadline)
    IN  /\ Awake(o) /\ phase[o] = "new"
        /\ table' = AfterEnqueue(table, o, l, Exclusive, v, NoDeadline)
        /\ phase' = [phase EXCEPT ![o] = "live"]
        /\ UNCHANGED <<now, call, writers>>
        /\ SayNothing

(* Mutant: the deadline of a wait is not handed to the table. *)
Ask_NoDeadline(o, l, m, d, v) ==
    /\ table' = AfterEnqueue(table, o, l, m, v, NoDeadline)
    /\ call' = IF v = "Waiting"
               THEN [call EXCEPT ![o] = [lock |-> l, mode |-> m, deadline |-> d]]
               ELSE call
    /\ UNCHANGED <<now, phase>>

(* Ask for l; a request that must wait parks the thread. *)
Ask(o, l, m, d, v) ==
    /\ table' = AfterEnqueue(table, o, l, m, v, d)
    /\ call' = IF v = "Waiting"
               THEN [call EXCEPT ![o] = [lock |-> l, mode |-> m, deadline |-> d]]
               ELSE call
    /\ UNCHANGED <<now, phase>>

(* The relation is o's: a statement that came to write it goes on. *)
Reserved(o, r, m) ==
    /\ Say(o, "Granted", RelLock(r))
    /\ writers' = IF m \in {SharedWrite, ProtectedWrite}
                  THEN writers \cup {<<o, r>>} ELSE writers
NotReserved(o, what, r) == Say(o, what, RelLock(r)) /\ UNCHANGED writers

(* An owner with any grant on the relation gets no other: asking for a     *)
(* stronger mode is answered with the one it has.                          *)
ReserveRelation(o, r, m, wait, timeout) ==
    LET l == RelLock(r)
        d == IF wait THEN now + timeout ELSE NoDeadline
        v == EnqueueVerdict(table, o, l, m, wait, d)
    IN  /\ Awake(o) /\ (wait => d <= MaxTime)
        /\ IF HoldsOn(table[l], o)
           THEN /\ Reserved(o, r, m)
                /\ UNCHANGED <<table, now, phase, call>>
           ELSE /\ Ask(o, l, m, d, v)
                /\ CASE v = "Granted"  -> Reserved(o, r, m)
                     [] v = "Rejected" -> NotReserved(o, "Conflict", r)
                     [] v = "Deadlock" -> NotReserved(o, "Deadlock", r)
                     [] OTHER          -> SayNothing /\ UNCHANGED writers

(* A transaction of degree 3 protects what it reads, if that can be had at *)
(* once (reserve_relation_read), and what it writes (reserve_dml_relation).*)
ReserveRead(o, r) ==
    o \in Consistency /\ ReserveRelation(o, r, ProtectedRead, FALSE, 0)
(* Mutant: every writer shares the table. *)
DmlMode_Shared(o) == SharedWrite

DmlMode(o) == IF o \in Consistency THEN ProtectedWrite ELSE SharedWrite
ReserveDml(o, r) ==
    \/ ReserveRelation(o, r, DmlMode(o), FALSE, 0)
    \/ \E timeout \in Timeouts : ReserveRelation(o, r, DmlMode(o), TRUE, timeout)

(* Mutant: the waiter asks for the lock as the holder has it. *)
WaitForTransaction_Exclusive(o, x, timeout) ==
    LET l == TraLock(x)
        d == now + timeout
        v == EnqueueVerdict(table, o, l, Exclusive, TRUE, d)
        t == AfterEnqueue(table, o, l, Exclusive, v, d)
    IN  /\ Awake(o) /\ x # o /\ phase[x] \in {"live", "ended"} /\ d <= MaxTime
        /\ UNCHANGED writers
        /\ IF v = "Granted"
           THEN /\ table' = [t EXCEPT ![l] = DequeueBlock(@, o)]
                /\ Say(o, "Ended", l)
                /\ UNCHANGED <<now, phase, call>>
           ELSE /\ Ask(o, l, Exclusive, d, v)
                /\ IF v = "Deadlock" THEN Say(o, "Deadlock", l) ELSE SayNothing

(* A writer met a version of x, so x has held its lock (and may be gone).  *)
WaitForTransaction(o, x, timeout) ==
    LET l == TraLock(x)
        d == now + timeout
        v == EnqueueVerdict(table, o, l, SharedRead, TRUE, d)
        t == AfterEnqueue(table, o, l, SharedRead, v, d)
    IN  /\ Awake(o) /\ x # o /\ phase[x] \in {"live", "ended"} /\ d <= MaxTime
        /\ UNCHANGED writers
        /\ IF v = "Granted"
           THEN /\ table' = [t EXCEPT ![l] = DequeueBlock(@, o)]
                /\ Say(o, "Ended", l)
                /\ UNCHANGED <<now, phase, call>>
           ELSE /\ Ask(o, l, SharedRead, d, v)
                /\ IF v = "Deadlock" THEN Say(o, "Deadlock", l) ELSE SayNothing

-------------------------------------------------------------------------------
(* One turn of the parked loop: granted?  else out of time?  else sleep.   *)
Wake(o) ==
    /\ call[o] # NotWaiting
    /\ call' = [call EXCEPT ![o] = NotWaiting]
    /\ UNCHANGED <<now, phase>>

WakeGranted(o) ==
    LET l == call[o].lock
    IN  /\ Wake(o)
        /\ HoldsOn(table[l], o)
        /\ IF IsTra(l)
           THEN /\ table' = [table EXCEPT ![l] = DequeueBlock(@, o)]
                /\ Say(o, "Ended", l)
                /\ UNCHANGED writers
           ELSE /\ Reserved(o, l[2], call[o].mode)
                /\ UNCHANGED table

(* Mutant: the request that ran out of time stays parked. *)
WakeTimedOut_NoExpire(o) ==
    LET l == call[o].lock
    IN  /\ Wake(o)
        /\ ~HoldsOn(table[l], o)
        /\ call[o].deadline <= now
        /\ table' = table
        /\ Say(o, IF IsTra(l) THEN "TimedOut" ELSE "Conflict", l)
        /\ UNCHANGED writers

(* Mutant: every wait with a deadline is dropped. *)
WakeTimedOut_ExpiresAll(o) ==
    LET l == call[o].lock
    IN  /\ Wake(o)
        /\ ~HoldsOn(table[l], o)
        /\ call[o].deadline <= now
        /\ table' = [k \in Locks |-> ExpireBlock(table[k], MaxTime)]
        /\ Say(o, IF IsTra(l) THEN "TimedOut" ELSE "Conflict", l)
        /\ UNCHANGED writers

(* Mutant: a wait that ran out drops all its owner has. *)
WakeTimedOut_Purges(o) ==
    LET l == call[o].lock
    IN  /\ Wake(o)
        /\ ~HoldsOn(table[l], o)
        /\ call[o].deadline <= now
        /\ table' = [k \in Locks |-> PurgeBlock(table[k], o)]
        /\ Say(o, IF IsTra(l) THEN "TimedOut" ELSE "Conflict", l)
        /\ UNCHANGED writers

(* Mutant: the deadline is looked at before the grant. *)
WakeTimedOut_First(o) ==
    LET l == call[o].lock
    IN  /\ Wake(o)
        /\ call[o].deadline <= now
        /\ table' = [k \in Locks |-> ExpireBlock(table[k], now)]
        /\ Say(o, IF IsTra(l) THEN "TimedOut" ELSE "Conflict", l)
        /\ UNCHANGED writers

(* Mutant: the loop does not end when the time is up. *)
WakeTimedOut_SleepsOn(o) ==
    LET l == call[o].lock
    IN  /\ call[o] # NotWaiting /\ UNCHANGED <<now, phase, call>>
        /\ ~HoldsOn(table[l], o)
        /\ call[o].deadline <= now
        /\ table' = [k \in Locks |-> ExpireBlock(table[k], now)]
        /\ Say(o, IF IsTra(l) THEN "TimedOut" ELSE "Conflict", l)
        /\ UNCHANGED writers

WakeTimedOut(o) ==
    LET l == call[o].lock
    IN  /\ Wake(o)
        /\ ~HoldsOn(table[l], o)
        /\ call[o].deadline <= now
        /\ table' = [k \in Locks |-> ExpireBlock(table[k], now)]
        /\ Say(o, IF IsTra(l) THEN "TimedOut" ELSE "Conflict", l)
        /\ UNCHANGED writers

(* Commit or rollback, when the state of the transaction is on its pages.  *)
Release(o) ==
    /\ Awake(o)
    /\ table' = [l \in Locks |-> PurgeBlock(table[l], o)]
    /\ phase' = [phase EXCEPT ![o] = IF @ = "live" THEN "ended" ELSE "closed"]
    /\ writers' = {w \in writers : w[1] # o}
    /\ UNCHANGED <<now, call>>
    /\ SayNothing

(* The sweep asks whether x, ACTIVE in the inventory, has a living owner.  *)
ProbeVerdict(x) ==
    EnqueueVerdict(table, Probe, TraLock(x), SharedRead, FALSE, NoDeadline)
TransactionIsHeld(x) ==
    LET t == AfterEnqueue(table, Probe, TraLock(x), SharedRead,
                              ProbeVerdict(x), NoDeadline)
    IN  /\ phase[x] \in {"live", "ended"}
        /\ table' = [l \in Locks |-> PurgeBlock(t[l], Probe)]
        /\ UNCHANGED <<now, phase, call, writers>>
        /\ SayNothing

Tick ==
    /\ now < MaxTime
    /\ now' = now + 1
    /\ SayNothing
    /\ UNCHANGED <<table, phase, call, writers>>

Next ==
    \/ \E o \in Callers : HoldTransaction(o)
    \/ \E o \in Callers, r \in Relations : ReserveRead(o, r)
    \/ \E o \in Callers, r \in Relations : ReserveDml(o, r)
    \/ \E o, x \in Callers, timeout \in Timeouts : WaitForTransaction(o, x, timeout)
    \/ \E o \in Callers : WakeGranted(o)
    \/ \E o \in Callers : WakeTimedOut(o)
    \/ \E o \in Callers : Release(o)
    \/ \E x \in Callers : TransactionIsHeld(x)
    \/ Tick

(* A parked thread re-tests at least every 50 ms, and the clock runs.      *)
Fairness ==
    /\ \A o \in Callers : WF_vars(WakeGranted(o) \/ WakeTimedOut(o))
    /\ WF_vars(Tick)

Spec == Init /\ [][Next]_vars /\ Fairness

-------------------------------------------------------------------------------
TypeOK ==
    /\ now \in 0..MaxTime
    /\ phase \in [Callers -> {"new", "live", "ended", "closed"}]
    /\ \A o \in Callers : call[o].lock \in Locks \cup {<<>>} /\ call[o].deadline \in Nat
    /\ answer.says \in {"nothing", "Granted", "Conflict", "Deadlock", "Ended", "TimedOut"}
    /\ \A l \in Locks : \A i \in DOMAIN table[l].pending :
          table[l].pending[i].deadline \in Nat

(* A writer that is told the transaction it waited for has ended may write *)
(* over its rows: the transaction really has ended.                        *)
EndedMeansEnded ==
    \A x \in Callers :
        answer.says = "Ended" /\ answer.lock = TraLock(x) => phase[x] = "ended"

(* The sweep backs out the versions of an active transaction without a     *)
(* living owner: the probe sees an owner exactly while there is one, with  *)
(* any number of writers waiting, served or timed out beside it.           *)
HeldIffLive ==
    \A x \in Callers : phase[x] \in {"live", "ended"} =>
        (ProbeVerdict(x) # "Granted" <=> phase[x] = "live")

(* "a request that gave up leaves nothing parked": a wait in the table is  *)
(* the wait of a thread that is parked there now, whoever's deadline ran   *)
(* expire in the meantime.                                                 *)
NoOrphanWait ==
    \A o \in Callers, l \in Locks :
        ParkedOn(table[l], o) => call[o].lock = l

(* A parked thread can still be served: its request waits, or is granted,  *)
(* or its own deadline has passed - nobody else's call took it away.       *)
NoLostWait ==
    \A o \in Callers : call[o] # NotWaiting =>
        \/ ParkedOn(table[call[o].lock], o)
        \/ HoldsOn(table[call[o].lock], o)
        \/ call[o].deadline <= now

(* A reservation lasts, at the level it was taken, until its owner's own   *)
(* transaction ends.                                                       *)
HasReserved(t, o, r, m) ==
    \E i \in DOMAIN t[RelLock(r)].granted :
        t[RelLock(r)].granted[i] = [owner |-> o, mode |-> m]
KeepsReservations ==
    \A o \in Callers, r \in Relations, m \in Mode :
        HasReserved(table, o, r, m) =>
            \/ HasReserved(table', o, r, m)
            \/ phase[o] # phase'[o] /\ phase'[o] \in {"ended", "closed"}
ReservationsLast == [][KeepsReservations]_vars

(* No thread stays parked: it is served or its wait runs out.              *)
EveryWaitReturns ==
    \A o \in Callers : call[o] # NotWaiting ~> call[o] = NotWaiting

(* A writer whose wait was granted hears that the transaction ended, even  *)
(* if it only wakes when its deadline has passed as well.                  *)
HearsOfTheGrant ==
    \A o, x \in Callers :
        /\ call[o].lock = TraLock(x)
        /\ HoldsOn(table[TraLock(x)], o)
        /\ call'[o] = NotWaiting
        => answer'.says = "Ended"
GrantBeatsTimeout == [][HearsOfTheGrant]_vars

(* A CONSISTENCY transaction "takes a protected lock on every table it     *)
(* touches so that no one else may WRITE it while it lives"                *)
(* (reserve_relation).                                                     *)
ProtectedFromWriters ==
    \A o \in Consistency, p \in Callers, r \in Relations :
        o # p /\ HoldsOn(table[RelLock(r)], o) => <<p, r>> \notin writers
===============================================================================
