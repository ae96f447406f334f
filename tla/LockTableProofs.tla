--------------------------- MODULE LockTableProofs ---------------------------
(***************************************************************************)
(* Theorems about LockTable, for any owners, locks, modes and deadlines:   *)
(* what holds whatever calls are made (Spec), and what the lock manager    *)
(* promises to callers that keep to the calls of wire/src/dblocks.rs       *)
(* (DisciplinedSpec).                                                      *)
(***************************************************************************)
EXTENDS LockTable, LockTableOpsProofs

-------------------------------------------------------------------------------
(* The inductive invariant of Spec. *)
TableInv ==
    /\ owners \subseteq Owners
    /\ knocks \in [Owners -> [Locks -> Mode \cup {NoKnock}]]
    /\ DOMAIN table = Locks
    /\ \A l \in Locks : BlockOK(table[l])

LEMMA TableInvInit == Init => TableInv
BY EmptyBlockOK DEF Init, TableInv

LEMMA TableInvNext == TableInv /\ [Next]_vars => TableInv'
<1>. SUFFICES ASSUME TableInv, [Next]_vars PROVE TableInv'
  OBVIOUS
<1>. USE DEF TableInv
<1>0. RequestModes \subseteq Mode /\ Deadlines \subseteq Nat /\ DataWords \subseteq Nat
  BY LockTableAssumption
<1>1. CASE \E o \in Owners : CreateOwner(o)
  BY <1>1 DEF CreateOwner
<1>2. ASSUME NEW o \in owners, NEW l \in Locks, NEW m \in RequestModes,
             NEW wait \in BOOLEAN, NEW d \in Waits, Enqueue(o, l, m, wait, d)
      PROVE  TableInv'
  <2>1. m \in Mode /\ o \in Owners /\ d \in Nat \cup {NoDeadline}
    BY <1>0 DEF Waits
  <2>2. DOMAIN table' = Locks /\ \A k \in Locks : BlockOK(table'[k])
    BY <1>2, <2>1, EnqueueOK DEF Enqueue
  <2>3. knocks' \in [Owners -> [Locks -> Mode \cup {NoKnock}]]
    BY <1>2, <2>1, KnocksType DEF Enqueue
  <2>. QED
    BY <1>2, <2>2, <2>3 DEF Enqueue
<1>3. ASSUME NEW o \in owners, NEW l \in Locks, NEW m \in RequestModes,
             NEW wait \in BOOLEAN, Convert(o, l, m, wait)
      PROVE  TableInv'
  <2>1. m \in Mode /\ o \in Owners
    BY <1>0
  <2>2. DOMAIN table' = Locks /\ \A k \in Locks : BlockOK(table'[k])
    BY <1>3, <2>1, ConvertOK DEF Convert
  <2>3. knocks' \in [Owners -> [Locks -> Mode \cup {NoKnock}]]
    BY <1>3, <2>1, KnocksType DEF Convert
  <2>. QED
    BY <1>3, <2>2, <2>3 DEF Convert
<1>4. ASSUME NEW o \in owners, NEW l \in Locks, Dequeue(o, l)
      PROVE  TableInv'
  <2>1. BlockOK(DequeueBlock(table[l], o))
    BY DequeueOK DEF BlockOK
  <2>. QED
    BY <1>4, <2>1 DEF Dequeue
<1>5. ASSUME NEW o \in owners, TakeKnocks(o)
      PROVE  TableInv'
  BY <1>5 DEF TakeKnocks
<1>6. ASSUME NEW now \in Deadlines, Expire(now)
      PROVE  TableInv'
  BY <1>6, ExpireOK DEF Expire
<1>7. ASSUME NEW o \in owners, PurgeOwner(o)
      PROVE  TableInv'
  BY <1>7, PurgeOK DEF PurgeOwner
<1>8. ASSUME NEW o \in owners, NEW l \in Locks, NEW w \in DataWords, WriteData(o, l, w)
      PROVE  TableInv'
  <2>. DEFINE c == [table[l] EXCEPT !.data = w]
  <2>1. BlockType(table[l]) /\ CountsMatch(table[l]) /\ Held(table[l])
    BY DEF BlockOK, Sound
  <2>2. /\ BlockType(c) /\ c.granted = table[l].granted /\ c.counts = table[l].counts
        /\ c.pending = table[l].pending
    BY <1>0, <2>1 DEF BlockType
  <2>3. table[l].granted # <<>>
    BY <1>8 DEF WriteData, HoldsOn
  <2>4. table' = [table EXCEPT ![l] = c]
    BY <1>8 DEF WriteData
  <2>. HIDE DEF c
  <2>5. BlockOK(c)
    BY <2>1, <2>2, <2>3 DEF BlockOK, Sound, Held, CountsMatch
  <2>. QED
    BY <1>8, <2>4, <2>5 DEF WriteData
<1>9. CASE UNCHANGED vars
  BY <1>9 DEF vars
<1>10. CASE EnqueueWait \/ EnqueueNoWait
  BY <1>2, <1>10 DEF EnqueueWait, EnqueueNoWait, Waits
<1>11. CASE ConvertWait \/ ConvertNoWait
  BY <1>3, <1>11 DEF ConvertWait, ConvertNoWait
<1>. QED
  BY <1>1, <1>4, <1>5, <1>6, <1>7, <1>8, <1>9, <1>10, <1>11 DEF Next

LEMMA TableInvAlways == Spec => []TableInv
BY TableInvInit, TableInvNext, PTL DEF Spec

(* Every reachable table is made of sound blocks, for any owners, locks,   *)
(* modes, deadlines and bound.                                             *)
THEOREM TypeCorrect == Spec => []TypeOK
<1>1. TableInv => TypeOK
  BY DEF TableInv, TypeOK, BlockOK, Sound
<1>. QED
  BY <1>1, TableInvAlways, PTL

(* The counts the grant test reads never drift from the grants, whatever   *)
(* calls are made in whatever order.                                       *)
THEOREM CountsAlwaysExact == Spec => []CountsExact
<1>1. TableInv => CountsExact
  BY DEF TableInv, CountsExact, BlockOK, Sound
<1>. QED
  BY <1>1, TableInvAlways, PTL

(* No queue is ever left standing on a lock without holders.               *)
THEOREM NoLostQueue == Spec => []QueueHasHolder
<1>1. TableInv => QueueHasHolder
  BY DEF TableInv, QueueHasHolder, BlockOK, Held
<1>. QED
  BY <1>1, TableInvAlways, PTL

(* The data word of a name nobody has a request on is zero.                *)
THEOREM DataNeverOutlives == Spec => []DataDiesWithLock
<1>1. TableInv => DataDiesWithLock
  BY DEF TableInv, DataDiesWithLock, BlockOK, Held
<1>. QED
  BY <1>1, TableInvAlways, PTL

-------------------------------------------------------------------------------
(* The inductive invariant of DisciplinedSpec. *)
DisciplineInv ==
    /\ owners \subseteq Owners
    /\ DOMAIN table = Locks
    /\ \A l \in Locks : Orderly(table[l])
    /\ OneWait(table)
    /\ Acyclic(table)

LEMMA DisciplineInit == Init => DisciplineInv
<1>. SUFFICES ASSUME Init PROVE DisciplineInv
  OBVIOUS
<1>1. owners = {} /\ DOMAIN table = Locks /\ \A l \in Locks : table[l] = EmptyBlock
  BY DEF Init
<1>2. \A l \in Locks : Orderly(table[l])
  BY <1>1, EmptyBlockIsSound DEF Orderly
<1>3. \A o : IdleIn(table, o)
  <2>1. DOMAIN EmptyBlock.pending = {}
    BY EmptyBlockIsSound
  <2>. QED
    BY <1>1, <2>1 DEF IdleIn, ParkedOn
<1>4. OneWait(table)
  BY <1>3 DEF OneWait, IdleIn
<1>5. Acyclic(table)
  BY <1>3, IdleWaitsForNobody DEF Acyclic
<1>. QED
  BY <1>1, <1>2, <1>4, <1>5 DEF DisciplineInv

LEMMA EnqueueKeepsDiscipline ==
    ASSUME DisciplineInv, NEW o \in owners, NEW l \in Locks, NEW m \in Mode,
           NEW wait \in BOOLEAN, NEW d \in Nat \cup {NoDeadline},
           Fresh(o, l), Enqueue(o, l, m, wait, d)
    PROVE  DisciplineInv'
<1>. USE DEF DisciplineInv
<1>. DEFINE v == EnqueueVerdict(table, o, l, m, wait, d)
<1>1. /\ o \in Owners /\ IdleIn(table, o) /\ Orderly(table[l])
      /\ ~HoldsOn(table[l], o) /\ ~ParkedOn(table[l], o)
  BY DEF Fresh, Idle, IdleIn
<1>2. table' = AfterEnqueue(table, o, l, m, v, d) /\ owners' = owners
  BY DEF Enqueue
<1>3. CASE v = "Granted"
  <2>. DEFINE c == AddGrant(table[l], o, m)
  <2>1. table' = [table EXCEPT ![l] = c]
    BY <1>2, <1>3 DEF AfterEnqueue
  <2>2. Admits(table[l], m)
    BY <1>3 DEF EnqueueVerdict
  <2>3. Orderly(c) /\ Shrinks(c, table[l], {o})
    BY <1>1, <2>2, AddGrantOrderly, AddGrantShrinks
  <2>. HIDE DEF c
  <2>4. \A k \in Locks : Orderly(table'[k]) /\ Shrinks(table'[k], table[k], {o})
    <3>1. \A b : Shrinks(b, b, {o})
      BY DEF Shrinks
    <3>. QED
      BY <2>1, <2>3, <3>1
  <2>5. Acyclic(table') /\ OneWait(table')
    BY <1>1, <2>4, GrantKeepsGraph
  <2>. QED
    BY <1>2, <2>1, <2>4, <2>5
<1>4. CASE v = "Waiting"
  <2>. DEFINE c == Park(table[l], o, m, d)
  <2>1. table' = [table EXCEPT ![l] = c]
    BY <1>2, <1>4 DEF AfterEnqueue
  <2>2. ~DeadlockFrom([table EXCEPT ![l] = c], o)
    BY <1>4 DEF EnqueueVerdict
  <2>3. Orderly(c)
    BY <1>1, ParkOrderly
  <2>4. /\ c.granted = table[l].granted
        /\ \A i \in DOMAIN c.pending :
              \/ c.pending[i].owner = o
              \/ \E j \in DOMAIN table[l].pending : c.pending[i] = table[l].pending[j]
    <3>. DEFINE L == Len(table[l].pending)
                w == [owner |-> o, mode |-> m, deadline |-> d]
    <3>1. /\ Sound(c) /\ c.granted = table[l].granted
          /\ Len(c.pending) = L + 1
          /\ \A i \in DOMAIN table[l].pending : c.pending[i] = table[l].pending[i]
          /\ c.pending[L + 1] = w
      BY <1>1, ParkFacts DEF Orderly
    <3>. HIDE DEF c
    <3>2. /\ DOMAIN table[l].pending = 1..L /\ L \in Nat
          /\ DOMAIN c.pending = 1..(L + 1)
      BY <1>1, <3>1, BlockDomains DEF Orderly, Sound
    <3>3. w.owner = o
      OBVIOUS
    <3>. HIDE DEF L, w
    <3>4. \A i \in DOMAIN c.pending : i \in DOMAIN table[l].pending \/ i = L + 1
      BY <3>2
    <3>. QED
      BY <3>1, <3>3, <3>4
  <2>. HIDE DEF c
  <2>5. Acyclic(table') /\ OneWait(table')
    BY <1>1, <2>1, <2>2, <2>4, ParkKeepsGraph
  <2>. QED
    BY <1>2, <2>1, <2>3, <2>5
<1>5. CASE v \notin {"Granted", "Waiting"}
  <2>1. table' = table
    BY <1>2, <1>5 DEF AfterEnqueue
  <2>. QED
    BY <1>2, <2>1
<1>. QED
  BY <1>3, <1>4, <1>5

LEMMA ConvertKeepsDiscipline ==
    ASSUME DisciplineInv, NEW o \in owners, NEW l \in Locks, NEW m \in Mode,
           Idle(o), Convert(o, l, m, FALSE)
    PROVE  DisciplineInv'
<1>. USE DEF DisciplineInv
<1>. DEFINE v == ConvertVerdict(table, o, l, m, FALSE)
<1>1. o \in Owners /\ IdleIn(table, o) /\ Orderly(table[l])
  BY DEF Idle, IdleIn
<1>2. table' = AfterConvert(table, o, l, m, v) /\ owners' = owners
  BY DEF Convert
<1>3. CASE v = "Granted"
  <2>. DEFINE c == ChangeGrant(table[l], o, m)
  <2>1. table' = [table EXCEPT ![l] = c]
    BY <1>2, <1>3 DEF AfterConvert
  <2>2. HoldsOn(table[l], o) /\ Compatible(m, StateExcluding(table[l], o))
    BY <1>3 DEF ConvertVerdict
  <2>3. Orderly(c) /\ Shrinks(c, table[l], {o})
    BY <1>1, <2>2, ChangeGrantOrderly, ChangeGrantShrinks
  <2>. HIDE DEF c
  <2>4. \A k \in Locks : Orderly(table'[k]) /\ Shrinks(table'[k], table[k], {o})
    <3>1. \A b : Shrinks(b, b, {o})
      BY DEF Shrinks
    <3>. QED
      BY <2>1, <2>3, <3>1
  <2>5. Acyclic(table') /\ OneWait(table')
    BY <1>1, <2>4, GrantKeepsGraph
  <2>. QED
    BY <1>2, <2>1, <2>4, <2>5
<1>4. CASE v # "Granted"
  <2>1. v = "Rejected"
    BY <1>4 DEF ConvertVerdict
  <2>2. table' = table
    BY <1>2, <2>1 DEF AfterConvert
  <2>. QED
    BY <1>2, <2>2
<1>. QED
  BY <1>3, <1>4

LEMMA DisciplineNext == DisciplineInv /\ [DisciplinedNext]_vars => DisciplineInv'
<1>. SUFFICES ASSUME DisciplineInv, [DisciplinedNext]_vars PROVE DisciplineInv'
  OBVIOUS
<1>0. RequestModes \subseteq Mode /\ Deadlines \subseteq Nat
  BY LockTableAssumption
<1>1. CASE \E o \in Owners : CreateOwner(o)
  BY <1>1 DEF CreateOwner, DisciplineInv
<1>2. CASE DisciplinedEnqueue
  BY <1>0, <1>2, EnqueueKeepsDiscipline DEF DisciplinedEnqueue, Waits
<1>3. CASE DisciplinedConvert
  BY <1>0, <1>3, ConvertKeepsDiscipline DEF DisciplinedConvert
<1>4. CASE DisciplinedDequeue
  <2>1. PICK o \in owners, l \in Locks : Dequeue(o, l)
    BY <1>4 DEF DisciplinedDequeue
  <2>. DEFINE c == DequeueBlock(table[l], o)
  <2>2. Orderly(c) /\ \E N \in SUBSET Owners : LetIn(c, table[l], N)
    BY DequeueOrderly, DequeueLetsIn DEF DisciplineInv
  <2>3. table' = [table EXCEPT ![l] = c] /\ owners' = owners
    BY <2>1 DEF Dequeue
  <2>. HIDE DEF c
  <2>4. \A k \in Locks : \E N \in SUBSET Owners : LetIn(table'[k], table[k], N)
    BY <2>2, <2>3, OneBlockReleased DEF DisciplineInv
  <2>5. Acyclic(table') /\ OneWait(table')
    BY <2>4, ReleaseKeepsGraph DEF DisciplineInv
  <2>. QED
    BY <2>2, <2>3, <2>5 DEF DisciplineInv
<1>5. CASE DisciplinedPurge
  <2>1. PICK o \in owners : PurgeOwner(o)
    BY <1>5 DEF DisciplinedPurge
  <2>2. table' = [l \in Locks |-> PurgeBlock(table[l], o)] /\ owners' = owners
    BY <2>1 DEF PurgeOwner
  <2>3. \A l \in Locks : Orderly(table'[l])
    BY <2>2, PurgeOrderly DEF DisciplineInv
  <2>4. \A l \in Locks : \E N \in SUBSET Owners : LetIn(table'[l], table[l], N)
    BY <2>2, PurgeLetsIn DEF DisciplineInv
  <2>5. Acyclic(table') /\ OneWait(table')
    BY <2>4, ReleaseKeepsGraph DEF DisciplineInv
  <2>. QED
    BY <2>2, <2>3, <2>5 DEF DisciplineInv
<1>6. CASE AnyExpire
  <2>1. PICK now \in Deadlines : Expire(now)
    BY <1>6 DEF AnyExpire
  <2>2. table' = [l \in Locks |-> ExpireBlock(table[l], now)] /\ owners' = owners
    BY <2>1 DEF Expire
  <2>3. \A l \in Locks : Orderly(table'[l])
    BY <2>2, ExpireOrderly DEF DisciplineInv
  <2>4. \A l \in Locks : \E N \in SUBSET Owners : LetIn(table'[l], table[l], N)
    BY <2>2, ExpireLetsIn DEF DisciplineInv
  <2>5. Acyclic(table') /\ OneWait(table')
    BY <2>4, ReleaseKeepsGraph DEF DisciplineInv
  <2>. QED
    BY <2>2, <2>3, <2>5 DEF DisciplineInv
<1>7. CASE UNCHANGED vars
  BY <1>7 DEF vars, DisciplineInv
<1>. QED
  BY <1>1, <1>2, <1>3, <1>4, <1>5, <1>6, <1>7 DEF DisciplinedNext

LEMMA DisciplineAlways == DisciplinedSpec => []DisciplineInv
BY DisciplineInit, DisciplineNext, PTL DEF DisciplinedSpec

(* No two conflicting modes are ever granted on one lock, though the grant *)
(* test asks a single mode, the highest held (enqueue, convert, the        *)
(* regrant sweep).                                                         *)
THEOREM NoConflictingGrants == DisciplinedSpec => []GrantedCompatible
<1>1. DisciplineInv => GrantedCompatible
  BY DEF DisciplineInv, GrantedCompatible, Orderly
<1>. QED
  BY <1>1, DisciplineAlways, PTL

(* An owner never has two requests on a lock, so the one grant that        *)
(* purge_owner and dequeue take down is all there is.                      *)
THEOREM OneRequestPerOwner == DisciplinedSpec => []OneRequest
<1>1. DisciplineInv => OneRequest
  BY DEF DisciplineInv, OneRequest, Orderly
<1>. QED
  BY <1>1, DisciplineAlways, PTL

(* The scan at park time (deadlock_from) is enough: whatever is granted,   *)
(* released or expired afterwards, no owners ever wait for each other's    *)
(* grants in a circle.                                                     *)
THEOREM NoDeadlockAmongGrants == DisciplinedSpec => []WaitForAcyclic
<1>1. DisciplineInv => WaitForAcyclic
  BY DEF DisciplineInv, WaitForAcyclic, Acyclic
<1>. QED
  BY <1>1, DisciplineAlways, PTL

-------------------------------------------------------------------------------
(* What a release does to the queue.                                       *)

(* The sweep goes as far as it can: it stops at a request the new holders  *)
(* refuse.                                                                 *)
LEMMA SweepGoesOn ==
    ASSUME NEW b, Sound(b)
    PROVE  ~HeadAdmitted(Regrant(b))
<1>. DEFINE c == Regrant(b)
            n == RegrantCount(b)
            L == Len(b.granted)
            M == Len(b.pending)
            h == AheadState(b, n + 1)
<1>1. /\ DOMAIN b.granted = 1..L /\ L \in Nat
      /\ DOMAIN b.pending = 1..M /\ M \in Nat /\ n \in 0..M /\ n \in Nat
      /\ n < M => ~Compatible(b.pending[n + 1].mode, h)
  BY BlockDomains, RegrantCountFacts DEF Sound
<1>2. /\ Sound(c)
      /\ DOMAIN c.granted = 1..(L + n)
      /\ \A i \in 1..L : c.granted[i] = b.granted[i]
      /\ \A i \in 1..n : c.granted[L + i] = [owner |-> b.pending[i].owner,
                                             mode |-> b.pending[i].mode]
      /\ Len(c.pending) = M - n
      /\ \A i \in 1..(M - n) : c.pending[i] = b.pending[n + i]
  BY RegrantFacts
<1>3. ASSUME NEW i \in 1..n PROVE c.granted[L + i].mode = b.pending[i].mode
  <2>1. c.granted[L + i] = [owner |-> b.pending[i].owner, mode |-> b.pending[i].mode]
    BY <1>2
  <2>. HIDE DEF c, n, L, M
  <2>. QED
    BY <2>1
<1>4. n < M => n + 1 \in 1..M /\ 1 \in 1..(M - n) /\ (n + 1) - 1 = n
  BY <1>1
<1>5. n < M => /\ h \in Mode /\ State(b) <= h
               /\ \A j \in 1..((n + 1) - 1) : b.pending[j].mode <= h
               /\ \/ h = State(b)
                  \/ \E j \in 1..((n + 1) - 1) : h = b.pending[j].mode
  BY <1>4, AheadFacts
<1>6. c.pending # <<>> => n < M
  BY <1>1, <1>2, EmptySeq DEF Sound, BlockType
<1>7. n < M => Head(c.pending) = b.pending[n + 1]
  BY <1>2, <1>4
<1>. HIDE DEF c, n, L, M, h
<1>8. State(c) \in Mode /\ State(b) \in Mode
  BY <1>2, StateIsHighest
<1>9. ASSUME n < M PROVE h <= State(c)
  <2>1. CASE h = State(b) /\ h # None_
    <3>1. PICK j \in DOMAIN b.granted : b.granted[j].mode = State(b)
      BY <2>1, StateIsHighest
    <3>2. j \in DOMAIN c.granted /\ c.granted[j].mode = h
      BY <1>1, <1>2, <2>1, <3>1
    <3>. QED
      BY <1>2, <3>2, StateIsHighest
  <2>2. CASE h = None_
    BY <1>8, <2>2, ModeNumbers DEF None_
  <2>3. CASE \E j \in 1..n : h = b.pending[j].mode
    <3>1. PICK j \in 1..n : h = b.pending[j].mode
      BY <2>3
    <3>2. L + j \in DOMAIN c.granted /\ c.granted[L + j].mode = h
      BY <1>1, <1>2, <1>3, <3>1
    <3>. QED
      BY <1>2, <3>2, StateIsHighest
  <2>. QED
    BY <1>4, <1>5, <1>9, <2>1, <2>2, <2>3
<1>10. ASSUME n < M PROVE State(c) <= h
  <2>1. CASE State(c) = None_
    BY <1>5, <1>10, <2>1, ModeNumbers DEF None_
  <2>2. CASE State(c) # None_
    <3>1. PICK j \in DOMAIN c.granted : c.granted[j].mode = State(c)
      BY <1>2, <2>2, StateIsHighest
    <3>2. CASE j <= L
      <4>1. j \in DOMAIN b.granted /\ c.granted[j] = b.granted[j]
        BY <1>1, <1>2, <3>1, <3>2
      <4>2. State(c) <= State(b) /\ State(b) <= h /\ h \in Mode
        BY <1>5, <1>10, <3>1, <4>1, StateIsHighest
      <4>. QED
        BY <1>8, <4>2, ModeNumbers
    <3>3. CASE j > L
      <4>1. j - L \in 1..n /\ L + (j - L) = j
        BY <1>1, <1>2, <3>1, <3>3
      <4>2. b.pending[j - L].mode = State(c)
        BY <1>3, <3>1, <4>1
      <4>. QED
        BY <1>4, <1>5, <1>10, <4>1, <4>2
    <3>. QED
      BY <1>1, <1>2, <3>1, <3>2, <3>3
  <2>. QED
    BY <2>1, <2>2
<1>11. n < M => State(c) = h
  BY <1>5, <1>8, <1>9, <1>10, ModeNumbers
<1>. QED
  BY <1>1, <1>6, <1>7, <1>11 DEF HeadAdmitted, c, n, M

LEMMA PurgeGoesOn ==
    ASSUME NEW b, Orderly(b), NEW o, HoldsOn(b, o)
    PROVE  ~HeadAdmitted(PurgeBlock(b, o))
<1>. DEFINE rest == [b EXCEPT !.pending = AtPositions(@,
                        DOMAIN b.pending \ {i \in DOMAIN b.pending : b.pending[i].owner = o})]
            d == DropGrant(rest, o)
<1>1. Orderly(rest) /\ GrantsOf(rest) = GrantsOf(b)
  BY CutQueueOrderly, CutQueueSets
<1>2. HoldsOn(rest, o)
  BY <1>1, OnSets
<1>3. PurgeBlock(b, o) = DequeueBlock(rest, o)
  BY <1>2 DEF PurgeBlock
<1>4. Sound(d)
  BY <1>1, DropGrantFacts DEF Orderly
<1>5. PurgeBlock(b, o) = Reap(Regrant(d))
  BY <1>3 DEF DequeueBlock
<1>. HIDE DEF d
<1>6. ~HeadAdmitted(Regrant(d))
  BY <1>4, SweepGoesOn
<1>7. EmptyBlock.pending = <<>>
  BY EmptyBlockIsSound
<1>. QED
  BY <1>5, <1>6, <1>7 DEF Reap, HeadAdmitted

(* A purged owner is gone from every lock, and what its grants blocked is  *)
(* granted in the same call.                                               *)
THEOREM PurgesAreComplete == DisciplinedSpec => PurgeIsComplete
<1>1. DisciplineInv => PurgeLeavesNothing
  <2>. SUFFICES ASSUME DisciplineInv, NEW o \in Owners, PurgeOwner(o), NEW l \in Locks
                PROVE  /\ ~HoldsOn(table'[l], o)
                       /\ ~ParkedOn(table'[l], o)
                       /\ HoldsOn(table[l], o) => ~HeadAdmitted(table'[l])
    BY DEF PurgeLeavesNothing
  <2>1. table'[l] = PurgeBlock(table[l], o) /\ Orderly(table[l])
    BY DEF PurgeOwner, DisciplineInv
  <2>2. Served(table'[l], table[l], o)
    BY <2>1, PurgeServes
  <2>3. /\ \A g \in GrantsOf(table'[l]) : g.owner # o
        /\ \A w \in QueueOf(table'[l]) : w.owner # o
    BY <2>2 DEF Served, QueueWithout, AsGrant
  <2>. QED
    BY <2>1, <2>3, OnSets, PurgeGoesOn
<1>. QED
  BY <1>1, DisciplineAlways, PTL DEF PurgeIsComplete

-------------------------------------------------------------------------------
(* The order of the queue.  InOrder: whoever came to hold stood ahead of   *)
(* everybody who is still parked.                                          *)
InOrder(c, b) ==
    \A g \in DOMAIN c.granted, q \in DOMAIN c.pending :
        ~HoldsOn(b, c.granted[g].owner) =>
            \E j, i \in DOMAIN b.pending :
                /\ j < i
                /\ b.pending[j].owner = c.granted[g].owner
                /\ b.pending[i] = c.pending[q]

LEMMA ReleaseInOrder ==
    ASSUME NEW b, Orderly(b), NEW o
    PROVE  InOrder(DequeueBlock(b, o), b)
<1>. DEFINE d == DropGrant(b, o)
            c == Regrant(d)
            n == RegrantCount(d)
            L == Len(d.granted)
            M == Len(d.pending)
<1>1. Sound(d) /\ d.pending = b.pending /\ Sublist(d.granted, b.granted)
  BY DropGrantFacts DEF Orderly
<1>. HIDE DEF d
<1>2. /\ DOMAIN d.granted = 1..L /\ L \in Nat
      /\ DOMAIN d.pending = 1..M /\ M \in Nat /\ n \in 0..M /\ n \in Nat
  BY <1>1, BlockDomains, RegrantCountFacts DEF Sound
<1>3. /\ DOMAIN c.granted = 1..(L + n)
      /\ \A i \in 1..L : c.granted[i] = d.granted[i]
      /\ \A i \in 1..n : c.granted[L + i] = [owner |-> d.pending[i].owner,
                                             mode |-> d.pending[i].mode]
      /\ DOMAIN c.pending = 1..(M - n)
      /\ \A i \in 1..(M - n) : c.pending[i] = d.pending[n + i]
  BY <1>1, RegrantFacts
<1>. HIDE DEF c, n, L, M
<1>4. ASSUME NEW i \in 1..n PROVE c.granted[L + i].owner = d.pending[i].owner
  <2>1. c.granted[L + i] = [owner |-> d.pending[i].owner, mode |-> d.pending[i].mode]
    BY <1>3
  <2>. QED
    BY <2>1
<1>5. InOrder(c, b)
  <2>. SUFFICES ASSUME NEW g \in DOMAIN c.granted, NEW q \in DOMAIN c.pending,
                       ~HoldsOn(b, c.granted[g].owner)
                PROVE  \E j, i \in DOMAIN b.pending :
                          /\ j < i
                          /\ b.pending[j].owner = c.granted[g].owner
                          /\ b.pending[i] = c.pending[q]
    BY DEF InOrder
  <2>1. ~(g \in 1..L)
    <3>. SUFFICES ASSUME g \in 1..L PROVE FALSE
      OBVIOUS
    <3>1. c.granted[g] = d.granted[g]
      BY <1>3
    <3>2. \E k \in DOMAIN b.granted : d.granted[g] = b.granted[k]
      BY <1>1, <1>2 DEF Sublist
    <3>. QED
      BY <3>1, <3>2 DEF HoldsOn
  <2>2. g - L \in 1..n /\ L + (g - L) = g
    BY <1>2, <1>3, <2>1
  <2>3. b.pending[g - L].owner = c.granted[g].owner
    BY <1>1, <1>4, <2>2
  <2>4. q \in 1..(M - n) /\ c.pending[q] = d.pending[n + q]
    BY <1>3
  <2>5. g - L \in 1..M /\ n + q \in 1..M /\ g - L < n + q
    BY <1>2, <2>2, <2>4
  <2>. QED
    BY <1>1, <1>2, <2>3, <2>4, <2>5
<1>6. DequeueBlock(b, o) = Reap(c)
  BY DEF DequeueBlock, c, d
<1>7. DOMAIN EmptyBlock.granted = {}
  BY EmptyBlockIsSound
<1>. QED
  BY <1>5, <1>6, <1>7 DEF Reap, InOrder

LEMMA PurgeInOrder ==
    ASSUME NEW b, Orderly(b), NEW o
    PROVE  InOrder(PurgeBlock(b, o), b)
<1>. DEFINE K == DOMAIN b.pending \ {i \in DOMAIN b.pending : b.pending[i].owner = o}
            rest == [b EXCEPT !.pending = AtPositions(@, K)]
            N == Cardinality(K)
<1>1. BlockType(b) /\ b.pending \in Seq(Waiter)
  BY DEF Orderly, Sound, BlockType
<1>2. /\ AtPositions(b.pending, K) \in Seq(Waiter) /\ Len(AtPositions(b.pending, K)) = N
      /\ \E f \in [1..N -> K] :
            /\ \A m, n \in 1..N : m < n => f[m] < f[n]
            /\ \A n \in 1..N : AtPositions(b.pending, K)[n] = b.pending[f[n]]
  <2>1. K \in SUBSET DOMAIN b.pending
    OBVIOUS
  <2>. HIDE DEF K
  <2>. QED
    BY <1>1, <2>1, AtPositionsFacts
<1>3. DOMAIN AtPositions(b.pending, K) = 1..N
  BY <1>2, LenProperties
<1>4. rest.pending = AtPositions(b.pending, K) /\ rest.granted = b.granted
  BY <1>1 DEF BlockType
<1>5. Orderly(rest)
  BY CutQueueOrderly
<1>6. K \subseteq DOMAIN b.pending
  OBVIOUS
<1>7. PurgeBlock(b, o) = IF HoldsOn(rest, o) THEN DequeueBlock(rest, o) ELSE Reap(rest)
  BY DEF PurgeBlock
<1>. HIDE DEF rest, K, N
<1>8. ASSUME NEW c, InOrder(c, rest)
      PROVE  InOrder(c, b)
  <2>. SUFFICES ASSUME NEW g \in DOMAIN c.granted, NEW q \in DOMAIN c.pending,
                       ~HoldsOn(b, c.granted[g].owner)
                PROVE  \E j, i \in DOMAIN b.pending :
                          /\ j < i
                          /\ b.pending[j].owner = c.granted[g].owner
                          /\ b.pending[i] = c.pending[q]
    BY DEF InOrder
  <2>1. ~HoldsOn(rest, c.granted[g].owner)
    BY <1>4 DEF HoldsOn
  <2>2. PICK j \in DOMAIN rest.pending, i \in DOMAIN rest.pending :
            /\ j < i
            /\ rest.pending[j].owner = c.granted[g].owner
            /\ rest.pending[i] = c.pending[q]
    BY <1>8, <2>1 DEF InOrder
  <2>3. PICK f \in [1..N -> K] :
            /\ \A m, n \in 1..N : m < n => f[m] < f[n]
            /\ \A n \in 1..N : rest.pending[n] = b.pending[f[n]]
    BY <1>2, <1>4
  <2>4. j \in 1..N /\ i \in 1..N
    BY <1>3, <1>4
  <2>. QED
    BY <1>6, <2>2, <2>3, <2>4
<1>9. InOrder(Reap(rest), rest)
  <2>1. DOMAIN EmptyBlock.granted = {}
    BY EmptyBlockIsSound
  <2>2. InOrder(rest, rest)
    BY DEF InOrder, HoldsOn
  <2>. QED
    BY <2>1, <2>2 DEF Reap, InOrder
<1>. QED
  BY <1>5, <1>7, <1>8, <1>9, ReleaseInOrder

(* Whoever stood ahead was not parked behind. *)
LEMMA InOrderIsFair ==
    ASSUME NEW b, Orderly(b), NEW c, InOrder(c, b),
           NEW g \in DOMAIN c.granted, NEW q \in DOMAIN c.pending,
           ~HoldsOn(b, c.granted[g].owner)
    PROVE  ~ParkedBefore(b, c.pending[q].owner, c.granted[g].owner)
<1>1. PICK j \in DOMAIN b.pending, i \in DOMAIN b.pending :
          /\ j < i
          /\ b.pending[j].owner = c.granted[g].owner
          /\ b.pending[i] = c.pending[q]
  BY DEF InOrder
<1>2. \A k \in DOMAIN b.pending : b.pending[k].owner = c.pending[q].owner => k = i
  BY <1>1 DEF Orderly, OneEachOn
<1>3. j \in 1..i
  BY <1>1, BlockDomains DEF Orderly, Sound
<1>. QED
  BY <1>1, <1>2, <1>3 DEF ParkedBefore

LEMMA GrantPassesNobody ==
    ASSUME DisciplineInv, NEW o \in owners, NEW l \in Locks, NEW m \in Mode,
           NEW wait \in BOOLEAN, NEW d, Enqueue(o, l, m, wait, d),
           d \in Nat \cup {NoDeadline},
           NEW g \in GrantsOf(table'[l]), ~HoldsOn(table[l], g.owner),
           NEW w \in QueueOf(table'[l])
    PROVE  Compatible(g.mode, w.mode)
<1>. DEFINE v == EnqueueVerdict(table, o, l, m, wait, d)
            h == [owner |-> o, mode |-> m]
<1>1. Orderly(table[l]) /\ o \in Owners /\ DOMAIN table = Locks
  BY DEF DisciplineInv
<1>2. g \notin GrantsOf(table[l])
  BY OnSets
<1>3. table' = AfterEnqueue(table, o, l, m, v, d)
  BY DEF Enqueue
<1>4. CASE v = "Granted"
  <2>1. Admits(table[l], m) /\ table'[l] = AddGrant(table[l], o, m)
    BY <1>1, <1>3, <1>4 DEF EnqueueVerdict, AfterEnqueue
  <2>2. g = h /\ w \in QueueOf(table[l])
    BY <1>1, <1>2, <2>1, AddGrantSets
  <2>3. g.mode = m
    BY <2>2
  <2>. QED
    BY <1>1, <2>1, <2>2, <2>3, AdmitsSets
<1>5. CASE v # "Granted"
  <2>1. table'[l] = table[l] \/ table'[l] = Park(table[l], o, m, d)
    BY <1>1, <1>3, <1>5 DEF AfterEnqueue
  <2>2. GrantsOf(table'[l]) = GrantsOf(table[l])
    BY <1>1, <2>1, ParkSets
  <2>. QED
    BY <1>2, <2>2
<1>. QED
  BY <1>4, <1>5

(* Nobody is granted past an earlier waiter it conflicts with: the grant   *)
(* test asks the queue, and the sweep serves it in order.                  *)
THEOREM NobodyOvertakes == DisciplinedSpec => NoOvertaking
<1>1. DisciplineInv /\ [DisciplinedNext]_vars => [NobodyOvertaken]_vars
  <2>. SUFFICES ASSUME DisciplineInv, DisciplinedNext, NEW l \in Locks,
                       NEW i \in DOMAIN table'[l].granted,
                       ~HoldsOn(table[l], table'[l].granted[i].owner),
                       NEW q \in DOMAIN table'[l].pending,
                       ParkedBefore(table[l], table'[l].pending[q].owner,
                                    table'[l].granted[i].owner)
                PROVE  Compatible(table'[l].granted[i].mode, table'[l].pending[q].mode)
    BY DEF NobodyOvertaken
  <2>0. /\ Orderly(table[l]) /\ DOMAIN table = Locks /\ owners \subseteq Owners
        /\ RequestModes \subseteq Mode /\ Deadlines \subseteq Nat
    BY LockTableAssumption DEF DisciplineInv
  <2>. DEFINE g == table'[l].granted[i]
  <2>1. g \in GrantsOf(table'[l]) /\ table'[l].pending[q] \in QueueOf(table'[l])
    BY DEF GrantsOf, QueueOf
  <2>2. ASSUME GrantsOf(table'[l]) = GrantsOf(table[l]) PROVE FALSE
    BY <2>1, <2>2, OnSets
  <2>3. ASSUME InOrder(table'[l], table[l]) PROVE FALSE
    BY <2>0, <2>3, InOrderIsFair
  <2>4. CASE \E o \in Owners : CreateOwner(o)
    BY <2>2, <2>4 DEF CreateOwner
  <2>5. CASE DisciplinedEnqueue
    <3>1. PICK o \in owners, k \in Locks, m \in RequestModes, wait \in BOOLEAN, d \in Waits :
              Enqueue(o, k, m, wait, d)
      BY <2>5 DEF DisciplinedEnqueue
    <3>2. m \in Mode /\ d \in Nat \cup {NoDeadline}
      BY <2>0 DEF Waits
    <3>3. CASE k = l
      BY <2>1, <3>1, <3>2, <3>3, GrantPassesNobody
    <3>4. CASE k # l
      <4>1. table'[l] = table[l]
        BY <2>0, <3>1, <3>4 DEF Enqueue, AfterEnqueue
      <4>. QED
        BY <2>2, <4>1
    <3>. QED
      BY <3>3, <3>4
  <2>6. CASE DisciplinedConvert
    <3>1. PICK o \in owners, k \in Locks, m \in RequestModes : Convert(o, k, m, FALSE)
      BY <2>6 DEF DisciplinedConvert
    <3>. DEFINE v == ConvertVerdict(table, o, k, m, FALSE)
    <3>2. table' = AfterConvert(table, o, k, m, v)
      BY <3>1 DEF Convert
    <3>3. v = "Granted" \/ v = "Rejected"
      BY DEF ConvertVerdict
    <3>4. CASE k = l /\ v = "Granted"
      <4>1. HoldsOn(table[l], o) /\ table'[l] = ChangeGrant(table[l], o, m)
        BY <2>0, <3>2, <3>4 DEF ConvertVerdict, AfterConvert
      <4>2. HoldsOn(table[l], g.owner)
        BY <2>0, <4>1, ChangeGrantFacts DEF Orderly, HoldsOn
      <4>. QED
        BY <4>2
    <3>5. CASE ~(k = l /\ v = "Granted")
      <4>1. table'[l] = table[l]
        BY <2>0, <3>2, <3>3, <3>5 DEF AfterConvert
      <4>. QED
        BY <2>2, <4>1
    <3>. QED
      BY <3>4, <3>5
  <2>7. CASE DisciplinedDequeue
    <3>1. PICK o \in owners, k \in Locks : Dequeue(o, k)
      BY <2>7 DEF DisciplinedDequeue
    <3>2. table'[l] = table[l] \/ table'[l] = DequeueBlock(table[l], o)
      BY <2>0, <3>1 DEF Dequeue
    <3>. QED
      BY <2>0, <2>2, <2>3, <3>2, ReleaseInOrder
  <2>8. CASE DisciplinedPurge
    <3>1. PICK o \in owners : PurgeOwner(o)
      BY <2>8 DEF DisciplinedPurge
    <3>2. table'[l] = PurgeBlock(table[l], o)
      BY <3>1 DEF PurgeOwner
    <3>. QED
      BY <2>0, <2>3, <3>2, PurgeInOrder
  <2>9. CASE AnyExpire
    <3>1. PICK now \in Deadlines : table'[l] = ExpireBlock(table[l], now)
      BY <2>9 DEF AnyExpire, Expire
    <3>. QED
      BY <2>0, <2>2, <3>1, ExpireSets
  <2>. QED
    BY <2>4, <2>5, <2>6, <2>7, <2>8, <2>9 DEF DisciplinedNext
<1>. QED
  BY <1>1, DisciplineAlways, PTL DEF DisciplinedSpec, NoOvertaking
==============================================================================
