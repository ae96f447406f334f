------------------------- MODULE LockTableOpsProofs -------------------------
(***************************************************************************)
(* Lemmas about the operators of the lock manager: what a call makes of a  *)
(* block and of the waits-for graph, for any owners, locks and modes.      *)
(***************************************************************************)
EXTENDS LockTableOps, TLAPS, FiniteSetTheorems, SequenceTheorems, WellFoundedInduction

-------------------------------------------------------------------------------
(* The modes.                                                              *)

LEMMA ModeNumbers ==
    /\ Mode = 0..6
    /\ \A m \in Mode : m = 0 \/ m = 1 \/ m = 2 \/ m = 3 \/ m = 4 \/ m = 5 \/ m = 6
BY DEF Mode, None_, Exclusive

LEMMA CompatibleTable ==
    ASSUME NEW a \in Mode, NEW b \in Mode
    PROVE  Compatible(a, b) <=>
              \/ a \in {0, 1} \/ b \in {0, 1}
              \/ a = 2 /\ b \in {2, 3, 4, 5}
              \/ b = 2 /\ a \in {2, 3, 4, 5}
              \/ a = 3 /\ b = 3
              \/ a = 4 /\ b = 4
BY ModeNumbers
   DEF Compatible, Tolerates, Mode, None_, Null, SharedRead, ProtectedRead,
       SharedWrite, ProtectedWrite, Exclusive

LEMMA CompatibleIsSymmetric ==
    \A a, b \in Mode : Compatible(a, b) <=> Compatible(b, a)
BY CompatibleTable

(* Why one probe against the highest mode is enough: a lower mode that     *)
(* stands beside the highest excludes nothing the highest admits.          *)
LEMMA AggregateIsSound ==
    ASSUME NEW a \in Mode, NEW b \in Mode, NEW c \in Mode,
           a <= b, Compatible(a, b), Compatible(c, b)
    PROVE  Compatible(c, a)
BY CompatibleTable, ModeNumbers

LEMMA HighestIsMaximum ==
    ASSUME NEW S \in SUBSET Mode, S # {}
    PROVE  /\ Highest(S) \in S
           /\ \A n \in S : n <= Highest(S)
<1>1. \E m \in S : \A n \in S : n <= m
  <2>1. CASE 6 \in S
    BY <2>1, ModeNumbers
  <2>2. CASE 6 \notin S /\ 5 \in S
    BY <2>2, ModeNumbers
  <2>3. CASE 6 \notin S /\ 5 \notin S /\ 4 \in S
    BY <2>3, ModeNumbers
  <2>4. CASE 6 \notin S /\ 5 \notin S /\ 4 \notin S /\ 3 \in S
    BY <2>4, ModeNumbers
  <2>5. CASE S \cap {3, 4, 5, 6} = {} /\ 2 \in S
    BY <2>5, ModeNumbers
  <2>6. CASE S \cap {2, 3, 4, 5, 6} = {} /\ 1 \in S
    BY <2>6, ModeNumbers
  <2>7. CASE S \cap {1, 2, 3, 4, 5, 6} = {}
    <3>1. \A n \in S : n = 0
      BY <2>7, ModeNumbers
    <3>. QED
      BY <3>1
  <2>. QED
    BY <2>1, <2>2, <2>3, <2>4, <2>5, <2>6, <2>7
<1>. QED
  BY <1>1 DEF Highest

-------------------------------------------------------------------------------
(* One block: its counts and its aggregate.                                *)

Sound(b) == BlockType(b) /\ CountsMatch(b)
ModeAt(b, m) == {i \in DOMAIN b.granted : b.granted[i].mode = m}

LEMMA PositionsFinite ==
    ASSUME NEW s, NEW T, s \in Seq(T), NEW K \in SUBSET DOMAIN s
    PROVE  IsFiniteSet(K) /\ Cardinality(K) \in Nat
<1>1. DOMAIN s = 1..Len(s) /\ Len(s) \in Nat
  BY LenProperties
<1>2. IsFiniteSet(1..Len(s))
  BY <1>1, FS_Interval
<1>3. IsFiniteSet(K)
  BY <1>1, <1>2, FS_Subset
<1>. QED
  BY <1>3, FS_CardinalityType

LEMMA ModeAtFinite ==
    ASSUME NEW b, BlockType(b), NEW m
    PROVE  IsFiniteSet(ModeAt(b, m)) /\ Cardinality(ModeAt(b, m)) \in Nat
<1>1. ModeAt(b, m) \in SUBSET DOMAIN b.granted /\ b.granted \in Seq(Grant)
  BY DEF ModeAt, BlockType
<1>. QED
  BY <1>1, PositionsFinite

LEMMA CountPositive ==
    ASSUME NEW b, Sound(b), NEW m \in Mode
    PROVE  b.counts[m] > 0 <=> \E i \in DOMAIN b.granted : b.granted[i].mode = m
<1>1. b.counts[m] = Cardinality(ModeAt(b, m))
  BY DEF Sound, CountsMatch, ModeAt
<1>2. IsFiniteSet(ModeAt(b, m)) /\ Cardinality(ModeAt(b, m)) \in Nat
  BY ModeAtFinite DEF Sound
<1>3. Cardinality(ModeAt(b, m)) = 0 <=> ModeAt(b, m) = {}
  BY <1>2, FS_EmptySet
<1>4. ModeAt(b, m) = {} <=> ~\E i \in DOMAIN b.granted : b.granted[i].mode = m
  BY DEF ModeAt
<1>. QED
  BY <1>1, <1>2, <1>3, <1>4

LEMMA GrantModes ==
    ASSUME NEW b, BlockType(b), NEW i \in DOMAIN b.granted
    PROVE  b.granted[i] \in Grant /\ b.granted[i].mode \in Mode /\ b.granted[i].owner \in Owners
<1>1. b.granted \in Seq(Grant)
  BY DEF BlockType
<1>2. b.granted[i] \in Grant
  BY <1>1, LenProperties, ElementOfSeq
<1>. QED
  BY <1>2 DEF Grant

LEMMA WaiterModes ==
    ASSUME NEW b, BlockType(b), NEW i \in DOMAIN b.pending
    PROVE  /\ b.pending[i] \in Waiter
           /\ b.pending[i].mode \in Mode /\ b.pending[i].owner \in Owners
<1>1. b.pending \in Seq(Waiter)
  BY DEF BlockType
<1>2. b.pending[i] \in Waiter
  BY <1>1, LenProperties, ElementOfSeq
<1>. QED
  BY <1>2 DEF Waiter

(* The aggregate is the highest mode somebody holds. *)
LEMMA StateIsHighest ==
    ASSUME NEW b, Sound(b)
    PROVE  /\ State(b) \in Mode
           /\ State(b) # None_ => \E i \in DOMAIN b.granted : b.granted[i].mode = State(b)
           /\ \A i \in DOMAIN b.granted : b.granted[i].mode <= State(b)
<1>. DEFINE held == {m \in Mode : b.counts[m] > 0} \cup {None_}
<1>1. held \in SUBSET Mode /\ held # {}
  BY ModeNumbers DEF None_
<1>2. Highest(held) \in held /\ \A n \in held : n <= Highest(held)
  BY <1>1, HighestIsMaximum
<1>3. State(b) = Highest(held)
  BY DEF State
<1>4. \A i \in DOMAIN b.granted : b.granted[i].mode \in held
  <2>. SUFFICES ASSUME NEW i \in DOMAIN b.granted PROVE b.granted[i].mode \in held
    OBVIOUS
  <2>1. b.granted[i].mode \in Mode
    BY GrantModes DEF Sound
  <2>2. b.counts[b.granted[i].mode] > 0
    BY <2>1, CountPositive
  <2>. QED
    BY <2>1, <2>2
<1>5. State(b) # None_ => b.counts[State(b)] > 0
  BY <1>2, <1>3
<1>. QED
  BY <1>1, <1>2, <1>3, <1>4, <1>5, CountPositive

(* What the probe admits is compatible with every holder. *)
LEMMA ProbeIsSound ==
    ASSUME NEW b, Sound(b), MutuallyCompatible(b), NEW m \in Mode,
           Compatible(m, State(b)), NEW i \in DOMAIN b.granted
    PROVE  Compatible(m, b.granted[i].mode)
<1>1. b.granted[i].mode \in Mode /\ State(b) \in Mode /\ b.granted[i].mode <= State(b)
  BY GrantModes, StateIsHighest DEF Sound
<1>2. CASE b.granted[i].mode = State(b)
  BY <1>2
<1>3. CASE b.granted[i].mode # State(b)
  <2>1. State(b) # None_
    BY <1>1, <1>3, ModeNumbers DEF None_
  <2>2. PICK j \in DOMAIN b.granted : b.granted[j].mode = State(b)
    BY <2>1, StateIsHighest
  <2>3. Compatible(b.granted[i].mode, State(b))
    BY <1>3, <2>2 DEF MutuallyCompatible
  <2>. QED
    BY <1>1, <2>3, AggregateIsSound
<1>. QED
  BY <1>2, <1>3

-------------------------------------------------------------------------------
(* Sequences and counting.                                                 *)

LEMMA LeastNatural ==
    ASSUME NEW T \in SUBSET Nat, T # {}
    PROVE  \E x \in T : \A y \in T : x <= y
<1>1. IsWellFoundedOn({p \in Nat \X Nat : p[1] < p[2]}, Nat)
  BY NatLessThanWellFounded DEF OpToRel
<1>2. PICK x \in T : \A y \in T : <<y, x>> \notin {p \in Nat \X Nat : p[1] < p[2]}
  BY <1>1, WFMin
<1>3. ASSUME NEW y \in T, y < x PROVE FALSE
  <2>1. <<y, x>> \in {p \in Nat \X Nat : p[1] < p[2]}
    BY <1>3
  <2>. QED
    BY <1>2, <2>1
<1>. QED
  BY <1>3

LEMMA RemoveAtFacts ==
    ASSUME NEW T, NEW s \in Seq(T), NEW i \in 1..Len(s)
    PROVE  /\ RemoveAt(s, i) \in Seq(T)
           /\ Len(RemoveAt(s, i)) = Len(s) - 1
           /\ \A j \in 1..(Len(s) - 1) :
                 RemoveAt(s, i)[j] = IF j < i THEN s[j] ELSE s[j + 1]
<1>. DEFINE front == SubSeq(s, 1, i - 1)
            back == SubSeq(s, i + 1, Len(s))
<1>1. Len(s) \in Nat /\ \A j \in 1..Len(s) : s[j] \in T
  BY LenProperties, ElementOfSeq
<1>2. /\ front \in Seq(T) /\ Len(front) = i - 1
      /\ \A j \in 1..(i - 1) : front[j] = s[j]
  <2>1. \A j \in 1..(i - 1) : s[j] \in T
    BY <1>1
  <2>. QED
    BY <1>1, <2>1, SubSeqProperties
<1>3. /\ back \in Seq(T) /\ Len(back) = Len(s) - i
      /\ \A j \in 1..(Len(s) - i) : back[j] = s[i + j]
  <2>1. \A j \in (i + 1)..Len(s) : s[j] \in T
    BY <1>1
  <2>2. /\ back \in Seq(T)
        /\ Len(back) = IF i + 1 <= Len(s) THEN Len(s) - (i + 1) + 1 ELSE 0
        /\ \A j \in 1..(Len(s) - (i + 1) + 1) : back[j] = s[(i + 1) + j - 1]
    BY <1>1, <2>1, SubSeqProperties
  <2>. QED
    BY <1>1, <2>2
<1>4. RemoveAt(s, i) = front \o back
  BY DEF RemoveAt
<1>. HIDE DEF front, back
<1>5. /\ front \o back \in Seq(T)
      /\ Len(front \o back) = Len(front) + Len(back)
      /\ \A j \in 1..(Len(front) + Len(back)) :
            (front \o back)[j] = IF j <= Len(front) THEN front[j] ELSE back[j - Len(front)]
  BY <1>2, <1>3, ConcatProperties
<1>. QED
  BY <1>1, <1>2, <1>3, <1>4, <1>5

(* How many of the positions below, or the others, do not matter: a set of *)
(* positions and its image under the shift that closes the gap at i have   *)
(* the same size.                                                          *)
LEMMA ShiftKeepsCount ==
    ASSUME NEW A, NEW B \in SUBSET Nat, NEW i \in Nat, i \notin B, IsFiniteSet(A),
           A \in SUBSET Nat,
           \A j \in A : (IF j < i THEN j ELSE j + 1) \in B,
           \A k \in B : (IF k < i THEN k ELSE k - 1) \in A
    PROVE  IsFiniteSet(B) /\ Cardinality(B) = Cardinality(A)
<1>. DEFINE f == [j \in A |-> IF j < i THEN j ELSE j + 1]
<1>1. f \in [A -> B]
  OBVIOUS
<1>2. IsInjective(f)
  BY DEF IsInjective
<1>3. \A k \in B : \E j \in A : f[j] = k
  <2>. SUFFICES ASSUME NEW k \in B PROVE \E j \in A : f[j] = k
    OBVIOUS
  <2>1. CASE k < i
    BY <2>1
  <2>2. CASE k > i
    <3>1. k - 1 \in A /\ ~(k - 1 < i)
      BY <2>2
    <3>. QED
      BY <3>1
  <2>. QED
    BY <2>1, <2>2
<1>4. f \in Bijection(A, B)
  BY <1>1, <1>2, <1>3 DEF Bijection, Injection, Surjection
<1>. QED
  BY <1>4, FS_Bijection DEF ExistsBijection

(* A set of positions closed downwards is the interval its size names.     *)
LEMMA PrefixIsInterval ==
    ASSUME NEW L \in Nat, NEW K \in SUBSET (1..L), \A k \in K : \A j \in 1..k : j \in K
    PROVE  K = 1..Cardinality(K) /\ Cardinality(K) \in 0..L
<1>. DEFINE T == (1..(L + 1)) \ K
<1>1. T \in SUBSET Nat /\ L + 1 \in T
  OBVIOUS
<1>2. PICK x \in T : \A y \in T : x <= y
  BY <1>1, LeastNatural
<1>3. K = 1..(x - 1)
  <2>1. ASSUME NEW y \in 1..(x - 1) PROVE y \in K
    BY <1>2
  <2>2. ASSUME NEW k \in K PROVE k \in 1..(x - 1)
    <3>1. CASE k >= x
      <4>1. x \in 1..k
        BY <1>2, <3>1
      <4>. QED
        BY <1>2, <4>1
    <3>. QED
      BY <1>2, <3>1
  <2>. QED
    BY <2>1, <2>2
<1>4. Cardinality(1..(x - 1)) = x - 1
  BY <1>2, FS_Interval
<1>. QED
  BY <1>2, <1>3, <1>4

LEMMA OffsetKeepsCount ==
    ASSUME NEW A \in SUBSET Nat, IsFiniteSet(A), NEW L \in Nat
    PROVE  /\ IsFiniteSet({L + i : i \in A})
           /\ Cardinality({L + i : i \in A}) = Cardinality(A)
<1>. DEFINE B == {L + i : i \in A}
            f == [i \in A |-> L + i]
<1>1. f \in Bijection(A, B)
  BY DEF Bijection, Injection, Surjection, IsInjective
<1>. QED
  BY <1>1, FS_Bijection DEF ExistsBijection

(* AtPositions(s, K) lists the elements of s at K, in their order.         *)
LEMMA AtPositionsFacts ==
    ASSUME NEW T, NEW s \in Seq(T), NEW K \in SUBSET DOMAIN s
    PROVE  /\ Cardinality(K) \in Nat
           /\ AtPositions(s, K) \in Seq(T)
           /\ Len(AtPositions(s, K)) = Cardinality(K)
           /\ \E f \in [1..Cardinality(K) -> K] :
                 /\ \A m, n \in 1..Cardinality(K) : m < n => f[m] < f[n]
                 /\ \A n \in 1..Cardinality(K) : AtPositions(s, K)[n] = s[f[n]]
           /\ \A k \in K : \E n \in 1..Cardinality(K) : AtPositions(s, K)[n] = s[k]
<1>. DEFINE Below(k) == {j \in K : j <= k}
            N == Cardinality(K)
            rank == [k \in K |-> Cardinality(Below(k))]
<1>1. DOMAIN s = 1..Len(s) /\ Len(s) \in Nat /\ \A i \in DOMAIN s : s[i] \in T
  BY LenProperties, ElementOfSeq
<1>2. IsFiniteSet(K) /\ N \in Nat
  BY PositionsFinite
<1>3. \A k \in K : IsFiniteSet(Below(k)) /\ Cardinality(Below(k)) \in 1..N
  <2>. SUFFICES ASSUME NEW k \in K
                PROVE  IsFiniteSet(Below(k)) /\ Cardinality(Below(k)) \in 1..N
    OBVIOUS
  <2>1. Below(k) \in SUBSET K /\ k \in Below(k)
    BY <1>1
  <2>2. IsFiniteSet(Below(k)) /\ Cardinality(Below(k)) <= N
    BY <1>2, <2>1, FS_Subset
  <2>3. Cardinality(Below(k)) \in Nat /\ Cardinality(Below(k)) # 0
    BY <2>1, <2>2, FS_CardinalityType, FS_EmptySet
  <2>. QED
    BY <1>2, <2>2, <2>3
<1>. DEFINE size(k) == Cardinality(Below(k))
<1>0. \A k \in K : size(k) \in Nat /\ size(k) \in 1..N
  <2>. SUFFICES ASSUME NEW k \in K PROVE size(k) \in Nat /\ size(k) \in 1..N
    OBVIOUS
  <2>1. size(k) \in 1..N
    BY <1>3
  <2>. HIDE DEF size, N
  <2>. QED
    BY <1>2, <2>1
<1>4. ASSUME NEW j \in K, NEW k \in K, j < k
      PROVE  size(j) < size(k)
  <2>1. Below(j) \in SUBSET Below(k) /\ k \in Below(k) /\ k \notin Below(j)
    BY <1>1, <1>4
  <2>2. size(j) <= size(k) /\ size(j) # size(k)
    BY <1>3, <2>1, FS_Subset
  <2>. HIDE DEF size
  <2>. QED
    BY <1>0, <2>2
<1>5. rank \in Injection(K, 1..N)
  <2>1. rank \in [K -> 1..N]
    BY <1>3
  <2>2. ASSUME NEW j \in K, NEW k \in K, rank[j] = rank[k] PROVE j = k
    <3>. size(j) = size(k)
      BY <2>2
    <3>. HIDE DEF size
    <3>1. ~(j < k)
      BY <1>0, <1>4
    <3>2. ~(k < j)
      BY <1>0, <1>4
    <3>. QED
      BY <1>1, <3>1, <3>2
  <2>. QED
    BY <2>1, <2>2 DEF Injection, IsInjective
<1>6. IsFiniteSet(1..N) /\ Cardinality(1..N) = N
  BY <1>2, FS_Interval
<1>7. rank \in Surjection(K, 1..N)
  BY <1>5, <1>6, FS_Injection
<1>. DEFINE at(n) == CHOOSE k \in K : Cardinality(Below(k)) = n
            f == [n \in 1..N |-> at(n)]
<1>8. \A n \in 1..N : at(n) \in K /\ Cardinality(Below(at(n))) = n
  <2>. SUFFICES ASSUME NEW n \in 1..N PROVE at(n) \in K /\ Cardinality(Below(at(n))) = n
    OBVIOUS
  <2>1. \E k \in K : Cardinality(Below(k)) = n
    BY <1>7 DEF Surjection
  <2>. QED
    BY <2>1
<1>9. AtPositions(s, K) = [n \in 1..N |-> s[at(n)]]
  BY DEF AtPositions
<1>13. \A k \in K : rank[k] \in 1..N /\ at(rank[k]) = k
  <2>. SUFFICES ASSUME NEW k \in K PROVE rank[k] \in 1..N /\ at(rank[k]) = k
    OBVIOUS
  <2>1. rank[k] \in 1..N
    BY <1>3
  <2>2. at(rank[k]) \in K /\ rank[at(rank[k])] = rank[k]
    BY <1>8, <2>1
  <2>. HIDE DEF at, rank
  <2>. QED
    BY <1>5, <2>1, <2>2 DEF Injection, IsInjective
<1>14. \A k \in K : \E n \in 1..N : AtPositions(s, K)[n] = s[k]
  <2>. HIDE DEF at, rank, N
  <2>. QED
    BY <1>9, <1>13
<1>. HIDE DEF Below, at
<1>10. f \in [1..N -> K] /\ \A n \in 1..N : AtPositions(s, K)[n] = s[f[n]]
  BY <1>8, <1>9
<1>11. ASSUME NEW m \in 1..N, NEW n \in 1..N, m < n PROVE f[m] < f[n]
  <2>1. f[m] # f[n]
    BY <1>8, <1>11
  <2>2. ~(f[n] < f[m])
    BY <1>2, <1>0, <1>4, <1>8, <1>10, <1>11
  <2>. QED
    BY <1>1, <1>10, <2>1, <2>2
<1>12. AtPositions(s, K) \in Seq(T) /\ Len(AtPositions(s, K)) = N
  <2>1. AtPositions(s, K) \in [1..N -> T]
    BY <1>1, <1>8, <1>9
  <2>2. AtPositions(s, K) \in Seq(T)
    BY <1>2, <2>1, SeqDef
  <2>3. DOMAIN AtPositions(s, K) = 1..N
    BY <2>1
  <2>. QED
    BY <1>2, <2>2, <2>3, LenProperties
<1>. QED
  BY <1>2, <1>10, <1>11, <1>12, <1>14

-------------------------------------------------------------------------------
(* What each call makes of a sound block.                                  *)

LEMMA AddGrantFacts ==
    ASSUME NEW b, Sound(b), NEW o \in Owners, NEW m \in Mode
    PROVE  LET c == AddGrant(b, o, m)
           IN  /\ Sound(c)
               /\ c.pending = b.pending /\ c.data = b.data
               /\ Len(c.granted) = Len(b.granted) + 1
               /\ \A i \in DOMAIN b.granted : c.granted[i] = b.granted[i]
               /\ c.granted[Len(b.granted) + 1] = [owner |-> o, mode |-> m]
<1>. DEFINE c == AddGrant(b, o, m)
            g == [owner |-> o, mode |-> m]
            last == Len(b.granted) + 1
<1>1. BlockType(b) /\ b.granted \in Seq(Grant) /\ b.counts \in [Mode -> Nat] /\ g \in Grant
  BY DEF Sound, BlockType, Grant
<1>2. /\ Append(b.granted, g) \in Seq(Grant) /\ Len(Append(b.granted, g)) = last
      /\ \A i \in 1..Len(b.granted) : Append(b.granted, g)[i] = b.granted[i]
      /\ Append(b.granted, g)[last] = g
      /\ Len(b.granted) \in Nat /\ DOMAIN b.granted = 1..Len(b.granted)
      /\ DOMAIN Append(b.granted, g) = 1..last
  <2>1. /\ Append(b.granted, g) \in Seq(Grant) /\ Len(Append(b.granted, g)) = last
        /\ \A i \in 1..Len(b.granted) : Append(b.granted, g)[i] = b.granted[i]
        /\ Append(b.granted, g)[last] = g
    BY <1>1, AppendProperties
  <2>. QED
    BY <1>1, <2>1, LenProperties
<1>. DEFINE counts == [b.counts EXCEPT ![m] = @ + 1]
<1>4. counts \in [Mode -> Nat] /\ \A n \in Mode : counts[n] = IF n = m THEN b.counts[n] + 1 ELSE b.counts[n]
  BY <1>1
<1>5. c = [b EXCEPT !.granted = Append(b.granted, g), !.counts = counts]
  BY DEF AddGrant
<1>. HIDE DEF c, counts
<1>3. /\ c.granted = Append(b.granted, g) /\ c.pending = b.pending /\ c.data = b.data
      /\ c.counts = counts
      /\ BlockType(c)
  BY <1>1, <1>2, <1>4, <1>5 DEF BlockType
<1>6. ASSUME NEW n \in Mode
      PROVE  c.counts[n] = Cardinality(ModeAt(c, n))
  <2>1. ModeAt(c, n) = IF n = m THEN ModeAt(b, n) \cup {last} ELSE ModeAt(b, n)
    BY <1>2, <1>3 DEF ModeAt
  <2>2. last \notin ModeAt(b, n)
    BY <1>2 DEF ModeAt
  <2>3. IsFiniteSet(ModeAt(b, n)) /\ Cardinality(ModeAt(b, n)) \in Nat
    BY <1>1, ModeAtFinite
  <2>4. Cardinality(ModeAt(b, n) \cup {last}) = Cardinality(ModeAt(b, n)) + 1
    BY <2>2, <2>3, FS_AddElement
  <2>5. b.counts[n] = Cardinality(ModeAt(b, n))
    BY DEF Sound, CountsMatch, ModeAt
  <2>. QED
    BY <1>1, <1>3, <1>4, <2>1, <2>4, <2>5
<1>. QED
  BY <1>2, <1>3, <1>6 DEF Sound, CountsMatch, ModeAt, c

LEMMA ParkFacts ==
    ASSUME NEW b, Sound(b), NEW o \in Owners, NEW m \in Mode,
           NEW d \in Nat \cup {NoDeadline}
    PROVE  LET c == Park(b, o, m, d)
           IN  /\ Sound(c)
               /\ c.granted = b.granted /\ c.data = b.data /\ c.counts = b.counts
               /\ Len(c.pending) = Len(b.pending) + 1
               /\ \A i \in DOMAIN b.pending : c.pending[i] = b.pending[i]
               /\ c.pending[Len(b.pending) + 1] = [owner |-> o, mode |-> m, deadline |-> d]
<1>. DEFINE c == Park(b, o, m, d)
            w == [owner |-> o, mode |-> m, deadline |-> d]
<1>1. BlockType(b) /\ b.pending \in Seq(Waiter) /\ w \in Waiter
  BY DEF Sound, BlockType, Waiter
<1>2. /\ Append(b.pending, w) \in Seq(Waiter)
      /\ Len(Append(b.pending, w)) = Len(b.pending) + 1
      /\ \A i \in 1..Len(b.pending) : Append(b.pending, w)[i] = b.pending[i]
      /\ Append(b.pending, w)[Len(b.pending) + 1] = w
  BY <1>1, AppendProperties
<1>3. /\ c.granted = b.granted /\ c.pending = Append(b.pending, w) /\ c.data = b.data
      /\ c.counts = b.counts /\ BlockType(c)
  BY <1>1, <1>2 DEF Park, BlockType
<1>4. CountsMatch(c)
  BY <1>3 DEF Sound, CountsMatch
<1>5. DOMAIN b.pending = 1..Len(b.pending)
  BY <1>1, LenProperties
<1>. QED
  BY <1>2, <1>3, <1>4, <1>5 DEF Sound

LEMMA FirstGrantFacts ==
    ASSUME NEW b, BlockType(b), NEW o, HoldsOn(b, o)
    PROVE  /\ FirstGrant(b, o) \in DOMAIN b.granted
           /\ b.granted[FirstGrant(b, o)].owner = o
           /\ \A j \in 1..(FirstGrant(b, o) - 1) : b.granted[j].owner # o
<1>. DEFINE P == {i \in DOMAIN b.granted : b.granted[i].owner = o}
<1>1. DOMAIN b.granted = 1..Len(b.granted) /\ Len(b.granted) \in Nat
  BY LenProperties DEF BlockType
<1>2. P \in SUBSET Nat /\ P # {}
  BY <1>1 DEF HoldsOn
<1>3. PICK x \in P : \A y \in P : x <= y
  BY <1>2, LeastNatural
<1>4. ASSUME NEW j \in 1..(x - 1) PROVE b.granted[j].owner # o
  BY <1>1, <1>3
<1>5. /\ x \in DOMAIN b.granted
      /\ b.granted[x].owner = o
      /\ \A j \in 1..(x - 1) : b.granted[j].owner # o
  BY <1>3, <1>4
<1>. QED
  BY <1>5 DEF FirstGrant

(* s is r with some of its elements left out. *)
Sublist(s, r) ==
    \E f \in [DOMAIN s -> DOMAIN r] :
        /\ \A i, j \in DOMAIN s : i < j => f[i] < f[j]
        /\ \A i \in DOMAIN s : s[i] = r[f[i]]

LEMMA DropGrantFacts ==
    ASSUME NEW b, Sound(b), NEW o
    PROVE  LET c == DropGrant(b, o)
           IN  /\ Sound(c)
               /\ c.pending = b.pending /\ c.data = b.data
               /\ Sublist(c.granted, b.granted)
<1>. DEFINE c == DropGrant(b, o)
            i == FirstGrant(b, o)
            g == b.granted
            L == Len(g)
            old == g[i].mode
            counts == [b.counts EXCEPT ![old] = @ - 1]
<1>1. BlockType(b) /\ g \in Seq(Grant) /\ b.counts \in [Mode -> Nat]
  BY DEF Sound, BlockType
<1>2. DOMAIN g = 1..L /\ L \in Nat
  BY <1>1, LenProperties
<1>3. CASE ~HoldsOn(b, o)
  <2>1. c = b
    BY <1>3 DEF DropGrant
  <2>. DEFINE f == [j \in 1..L |-> j]
  <2>2. f \in [DOMAIN g -> DOMAIN g] /\ \A j \in DOMAIN g : f[j] = j
    BY <1>2
  <2>. HIDE DEF f
  <2>3. Sublist(g, g)
    BY <2>2 DEF Sublist
  <2>. QED
    BY <2>1, <2>3
<1>4. CASE HoldsOn(b, o)
  <2>1. i \in 1..L /\ old \in Mode
    BY <1>1, <1>2, <1>4, FirstGrantFacts, GrantModes
  <2>. DEFINE r == RemoveAt(g, i)
  <2>2. /\ r \in Seq(Grant) /\ Len(r) = L - 1
        /\ \A j \in 1..(L - 1) : r[j] = IF j < i THEN g[j] ELSE g[j + 1]
    BY <1>1, <2>1, RemoveAtFacts
  <2>3. DOMAIN r = 1..(L - 1)
    BY <2>2, LenProperties
  <2>4. c = [b EXCEPT !.counts = counts, !.granted = r]
    BY <1>4 DEF DropGrant
  <2>. HIDE DEF c, r, i
  <2>5. b.counts[old] > 0
    BY <1>2, <2>1, CountPositive
  <2>6. counts \in [Mode -> Nat]
    BY <1>1, <2>1, <2>5
  <2>7. \A n \in Mode : counts[n] = IF n = old THEN b.counts[n] - 1 ELSE b.counts[n]
    BY <1>1, <2>1
  <2>. HIDE DEF counts
  <2>8. /\ c.granted = r /\ c.counts = counts /\ c.pending = b.pending /\ c.data = b.data
        /\ BlockType(c)
    BY <1>1, <2>2, <2>4, <2>6 DEF BlockType
  <2>9. ASSUME NEW n \in Mode
        PROVE  c.counts[n] = Cardinality(ModeAt(c, n))
    <3>. DEFINE A == ModeAt(c, n)
                B == ModeAt(b, n) \ {i}
    <3>1. IsFiniteSet(A) /\ IsFiniteSet(ModeAt(b, n)) /\ Cardinality(ModeAt(b, n)) \in Nat
      BY <1>1, <2>8, ModeAtFinite
    <3>2. A \in SUBSET Nat /\ B \in SUBSET Nat /\ i \notin B /\ i \in Nat
      BY <1>2, <2>1, <2>3, <2>8 DEF ModeAt
    <3>3. \A j \in A : (IF j < i THEN j ELSE j + 1) \in B
      BY <1>2, <2>1, <2>2, <2>3, <2>8 DEF ModeAt
    <3>4. \A k \in B : (IF k < i THEN k ELSE k - 1) \in A
      <4>. SUFFICES ASSUME NEW k \in B PROVE (IF k < i THEN k ELSE k - 1) \in A
        OBVIOUS
      <4>1. k \in 1..L /\ k # i /\ g[k].mode = n
        BY <1>2 DEF ModeAt
      <4>2. CASE k < i
        BY <2>1, <2>2, <2>3, <2>8, <4>1, <4>2, <1>2 DEF ModeAt
      <4>3. CASE k > i
        <5>1. k - 1 \in 1..(L - 1) /\ ~(k - 1 < i) /\ (k - 1) + 1 = k
          BY <2>1, <4>1, <4>3, <1>2
        <5>2. r[k - 1] = g[k]
          BY <2>2, <5>1
        <5>. QED
          BY <2>3, <2>8, <4>1, <4>3, <5>1, <5>2, <2>1, <1>2 DEF ModeAt
      <4>. QED
        BY <2>1, <4>1, <4>2, <4>3, <1>2
    <3>5. Cardinality(B) = Cardinality(A)
      <4>. HIDE DEF A, B
      <4>. QED
        BY <3>1, <3>2, <3>3, <3>4, ShiftKeepsCount
    <3>6. b.counts[n] = Cardinality(ModeAt(b, n))
      BY DEF Sound, CountsMatch, ModeAt
    <3>7. CASE n = old
      <4>1. i \in ModeAt(b, n)
        BY <1>2, <2>1, <3>7 DEF ModeAt
      <4>2. Cardinality(B) = Cardinality(ModeAt(b, n)) - 1
        BY <3>1, <4>1, FS_RemoveElement
      <4>. QED
        BY <2>7, <2>8, <3>5, <3>6, <3>7, <4>2
    <3>8. CASE n # old
      <4>1. B = ModeAt(b, n)
        BY <3>8 DEF ModeAt
      <4>. QED
        BY <2>7, <2>8, <3>5, <3>6, <3>8, <4>1
    <3>. QED
      BY <3>7, <3>8
  <2>10. Sound(c)
    BY <2>8, <2>9 DEF Sound, CountsMatch, ModeAt
  <2>. DEFINE f == [j \in 1..(L - 1) |-> IF j < i THEN j ELSE j + 1]
  <2>11. f \in [1..(L - 1) -> 1..L]
    BY <1>2, <2>1
  <2>12. \A j, k \in 1..(L - 1) : j < k => f[j] < f[k]
    BY <1>2, <2>1
  <2>13. \A j \in 1..(L - 1) : r[j] = g[f[j]]
    BY <2>2
  <2>. HIDE DEF f
  <2>14. Sublist(r, g)
    BY <1>2, <2>3, <2>11, <2>12, <2>13 DEF Sublist
  <2>. QED
    BY <2>8, <2>10, <2>14 DEF c
<1>. QED
  BY <1>3, <1>4

LEMMA ChangeGrantFacts ==
    ASSUME NEW b, Sound(b), NEW o \in Owners, HoldsOn(b, o), NEW m \in Mode
    PROVE  LET c == ChangeGrant(b, o, m)
           IN  /\ Sound(c)
               /\ c.pending = b.pending /\ c.data = b.data
               /\ DOMAIN c.granted = DOMAIN b.granted
               /\ \A j \in DOMAIN b.granted :
                     /\ c.granted[j].owner = b.granted[j].owner
                     /\ c.granted[j].mode =
                           IF j = FirstGrant(b, o) THEN m ELSE b.granted[j].mode
<1>. DEFINE c == ChangeGrant(b, o, m)
            i == FirstGrant(b, o)
            g == b.granted
            L == Len(g)
            old == g[i].mode
            less == [b.counts EXCEPT ![old] = @ - 1]
            more == [less EXCEPT ![m] = @ + 1]
            r == [g EXCEPT ![i].mode = m]
<1>1. BlockType(b) /\ g \in Seq(Grant) /\ b.counts \in [Mode -> Nat]
  BY DEF Sound, BlockType
<1>2. DOMAIN g = 1..L /\ L \in Nat /\ \A j \in 1..L : g[j] \in Grant
  BY <1>1, LenProperties, ElementOfSeq
<1>3. i \in 1..L /\ old \in Mode
  BY <1>1, <1>2, FirstGrantFacts, GrantModes
<1>4. c = [b EXCEPT !.granted = r, !.counts = more]
  BY DEF ChangeGrant
<1>5. /\ r \in Seq(Grant) /\ DOMAIN r = 1..L
      /\ \A j \in 1..L : r[j].owner = g[j].owner
      /\ \A j \in 1..L : r[j].mode = IF j = i THEN m ELSE g[j].mode
  <2>. HIDE DEF i
  <2>0. r[i] = [g[i] EXCEPT !.mode = m] /\ \A j \in (1..L) \ {i} : r[j] = g[j]
    BY <1>1, <1>2, <1>3
  <2>1. r[i] \in Grant /\ r[i].owner = g[i].owner /\ r[i].mode = m
    <3>1. g[i] \in Grant
      BY <1>2, <1>3
    <3>. QED
      BY <2>0, <3>1 DEF Grant
  <2>2. r \in [1..L -> Grant]
    <3>1. DOMAIN r = 1..L /\ r = [j \in 1..L |-> r[j]]
      BY <1>2
    <3>2. \A j \in 1..L : r[j] \in Grant
      BY <1>2, <2>0, <2>1
    <3>. HIDE DEF r
    <3>. QED
      BY <3>1, <3>2
  <2>3. r \in Seq(Grant)
    BY <1>2, <2>2, SeqDef
  <2>. QED
    BY <2>0, <2>1, <2>2, <2>3
<1>6. b.counts[old] > 0
  BY <1>2, <1>3, CountPositive
<1>7. less \in [Mode -> Nat] /\ \A n \in Mode : less[n] = IF n = old THEN b.counts[n] - 1 ELSE b.counts[n]
  BY <1>1, <1>3, <1>6
<1>8. more \in [Mode -> Nat] /\ \A n \in Mode : more[n] = IF n = m THEN less[n] + 1 ELSE less[n]
  <2>. HIDE DEF less
  <2>. QED
    BY <1>7
<1>. HIDE DEF c, r, i, less, more
<1>9. /\ c.granted = r /\ c.counts = more /\ c.pending = b.pending /\ c.data = b.data
      /\ BlockType(c)
  BY <1>1, <1>4, <1>5, <1>8 DEF BlockType
<1>10. ASSUME NEW n \in Mode
       PROVE  c.counts[n] = Cardinality(ModeAt(c, n))
  <2>. DEFINE A == ModeAt(b, n)
  <2>0. IsFiniteSet(A) /\ Cardinality(A) \in Nat
    BY <1>1, ModeAtFinite
  <2>1. IsFiniteSet(A) /\ Cardinality(A) \in Nat /\ b.counts[n] = Cardinality(A)
    BY <2>0 DEF Sound, CountsMatch, ModeAt
  <2>2. ModeAt(c, n) = IF n = m THEN A \cup {i} ELSE A \ {i}
    BY <1>2, <1>3, <1>5, <1>9 DEF ModeAt
  <2>3. i \in A <=> n = old
    BY <1>2, <1>3 DEF ModeAt
  <2>. HIDE DEF A
  <2>4. Cardinality(A \cup {i}) = IF n = old THEN Cardinality(A) ELSE Cardinality(A) + 1
    BY <2>1, <2>3, FS_AddElement
  <2>5. Cardinality(A \ {i}) = IF n = old THEN Cardinality(A) - 1 ELSE Cardinality(A)
    BY <2>1, <2>3, FS_RemoveElement
  <2>6. c.counts[n] = more[n] /\ more[n] = (IF n = m THEN less[n] + 1 ELSE less[n])
        /\ less[n] = (IF n = old THEN b.counts[n] - 1 ELSE b.counts[n])
    BY <1>7, <1>8, <1>9
  <2>7. b.counts[n] \in Nat
    BY <2>1
  <2>. QED
    BY <2>1, <2>2, <2>4, <2>5, <2>6, <2>7
<1>11. Sound(c)
  BY <1>9, <1>10 DEF Sound, CountsMatch, ModeAt
<1>. QED
  BY <1>2, <1>5, <1>9, <1>11 DEF c, i

-------------------------------------------------------------------------------
(* The regrant sweep.                                                      *)

LEMMA AheadFacts ==
    ASSUME NEW b, Sound(b), NEW i \in 1..Len(b.pending)
    PROVE  /\ AheadState(b, i) \in Mode
           /\ State(b) <= AheadState(b, i)
           /\ \A j \in 1..(i - 1) : b.pending[j].mode <= AheadState(b, i)
           /\ \/ AheadState(b, i) = State(b)
              \/ \E j \in 1..(i - 1) : AheadState(b, i) = b.pending[j].mode
<1>. DEFINE ahead == {State(b)} \cup {b.pending[j].mode : j \in 1..(i - 1)}
<1>1. DOMAIN b.pending = 1..Len(b.pending) /\ Len(b.pending) \in Nat
  BY LenProperties DEF Sound, BlockType
<1>2. \A j \in 1..(i - 1) : b.pending[j].mode \in Mode
  BY <1>1, WaiterModes DEF Sound
<1>3. ahead \in SUBSET Mode /\ ahead # {}
  BY <1>2, StateIsHighest
<1>4. Highest(ahead) \in ahead /\ \A n \in ahead : n <= Highest(ahead)
  BY <1>3, HighestIsMaximum
<1>. QED
  BY <1>3, <1>4 DEF AheadState

LEMMA RegrantCountFacts ==
    ASSUME NEW b, Sound(b)
    PROVE  LET n == RegrantCount(b)
           IN  /\ n \in 0..Len(b.pending)
               /\ \A i \in 1..n : Compatible(b.pending[i].mode, AheadState(b, i))
               /\ n < Len(b.pending) =>
                     ~Compatible(b.pending[n + 1].mode, AheadState(b, n + 1))
<1>. DEFINE L == Len(b.pending)
            ok(i) == Compatible(b.pending[i].mode, AheadState(b, i))
            K == {k \in 1..L : \A i \in 1..k : ok(i)}
            n == Cardinality(K)
<1>1. DOMAIN b.pending = 1..L /\ L \in Nat
  BY LenProperties DEF Sound, BlockType
<1>2. RegrantCount(b) = n
  BY <1>1 DEF RegrantCount
<1>. HIDE DEF ok
<1>3. K \in SUBSET (1..L) /\ \A k \in K : \A j \in 1..k : j \in K
  BY <1>1
<1>4. K = 1..n /\ n \in 0..L
  <2>. HIDE DEF K
  <2>. QED
    BY <1>1, <1>3, PrefixIsInterval
<1>5. \A i \in 1..n : ok(i)
  <2>. SUFFICES ASSUME NEW i \in 1..n PROVE ok(i)
    OBVIOUS
  <2>1. i \in K /\ i \in 1..i
    BY <1>4
  <2>. QED
    BY <2>1
<1>6. n < L => ~ok(n + 1)
  <2>. SUFFICES ASSUME n < L, ok(n + 1) PROVE FALSE
    OBVIOUS
  <2>0. n \in Nat /\ n + 1 \in 1..L
    BY <1>1, <1>4
  <2>1. \A i \in 1..(n + 1) : ok(i)
    <3>. HIDE DEF n
    <3>. QED
      BY <2>0, <1>5
  <2>2. n + 1 \in K
    BY <2>0, <2>1
  <2>. HIDE DEF n, K
  <2>. QED
    BY <1>4, <2>0, <2>2
<1>. QED
  BY <1>2, <1>4, <1>5, <1>6 DEF ok

(* What the sweep makes of a block: the grants it finds stay, the first    *)
(* RegrantCount waiters follow them in queue order, the others keep their  *)
(* order.                                                                  *)
LEMMA RegrantFacts ==
    ASSUME NEW b, Sound(b)
    PROVE  LET c == Regrant(b)
               n == RegrantCount(b)
               L == Len(b.granted)
           IN  /\ Sound(c)
               /\ c.data = b.data
               /\ DOMAIN c.granted = 1..(L + n)
               /\ \A i \in 1..L : c.granted[i] = b.granted[i]
               /\ \A i \in 1..n :
                     c.granted[L + i] = [owner |-> b.pending[i].owner,
                                         mode |-> b.pending[i].mode]
               /\ Len(c.pending) = Len(b.pending) - n
               /\ DOMAIN c.pending = 1..(Len(b.pending) - n)
               /\ \A i \in 1..(Len(b.pending) - n) : c.pending[i] = b.pending[n + i]
<1>. DEFINE c == Regrant(b)
            n == RegrantCount(b)
            L == Len(b.granted)
            M == Len(b.pending)
            new == [i \in 1..n |-> [owner |-> b.pending[i].owner,
                                    mode |-> b.pending[i].mode]]
            newAt(m) == {i \in 1..n : new[i].mode = m}
            counts == [m \in Mode |-> b.counts[m] + Cardinality(newAt(m))]
            all == b.granted \o new
            rest == SubSeq(b.pending, n + 1, M)
<1>1. /\ BlockType(b) /\ b.granted \in Seq(Grant) /\ b.counts \in [Mode -> Nat]
      /\ b.pending \in Seq(Waiter)
  BY DEF Sound, BlockType
<1>2. /\ DOMAIN b.granted = 1..L /\ L \in Nat
      /\ DOMAIN b.pending = 1..M /\ M \in Nat
      /\ n \in 0..M /\ n \in Nat
  BY <1>1, LenProperties, RegrantCountFacts
<1>3. new \in Seq(Grant) /\ Len(new) = n
  <2>1. \A i \in 1..n : b.pending[i].owner \in Owners /\ b.pending[i].mode \in Mode
    BY <1>1, <1>2, WaiterModes
  <2>2. new \in [1..n -> Grant]
    <3>. HIDE DEF n
    <3>. QED
      BY <2>1 DEF Grant
  <2>3. new \in Seq(Grant)
    <3>. HIDE DEF n
    <3>. QED
      BY <1>2, <2>2, SeqDef
  <2>. QED
    BY <1>2, <2>3, LenProperties
<1>4. /\ all \in Seq(Grant) /\ Len(all) = L + n
      /\ \A i \in 1..(L + n) : all[i] = IF i <= L THEN b.granted[i] ELSE new[i - L]
  <2>. HIDE DEF new
  <2>. QED
    BY <1>1, <1>3, ConcatProperties
<1>5. /\ rest \in Seq(Waiter) /\ Len(rest) = M - n
      /\ \A i \in 1..(M - n) : rest[i] = b.pending[n + i]
  <2>1. \A i \in (n + 1)..M : b.pending[i] \in Waiter
    BY <1>1, <1>2, ElementOfSeq
  <2>2. /\ rest \in Seq(Waiter)
        /\ Len(rest) = IF n + 1 <= M THEN M - (n + 1) + 1 ELSE 0
        /\ \A i \in 1..(M - (n + 1) + 1) : rest[i] = b.pending[(n + 1) + i - 1]
    BY <1>2, <2>1, SubSeqProperties
  <2>. HIDE DEF rest
  <2>. QED
    BY <1>2, <2>2
<1>6. DOMAIN all = 1..(L + n) /\ DOMAIN rest = 1..(M - n)
  <2>. HIDE DEF all, rest
  <2>. QED
    BY <1>4, <1>5, LenProperties
<1>7. \A m \in Mode : IsFiniteSet(newAt(m)) /\ Cardinality(newAt(m)) \in Nat
  <2>. SUFFICES ASSUME NEW m \in Mode
                PROVE  IsFiniteSet(newAt(m)) /\ Cardinality(newAt(m)) \in Nat
    OBVIOUS
  <2>1. newAt(m) \in SUBSET (1..n)
    OBVIOUS
  <2>2. DOMAIN new = 1..n
    OBVIOUS
  <2>. HIDE DEF new
  <2>. QED
    BY <1>3, <2>1, <2>2, PositionsFinite
<1>8. counts \in [Mode -> Nat]
  <2>. HIDE DEF newAt
  <2>1. ASSUME NEW m \in Mode PROVE b.counts[m] + Cardinality(newAt(m)) \in Nat
    <3>1. b.counts[m] \in Nat /\ Cardinality(newAt(m)) \in Nat
      BY <1>1, <1>7
    <3>. QED
      BY <3>1
  <2>. QED
    BY <2>1
<1>9. c = [b EXCEPT !.granted = all, !.counts = counts, !.pending = rest]
  BY DEF Regrant
<1>10. \A i \in 1..L : all[i] = b.granted[i]
  <2>. HIDE DEF all, n
  <2>1. ASSUME NEW i \in 1..L PROVE i \in 1..(L + n) /\ i <= L
    BY <1>2
  <2>. QED
    BY <1>4, <2>1
<1>11. \A i \in 1..n : all[L + i] = new[i]
  <2>. HIDE DEF all, n, new
  <2>. QED
    BY <1>2, <1>4
<1>12. \A m \in Mode : counts[m] = b.counts[m] + Cardinality(newAt(m))
  OBVIOUS
<1>. HIDE DEF c, all, rest, counts
<1>13. /\ c.granted = all /\ c.counts = counts /\ c.pending = rest /\ c.data = b.data
       /\ BlockType(c)
  BY <1>1, <1>4, <1>5, <1>8, <1>9 DEF BlockType
<1>14. ASSUME NEW m \in Mode PROVE c.counts[m] = Cardinality(ModeAt(c, m))
  <2>. DEFINE A == ModeAt(b, m)
              B == {L + i : i \in newAt(m)}
  <2>0. 0 \notin newAt(m)
    BY <1>2
  <2>1. IsFiniteSet(A) /\ Cardinality(A) \in Nat
    BY <1>1, ModeAtFinite
  <2>2. b.counts[m] = Cardinality(A)
    BY DEF Sound, CountsMatch, ModeAt
  <2>3. newAt(m) \in SUBSET Nat
    BY <1>2
  <2>4. IsFiniteSet(B) /\ Cardinality(B) = Cardinality(newAt(m))
    <3>. HIDE DEF newAt
    <3>. QED
      BY <1>2, <1>7, <2>3, OffsetKeepsCount
  <2>5. A \cap B = {}
    <3>1. A \in SUBSET (1..L)
      BY <1>2 DEF ModeAt
    <3>2. \A k \in B : k \notin 1..L
      <4>. HIDE DEF newAt
      <4>1. ASSUME NEW i \in newAt(m) PROVE L + i \notin 1..L
        <5>1. i \in Nat /\ i # 0
          BY <2>0, <2>3
        <5>. QED
          BY <1>2, <5>1
      <4>. QED
        BY <4>1
    <3>. HIDE DEF A, B
    <3>. QED
      BY <3>1, <3>2
  <2>6. ModeAt(c, m) = A \cup B
    <3>1. ASSUME NEW k \in ModeAt(c, m) PROVE k \in A \cup B
      <4>0. k \in 1..(L + n) /\ all[k].mode = m
        BY <1>6, <1>13, <3>1 DEF ModeAt
      <4>1. CASE k <= L
        <5>1. k \in 1..L
          BY <1>2, <4>0, <4>1
        <5>. QED
          BY <1>2, <1>10, <4>0, <5>1 DEF ModeAt
      <4>2. CASE k > L
        <5>1. k - L \in 1..n /\ k = L + (k - L)
          BY <1>2, <4>0, <4>2
        <5>2. new[k - L].mode = m
          BY <1>11, <4>0, <5>1
        <5>3. k - L \in newAt(m)
          BY <5>1, <5>2
        <5>. QED
          BY <5>1, <5>3
      <4>3. k <= L \/ k > L
        BY <1>2, <4>0
      <4>. HIDE DEF A, B
      <4>. QED
        BY <4>1, <4>2, <4>3
    <3>2. ASSUME NEW k \in A PROVE k \in ModeAt(c, m)
      <4>1. k \in 1..L /\ b.granted[k].mode = m
        BY <1>2 DEF ModeAt
      <4>2. k \in 1..(L + n)
        BY <1>2, <4>1
      <4>. QED
        BY <1>6, <1>10, <1>13, <4>1, <4>2 DEF ModeAt
    <3>3. ASSUME NEW i \in newAt(m) PROVE L + i \in ModeAt(c, m)
      <4>1. i \in 1..n /\ new[i].mode = m
        OBVIOUS
      <4>2. L + i \in 1..(L + n)
        BY <1>2, <4>1
      <4>. QED
        BY <1>6, <1>11, <1>13, <4>1, <4>2 DEF ModeAt
    <3>. QED
      BY <3>1, <3>2, <3>3
  <2>. HIDE DEF A, B
  <2>7. Cardinality(A \cup B) = Cardinality(A) + Cardinality(B)
    BY <2>1, <2>4, <2>5, FS_Union, FS_EmptySet, FS_CardinalityType
  <2>. QED
    BY <1>12, <1>13, <2>2, <2>4, <2>6, <2>7
<1>15. Sound(c)
  BY <1>13, <1>14 DEF Sound, CountsMatch, ModeAt
<1>16. \A i \in 1..n : new[i] = [owner |-> b.pending[i].owner, mode |-> b.pending[i].mode]
  OBVIOUS
<1>. HIDE DEF new, n
<1>. QED
  BY <1>5, <1>6, <1>10, <1>11, <1>13, <1>15, <1>16 DEF c, n

(* The sweep keeps the granted modes mutually compatible.  Each grant is   *)
(* tested against one mode only, the highest so far; were one of the       *)
(* grants in conflict with an earlier one, take the first such grant: the  *)
(* earlier ones stand beside the highest, so what the highest admits they  *)
(* admit too.                                                              *)
LEMMA RegrantKeepsCompatible ==
    ASSUME NEW b, Sound(b), MutuallyCompatible(b)
    PROVE  MutuallyCompatible(Regrant(b))
<1>. DEFINE c == Regrant(b)
            n == RegrantCount(b)
            L == Len(b.granted)
            mode(i) == c.granted[i].mode
            Good(x) == \A i \in 1..(x - 1) : Compatible(mode(x), mode(i))
            Bad == {x \in 1..(L + n) : ~Good(x)}
<1>1. /\ DOMAIN b.granted = 1..L /\ L \in Nat
      /\ DOMAIN b.pending = 1..Len(b.pending) /\ Len(b.pending) \in Nat
      /\ n \in 0..Len(b.pending) /\ n \in Nat
  BY LenProperties, RegrantCountFacts DEF Sound, BlockType
<1>2. /\ Sound(c) /\ DOMAIN c.granted = 1..(L + n)
      /\ \A i \in 1..L : mode(i) = b.granted[i].mode
      /\ \A i \in 1..n : mode(L + i) = b.pending[i].mode
  <2>1. \A i \in 1..n : c.granted[L + i] = [owner |-> b.pending[i].owner,
                                           mode |-> b.pending[i].mode]
    BY RegrantFacts
  <2>2. /\ Sound(c) /\ DOMAIN c.granted = 1..(L + n)
        /\ \A i \in 1..L : c.granted[i] = b.granted[i]
    BY RegrantFacts
  <2>. HIDE DEF c, n
  <2>3. \A i \in 1..L : mode(i) = b.granted[i].mode
    BY <2>2
  <2>4. ASSUME NEW i \in 1..n PROVE mode(L + i) = b.pending[i].mode
    <3>1. c.granted[L + i] = [owner |-> b.pending[i].owner, mode |-> b.pending[i].mode]
      BY <2>1
    <3>. QED
      BY <3>1
  <2>. HIDE DEF mode
  <2>. QED
    BY <2>2, <2>3, <2>4
<1>3. \A x \in 1..(L + n) : mode(x) \in Mode
  BY <1>2, GrantModes DEF Sound
<1>. HIDE DEF c, n, mode
<1>4. Bad = {}
  <2>. SUFFICES ASSUME Bad # {} PROVE FALSE
    OBVIOUS
  <2>1. Bad \in SUBSET Nat
    BY <1>1
  <2>2. PICK x \in Bad : \A y \in Bad : x <= y
    <3>. HIDE DEF Bad
    <3>. QED
      BY <2>1, LeastNatural
  <2>3. x \in 1..(L + n) /\ ~Good(x)
    BY <2>2
  <2>4. \A y \in 1..(x - 1) : Good(y)
    <3>. SUFFICES ASSUME NEW y \in 1..(x - 1) PROVE Good(y)
      OBVIOUS
    <3>1. y \in 1..(L + n) /\ ~(x <= y)
      BY <1>1, <2>3
    <3>. HIDE DEF Good
    <3>. QED
      BY <2>2, <3>1
  <2>5. \A i, j \in 1..(x - 1) : i # j => Compatible(mode(i), mode(j))
    <3>. SUFFICES ASSUME NEW i \in 1..(x - 1), NEW j \in 1..(x - 1), i # j
                  PROVE  Compatible(mode(i), mode(j))
      OBVIOUS
    <3>1. i \in 1..(L + n) /\ j \in 1..(L + n) /\ (i < j \/ j < i)
      BY <1>1, <2>3
    <3>2. CASE i < j
      BY <1>3, <2>4, <3>1, <3>2, CompatibleIsSymmetric
    <3>3. CASE j < i
      BY <1>3, <2>4, <3>1, <3>3, CompatibleIsSymmetric
    <3>. QED
      BY <3>1, <3>2, <3>3
  <2>6. PICK i \in 1..(x - 1) : ~Compatible(mode(x), mode(i))
    BY <2>3
  <2>7. i \in 1..(L + n) /\ i < x
    BY <1>1, <2>3
  <2>8. CASE x <= L
    <3>1. x \in 1..L /\ i \in 1..L /\ x # i
      BY <1>1, <2>3, <2>7, <2>8
    <3>2. Compatible(b.granted[x].mode, b.granted[i].mode)
      BY <1>1, <3>1 DEF MutuallyCompatible
    <3>. QED
      BY <1>2, <2>6, <3>1, <3>2
  <2>9. CASE x > L
    <3>. DEFINE k == x - L
                h == AheadState(b, k)
    <3>1. k \in 1..n /\ x = L + k /\ k \in 1..Len(b.pending)
      BY <1>1, <2>3, <2>9
    <3>2. mode(x) = b.pending[k].mode
      BY <1>2, <3>1
    <3>3. Compatible(mode(x), h)
      BY <3>1, <3>2, RegrantCountFacts DEF n
    <3>4. /\ h \in Mode /\ State(b) <= h
          /\ \A j \in 1..(k - 1) : b.pending[j].mode <= h
          /\ \/ h = State(b)
             \/ \E j \in 1..(k - 1) : h = b.pending[j].mode
      BY <3>1, AheadFacts
    <3>. HIDE DEF h
    <3>5. \A j \in 1..(k - 1) : L + j \in 1..(x - 1) /\ mode(L + j) = b.pending[j].mode
      <4>1. ASSUME NEW j \in 1..(k - 1) PROVE L + j \in 1..(x - 1) /\ j \in 1..n
        BY <1>1, <2>3, <3>1
      <4>. HIDE DEF k
      <4>. QED
        BY <1>2, <4>1
    <3>6. \A j \in 1..L : j \in 1..(x - 1) /\ mode(j) <= State(b)
      <4>1. ASSUME NEW j \in 1..L PROVE j \in 1..(x - 1)
        BY <1>1, <2>3, <2>9
      <4>. QED
        BY <1>1, <1>2, <4>1, StateIsHighest
    <3>7. mode(i) <= h
      <4>1. CASE i <= L
        <5>1. i \in 1..L /\ mode(i) \in Mode /\ State(b) \in Mode
          BY <1>1, <1>3, <2>7, <4>1, StateIsHighest
        <5>2. mode(i) <= State(b)
          BY <3>6, <5>1
        <5>. QED
          BY <3>4, <5>1, <5>2, ModeNumbers
      <4>2. CASE i > L
        <5>1. i - L \in 1..(k - 1) /\ L + (i - L) = i
          BY <1>1, <2>7, <3>1, <4>2
        <5>. HIDE DEF k
        <5>2. mode(i) = b.pending[i - L].mode
          BY <3>5, <5>1
        <5>. QED
          BY <3>4, <5>1, <5>2
      <4>. QED
        BY <1>1, <2>7, <4>1, <4>2
    <3>8. h # None_ => \E j \in 1..(x - 1) : mode(j) = h
      <4>. HIDE DEF k
      <4>1. CASE h = State(b) /\ h # None_
        <5>1. PICK j \in DOMAIN b.granted : b.granted[j].mode = State(b)
          BY <4>1, StateIsHighest
        <5>. QED
          BY <1>1, <1>2, <3>6, <4>1, <5>1
      <4>2. CASE \E j \in 1..(k - 1) : h = b.pending[j].mode
        BY <3>5, <4>2
      <4>. QED
        BY <3>4, <4>1, <4>2
    <3>. HIDE DEF k
    <3>9. CASE mode(i) = h
      BY <2>6, <3>3, <3>9
    <3>10. CASE mode(i) # h
      <4>1. mode(i) \in Mode /\ mode(x) \in Mode
        BY <1>3, <2>3, <2>7
      <4>2. h # None_
        BY <3>4, <3>7, <3>10, <4>1, ModeNumbers DEF None_
      <4>3. PICK j \in 1..(x - 1) : mode(j) = h
        BY <3>8, <4>2
      <4>4. Compatible(mode(i), h)
        BY <2>5, <3>10, <4>3
      <4>5. Compatible(mode(x), mode(i))
        BY <3>3, <3>4, <3>7, <4>1, <4>4, AggregateIsSound
      <4>. QED
        BY <2>6, <4>5
    <3>. QED
      BY <3>9, <3>10
  <2>. QED
    BY <1>1, <2>3, <2>8, <2>9
<1>5. ASSUME NEW i \in 1..(L + n), NEW j \in 1..(L + n), i # j
      PROVE  Compatible(mode(i), mode(j))
  <2>1. Good(i) /\ Good(j)
    BY <1>4
  <2>2. CASE i < j
    <3>1. i \in 1..(j - 1)
      BY <1>1, <2>2
    <3>. QED
      BY <1>3, <2>1, <3>1, CompatibleIsSymmetric
  <2>3. CASE j < i
    <3>1. j \in 1..(i - 1)
      BY <1>1, <2>3
    <3>. QED
      BY <2>1, <3>1
  <2>. QED
    BY <1>1, <1>5, <2>2, <2>3
<1>. QED
  BY <1>2, <1>5 DEF MutuallyCompatible, c, mode

(* Some waits come down: nothing else of the block changes. *)
LEMMA CutQueueFacts ==
    ASSUME NEW b, Sound(b), NEW K \in SUBSET DOMAIN b.pending
    PROVE  LET c == [b EXCEPT !.pending = AtPositions(@, K)]
           IN  /\ Sound(c)
               /\ c.granted = b.granted /\ c.data = b.data /\ c.counts = b.counts
               /\ Sublist(c.pending, b.pending)
               /\ b.pending = <<>> => c.pending = <<>>
<1>. DEFINE p == AtPositions(b.pending, K)
            c == [b EXCEPT !.pending = p]
            N == Cardinality(K)
<1>1. BlockType(b) /\ b.pending \in Seq(Waiter)
  BY DEF Sound, BlockType
<1>2. /\ p \in Seq(Waiter) /\ Len(p) = N /\ N \in Nat
      /\ \E f \in [1..N -> K] :
            /\ \A m, n \in 1..N : m < n => f[m] < f[n]
            /\ \A n \in 1..N : p[n] = b.pending[f[n]]
  BY <1>1, AtPositionsFacts
<1>3. DOMAIN p = 1..N
  BY <1>2, LenProperties
<1>. HIDE DEF p, N
<1>4. Sublist(p, b.pending)
  <2>1. PICK f \in [1..N -> K] :
            /\ \A m, n \in 1..N : m < n => f[m] < f[n]
            /\ \A n \in 1..N : p[n] = b.pending[f[n]]
    BY <1>2
  <2>2. f \in [DOMAIN p -> DOMAIN b.pending]
    BY <1>3
  <2>. QED
    BY <1>3, <2>1, <2>2 DEF Sublist
<1>5. b.pending = <<>> => p = <<>>
  <2>. SUFFICES ASSUME b.pending = <<>> PROVE p = <<>>
    OBVIOUS
  <2>1. K = {}
    OBVIOUS
  <2>2. N = 0
    BY <2>1, FS_EmptySet DEF N
  <2>. QED
    BY <1>2, <2>2, EmptySeq
<1>6. /\ c.granted = b.granted /\ c.data = b.data /\ c.counts = b.counts /\ c.pending = p
      /\ BlockType(c)
  BY <1>1, <1>2 DEF BlockType
<1>. HIDE DEF c
<1>7. Sound(c)
  BY <1>6 DEF Sound, CountsMatch
<1>. QED
  BY <1>4, <1>5, <1>6, <1>7 DEF c, p

LEMMA EmptyBlockIsSound ==
    /\ Sound(EmptyBlock) /\ MutuallyCompatible(EmptyBlock) /\ OneEachOn(EmptyBlock)
    /\ EmptyBlock.granted = <<>> /\ EmptyBlock.pending = <<>> /\ EmptyBlock.data = 0
<1>1. /\ EmptyBlock.granted = <<>> /\ EmptyBlock.pending = <<>> /\ EmptyBlock.data = 0
      /\ EmptyBlock.counts = [m \in Mode |-> 0]
      /\ BlockType(EmptyBlock)
  BY DEF EmptyBlock, BlockType
<1>2. DOMAIN EmptyBlock.granted = {} /\ DOMAIN EmptyBlock.pending = {}
  BY <1>1
<1>3. CountsMatch(EmptyBlock)
  <2>. SUFFICES ASSUME NEW m \in Mode
                PROVE  EmptyBlock.counts[m] = Cardinality(ModeAt(EmptyBlock, m))
    BY DEF CountsMatch, ModeAt
  <2>1. ModeAt(EmptyBlock, m) = {}
    BY <1>2 DEF ModeAt
  <2>. QED
    BY <1>1, <2>1, FS_EmptySet
<1>. QED
  BY <1>1, <1>2, <1>3 DEF Sound, MutuallyCompatible, OneEachOn

-------------------------------------------------------------------------------
(* The inductive invariant of Spec, for one block: whoever is parked waits *)
(* behind a holder, whose release runs the sweep; a block without holders  *)
(* is an empty one.                                                        *)
Held(b) ==
    /\ b.pending # <<>> => b.granted # <<>>
    /\ b.granted = <<>> => b.data = 0
BlockOK(b) == Sound(b) /\ Held(b)

LEMMA EmptyBlockOK == BlockOK(EmptyBlock)
BY EmptyBlockIsSound DEF BlockOK, Held

(* A block with a holder needs no more. *)
LEMMA HolderSuffices ==
    ASSUME NEW c, Sound(c), NEW i \in DOMAIN c.granted
    PROVE  BlockOK(c)
<1>1. c.granted # <<>>
  OBVIOUS
<1>. QED
  BY <1>1 DEF BlockOK, Held

LEMMA AddGrantOK ==
    ASSUME NEW b, BlockOK(b), NEW o \in Owners, NEW m \in Mode
    PROVE  BlockOK(AddGrant(b, o, m))
<1>. DEFINE c == AddGrant(b, o, m)
<1>1. Sound(b)
  BY DEF BlockOK
<1>2. Sound(c) /\ Len(c.granted) = Len(b.granted) + 1
  BY <1>1, AddGrantFacts
<1>. HIDE DEF c
<1>3. DOMAIN c.granted = 1..Len(c.granted) /\ Len(b.granted) \in Nat
  BY <1>1, <1>2, LenProperties DEF Sound, BlockType
<1>4. 1 \in DOMAIN c.granted
  BY <1>2, <1>3
<1>. QED
  BY <1>2, <1>4, HolderSuffices DEF c

(* A request is parked only behind a holder: what refuses it is a granted  *)
(* mode, or a queue that itself stands behind one.                         *)
LEMMA RefusedHasHolder ==
    ASSUME NEW b, BlockOK(b), NEW m \in Mode, ~Admits(b, m)
    PROVE  b.granted # <<>>
<1>1. Sound(b) /\ Held(b)
  BY DEF BlockOK
<1>2. CASE BlockedByQueue(b, m)
  <2>1. b.pending # <<>>
    BY <1>2 DEF BlockedByQueue
  <2>. QED
    BY <1>1, <2>1 DEF Held
<1>3. CASE ~Compatible(m, State(b))
  <2>1. State(b) # None_
    BY <1>3, CompatibleTable, ModeNumbers DEF None_
  <2>2. \E i \in DOMAIN b.granted : b.granted[i].mode = State(b)
    BY <1>1, <2>1, StateIsHighest
  <2>. QED
    BY <2>2
<1>. QED
  BY <1>2, <1>3 DEF Admits

LEMMA ParkOK ==
    ASSUME NEW b, BlockOK(b), NEW o \in Owners, NEW m \in Mode,
           NEW d \in Nat \cup {NoDeadline}, b.granted # <<>>
    PROVE  BlockOK(Park(b, o, m, d))
<1>1. Sound(Park(b, o, m, d)) /\ Park(b, o, m, d).granted = b.granted
  BY ParkFacts DEF BlockOK
<1>. QED
  BY <1>1 DEF BlockOK, Held

LEMMA ChangeGrantOK ==
    ASSUME NEW b, BlockOK(b), NEW o \in Owners, HoldsOn(b, o), NEW m \in Mode
    PROVE  BlockOK(ChangeGrant(b, o, m))
<1>1. /\ Sound(ChangeGrant(b, o, m))
      /\ DOMAIN ChangeGrant(b, o, m).granted = DOMAIN b.granted
  BY ChangeGrantFacts DEF BlockOK
<1>2. PICK i \in DOMAIN b.granted : TRUE
  BY DEF HoldsOn
<1>. QED
  BY <1>1, <1>2, HolderSuffices

(* The release path: whatever came down, the sweep leaves no queue on a    *)
(* lock without holders, and a block without anybody is removed.           *)
LEMMA SweepOK ==
    ASSUME NEW b, Sound(b)
    PROVE  BlockOK(Reap(Regrant(b)))
<1>. DEFINE c == Regrant(b)
            n == RegrantCount(b)
<1>1. /\ Sound(c) /\ DOMAIN c.granted = 1..(Len(b.granted) + n)
      /\ Len(c.pending) = Len(b.pending) - n
  BY RegrantFacts
<1>2. /\ n \in 0..Len(b.pending)
      /\ n < Len(b.pending) => ~Compatible(b.pending[n + 1].mode, AheadState(b, n + 1))
  BY RegrantCountFacts
<1>3. Len(b.granted) \in Nat /\ Len(b.pending) \in Nat /\ DOMAIN b.granted = 1..Len(b.granted)
  BY LenProperties DEF Sound, BlockType
<1>. HIDE DEF c, n
<1>4. CASE c.granted # <<>>
  <2>1. Reap(c) = c
    BY <1>4 DEF Reap
  <2>. QED
    BY <1>1, <1>4, <2>1 DEF BlockOK, Held, c
<1>5. CASE c.granted = <<>>
  <2>1. n = 0 /\ Len(b.granted) = 0
    <3>1. 1 \notin 1..(Len(b.granted) + n)
      BY <1>1, <1>5
    <3>2. n \in Nat /\ Len(b.granted) \in Nat
      BY <1>2, <1>3
    <3>. QED
      BY <3>1, <3>2
  <2>2. State(b) = None_
    BY <1>3, <2>1, StateIsHighest
  <2>3. Len(b.pending) = 0
    <3>. SUFFICES ASSUME Len(b.pending) # 0 PROVE FALSE
      OBVIOUS
    <3>1. 1 \in 1..Len(b.pending) /\ n < Len(b.pending) /\ n + 1 = 1
      BY <1>3, <2>1
    <3>2. AheadState(b, 1) = None_
      BY <2>2, <3>1, AheadFacts
    <3>3. 1 \in DOMAIN b.pending
      BY <3>1, LenProperties DEF Sound, BlockType
    <3>4. b.pending[1].mode \in Mode
      BY <3>3, WaiterModes DEF Sound
    <3>5. Compatible(b.pending[1].mode, AheadState(b, 1))
      BY <3>2, <3>4, CompatibleTable, ModeNumbers DEF None_
    <3>. QED
      BY <1>2, <3>1, <3>5
  <2>4. c.pending = <<>>
    BY <1>1, <2>1, <2>3, EmptySeq DEF Sound, BlockType
  <2>5. Reap(c) = EmptyBlock
    BY <1>5, <2>4 DEF Reap
  <2>. QED
    BY <2>5, EmptyBlockOK DEF c
<1>. QED
  BY <1>4, <1>5

LEMMA DequeueOK ==
    ASSUME NEW b, Sound(b), NEW o
    PROVE  BlockOK(DequeueBlock(b, o))
BY DropGrantFacts, SweepOK DEF DequeueBlock

LEMMA ExpireOK ==
    ASSUME NEW b, BlockOK(b), NEW now
    PROVE  BlockOK(ExpireBlock(b, now))
<1>. DEFINE K == DOMAIN b.pending \ Overdue(b, now)
            c == [b EXCEPT !.pending = AtPositions(@, K)]
<1>1. /\ Sound(c) /\ c.granted = b.granted /\ c.data = b.data
      /\ b.pending = <<>> => c.pending = <<>>
  BY CutQueueFacts DEF BlockOK
<1>2. ExpireBlock(b, now) = c
  BY DEF ExpireBlock
<1>. HIDE DEF c
<1>. QED
  BY <1>1, <1>2 DEF BlockOK, Held

LEMMA PurgeOK ==
    ASSUME NEW b, BlockOK(b), NEW o
    PROVE  BlockOK(PurgeBlock(b, o))
<1>. DEFINE mine == {i \in DOMAIN b.pending : b.pending[i].owner = o}
            rest == [b EXCEPT !.pending = AtPositions(@, DOMAIN b.pending \ mine)]
<1>1. /\ Sound(rest) /\ rest.granted = b.granted /\ rest.data = b.data
      /\ b.pending = <<>> => rest.pending = <<>>
  BY CutQueueFacts DEF BlockOK
<1>2. PurgeBlock(b, o) = IF HoldsOn(rest, o) THEN DequeueBlock(rest, o) ELSE Reap(rest)
  BY DEF PurgeBlock
<1>. HIDE DEF rest
<1>3. BlockOK(rest)
  BY <1>1 DEF BlockOK, Held
<1>4. BlockOK(Reap(rest))
  BY <1>3, EmptyBlockOK DEF Reap
<1>. QED
  BY <1>1, <1>2, <1>4, DequeueOK

LEMMA KnocksType ==
    ASSUME NEW k \in [Owners -> [Locks -> Mode \cup {NoKnock}]], NEW t,
           NEW o, NEW l, NEW m \in Mode, NEW v, NEW d
    PROVE  KnocksAfter(k, t, o, l, m, v, d) \in [Owners -> [Locks -> Mode \cup {NoKnock}]]
<1>1. ASSUME NEW u
      PROVE  PostKnocks(k, u, o, l, m) \in [Owners -> [Locks -> Mode \cup {NoKnock}]]
  BY DEF PostKnocks
<1>. QED
  BY <1>1 DEF KnocksAfter

LEMMA EnqueueOK ==
    ASSUME NEW t, DOMAIN t = Locks, \A k \in Locks : BlockOK(t[k]),
           NEW o \in Owners, NEW l \in Locks, NEW m \in Mode, NEW wait \in BOOLEAN,
           NEW d \in Nat \cup {NoDeadline}
    PROVE  LET u == AfterEnqueue(t, o, l, m, EnqueueVerdict(t, o, l, m, wait, d), d)
           IN  DOMAIN u = Locks /\ \A k \in Locks : BlockOK(u[k])
<1>. DEFINE v == EnqueueVerdict(t, o, l, m, wait, d)
            u == AfterEnqueue(t, o, l, m, v, d)
<1>0. BlockOK(t[l])
  OBVIOUS
<1>1. CASE v = "Granted"
  <2>1. u = [t EXCEPT ![l] = AddGrant(t[l], o, m)]
    BY <1>1 DEF AfterEnqueue
  <2>2. BlockOK(AddGrant(t[l], o, m))
    BY <1>0, AddGrantOK
  <2>. HIDE DEF u
  <2>. QED
    BY <2>1, <2>2 DEF u
<1>2. CASE v = "Waiting"
  <2>1. ~Admits(t[l], m)
    BY <1>2 DEF EnqueueVerdict
  <2>2. u = [t EXCEPT ![l] = Park(t[l], o, m, d)]
    BY <1>2 DEF AfterEnqueue
  <2>3. BlockOK(Park(t[l], o, m, d))
    BY <1>0, <2>1, RefusedHasHolder, ParkOK
  <2>. HIDE DEF u
  <2>. QED
    BY <2>2, <2>3 DEF u
<1>3. CASE v \notin {"Granted", "Waiting"}
  <2>1. u = t
    BY <1>3 DEF AfterEnqueue
  <2>. QED
    BY <2>1
<1>. QED
  BY <1>1, <1>2, <1>3

LEMMA ConvertOK ==
    ASSUME NEW t, DOMAIN t = Locks, \A k \in Locks : BlockOK(t[k]),
           NEW o \in Owners, NEW l \in Locks, NEW m \in Mode, NEW wait \in BOOLEAN
    PROVE  LET u == AfterConvert(t, o, l, m, ConvertVerdict(t, o, l, m, wait))
           IN  DOMAIN u = Locks /\ \A k \in Locks : BlockOK(u[k])
<1>. DEFINE v == ConvertVerdict(t, o, l, m, wait)
            u == AfterConvert(t, o, l, m, v)
<1>0. BlockOK(t[l])
  OBVIOUS
<1>1. CASE v = "Granted"
  <2>0. HoldsOn(t[l], o)
    BY <1>1 DEF ConvertVerdict
  <2>1. u = [t EXCEPT ![l] = ChangeGrant(t[l], o, m)]
    BY <1>1 DEF AfterConvert
  <2>2. BlockOK(ChangeGrant(t[l], o, m))
    BY <1>0, <2>0, ChangeGrantOK
  <2>. HIDE DEF u
  <2>. QED
    BY <2>1, <2>2 DEF u
<1>2. CASE v = "Waiting"
  <2>1. HoldsOn(t[l], o)
    BY <1>2 DEF ConvertVerdict
  <2>2. t[l].granted # <<>>
    BY <2>1 DEF HoldsOn
  <2>3. u = [t EXCEPT ![l] = Park(t[l], o, m, NoDeadline)]
    BY <1>2 DEF AfterConvert
  <2>4. BlockOK(Park(t[l], o, m, NoDeadline))
    BY <1>0, <2>2, ParkOK
  <2>. HIDE DEF u
  <2>. QED
    BY <2>3, <2>4 DEF u
<1>3. CASE v \notin {"Granted", "Waiting"}
  <2>1. u = t
    BY <1>3 DEF AfterConvert
  <2>. QED
    BY <2>1
<1>. QED
  BY <1>1, <1>2, <1>3

-------------------------------------------------------------------------------
(* One block whose granted modes are mutually compatible and where an      *)
(* owner has at most one request.                                          *)
Orderly(b) == Sound(b) /\ MutuallyCompatible(b) /\ OneEachOn(b)

LEMMA BlockDomains ==
    ASSUME NEW b, BlockType(b)
    PROVE  /\ DOMAIN b.granted = 1..Len(b.granted) /\ Len(b.granted) \in Nat
           /\ DOMAIN b.pending = 1..Len(b.pending) /\ Len(b.pending) \in Nat
BY LenProperties DEF BlockType

LEMMA SublistIsInjective ==
    ASSUME NEW s, NEW r, Sublist(s, r), DOMAIN s \subseteq Nat, DOMAIN r \subseteq Nat
    PROVE  \E f \in [DOMAIN s -> DOMAIN r] :
              /\ \A i, j \in DOMAIN s : i # j => f[i] # f[j]
              /\ \A i \in DOMAIN s : s[i] = r[f[i]]
<1>1. PICK f \in [DOMAIN s -> DOMAIN r] :
          /\ \A i, j \in DOMAIN s : i < j => f[i] < f[j]
          /\ \A i \in DOMAIN s : s[i] = r[f[i]]
  BY DEF Sublist
<1>2. ASSUME NEW i \in DOMAIN s, NEW j \in DOMAIN s, i # j PROVE f[i] # f[j]
  <2>1. i \in Nat /\ j \in Nat /\ f[i] \in Nat /\ f[j] \in Nat
    OBVIOUS
  <2>2. CASE i < j
    BY <1>1, <2>1, <2>2
  <2>3. CASE j < i
    BY <1>1, <2>1, <2>3
  <2>. QED
    BY <1>2, <2>1, <2>2, <2>3
<1>. QED
  BY <1>1, <1>2

(* Taking requests away keeps a block orderly. *)
LEMMA SublistOrderly ==
    ASSUME NEW b, Orderly(b), NEW c, Sound(c),
           Sublist(c.granted, b.granted), Sublist(c.pending, b.pending)
    PROVE  Orderly(c)
<1>1. BlockType(b) /\ BlockType(c) /\ MutuallyCompatible(b) /\ OneEachOn(b)
  BY DEF Orderly, Sound
<1>2. /\ DOMAIN b.granted \subseteq Nat /\ DOMAIN c.granted \subseteq Nat
      /\ DOMAIN b.pending \subseteq Nat /\ DOMAIN c.pending \subseteq Nat
  <2>1. \A n \in Nat : 1..n \subseteq Nat
    OBVIOUS
  <2>. QED
    BY <1>1, <2>1, BlockDomains
<1>3. PICK f \in [DOMAIN c.granted -> DOMAIN b.granted] :
          /\ \A i, j \in DOMAIN c.granted : i # j => f[i] # f[j]
          /\ \A i \in DOMAIN c.granted : c.granted[i] = b.granted[f[i]]
  BY <1>2, SublistIsInjective
<1>4. PICK h \in [DOMAIN c.pending -> DOMAIN b.pending] :
          /\ \A i, j \in DOMAIN c.pending : i # j => h[i] # h[j]
          /\ \A i \in DOMAIN c.pending : c.pending[i] = b.pending[h[i]]
  BY <1>2, SublistIsInjective
<1>5. MutuallyCompatible(c)
  BY <1>1, <1>3 DEF MutuallyCompatible
<1>6. OneEachOn(c)
  BY <1>1, <1>3, <1>4 DEF OneEachOn
<1>. QED
  BY <1>5, <1>6 DEF Orderly

LEMMA SublistReflexive ==
    ASSUME NEW s
    PROVE  Sublist(s, s)
<1>. DEFINE f == [i \in DOMAIN s |-> i]
<1>1. f \in [DOMAIN s -> DOMAIN s] /\ \A i \in DOMAIN s : f[i] = i
  OBVIOUS
<1>. HIDE DEF f
<1>. QED
  BY <1>1 DEF Sublist

LEMMA AddGrantOrderly ==
    ASSUME NEW b, Orderly(b), NEW o \in Owners, NEW m \in Mode,
           Admits(b, m), ~HoldsOn(b, o), ~ParkedOn(b, o)
    PROVE  Orderly(AddGrant(b, o, m))
<1>. DEFINE c == AddGrant(b, o, m)
            L == Len(b.granted)
            g == [owner |-> o, mode |-> m]
<1>1. Sound(b) /\ BlockType(b) /\ MutuallyCompatible(b) /\ OneEachOn(b)
  BY DEF Orderly, Sound
<1>2. /\ Sound(c) /\ c.pending = b.pending
      /\ Len(c.granted) = L + 1
      /\ \A i \in DOMAIN b.granted : c.granted[i] = b.granted[i]
      /\ c.granted[L + 1] = g
  BY <1>1, AddGrantFacts
<1>3. DOMAIN b.granted = 1..L /\ L \in Nat
  BY <1>1, BlockDomains
<1>. HIDE DEF c
<1>4. DOMAIN c.granted = DOMAIN b.granted \cup {L + 1} /\ L + 1 \notin DOMAIN b.granted
  <2>1. DOMAIN c.granted = 1..(L + 1)
    BY <1>2, BlockDomains DEF Sound
  <2>. HIDE DEF L
  <2>. QED
    BY <1>3, <2>1
<1>5. g.owner = o /\ g.mode = m
  OBVIOUS
<1>. HIDE DEF g, L
<1>6. \A i \in DOMAIN b.granted : Compatible(m, b.granted[i].mode) /\ Compatible(b.granted[i].mode, m)
  BY <1>1, ProbeIsSound, GrantModes, CompatibleIsSymmetric DEF Admits
<1>7. MutuallyCompatible(c)
  BY <1>1, <1>2, <1>4, <1>5, <1>6 DEF MutuallyCompatible
<1>8. OneEachOn(c)
  BY <1>1, <1>2, <1>4, <1>5 DEF OneEachOn, HoldsOn, ParkedOn
<1>. QED
  BY <1>2, <1>7, <1>8 DEF Orderly, c

LEMMA ParkOrderly ==
    ASSUME NEW b, Orderly(b), NEW o \in Owners, NEW m \in Mode,
           NEW d \in Nat \cup {NoDeadline}, ~HoldsOn(b, o), ~ParkedOn(b, o)
    PROVE  Orderly(Park(b, o, m, d))
<1>. DEFINE c == Park(b, o, m, d)
            L == Len(b.pending)
            w == [owner |-> o, mode |-> m, deadline |-> d]
<1>1. Sound(b) /\ BlockType(b) /\ MutuallyCompatible(b) /\ OneEachOn(b)
  BY DEF Orderly, Sound
<1>2. /\ Sound(c) /\ c.granted = b.granted
      /\ Len(c.pending) = L + 1
      /\ \A i \in DOMAIN b.pending : c.pending[i] = b.pending[i]
      /\ c.pending[L + 1] = w
  BY <1>1, ParkFacts
<1>3. DOMAIN b.pending = 1..L /\ L \in Nat
  BY <1>1, BlockDomains
<1>. HIDE DEF c
<1>4. DOMAIN c.pending = DOMAIN b.pending \cup {L + 1} /\ L + 1 \notin DOMAIN b.pending
  <2>1. DOMAIN c.pending = 1..(L + 1)
    BY <1>2, BlockDomains DEF Sound
  <2>. HIDE DEF L
  <2>. QED
    BY <1>3, <2>1
<1>5. w.owner = o
  OBVIOUS
<1>. HIDE DEF w, L
<1>6. MutuallyCompatible(c)
  BY <1>1, <1>2 DEF MutuallyCompatible
<1>7. OneEachOn(c)
  BY <1>1, <1>2, <1>4, <1>5 DEF OneEachOn, HoldsOn, ParkedOn
<1>. QED
  BY <1>2, <1>6, <1>7 DEF Orderly, c

(* Converting in place: with one grant per owner the aggregate that leaves *)
(* the owner out is the highest mode of the others.                        *)
LEMMA ExcludingIsHighest ==
    ASSUME NEW b, Orderly(b), NEW o, HoldsOn(b, o)
    PROVE  LET h == StateExcluding(b, o)
               Other == {j \in DOMAIN b.granted : j # FirstGrant(b, o)}
           IN  /\ h \in Mode
               /\ h # None_ => \E j \in Other : b.granted[j].mode = h
               /\ \A j \in Other : b.granted[j].mode <= h
<1>. DEFINE i == FirstGrant(b, o)
            Other == {j \in DOMAIN b.granted : j # i}
            mine(m) == {j \in DOMAIN b.granted :
                           b.granted[j].owner = o /\ b.granted[j].mode = m}
            held == {m \in Mode : b.counts[m] > Cardinality(mine(m))} \cup {None_}
<1>1. Sound(b) /\ BlockType(b) /\ OneEachOn(b)
  BY DEF Orderly, Sound
<1>2. i \in DOMAIN b.granted /\ b.granted[i].owner = o
  BY <1>1, FirstGrantFacts
<1>3. \A j \in DOMAIN b.granted : b.granted[j].owner = o <=> j = i
  BY <1>1, <1>2 DEF OneEachOn
<1>. HIDE DEF i
<1>4. ASSUME NEW m \in Mode
      PROVE  b.counts[m] > Cardinality(mine(m)) <=> \E j \in Other : b.granted[j].mode = m
  <2>1. b.counts[m] = Cardinality(ModeAt(b, m))
    BY <1>1 DEF Sound, CountsMatch, ModeAt
  <2>2. IsFiniteSet(ModeAt(b, m)) /\ Cardinality(ModeAt(b, m)) \in Nat
    BY <1>1, ModeAtFinite
  <2>3. mine(m) \in SUBSET ModeAt(b, m)
    BY DEF ModeAt
  <2>4. /\ Cardinality(mine(m)) \in Nat
        /\ Cardinality(mine(m)) <= Cardinality(ModeAt(b, m))
        /\ Cardinality(mine(m)) = Cardinality(ModeAt(b, m)) <=> mine(m) = ModeAt(b, m)
    <3>. HIDE DEF mine
    <3>1. /\ IsFiniteSet(mine(m))
          /\ Cardinality(mine(m)) <= Cardinality(ModeAt(b, m))
          /\ Cardinality(mine(m)) = Cardinality(ModeAt(b, m)) => mine(m) = ModeAt(b, m)
      BY <2>2, <2>3, FS_Subset
    <3>. QED
      BY <3>1, FS_CardinalityType
  <2>5. mine(m) # ModeAt(b, m) <=> \E j \in Other : b.granted[j].mode = m
    BY <1>3 DEF ModeAt
  <2>. HIDE DEF mine, Other
  <2>. QED
    BY <2>1, <2>2, <2>4, <2>5
<1>5. held \in SUBSET Mode /\ held # {}
  BY ModeNumbers DEF None_
<1>6. StateExcluding(b, o) = Highest(held)
  BY DEF StateExcluding
<1>7. \A j \in DOMAIN b.granted : b.granted[j].mode \in Mode
  BY <1>1, GrantModes
<1>. HIDE DEF mine
<1>8. Highest(held) \in held /\ \A n \in held : n <= Highest(held)
  <2>. HIDE DEF held
  <2>. QED
    BY <1>5, HighestIsMaximum
<1>. QED
  BY <1>4, <1>5, <1>6, <1>7, <1>8 DEF i

LEMMA ChangeGrantOrderly ==
    ASSUME NEW b, Orderly(b), NEW o \in Owners, NEW m \in Mode,
           HoldsOn(b, o), Compatible(m, StateExcluding(b, o))
    PROVE  Orderly(ChangeGrant(b, o, m))
<1>. DEFINE c == ChangeGrant(b, o, m)
            i == FirstGrant(b, o)
            h == StateExcluding(b, o)
<1>1. Sound(b) /\ BlockType(b) /\ MutuallyCompatible(b) /\ OneEachOn(b)
  BY DEF Orderly, Sound
<1>2. /\ Sound(c) /\ c.pending = b.pending /\ DOMAIN c.granted = DOMAIN b.granted
      /\ \A j \in DOMAIN b.granted :
            /\ c.granted[j].owner = b.granted[j].owner
            /\ c.granted[j].mode = IF j = i THEN m ELSE b.granted[j].mode
  BY <1>1, ChangeGrantFacts
<1>3. /\ h \in Mode
      /\ h # None_ => \E j \in DOMAIN b.granted : j # i /\ b.granted[j].mode = h
      /\ \A j \in DOMAIN b.granted : j # i => b.granted[j].mode <= h
  BY ExcludingIsHighest
<1>. HIDE DEF c, i, h
<1>4. ASSUME NEW j \in DOMAIN b.granted, j # i
      PROVE  Compatible(m, b.granted[j].mode) /\ Compatible(b.granted[j].mode, m)
  <2>1. b.granted[j].mode \in Mode /\ b.granted[j].mode <= h
    BY <1>1, <1>3, <1>4, GrantModes
  <2>2. Compatible(m, h)
    BY DEF h
  <2>3. CASE b.granted[j].mode = h
    BY <2>1, <2>2, <2>3, CompatibleIsSymmetric
  <2>4. CASE b.granted[j].mode # h
    <3>1. h # None_
      BY <1>3, <2>1, <2>4, ModeNumbers DEF None_
    <3>2. PICK k \in DOMAIN b.granted : k # i /\ b.granted[k].mode = h
      BY <1>3, <3>1
    <3>3. Compatible(b.granted[j].mode, h)
      BY <1>1, <2>4, <3>2 DEF MutuallyCompatible
    <3>4. Compatible(m, b.granted[j].mode)
      BY <1>3, <2>1, <2>2, <3>3, AggregateIsSound
    <3>. QED
      BY <2>1, <3>4, CompatibleIsSymmetric
  <2>. QED
    BY <2>3, <2>4
<1>5. MutuallyCompatible(c)
  BY <1>1, <1>2, <1>4 DEF MutuallyCompatible
<1>6. OneEachOn(c)
  BY <1>1, <1>2 DEF OneEachOn
<1>. QED
  BY <1>2, <1>5, <1>6 DEF Orderly, c

(* A sweep moves waits from the queue to the grants. *)
LEMMA RegrantOrderly ==
    ASSUME NEW b, Orderly(b)
    PROVE  Orderly(Regrant(b))
<1>. DEFINE c == Regrant(b)
            n == RegrantCount(b)
            L == Len(b.granted)
            M == Len(b.pending)
<1>1. Sound(b) /\ BlockType(b) /\ MutuallyCompatible(b) /\ OneEachOn(b)
  BY DEF Orderly, Sound
<1>2. /\ Sound(c) /\ DOMAIN c.granted = 1..(L + n)
      /\ \A i \in 1..L : c.granted[i] = b.granted[i]
      /\ \A i \in 1..n :
            c.granted[L + i] = [owner |-> b.pending[i].owner, mode |-> b.pending[i].mode]
      /\ DOMAIN c.pending = 1..(M - n)
      /\ \A i \in 1..(M - n) : c.pending[i] = b.pending[n + i]
  BY <1>1, RegrantFacts
<1>3. /\ DOMAIN b.granted = 1..L /\ L \in Nat
      /\ DOMAIN b.pending = 1..M /\ M \in Nat
      /\ n \in 0..M /\ n \in Nat
  BY <1>1, BlockDomains, RegrantCountFacts
<1>4. \A i \in 1..n : c.granted[L + i].owner = b.pending[i].owner
  <2>. HIDE DEF c, n, L
  <2>1. ASSUME NEW i \in 1..n PROVE c.granted[L + i].owner = b.pending[i].owner
    <3>1. c.granted[L + i] = [owner |-> b.pending[i].owner, mode |-> b.pending[i].mode]
      BY <1>2
    <3>. QED
      BY <3>1
  <2>. QED
    BY <2>1
<1>5. MutuallyCompatible(c)
  BY <1>1, RegrantKeepsCompatible
<1>. HIDE DEF c, n, L, M
<1>6. \A i \in DOMAIN c.granted :
         \/ i \in DOMAIN b.granted /\ c.granted[i].owner = b.granted[i].owner
         \/ \E k \in 1..n : /\ i = L + k /\ k \in DOMAIN b.pending
                            /\ c.granted[i].owner = b.pending[k].owner
  <2>. SUFFICES ASSUME NEW i \in DOMAIN c.granted
                PROVE  \/ i \in DOMAIN b.granted /\ c.granted[i].owner = b.granted[i].owner
                       \/ \E k \in 1..n : /\ i = L + k /\ k \in DOMAIN b.pending
                                          /\ c.granted[i].owner = b.pending[k].owner
    OBVIOUS
  <2>1. i \in 1..(L + n)
    BY <1>2
  <2>2. CASE i <= L
    <3>1. i \in 1..L
      BY <1>3, <2>1, <2>2
    <3>. QED
      BY <1>2, <1>3, <3>1
  <2>3. CASE i > L
    <3>1. i - L \in 1..n /\ i - L \in 1..M /\ i = L + (i - L)
      BY <1>3, <2>1, <2>3
    <3>. QED
      BY <1>3, <1>4, <3>1
  <2>. QED
    BY <1>3, <2>1, <2>2, <2>3
<1>7. \A i \in DOMAIN c.pending :
         \E k \in DOMAIN b.pending : /\ k = n + i /\ k \notin 1..n
                                     /\ c.pending[i] = b.pending[k]
  <2>. SUFFICES ASSUME NEW i \in 1..(M - n)
                PROVE  n + i \in 1..M /\ n + i \notin 1..n
    BY <1>2, <1>3
  <2>. QED
    BY <1>3
<1>8. \A i, j \in DOMAIN c.granted : i # j => c.granted[i].owner # c.granted[j].owner
  BY <1>1, <1>6 DEF OneEachOn
<1>9. \A i, j \in DOMAIN c.pending : i # j => c.pending[i].owner # c.pending[j].owner
  <2>1. \A i, j \in DOMAIN c.pending : i # j => n + i # n + j
    BY <1>2, <1>3
  <2>. QED
    BY <1>1, <1>7, <2>1 DEF OneEachOn
<1>10. \A i \in DOMAIN c.granted, j \in DOMAIN c.pending :
          c.granted[i].owner # c.pending[j].owner
  BY <1>1, <1>6, <1>7 DEF OneEachOn
<1>. QED
  BY <1>2, <1>5, <1>8, <1>9, <1>10 DEF Orderly, OneEachOn, c

LEMMA ReapOrderly ==
    ASSUME NEW b, Orderly(b)
    PROVE  Orderly(Reap(b))
BY EmptyBlockIsSound DEF Reap, Orderly

LEMMA DequeueOrderly ==
    ASSUME NEW b, Orderly(b), NEW o
    PROVE  Orderly(DequeueBlock(b, o))
<1>1. Sound(DropGrant(b, o)) /\ DropGrant(b, o).pending = b.pending
      /\ Sublist(DropGrant(b, o).granted, b.granted)
  BY DropGrantFacts DEF Orderly
<1>2. Orderly(DropGrant(b, o))
  BY <1>1, SublistReflexive, SublistOrderly
<1>. QED
  BY <1>2, RegrantOrderly, ReapOrderly DEF DequeueBlock

LEMMA CutQueueOrderly ==
    ASSUME NEW b, Orderly(b), NEW K \in SUBSET DOMAIN b.pending
    PROVE  Orderly([b EXCEPT !.pending = AtPositions(@, K)])
<1>. DEFINE c == [b EXCEPT !.pending = AtPositions(@, K)]
<1>1. Sound(c) /\ c.granted = b.granted /\ Sublist(c.pending, b.pending)
  BY CutQueueFacts DEF Orderly
<1>. HIDE DEF c
<1>2. Orderly(c)
  BY <1>1, SublistReflexive, SublistOrderly
<1>. QED
  BY <1>2 DEF c

LEMMA ExpireOrderly ==
    ASSUME NEW b, Orderly(b), NEW now
    PROVE  Orderly(ExpireBlock(b, now))
BY CutQueueOrderly DEF ExpireBlock

LEMMA PurgeOrderly ==
    ASSUME NEW b, Orderly(b), NEW o
    PROVE  Orderly(PurgeBlock(b, o))
<1>. DEFINE mine == {i \in DOMAIN b.pending : b.pending[i].owner = o}
            rest == [b EXCEPT !.pending = AtPositions(@, DOMAIN b.pending \ mine)]
<1>1. Orderly(rest)
  BY CutQueueOrderly
<1>2. PurgeBlock(b, o) = IF HoldsOn(rest, o) THEN DequeueBlock(rest, o) ELSE Reap(rest)
  BY DEF PurgeBlock
<1>. HIDE DEF rest
<1>. QED
  BY <1>1, <1>2, DequeueOrderly, ReapOrderly

-------------------------------------------------------------------------------
(* The wait-for graph.  A step of a block may let owners in N in: whoever  *)
(* is still parked was parked before, and waits for nobody new but them.   *)
Shrinks(c, b, N) ==
    /\ \A i \in DOMAIN c.pending : \E j \in DOMAIN b.pending :
          c.pending[i].owner = b.pending[j].owner /\ c.pending[i].mode = b.pending[j].mode
    /\ \A i \in DOMAIN c.granted :
          \/ c.granted[i].owner \in N
          \/ \E j \in DOMAIN b.granted : c.granted[i] = b.granted[j]

LEMMA ShrinksBlockers ==
    ASSUME NEW b, NEW c, NEW N, Shrinks(c, b, N), NEW o
    PROVE  /\ Blockers(c, o) \subseteq Blockers(b, o) \cup N
           /\ ParkedOn(c, o) => ParkedOn(b, o)
BY DEF Shrinks, Blockers, ParkedOn

LEMMA SublistShrinks ==
    ASSUME NEW b, NEW c, Sublist(c.granted, b.granted), Sublist(c.pending, b.pending)
    PROVE  Shrinks(c, b, {})
<1>1. \A i \in DOMAIN c.granted : \E j \in DOMAIN b.granted : c.granted[i] = b.granted[j]
  BY DEF Sublist
<1>2. \A i \in DOMAIN c.pending : \E j \in DOMAIN b.pending : c.pending[i] = b.pending[j]
  BY DEF Sublist
<1>. QED
  BY <1>1, <1>2 DEF Shrinks

LEMMA ShrinksTransitive ==
    ASSUME NEW a, NEW b, NEW c, NEW N, Shrinks(c, b, N), Shrinks(b, a, {})
    PROVE  Shrinks(c, a, N)
BY DEF Shrinks

(* Whom a step of a block lets in: they were parked on it and are no more. *)
LetIn(c, b, N) ==
    /\ Shrinks(c, b, N)
    /\ \A o \in N : ParkedOn(b, o) /\ ~ParkedOn(c, o)

LEMMA NobodyLetIn ==
    ASSUME NEW b, NEW c, Shrinks(c, b, {})
    PROVE  LetIn(c, b, {})
BY DEF LetIn

LEMMA ReapShrinks ==
    ASSUME NEW b
    PROVE  /\ Shrinks(Reap(b), b, {})
           /\ \A o : ~ParkedOn(b, o) => ~ParkedOn(Reap(b), o)
<1>1. DOMAIN EmptyBlock.granted = {} /\ DOMAIN EmptyBlock.pending = {}
  BY EmptyBlockIsSound
<1>2. Shrinks(EmptyBlock, b, {}) /\ \A o : ~ParkedOn(EmptyBlock, o)
  BY <1>1 DEF Shrinks, ParkedOn
<1>3. Shrinks(b, b, {})
  BY DEF Shrinks
<1>. QED
  BY <1>2, <1>3 DEF Reap

LEMMA RegrantLetsIn ==
    ASSUME NEW b, Orderly(b)
    PROVE  \E N \in SUBSET Owners : LetIn(Regrant(b), b, N)
<1>. DEFINE c == Regrant(b)
            n == RegrantCount(b)
            L == Len(b.granted)
            M == Len(b.pending)
            N == {b.pending[k].owner : k \in 1..n}
<1>1. Sound(b) /\ BlockType(b) /\ OneEachOn(b)
  BY DEF Orderly, Sound
<1>2. /\ DOMAIN c.granted = 1..(L + n)
      /\ \A i \in 1..L : c.granted[i] = b.granted[i]
      /\ \A i \in 1..n :
            c.granted[L + i] = [owner |-> b.pending[i].owner, mode |-> b.pending[i].mode]
      /\ DOMAIN c.pending = 1..(M - n)
      /\ \A i \in 1..(M - n) : c.pending[i] = b.pending[n + i]
  BY <1>1, RegrantFacts
<1>3. /\ DOMAIN b.granted = 1..L /\ L \in Nat
      /\ DOMAIN b.pending = 1..M /\ M \in Nat
      /\ n \in 0..M /\ n \in Nat
  BY <1>1, BlockDomains, RegrantCountFacts
<1>. HIDE DEF c, n, L, M
<1>4. \A k \in 1..n : k \in DOMAIN b.pending
  BY <1>3
<1>5. N \in SUBSET Owners
  BY <1>1, <1>4, WaiterModes
<1>6. \A i \in DOMAIN c.pending :
         \E k \in DOMAIN b.pending : k \notin 1..n /\ c.pending[i] = b.pending[k]
  <2>. SUFFICES ASSUME NEW i \in 1..(M - n)
                PROVE  n + i \in 1..M /\ n + i \notin 1..n
    BY <1>2, <1>3
  <2>. QED
    BY <1>3
<1>7. ASSUME NEW i \in DOMAIN c.granted
      PROVE  \/ c.granted[i].owner \in N
             \/ \E j \in DOMAIN b.granted : c.granted[i] = b.granted[j]
  <2>1. i \in 1..(L + n)
    BY <1>2
  <2>2. CASE i <= L
    <3>1. i \in 1..L
      BY <1>3, <2>1, <2>2
    <3>. QED
      BY <1>2, <1>3, <3>1
  <2>3. CASE i > L
    <3>1. i - L \in 1..n /\ i = L + (i - L)
      BY <1>3, <2>1, <2>3
    <3>2. c.granted[i] = [owner |-> b.pending[i - L].owner, mode |-> b.pending[i - L].mode]
      BY <1>2, <3>1
    <3>. QED
      BY <3>1, <3>2
  <2>. QED
    BY <1>3, <2>1, <2>2, <2>3
<1>8. Shrinks(c, b, N)
  <2>. HIDE DEF N
  <2>. QED
    BY <1>6, <1>7 DEF Shrinks
<1>9. ASSUME NEW o \in N PROVE ParkedOn(b, o) /\ ~ParkedOn(c, o)
  <2>1. PICK k \in 1..n : o = b.pending[k].owner
    OBVIOUS
  <2>. QED
    BY <1>1, <1>4, <1>6, <2>1 DEF ParkedOn, OneEachOn
<1>10. LetIn(c, b, N)
  <2>. HIDE DEF N
  <2>. QED
    BY <1>8, <1>9 DEF LetIn
<1>. QED
  BY <1>5, <1>10 DEF c

LEMMA DequeueLetsIn ==
    ASSUME NEW b, Orderly(b), NEW o
    PROVE  \E N \in SUBSET Owners : LetIn(DequeueBlock(b, o), b, N)
<1>. DEFINE d == DropGrant(b, o)
            c == Regrant(d)
<1>1. Sound(d) /\ d.pending = b.pending /\ Sublist(d.granted, b.granted)
  BY DropGrantFacts DEF Orderly
<1>. HIDE DEF d
<1>2. Orderly(d) /\ Shrinks(d, b, {})
  BY <1>1, SublistReflexive, SublistOrderly, SublistShrinks
<1>3. PICK N \in SUBSET Owners : LetIn(c, d, N)
  BY <1>2, RegrantLetsIn
<1>. HIDE DEF c
<1>4. Shrinks(Reap(c), c, {}) /\ \A q : ~ParkedOn(c, q) => ~ParkedOn(Reap(c), q)
  BY ReapShrinks
<1>5. Shrinks(Reap(c), d, N)
  BY <1>3, <1>4 DEF Shrinks, LetIn
<1>6. Shrinks(Reap(c), b, N)
  BY <1>2, <1>5, ShrinksTransitive
<1>7. \A q \in N : ParkedOn(b, q) /\ ~ParkedOn(Reap(c), q)
  BY <1>1, <1>3, <1>4 DEF LetIn, ParkedOn
<1>8. DequeueBlock(b, o) = Reap(c)
  BY DEF DequeueBlock, c, d
<1>. QED
  BY <1>6, <1>7, <1>8 DEF LetIn

LEMMA CutQueueShrinks ==
    ASSUME NEW b, Orderly(b), NEW K \in SUBSET DOMAIN b.pending
    PROVE  Shrinks([b EXCEPT !.pending = AtPositions(@, K)], b, {})
<1>. DEFINE c == [b EXCEPT !.pending = AtPositions(@, K)]
<1>1. c.granted = b.granted /\ Sublist(c.pending, b.pending)
  BY CutQueueFacts DEF Orderly
<1>. HIDE DEF c
<1>2. Shrinks(c, b, {})
  BY <1>1, SublistReflexive, SublistShrinks
<1>. QED
  BY <1>2 DEF c

LEMMA ExpireLetsIn ==
    ASSUME NEW b, Orderly(b), NEW now
    PROVE  \E N \in SUBSET Owners : LetIn(ExpireBlock(b, now), b, N)
<1>1. Shrinks(ExpireBlock(b, now), b, {})
  BY CutQueueShrinks DEF ExpireBlock
<1>. QED
  BY <1>1, NobodyLetIn

LEMMA PurgeLetsIn ==
    ASSUME NEW b, Orderly(b), NEW o
    PROVE  \E N \in SUBSET Owners : LetIn(PurgeBlock(b, o), b, N)
<1>. DEFINE mine == {i \in DOMAIN b.pending : b.pending[i].owner = o}
            rest == [b EXCEPT !.pending = AtPositions(@, DOMAIN b.pending \ mine)]
<1>1. Orderly(rest) /\ Shrinks(rest, b, {})
  BY CutQueueOrderly, CutQueueShrinks
<1>2. PurgeBlock(b, o) = IF HoldsOn(rest, o) THEN DequeueBlock(rest, o) ELSE Reap(rest)
  BY DEF PurgeBlock
<1>. HIDE DEF rest
<1>3. PICK N \in SUBSET Owners : LetIn(DequeueBlock(rest, o), rest, N)
  BY <1>1, DequeueLetsIn
<1>4. Shrinks(DequeueBlock(rest, o), b, N)
  BY <1>1, <1>3, ShrinksTransitive DEF LetIn
<1>5. \A q : ParkedOn(rest, q) => ParkedOn(b, q)
  BY <1>1, ShrinksBlockers
<1>6. LetIn(DequeueBlock(rest, o), b, N)
  BY <1>3, <1>4, <1>5 DEF LetIn
<1>7. Shrinks(Reap(rest), b, {})
  BY <1>1, ReapShrinks, ShrinksTransitive
<1>8. LetIn(Reap(rest), b, {})
  BY <1>7, NobodyLetIn
<1>. QED
  BY <1>2, <1>6, <1>8

-------------------------------------------------------------------------------
(* The table.                                                              *)
Acyclic(t) ==
    \A S \in SUBSET Owners : S # {} => \E o \in S : WaitsFor(t, o) \cap S = {}
OneWait(t) ==
    \A o \in Owners, k, l \in Locks : ParkedOn(t[k], o) /\ ParkedOn(t[l], o) => k = l
IdleIn(t, o) == \A l \in Locks : ~ParkedOn(t[l], o)

LEMMA IdleWaitsForNobody ==
    ASSUME NEW t, NEW o, IdleIn(t, o)
    PROVE  WaitsFor(t, o) = {}
BY DEF IdleIn, ParkedOn, WaitsFor, Blockers

(* New edges lead to owners that wait for nobody: no cycle runs through    *)
(* them.                                                                   *)
LEMMA IdleBreaksCycles ==
    ASSUME NEW t, NEW u, NEW N, Acyclic(t),
           \A o \in Owners : WaitsFor(u, o) \subseteq WaitsFor(t, o) \cup N,
           \A o \in N : WaitsFor(u, o) = {}
    PROVE  Acyclic(u)
<1>. SUFFICES ASSUME NEW S \in SUBSET Owners, S # {}
              PROVE  \E o \in S : WaitsFor(u, o) \cap S = {}
  BY DEF Acyclic
<1>1. CASE S \cap N # {}
  BY <1>1
<1>2. CASE S \cap N = {}
  <2>1. PICK o \in S : WaitsFor(t, o) \cap S = {}
    BY DEF Acyclic
  <2>2. WaitsFor(u, o) \subseteq WaitsFor(t, o) \cup N
    OBVIOUS
  <2>. QED
    BY <1>2, <2>1, <2>2
<1>. QED
  BY <1>1, <1>2

(* An owner that waits nowhere is granted a request, or a new mode. *)
LEMMA GrantKeepsGraph ==
    ASSUME NEW t, NEW u, NEW o \in Owners, Acyclic(t), OneWait(t), IdleIn(t, o),
           \A k \in Locks : Shrinks(u[k], t[k], {o})
    PROVE  Acyclic(u) /\ OneWait(u)
<1>1. \A k \in Locks : \A q : Blockers(u[k], q) \subseteq Blockers(t[k], q) \cup {o}
  BY ShrinksBlockers
<1>2. \A k \in Locks : \A q : ParkedOn(u[k], q) => ParkedOn(t[k], q)
  BY ShrinksBlockers
<1>3. \A q : WaitsFor(u, q) \subseteq WaitsFor(t, q) \cup {o}
  BY <1>1 DEF WaitsFor
<1>4. WaitsFor(u, o) = {}
  BY <1>2, IdleWaitsForNobody DEF IdleIn
<1>5. Acyclic(u)
  BY <1>3, <1>4, IdleBreaksCycles
<1>. QED
  BY <1>2, <1>5 DEF OneWait

(* Blocks change and let owners in that waited there, so nowhere else.     *)
LEMMA ReleaseKeepsGraph ==
    ASSUME NEW t, NEW u, Acyclic(t), OneWait(t),
           \A k \in Locks : \E N \in SUBSET Owners : LetIn(u[k], t[k], N)
    PROVE  Acyclic(u) /\ OneWait(u)
<1>. DEFINE new(k) == CHOOSE N \in SUBSET Owners : LetIn(u[k], t[k], N)
            N == UNION {new(k) : k \in Locks}
<1>1. \A k \in Locks : new(k) \in SUBSET Owners /\ LetIn(u[k], t[k], new(k))
  OBVIOUS
<1>. HIDE DEF new
<1>2. \A k \in Locks : /\ \A q : Blockers(u[k], q) \subseteq Blockers(t[k], q) \cup new(k)
                       /\ \A q : ParkedOn(u[k], q) => ParkedOn(t[k], q)
  BY <1>1, ShrinksBlockers DEF LetIn
<1>3. \A q : WaitsFor(u, q) \subseteq WaitsFor(t, q) \cup N
  BY <1>2 DEF WaitsFor
<1>4. ASSUME NEW o \in N PROVE WaitsFor(u, o) = {}
  <2>1. PICK k \in Locks : o \in new(k)
    OBVIOUS
  <2>2. ParkedOn(t[k], o) /\ ~ParkedOn(u[k], o) /\ o \in Owners
    BY <1>1, <2>1 DEF LetIn
  <2>3. \A l \in Locks : ~ParkedOn(u[l], o)
    BY <1>2, <2>2 DEF OneWait
  <2>. QED
    BY <2>3, IdleWaitsForNobody DEF IdleIn
<1>. HIDE DEF N
<1>5. Acyclic(u)
  BY <1>3, <1>4, IdleBreaksCycles
<1>. QED
  BY <1>2, <1>5 DEF OneWait

(* A request parks only when the scan finds no path of waits back to its   *)
(* owner: there is a set that holds whom the owner waits for, is closed    *)
(* under waiting, and does not hold the owner.  A cycle would have to      *)
(* leave that set.                                                         *)
LEMMA ParkKeepsGraph ==
    ASSUME NEW t, DOMAIN t = Locks, NEW l \in Locks, NEW c,
           NEW o \in Owners, Acyclic(t), OneWait(t), IdleIn(t, o),
           c.granted = t[l].granted,
           \A i \in DOMAIN c.pending :
              \/ c.pending[i].owner = o
              \/ \E j \in DOMAIN t[l].pending : c.pending[i] = t[l].pending[j],
           ~DeadlockFrom([t EXCEPT ![l] = c], o)
    PROVE  Acyclic([t EXCEPT ![l] = c]) /\ OneWait([t EXCEPT ![l] = c])
<1>. DEFINE u == [t EXCEPT ![l] = c]
<1>1. u[l] = c /\ \A k \in Locks \ {l} : u[k] = t[k]
  OBVIOUS
<1>0. ~DeadlockFrom(u, o)
  OBVIOUS
<1>. HIDE DEF u
<1>2. \A q \in Owners \ {o} : \A k \in Locks : Blockers(u[k], q) \subseteq Blockers(t[k], q)
  <2>1. \A q \in Owners \ {o} : Blockers(c, q) \subseteq Blockers(t[l], q)
    BY DEF Blockers
  <2>. QED
    BY <1>1, <2>1
<1>3. \A q \in Owners \ {o} : WaitsFor(u, q) \subseteq WaitsFor(t, q)
  BY <1>2 DEF WaitsFor
<1>4. PICK C \in SUBSET Owners :
          /\ WaitsFor(u, o) \subseteq C
          /\ \A q \in C : WaitsFor(u, q) \subseteq C
          /\ o \notin C
  BY <1>0 DEF DeadlockFrom
<1>5. Acyclic(u)
  <2>. SUFFICES ASSUME NEW S \in SUBSET Owners, S # {}
                PROVE  \E q \in S : WaitsFor(u, q) \cap S = {}
    BY DEF Acyclic
  <2>1. CASE o \notin S
    <3>1. PICK q \in S : WaitsFor(t, q) \cap S = {}
      BY DEF Acyclic
    <3>. QED
      BY <1>3, <2>1, <3>1
  <2>2. CASE o \in S /\ S \cap C = {}
    BY <1>4, <2>2
  <2>3. CASE S \cap C # {}
    <3>1. PICK q \in S \cap C : WaitsFor(t, q) \cap (S \cap C) = {}
      <4>1. S \cap C \in SUBSET Owners
        OBVIOUS
      <4>. QED
        BY <2>3, <4>1 DEF Acyclic
    <3>2. WaitsFor(u, q) \subseteq C /\ WaitsFor(u, q) \subseteq WaitsFor(t, q)
      BY <1>3, <1>4, <3>1
    <3>. QED
      BY <3>1, <3>2
  <2>. QED
    BY <2>1, <2>2, <2>3
<1>6. OneWait(u)
  <2>1. \A q \in Owners, k \in Locks :
            ParkedOn(u[k], q) => ParkedOn(t[k], q) \/ (q = o /\ k = l)
    <3>1. \A q : ParkedOn(c, q) => ParkedOn(t[l], q) \/ q = o
      BY DEF ParkedOn
    <3>. QED
      BY <1>1, <3>1
  <2>. QED
    BY <2>1 DEF OneWait, IdleIn
<1>. QED
  BY <1>5, <1>6 DEF u

LEMMA OneBlockReleased ==
    ASSUME NEW t, DOMAIN t = Locks, NEW l \in Locks, NEW c,
           \E N \in SUBSET Owners : LetIn(c, t[l], N)
    PROVE  \A k \in Locks : \E N \in SUBSET Owners : LetIn([t EXCEPT ![l] = c][k], t[k], N)
<1>1. \A b : LetIn(b, b, {})
  BY DEF LetIn, Shrinks
<1>2. \A k \in Locks : [t EXCEPT ![l] = c][k] = IF k = l THEN c ELSE t[k]
  OBVIOUS
<1>. QED
  BY <1>1, <1>2

LEMMA AddGrantShrinks ==
    ASSUME NEW b, Orderly(b), NEW o \in Owners, NEW m \in Mode
    PROVE  Shrinks(AddGrant(b, o, m), b, {o})
<1>. DEFINE c == AddGrant(b, o, m)
            L == Len(b.granted)
<1>1. Sound(b) /\ BlockType(b)
  BY DEF Orderly, Sound
<1>2. /\ Sound(c) /\ c.pending = b.pending
      /\ Len(c.granted) = L + 1
      /\ \A i \in DOMAIN b.granted : c.granted[i] = b.granted[i]
      /\ c.granted[L + 1] = [owner |-> o, mode |-> m]
  BY <1>1, AddGrantFacts
<1>3. DOMAIN b.granted = 1..L /\ L \in Nat /\ DOMAIN c.granted = 1..(L + 1)
  BY <1>1, <1>2, BlockDomains DEF Sound
<1>4. c.granted[L + 1].owner = o
  BY <1>2
<1>. HIDE DEF c, L
<1>5. \A i \in DOMAIN c.granted : i \in DOMAIN b.granted \/ i = L + 1
  BY <1>3
<1>. QED
  BY <1>2, <1>4, <1>5 DEF Shrinks, c

LEMMA ChangeGrantShrinks ==
    ASSUME NEW b, Orderly(b), NEW o \in Owners, HoldsOn(b, o), NEW m \in Mode
    PROVE  Shrinks(ChangeGrant(b, o, m), b, {o})
<1>. DEFINE c == ChangeGrant(b, o, m)
            i == FirstGrant(b, o)
<1>1. Sound(b) /\ BlockType(b)
  BY DEF Orderly, Sound
<1>2. /\ Sound(c) /\ c.pending = b.pending /\ DOMAIN c.granted = DOMAIN b.granted
      /\ \A j \in DOMAIN b.granted :
            /\ c.granted[j].owner = b.granted[j].owner
            /\ c.granted[j].mode = IF j = i THEN m ELSE b.granted[j].mode
  BY <1>1, ChangeGrantFacts
<1>3. b.granted[i].owner = o
  BY <1>1, FirstGrantFacts
<1>. HIDE DEF c, i
<1>4. ASSUME NEW j \in DOMAIN b.granted, j # i PROVE c.granted[j] = b.granted[j]
  <2>1. c.granted[j] \in Grant /\ b.granted[j] \in Grant
    BY <1>1, <1>2, GrantModes DEF Sound
  <2>2. c.granted[j].owner = b.granted[j].owner /\ c.granted[j].mode = b.granted[j].mode
    BY <1>2, <1>4
  <2>. QED
    BY <2>1, <2>2 DEF Grant
<1>. QED
  BY <1>2, <1>3, <1>4 DEF Shrinks, c

-------------------------------------------------------------------------------
(* The requests of a block as sets.  Served: o's requests are gone, and    *)
(* who left the queue beside o was granted what it had asked for.          *)
GrantsOf(b) == {b.granted[i] : i \in DOMAIN b.granted}
QueueOf(b) == {b.pending[i] : i \in DOMAIN b.pending}
AsGrant(w) == [owner |-> w.owner, mode |-> w.mode]
QueueWithout(b, o) == {w \in QueueOf(b) : w.owner # o}
Served(c, b, o) ==
    /\ QueueOf(c) \subseteq QueueWithout(b, o)
    /\ GrantsOf(c) = {g \in GrantsOf(b) : g.owner # o}
                        \cup {AsGrant(w) : w \in QueueWithout(b, o) \ QueueOf(c)}

LEMMA EmptySets == GrantsOf(EmptyBlock) = {} /\ QueueOf(EmptyBlock) = {}
<1>1. EmptyBlock.granted = <<>> /\ EmptyBlock.pending = <<>>
  BY EmptyBlockIsSound
<1>2. DOMAIN EmptyBlock.granted = {} /\ DOMAIN EmptyBlock.pending = {}
  BY <1>1
<1>. QED
  BY <1>2 DEF GrantsOf, QueueOf

LEMMA OrderlySets ==
    ASSUME NEW b, Orderly(b)
    PROVE  /\ GrantsOf(b) \subseteq Grant /\ QueueOf(b) \subseteq Waiter
           /\ \A g, h \in GrantsOf(b) :
                 g # h => g.owner # h.owner /\ Compatible(g.mode, h.mode)
           /\ \A v, w \in QueueOf(b) : v # w => v.owner # w.owner
           /\ \A g \in GrantsOf(b), w \in QueueOf(b) : g.owner # w.owner
<1>1. Sound(b) /\ BlockType(b) /\ MutuallyCompatible(b) /\ OneEachOn(b)
  BY DEF Orderly, Sound
<1>2. GrantsOf(b) \subseteq Grant /\ QueueOf(b) \subseteq Waiter
  BY <1>1, GrantModes, WaiterModes DEF GrantsOf, QueueOf
<1>. QED
  BY <1>1, <1>2 DEF GrantsOf, QueueOf, OneEachOn, MutuallyCompatible

LEMMA AddGrantSets ==
    ASSUME NEW b, Orderly(b), NEW o \in Owners, NEW m \in Mode
    PROVE  /\ GrantsOf(AddGrant(b, o, m)) = GrantsOf(b) \cup {[owner |-> o, mode |-> m]}
           /\ QueueOf(AddGrant(b, o, m)) = QueueOf(b)
<1>. DEFINE c == AddGrant(b, o, m)
            L == Len(b.granted)
            g == [owner |-> o, mode |-> m]
<1>1. /\ Sound(b) /\ BlockType(b) /\ Sound(c) /\ BlockType(c) /\ c.pending = b.pending
      /\ Len(c.granted) = L + 1
      /\ \A i \in DOMAIN b.granted : c.granted[i] = b.granted[i]
      /\ c.granted[L + 1] = g
  BY AddGrantFacts DEF Orderly, Sound
<1>2. DOMAIN b.granted = 1..L /\ L \in Nat /\ DOMAIN c.granted = 1..(L + 1)
  BY <1>1, BlockDomains
<1>. HIDE DEF c, L, g
<1>3. DOMAIN c.granted = DOMAIN b.granted \cup {L + 1}
  BY <1>2
<1>. QED
  BY <1>1, <1>3 DEF GrantsOf, QueueOf, c, g

LEMMA ParkSets ==
    ASSUME NEW b, Orderly(b), NEW o \in Owners, NEW m \in Mode,
           NEW d \in Nat \cup {NoDeadline}
    PROVE  /\ GrantsOf(Park(b, o, m, d)) = GrantsOf(b)
           /\ QueueOf(Park(b, o, m, d)) =
                 QueueOf(b) \cup {[owner |-> o, mode |-> m, deadline |-> d]}
<1>. DEFINE c == Park(b, o, m, d)
            L == Len(b.pending)
            w == [owner |-> o, mode |-> m, deadline |-> d]
<1>1. /\ Sound(b) /\ BlockType(b) /\ Sound(c) /\ BlockType(c) /\ c.granted = b.granted
      /\ Len(c.pending) = L + 1
      /\ \A i \in DOMAIN b.pending : c.pending[i] = b.pending[i]
      /\ c.pending[L + 1] = w
  BY ParkFacts DEF Orderly, Sound
<1>2. DOMAIN b.pending = 1..L /\ L \in Nat /\ DOMAIN c.pending = 1..(L + 1)
  BY <1>1, BlockDomains
<1>. HIDE DEF c, L, w
<1>3. DOMAIN c.pending = DOMAIN b.pending \cup {L + 1}
  BY <1>2
<1>. QED
  BY <1>1, <1>3 DEF GrantsOf, QueueOf, c, w

LEMMA DropGrantSets ==
    ASSUME NEW b, Orderly(b), NEW o
    PROVE  /\ GrantsOf(DropGrant(b, o)) = {g \in GrantsOf(b) : g.owner # o}
           /\ QueueOf(DropGrant(b, o)) = QueueOf(b)
<1>. DEFINE c == DropGrant(b, o)
            i == FirstGrant(b, o)
            g == b.granted
            L == Len(g)
<1>1. Sound(b) /\ BlockType(b) /\ OneEachOn(b) /\ g \in Seq(Grant)
  BY DEF Orderly, Sound, BlockType
<1>2. DOMAIN g = 1..L /\ L \in Nat
  BY <1>1, LenProperties
<1>3. c.pending = b.pending
  BY <1>1, DropGrantFacts
<1>4. CASE ~HoldsOn(b, o)
  <2>1. c = b
    BY <1>4 DEF DropGrant
  <2>. QED
    BY <1>4, <2>1 DEF HoldsOn, GrantsOf
<1>5. CASE HoldsOn(b, o)
  <2>1. i \in 1..L /\ g[i].owner = o
    BY <1>1, <1>2, <1>5, FirstGrantFacts
  <2>. DEFINE r == RemoveAt(g, i)
  <2>2. /\ r \in Seq(Grant) /\ Len(r) = L - 1
        /\ \A j \in 1..(L - 1) : r[j] = IF j < i THEN g[j] ELSE g[j + 1]
    BY <1>1, <2>1, RemoveAtFacts
  <2>3. DOMAIN r = 1..(L - 1)
    BY <2>2, LenProperties
  <2>4. c.granted = r
    <3>1. DOMAIN b = {"data", "granted", "counts", "pending"}
      BY <1>1 DEF BlockType
    <3>. QED
      BY <1>5, <3>1 DEF DropGrant
  <2>. HIDE DEF c, r, i, g, L
  <2>5. \A k \in DOMAIN g : k # i => g[k].owner # o
    BY <1>1, <1>2, <2>1 DEF OneEachOn, g
  <2>6. \A j \in DOMAIN r : \E k \in DOMAIN g : k # i /\ r[j] = g[k]
    <3>. SUFFICES ASSUME NEW j \in 1..(L - 1)
                  PROVE  \E k \in 1..L : k # i /\ r[j] = g[k]
      BY <1>2, <2>3
    <3>1. CASE j < i
      BY <1>2, <2>1, <2>2, <3>1
    <3>2. CASE ~(j < i)
      <4>1. j + 1 \in 1..L /\ j + 1 # i
        BY <1>2, <2>1, <3>2
      <4>. QED
        BY <2>2, <3>2, <4>1
    <3>. QED
      BY <3>1, <3>2
  <2>7. \A k \in DOMAIN g : k # i => \E j \in DOMAIN r : r[j] = g[k]
    <3>. SUFFICES ASSUME NEW k \in 1..L, k # i
                  PROVE  \E j \in 1..(L - 1) : r[j] = g[k]
      BY <1>2, <2>3
    <3>1. CASE k < i
      <4>1. k \in 1..(L - 1)
        BY <1>2, <2>1, <3>1
      <4>. QED
        BY <2>2, <3>1, <4>1
    <3>2. CASE ~(k < i)
      <4>1. k - 1 \in 1..(L - 1) /\ ~(k - 1 < i) /\ (k - 1) + 1 = k
        BY <1>2, <2>1, <3>2
      <4>. QED
        BY <2>2, <4>1
    <3>. QED
      BY <3>1, <3>2
  <2>8. GrantsOf(c) = {r[j] : j \in DOMAIN r} /\ GrantsOf(b) = {g[k] : k \in DOMAIN g}
    BY <2>4 DEF GrantsOf, g
  <2>9. GrantsOf(c) = {h \in GrantsOf(b) : h.owner # o}
    BY <1>2, <2>1, <2>5, <2>6, <2>7, <2>8
  <2>. QED
    BY <1>3, <2>9 DEF QueueOf, c
<1>. QED
  BY <1>4, <1>5

LEMMA RegrantSets ==
    ASSUME NEW b, Orderly(b)
    PROVE  /\ QueueOf(Regrant(b)) \subseteq QueueOf(b)
           /\ GrantsOf(Regrant(b)) =
                 GrantsOf(b) \cup {AsGrant(w) : w \in QueueOf(b) \ QueueOf(Regrant(b))}
<1>. DEFINE c == Regrant(b)
            n == RegrantCount(b)
            L == Len(b.granted)
            M == Len(b.pending)
            left == {b.pending[k] : k \in 1..n}
            stay == {b.pending[k] : k \in (n + 1)..M}
<1>1. Sound(b) /\ BlockType(b) /\ OneEachOn(b)
  BY DEF Orderly, Sound
<1>2. /\ DOMAIN c.granted = 1..(L + n)
      /\ \A i \in 1..L : c.granted[i] = b.granted[i]
      /\ \A i \in 1..n : c.granted[L + i] = AsGrant(b.pending[i])
      /\ DOMAIN c.pending = 1..(M - n)
      /\ \A i \in 1..(M - n) : c.pending[i] = b.pending[n + i]
  BY <1>1, RegrantFacts DEF AsGrant
<1>3. /\ DOMAIN b.granted = 1..L /\ L \in Nat
      /\ DOMAIN b.pending = 1..M /\ M \in Nat
      /\ n \in 0..M /\ n \in Nat
  BY <1>1, BlockDomains, RegrantCountFacts
<1>. HIDE DEF c, n, L, M
<1>4. QueueOf(c) = stay
  <2>1. \A i \in 1..(M - n) : n + i \in (n + 1)..M
    BY <1>3
  <2>2. \A k \in (n + 1)..M : k - n \in 1..(M - n) /\ n + (k - n) = k
    BY <1>3
  <2>3. \A k \in (n + 1)..M : c.pending[k - n] = b.pending[k]
    BY <1>2, <2>2
  <2>. QED
    BY <1>2, <2>1, <2>2, <2>3 DEF QueueOf
<1>5. QueueOf(b) = left \cup stay
  <2>1. 1..M = (1..n) \cup ((n + 1)..M)
    BY <1>3
  <2>. QED
    BY <1>3, <2>1 DEF QueueOf
<1>6. left \cap stay = {}
  <2>1. ASSUME NEW j \in 1..n, NEW k \in (n + 1)..M PROVE b.pending[j] # b.pending[k]
    <3>1. j \in DOMAIN b.pending /\ k \in DOMAIN b.pending /\ j # k
      BY <1>3
    <3>. QED
      BY <1>1, <3>1 DEF OneEachOn
  <2>. QED
    BY <2>1
<1>7. GrantsOf(c) = GrantsOf(b) \cup {AsGrant(w) : w \in left}
  <2>1. \A i \in 1..(L + n) : i \in 1..L \/ (i - L \in 1..n /\ L + (i - L) = i)
    BY <1>3
  <2>2. \A i \in 1..L : i \in 1..(L + n)
    BY <1>3
  <2>3. \A i \in 1..n : L + i \in 1..(L + n)
    BY <1>3
  <2>4. ASSUME NEW i \in 1..(L + n)
        PROVE  \/ \E j \in 1..L : c.granted[i] = b.granted[j]
               \/ \E k \in 1..n : c.granted[i] = AsGrant(b.pending[k])
    <3>1. CASE i \in 1..L
      BY <1>2, <3>1
    <3>2. CASE i - L \in 1..n /\ L + (i - L) = i
      <4>1. c.granted[i] = AsGrant(b.pending[i - L])
        BY <1>2, <3>2
      <4>. QED
        BY <3>2, <4>1
    <3>. QED
      BY <2>1, <3>1, <3>2
  <2>5. GrantsOf(b) = {b.granted[i] : i \in 1..L}
    BY <1>3 DEF GrantsOf
  <2>6. GrantsOf(c) = {c.granted[i] : i \in 1..(L + n)}
    BY <1>2 DEF GrantsOf
  <2>7. \A i \in 1..L : b.granted[i] \in GrantsOf(c)
    BY <1>2, <2>2, <2>6
  <2>8. \A k \in 1..n : AsGrant(b.pending[k]) \in GrantsOf(c)
    BY <1>2, <2>3, <2>6
  <2>. QED
    BY <2>4, <2>5, <2>6, <2>7, <2>8
<1>8. QueueOf(b) \ QueueOf(c) = left
  BY <1>4, <1>5, <1>6
<1>. HIDE DEF left, stay
<1>. QED
  BY <1>4, <1>5, <1>7, <1>8 DEF c

LEMMA ReapSets ==
    ASSUME NEW b
    PROVE  GrantsOf(Reap(b)) = GrantsOf(b) /\ QueueOf(Reap(b)) = QueueOf(b)
<1>1. CASE b.granted = <<>> /\ b.pending = <<>>
  <2>1. GrantsOf(b) = {} /\ QueueOf(b) = {}
    BY <1>1 DEF GrantsOf, QueueOf
  <2>. QED
    BY <1>1, <2>1, EmptySets DEF Reap
<1>. QED
  BY <1>1 DEF Reap

LEMMA DequeueServes ==
    ASSUME NEW b, Orderly(b), NEW o, HoldsOn(b, o)
    PROVE  Served(DequeueBlock(b, o), b, o)
<1>. DEFINE d == DropGrant(b, o)
            c == Regrant(d)
<1>1. Orderly(d)
  <2>1. Sound(d) /\ d.pending = b.pending /\ Sublist(d.granted, b.granted)
    BY DropGrantFacts DEF Orderly
  <2>. QED
    BY <2>1, SublistReflexive, SublistOrderly
<1>2. GrantsOf(d) = {g \in GrantsOf(b) : g.owner # o} /\ QueueOf(d) = QueueOf(b)
  BY DropGrantSets
<1>3. /\ QueueOf(c) \subseteq QueueOf(d)
      /\ GrantsOf(c) = GrantsOf(d) \cup {AsGrant(w) : w \in QueueOf(d) \ QueueOf(c)}
  BY <1>1, RegrantSets
<1>4. QueueOf(b) = QueueWithout(b, o)
  <2>1. \E g \in GrantsOf(b) : g.owner = o
    BY DEF HoldsOn, GrantsOf
  <2>. QED
    BY <2>1, OrderlySets DEF QueueWithout
<1>5. DequeueBlock(b, o) = Reap(c)
  BY DEF DequeueBlock
<1>. HIDE DEF c, d
<1>. QED
  BY <1>2, <1>3, <1>4, <1>5, ReapSets DEF Served

LEMMA CutQueueSets ==
    ASSUME NEW b, Orderly(b), NEW K \in SUBSET DOMAIN b.pending
    PROVE  LET c == [b EXCEPT !.pending = AtPositions(@, K)]
           IN  /\ GrantsOf(c) = GrantsOf(b)
               /\ QueueOf(c) = {b.pending[k] : k \in K}
<1>. DEFINE p == AtPositions(b.pending, K)
            c == [b EXCEPT !.pending = p]
            N == Cardinality(K)
<1>1. BlockType(b) /\ b.pending \in Seq(Waiter)
  BY DEF Orderly, Sound, BlockType
<1>2. /\ p \in Seq(Waiter) /\ Len(p) = N /\ N \in Nat
      /\ \E f \in [1..N -> K] :
            /\ \A m, n \in 1..N : m < n => f[m] < f[n]
            /\ \A n \in 1..N : p[n] = b.pending[f[n]]
      /\ \A k \in K : \E n \in 1..N : p[n] = b.pending[k]
  BY <1>1, AtPositionsFacts
<1>3. DOMAIN p = 1..N
  BY <1>2, LenProperties
<1>4. c.granted = b.granted /\ c.pending = p
  BY <1>1 DEF BlockType
<1>. HIDE DEF p, c, N
<1>5. QueueOf(c) = {b.pending[k] : k \in K}
  <2>1. PICK f \in [1..N -> K] : \A n \in 1..N : p[n] = b.pending[f[n]]
    BY <1>2
  <2>2. QueueOf(c) = {p[n] : n \in 1..N}
    BY <1>3, <1>4 DEF QueueOf
  <2>3. \A n \in 1..N : f[n] \in K /\ p[n] = b.pending[f[n]]
    BY <2>1
  <2>4. \A k \in K : \E n \in 1..N : p[n] = b.pending[k]
    BY <1>2
  <2>. QED
    BY <2>2, <2>3, <2>4
<1>. QED
  BY <1>4, <1>5 DEF GrantsOf, c, p

LEMMA ExpireSets ==
    ASSUME NEW b, Orderly(b), NEW now
    PROVE  /\ GrantsOf(ExpireBlock(b, now)) = GrantsOf(b)
           /\ QueueOf(ExpireBlock(b, now)) =
                 {w \in QueueOf(b) : ~(w.deadline # NoDeadline /\ w.deadline <= now)}
<1>. DEFINE K == DOMAIN b.pending \ Overdue(b, now)
<1>1. /\ GrantsOf(ExpireBlock(b, now)) = GrantsOf(b)
      /\ QueueOf(ExpireBlock(b, now)) = {b.pending[k] : k \in K}
  BY CutQueueSets DEF ExpireBlock
<1>. QED
  BY <1>1 DEF QueueOf, Overdue

LEMMA PurgeServes ==
    ASSUME NEW b, Orderly(b), NEW o
    PROVE  Served(PurgeBlock(b, o), b, o)
<1>. DEFINE mine == {i \in DOMAIN b.pending : b.pending[i].owner = o}
            rest == [b EXCEPT !.pending = AtPositions(@, DOMAIN b.pending \ mine)]
<1>1. Orderly(rest)
  BY CutQueueOrderly
<1>2. /\ GrantsOf(rest) = GrantsOf(b)
      /\ QueueOf(rest) = {b.pending[k] : k \in DOMAIN b.pending \ mine}
  BY CutQueueSets
<1>3. QueueOf(rest) = QueueWithout(b, o) /\ QueueWithout(rest, o) = QueueWithout(b, o)
  BY <1>2 DEF QueueOf, QueueWithout
<1>4. PurgeBlock(b, o) = IF HoldsOn(rest, o) THEN DequeueBlock(rest, o) ELSE Reap(rest)
  BY DEF PurgeBlock
<1>. HIDE DEF rest
<1>5. CASE HoldsOn(rest, o)
  <2>1. Served(DequeueBlock(rest, o), rest, o)
    BY <1>1, <1>5, DequeueServes
  <2>. QED
    BY <1>2, <1>3, <1>4, <1>5, <2>1 DEF Served
<1>6. CASE ~HoldsOn(rest, o)
  <2>1. \A g \in GrantsOf(b) : g.owner # o
    BY <1>2, <1>6 DEF HoldsOn, GrantsOf
  <2>. QED
    BY <1>2, <1>3, <1>4, <1>6, <2>1, ReapSets DEF Served
<1>. QED
  BY <1>5, <1>6

LEMMA OnSets ==
    ASSUME NEW b, NEW o
    PROVE  /\ HoldsOn(b, o) <=> \E g \in GrantsOf(b) : g.owner = o
           /\ ParkedOn(b, o) <=> \E w \in QueueOf(b) : w.owner = o
BY DEF HoldsOn, ParkedOn, GrantsOf, QueueOf

(* What the grant test of enqueue says of the requests of the block. *)
LEMMA AdmitsSets ==
    ASSUME NEW b, Orderly(b), NEW m \in Mode
    PROVE  Admits(b, m) <=>
              /\ \A g \in GrantsOf(b) : Compatible(m, g.mode)
              /\ \A w \in QueueOf(b) : Compatible(m, w.mode) /\ Compatible(w.mode, m)
<1>1. Sound(b) /\ MutuallyCompatible(b)
  BY DEF Orderly
<1>2. Compatible(m, State(b)) => \A g \in GrantsOf(b) : Compatible(m, g.mode)
  BY <1>1, ProbeIsSound DEF GrantsOf
<1>3. ASSUME \A g \in GrantsOf(b) : Compatible(m, g.mode) PROVE Compatible(m, State(b))
  <2>1. CASE State(b) = None_
    BY <2>1, CompatibleTable, ModeNumbers DEF None_
  <2>2. CASE State(b) # None_
    BY <1>1, <1>3, <2>2, StateIsHighest DEF GrantsOf
  <2>. QED
    BY <2>1, <2>2
<1>4. ~BlockedByQueue(b, m) <=>
          \A w \in QueueOf(b) : Compatible(m, w.mode) /\ Compatible(w.mode, m)
  BY DEF BlockedByQueue, QueueOf
<1>. QED
  BY <1>2, <1>3, <1>4 DEF Admits
=============================================================================
