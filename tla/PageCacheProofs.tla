--------------------------- MODULE PageCacheProofs ---------------------------
(***************************************************************************)
(* What the precedence graph of the page cache keeps for any finite number *)
(* of pages and any search budget: it has no cycle, the recursion of       *)
(* write_buffer follows it, and a flush leaves nothing dirty.              *)
(***************************************************************************)
EXTENDS PageCache, SequenceTheorems, WellFoundedInduction, TLAPS

TypeInv ==
    /\ dirty \subseteq Pages
    /\ higher \in [Pages -> SUBSET Pages]
    /\ lower \in [Pages -> SUBSET Pages]
    /\ calls \in Seq(Pages)
    /\ todo \subseteq Pages
    /\ op \in {"idle", "write", "flush"}
    /\ op # "flush" => todo = {}
    /\ op = "idle" => calls = <<>>

(* The two adjacency maps describe one graph: clear_precedence finds the   *)
(* edges to take down through `lower` and takes them out of `higher`.      *)
OneGraph == \A p, q \in Pages : q \in higher[p] <=> p \in lower[q]

(* What a flush has still to write is on its list, or is the page it is    *)
(* writing.                                                                *)
FlushInv ==
    op = "flush" => \A p \in dirty : p \in todo \/ (calls # <<>> /\ p = calls[1])

IInv ==
    /\ TypeInv
    /\ OneGraph
    /\ FirstIsDirty
    /\ NoCycle
    /\ StackFollowsGraph
    /\ FlushInv

-------------------------------------------------------------------------------
LEMMA LowestIsIn ==
    ASSUME NEW S, S \subseteq Pages, S # {}
    PROVE  Lowest(S) \in S
<1>1. S \subseteq Nat
  BY PageCacheAssumption
<1>2. PICK p \in S : \A q \in S : ~(<<q, p>> \in OpToRel(<, Nat))
  BY <1>1, NatLessThanWellFounded, WFMin
<1>3. \A q \in S : ~(q < p)
  BY <1>1, <1>2, Zenon DEF OpToRel
<1>4. \A q \in S : p <= q
  BY <1>1, <1>3
<1>. QED
  BY <1>4 DEF Lowest

LEMMA StackTop ==
    ASSUME NEW s \in Seq(Pages), s # <<>>
    PROVE  /\ Len(s) \in Nat /\ Len(s) > 0
           /\ Last(s) = s[Len(s)] /\ Last(s) \in Pages
           /\ Front(s) \in Seq(Pages)
           /\ Len(Front(s)) = Len(s) - 1
           /\ DOMAIN Front(s) = 1..(Len(s) - 1)
           /\ \A i \in 1..(Len(s) - 1) : Front(s)[i] = s[i]
<1>1. Len(s) \in Nat /\ Len(s) > 0 /\ DOMAIN s = 1..Len(s)
  BY EmptySeq, LenProperties
<1>2. Front(s) = [i \in 1..(Len(s) - 1) |-> s[i]]
  BY <1>1 DEF Front
<1>3. \A i \in 1..(Len(s) - 1) : s[i] \in Pages
  BY <1>1, ElementOfSeq
<1>4. Front(s) \in Seq(Pages) /\ Len(Front(s)) = Len(s) - 1
  BY <1>1, <1>2, <1>3, IsASeq
<1>. QED
  BY <1>1, <1>2, <1>4, ElementOfSeq DEF Last

(* Reach is closed under the edges. *)
LEMMA ReachIsClosed ==
    ASSUME TypeInv, NEW p \in Pages
    PROVE  /\ p \in Reach(p)
           /\ Reach(p) \subseteq Pages
           /\ \A r \in Reach(p) : higher[r] \subseteq Reach(p)
BY DEF TypeInv, Reach

LEMMA InitIInv == CacheInit => IInv
BY DEF CacheInit, IInv, TypeInv, OneGraph, FirstIsDirty, NoCycle, StackFollowsGraph, FlushInv

-------------------------------------------------------------------------------
(* An edge whose ends the search did not find on a path closes no cycle.   *)
LEMMA AddEdgeNoCycle ==
    ASSUME IInv, NEW window \in Pages, NEW first \in Pages,
           window # first, ~Related(first, window), AddEdge(window, first)
    PROVE  NoCycle'
<1>1. window \notin Reach(first)
  BY DEF Related
<1>2. /\ higher'[window] = higher[window] \cup {first}
      /\ \A p \in Pages : p # window => higher'[p] = higher[p]
  BY DEF AddEdge, IInv, TypeInv
<1>3. ASSUME NEW S \in SUBSET Pages, S # {}
      PROVE  \E p \in S : higher'[p] \cap S = {}
  <2>1. CASE first \in S
    <3>1. S \cap Reach(first) # {} /\ S \cap Reach(first) \in SUBSET Pages
      BY <2>1, <1>3, ReachIsClosed DEF IInv
    <3>2. PICK p \in S \cap Reach(first) : higher[p] \cap (S \cap Reach(first)) = {}
      BY <3>1 DEF IInv, NoCycle
    <3>3. higher[p] \subseteq Reach(first)
      BY <3>2, ReachIsClosed DEF IInv
    <3>4. p # window /\ higher'[p] = higher[p]
      BY <1>1, <1>2, <1>3, <3>2
    <3>. QED
      BY <3>2, <3>3, <3>4
  <2>2. CASE first \notin S
    <3>1. PICK p \in S : higher[p] \cap S = {}
      BY <1>3 DEF IInv, NoCycle
    <3>. QED
      BY <1>2, <1>3, <2>2, <3>1
  <2>. QED
    BY <2>1, <2>2
<1>. QED
  BY <1>3 DEF NoCycle

LEMMA MarkStep ==
    ASSUME IInv, NEW p \in Pages, Mark(p)
    PROVE  IInv'
BY DEF Mark, IInv, TypeInv, OneGraph, FirstIsDirty, NoCycle, StackFollowsGraph, FlushInv

LEMMA CallStep ==
    ASSUME IInv, NEW p \in Pages, op = "idle", Call(p),
           UNCHANGED <<dirty, higher, lower, todo>>
    PROVE  IInv'
<1>1. calls' \in Seq(Pages) /\ DOMAIN calls' = {1}
  BY DEF Call
<1>. QED
  BY <1>1 DEF Call, IInv, TypeInv, OneGraph, FirstIsDirty, NoCycle, StackFollowsGraph, FlushInv

LEMMA PrecedenceStep ==
    ASSUME IInv, NEW window \in Pages, NEW first \in Pages, Precedence(window, first)
    PROVE  IInv'
<1>1. CASE Related(first, window)
  BY <1>1, CallStep DEF Precedence
<1>2. CASE ~Related(first, window)
  <2>. USE <1>2 DEF Precedence, NothingToOrder, AddEdge
  <2>1. TypeInv' /\ OneGraph' /\ FirstIsDirty'
    BY DEF IInv, TypeInv, OneGraph, FirstIsDirty
  <2>2. NoCycle'
    BY AddEdgeNoCycle
  <2>3. StackFollowsGraph' /\ FlushInv'
    BY DEF IInv, TypeInv, StackFollowsGraph, FlushInv
  <2>. QED
    BY <2>1, <2>2, <2>3 DEF IInv
<1>. QED
  BY <1>1, <1>2

LEMMA FlushStep ==
    ASSUME IInv, Flush
    PROVE  IInv'
BY DEF Flush, IInv, TypeInv, OneGraph, FirstIsDirty, NoCycle, StackFollowsGraph, FlushInv

(* The page that must go first is not on the stack: the pages from it to   *)
(* the top would be a cycle.                                               *)
LEMMA DescendStep ==
    ASSUME IInv, Descend
    PROVE  IInv'
<1>. DEFINE n == Len(calls)
            q == Lowest(higher[Last(calls)])
<1>1. /\ calls \in Seq(Pages) /\ calls # <<>> /\ n \in Nat /\ n > 0 /\ DOMAIN calls = 1..n
      /\ Last(calls) = calls[n] /\ Last(calls) \in Pages
  BY StackTop, LenProperties DEF Descend, IInv, TypeInv
<1>2. q \in higher[calls[n]] /\ q \in Pages
  BY <1>1, LowestIsIn DEF Descend, IInv, TypeInv
<1>. HIDE DEF q
<1>3. /\ calls' = Append(calls, q) /\ calls' \in Seq(Pages)
      /\ DOMAIN calls' = 1..(n + 1)
      /\ \A i \in 1..n : calls'[i] = calls[i]
      /\ calls'[n + 1] = q
  BY <1>1, <1>2, AppendProperties DEF Descend, q
<1>4. \A i \in 1..n : calls[i] # q
  <2>1. SUFFICES ASSUME NEW k \in 1..n, calls[k] = q PROVE FALSE
    OBVIOUS
  <2>. DEFINE S == {calls[i] : i \in k..n}
  <2>2. S \in SUBSET Pages /\ S # {}
    BY <1>1, ElementOfSeq
  <2>3. PICK p \in S : higher[p] \cap S = {}
    BY <2>2 DEF IInv, NoCycle
  <2>4. PICK i \in k..n : p = calls[i]
    BY <2>3
  <2>5. CASE i = n
    <3>1. q \in S
      BY <1>1, <2>1
    <3>. QED
      BY <1>2, <2>3, <2>4, <2>5, <3>1
  <2>6. CASE i # n
    <3>1. i \in 1..n /\ i + 1 \in k..n /\ i + 1 \in 1..n
      <4>1. n \in Nat
        BY <1>1
      <4>. HIDE DEF n, S
      <4>. QED
        BY <2>4, <2>6, <4>1
    <3>2. calls[i + 1] \in higher[calls[i]]
      BY <1>1, <3>1 DEF IInv, StackFollowsGraph
    <3>3. calls[i + 1] \in S
      BY <3>1
    <3>. QED
      BY <2>3, <2>4, <3>2, <3>3
  <2>. QED
    BY <2>5, <2>6
<1>5. StackFollowsGraph'
  <2>1. SUFFICES ASSUME NEW i \in 1..(n + 1), NEW j \in 1..(n + 1)
                 PROVE  /\ j = i + 1 => calls'[j] \in higher[calls'[i]]
                        /\ i # j => calls'[i] # calls'[j]
    BY <1>3 DEF StackFollowsGraph, Descend
  <2>2. \A x, y \in 1..n : /\ y = x + 1 => calls[y] \in higher[calls[x]]
                           /\ x # y => calls[x] # calls[y]
    BY <1>1 DEF IInv, StackFollowsGraph
  <2>3. i \in 1..n \/ i = n + 1
    BY <1>1
  <2>4. j \in 1..n \/ j = n + 1
    BY <1>1
  <2>. QED
    BY <1>1, <1>2, <1>3, <1>4, <2>2, <2>3, <2>4
<1>6. TypeInv' /\ OneGraph' /\ FirstIsDirty' /\ NoCycle'
  BY <1>1, <1>3 DEF Descend, IInv, TypeInv, OneGraph, FirstIsDirty, NoCycle
<1>7. FlushInv'
  BY <1>1, <1>3 DEF Descend, IInv, FlushInv
<1>. QED
  BY <1>5, <1>6, <1>7 DEF IInv

LEMMA WritePageStep ==
    ASSUME IInv, WritePage
    PROVE  IInv'
<1>. DEFINE n == Len(calls)
            p == Last(calls)
<1>1. /\ calls \in Seq(Pages) /\ calls # <<>> /\ n \in Nat /\ n > 0 /\ DOMAIN calls = 1..n
      /\ p = calls[n] /\ p \in Pages
  BY StackTop, LenProperties DEF WritePage, IInv, TypeInv
<1>2. /\ calls' \in Seq(Pages) /\ DOMAIN calls' = 1..(n - 1)
      /\ \A i \in 1..(n - 1) : calls'[i] = calls[i]
      /\ calls' = <<>> <=> n = 1
  BY <1>1, StackTop, EmptySeq DEF WritePage, IInv, TypeInv
<1>. HIDE DEF p
<1>3. /\ dirty' = dirty \ {p} /\ higher[p] = {}
      /\ higher' = [q \in Pages |-> higher[q] \ {p}]
      /\ lower' = [lower EXCEPT ![p] = {}]
  BY <1>1 DEF WritePage, ClearPrecedence, IInv, TypeInv, OneGraph, p
<1>4. TypeInv'
  BY <1>1, <1>2, <1>3 DEF WritePage, IInv, TypeInv
<1>5. OneGraph' /\ FirstIsDirty'
  BY <1>1, <1>3 DEF IInv, TypeInv, OneGraph, FirstIsDirty
<1>6. NoCycle'
  <2>1. ASSUME NEW S \in SUBSET Pages, S # {}
        PROVE  \E q \in S : higher'[q] \cap S = {}
    <3>1. PICK q \in S : higher[q] \cap S = {}
      BY <2>1 DEF IInv, NoCycle
    <3>. QED
      BY <1>3, <2>1, <3>1
  <2>. QED
    BY <2>1 DEF NoCycle
<1>7. StackFollowsGraph'
  <2>1. SUFFICES ASSUME NEW i \in 1..(n - 1), NEW j \in 1..(n - 1)
                 PROVE  /\ j = i + 1 => calls[j] \in higher[calls[i]] \ {p}
                        /\ i # j => calls[i] # calls[j]
    <3>1. \A i \in 1..(n - 1) : calls[i] \in Pages
      BY <1>1, ElementOfSeq
    <3>. QED
      BY <1>2, <1>3, <2>1, <3>1 DEF StackFollowsGraph
  <2>2. i \in 1..n /\ j \in 1..n /\ n \in 1..n /\ j # n
    <3>1. n \in Nat
      BY <1>1
    <3>. HIDE DEF n
    <3>. QED
      BY <3>1
  <2>3. calls[j] # p
    BY <1>1, <2>2 DEF IInv, StackFollowsGraph
  <2>. QED
    BY <1>1, <2>2, <2>3 DEF IInv, StackFollowsGraph
<1>8. FlushInv'
  BY <1>1, <1>2, <1>3 DEF WritePage, IInv, FlushInv
<1>. QED
  BY <1>4, <1>5, <1>6, <1>7, <1>8 DEF IInv

LEMMA ReturnCleanStep ==
    ASSUME IInv, ReturnClean
    PROVE  IInv'
<1>. DEFINE n == Len(calls)
<1>1. /\ calls \in Seq(Pages) /\ calls # <<>> /\ n \in Nat /\ n > 0 /\ DOMAIN calls = 1..n
      /\ Last(calls) = calls[n]
  BY StackTop, LenProperties DEF ReturnClean, IInv, TypeInv
<1>2. /\ calls' \in Seq(Pages) /\ DOMAIN calls' = 1..(n - 1)
      /\ \A i \in 1..(n - 1) : calls'[i] = calls[i]
      /\ calls' = <<>> <=> n = 1
  BY <1>1, StackTop, EmptySeq DEF ReturnClean, IInv, TypeInv
<1>3. TypeInv' /\ OneGraph' /\ FirstIsDirty' /\ NoCycle'
  BY <1>1, <1>2 DEF ReturnClean, IInv, TypeInv, OneGraph, FirstIsDirty, NoCycle
<1>4. StackFollowsGraph'
  BY <1>1, <1>2 DEF ReturnClean, IInv, StackFollowsGraph
<1>5. FlushInv'
  BY <1>1, <1>2 DEF ReturnClean, IInv, FlushInv
<1>. QED
  BY <1>3, <1>4, <1>5 DEF IInv

LEMMA FlushNextStep ==
    ASSUME IInv, FlushNext
    PROVE  IInv'
<1>1. Lowest(todo) \in todo /\ Lowest(todo) \in Pages
  BY LowestIsIn DEF FlushNext, IInv, TypeInv
<1>2. calls' \in Seq(Pages) /\ DOMAIN calls' = {1} /\ calls'[1] = Lowest(todo)
  BY <1>1 DEF FlushNext
<1>. QED
  BY <1>1, <1>2
     DEF FlushNext, IInv, TypeInv, OneGraph, FirstIsDirty, NoCycle, StackFollowsGraph, FlushInv

LEMMA DoneStep ==
    ASSUME IInv, Done
    PROVE  IInv'
BY DEF Done, IInv, TypeInv, OneGraph, FirstIsDirty, NoCycle, StackFollowsGraph, FlushInv

LEMMA NextIInv ==
    ASSUME IInv, [CacheNext]_cacheVars
    PROVE  IInv'
<1>1. CASE CacheNext
  <2>1. ASSUME NEW p \in Pages, WriteBuffer(p) PROVE IInv'
    BY <2>1, CallStep DEF WriteBuffer
  <2>. QED
    BY <1>1, <2>1, MarkStep, PrecedenceStep, FlushStep, DescendStep, WritePageStep,
       ReturnCleanStep, FlushNextStep, DoneStep
       DEF CacheNext
<1>2. CASE UNCHANGED cacheVars
  BY <1>2 DEF cacheVars, IInv, TypeInv, OneGraph, FirstIsDirty, NoCycle, StackFollowsGraph, FlushInv
<1>. QED
  BY <1>1, <1>2

-------------------------------------------------------------------------------
THEOREM CacheInvariant == CacheSpec => []IInv
BY InitIInv, NextIInv, PTL DEF CacheSpec

(* Every page that write_buffer is to write first is dirty, so its loop    *)
(* over higher[page] ends, for any number of pages.                        *)
THEOREM PrecedenceIsDirty == CacheSpec => []FirstIsDirty
<1>1. IInv => FirstIsDirty
  BY DEF IInv
<1>. QED
  BY <1>1, CacheInvariant, PTL

(* The graph precedence builds never has a cycle, whatever the budget of   *)
(* the search: out of budget it answers as if there were one.              *)
THEOREM GraphIsAcyclic == CacheSpec => []NoCycle
<1>1. IInv => NoCycle
  BY DEF IInv
<1>. QED
  BY <1>1, CacheInvariant, PTL

(* The recursion of write_buffer never meets a page that is on its stack,  *)
(* so it is no deeper than there are pages.                                *)
THEOREM RecursionIsBounded == CacheSpec => []StackFollowsGraph
<1>1. IInv => StackFollowsGraph
  BY DEF IInv
<1>. QED
  BY <1>1, CacheInvariant, PTL

(* When the loop of a flush is over, nothing is dirty. *)
THEOREM FlushIsComplete == CacheSpec => []FlushLeavesNothing
<1>1. IInv => FlushLeavesNothing
  BY DEF IInv, FlushInv, FlushLeavesNothing
<1>. QED
  BY <1>1, CacheInvariant, PTL
===============================================================================
