-------------------------- MODULE CarefulFlushProofs --------------------------
(***************************************************************************)
(* What a flush keeps for any number of pages, any types of them and any   *)
(* order of crash: every changed page reaches the file exactly once, and,  *)
(* as long as the search of the graph stays within its budget, no page     *)
(* gets there ahead of one it has to follow.                               *)
(***************************************************************************)
EXTENDS CarefulFlush, PageCacheProofs, FiniteSetTheorems

(* All that build_plan asks of the Cache, and what is in the file's list. *)
Loops == ContentLoops \cup AllocationLoops \cup HeaderLoops \cup TipLoops
Listed == {order[i] : i \in 1..Len(order)}

FlushTypeInv ==
    /\ changed \subseteq Pages
    /\ plan \subseteq Loops
    /\ order \in Seq(Pages)
    /\ written \in 0..Len(order)
    /\ stage \in {"mark", "plan", "flush", "write", "done"}

(* Which stage the Cache is in.                                            *)
StageInv ==
    /\ stage = "mark" =>
          dirty = {} /\ order = <<>> /\ op = "idle" /\ (\A p \in Pages : higher[p] = {})
    /\ stage \in {"mark", "plan", "flush"} => written = 0
    /\ stage = "plan" => op \in {"idle", "write"}
    /\ stage = "flush" => op = "flush"
    /\ stage \in {"flush", "write", "done"} => plan = {}
    /\ stage \in {"write", "done"} => op = "idle" /\ dirty = {}
    /\ stage = "done" => written = Len(order)

(* A changed page is dirty until it is written, and nothing makes it dirty *)
(* again.                                                                  *)
OnceInv ==
    /\ Listed \subseteq changed
    /\ stage # "mark" => dirty = changed \ Listed
    /\ \A i, j \in 1..Len(order) : order[i] = order[j] => i = j

BInv == IInv /\ FlushTypeInv /\ StageInv /\ OnceInv

-------------------------------------------------------------------------------
(* The precedence calls as triples.                                        *)
LEMMA LoopsAreTriples ==
    ASSUME NEW c \in Loops
    PROVE  /\ c = <<c[1], c[2], c[3]>>
           /\ c[1] \in 1..8 /\ c[2] \in changed /\ c[3] \in changed
           /\ Window(c) \in changed /\ First(c) \in changed
BY DEF Loops, ContentLoops, AllocationLoops, HeaderLoops, TipLoops, HeaderLoop, Of, Window, First

(* A set of natural numbers that is not empty has a least element.         *)
LEMMA LeastNatural ==
    ASSUME NEW S \in SUBSET Nat, S # {}
    PROVE  \E p \in S : \A q \in S : p <= q
<1>1. PICK p \in S : \A q \in S : ~(<<q, p>> \in OpToRel(<, Nat))
  BY NatLessThanWellFounded, WFMin
<1>2. \A q \in S : ~(q < p)
  BY <1>1, Zenon DEF OpToRel
<1>. QED
  BY <1>2

(* The calls are made in an order: as long as some are left there is one   *)
(* that comes before the others, and NextOrder takes one that is left.     *)
LEMMA EarliestIsLeft ==
    ASSUME FlushTypeInv, plan # {}
    PROVE  (CHOOSE x \in plan : \A y \in plan \ {x} : Earlier(x, y)) \in plan
<1>1. ASSUME NEW c \in plan
      PROVE  c = <<c[1], c[2], c[3]>> /\ c[1] \in Nat /\ c[2] \in Nat /\ c[3] \in Nat
  <2>1. c \in Loops /\ changed \subseteq Nat
    BY PageCacheAssumption DEF FlushTypeInv
  <2>2. /\ c = <<c[1], c[2], c[3]>>
        /\ c[1] \in 1..8 /\ c[2] \in changed /\ c[3] \in changed
    BY <2>1, LoopsAreTriples
  <2>. QED
    BY <2>1, <2>2
<1>. DEFINE A == {c[1] : c \in plan}
<1>2. PICK a \in A : \A q \in A : a <= q
  BY <1>1, LeastNatural
<1>. DEFINE B == {c[2] : c \in {d \in plan : d[1] = a}}
<1>3. PICK b \in B : \A q \in B : b <= q
  <2>1. B \in SUBSET Nat /\ B # {}
    BY <1>1, <1>2
  <2>. QED
    BY <2>1, LeastNatural
<1>. DEFINE C == {c[3] : c \in {d \in plan : d[1] = a /\ d[2] = b}}
<1>4. PICK e \in C : \A q \in C : e <= q
  BY <1>1, <1>2, <1>3, LeastNatural
<1>5. PICK x \in plan : x[1] = a /\ x[2] = b /\ x[3] = e
  BY <1>4
<1>6. ASSUME NEW y \in plan \ {x} PROVE Earlier(x, y)
  <2>1. y \in plan /\ y # x /\ y[1] \in Nat /\ y[2] \in Nat /\ y[3] \in Nat
    BY <1>1, <1>6
  <2>2. /\ a \in Nat /\ b \in Nat /\ e \in Nat
        /\ x = <<a, b, e>> /\ y = <<y[1], y[2], y[3]>>
    BY <1>1, <1>5, <2>1
  <2>3. y[1] # a \/ y[2] # b \/ y[3] # e
    BY <2>1, <2>2
  <2>4. a <= y[1] /\ (y[1] = a => b <= y[2]) /\ (y[1] = a /\ y[2] = b => e <= y[3])
    BY <1>2, <1>3, <1>4, <2>1
  <2>. QED
    BY <1>5, <2>1, <2>2, <2>3, <2>4 DEF Earlier
<1>. QED
  BY <1>6

LEMMA InitBInv == Init => BInv
<1>. SUFFICES ASSUME Init PROVE BInv
  OBVIOUS
<1>1. IInv
  BY InitIInv DEF Init
<1>2. changed \subseteq Pages
  BY DEF Init, changed
<1>3. Listed = {} /\ Len(order) = 0 /\ order \in Seq(Pages)
  BY DEF Init, Listed
<1>. QED
  BY <1>1, <1>2, <1>3 DEF Init, CacheInit, BInv, FlushTypeInv, StageInv, OnceInv

-------------------------------------------------------------------------------
LEMMA MarkAllBInv ==
    ASSUME BInv, MarkAll
    PROVE  BInv'
<1>. USE DEF MarkAll, BInv, FlushTypeInv, StageInv, OnceInv
<1>1. changed' = changed /\ Listed' = Listed /\ Listed = {} /\ Loops' = Loops
  BY DEF changed, Listed, Loops, ContentLoops, AllocationLoops, HeaderLoops, TipLoops, Of
<1>2. IInv'
  BY <1>1 DEF IInv, TypeInv, OneGraph, FirstIsDirty, NoCycle, StackFollowsGraph, FlushInv
<1>3. plan' = Loops
  BY DEF Loops
<1>. QED
  BY <1>1, <1>2, <1>3

(* What a step that leaves the pages' types and the list alone keeps.      *)
LEMMA SameLists ==
    ASSUME UNCHANGED <<kind, order>>
    PROVE  changed' = changed /\ Listed' = Listed /\ Loops' = Loops
BY DEF changed, Listed, Loops, ContentLoops, AllocationLoops, HeaderLoops, TipLoops, Of

LEMMA NextOrderBInv ==
    ASSUME BInv, NextOrder
    PROVE  BInv'
<1>. DEFINE c == CHOOSE x \in plan : \A y \in plan \ {x} : Earlier(x, y)
<1>1. c \in plan
  BY EarliestIsLeft DEF NextOrder, BInv
<1>. HIDE DEF c
<1>2. Window(c) \in Pages /\ First(c) \in Pages
  BY <1>1, LoopsAreTriples DEF BInv, FlushTypeInv
<1>3. /\ stage = "plan" /\ plan' = plan \ {c}
      /\ UNCHANGED <<kind, order, written, stage>>
      /\ UNCHANGED cacheVars \/ Precedence(Window(c), First(c))
  BY DEF NextOrder, c
<1>4. IInv'
  <2>1. CASE UNCHANGED cacheVars
    BY <2>1, NextIInv DEF BInv
  <2>2. CASE Precedence(Window(c), First(c))
    BY <1>2, <2>2, PrecedenceStep DEF BInv
  <2>. QED
    BY <1>3, <2>1, <2>2
<1>5. dirty' = dirty /\ op' \in {op, "write"}
  BY <1>3 DEF cacheVars, Precedence, Call, AddEdge
<1>. QED
  BY <1>3, <1>4, <1>5, SameLists DEF BInv, FlushTypeInv, StageInv, OnceInv

LEMMA StartFlushBInv ==
    ASSUME BInv, StartFlush
    PROVE  BInv'
<1>1. IInv'
  BY FlushStep DEF StartFlush, BInv
<1>. QED
  BY <1>1, SameLists DEF StartFlush, Flush, BInv, FlushTypeInv, StageInv, OnceInv

(* The page a physical write puts at the end of the list was dirty.        *)
LEMMA WriteIsListed ==
    ASSUME BInv, CacheWrites
    PROVE  /\ Last(calls) \in dirty /\ Last(calls) \in Pages
           /\ higher[Last(calls)] = {}
           /\ order' \in Seq(Pages) /\ Len(order') = Len(order) + 1
           /\ order'[Len(order) + 1] = Last(calls)
           /\ \A i \in 1..Len(order) : order'[i] = order[i]
           /\ Listed' = Listed \cup {Last(calls)}
           /\ op \in {"write", "flush"} /\ stage \in {"plan", "flush"}
<1>1. Last(calls) \in dirty /\ Last(calls) \in Pages /\ higher[Last(calls)] = {}
  BY DEF CacheWrites, WritePage, BInv, IInv, TypeInv
<1>2. /\ order' \in Seq(Pages) /\ Len(order') = Len(order) + 1
      /\ order'[Len(order) + 1] = Last(calls)
      /\ \A i \in 1..Len(order) : order'[i] = order[i]
  BY <1>1, AppendProperties DEF CacheWrites, BInv, FlushTypeInv
<1>3. Listed' = Listed \cup {Last(calls)}
  <2>1. Len(order) \in Nat
    BY LenProperties DEF BInv, FlushTypeInv
  <2>2. 1..Len(order') = (1..Len(order)) \cup {Len(order) + 1}
    BY <1>2, <2>1
  <2>. QED
    BY <1>2, <2>2 DEF Listed
<1>4. op # "idle" /\ stage \notin {"mark", "write", "done"}
  BY DEF CacheWrites, WritePage, BInv, IInv, TypeInv, StageInv
<1>. QED
  BY <1>1, <1>2, <1>3, <1>4 DEF BInv, IInv, TypeInv, FlushTypeInv

LEMMA CacheWritesBInv ==
    ASSUME BInv, CacheWrites
    PROVE  BInv'
<1>. DEFINE p == Last(calls)
<1>1. IInv'
  BY WritePageStep DEF CacheWrites, BInv
<1>2. /\ dirty' = dirty \ {p} /\ UNCHANGED <<todo, op, kind, plan, written, stage>>
  BY DEF CacheWrites, WritePage
<1>3. changed' = changed /\ Loops' = Loops
  BY <1>2 DEF changed, Loops, ContentLoops, AllocationLoops, HeaderLoops, TipLoops, Of
<1>4. Len(order) \in Nat
  BY LenProperties DEF BInv, FlushTypeInv
<1>5. p \in changed \ Listed
  BY WriteIsListed DEF BInv, OnceInv
<1>. HIDE DEF p
<1>6. /\ Listed' = Listed \cup {p} /\ order' \in Seq(Pages)
      /\ Len(order') = Len(order) + 1 /\ order'[Len(order) + 1] = p
      /\ \A i \in 1..Len(order) : order'[i] = order[i]
      /\ stage \in {"plan", "flush"} /\ op \in {"write", "flush"}
  BY WriteIsListed DEF p
<1>7. ASSUME NEW i \in 1..Len(order'), NEW j \in 1..Len(order'), order'[i] = order'[j]
      PROVE  i = j
  <2>1. /\ i \in 1..Len(order) \/ i = Len(order) + 1
        /\ j \in 1..Len(order) \/ j = Len(order) + 1
    BY <1>4, <1>6
  <2>2. \A k \in 1..Len(order) : order[k] # p
    BY <1>5 DEF Listed
  <2>. QED
    BY <1>6, <1>7, <2>1, <2>2 DEF BInv, OnceInv
<1>8. OnceInv'
  BY <1>2, <1>3, <1>5, <1>6, <1>7 DEF BInv, OnceInv
<1>9. FlushTypeInv' /\ StageInv'
  BY <1>2, <1>3, <1>4, <1>6 DEF BInv, FlushTypeInv, StageInv
<1>. QED
  BY <1>1, <1>8, <1>9 DEF BInv

LEMMA CacheDrainsBInv ==
    ASSUME BInv, CacheDrains
    PROVE  BInv'
<1>1. IInv'
  BY DescendStep, ReturnCleanStep, FlushNextStep DEF CacheDrains, BInv
<1>2. UNCHANGED <<dirty, higher, op, kind, plan, order, written, stage>>
  BY DEF CacheDrains, Descend, ReturnClean, FlushNext, planVars
<1>. QED
  BY <1>1, <1>2, SameLists DEF BInv, FlushTypeInv, StageInv, OnceInv

LEMMA CacheReturnsBInv ==
    ASSUME BInv, CacheReturns
    PROVE  BInv'
<1>1. IInv'
  BY DoneStep DEF CacheReturns, BInv
<1>2. stage = "flush" => dirty = {}
  BY DEF CacheReturns, Done, BInv, StageInv, IInv, FlushInv
<1>. QED
  BY <1>1, <1>2, SameLists DEF CacheReturns, Done, BInv, FlushTypeInv, StageInv, OnceInv, IInv

LEMMA FileStepBInv ==
    ASSUME BInv, WriteFile \/ Finish
    PROVE  BInv'
<1>1. IInv'
  BY NextIInv DEF WriteFile, Finish, BInv
<1>2. Len(order) \in Nat
  BY LenProperties DEF BInv, FlushTypeInv
<1>. QED
  BY <1>1, <1>2, SameLists
     DEF WriteFile, Finish, cacheVars, BInv, FlushTypeInv, StageInv, OnceInv

LEMMA NextBInv ==
    ASSUME BInv, [Next]_vars
    PROVE  BInv'
<1>1. CASE Next
  BY <1>1, MarkAllBInv, NextOrderBInv, StartFlushBInv, CacheWritesBInv, CacheDrainsBInv,
     CacheReturnsBInv, FileStepBInv DEF Next
<1>2. CASE UNCHANGED vars
  <2>1. IInv'
    BY <1>2, NextIInv DEF vars, cacheVars, BInv
  <2>. QED
    BY <1>2, <2>1, SameLists DEF vars, BInv, FlushTypeInv, StageInv, OnceInv
<1>. QED
  BY <1>1, <1>2

-------------------------------------------------------------------------------
(* The stages of flush_careful follow each other and no page is on the list *)
(* of writes twice, for any pages of any types.                             *)
THEOREM FlushInvariant == Spec => []BInv
BY InitBInv, NextBInv, PTL DEF Spec

(* When flush_careful is done the file holds every changed page, and the   *)
(* Cache wrote each of them once, whatever the search of the graph forced  *)
(* out early: for any finite number of pages of any types.                 *)
THEOREM EachPageIsWrittenOnce == Spec => []AllWrittenOnce
<1>1. ASSUME BInv PROVE AllWrittenOnce
  <2>1. SUFFICES ASSUME stage = "done" PROVE OnDisk = changed /\ Len(order) = Cardinality(changed)
    BY DEF AllWrittenOnce
  <2>2. OnDisk = Listed /\ Listed = changed /\ Len(order) \in Nat
    BY <1>1, <2>1, LenProperties DEF BInv, FlushTypeInv, StageInv, OnceInv, OnDisk, Listed
  <2>3. order \in Bijection(1..Len(order), changed)
    <3>1. \A i \in 1..Len(order) : order[i] \in changed
      BY <2>2 DEF Listed
    <3>2. order \in [1..Len(order) -> changed]
      BY <1>1, <3>1, LenProperties, SeqDef DEF BInv, FlushTypeInv
    <3>. QED
      BY <1>1, <2>2, <3>2 DEF Bijection, Injection, Surjection, IsInjective, BInv, OnceInv, Listed
  <2>4. ExistsBijection(1..Len(order), changed)
    BY <2>3 DEF ExistsBijection
  <2>. QED
    BY <2>2, <2>4, FS_Bijection, FS_Interval
<1>. QED
  BY <1>1, FlushInvariant, PTL

-------------------------------------------------------------------------------
(* The order of the writes.  Every precedence call goes down in this rank, *)
(* so no call closes a cycle; only a search that ran out of budget can     *)
(* answer otherwise.                                                       *)
Rank(p) ==
    CASE kind[p] = "tip"                -> 5
      [] kind[p] \in {"pointer", "root"} -> 4
      [] kind[p] \in {"pip", "btree"}   -> 3
      [] kind[p] = "data"               -> 2
      [] kind[p] = "header"             -> 0
      [] OTHER                          -> 1

(* The search answers yes only where it has found a path: it never runs    *)
(* out of its budget.                                                      *)
WithinBudget == \A from, to \in Pages : Related(from, to) => to \in Reach(from)

DownInv ==
    /\ kind \in [changed -> Kinds \cup {"header"}]
    /\ Of("header") \subseteq {Header}
    /\ \A w \in Pages : \A f \in higher[w] :
          w \in changed /\ f \in changed /\ Rank(f) < Rank(w)

(* Every call is still to be made, an edge of the graph, or over because   *)
(* its first page is written; and nothing was written out of turn.         *)
InOrder(i) ==
    \A c \in Loops : Window(c) = order[i] => \E j \in 1..(i - 1) : order[j] = First(c)

OrderInv ==
    /\ stage = "plan" => order = <<>> /\ op = "idle"
    /\ stage # "mark" =>
          \A c \in Loops : c \in plan \/ First(c) \in higher[Window(c)] \cup Listed
    /\ \A i \in 1..Len(order) : InOrder(i)

LEMMA LoopsGoDown ==
    ASSUME DownInv, NEW c \in Loops
    PROVE  Rank(First(c)) < Rank(Window(c)) /\ Window(c) # First(c)
<1>1. \A p \in changed : kind[p] \in Kinds \cup {"header"}
  BY DEF DownInv
<1>2. CASE c \in ContentLoops \cup AllocationLoops
  BY <1>1, <1>2 DEF ContentLoops, AllocationLoops, HeaderLoop, Of, Window, First, Rank
<1>3. CASE c \in HeaderLoops
  BY <1>1, <1>3 DEF HeaderLoops, HeaderLoop, Of, Window, First, Rank, Kinds
<1>4. CASE c \in TipLoops
  BY <1>1, <1>4 DEF TipLoops, HeaderLoop, Of, Window, First, Rank, Kinds
<1>. QED
  BY <1>2, <1>3, <1>4 DEF Loops

(* The search for a path back up finds none.                               *)
LEMMA NothingIsRelated ==
    ASSUME BInv, DownInv, WithinBudget, NEW c \in Loops
    PROVE  ~Related(First(c), Window(c))
<1>. DEFINE f == First(c)
            w == Window(c)
            S == {q \in changed : Rank(q) <= Rank(f)}
<1>1. f \in changed /\ w \in changed /\ changed \subseteq Pages /\ Rank(f) < Rank(w)
  BY LoopsAreTriples, LoopsGoDown DEF BInv, FlushTypeInv
<1>. HIDE DEF f, w
<1>2. \A q \in changed : Rank(q) \in Int
  BY DEF Rank
<1>3. f \in S /\ S \in SUBSET Pages /\ w \notin S
  BY <1>1, <1>2
<1>4. \A r \in S : higher[r] \subseteq S
  BY <1>1, <1>2 DEF DownInv
<1>5. w \notin Reach(f)
  BY <1>3, <1>4 DEF Reach
<1>6. Related(f, w) => w \in Reach(f)
  BY <1>1 DEF WithinBudget
<1>. QED
  BY <1>5, <1>6 DEF f, w

LEMMA NextDownInv ==
    ASSUME BInv, DownInv, [Next]_vars
    PROVE  DownInv'
<1>1. CASE NextOrder
  <2>. DEFINE c == CHOOSE x \in plan : \A y \in plan \ {x} : Earlier(x, y)
  <2>1. c \in Loops
    BY <1>1, EarliestIsLeft DEF NextOrder, BInv, FlushTypeInv
  <2>. HIDE DEF c
  <2>2. /\ Window(c) \in changed /\ First(c) \in changed
        /\ Rank(First(c)) < Rank(Window(c))
    BY <2>1, LoopsAreTriples, LoopsGoDown
  <2>3. kind' = kind
    BY <1>1 DEF NextOrder
  <2>4. higher' = higher \/ higher' = [higher EXCEPT ![Window(c)] = @ \cup {First(c)}]
    BY <1>1 DEF NextOrder, c, cacheVars, Precedence, Call, AddEdge
  <2>5. /\ kind' \in [changed' -> Kinds \cup {"header"}] /\ Of("header")' = Of("header")
        /\ changed' = changed /\ \A p \in changed : Rank(p)' = Rank(p)
    BY <2>3 DEF DownInv, Rank, changed, Of
  <2>6. \A w \in Pages : \A f \in higher'[w] :
           f \in higher[w] \/ (w = Window(c) /\ f = First(c))
    BY <2>4 DEF BInv, IInv, TypeInv
  <2>. QED
    BY <2>2, <2>5, <2>6 DEF DownInv, Rank
<1>2. CASE ~NextOrder
  <2>1. kind' = kind
    BY <1>2 DEF Next, vars, MarkAll, StartFlush, CacheWrites, CacheDrains, planVars,
                CacheReturns, WriteFile, Finish
  <2>2. \A w \in Pages : higher'[w] \subseteq higher[w]
    BY <1>2 DEF Next, vars, MarkAll, StartFlush, Flush, CacheWrites, WritePage, ClearPrecedence,
                CacheDrains, Descend, ReturnClean, FlushNext, CacheReturns, Done, WriteFile,
                Finish, cacheVars, BInv, IInv, TypeInv
  <2>. QED
    BY <2>1, <2>2 DEF DownInv, Rank, changed, Of
<1>. QED
  BY <1>1, <1>2

LEMMA NextOrderInv ==
    ASSUME BInv, DownInv, OrderInv, WithinBudget, [Next]_vars
    PROVE  OrderInv'
<1>1. CASE MarkAll
  BY <1>1, MarkAllBInv DEF MarkAll, BInv, StageInv, OrderInv, Loops, Of, changed,
         ContentLoops, AllocationLoops, HeaderLoops, TipLoops
<1>2. CASE NextOrder
  <2>. DEFINE c == CHOOSE x \in plan : \A y \in plan \ {x} : Earlier(x, y)
  <2>1. c \in Loops
    BY <1>2, EarliestIsLeft DEF NextOrder, BInv, FlushTypeInv
  <2>. HIDE DEF c
  <2>2. /\ stage = "plan" /\ order = <<>> /\ Listed = {}
        /\ plan' = plan \ {c} /\ UNCHANGED <<kind, order, written, stage>>
        /\ Loops' = Loops /\ Listed' = Listed
    BY <1>2, SameLists DEF NextOrder, c, OrderInv, Listed
  <2>3. Window(c) \in changed /\ First(c) \in changed /\ Window(c) # First(c)
    BY <2>1, LoopsAreTriples, LoopsGoDown
  <2>4. First(c) \in dirty
    BY <2>2, <2>3 DEF BInv, OnceInv
  <2>5. \/ First(c) \in higher[Window(c)] /\ UNCHANGED cacheVars
        \/ AddEdge(Window(c), First(c)) /\ UNCHANGED op
    <3>1. CASE NothingToOrder(Window(c), First(c)) /\ UNCHANGED cacheVars
      BY <2>3, <2>4, <3>1 DEF NothingToOrder, cacheVars
    <3>2. CASE Precedence(Window(c), First(c))
      BY <2>1, <3>2, NothingIsRelated DEF Precedence
    <3>. QED
      BY <1>2, <3>1, <3>2 DEF NextOrder, c
  <2>6. /\ op' = op
        /\ First(c) \in higher'[Window(c)]
        /\ \A w \in Pages : higher[w] \subseteq higher'[w]
    BY <2>3, <2>5 DEF AddEdge, cacheVars, BInv, IInv, TypeInv, FlushTypeInv
  <2>7. \A d \in Loops : d \in plan' \/ First(d) \in higher'[Window(d)] \cup Listed'
    <3>1. SUFFICES ASSUME NEW d \in Loops, d \notin plan', d # c
                   PROVE  First(d) \in higher'[Window(d)]
      BY <2>6
    <3>2. Window(d) \in Pages
      BY LoopsAreTriples DEF BInv, FlushTypeInv
    <3>3. First(d) \in higher[Window(d)]
      BY <2>2, <3>1 DEF OrderInv
    <3>. QED
      BY <2>6, <3>2, <3>3
  <2>. QED
    BY <2>2, <2>6, <2>7 DEF OrderInv
<1>3. CASE CacheWrites
  <2>. DEFINE p == Last(calls)
  <2>1. stage = "flush" /\ plan = {}
    BY <1>3, WriteIsListed DEF OrderInv, BInv, IInv, TypeInv, StageInv
  <2>2. /\ UNCHANGED <<kind, plan, stage, op>>
        /\ higher' = [q \in Pages |-> IF q \in lower[p] THEN higher[q] \ {p} ELSE higher[q]]
    BY <1>3 DEF CacheWrites, WritePage, ClearPrecedence
  <2>3. Loops' = Loops
    BY <2>2 DEF Loops, ContentLoops, AllocationLoops, HeaderLoops, TipLoops, Of, changed
  <2>4. /\ p \in Pages /\ higher[p] = {}
        /\ Len(order') = Len(order) + 1 /\ order'[Len(order) + 1] = p
        /\ \A i \in 1..Len(order) : order'[i] = order[i]
        /\ Listed' = Listed \cup {p} /\ Len(order) \in Nat
    BY <1>3, WriteIsListed, LenProperties DEF BInv, FlushTypeInv
  <2>. HIDE DEF p
  <2>5. \A c \in Loops : Window(c) \in Pages /\ First(c) \in higher[Window(c)] \cup Listed
    BY <2>1, LoopsAreTriples DEF OrderInv, BInv, FlushTypeInv
  <2>6. \A c \in Loops : First(c) \in higher'[Window(c)] \cup Listed'
    BY <2>2, <2>4, <2>5
  <2>7. ASSUME NEW i \in 1..Len(order'), NEW c \in Loops, Window(c) = order'[i]
        PROVE  \E j \in 1..(i - 1) : order'[j] = First(c)
    <3>1. CASE i = Len(order) + 1
      <4>1. First(c) \in Listed
        BY <2>4, <2>5, <2>7, <3>1
      <4>2. PICK j \in 1..Len(order) : order[j] = First(c)
        BY <4>1 DEF Listed
      <4>. QED
        BY <2>4, <3>1, <4>2
    <3>2. CASE i # Len(order) + 1
      <4>1. i \in 1..Len(order)
        BY <2>4, <3>2
      <4>2. PICK j \in 1..(i - 1) : order[j] = First(c)
        BY <2>4, <2>7, <4>1 DEF OrderInv, InOrder
      <4>3. j \in 1..Len(order)
        BY <2>4, <4>1
      <4>. QED
        BY <2>4, <4>2, <4>3
    <3>. QED
      BY <3>1, <3>2
  <2>8. \A i \in 1..Len(order') : InOrder(i)'
    BY <2>3, <2>7 DEF InOrder, Window, First
  <2>. QED
    BY <2>1, <2>2, <2>3, <2>6, <2>8 DEF OrderInv, Window, First
<1>4. CASE StartFlush \/ CacheDrains \/ CacheReturns \/ WriteFile \/ Finish \/ UNCHANGED vars
  <2>1. UNCHANGED <<kind, plan, order, higher>>
    BY <1>4 DEF StartFlush, Flush, CacheDrains, Descend, ReturnClean, FlushNext, planVars,
                CacheReturns, Done, WriteFile, Finish, cacheVars, vars
  <2>2. /\ stage # "mark" <=> stage' # "mark"
        /\ stage' = "plan" => stage = "plan" /\ op' = op
    BY <1>4 DEF StartFlush, Flush, CacheDrains, Descend, ReturnClean, FlushNext, planVars,
                CacheReturns, Done, WriteFile, Finish, cacheVars, vars, OrderInv, BInv, StageInv
  <2>. QED
    BY <2>1, <2>2, SameLists DEF OrderInv, InOrder, Window, First
<1>. QED
  BY <1>1, <1>2, <1>3, <1>4 DEF Next

LEMMA InitOrderInv == Init => DownInv /\ OrderInv
<1>1. Init => kind \in [changed -> Kinds \cup {"header"}] /\ Of("header") \subseteq {Header}
  BY DEF Init, changed, Kinds, Of
<1>. QED
  BY <1>1 DEF Init, CacheInit, DownInv, OrderInv

(* What build_plan asked for is kept: as long as the search of the graph    *)
(* keeps within its budget, no page is written before one it must follow.   *)
THEOREM WritesInOrder == Spec /\ []WithinBudget => [](BInv /\ DownInv /\ OrderInv)
<1>1. BInv /\ DownInv /\ OrderInv /\ WithinBudget /\ [Next]_vars => (BInv /\ DownInv /\ OrderInv)'
  BY NextBInv, NextDownInv, NextOrderInv
<1>. QED
  BY <1>1, InitBInv, InitOrderInv, PTL DEF Spec

(* A page on disk has everything there that it follows. *)
LEMMA DiskInOrder ==
    ASSUME BInv, OrderInv, NEW c \in Loops, Window(c) \in OnDisk
    PROVE  First(c) \in OnDisk
<1>1. PICK i \in 1..written : Window(c) = order[i]
  BY DEF OnDisk
<1>2. written \in Nat /\ Len(order) \in Nat /\ i \in 1..Len(order)
  BY LenProperties DEF BInv, FlushTypeInv
<1>3. PICK j \in 1..(i - 1) : order[j] = First(c)
  BY <1>1, <1>2 DEF OrderInv, InOrder
<1>4. j \in 1..written
  BY <1>2
<1>. QED
  BY <1>3, <1>4 DEF OnDisk

LEMMA LoopIsBehind ==
    ASSUME BInv, OrderInv, NEW n \in 1..6, NEW w, NEW f,
           {n} \X Of(w) \X Of(f) \subseteq Loops
    PROVE  Behind(w, f)
<1>1. ASSUME NEW p \in Of(w) \cap OnDisk, NEW q \in Of(f) PROVE q \in OnDisk
  <2>. DEFINE c == <<n, p, q>>
  <2>1. c \in Loops /\ Window(c) = p /\ First(c) = q
    BY DEF Window, First, HeaderLoop
  <2>. QED
    BY <2>1, DiskInOrder
<1>. QED
  BY <1>1 DEF Behind

LEMMA DiskIsChanged ==
    ASSUME BInv
    PROVE  OnDisk \subseteq changed
BY LenProperties DEF BInv, FlushTypeInv, OnceInv, OnDisk, Listed

(* In every state a crash can leave behind, nothing in the file points     *)
(* into space: for any number of pages of any types, as long as the search *)
(* of the graph keeps within its budget.                                   *)
THEOREM NothingPointsIntoSpace == Spec /\ []WithinBudget => []NothingIntoSpace
<1>1. ASSUME BInv, OrderInv PROVE NothingIntoSpace
  <2>1. Behind("pointer", "data")
    BY <1>1, LoopIsBehind DEF Loops, ContentLoops
  <2>2. Behind("root", "btree")
    BY <1>1, LoopIsBehind DEF Loops, ContentLoops
  <2>3. Behind("btree", "data")
    BY <1>1, LoopIsBehind DEF Loops, ContentLoops
  <2>4. Behind("data", "blob")
    BY <1>1, LoopIsBehind DEF Loops, ContentLoops
  <2>. QED
    BY <2>1, <2>2, <2>3, <2>4 DEF NothingIntoSpace
<1>. QED
  BY <1>1, WritesInOrder, PTL

(* The allocation bits go out between the pages they stand for and the     *)
(* pointer pages that name those, in every prefix of a flush.              *)
THEOREM BitsGoBetween == Spec /\ []WithinBudget => []AllocatedBetween
<1>1. ASSUME BInv, OrderInv PROVE AllocatedBetween
  <2>1. Behind("pip", "data")
    BY <1>1, LoopIsBehind DEF Loops, AllocationLoops
  <2>2. Behind("pointer", "pip")
    BY <1>1, LoopIsBehind DEF Loops, AllocationLoops
  <2>. QED
    BY <2>1, <2>2 DEF AllocatedBetween
<1>. QED
  BY <1>1, WritesInOrder, PTL

(* No page is in the file before the header that counts its transaction. *)
THEOREM HeaderIsFirst == Spec /\ []WithinBudget => []HeaderFirst
<1>1. ASSUME BInv, DownInv, OrderInv PROVE HeaderFirst
  <2>1. ASSUME NEW h \in Of("header"), NEW p \in OnDisk PROVE h \in OnDisk
    <3>1. CASE p \in Of("header")
      BY <1>1, <2>1, <3>1 DEF DownInv
    <3>2. CASE p \in changed \ Of("header")
      <4>. DEFINE c == <<HeaderLoop, h, p>>
      <4>1. c \in Loops /\ Window(c) = p /\ First(c) = h
        BY <2>1, <3>2 DEF Loops, HeaderLoops, Window, First
      <4>. QED
        BY <1>1, <2>1, <4>1, DiskInOrder
    <3>. QED
      BY <1>1, <3>1, <3>2, DiskIsChanged
  <2>. QED
    BY <2>1 DEF HeaderFirst
<1>. QED
  BY <1>1, WritesInOrder, PTL

(* The inventory goes last: a transaction the file calls committed has all *)
(* of its work there, whenever the process dies.                           *)
THEOREM InventoryIsLast == Spec /\ []WithinBudget => []TipLast
<1>1. ASSUME BInv, OrderInv PROVE TipLast
  <2>1. ASSUME NEW t \in Of("tip") \cap OnDisk, NEW p \in changed \ Of("tip")
        PROVE  p \in OnDisk
    <3>. DEFINE c == <<8, t, p>>
    <3>1. c \in Loops /\ Window(c) = t /\ First(c) = p
      BY <2>1 DEF Loops, TipLoops, Window, First, HeaderLoop
    <3>. QED
      BY <1>1, <2>1, <3>1, DiskInOrder
  <2>. QED
    BY <2>1 DEF TipLast
<1>. QED
  BY <1>1, WritesInOrder, PTL

-------------------------------------------------------------------------------
(* The budget is enough for small plans.  MapThenSumSet is a recursive     *)
(* function over the subsets of a set: that there is one is shown by the   *)
(* size of the subsets, through the least size without one.                *)
LEMMA SumIsBounded ==
    ASSUME NEW h \in [Pages -> SUBSET Pages], NEW S \in SUBSET Pages
    PROVE  MapThenSumSet(LAMBDA q : Cardinality(h[q]), S) \in
               0..(Cardinality(S) * Cardinality(Pages))
<1>. DEFINE K == Cardinality(Pages)
            pick(s) == CHOOSE x \in s : TRUE
            Upto(n) == {s \in SUBSET S : Cardinality(s) <= n}
            Sums(g, D) == g = [s \in D |-> IF s = {} THEN 0
                                ELSE Cardinality(h[pick(s)]) + g[s \ {pick(s)}]]
<1>1. K \in Nat /\ Cardinality(S) \in Nat /\ IsFiniteSet(S)
  BY PageCacheAssumption, FS_Subset, FS_CardinalityType
<1>2. \A s \in SUBSET S : IsFiniteSet(s) /\ Cardinality(s) \in Nat /\ Cardinality(s) <= Cardinality(S)
  BY <1>1, FS_Subset, FS_CardinalityType
<1>3. \A p \in Pages : Cardinality(h[p]) \in 0..K
  BY <1>1, PageCacheAssumption, FS_Subset, FS_CardinalityType
<1>4. ASSUME NEW s \in SUBSET S, s # {}
      PROVE  /\ pick(s) \in s /\ pick(s) \in Pages /\ s \ {pick(s)} \in SUBSET S
             /\ Cardinality(s \ {pick(s)}) = Cardinality(s) - 1
             /\ Cardinality(s) > 0
  <2>1. pick(s) \in s
    BY <1>4
  <2>2. Cardinality(s \ {pick(s)}) = Cardinality(s) - 1
    BY <1>2, <2>1, FS_RemoveElement
  <2>3. Cardinality(s) # 0
    BY <1>2, <1>4, FS_EmptySet
  <2>. QED
    BY <1>2, <2>1, <2>2, <2>3
<1>5. Cardinality({}) = 0
  BY FS_EmptySet
<1>. HIDE DEF pick, K
<1>6. \E g : Sums(g, SUBSET S)
  <2>. DEFINE N == {n \in Nat : \A g : ~Sums(g, Upto(n))}
  <2>1. SUFFICES ASSUME N # {} PROVE FALSE
    <3>1. Upto(Cardinality(S)) = SUBSET S
      BY <1>2
    <3>2. \E g : Sums(g, Upto(Cardinality(S)))
      <4>. HIDE DEF Upto, Sums
      <4>. QED
        BY <1>1, <2>1
    <3>. HIDE DEF Upto, Sums
    <3>. QED
      BY <3>1, <3>2
  <2>2. PICK n \in N : \A q \in N : n <= q
    BY <2>1, LeastNatural
  <2>3. CASE n = 0
    <3>. DEFINE g == [s \in Upto(0) |-> 0]
    <3>1. \A s \in Upto(0) : s = {}
      BY <1>2, FS_EmptySet
    <3>2. Sums(g, Upto(0))
      BY <3>1
    <3>. QED
      BY <2>2, <2>3, <3>2
  <2>4. CASE n # 0
    <3>1. n \in Nat /\ n - 1 \in Nat /\ n - 1 \notin N
      <4>1. N \subseteq Nat
        OBVIOUS
      <4>. HIDE DEF N
      <4>. QED
        BY <2>2, <2>4, <4>1
    <3>2. \E f : Sums(f, Upto(n - 1))
      <4>. HIDE DEF Upto, Sums
      <4>. QED
        BY <3>1
    <3>3. PICK f : Sums(f, Upto(n - 1))
      BY <3>2
    <3>. DEFINE g == [s \in Upto(n) |->
                        IF s = {} THEN 0
                        ELSE Cardinality(h[pick(s)]) + f[s \ {pick(s)}]]
    <3>4. ASSUME NEW s \in Upto(n), s # {} PROVE g[s \ {pick(s)}] = f[s \ {pick(s)}]
      <4>. DEFINE r == s \ {pick(s)}
      <4>1. r \in Upto(n - 1) /\ r \in Upto(n)
        BY <1>2, <1>4, <3>1, <3>4
      <4>2. f[r] = IF r = {} THEN 0 ELSE Cardinality(h[pick(r)]) + f[r \ {pick(r)}]
        BY <3>3, <4>1
      <4>. QED
        BY <4>1, <4>2
    <3>5. Sums(g, Upto(n))
      BY <3>4
    <3>. QED
      BY <2>2, <3>5
  <2>. QED
    BY <2>3, <2>4
<1>. DEFINE sum == CHOOSE g : Sums(g, SUBSET S)
<1>7. Sums(sum, SUBSET S)
  BY <1>6
<1>8. MapThenSumSet(LAMBDA q : Cardinality(h[q]), S) = sum[S]
  BY DEF MapThenSumSet, MapThenFoldSet, pick
<1>. HIDE DEF sum
<1>9. \A s \in SUBSET S : sum[s] \in 0..(Cardinality(s) * K)
  <2>. DEFINE N == {n \in Nat : \E s \in SUBSET S : Cardinality(s) = n /\ sum[s] \notin 0..(n * K)}
  <2>1. SUFFICES ASSUME N # {} PROVE FALSE
    BY <1>2
  <2>2. PICK n \in N : \A q \in N : n <= q
    BY <2>1, LeastNatural
  <2>3. PICK s \in SUBSET S : Cardinality(s) = n /\ sum[s] \notin 0..(n * K)
    BY <2>2
  <2>4. CASE s = {}
    BY <1>1, <1>5, <1>7, <2>3, <2>4
  <2>5. CASE s # {}
    <3>1. /\ n - 1 \in Nat /\ n \in Nat
          /\ s \ {pick(s)} \in SUBSET S /\ Cardinality(s \ {pick(s)}) = n - 1
      BY <1>2, <1>4, <2>3, <2>5
    <3>2. sum[s \ {pick(s)}] \in 0..((n - 1) * K)
      <4>1. n - 1 \notin N
        <5>. HIDE DEF N
        <5>. QED
          BY <2>2, <3>1
      <4>. QED
        BY <3>1, <4>1
    <3>3. sum[s] = Cardinality(h[pick(s)]) + sum[s \ {pick(s)}]
      BY <1>7, <2>5
    <3>4. Cardinality(h[pick(s)]) \in 0..K
      BY <1>3, <1>4, <2>5
    <3>5. K + (n - 1) * K = n * K /\ (n - 1) * K \in Nat /\ n * K \in Nat
      BY <1>1, <3>1
    <3>. QED
      BY <1>1, <2>3, <3>2, <3>3, <3>4, <3>5
  <2>. QED
    BY <2>4, <2>5
<1>. QED
  BY <1>8, <1>9 DEF K

(* A plan over few pages never exhausts the search.                        *)
LEMMA FewPagesKeepTheBudget ==
    ASSUME IInv, Cardinality(Pages) * Cardinality(Pages) < RelatedLimit
    PROVE  WithinBudget
<1>1. SUFFICES ASSUME NEW p \in Pages
               PROVE  ~(1 + MapThenSumSet(LAMBDA q : Cardinality(higher[q]), Reach(p)) > RelatedLimit)
  BY DEF WithinBudget, Related
<1>2. Reach(p) \in SUBSET Pages /\ higher \in [Pages -> SUBSET Pages]
  BY DEF IInv, TypeInv, Reach
<1>3. MapThenSumSet(LAMBDA q : Cardinality(higher[q]), Reach(p)) \in
          0..(Cardinality(Reach(p)) * Cardinality(Pages))
  BY <1>2, SumIsBounded
<1>4. /\ Cardinality(Reach(p)) \in Nat /\ Cardinality(Pages) \in Nat
      /\ Cardinality(Reach(p)) <= Cardinality(Pages)
  BY <1>2, PageCacheAssumption, FS_Subset, FS_CardinalityType
<1>5. Cardinality(Reach(p)) * Cardinality(Pages) <= Cardinality(Pages) * Cardinality(Pages)
  BY <1>4
<1>. DEFINE sum == MapThenSumSet(LAMBDA q : Cardinality(higher[q]), Reach(p))
            bound == Cardinality(Reach(p)) * Cardinality(Pages)
<1>6. bound \in Nat /\ sum \in 0..bound /\ bound < RelatedLimit /\ RelatedLimit \in Nat
  BY <1>3, <1>4, <1>5, PageCacheAssumption
<1>. HIDE DEF sum, bound
<1>7. ~(1 + sum > RelatedLimit)
  BY <1>6
<1>. QED
  BY <1>7 DEF sum

(* With few enough pages in a plan - up to 31 at the source's budget of    *)
(* 1000 - the condition of the theorems above always holds.                *)
THEOREM BudgetIsEnough ==
    ASSUME Cardinality(Pages) * Cardinality(Pages) < RelatedLimit
    PROVE  Spec => []WithinBudget
<1>1. BInv => WithinBudget
  BY FewPagesKeepTheBudget DEF BInv
<1>. QED
  BY <1>1, FlushInvariant, PTL
===============================================================================
