------------------------------ MODULE PageCache ------------------------------
(***************************************************************************)
(* Cache of src/crates/cch/src/lib.rs: the dirty buffers and the graph of  *)
(* which page must reach the disk before which (careful writes).  A page   *)
(* is a number and whether its buffer is dirty; its bytes are left out.    *)
(*                                                                         *)
(* write_buffer calls itself for every page that must go first: `calls` is *)
(* that call stack and every physical write is a step of its own, because  *)
(* the process may die between any two of them.  Callers hold the cache    *)
(* exclusively (&mut self): no operation begins while another runs.        *)
(***************************************************************************)
EXTENDS Integers, Sequences, SequencesExt, FiniteSets, FiniteSetsExt

CONSTANTS Pages,         \* page numbers
          RelatedLimit   \* RELATED_LIMIT, 1000 in the source

ASSUME PageCacheAssumption ==
    Pages \subseteq Nat /\ IsFiniteSet(Pages) /\ RelatedLimit \in Nat

VARIABLES dirty,    \* the pages whose buffer is newer than the disk
          higher,   \* higher[p]: the pages to write before p
          lower,    \* the same edges from the other end
          calls,    \* the running write_buffer calls, innermost last
          todo,     \* what the running flush has still to write
          op        \* the operation that runs, "idle" if none

cacheVars == <<dirty, higher, lower, calls, todo, op>>

-------------------------------------------------------------------------------
CacheInit ==
    /\ dirty = {}
    /\ higher = [p \in Pages |-> {}]
    /\ lower = [p \in Pages |-> {}]
    /\ calls = <<>>
    /\ todo = {}
    /\ op = "idle"

(* Everything that goes before p, p included. *)
Reach(p) ==
    {q \in Pages : \A S \in SUBSET Pages :
        p \in S /\ (\A r \in S : higher[r] \subseteq S) => q \in S}

(* Mutant: nobody looks for a cycle. *)
Related_Never(from, to) == FALSE

(* Mutant: only the direct edge is looked at. *)
Related_OneHop(from, to) == to \in higher[from]

(* The depth-first search pops `from` and one page per edge it walks; out  *)
(* of budget it answers yes.                                               *)
Related(from, to) ==
    \/ to \in Reach(from)
    \/ 1 + MapThenSumSet(LAMBDA p : Cardinality(higher[p]), Reach(from)) > RelatedLimit

Mark(p) ==
    /\ op = "idle"
    /\ dirty' = dirty \cup {p}
    /\ UNCHANGED <<higher, lower, calls, todo, op>>

(* `first` is to reach the disk before `window`.  If window already goes   *)
(* before first, or the search gave up, window is written now instead.     *)
AddEdge(window, first) ==
    /\ higher' = [higher EXCEPT ![window] = @ \cup {first}]
    /\ lower' = [lower EXCEPT ![first] = @ \cup {window}]

Call(p) == calls' = <<p>> /\ op' = "write"

(* Mutant: an edge to a clean page is recorded as well. *)
NothingToOrder_CleanToo(window, first) ==
    window = first \/ first \in higher[window]

NothingToOrder(window, first) ==
    window = first \/ first \notin dirty \/ first \in higher[window]

Precedence(window, first) ==
    /\ op = "idle"
    /\ ~NothingToOrder(window, first)
    /\ IF Related(first, window)
       THEN Call(window) /\ UNCHANGED <<dirty, higher, lower, todo>>
       ELSE AddEdge(window, first) /\ UNCHANGED <<dirty, calls, todo, op>>

WriteBuffer(p) ==
    /\ op = "idle"
    /\ Call(p)
    /\ UNCHANGED <<dirty, higher, lower, todo>>

(* Mutant: the flush takes one page. *)
Flush_One ==
    /\ op = "idle"
    /\ op' = "flush"
    /\ todo' = IF dirty = {} THEN {} ELSE {CHOOSE p \in dirty : TRUE}
    /\ UNCHANGED <<dirty, higher, lower, calls>>

Flush ==
    /\ op = "idle"
    /\ op' = "flush"
    /\ todo' = dirty
    /\ UNCHANGED <<dirty, higher, lower, calls>>

-------------------------------------------------------------------------------
(* The innermost call.                                                     *)
Lowest(S) == CHOOSE p \in S : \A q \in S : p <= q

Descend ==
    LET p == Last(calls)
    IN  /\ calls # <<>>
        /\ higher[p] # {}
        /\ calls' = Append(calls, Lowest(higher[p]))
        /\ UNCHANGED <<dirty, higher, lower, todo, op>>

(* Mutant: the edges of the written page stay up. *)
ClearPrecedence_Never(p) == UNCHANGED <<higher, lower>>

ClearPrecedence(p) ==
    /\ higher' = [q \in Pages |-> IF q \in lower[p] THEN higher[q] \ {p} ELSE higher[q]]
    /\ lower' = [lower EXCEPT ![p] = {}]

(* The page goes to disk (write_page), and the call returns. *)
WritePage ==
    LET p == Last(calls)
    IN  /\ calls # <<>>
        /\ higher[p] = {}
        /\ p \in dirty
        /\ dirty' = dirty \ {p}
        /\ ClearPrecedence(p)
        /\ calls' = Front(calls)
        /\ UNCHANGED <<todo, op>>

ReturnClean ==
    LET p == Last(calls)
    IN  /\ calls # <<>>
        /\ higher[p] = {}
        /\ p \notin dirty
        /\ calls' = Front(calls)
        /\ UNCHANGED <<dirty, higher, lower, todo, op>>

(* The flush's loop over the pages that were dirty when it began. *)
FlushNext ==
    /\ op = "flush"
    /\ calls = <<>>
    /\ todo # {}
    /\ calls' = <<Lowest(todo)>>
    /\ todo' = todo \ {Lowest(todo)}
    /\ UNCHANGED <<dirty, higher, lower, op>>

Done ==
    /\ op # "idle"
    /\ calls = <<>>
    /\ todo = {}
    /\ op' = "idle"
    /\ UNCHANGED <<dirty, higher, lower, calls, todo>>

Run == Descend \/ WritePage \/ ReturnClean \/ FlushNext \/ Done

CacheNext ==
    \/ \E p \in Pages : Mark(p)
    \/ \E p, q \in Pages : Precedence(p, q)
    \/ \E p \in Pages : WriteBuffer(p)
    \/ Flush
    \/ Descend
    \/ WritePage
    \/ ReturnClean
    \/ FlushNext
    \/ Done

(* The code of a call runs on until it returns. *)
CacheSpec == CacheInit /\ [][CacheNext]_cacheVars /\ WF_cacheVars(Run)

-------------------------------------------------------------------------------
(* Every page that must go first is dirty.  write_buffer loops until       *)
(* higher[page] is empty and only a physical write takes an edge down: an  *)
(* edge to a clean page would make it loop for ever.                       *)
FirstIsDirty == \A p \in Pages : higher[p] \subseteq dirty

(* No page must go before itself, over any number of edges: otherwise the  *)
(* drain would recurse without end (precedence's tie break).               *)
NoCycle ==
    \A S \in SUBSET Pages : S # {} => \E p \in S : higher[p] \cap S = {}

(* The recursion follows the graph: a page is on the call stack once, each *)
(* above the page it must go before, so the depth never exceeds the number *)
(* of pages.                                                               *)
StackFollowsGraph ==
    \A i, j \in DOMAIN calls :
        /\ j = i + 1 => calls[j] \in higher[calls[i]]
        /\ i # j => calls[i] # calls[j]

(* A flush writes everything: when its loop is over nothing is dirty,      *)
(* though it decided what to write before the first page went out.         *)
FlushLeavesNothing ==
    op = "flush" /\ calls = <<>> /\ todo = {} => dirty = {}

(* Every operation returns. *)
OperationsReturn == op # "idle" ~> op = "idle"
===============================================================================
