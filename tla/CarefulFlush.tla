----------------------------- MODULE CarefulFlush -----------------------------
(***************************************************************************)
(* How a set of changed pages reaches the disk: build_plan of              *)
(* src/crates/cch/src/lib.rs orders them in a Cache by the types of the    *)
(* pages and flushes it, then flush_careful of wire/src/server.rs writes   *)
(* the pages of the file in the order of the Cache's writes.  The Cache is *)
(* the one of PageCache, here with one caller.                             *)
(*                                                                         *)
(* There is no write-ahead log.  The process may die between two writes to *)
(* the file, so every state is one a crash can leave behind: the           *)
(* invariants over OnDisk speak of the file the engine then opens.         *)
(***************************************************************************)
EXTENDS PageCache, TLC

CONSTANT Header   \* the page number of the header page (page 0 of a file)

ASSUME CarefulFlushAssumption == Header \in Pages

Kinds == {"pip", "tip", "pointer", "data", "root", "btree", "blob", "other"}

VARIABLES kind,      \* the type of every changed page
          plan,      \* the precedence calls still to make
          order,     \* the writes of the Cache, in order (write_order)
          written,   \* how many of them flush_careful has made to the file
          stage      \* "mark", "plan", "flush", "write" or "done"

planVars == <<kind, plan, order, written, stage>>
vars == <<dirty, higher, lower, calls, todo, op, kind, plan, order, written, stage>>

changed == DOMAIN kind
Of(k) == {p \in changed : kind[p] = k}
OnDisk == {order[i] : i \in 1..written}

-------------------------------------------------------------------------------
(* The precedence calls of build_plan: the number of the loop nest, the    *)
(* page of its outer and the page of its inner loop.  All nests but the    *)
(* header's run over the windows outside.                                  *)
HeaderLoop == 7
Window(c) == IF c[1] = HeaderLoop THEN c[3] ELSE c[2]
First(c) == IF c[1] = HeaderLoop THEN c[2] ELSE c[3]

(* Mutant: nothing orders the index pages behind the records they name. *)
ContentLoops_NoRecords ==
    ({1} \X Of("pointer") \X Of("data"))
        \cup ({2} \X Of("root") \X Of("btree"))
        \cup ({4} \X Of("data") \X Of("blob"))

ContentLoops ==
    ({1} \X Of("pointer") \X Of("data"))
        \cup ({2} \X Of("root") \X Of("btree"))
        \cup ({3} \X Of("btree") \X Of("data"))
        \cup ({4} \X Of("data") \X Of("blob"))

(* Mutant: the pointer page goes out ahead of the allocation bits. *)
AllocationLoops_PointerFirst ==
    ({5} \X Of("pip") \X Of("data")) \cup ({6} \X Of("pip") \X Of("pointer"))

AllocationLoops ==
    ({5} \X Of("pip") \X Of("data")) \cup ({6} \X Of("pointer") \X Of("pip"))

(* Mutant: the header waits for the pages instead of they for it. *)
HeaderLoops_Swapped == {HeaderLoop} \X (changed \ Of("header")) \X Of("header")

HeaderLoops == {HeaderLoop} \X Of("header") \X (changed \ Of("header"))

(* Mutant: the inventory waits for data pages only. *)
TipLoops_DataOnly == {8} \X Of("tip") \X Of("data")

TipLoops == {8} \X Of("tip") \X (changed \ Of("tip"))

Earlier(c, d) ==
    \/ c[1] < d[1]
    \/ c[1] = d[1] /\ c[2] < d[2]
    \/ c[1] = d[1] /\ c[2] = d[2] /\ c[3] < d[3]

-------------------------------------------------------------------------------
(* Every changed page is marked; the types come with the pages, and the    *)
(* header may be among them.                                               *)
Init ==
    /\ CacheInit
    /\ kind \in UNION {[Pages \ {Header} -> Kinds],
                       {f \in [Pages -> Kinds \cup {"header"}] :
                           \A p \in Pages : f[p] = "header" <=> p = Header}}
    /\ plan = {}
    /\ order = <<>>
    /\ written = 0
    /\ stage = "mark"

MarkAll ==
    /\ stage = "mark"
    /\ stage' = "plan"
    /\ dirty' = changed
    /\ plan' = ContentLoops \cup AllocationLoops \cup HeaderLoops \cup TipLoops
    /\ UNCHANGED <<higher, lower, calls, todo, op, kind, order, written>>

NextOrder ==
    LET c == CHOOSE x \in plan : \A y \in plan \ {x} : Earlier(x, y)
    IN  /\ stage = "plan" /\ op = "idle"
        /\ plan # {}
        /\ plan' = plan \ {c}
        /\ \/ NothingToOrder(Window(c), First(c)) /\ UNCHANGED cacheVars
           \/ Precedence(Window(c), First(c))
        /\ UNCHANGED <<kind, order, written, stage>>

StartFlush ==
    /\ stage = "plan" /\ plan = {}
    /\ stage' = "flush"
    /\ Flush
    /\ UNCHANGED <<kind, plan, order, written>>

CacheWrites == WritePage /\ order' = Append(order, Last(calls))
                         /\ UNCHANGED <<kind, plan, written, stage>>
CacheDrains == (Descend \/ ReturnClean \/ FlushNext) /\ UNCHANGED planVars

CacheReturns ==
    /\ Done
    /\ stage' = IF stage = "flush" THEN "write" ELSE stage
    /\ UNCHANGED <<kind, plan, order, written>>

(* One page of the file. *)
WriteFile ==
    /\ stage = "write" /\ written < Len(order)
    /\ written' = written + 1
    /\ UNCHANGED <<cacheVars, kind, plan, order, stage>>

Finish ==
    /\ stage = "write" /\ written = Len(order)
    /\ stage' = "done"
    /\ UNCHANGED <<cacheVars, kind, plan, order, written>>

Next ==
    \/ MarkAll
    \/ NextOrder
    \/ StartFlush
    \/ CacheWrites
    \/ CacheDrains
    \/ CacheReturns
    \/ WriteFile
    \/ Finish

Spec == Init /\ [][Next]_vars /\ WF_vars(Next)

-------------------------------------------------------------------------------
(* Nothing on disk points into space: a page is there only with everything *)
(* it refers to - the data pages a pointer page names, the nodes under an  *)
(* index root, the records an index entry names, the blobs of a record.    *)
Behind(w, f) == Of(w) \cap OnDisk # {} => Of(f) \subseteq OnDisk
NothingIntoSpace ==
    /\ Behind("pointer", "data")
    /\ Behind("root", "btree")
    /\ Behind("btree", "data")
    /\ Behind("data", "blob")

(* A page exists before its allocation bit says so, and the bit is set     *)
(* before a pointer page names the page.                                   *)
AllocatedBetween == Behind("pip", "data") /\ Behind("pointer", "pip")

(* No page names a transaction the header on disk has not counted yet.     *)
HeaderFirst == OnDisk # {} => Of("header") \subseteq OnDisk

(* "the TIP write goes LAST: the commit flip is the atomic visibility      *)
(* switch" (careful_plan): a transaction that the file calls committed has *)
(* all of its work in the file.                                            *)
TipLast == Of("tip") \cap OnDisk # {} => changed \ Of("tip") \subseteq OnDisk

(* The file ends up with every changed page, each written once.            *)
AllWrittenOnce ==
    stage = "done" => OnDisk = changed /\ Len(order) = Cardinality(changed)

(* The flush comes to its end. *)
FlushEnds == <>(stage = "done")
===============================================================================
