-------------------------- MODULE TransactionsProofs --------------------------
(***************************************************************************)
(* What Transactions keeps, for any number of connections, rows, ids and   *)
(* failing flushes.                                                        *)
(***************************************************************************)
EXTENDS Transactions, TLAPS, SequenceTheorems, WellFoundedInduction

Vers == [tx : TxId, del : BOOLEAN]
Read == [tx : 0..MaxTx, del : BOOLEAN]
Snapshots == [limit : 0..(MaxTx + 1), active : SUBSET TxId, committed_own : SUBSET TxId]
Windows == [tx : 0..MaxTx, folded : SUBSET TxId]
TxSlots == [open : BOOLEAN, snapshot : Snapshots, tx : 0..MaxTx, nested : SUBSET TxId,
            windows : Seq(Windows), touched : BOOLEAN, prepared : BOOLEAN]

(* The numbers of a file: it has an id, and the oldest is one of its own.  *)
Numbered(f) == f \in File /\ 1 <= f.oit /\ f.oit <= f.next

Numbers == Numbered(image) /\ Numbered(flushed) /\ Numbered(disk)

Types ==
    /\ slots \in [Slots -> TxSlots]
    /\ seen \in [Slots -> [Rows -> Read]]
    /\ reconnected \in [Slots -> 0..MaxTx]
    /\ team \in [TxId -> 0..MaxTx]
    /\ told \in [TxId -> {"nothing", "committed", "undone"}]
    /\ claimed \in 0..MaxTx

-------------------------------------------------------------------------------
LEMMA LeastIsLeast ==
    ASSUME NEW S \in SUBSET Nat, S # {}
    PROVE  Least(S) \in S /\ \A j \in S : Least(S) <= j
<1>1. IsWellFoundedOn({p \in Nat \X Nat : p[1] < p[2]}, Nat)
  BY NatLessThanWellFounded DEF OpToRel
<1>2. PICK i \in S : \A j \in S : <<j, i>> \notin {p \in Nat \X Nat : p[1] < p[2]}
  BY <1>1, WFMin
<1>3. ASSUME NEW j \in S, j < i PROVE FALSE
  <2>1. <<j, i>> \in {p \in Nat \X Nat : p[1] < p[2]}
    BY <1>3
  <2>. QED
    BY <1>2, <2>1
<1>4. \A j \in S : i <= j
  BY <1>3
<1>. QED
  BY <1>4 DEF Least

LEMMA TxIds == MaxTx \in Nat \ {0} /\ TxId \subseteq Nat /\ (\A t \in TxId : t # 0) /\ 1 \in TxId
<1>1. MaxTx \in Nat \ {0}
  BY TransactionsAssumption
<1>. QED
  BY <1>1 DEF TxId

(* A read gives a version of the chain or NoRow. *)
LEMMA VisibleType ==
    ASSUME NEW tip, NEW own, NEW snap, NEW chain \in Seq(Vers)
    PROVE  Visible(tip, own, snap, chain) \in Read
<1>. DEFINE C == Counted(tip, own, snap, chain)
<1>1. NoRow \in Read
  BY TxIds DEF NoRow, Version, Read
<1>2. C \subseteq 1..Len(chain) /\ Len(chain) \in Nat
  BY LenProperties DEF Counted
<1>3. CASE C # {}
  <2>1. Least(C) \in 1..Len(chain)
    BY <1>2, <1>3, LeastIsLeast
  <2>2. chain[Least(C)] \in Vers
    BY <2>1, ElementOfSeq
  <2>. QED
    BY <1>1, <2>2, TxIds DEF Visible, Vers, Read, TxId
<1>4. CASE C = {}
  BY <1>1, <1>4 DEF Visible
<1>. QED
  BY <1>3, <1>4

LEMMA WriteOverType ==
    ASSUME NEW tip, NEW chain \in Seq(Vers), NEW v \in Vers, chain # <<>>
    PROVE  WriteOver(tip, chain, v) \in Seq(Vers)
<1>1. <<v>> \in Seq(Vers) /\ Tail(chain) \in Seq(Vers)
  BY HeadTailProperties
<1>. QED
  BY <1>1, ConcatProperties DEF WriteOver

LEMMA SweepChainType ==
    ASSUME NEW tip, NEW held, NEW chain \in Seq(Vers)
    PROVE  SweepChain(tip, held, chain) \in Seq(Vers)
<1>. DEFINE K == Remaining(tip, held, chain)
<1>1. K \subseteq 1..Len(chain) /\ Len(chain) \in Nat
  BY LenProperties DEF Remaining
<1>2. CASE K # {}
  <2>1. Least(K) \in 1..Len(chain)
    BY <1>1, <1>2, LeastIsLeast
  <2>2. chain[Least(K)] \in Vers
    BY <2>1, ElementOfSeq
  <2>3. <<chain[Least(K)]>> \in Seq(Vers) /\ <<>> \in Seq(Vers)
    BY <2>2
  <2>4. \A i \in Least(K)..Len(chain) : chain[i] \in Vers
    BY <1>1, <2>1, ElementOfSeq
  <2>5. SubSeq(chain, Least(K), Len(chain)) \in Seq(Vers)
    BY <1>1, <2>1, <2>4, SubSeqProperties
  <2>. HIDE DEF K
  <2>. QED
    BY <1>2, <2>3, <2>5 DEF SweepChain, K
<1>3. CASE K = {}
  BY <1>3 DEF SweepChain
<1>. QED
  BY <1>2, <1>3

-------------------------------------------------------------------------------
(* What the operators on files do, field by field.                         *)
LEMMA SetStateIs ==
    ASSUME NEW f \in File, NEW ids, NEW state \in TxState
    PROVE  LET w == SetState(f, ids, state)
           IN  /\ w \in File
               /\ w.next = f.next /\ w.oit = f.oit /\ w.rows = f.rows
               /\ \A t \in TxId : w.tip[t] = IF t \in ids THEN state ELSE f.tip[t]
<1>1. f.tip \in [TxId -> TxState]
  BY DEF File
<1>2. [t \in TxId |-> IF t \in ids THEN state ELSE f.tip[t]] \in [TxId -> TxState]
  BY <1>1
<1>. QED
  BY <1>2 DEF SetState, File

(* The oldest transaction passes committed ones only. *)
Passed(f, w) ==
    /\ f.oit <= w.oit /\ w.oit <= w.next
    /\ \A t \in TxId : f.oit <= t /\ t < w.oit => f.tip[t] = "Committed"

LEMMA OldestIs ==
    ASSUME NEW f, Numbered(f)
    PROVE  /\ OldestAt(f) \in Nat
           /\ f.oit <= OldestAt(f) /\ OldestAt(f) <= f.next
           /\ \A t \in TxId : f.oit <= t /\ t < OldestAt(f) => f.tip[t] = "Committed"
<1>. DEFINE S == {t \in f.oit..(f.next + 1) : t > f.next \/ f.tip[t] # "Committed"}
<1>1. f.next \in 0..MaxTx /\ f.oit \in 0..MaxTx /\ f.oit >= 1 /\ f.oit <= f.next
  BY DEF Numbered, File
<1>2. f.next + 1 \in S /\ S \in SUBSET Nat
  BY <1>1, TxIds
<1>3. Least(S) \in S /\ \A j \in S : Least(S) <= j
  BY <1>2, LeastIsLeast
<1>4. Least(S) \in f.oit..(f.next + 1)
  BY <1>3
<1>5. OldestAt(f) = IF Least(S) - 1 > f.oit THEN Least(S) - 1 ELSE f.oit
  BY <1>1 DEF OldestAt
<1>6. ASSUME NEW t \in TxId, f.oit <= t, t < OldestAt(f)
      PROVE  f.tip[t] = "Committed"
  <2>1. t \in Nat
    BY TxIds
  <2>2. t < Least(S) /\ t <= f.next
    BY <1>1, <1>4, <1>5, <1>6, <2>1, TxIds
  <2>3. t \notin S
    BY <1>3, <1>4, <2>1, <2>2, <1>1
  <2>. QED
    BY <2>1, <2>2, <2>3, <1>6, <1>1
<1>. QED
  BY <1>1, <1>4, <1>5, <1>6

(* Nothing is known of the ids that were not handed out. *)
Blank(f) == \A t \in TxId : t > f.next => f.tip[t] = "Active"

LEMMA BeginActiveIs ==
    ASSUME NEW f, Numbered(f), f.next < MaxTx
    PROVE  LET w == BeginActive(f)
           IN  /\ Numbered(w) /\ w.next = f.next + 1 /\ w.rows = f.rows
               /\ \A t \in TxId : w.tip[t] = IF t = f.next + 1 THEN "Active" ELSE f.tip[t]
               /\ Passed(f, w)
<1>. DEFINE set == SetState(f, {f.next + 1}, "Active")
            new == [set EXCEPT !.next = f.next + 1]
<1>1. f \in File /\ f.next \in 0..MaxTx /\ f.oit \in 0..MaxTx /\ f.oit >= 1 /\ f.oit <= f.next
  BY DEF Numbered, File
<1>2. "Active" \in TxState
  BY DEF TxState
<1>10. /\ set \in File /\ set.oit = f.oit /\ set.rows = f.rows
       /\ \A t \in TxId : set.tip[t] = IF t \in {f.next + 1} THEN "Active" ELSE f.tip[t]
  BY <1>1, <1>2, SetStateIs
<1>. HIDE DEF set
<1>11. f.next + 1 \in 0..MaxTx
  BY <1>1, TxIds
<1>3. /\ new \in File /\ new.next = f.next + 1 /\ new.oit = f.oit /\ new.rows = f.rows
      /\ \A t \in TxId : new.tip[t] = IF t = f.next + 1 THEN "Active" ELSE f.tip[t]
  BY <1>10, <1>11 DEF File
<1>4. Numbered(new)
  BY <1>1, <1>3, TxIds DEF Numbered
<1>. HIDE DEF new
<1>5. /\ OldestAt(new) \in Nat
      /\ new.oit <= OldestAt(new) /\ OldestAt(new) <= new.next
      /\ \A t \in TxId : new.oit <= t /\ t < OldestAt(new) => new.tip[t] = "Committed"
  BY <1>4, OldestIs
<1>6. BeginActive(f) = [new EXCEPT !.oit = OldestAt(new)]
  BY DEF BeginActive, new, set
<1>12. OldestAt(new) \in 0..MaxTx
  BY <1>1, <1>3, <1>5, <1>11, TxIds
<1>7. /\ BeginActive(f) \in File /\ BeginActive(f).next = f.next + 1
      /\ BeginActive(f).rows = f.rows /\ BeginActive(f).tip = new.tip
      /\ BeginActive(f).oit = OldestAt(new)
  BY <1>3, <1>6, <1>12 DEF File
<1>8. ASSUME NEW t \in TxId, f.oit <= t, t < OldestAt(new)
      PROVE  f.tip[t] = "Committed"
  BY <1>3, <1>5, <1>8
<1>. QED
  BY <1>1, <1>3, <1>5, <1>7, <1>8 DEF Numbered, Passed

(* A flush that comes through or is torn: each page of the file is as it   *)
(* was or as in the copy, and the header first of all.                     *)
Flushed(work) ==
    /\ disk'.next \in {disk.next, work.next} /\ disk'.oit \in {disk.oit, work.oit}
    /\ disk' # disk => disk'.next = work.next /\ disk'.oit = work.oit
    /\ \A r \in Rows : disk'.rows[r] \in {disk.rows[r], work.rows[r]}
    /\ \A t \in TxId : disk'.tip[t] \in {disk.tip[t], work.tip[t]}
    /\ \A t, u \in TxId : TipPage(t) = TipPage(u) =>
          \/ disk'.tip[t] = disk.tip[t] /\ disk'.tip[u] = disk.tip[u]
          \/ disk'.tip[t] = work.tip[t] /\ disk'.tip[u] = work.tip[u]

LEMMA PutIs ==
    ASSUME NEW work, Numbered(work), Numbered(disk), NEW R, NEW P
    PROVE  LET d == Put(work, R, P)
           IN  /\ Numbered(d) /\ d.next = work.next /\ d.oit = work.oit
               /\ \A r \in Rows : d.rows[r] \in {disk.rows[r], work.rows[r]}
               /\ \A t \in TxId : d.tip[t] \in {disk.tip[t], work.tip[t]}
               /\ \A t, u \in TxId : TipPage(t) = TipPage(u) =>
                     \/ d.tip[t] = disk.tip[t] /\ d.tip[u] = disk.tip[u]
                     \/ d.tip[t] = work.tip[t] /\ d.tip[u] = work.tip[u]
<1>. DEFINE d == Put(work, R, P)
            New(t) == /\ TipPage(t) \in P
                      /\ \E u \in TxId : /\ TipPage(u) = TipPage(t)
                                         /\ work.tip[u] # flushed.tip[u]
<1>1. /\ d.next = work.next /\ d.oit = work.oit
      /\ d.rows = [r \in Rows |-> IF r \in R /\ work.rows[r] # flushed.rows[r]
                                  THEN work.rows[r] ELSE disk.rows[r]]
      /\ d.tip = [t \in TxId |-> IF New(t) THEN work.tip[t] ELSE disk.tip[t]]
      /\ d = [next |-> d.next, oit |-> d.oit, rows |-> d.rows, tip |-> d.tip]
  BY DEF Put
<1>2. \A t, u \in TxId : TipPage(t) = TipPage(u) => New(t) = New(u)
  OBVIOUS
<1>. HIDE DEF d, New
<1>3. work \in File /\ disk \in File
  BY DEF Numbered
<1>4. d.rows \in [Rows -> Seq([tx : TxId, del : BOOLEAN])]
  <2>1. \A r \in Rows : /\ work.rows[r] \in Seq([tx : TxId, del : BOOLEAN])
                        /\ disk.rows[r] \in Seq([tx : TxId, del : BOOLEAN])
    BY <1>3 DEF File
  <2>2. \A r \in Rows : d.rows[r] \in Seq([tx : TxId, del : BOOLEAN])
    BY <1>1, <2>1
  <2>. QED
    BY <1>1, <2>2
<1>5. d.tip \in [TxId -> TxState]
  BY <1>1, <1>3 DEF File
<1>6. d \in File
  BY <1>1, <1>3, <1>4, <1>5 DEF File
<1>7. Numbered(d)
  BY <1>1, <1>6 DEF Numbered
<1>8. \A t, u \in TxId : TipPage(t) = TipPage(u) =>
            \/ d.tip[t] = disk.tip[t] /\ d.tip[u] = disk.tip[u]
            \/ d.tip[t] = work.tip[t] /\ d.tip[u] = work.tip[u]
  BY <1>1, <1>2
<1>. QED
  BY <1>1, <1>7, <1>8 DEF d

LEMMA FlushIs ==
    ASSUME NEW work, Numbered(work), Numbered(disk), FlushAndInstall(work) \/ FlushFails(work)
    PROVE  Numbered(disk)' /\ Flushed(work)
<1>1. \/ disk' = disk
      \/ \E R \in SUBSET Rows, P \in SUBSET TipPages : disk' = Put(work, R, P)
  <2>1. CASE FlushAndInstall(work)
    BY <2>1 DEF FlushAndInstall
  <2>2. CASE FlushFails(work)
    BY <2>2 DEF FlushFails, Torn
  <2>. QED
    BY <2>1, <2>2
<1>2. CASE disk' = disk
  BY <1>2 DEF Flushed, Numbered
<1>3. CASE \E R \in SUBSET Rows, P \in SUBSET TipPages : disk' = Put(work, R, P)
  <2>1. PICK R \in SUBSET Rows, P \in SUBSET TipPages : disk' = Put(work, R, P)
    BY <1>3
  <2>. DEFINE d == Put(work, R, P)
  <2>2. /\ Numbered(d) /\ d.next = work.next /\ d.oit = work.oit
        /\ \A r \in Rows : d.rows[r] \in {disk.rows[r], work.rows[r]}
        /\ \A t \in TxId : d.tip[t] \in {disk.tip[t], work.tip[t]}
        /\ \A t, u \in TxId : TipPage(t) = TipPage(u) =>
              \/ d.tip[t] = disk.tip[t] /\ d.tip[u] = disk.tip[u]
              \/ d.tip[t] = work.tip[t] /\ d.tip[u] = work.tip[u]
    BY PutIs
  <2>3. disk' = d
    BY <2>1
  <2>. HIDE DEF d
  <2>. QED
    BY <2>2, <2>3 DEF Flushed, Numbered
<1>. QED
  BY <1>1, <1>2, <1>3

(* A flush that comes through leaves in the file what the copy says, of    *)
(* every transaction.                                                      *)
LEMMA InstalledIs ==
    ASSUME NEW work, FlushAndInstall(work), NEW t \in TxId
    PROVE  \/ disk'.tip[t] = work.tip[t]
           \/ disk'.tip[t] = disk.tip[t] /\ work.tip[t] = flushed.tip[t]
<1>. DEFINE New(v) == /\ TipPage(v) \in TipPages
                      /\ \E u \in TxId : /\ TipPage(u) = TipPage(v)
                                         /\ work.tip[u] # flushed.tip[u]
<1>1. disk'.tip = [v \in TxId |-> IF New(v) THEN work.tip[v] ELSE disk.tip[v]]
  BY DEF FlushAndInstall, Put
<1>2. TipPage(t) \in TipPages
  BY DEF TipPages
<1>3. CASE New(t)
  BY <1>1, <1>3
<1>4. CASE ~New(t)
  <2>1. disk'.tip[t] = disk.tip[t]
    BY <1>1, <1>4
  <2>2. work.tip[t] = flushed.tip[t]
    BY <1>2, <1>4
  <2>. QED
    BY <2>1, <2>2
<1>. QED
  BY <1>3, <1>4

-------------------------------------------------------------------------------
(* The ids of a transaction and what its windows say of them.              *)
Ids(sl) == ({sl.tx} \ {0}) \cup sl.nested

LEMMA AllTxIs == \A s \in Slots : AllTx(s) = Ids(slots[s])
BY DEF AllTx, Ids

(* Every id of a window is an id of the transaction, and of that window    *)
(* only; windows[1] has none of its own.                                   *)
WindowsOk(ws, nested) ==
    /\ Len(ws) >= 1 /\ ws[1].tx = 0
    /\ \A i \in 1..Len(ws) : IdsOf(ws[i]) \subseteq nested
    /\ \A i, j \in 1..Len(ws) : i # j => IdsOf(ws[i]) \cap IdsOf(ws[j]) = {}

WindowInv(sl) == sl.tx \notin sl.nested /\ WindowsOk(sl.windows, sl.nested)

LEMMA MakeSlot ==
    ASSUME NEW o \in BOOLEAN, NEW snap \in Snapshots, NEW t \in 0..MaxTx,
           NEW nest \in SUBSET TxId, NEW ws \in Seq(Windows), NEW h \in BOOLEAN, NEW p \in BOOLEAN
    PROVE  LET sl == [open |-> o, snapshot |-> snap, tx |-> t, nested |-> nest,
                      windows |-> ws, touched |-> h, prepared |-> p]
           IN  /\ sl \in TxSlots /\ sl.open = o /\ sl.snapshot = snap /\ sl.tx = t
               /\ sl.nested = nest /\ sl.windows = ws /\ sl.touched = h /\ sl.prepared = p
BY DEF TxSlots

LEMMA SlotFields ==
    ASSUME NEW sl \in TxSlots
    PROVE  /\ sl.open \in BOOLEAN /\ sl.snapshot \in Snapshots /\ sl.tx \in 0..MaxTx
           /\ sl.nested \in SUBSET TxId /\ sl.windows \in Seq(Windows)
           /\ sl.touched \in BOOLEAN /\ sl.prepared \in BOOLEAN
           /\ sl = [open |-> sl.open, snapshot |-> sl.snapshot, tx |-> sl.tx,
                    nested |-> sl.nested, windows |-> sl.windows, touched |-> sl.touched,
                    prepared |-> sl.prepared]
BY DEF TxSlots

LEMMA IdleIs ==
    /\ Idle \in TxSlots /\ WindowInv(Idle) /\ Ids(Idle) = {}
    /\ Idle.snapshot = Latest /\ Idle.prepared = FALSE /\ Idle.open = FALSE
    /\ Idle.tx = 0 /\ Idle.nested = {} /\ Idle.windows = <<Window>> /\ Idle.touched = FALSE
<1>. DEFINE ws == <<Window>>
<1>1. Window \in Windows /\ IdsOf(Window) = {} /\ Window.tx = 0
  BY TxIds DEF Window, Windows, IdsOf
<1>2. ws \in Seq(Windows) /\ Len(ws) = 1 /\ ws[1] = Window
  BY <1>1
<1>3. Latest \in Snapshots
  BY TxIds DEF Latest, Snapshots
<1>4. Idle = [open |-> FALSE, snapshot |-> Latest, tx |-> 0, nested |-> {},
              windows |-> ws, touched |-> FALSE, prepared |-> FALSE]
  BY DEF Idle
<1>. HIDE DEF ws
<1>5. /\ Idle \in TxSlots
      /\ Idle.snapshot = Latest /\ Idle.prepared = FALSE /\ Idle.open = FALSE
      /\ Idle.tx = 0 /\ Idle.nested = {} /\ Idle.windows = ws /\ Idle.touched = FALSE
  <2>1. 0 \in 0..MaxTx /\ {} \in SUBSET TxId /\ FALSE \in BOOLEAN
    BY TxIds
  <2>. QED
    BY <1>2, <1>3, <1>4, <2>1, MakeSlot
<1>6. WindowInv(Idle)
  <2>1. \A i \in 1..Len(ws) : IdsOf(ws[i]) = {}
    <3>1. \A i \in 1..1 : i = 1
      OBVIOUS
    <3>. QED
      BY <1>1, <1>2, <3>1
  <2>2. Len(Idle.windows) = 1 /\ Idle.windows[1].tx = 0 /\ Idle.tx \notin Idle.nested
    BY <1>1, <1>2, <1>5
  <2>3. \A i \in 1..Len(Idle.windows) : IdsOf(Idle.windows[i]) = {}
    BY <1>5, <2>1
  <2>. QED
    BY <2>2, <2>3 DEF WindowInv, WindowsOk
<1>7. Ids(Idle) = {}
  BY <1>5 DEF Ids
<1>. QED
  BY <1>5, <1>6, <1>7 DEF ws

(* What WindowInv and Ids say is said of three fields only. *)
LEMMA SameWindows ==
    ASSUME NEW sl, NEW new, new.tx = sl.tx, new.nested = sl.nested, new.windows = sl.windows
    PROVE  Ids(new) = Ids(sl) /\ (WindowInv(sl) => WindowInv(new))
BY DEF Ids, WindowInv, WindowsOk

(* A transaction that begins. *)
Opened(snap) == [Idle EXCEPT !.open = TRUE, !.snapshot = snap]

LEMMA OpenedIs ==
    ASSUME NEW snap \in Snapshots
    PROVE  /\ Opened(snap) \in TxSlots /\ WindowInv(Opened(snap)) /\ Ids(Opened(snap)) = {}
           /\ Opened(snap).snapshot = snap /\ Opened(snap).prepared = FALSE
<1>. DEFINE sl == Opened(snap)
<1>1. Idle \in TxSlots /\ WindowInv(Idle) /\ Ids(Idle) = {} /\ Idle.prepared = FALSE
  BY IdleIs
<1>2. /\ sl \in TxSlots /\ sl.snapshot = snap /\ sl.prepared = FALSE
      /\ sl.tx = Idle.tx /\ sl.nested = Idle.nested /\ sl.windows = Idle.windows
  BY <1>1 DEF TxSlots, Opened
<1>. HIDE DEF sl
<1>3. WindowInv(sl) /\ Ids(sl) = {}
  BY <1>1, <1>2, SameWindows
<1>. QED
  BY <1>2, <1>3 DEF sl

(* Adopt: the id becomes the window's, or the transaction's own. *)
LEMMA AdoptIs ==
    ASSUME NEW sl \in TxSlots, WindowInv(sl), NEW tx \in TxId,
           \/ tx \notin Ids(sl)
           \/ tx = IF Len(sl.windows) = 1 THEN sl.tx ELSE sl.windows[Len(sl.windows)].tx,
           IF Len(sl.windows) = 1 THEN sl.tx \in {0, tx}
           ELSE sl.windows[Len(sl.windows)].tx \in {0, tx}
    PROVE  LET new == Adopt(sl, tx)
           IN  /\ new \in TxSlots /\ WindowInv(new)
               /\ Ids(new) = Ids(sl) \cup {tx}
               /\ new.snapshot = sl.snapshot /\ new.prepared = sl.prepared
               /\ new.touched = TRUE
<1>. DEFINE ws == sl.windows
            n == Len(sl.windows)
<1>1. /\ ws \in Seq(Windows) /\ n \in Nat /\ n >= 1 /\ sl.tx \in 0..MaxTx /\ sl.nested \subseteq TxId
      /\ tx \in 0..MaxTx /\ tx # 0 /\ 1 \in 1..n /\ n \in 1..n
  BY LenProperties, TxIds DEF TxSlots, WindowInv, WindowsOk, TxId
<1>3. CASE n = 1
  <2>. DEFINE new == [sl EXCEPT !.tx = tx, !.touched = TRUE]
  <2>1. Adopt(sl, tx) = new
    BY <1>3 DEF Adopt
  <2>2. /\ new.windows = ws /\ new.nested = sl.nested /\ new.tx = tx /\ new.touched = TRUE
        /\ new.snapshot = sl.snapshot /\ new.prepared = sl.prepared /\ new \in TxSlots
    <3>1. /\ new.windows = ws /\ new.nested = sl.nested /\ new.tx = tx /\ new.touched = TRUE
          /\ new.snapshot = sl.snapshot /\ new.prepared = sl.prepared
      BY DEF TxSlots
    <3>2. new \in TxSlots
      BY <1>1 DEF TxSlots
    <3>. QED
      BY <3>1, <3>2
  <2>. HIDE DEF new
  <2>3. tx \notin sl.nested
    BY <1>1, <1>3 DEF Ids, WindowInv, WindowsOk
  <2>4. WindowInv(new)
    BY <2>2, <2>3 DEF WindowInv, WindowsOk
  <2>5. Ids(new) = Ids(sl) \cup {tx}
    BY <1>1, <1>3, <2>2 DEF Ids
  <2>. QED
    BY <2>1, <2>2, <2>4, <2>5
<1>4. CASE n # 1
  <2>. DEFINE nw == [ws[n] EXCEPT !.tx = tx]
              vs == [ws EXCEPT ![n] = nw]
              new == [sl EXCEPT !.windows = vs, !.nested = @ \cup {tx}, !.touched = TRUE]
  <2>1. Adopt(sl, tx) = new
    <3>1. ws[n] = sl.windows[Len(sl.windows)]
      OBVIOUS
    <3>. QED
      BY <1>4 DEF Adopt
  <2>2. ws[n] \in Windows
    BY <1>1, ElementOfSeq
  <2>3. nw \in Windows /\ nw.tx = tx /\ nw.folded = ws[n].folded
    BY <1>1, <2>2 DEF Windows
  <2>. HIDE DEF nw
  <2>4. /\ vs \in Seq(Windows) /\ Len(vs) = n
        /\ \A j \in 1..n : vs[j] = IF j = n THEN nw ELSE ws[j]
    BY <1>1, <2>3, ExceptSeq
  <2>. HIDE DEF vs
  <2>5. /\ new.windows = vs /\ new.nested = sl.nested \cup {tx} /\ new.tx = sl.tx
        /\ new.touched = TRUE
        /\ new.snapshot = sl.snapshot /\ new.prepared = sl.prepared /\ new \in TxSlots
    <3>1. sl.nested \cup {tx} \in SUBSET TxId
      BY <1>1
    <3>2. new.windows = vs /\ new.nested = sl.nested \cup {tx} /\ new.tx = sl.tx
      BY DEF TxSlots
    <3>. QED
      BY <2>4, <3>1, <3>2 DEF TxSlots
  <2>. HIDE DEF new
  <2>6. IdsOf(nw) = IdsOf(ws[n]) \cup {tx}
    BY <1>1, <1>4, <2>3 DEF IdsOf
  <2>7. \A j \in 1..n : IdsOf(vs[j]) = IF j = n THEN IdsOf(ws[n]) \cup {tx} ELSE IdsOf(ws[j])
    BY <2>4, <2>6
  <2>8. \A j \in 1..n : j # n => tx \notin IdsOf(ws[j])
    <3>1. CASE tx \notin Ids(sl)
      BY <3>1 DEF Ids, WindowInv, WindowsOk
    <3>2. CASE tx = ws[n].tx
      <4>1. tx \in IdsOf(ws[n])
        BY <1>1, <3>2 DEF IdsOf
      <4>2. \A j \in 1..n : j # n => IdsOf(ws[j]) \cap IdsOf(ws[n]) = {}
        BY <1>1 DEF WindowInv, WindowsOk
      <4>. QED
        BY <4>1, <4>2
    <3>. QED
      BY <1>4, <3>1, <3>2
  <2>9. tx # sl.tx
    <3>1. CASE tx \notin Ids(sl)
      BY <1>1, <3>1 DEF Ids
    <3>2. CASE tx = ws[n].tx
      <4>1. tx \in IdsOf(ws[n])
        BY <1>1, <3>2 DEF IdsOf
      <4>. QED
        BY <1>1, <4>1 DEF WindowInv, WindowsOk
    <3>. QED
      BY <1>4, <3>1, <3>2
  <2>10. WindowInv(new)
    <3>1. Len(new.windows) >= 1 /\ new.windows[1].tx = 0
      <4>1. vs[1] = ws[1] /\ Len(vs) >= 1
        <5>1. 1 # n /\ 1 \in 1..n
          BY <1>1, <1>4
        <5>. QED
          BY <1>1, <2>4, <5>1
      <4>. QED
        BY <2>5, <4>1 DEF WindowInv, WindowsOk
    <3>2. new.tx \notin new.nested
      BY <2>5, <2>9 DEF WindowInv, WindowsOk
    <3>3. \A i \in 1..n : IdsOf(vs[i]) \subseteq sl.nested \cup {tx}
      BY <2>7 DEF WindowInv, WindowsOk
    <3>4. \A i, j \in 1..n : i # j => IdsOf(vs[i]) \cap IdsOf(vs[j]) = {}
      BY <2>7, <2>8 DEF WindowInv, WindowsOk
    <3>. QED
      BY <2>4, <2>5, <3>1, <3>2, <3>3, <3>4 DEF WindowInv, WindowsOk
  <2>11. Ids(new) = Ids(sl) \cup {tx}
    BY <2>5 DEF Ids
  <2>. QED
    BY <2>1, <2>5, <2>10, <2>11
<1>. QED
  BY <1>3, <1>4

(* Windows whose ids are those of some windows of before, each used once.  *)
Grouped(ws, vs, g) ==
    /\ Len(vs) >= 1 /\ vs[1].tx = 0
    /\ \A j \in 1..Len(vs) : /\ g[j] \subseteq 1..Len(ws)
                             /\ IdsOf(vs[j]) = UNION {IdsOf(ws[k]) : k \in g[j]}
    /\ \A j, k \in 1..Len(vs) : j # k => g[j] \cap g[k] = {}

LEMMA Regrouped ==
    ASSUME NEW ws, NEW nested, WindowsOk(ws, nested), NEW vs, NEW g, Grouped(ws, vs, g)
    PROVE  WindowsOk(vs, nested)
<1>1. \A j \in 1..Len(vs) : IdsOf(vs[j]) \subseteq nested
  BY DEF WindowsOk, Grouped
<1>2. ASSUME NEW j \in 1..Len(vs), NEW k \in 1..Len(vs), j # k,
             NEW t \in IdsOf(vs[j]), t \in IdsOf(vs[k])
      PROVE  FALSE
  <2>1. PICK a \in g[j] : t \in IdsOf(ws[a])
    BY <1>2 DEF Grouped
  <2>2. PICK b \in g[k] : t \in IdsOf(ws[b])
    BY <1>2 DEF Grouped
  <2>3. a # b /\ a \in 1..Len(ws) /\ b \in 1..Len(ws)
    BY <1>2 DEF Grouped
  <2>. QED
    BY <2>1, <2>2, <2>3 DEF WindowsOk
<1>. QED
  BY <1>1, <1>2 DEF WindowsOk, Grouped

LEMMA WindowIs == Window \in Windows /\ IdsOf(Window) = {} /\ Window.tx = 0
BY TxIds DEF Window, Windows, IdsOf

LEMMA SavepointIs ==
    ASSUME NEW ws \in Seq(Windows), NEW nested, WindowsOk(ws, nested)
    PROVE  Append(ws, Window) \in Seq(Windows) /\ WindowsOk(Append(ws, Window), nested)
<1>. DEFINE n == Len(ws)
            vs == Append(ws, Window)
            g == [j \in 1..(n + 1) |-> IF j = n + 1 THEN {} ELSE {j}]
<1>1. /\ vs \in Seq(Windows) /\ Len(vs) = n + 1 /\ n \in Nat /\ n >= 1
      /\ vs[n + 1] = Window /\ \A j \in 1..n : vs[j] = ws[j]
  BY WindowIs, AppendProperties, LenProperties DEF WindowsOk
<1>. HIDE DEF vs
<1>2. Len(vs) >= 1 /\ vs[1].tx = 0
  BY <1>1 DEF WindowsOk
<1>3. \A j \in 1..Len(vs) : /\ g[j] \subseteq 1..n
                            /\ IdsOf(vs[j]) = UNION {IdsOf(ws[k]) : k \in g[j]}
  <2>. TAKE j \in 1..Len(vs)
  <2>1. CASE j = n + 1
    BY <1>1, <2>1, WindowIs
  <2>2. CASE j # n + 1
    <3>1. j \in 1..n /\ j \in 1..(n + 1)
      BY <1>1, <2>2
    <3>2. g[j] = {j} /\ vs[j] = ws[j]
      BY <1>1, <2>2, <3>1
    <3>. HIDE DEF g
    <3>3. UNION {IdsOf(ws[k]) : k \in {j}} = IdsOf(ws[j])
      OBVIOUS
    <3>. QED
      BY <3>1, <3>2, <3>3
  <2>. QED
    BY <2>1, <2>2
<1>4. \A j, k \in 1..Len(vs) : j # k => g[j] \cap g[k] = {}
  BY <1>1
<1>. HIDE DEF g
<1>5. Grouped(ws, vs, g)
  BY <1>2, <1>3, <1>4 DEF Grouped
<1>6. WindowsOk(vs, nested)
  BY <1>5, Regrouped
<1>. QED
  BY <1>1, <1>6 DEF vs

LEMMA PrefixIs ==
    ASSUME NEW ws \in Seq(Windows), NEW i \in 1..Len(ws)
    PROVE  /\ SubSeq(ws, 1, i) \in Seq(Windows) /\ Len(SubSeq(ws, 1, i)) = i
           /\ \A j \in 1..i : SubSeq(ws, 1, i)[j] = ws[j]
<1>1. i \in Nat /\ i >= 1 /\ Len(ws) \in Nat /\ i <= Len(ws)
  BY LenProperties
<1>2. \A j \in 1..i : ws[j] \in Windows
  BY <1>1, ElementOfSeq
<1>3. 1 <= i + 1 /\ 1 \in Int /\ i \in Int
  BY <1>1
<1>. QED
  BY <1>1, <1>2, SubSeqProperties

LEMMA SuffixIs ==
    ASSUME NEW ws \in Seq(Windows), NEW n, n = Len(ws), NEW i \in 1..(n + 1)
    PROVE  /\ SubSeq(ws, i, n) \in Seq(Windows) /\ Len(SubSeq(ws, i, n)) = n - i + 1
           /\ \A j \in 1..(n - i + 1) : SubSeq(ws, i, n)[j] = ws[i + j - 1]
<1>1. i \in Int /\ n \in Int /\ i >= 1 /\ i <= n + 1
  BY LenProperties
<1>2. \A j \in i..n : ws[j] \in Windows
  BY <1>1, ElementOfSeq
<1>3. /\ SubSeq(ws, i, n) \in Seq(Windows)
      /\ Len(SubSeq(ws, i, n)) = IF i <= n THEN n - i + 1 ELSE 0
      /\ \A j \in 1..(n - i + 1) : SubSeq(ws, i, n)[j] = ws[i + j - 1]
  BY <1>1, <1>2, SubSeqProperties
<1>4. (IF i <= n THEN n - i + 1 ELSE 0) = n - i + 1
  BY <1>1
<1>. QED
  BY <1>3, <1>4

LEMMA RegroupFolded ==
    ASSUME NEW w \in Windows, NEW ids \in SUBSET TxId
    PROVE  LET v == [w EXCEPT !.folded = @ \cup ids]
           IN  v \in Windows /\ v.tx = w.tx /\ IdsOf(v) = IdsOf(w) \cup ids
<1>. DEFINE v == [w EXCEPT !.folded = @ \cup ids]
<1>1. v \in Windows /\ v.tx = w.tx /\ v.folded = w.folded \cup ids
  BY DEF Windows
<1>. HIDE DEF v
<1>2. IdsOf(v) = IdsOf(w) \cup ids
  BY <1>1 DEF IdsOf
<1>. QED
  BY <1>1, <1>2 DEF v

LEMMA WindowIds == \A w \in Windows : IdsOf(w) \subseteq TxId
BY TxIds DEF Windows, IdsOf, TxId

(* A union of ids over the indices below. *)
LEMMA OneIndex == \A ws, j : UNION {IdsOf(ws[k]) : k \in {j}} = IdsOf(ws[j])
OBVIOUS

LEMMA UnionType ==
    ASSUME NEW ws \in Seq(Windows), NEW S, S \subseteq 1..Len(ws)
    PROVE  UNION {IdsOf(ws[k]) : k \in S} \in SUBSET TxId
<1>1. \A k \in S : IdsOf(ws[k]) \subseteq TxId
  BY ElementOfSeq, WindowIds
<1>. QED
  BY <1>1

LEMMA FoldIs ==
    ASSUME NEW ws \in Seq(Windows), NEW nested, WindowsOk(ws, nested), NEW i \in 1..(Len(ws) - 1)
    PROVE  LET vs == Fold(ws, i + 1, i)
           IN  vs \in Seq(Windows) /\ WindowsOk(vs, nested)
<1>. DEFINE n == Len(ws)
            pre == SubSeq(ws, 1, i)
            more == UNION {IdsOf(ws[k]) : k \in (i + 1)..n}
            w == [pre[i] EXCEPT !.folded = @ \cup more]
            vs == [pre EXCEPT ![i] = w]
            g == [j \in 1..i |-> IF j = i THEN i..n ELSE {j}]
<1>1. n \in Nat /\ i \in 1..n /\ i \in 1..i /\ 1 \in 1..i /\ i < n /\ i \in Nat
  BY LenProperties
<1>2. pre \in Seq(Windows) /\ Len(pre) = i /\ \A j \in 1..i : pre[j] = ws[j]
  BY <1>1, PrefixIs
<1>3. Fold(ws, i + 1, i) = vs
  BY DEF Fold
<1>4. pre[i] \in Windows /\ pre[i] = ws[i]
  BY <1>1, <1>2, ElementOfSeq
<1>5. more \in SUBSET TxId
  <2>1. (i + 1)..n \subseteq 1..n
    BY <1>1
  <2>. QED
    BY <2>1, UnionType
<1>. HIDE DEF pre, more
<1>6. w \in Windows /\ w.tx = ws[i].tx /\ IdsOf(w) = IdsOf(ws[i]) \cup more
  BY <1>4, <1>5, RegroupFolded
<1>. HIDE DEF w
<1>7. /\ vs \in Seq(Windows) /\ Len(vs) = i
      /\ \A j \in 1..i : vs[j] = IF j = i THEN w ELSE ws[j]
  BY <1>1, <1>2, <1>6, ExceptSeq
<1>. HIDE DEF vs
<1>8. Len(vs) >= 1 /\ vs[1].tx = 0
  BY <1>1, <1>6, <1>7 DEF WindowsOk
<1>9. \A j \in 1..Len(vs) : /\ g[j] \subseteq 1..n
                            /\ IdsOf(vs[j]) = UNION {IdsOf(ws[k]) : k \in g[j]}
  <2>. TAKE j \in 1..Len(vs)
  <2>1. CASE j = i
    <3>1. g[j] = i..n /\ g[j] \subseteq 1..n
      BY <1>1, <2>1
    <3>2. i..n = {i} \cup (i + 1)..n
      BY <1>1
    <3>3. UNION {IdsOf(ws[k]) : k \in i..n} = IdsOf(ws[i]) \cup more
      BY <3>2 DEF more
    <3>. HIDE DEF g
    <3>. QED
      BY <1>6, <1>7, <2>1, <3>1, <3>3
  <2>2. CASE j # i
    <3>1. j \in 1..i /\ j \in 1..n /\ g[j] = {j} /\ vs[j] = ws[j]
      BY <1>1, <1>7, <2>2
    <3>. HIDE DEF g
    <3>. QED
      BY <3>1, OneIndex
  <2>. QED
    BY <2>1, <2>2
<1>10. \A j, k \in 1..Len(vs) : j # k => g[j] \cap g[k] = {}
  BY <1>1, <1>7
<1>. HIDE DEF g
<1>11. WindowsOk(vs, nested)
  <2>1. Grouped(ws, vs, g)
    BY <1>8, <1>9, <1>10 DEF Grouped
  <2>. QED
    BY <2>1, Regrouped
<1>. QED
  BY <1>3, <1>7, <1>11

LEMMA RedeclareIs ==
    ASSUME NEW ws \in Seq(Windows), NEW nested, WindowsOk(ws, nested), NEW i \in 1..(Len(ws) - 1)
    PROVE  LET merged == [ws EXCEPT ![i].folded = @ \cup IdsOf(ws[i + 1])]
               vs == SubSeq(merged, 1, i) \o SubSeq(merged, i + 2, Len(ws)) \o <<Window>>
           IN  vs \in Seq(Windows) /\ WindowsOk(vs, nested)
<1>. DEFINE n == Len(ws)
            w == [ws[i] EXCEPT !.folded = @ \cup IdsOf(ws[i + 1])]
            m == [ws EXCEPT ![i] = w]
            pre == SubSeq(m, 1, i)
            post == SubSeq(m, i + 2, n)
            vs == pre \o post \o <<Window>>
            g == [j \in 1..n |-> IF j < i THEN {j} ELSE IF j = i THEN {i, i + 1}
                                 ELSE IF j < n THEN {j + 1} ELSE {}]
<1>1. n \in Nat /\ i \in 1..n /\ i + 1 \in 1..n /\ 1 \in 1..n /\ i < n /\ i \in Nat /\ i >= 1
  BY LenProperties
<1>2. /\ w \in Windows /\ w.tx = ws[i].tx /\ IdsOf(w) = IdsOf(ws[i]) \cup IdsOf(ws[i + 1])
  <2>1. ws[i] \in Windows /\ ws[i + 1] \in Windows
    BY <1>1, ElementOfSeq
  <2>. QED
    BY <2>1, WindowIds, RegroupFolded
<1>3. [ws EXCEPT ![i].folded = @ \cup IdsOf(ws[i + 1])] = m
  OBVIOUS
<1>. HIDE DEF w
<1>4. /\ m \in Seq(Windows) /\ Len(m) = n
      /\ \A j \in 1..n : m[j] = IF j = i THEN w ELSE ws[j]
  BY <1>1, <1>2, ExceptSeq
<1>. HIDE DEF m
<1>5. pre \in Seq(Windows) /\ Len(pre) = i /\ \A j \in 1..i : pre[j] = m[j]
  BY <1>1, <1>4, PrefixIs
<1>6. /\ post \in Seq(Windows) /\ Len(post) = n - i - 1
      /\ \A j \in 1..(n - i - 1) : post[j] = m[i + 1 + j]
  <2>1. /\ post \in Seq(Windows) /\ Len(post) = n - i - 1
        /\ \A j \in 1..(n - i - 1) : post[j] = m[i + 2 + j - 1]
    <3>1. i + 2 \in 1..(n + 1) /\ n = Len(m) /\ n - (i + 2) + 1 = n - i - 1
      BY <1>1, <1>4
    <3>. QED
      BY <1>4, <3>1, SuffixIs
  <2>2. \A j \in 1..(n - i - 1) : i + 2 + j - 1 = i + 1 + j
    BY <1>1
  <2>. QED
    BY <2>1, <2>2
<1>. HIDE DEF pre, post
<1>7. /\ pre \o post \in Seq(Windows) /\ Len(pre \o post) = n - 1
      /\ \A j \in 1..(n - 1) : (pre \o post)[j] = IF j <= i THEN m[j] ELSE m[j + 1]
  <2>1. /\ pre \o post \in Seq(Windows) /\ Len(pre \o post) = i + (n - i - 1)
        /\ \A j \in 1..(i + (n - i - 1)) :
              (pre \o post)[j] = IF j <= i THEN pre[j] ELSE post[j - i]
    <3>1. /\ pre \o post \in Seq(Windows) /\ Len(pre \o post) = Len(pre) + Len(post)
          /\ \A j \in 1..(Len(pre) + Len(post)) :
                (pre \o post)[j] = IF j <= Len(pre) THEN pre[j] ELSE post[j - Len(pre)]
      BY <1>5, <1>6, ConcatProperties
    <3>. QED
      BY <1>5, <1>6, <3>1
  <2>2. i + (n - i - 1) = n - 1
    BY <1>1
  <2>3. ASSUME NEW j \in 1..(n - 1), j > i PROVE post[j - i] = m[j + 1]
    <3>1. j - i \in 1..(n - i - 1) /\ i + 1 + (j - i) = j + 1
      BY <1>1, <2>3
    <3>. QED
      BY <1>6, <3>1
  <2>4. ASSUME NEW j \in 1..(n - 1), j <= i PROVE pre[j] = m[j]
    BY <1>1, <1>5, <2>4
  <2>5. \A j \in 1..(n - 1) : j <= i \/ j > i
    BY <1>1
  <2>. QED
    BY <2>1, <2>2, <2>3, <2>4, <2>5
<1>8. /\ vs \in Seq(Windows) /\ Len(vs) = n /\ vs[n] = Window
      /\ \A j \in 1..(n - 1) : vs[j] = IF j <= i THEN m[j] ELSE m[j + 1]
  <2>. DEFINE pp == pre \o post
              one == <<Window>>
  <2>1. one \in Seq(Windows) /\ Len(one) = 1 /\ one[1] = Window
    BY WindowIs
  <2>. HIDE DEF pp, one
  <2>2. pp \in Seq(Windows) /\ Len(pp) = n - 1
        /\ \A j \in 1..(n - 1) : pp[j] = IF j <= i THEN m[j] ELSE m[j + 1]
    BY <1>7 DEF pp
  <2>3. /\ pp \o one \in Seq(Windows) /\ Len(pp \o one) = n - 1 + 1
        /\ \A j \in 1..(n - 1 + 1) :
              (pp \o one)[j] = IF j <= n - 1 THEN pp[j] ELSE one[j - (n - 1)]
    <3>1. /\ pp \o one \in Seq(Windows) /\ Len(pp \o one) = Len(pp) + Len(one)
          /\ \A j \in 1..(Len(pp) + Len(one)) :
                (pp \o one)[j] = IF j <= Len(pp) THEN pp[j] ELSE one[j - Len(pp)]
      BY <2>1, <2>2, ConcatProperties
    <3>. QED
      BY <2>1, <2>2, <3>1
  <2>4. n - 1 + 1 = n /\ n \in 1..n /\ ~(n <= n - 1) /\ n - (n - 1) = 1
    BY <1>1
  <2>5. \A j \in 1..(n - 1) : j \in 1..n /\ j <= n - 1
    BY <1>1
  <2>6. vs = pp \o one
    BY DEF pp, one
  <2>. HIDE DEF vs
  <2>. QED
    BY <2>1, <2>2, <2>3, <2>4, <2>5, <2>6
<1>. HIDE DEF vs
<1>9. \A j \in 1..n : /\ j < i => vs[j] = ws[j]
                      /\ j = i => vs[j] = w
                      /\ i < j /\ j < n => vs[j] = ws[j + 1]
                      /\ j = n => vs[j] = Window
  <2>1. \A j \in 1..n : i < j /\ j < n =>
           j \in 1..(n - 1) /\ j + 1 \in 1..n /\ ~(j <= i) /\ j + 1 # i
    BY <1>1
  <2>2. \A j \in 1..n : j <= i => j \in 1..(n - 1)
    BY <1>1
  <2>3. \A j \in 1..n : j < i => j <= i /\ j # i
    BY <1>1
  <2>. QED
    BY <1>1, <1>4, <1>8, <2>1, <2>2, <2>3
<1>10. Len(vs) >= 1 /\ vs[1].tx = 0
  BY <1>1, <1>2, <1>8, <1>9 DEF WindowsOk
<1>11. \A j \in 1..Len(vs) : /\ g[j] \subseteq 1..n
                             /\ IdsOf(vs[j]) = UNION {IdsOf(ws[k]) : k \in g[j]}
  <2>. SUFFICES ASSUME NEW j \in 1..n
                PROVE  g[j] \subseteq 1..n /\ IdsOf(vs[j]) = UNION {IdsOf(ws[k]) : k \in g[j]}
    BY <1>8
  <2>1. CASE j < i
    <3>1. j \in 1..n /\ g[j] = {j} /\ vs[j] = ws[j]
      BY <1>1, <1>9, <2>1
    <3>. HIDE DEF g
    <3>. QED
      BY <3>1, OneIndex
  <2>2. CASE j = i
    <3>1. g[j] = {i, i + 1} /\ vs[j] = w
      BY <1>1, <1>9, <2>2
    <3>2. UNION {IdsOf(ws[k]) : k \in {i, i + 1}} = IdsOf(ws[i]) \cup IdsOf(ws[i + 1])
      OBVIOUS
    <3>3. {i, i + 1} \subseteq 1..n
      BY <1>1
    <3>. HIDE DEF g
    <3>. QED
      BY <1>2, <3>1, <3>2, <3>3
  <2>3. CASE i < j /\ j < n
    <3>1. j + 1 \in 1..n /\ g[j] = {j + 1} /\ vs[j] = ws[j + 1]
      BY <1>1, <1>9, <2>3
    <3>. HIDE DEF g
    <3>. QED
      BY <3>1, OneIndex
  <2>4. CASE j = n
    <3>1. g[j] = {} /\ vs[j] = Window
      BY <1>1, <1>9, <2>4
    <3>. HIDE DEF g
    <3>. QED
      BY <3>1, WindowIs
  <2>5. j < i \/ j = i \/ (i < j /\ j < n) \/ j = n
    BY <1>1
  <2>. QED
    BY <2>1, <2>2, <2>3, <2>4, <2>5
<1>12. \A j, k \in 1..Len(vs) : j # k => g[j] \cap g[k] = {}
  BY <1>1, <1>8
<1>. HIDE DEF g
<1>13. WindowsOk(vs, nested)
  <2>1. Grouped(ws, vs, g)
    BY <1>10, <1>11, <1>12 DEF Grouped
  <2>. QED
    BY <2>1, Regrouped
<1>14. SubSeq(m, 1, i) \o SubSeq(m, i + 2, Len(ws)) \o <<Window>> = vs
  BY DEF vs, pre, post
<1>. QED
  BY <1>3, <1>8, <1>13, <1>14

(* ROLLBACK TO: the windows of later marks go, and one is opened anew. *)
LaterIds(ws, i) == UNION {IdsOf(ws[j]) : j \in (i + 1)..Len(ws)}

LEMMA BackIs ==
    ASSUME NEW ws \in Seq(Windows), NEW nested, WindowsOk(ws, nested), NEW i \in 1..(Len(ws) - 1)
    PROVE  LET vs == Append(SubSeq(ws, 1, i), Window)
               ids == LaterIds(ws, i)
           IN  vs \in Seq(Windows) /\ WindowsOk(vs, nested \ ids) /\ ids \subseteq nested
<1>. DEFINE n == Len(ws)
            ids == UNION {IdsOf(ws[j]) : j \in (i + 1)..n}
            pre == SubSeq(ws, 1, i)
            vs == Append(pre, Window)
<1>1. n \in Nat /\ i \in 1..n /\ 1 \in 1..i /\ i < n /\ i \in Nat
  BY LenProperties
<1>2. pre \in Seq(Windows) /\ Len(pre) = i /\ \A j \in 1..i : pre[j] = ws[j]
  BY <1>1, PrefixIs
<1>3. \A j \in (i + 1)..n : j \in 1..n
  BY <1>1
<1>4. ids \subseteq nested
  BY <1>3 DEF WindowsOk
<1>5. WindowsOk(pre, nested \ ids)
  <2>1. \A j \in 1..i : j \in 1..n
    BY <1>1
  <2>2. \A j \in 1..i : IdsOf(ws[j]) \cap ids = {}
    <3>1. \A j \in 1..i, k \in (i + 1)..n : j # k
      BY <1>1
    <3>2. \A j \in 1..i, k \in (i + 1)..n : IdsOf(ws[j]) \cap IdsOf(ws[k]) = {}
      BY <1>3, <2>1, <3>1 DEF WindowsOk
    <3>3. ASSUME NEW j \in 1..i, NEW t \in IdsOf(ws[j]), t \in ids PROVE FALSE
      <4>1. PICK k \in (i + 1)..n : t \in IdsOf(ws[k])
        BY <3>3
      <4>. QED
        BY <3>2, <4>1
    <3>. QED
      BY <3>3
  <2>3. \A j \in 1..i : IdsOf(pre[j]) \subseteq nested \ ids
    BY <1>2, <2>1, <2>2 DEF WindowsOk
  <2>4. Len(pre) >= 1 /\ pre[1].tx = 0
    BY <1>1, <1>2 DEF WindowsOk
  <2>5. \A j, k \in 1..i : j # k => IdsOf(pre[j]) \cap IdsOf(pre[k]) = {}
    BY <1>2, <2>1 DEF WindowsOk
  <2>. HIDE DEF ids, pre
  <2>. QED
    BY <1>2, <2>3, <2>4, <2>5 DEF WindowsOk
<1>. HIDE DEF ids, pre
<1>6. vs \in Seq(Windows) /\ WindowsOk(vs, nested \ ids)
  BY <1>2, <1>5, SavepointIs
<1>. QED
  BY <1>4, <1>6 DEF ids, pre, LaterIds

-------------------------------------------------------------------------------
(* The three files.  Of an id that is not handed out nobody knows anything *)
(* yet.  The image runs ahead of the baseline by what ROLLBACK TO killed,  *)
(* and the file ahead of it by what a failed flush left in it.             *)
Open == {"Active", "Limbo"}

Tips ==
    \A t \in TxId :
        /\ image.tip[t] # flushed.tip[t] =>
              flushed.tip[t] = "Active" /\ image.tip[t] = "Dead"
        /\ disk.tip[t] # flushed.tip[t] =>
              flushed.tip[t] \in Open /\ disk.tip[t] \in {"Committed", "Dead"}

(* Every version is of an id that was handed out. *)
Written(f) ==
    \A r \in Rows : \A i \in 1..Len(f.rows[r]) : f.rows[r][i].tx <= f.next

FilesInv ==
    /\ Blank(image) /\ Blank(disk)
    /\ Written(image) /\ Written(disk)
    /\ disk.next <= image.next
    /\ Tips

(* work is the image but for ids, which are over or prepared in it.        *)
Copy(work, ids, state) ==
    /\ state \in TxState /\ ids \subseteq TxId
    /\ Numbered(work) /\ Blank(work) /\ Written(work) /\ image.next <= work.next
    /\ \A t \in ids : t <= work.next /\ image.tip[t] \in Open
    /\ \A t \in TxId : work.tip[t] = IF t \in ids THEN state ELSE image.tip[t]

(* A step that ends or prepares ids, in the image, the file or both.       *)
Changes(ids, state) ==
    /\ state \in TxState /\ ids \subseteq TxId
    /\ image.next <= image'.next
    /\ \A t \in ids : image.tip[t] \in Open
    /\ \A t \in TxId : /\ image'.tip[t] # image.tip[t] => t \in ids /\ image'.tip[t] = state
                       /\ disk'.tip[t] # disk.tip[t] =>
                             disk'.tip[t] = IF t \in ids THEN state ELSE image.tip[t]

LEMMA NumberedIs ==
    ASSUME NEW f, Numbered(f)
    PROVE  /\ f \in File /\ f.next \in Nat /\ f.oit \in Nat /\ f.next \in 0..MaxTx
           /\ f.oit >= 1 /\ f.oit <= f.next /\ f.tip \in [TxId -> TxState]
           /\ f.rows \in [Rows -> Seq(Vers)] /\ f.oit \in 0..MaxTx
<1>1. f \in File /\ f.oit >= 1 /\ f.oit <= f.next
  BY DEF Numbered
<1>2. f.next \in 0..MaxTx /\ f.oit \in 0..MaxTx /\ f.tip \in [TxId -> TxState]
  BY <1>1 DEF File
<1>3. f.rows \in [Rows -> Seq(Vers)]
  BY <1>1 DEF File, Vers
<1>. QED
  BY <1>1, <1>2, <1>3

LEMMA FlushedWritten ==
    ASSUME Numbers, FilesInv, NEW work, NEW ids, NEW state, Copy(work, ids, state),
           Flushed(work), disk'.next = work.next, disk.next <= work.next
    PROVE  Written(disk)'
<1>1. work.next \in Nat /\ disk.next \in Nat /\ disk.rows \in [Rows -> Seq(Vers)]
  BY NumberedIs DEF Numbers, Copy
<1>2. ASSUME NEW r \in Rows, NEW i \in 1..Len(disk'.rows[r])
      PROVE  disk'.rows[r][i].tx <= work.next
  <2>1. CASE disk'.rows[r] = work.rows[r]
    BY <1>2, <2>1 DEF Copy, Written
  <2>2. CASE disk'.rows[r] = disk.rows[r]
    <3>1. disk.rows[r][i].tx <= disk.next
      BY <1>2, <2>2 DEF FilesInv, Written
    <3>2. disk.rows[r][i] \in Vers
      BY <1>1, <1>2, <2>2, ElementOfSeq
    <3>3. disk.rows[r][i].tx \in Nat
      BY <3>2, TxIds DEF Vers
    <3>. QED
      BY <1>1, <2>2, <3>1, <3>3
  <2>. QED
    BY <2>1, <2>2 DEF Flushed
<1>. QED
  BY <1>2 DEF Written

LEMMA DirtyFiles ==
    ASSUME Numbers, FilesInv, NEW work, NEW ids, NEW state, Copy(work, ids, state),
           InstallDirty(work),
           ids # {} => state = "Dead" /\ \A t \in ids : image.tip[t] = "Active"
    PROVE  Numbers' /\ FilesInv' /\ Changes(ids, state)
<1>1. image' = work /\ flushed' = flushed /\ disk' = disk
  BY DEF InstallDirty
<1>2. Numbers'
  BY <1>1 DEF Numbers, Copy, Numbered
<1>3. image.next \in Nat /\ work.next \in Nat /\ disk.next \in Nat
  BY NumberedIs DEF Numbers, Copy
<1>4. Tips'
  BY <1>1 DEF FilesInv, Tips, Copy
<1>5. FilesInv'
  BY <1>1, <1>3, <1>4 DEF FilesInv, Copy, Blank, Written
<1>6. Changes(ids, state)
  BY <1>1 DEF Changes, Copy
<1>. QED
  BY <1>2, <1>5, <1>6

LEMMA FlushedFiles ==
    ASSUME Numbers, FilesInv, NEW work, NEW ids, NEW state, Copy(work, ids, state),
           FlushAndInstall(work)
    PROVE  /\ Numbers' /\ FilesInv' /\ Changes(ids, state)
           /\ \A t \in ids : image'.tip[t] = state
<1>1. image' = work /\ flushed' = work
  BY DEF FlushAndInstall
<1>2. Numbered(disk)' /\ Flushed(work)
  BY FlushIs DEF Numbers, Copy
<1>3. Numbers'
  BY <1>1, <1>2 DEF Numbers, Copy, Numbered
<1>4. image.next \in Nat /\ work.next \in Nat /\ disk.next \in Nat
  BY NumberedIs DEF Numbers, Copy
<1>5. \A t \in TxId : \/ disk'.tip[t] = work.tip[t]
                      \/ disk'.tip[t] = disk.tip[t] /\ work.tip[t] = flushed.tip[t]
  BY InstalledIs
<1>6. Tips'
  BY <1>1, <1>5 DEF FilesInv, Tips
<1>7. Blank(disk)' /\ disk'.next <= work.next /\ Written(disk)'
  <2>1. disk'.next = work.next \/ disk' = disk
    BY <1>2 DEF Flushed
  <2>2. disk.next <= work.next
    BY <1>4 DEF FilesInv, Copy
  <2>3. \A t \in TxId : t > work.next => disk'.tip[t] = "Active"
    <3>1. \A t \in TxId : t > work.next => t > disk.next
      BY <1>4, <2>2, TxIds
    <3>. QED
      BY <1>2, <3>1 DEF FilesInv, Copy, Blank, Flushed
  <2>4. CASE disk'.next = work.next
    BY <1>2, <1>4, <2>2, <2>3, <2>4, FlushedWritten DEF Blank
  <2>5. CASE disk' = disk
    BY <2>2, <2>5 DEF FilesInv, Blank, Written
  <2>. QED
    BY <2>1, <2>4, <2>5
<1>8. FilesInv'
  BY <1>1, <1>6, <1>7 DEF FilesInv, Copy, Blank, Written
<1>9. Changes(ids, state) /\ \A t \in ids : image'.tip[t] = state
  BY <1>1, <1>2 DEF Changes, Copy, Flushed
<1>. QED
  BY <1>3, <1>8, <1>9

LEMMA FailedFiles ==
    ASSUME Numbers, FilesInv, NEW work, NEW ids, NEW state, Copy(work, ids, state),
           FlushFails(work), work.next = image.next,
           state \in {"Committed", "Dead"} \/ disk'.tip = disk.tip
    PROVE  Numbers' /\ FilesInv' /\ Changes(ids, state)
<1>1. image' = image /\ flushed' = flushed
  BY DEF FlushFails
<1>2. Numbered(disk)' /\ Flushed(work)
  BY FlushIs DEF Numbers, Copy
<1>3. Numbers'
  BY <1>1, <1>2 DEF Numbers, Numbered
<1>4. image.next \in Nat /\ work.next \in Nat /\ disk.next \in Nat
  BY NumberedIs DEF Numbers, Copy
<1>5. Tips'
  <2>1. CASE disk'.tip = disk.tip
    BY <1>1, <2>1 DEF FilesInv, Tips
  <2>2. CASE state \in {"Committed", "Dead"}
    BY <1>1, <1>2, <2>2 DEF FilesInv, Tips, Flushed, Copy, Open
  <2>. QED
    BY <2>1, <2>2
<1>6. Blank(disk)' /\ disk'.next <= image.next /\ Written(disk)'
  <2>1. disk'.next = work.next \/ disk' = disk
    BY <1>2 DEF Flushed
  <2>3. \A t \in TxId : t > work.next => disk'.tip[t] = "Active"
    <3>1. ASSUME NEW t \in TxId, t > work.next PROVE t > disk.next
      <4>. DEFINE a == disk.next
                  b == work.next
      <4>1. a \in Nat /\ b \in Nat /\ t \in Nat /\ t > b /\ a <= b
        BY <1>4, <3>1, TxIds DEF FilesInv
      <4>. HIDE DEF a, b
      <4>2. t > a
        BY <4>1
      <4>. QED
        BY <4>2 DEF a
    <3>. QED
      BY <1>2, <3>1 DEF FilesInv, Copy, Blank, Flushed
  <2>4. CASE disk'.next = work.next
    <3>1. disk.next <= work.next
      BY DEF FilesInv
    <3>. QED
      BY <1>2, <1>4, <2>3, <2>4, <3>1, FlushedWritten DEF Blank
  <2>5. CASE disk' = disk
    BY <2>5 DEF FilesInv, Blank, Written
  <2>. QED
    BY <2>1, <2>4, <2>5
<1>7. FilesInv'
  BY <1>1, <1>5, <1>6 DEF FilesInv, Blank, Written
<1>8. Changes(ids, state)
  BY <1>1, <1>2, <1>4 DEF Changes, Copy, Flushed
<1>. QED
  BY <1>3, <1>7, <1>8

LEMMA SameFiles ==
    ASSUME Numbers, FilesInv, UNCHANGED <<image, flushed, disk>>
    PROVE  Numbers' /\ FilesInv' /\ Changes({}, "Dead")
<1>1. image.next \in Nat
  BY NumberedIs DEF Numbers
<1>. QED
  BY <1>1 DEF Numbers, Numbered, FilesInv, Blank, Written, Tips, Changes, TxState

-------------------------------------------------------------------------------
(* The transactions.  An id an open transaction answers for is active, or  *)
(* in limbo once prepared, committed in no file, and its alone.            *)
HeldInv ==
    \A s \in Slots :
        /\ WindowInv(slots[s])
        /\ slots[s].touched = FALSE => Ids(slots[s]) = {}
        /\ \A t \in Ids(slots[s]) :
              /\ t <= image.next /\ disk.tip[t] # "Committed"
              /\ image.tip[t] = IF slots[s].prepared = TRUE THEN "Limbo" ELSE "Active"
        /\ \A p \in Slots \ {s} : Ids(slots[p]) \cap Ids(slots[s]) = {}

(* What a connection adopted is in limbo, of an ended transaction, and its *)
(* alone.                                                                  *)
ReconInv ==
    \A s \in Slots :
        LET t == reconnected[s]
        IN  t # 0 => /\ t <= image.next /\ image.tip[t] = "Limbo"
                     /\ t \notin Held
                     /\ \A p \in Slots \ {s} : reconnected[p] # t

(* What was told of an id is true, and stays true: an id undone is left    *)
(* for dead, in the file as well, and nobody can commit it any more.       *)
ToldInv ==
    \A t \in TxId :
        /\ told[t] = "committed" => image.tip[t] = "Committed"
        /\ told[t] = "undone" => /\ t <= image.next /\ t \notin Held
                                 /\ image.tip[t] \in {"Dead", "Active"}
                                 /\ disk.tip[t] \in {"Dead", "Active"}

(* Below the oldest transaction, of image and file, and not swept: there   *)
(* are committed ones only.                                                *)
OitInv ==
    \A t \in TxId : t >= claimed /\ (t < image.oit \/ t < disk.oit) =>
                        image.tip[t] = "Committed"

LEMMA HeldIs == Held = UNION {Ids(slots[s]) : s \in Slots}
BY AllTxIs DEF Held

LEMMA HeldNext == Held' = UNION {Ids(slots'[s]) : s \in Slots}
BY DEF Held, AllTx, Ids

LEMMA IdsType == \A sl \in TxSlots : Ids(sl) \subseteq TxId
BY TxIds DEF TxSlots, Ids, TxId

(* Connection s has another transaction now, and its files may differ.     *)
Moves(s, new) ==
    /\ slots' = [slots EXCEPT ![s] = new]
    /\ new \in TxSlots /\ WindowInv(new)
    /\ new.touched = FALSE => Ids(new) = {}

(* Transactions of others keep what they hold. *)
LEMMA OthersHold ==
    ASSUME slots \in [Slots -> TxSlots], HeldInv, NEW s \in Slots, NEW new, Moves(s, new),
           NEW ids, NEW state, Changes(ids, state),
           \A p \in Slots \ {s} : Ids(slots[p]) \cap ids = {},
           \A p \in Slots \ {s} : Ids(slots[p]) \cap Ids(new) = {},
           \A t \in Ids(new) : /\ t <= image'.next /\ disk'.tip[t] # "Committed"
                               /\ image'.tip[t] = IF new.prepared = TRUE THEN "Limbo" ELSE "Active",
           image.next \in Nat, image'.next \in Nat
    PROVE  HeldInv' /\ slots' \in [Slots -> TxSlots]
<1>1. slots' \in [Slots -> TxSlots] /\ slots'[s] = new /\ \A p \in Slots \ {s} : slots'[p] = slots[p]
  BY DEF Moves
<1>2. ASSUME NEW p \in Slots \ {s}, NEW t \in Ids(slots[p])
      PROVE  /\ t <= image'.next /\ disk'.tip[t] # "Committed"
             /\ image'.tip[t] = IF slots[p].prepared = TRUE THEN "Limbo" ELSE "Active"
  <2>1. t \notin ids /\ t \in TxId
    BY <1>2, IdsType
  <2>2. /\ t <= image.next /\ disk.tip[t] # "Committed"
        /\ image.tip[t] = IF slots[p].prepared = TRUE THEN "Limbo" ELSE "Active"
    BY <1>2 DEF HeldInv
  <2>3. image'.tip[t] = image.tip[t] /\ disk'.tip[t] \in {disk.tip[t], image.tip[t]}
    BY <2>1 DEF Changes
  <2>4. t <= image'.next
    BY <2>1, <2>2, TxIds DEF Changes
  <2>. QED
    BY <2>2, <2>3, <2>4
<1>3. ASSUME NEW p \in Slots
      PROVE  /\ WindowInv(slots'[p])
             /\ slots'[p].touched = FALSE => Ids(slots'[p]) = {}
             /\ \A t \in Ids(slots'[p]) :
                   /\ t <= image'.next /\ disk'.tip[t] # "Committed"
                   /\ image'.tip[t] = IF slots'[p].prepared = TRUE THEN "Limbo" ELSE "Active"
             /\ \A q \in Slots \ {p} : Ids(slots'[q]) \cap Ids(slots'[p]) = {}
  <2>1. CASE p = s
    BY <1>1, <2>1 DEF Moves
  <2>2. CASE p # s
    <3>1. slots'[p] = slots[p] /\ p \in Slots \ {s}
      BY <1>1, <2>2
    <3>2. \A q \in Slots \ {p} : Ids(slots'[q]) \cap Ids(slots[p]) = {}
      <4>. TAKE q \in Slots \ {p}
      <4>1. CASE q = s
        BY <1>1, <3>1, <4>1
      <4>2. CASE q # s
        BY <1>1, <4>2 DEF HeldInv
      <4>. QED
        BY <4>1, <4>2
    <3>3. WindowInv(slots[p]) /\ (slots[p].touched = FALSE => Ids(slots[p]) = {})
      BY DEF HeldInv
    <3>. QED
      BY <1>2, <3>1, <3>2, <3>3
  <2>. QED
    BY <2>1, <2>2
<1>. QED
  BY <1>1, <1>3 DEF HeldInv

(* A transaction that holds no more than it held, and none of what ended.  *)
LEMMA HoldsLess ==
    ASSUME slots \in [Slots -> TxSlots], HeldInv, NEW s \in Slots, NEW new, Moves(s, new),
           NEW ids, NEW state, Changes(ids, state),
           \A p \in Slots \ {s} : Ids(slots[p]) \cap ids = {},
           Ids(new) \subseteq Ids(slots[s]) \ ids,
           Ids(new) # {} => new.prepared = slots[s].prepared,
           image.next \in Nat, image'.next \in Nat
    PROVE  HeldInv' /\ slots' \in [Slots -> TxSlots] /\ Held' \subseteq Held
<1>1. \A p \in Slots \ {s} : Ids(slots[p]) \cap Ids(new) = {}
  BY DEF HeldInv
<1>2. ASSUME NEW t \in Ids(new)
      PROVE  /\ t <= image'.next /\ disk'.tip[t] # "Committed"
             /\ image'.tip[t] = IF new.prepared = TRUE THEN "Limbo" ELSE "Active"
  <2>1. t \notin ids /\ t \in TxId /\ t \in Ids(slots[s]) /\ new.prepared = slots[s].prepared
    BY <1>2, IdsType
  <2>2. /\ t <= image.next /\ disk.tip[t] # "Committed"
        /\ image.tip[t] = IF slots[s].prepared = TRUE THEN "Limbo" ELSE "Active"
    BY <2>1 DEF HeldInv
  <2>3. image'.tip[t] = image.tip[t] /\ disk'.tip[t] \in {disk.tip[t], image.tip[t]}
    BY <2>1 DEF Changes
  <2>4. t <= image'.next
    BY <2>1, <2>2, TxIds DEF Changes
  <2>. QED
    BY <2>1, <2>2, <2>3, <2>4
<1>3. HeldInv' /\ slots' \in [Slots -> TxSlots]
  BY <1>1, <1>2, OthersHold
<1>4. Held' \subseteq Held
  BY HeldIs, HeldNext DEF Moves
<1>. QED
  BY <1>3, <1>4

(* What is newly held was not handed out before. *)
Fresh == \A t \in Held' : t \in Held \/ t > image.next

LEMMA ReconKeeps ==
    ASSUME ReconInv, reconnected \in [Slots -> 0..MaxTx], Fresh,
           reconnected' \in [Slots -> 0..MaxTx],
           \A s \in Slots : reconnected'[s] \in {reconnected[s], 0},
           NEW ids, NEW state, Changes(ids, state),
           \A s \in Slots : reconnected'[s] \notin ids,
           image.next \in Nat, image'.next \in Nat
    PROVE  ReconInv'
<1>1. ASSUME NEW s \in Slots, reconnected'[s] # 0
      PROVE  /\ reconnected'[s] <= image'.next /\ image'.tip[reconnected'[s]] = "Limbo"
             /\ reconnected'[s] \notin Held'
             /\ \A p \in Slots \ {s} : reconnected'[p] # reconnected'[s]
  <2>. DEFINE t == reconnected[s]
  <2>1. reconnected'[s] = t /\ t \in TxId /\ t \in Nat /\ t \notin ids
    BY <1>1 DEF TxId
  <2>2. t <= image.next /\ image.tip[t] = "Limbo" /\ t \notin Held
        /\ \A p \in Slots \ {s} : reconnected[p] # t
    BY <1>1, <2>1 DEF ReconInv
  <2>3. image'.tip[t] = image.tip[t] /\ image.next <= image'.next
    BY <2>1 DEF Changes
  <2>4. t <= image'.next
    BY <2>1, <2>2, <2>3
  <2>5. t \notin Held'
    BY <2>1, <2>2 DEF Fresh
  <2>6. \A p \in Slots \ {s} : reconnected'[p] # t
    BY <1>1, <2>1, <2>2
  <2>. HIDE DEF t
  <2>. QED
    BY <2>1, <2>2, <2>3, <2>4, <2>5, <2>6
<1>. QED
  BY <1>1 DEF ReconInv

(* Told is said rightly: what ended is what the client hears of. *)
Rightly(ids) ==
    /\ told' \in [TxId -> {"nothing", "committed", "undone"}]
    /\ \A t \in TxId :
          \/ told'[t] = told[t]
          \/ told'[t] = "committed" /\ image'.tip[t] = "Committed"
          \/ /\ told'[t] = "undone" /\ t <= image'.next /\ t \notin Held'
             /\ image'.tip[t] \in {"Dead", "Active"} /\ disk'.tip[t] \in {"Dead", "Active"}

LEMMA ToldKeeps ==
    ASSUME FilesInv, ToldInv, Fresh, NEW ids, NEW state, Changes(ids, state), Rightly(ids),
           state # "Dead" =>
              \A t \in ids : t \in Held \/ image.tip[t] = "Limbo" \/ t > image.next,
           image.next \in Nat, image'.next \in Nat
    PROVE  ToldInv'
<1>. SUFFICES ASSUME NEW t \in TxId
     PROVE  /\ told'[t] = "committed" => image'.tip[t] = "Committed"
            /\ told'[t] = "undone" => /\ t <= image'.next /\ t \notin Held'
                                      /\ image'.tip[t] \in {"Dead", "Active"}
                                      /\ disk'.tip[t] \in {"Dead", "Active"}
  BY DEF ToldInv
<1>0. t \in Nat
  BY TxIds
<1>1. CASE told'[t] # told[t]
  BY <1>1 DEF Rightly
<1>2. CASE told'[t] = told[t] /\ told[t] = "committed"
  <2>1. image.tip[t] = "Committed"
    BY <1>2 DEF ToldInv
  <2>2. t \notin ids
    BY <2>1 DEF Changes, Open
  <2>. QED
    BY <1>2, <2>1, <2>2 DEF Changes
<1>3. CASE told'[t] = told[t] /\ told[t] = "undone"
  <2>1. /\ t <= image.next /\ t \notin Held /\ image.tip[t] \in {"Dead", "Active"}
        /\ disk.tip[t] \in {"Dead", "Active"}
    BY <1>3 DEF ToldInv
  <2>2. t <= image'.next /\ t \notin Held'
    BY <1>0, <2>1 DEF Fresh, Changes
  <2>3. t \in ids => state = "Dead"
    BY <1>0, <2>1
  <2>4. image'.tip[t] \in {"Dead", "Active"} /\ disk'.tip[t] \in {"Dead", "Active"}
    BY <2>1, <2>3 DEF Changes
  <2>. QED
    BY <1>3, <2>2, <2>4
<1>. QED
  BY <1>1, <1>2, <1>3

LEMMA OitKeeps ==
    ASSUME OitInv, FilesInv, NEW ids, NEW state, Changes(ids, state), claimed' = claimed,
           NEW o, \A t \in TxId : t >= claimed /\ t < o => image.tip[t] = "Committed",
           image'.oit \in {image.oit, o}, disk'.oit \in {disk.oit, o}
    PROVE  OitInv'
<1>. SUFFICES ASSUME NEW t \in TxId, t >= claimed, t < image'.oit \/ t < disk'.oit
     PROVE  image'.tip[t] = "Committed"
  BY DEF OitInv
<1>1. image.tip[t] = "Committed"
  BY DEF OitInv
<1>2. t \notin ids
  BY <1>1 DEF Changes, Open
<1>. QED
  BY <1>1, <1>2 DEF Changes

-------------------------------------------------------------------------------
(* The inductive invariant, and what keeps it in every step but a crash.   *)
Inv == Numbers /\ Types /\ FilesInv /\ HeldInv /\ ReconInv /\ ToldInv /\ OitInv

LEMMA StepKeeps ==
    ASSUME Inv, Numbers', FilesInv', HeldInv', Fresh,
           slots' \in [Slots -> TxSlots], seen' \in [Slots -> [Rows -> Read]],
           team' \in [TxId -> 0..MaxTx], claimed' = claimed,
           reconnected' \in [Slots -> 0..MaxTx],
           \A s \in Slots : reconnected'[s] \in {reconnected[s], 0},
           NEW ids, NEW state, Changes(ids, state), Rightly(ids),
           state # "Dead" =>
              \A t \in ids : t \in Held \/ image.tip[t] = "Limbo" \/ t > image.next,
           \A s \in Slots : reconnected'[s] \notin ids,
           NEW o, \A t \in TxId : t >= claimed /\ t < o => image.tip[t] = "Committed",
           image'.oit \in {image.oit, o}, disk'.oit \in {disk.oit, o}
    PROVE  Inv'
<1>1. image.next \in Nat /\ image'.next \in Nat
  BY NumberedIs DEF Inv, Numbers, Numbered
<1>2. ReconInv'
  BY <1>1, ReconKeeps DEF Inv, Types
<1>3. ToldInv'
  BY <1>1, ToldKeeps DEF Inv
<1>4. OitInv'
  BY OitKeeps DEF Inv
<1>5. Types'
  BY DEF Inv, Types, Rightly
<1>. QED
  BY <1>2, <1>3, <1>4, <1>5 DEF Inv

(* Ids that end as commit, rollback, detach and resolution end them. *)
LEMMA EndCopy ==
    ASSUME Numbers, FilesInv, NEW ids \in SUBSET TxId, NEW state \in TxState,
           \A t \in ids : t <= image.next /\ image.tip[t] \in Open
    PROVE  LET work == EndState(image, ids, state)
           IN  Copy(work, ids, state) /\ work.next = image.next /\ work.oit = image.oit
<1>. DEFINE work == EndState(image, ids, state)
<1>1. Numbered(image) /\ image.next \in Nat
  BY NumberedIs DEF Numbers
<1>2. /\ work \in File /\ work.next = image.next /\ work.oit = image.oit
      /\ work.rows = image.rows
      /\ \A t \in TxId : work.tip[t] = IF t \in ids THEN state ELSE image.tip[t]
  BY <1>1, SetStateIs DEF Numbered, EndState
<1>. HIDE DEF work
<1>3. Numbered(work)
  BY <1>1, <1>2 DEF Numbered
<1>4. Blank(work)
  <2>1. \A t \in TxId : t > image.next => t \notin ids
    BY <1>1, TxIds
  <2>. QED
    BY <1>2, <2>1 DEF Blank, FilesInv
<1>5. Written(work)
  BY <1>2 DEF Written, FilesInv
<1>6. image.next <= work.next
  BY <1>1, <1>2
<1>. QED
  BY <1>2, <1>3, <1>4, <1>5, <1>6 DEF Copy, work

LEMMA EndFiles ==
    ASSUME Inv, NEW ids \in SUBSET TxId, NEW state \in {"Committed", "Dead"},
           \A t \in ids : t <= image.next /\ image.tip[t] \in Open,
           \/ FlushAndInstall(EndState(image, ids, state))
           \/ FlushFails(EndState(image, ids, state))
    PROVE  /\ Numbers' /\ FilesInv' /\ Changes(ids, state)
           /\ image'.oit = image.oit /\ disk'.oit \in {disk.oit, image.oit}
           /\ image.next \in Nat /\ image'.next \in Nat
           /\ FlushAndInstall(EndState(image, ids, state)) =>
                 \A t \in ids : image'.tip[t] = state /\ disk'.tip[t] = state
<1>. DEFINE work == EndState(image, ids, state)
<1>1. Numbers /\ FilesInv /\ state \in TxState
  BY DEF Inv, TxState
<1>2. Copy(work, ids, state) /\ work.next = image.next /\ work.oit = image.oit
  BY <1>1, EndCopy
<1>. HIDE DEF work
<1>3. disk'.oit \in {disk.oit, image.oit}
  <2>1. Flushed(work)
    BY <1>1, <1>2, FlushIs DEF Copy, Numbers, work
  <2>. QED
    BY <1>2, <2>1 DEF Flushed
<1>4. CASE FlushAndInstall(work)
  <2>1. Numbers' /\ FilesInv' /\ Changes(ids, state) /\ \A t \in ids : image'.tip[t] = state
    BY <1>1, <1>2, <1>4, FlushedFiles
  <2>2. image' = work
    BY <1>4 DEF FlushAndInstall
  <2>3. ASSUME NEW t \in ids PROVE disk'.tip[t] = state
    <3>1. \/ disk'.tip[t] = work.tip[t]
          \/ disk'.tip[t] = disk.tip[t] /\ work.tip[t] = flushed.tip[t]
      BY <1>4, InstalledIs
    <3>2. work.tip[t] = state
      BY <1>2 DEF Copy
    <3>3. flushed.tip[t] # state
      BY <1>1 DEF FilesInv, Tips, Open
    <3>. QED
      BY <3>1, <3>2, <3>3
  <2>4. image.next \in Nat /\ image'.next \in Nat
    BY <1>1, <2>1, NumberedIs DEF Numbers, Numbered
  <2>. QED
    BY <1>2, <1>3, <2>1, <2>2, <2>3, <2>4 DEF work
<1>5. CASE FlushFails(work) /\ ~FlushAndInstall(work)
  <2>1. Numbers' /\ FilesInv' /\ Changes(ids, state)
    BY <1>1, <1>2, <1>5, FailedFiles
  <2>2. image' = image
    BY <1>5 DEF FlushFails
  <2>4. image.next \in Nat /\ image'.next \in Nat
    BY <1>1, <2>1, NumberedIs DEF Numbers, Numbered
  <2>. QED
    BY <1>3, <1>5, <2>1, <2>2, <2>4 DEF work
<1>. QED
  BY <1>4, <1>5 DEF work

LEMMA FreshLess == ASSUME Held' \subseteq Held PROVE Fresh
BY DEF Fresh

LEMMA ReconFree ==
    ASSUME Inv, NEW s \in Slots, NEW v \in {reconnected[s], 0}
    PROVE  v \notin Held
BY HeldIs, IdsType, TxIds DEF Inv, ReconInv, Types

LEMMA HeldFacts ==
    ASSUME Inv, NEW s \in Slots
    PROVE  /\ slots[s] \in TxSlots /\ WindowInv(slots[s])
           /\ Ids(slots[s]) \in SUBSET TxId /\ Ids(slots[s]) \subseteq Held
           /\ \A t \in Ids(slots[s]) : t <= image.next /\ image.tip[t] \in Open
           /\ \A p \in Slots \ {s} : Ids(slots[p]) \cap Ids(slots[s]) = {}
<1>1. slots[s] \in TxSlots
  BY DEF Inv, Types
<1>2. Ids(slots[s]) \in SUBSET TxId /\ Ids(slots[s]) \subseteq Held
  BY <1>1, IdsType, HeldIs
<1>. QED
  BY <1>1, <1>2 DEF Inv, HeldInv, Open

(* A step that leaves the files and what clients were told as they are.    *)
LEMMA QuietKeeps ==
    ASSUME Inv, UNCHANGED <<image, flushed, disk, told, claimed>>,
           NEW s \in Slots, NEW new, Moves(s, new),
           Ids(new) \subseteq Ids(slots[s]),
           Ids(new) # {} => new.prepared = slots[s].prepared,
           seen' \in [Slots -> [Rows -> Read]], team' \in [TxId -> 0..MaxTx],
           reconnected' \in [Slots -> 0..MaxTx],
           \A p \in Slots : reconnected'[p] \in {reconnected[p], 0}
    PROVE  Inv' /\ Held' \subseteq Held
<1>1. Numbers' /\ FilesInv' /\ Changes({}, "Dead")
  BY SameFiles DEF Inv
<1>2. image.next \in Nat /\ image'.next \in Nat
  BY NumberedIs DEF Inv, Numbers
<1>3. HeldInv' /\ slots' \in [Slots -> TxSlots] /\ Held' \subseteq Held
  <2>1. \A p \in Slots \ {s} : Ids(slots[p]) \cap {} = {}
    OBVIOUS
  <2>2. Ids(new) \subseteq Ids(slots[s]) \ {}
    OBVIOUS
  <2>. QED
    BY <1>1, <1>2, <2>1, <2>2, HoldsLess DEF Inv, Types
<1>4. Rightly({})
  BY DEF Rightly, Inv, Types
<1>5. Fresh
  BY <1>3, FreshLess
<1>6. \A t \in TxId : t >= claimed /\ t < image.oit => image.tip[t] = "Committed"
  BY DEF Inv, OitInv
<1>7. image'.oit \in {image.oit, image.oit} /\ disk'.oit \in {disk.oit, image.oit}
  OBVIOUS
<1>8. (\A p \in Slots : reconnected'[p] \notin {}) /\ claimed' = claimed
  OBVIOUS
<1>9. Inv'
  BY <1>1, <1>3, <1>4, <1>5, <1>6, <1>7, <1>8, StepKeeps
<1>. QED
  BY <1>3, <1>9

(* The end of a transaction: its ids are committed or dead, in memory and  *)
(* in the file, or the flush failed and nobody answers for them any more.  *)
LEMMA EndKeeps ==
    ASSUME Inv, NEW s \in Slots, NEW new, Moves(s, new), Ids(new) = {},
           NEW state \in {"Committed", "Dead"}, NEW work,
           work = EndState(image, Ids(slots[s]), state),
           FlushAndInstall(work) \/ FlushFails(work),
           \/ told' = told
           \/ /\ FlushAndInstall(work)
              /\ told' = [t \in TxId |->
                    IF t \in Ids(slots[s])
                    THEN IF state = "Committed" THEN "committed" ELSE "undone"
                    ELSE told[t]],
           claimed' = claimed,
           seen' \in [Slots -> [Rows -> Read]], team' \in [TxId -> 0..MaxTx],
           reconnected' \in [Slots -> 0..MaxTx],
           \A p \in Slots : reconnected'[p] \in {reconnected[p], 0}
    PROVE  Inv' /\ Held' \subseteq Held
<1>. DEFINE ids == Ids(slots[s])
<1>1. /\ ids \in SUBSET TxId /\ ids \subseteq Held
      /\ \A t \in ids : t <= image.next /\ image.tip[t] \in Open
      /\ \A p \in Slots \ {s} : Ids(slots[p]) \cap ids = {}
  BY HeldFacts
<1>2. /\ Numbers' /\ FilesInv' /\ Changes(ids, state)
      /\ image'.oit = image.oit /\ disk'.oit \in {disk.oit, image.oit}
      /\ image.next \in Nat /\ image'.next \in Nat
      /\ FlushAndInstall(work) => \A t \in ids : image'.tip[t] = state /\ disk'.tip[t] = state
  BY <1>1, EndFiles
<1>3. HeldInv' /\ slots' \in [Slots -> TxSlots] /\ Held' \subseteq Held
  <2>1. Ids(new) \subseteq Ids(slots[s]) \ ids /\ (Ids(new) # {} => new.prepared = slots[s].prepared)
    OBVIOUS
  <2>. QED
    BY <1>1, <1>2, <2>1, HoldsLess DEF Inv, Types
<1>4. \A t \in ids : t \notin Held'
  BY <1>1, HeldNext DEF Moves, Inv, Types
<1>. HIDE DEF ids
<1>5. Rightly(ids)
  <2>1. told' \in [TxId -> {"nothing", "committed", "undone"}]
    BY DEF Inv, Types
  <2>2. CASE told' = told
    BY <2>1, <2>2 DEF Rightly
  <2>3. CASE told' # told
    <3>1. told' = [t \in TxId |->
                    IF t \in ids THEN IF state = "Committed" THEN "committed" ELSE "undone"
                    ELSE told[t]]
      BY <2>3 DEF ids
    <3>2. \A t \in ids : image'.tip[t] = state /\ disk'.tip[t] = state
      BY <1>2, <2>3
    <3>3. \A t \in ids : t <= image'.next
      <4>1. \A t \in ids : t \in Nat
        BY <1>1, TxIds
      <4>. QED
        BY <1>1, <1>2, <4>1 DEF Changes
    <3>. QED
      BY <1>4, <2>1, <3>1, <3>2, <3>3 DEF Rightly
  <2>. QED
    BY <2>2, <2>3
<1>6. Fresh
  BY <1>3, FreshLess
<1>7. \A t \in TxId : t >= claimed /\ t < image.oit => image.tip[t] = "Committed"
  BY DEF Inv, OitInv
<1>8. \A p \in Slots : reconnected'[p] \notin ids
  BY <1>1, ReconFree
<1>9. Inv'
  BY <1>1, <1>2, <1>3, <1>5, <1>6, <1>7, <1>8, StepKeeps
<1>. QED
  BY <1>3, <1>9

(* The slot a transaction leaves behind, or goes on in after a RETAIN.     *)
LEMMA EndedIs ==
    ASSUME Inv, NEW s \in Slots, NEW retain \in BOOLEAN, NEW committed \in BOOLEAN
    PROVE  LET new == Ended(s, retain, committed)
           IN  new \in TxSlots /\ WindowInv(new) /\ Ids(new) = {}
<1>. DEFINE snap == IF slots[s].snapshot = Latest THEN Latest
                    ELSE [slots[s].snapshot EXCEPT !.committed_own =
                             IF committed THEN @ \cup AllTx(s) ELSE @]
<1>1. snap \in Snapshots
  <2>1. slots[s].snapshot \in Snapshots /\ Latest \in Snapshots
    BY IdleIs, HeldFacts DEF TxSlots
  <2>2. AllTx(s) \in SUBSET TxId
    BY HeldFacts, AllTxIs
  <2>. QED
    BY <2>1, <2>2 DEF Snapshots
<1>2. CASE retain = TRUE
  <2>1. Ended(s, retain, committed) = Opened(snap)
    BY <1>2 DEF Ended, Opened
  <2>. HIDE DEF snap
  <2>. QED
    BY <1>1, <2>1, OpenedIs
<1>3. CASE retain = FALSE
  BY <1>3, IdleIs DEF Ended
<1>. QED
  BY <1>2, <1>3

LEMMA NoRowRead == NoRow \in Read
BY TxIds DEF NoRow, Version, Read

(* A step of the windows only. *)
LEMMA WindowsMove ==
    ASSUME Inv, NEW s \in Slots, NEW vs \in Seq(Windows), WindowsOk(vs, slots[s].nested),
           slots' = [slots EXCEPT ![s].windows = vs],
           UNCHANGED <<image, flushed, disk, faults, reconnected, team, told, claimed, seen>>
    PROVE  Inv'
<1>. DEFINE new == [slots[s] EXCEPT !.windows = vs]
<1>1. slots[s] \in TxSlots /\ WindowInv(slots[s])
  BY HeldFacts
<1>2. /\ new \in TxSlots /\ new.windows = vs /\ new.nested = slots[s].nested
      /\ new.tx = slots[s].tx /\ new.touched = slots[s].touched
      /\ new.prepared = slots[s].prepared
  BY <1>1 DEF TxSlots
<1>3. slots' = [slots EXCEPT ![s] = new]
  OBVIOUS
<1>. HIDE DEF new
<1>4. WindowInv(new) /\ Ids(new) = Ids(slots[s])
  BY <1>1, <1>2 DEF WindowInv, Ids
<1>5. Moves(s, new)
  BY <1>2, <1>3, <1>4 DEF Moves, Inv, HeldInv
<1>. QED
  BY <1>2, <1>4, <1>5, QuietKeeps DEF Inv, Types

LEMMA MarksKeep ==
    ASSUME Inv, NEW s \in Slots,
           \/ Savepoint(s)
           \/ \E i \in 1..MaxMarks : Redeclare(s, i) \/ Release(s, i)
    PROVE  Inv'
<1>. DEFINE ws == slots[s].windows
<1>1. ws \in Seq(Windows) /\ WindowsOk(ws, slots[s].nested)
  BY HeldFacts DEF TxSlots, WindowInv
<1>2. CASE Savepoint(s)
  <2>1. Append(ws, Window) \in Seq(Windows) /\ WindowsOk(Append(ws, Window), slots[s].nested)
    BY <1>1, SavepointIs
  <2>. DEFINE vs == Append(ws, Window)
  <2>2. slots' = [slots EXCEPT ![s].windows = vs]
    BY <1>2 DEF Savepoint
  <2>3. UNCHANGED <<image, flushed, disk, faults, reconnected, team, told, claimed, seen>>
    BY <1>2 DEF Savepoint
  <2>. HIDE DEF vs
  <2>. QED
    BY <2>1, <2>2, <2>3, WindowsMove DEF vs
<1>3. ASSUME NEW i \in 1..MaxMarks, Redeclare(s, i) PROVE Inv'
  <2>. DEFINE merged == [ws EXCEPT ![i].folded = @ \cup IdsOf(ws[i + 1])]
              vs == SubSeq(merged, 1, i) \o SubSeq(merged, i + 2, Len(ws)) \o <<Window>>
  <2>1. i \in 1..(Len(ws) - 1)
    BY <1>3 DEF Redeclare, Inner
  <2>2. vs \in Seq(Windows) /\ WindowsOk(vs, slots[s].nested)
    BY <1>1, <2>1, RedeclareIs
  <2>3. slots' = [slots EXCEPT ![s].windows = vs]
    BY <1>3 DEF Redeclare
  <2>. HIDE DEF vs
  <2>. QED
    BY <1>3, <2>2, <2>3, WindowsMove DEF Redeclare
<1>4. ASSUME NEW i \in 1..MaxMarks, Release(s, i) PROVE Inv'
  <2>1. i \in 1..(Len(ws) - 1)
    BY <1>4 DEF Release, Inner
  <2>2. Fold(ws, i + 1, i) \in Seq(Windows) /\ WindowsOk(Fold(ws, i + 1, i), slots[s].nested)
    BY <1>1, <2>1, FoldIs
  <2>. QED
    BY <1>4, <2>2, WindowsMove DEF Release
<1>. QED
  BY <1>2, <1>3, <1>4

LEMMA StartKeeps ==
    ASSUME Inv, NEW s \in Slots, Start(s)
    PROVE  Inv'
<1>1. PICK snap \in {Latest, Capture(image.next, image.tip)} :
          /\ slots' = [slots EXCEPT ![s] = Opened(snap)]
          /\ seen' = [seen EXCEPT ![s] = [r \in Rows |->
                        IF snap = Latest THEN NoRow
                        ELSE Visible(image.tip, {}, snap, image.rows[r])]]
  BY DEF Start, Opened
<1>2. snap \in Snapshots
  <2>1. image.next \in 0..MaxTx /\ image.next + 1 \in 0..(MaxTx + 1) /\ 1..image.next \subseteq TxId
    BY NumberedIs, TxIds DEF Inv, Numbers, TxId
  <2>2. Capture(image.next, image.tip) \in Snapshots
    BY <2>1 DEF Capture, Snapshots
  <2>. QED
    BY <2>2, IdleIs DEF TxSlots
<1>3. Moves(s, Opened(snap)) /\ Ids(Opened(snap)) = {}
  BY <1>1, <1>2, OpenedIs DEF Moves
<1>4. seen' \in [Slots -> [Rows -> Read]]
  <2>. DEFINE was == [r \in Rows |-> IF snap = Latest THEN NoRow
                                     ELSE Visible(image.tip, {}, snap, image.rows[r])]
  <2>1. image.rows \in [Rows -> Seq(Vers)]
    BY NumberedIs DEF Inv, Numbers
  <2>2. \A r \in Rows : Visible(image.tip, {}, snap, image.rows[r]) \in Read
    BY <2>1, VisibleType
  <2>3. was \in [Rows -> Read]
    BY <2>2, NoRowRead
  <2>. HIDE DEF was
  <2>. QED
    BY <1>1, <2>3 DEF was, Inv, Types
<1>. HIDE DEF Opened
<1>. QED
  BY <1>3, <1>4, QuietKeeps DEF Start, Inv, Types

LEMMA ReconnectKeeps ==
    ASSUME Inv, NEW s \in Slots, NEW t \in TxId, Reconnect(s, t), "twoResolvers" \notin Beyond
    PROVE  Inv'
<1>1. /\ UNCHANGED <<image, flushed, disk, slots, team, told, claimed, seen>>
      /\ reconnected' = [reconnected EXCEPT ![s] = t]
      /\ t <= image.next /\ image.tip[t] = "Limbo"
      /\ t \notin Held /\ \A other \in Slots : reconnected[other] # t
  BY DEF Reconnect
<1>2. Numbers' /\ FilesInv'
  BY <1>1, SameFiles DEF Inv
<1>3. Types'
  BY <1>1, TxIds DEF Inv, Types, TxId
<1>4. Held' = Held
  BY <1>1, HeldIs, HeldNext
<1>5. ReconInv'
  BY <1>1, <1>4 DEF Inv, Types, ReconInv
<1>6. HeldInv' /\ ToldInv' /\ OitInv'
  BY <1>1, <1>4 DEF Inv, HeldInv, ToldInv, OitInv
<1>. QED
  BY <1>2, <1>3, <1>5, <1>6 DEF Inv

(* ROLLBACK TO: what the later marks wrote is dead in memory. *)
LEMMA BackToIs ==
    ASSUME NEW sl \in TxSlots, WindowInv(sl), NEW i \in 1..(Len(sl.windows) - 1)
    PROVE  LET ids == LaterIds(sl.windows, i)
               new == BackTo(sl, i, ids)
           IN  /\ new \in TxSlots /\ WindowInv(new)
               /\ new.prepared = sl.prepared /\ new.snapshot = sl.snapshot
               /\ new.touched = FALSE => sl.touched = FALSE
               /\ Ids(new) = Ids(sl) \ ids
               /\ ids \subseteq Ids(sl) /\ ids \in SUBSET TxId
<1>. DEFINE ids == LaterIds(sl.windows, i)
            vs == Append(SubSeq(sl.windows, 1, i), Window)
            h == IF ids = {} THEN sl.touched ELSE TRUE
            new == [sl EXCEPT !.windows = vs, !.nested = sl.nested \ ids, !.touched = h]
<1>1. sl.tx \notin sl.nested /\ WindowsOk(sl.windows, sl.nested)
  BY DEF WindowInv
<1>2. sl.windows \in Seq(Windows) /\ sl.nested \in SUBSET TxId /\ sl.touched \in BOOLEAN
  BY DEF TxSlots
<1>3. /\ vs \in Seq(Windows) /\ WindowsOk(vs, sl.nested \ ids)
      /\ ids \subseteq sl.nested
  BY <1>1, <1>2, BackIs
<1>4. BackTo(sl, i, ids) = new
  BY DEF BackTo
<1>5. h \in BOOLEAN /\ (h = FALSE => sl.touched = FALSE)
  BY <1>2
<1>. HIDE DEF vs, h
<1>6. sl.nested \ ids \in SUBSET TxId
  BY <1>2
<1>7. /\ new.windows = vs /\ new.nested = sl.nested \ ids /\ new.tx = sl.tx
      /\ new.prepared = sl.prepared /\ new.touched = h /\ new.snapshot = sl.snapshot
  BY DEF TxSlots
<1>8. new \in TxSlots
  <2>1. CASE ids = {}
    BY <1>2, <1>3, <1>6, <2>1 DEF TxSlots, h
  <2>2. CASE ids # {}
    <3>1. h = TRUE
      BY <2>2 DEF h
    <3>2. [sl EXCEPT !.windows = vs, !.nested = sl.nested \ ids, !.touched = TRUE] \in TxSlots
      BY <1>3, <1>6 DEF TxSlots
    <3>. QED
      BY <3>1, <3>2
  <2>. QED
    BY <2>1, <2>2
<1>. HIDE DEF new
<1>9. WindowInv(new)
  BY <1>1, <1>3, <1>7 DEF WindowInv
<1>10. Ids(new) = Ids(sl) \ ids /\ ids \subseteq Ids(sl)
  BY <1>1, <1>3, <1>7 DEF Ids
<1>11. ids \in SUBSET TxId
  BY <1>2, <1>3
<1>. QED
  BY <1>4, <1>5, <1>7, <1>8, <1>9, <1>10, <1>11

LEMMA RollbackToKeeps ==
    ASSUME Inv, NEW s \in Slots, NEW i \in 1..MaxMarks, RollbackTo(s, i),
           "sideTimeout" \notin Beyond
    PROVE  Inv'
<1>. DEFINE ids == Killed(s, i)
            work == EndState(image, ids, "Dead")
            new == BackTo(slots[s], i, ids)
<1>1. /\ Works(s) /\ i \in 1..(Inner(s) - 1)
      /\ InstallDirty(work)
      /\ slots' = [slots EXCEPT ![s] = new]
      /\ told' = [t \in TxId |-> IF t \in ids THEN "undone" ELSE told[t]]
      /\ UNCHANGED <<reconnected, team, claimed, seen>>
  BY DEF RollbackTo, EndState, Killed
<1>. HIDE DEF work, new
<1>2. /\ Moves(s, new) /\ new.prepared = slots[s].prepared
      /\ Ids(new) = Ids(slots[s]) \ ids
      /\ ids \subseteq Ids(slots[s]) /\ ids \in SUBSET TxId
  <2>1. slots[s] \in TxSlots /\ WindowInv(slots[s]) /\ i \in 1..(Len(slots[s].windows) - 1)
    BY <1>1, HeldFacts DEF Inner
  <2>2. ids = LaterIds(slots[s].windows, i)
    BY DEF Killed, Undone, Inner, LaterIds
  <2>. HIDE DEF ids
  <2>3. /\ new \in TxSlots /\ WindowInv(new) /\ new.prepared = slots[s].prepared
        /\ new.touched = FALSE => slots[s].touched = FALSE
        /\ Ids(new) = Ids(slots[s]) \ ids
        /\ ids \subseteq Ids(slots[s]) /\ ids \in SUBSET TxId
    BY <2>1, <2>2, BackToIs DEF new
  <2>4. slots[s].touched = FALSE => Ids(slots[s]) = {}
    BY DEF Inv, HeldInv
  <2>. QED
    BY <1>1, <2>3, <2>4 DEF Moves
<1>. HIDE DEF ids
<1>3. /\ \A t \in ids : t <= image.next /\ image.tip[t] = "Active" /\ disk.tip[t] # "Committed"
      /\ \A p \in Slots \ {s} : Ids(slots[p]) \cap ids = {}
      /\ ids \subseteq Held
  <2>1. slots[s].prepared # TRUE
    BY <1>1 DEF Works
  <2>. QED
    BY <1>2, <2>1, HeldFacts DEF Inv, HeldInv
<1>4. Copy(work, ids, "Dead") /\ work.oit = image.oit /\ work.next = image.next
  BY <1>2, <1>3, EndCopy DEF work, Inv, TxState, Open
<1>5. Numbers' /\ FilesInv' /\ Changes(ids, "Dead")
  BY <1>1, <1>3, <1>4, DirtyFiles DEF Inv
<1>6. image' = work /\ disk' = disk
  BY <1>1 DEF InstallDirty
<1>7. image.next \in Nat /\ image'.next \in Nat
  BY <1>5, NumberedIs DEF Inv, Numbers, Numbered
<1>8. HeldInv' /\ slots' \in [Slots -> TxSlots] /\ Held' \subseteq Held
  BY <1>2, <1>3, <1>5, <1>7, HoldsLess DEF Inv, Types
<1>9. \A t \in ids : t \notin Held'
  BY <1>2, <1>3, HeldNext DEF Moves, Inv, Types
<1>10. Rightly(ids)
  <2>1. \A t \in ids : image'.tip[t] = "Dead" /\ t <= image'.next
    BY <1>2, <1>3, <1>4, <1>6 DEF Copy
  <2>2. \A t \in ids : disk'.tip[t] \in {"Dead", "Active"}
    <3>1. \A t \in ids : flushed.tip[t] = "Active"
      BY <1>2, <1>3 DEF Inv, FilesInv, Tips
    <3>. QED
      BY <1>2, <1>3, <1>6, <3>1 DEF Inv, FilesInv, Tips
  <2>3. told' \in [TxId -> {"nothing", "committed", "undone"}]
    BY <1>1 DEF Inv, Types
  <2>. QED
    BY <1>1, <1>9, <2>1, <2>2, <2>3 DEF Rightly
<1>11. Fresh
  BY <1>8, FreshLess
<1>12. \A p \in Slots : reconnected'[p] \notin ids
  BY <1>1, <1>3, ReconFree
<1>13. \A t \in TxId : t >= claimed /\ t < image.oit => image.tip[t] = "Committed"
  BY DEF Inv, OitInv
<1>14. /\ seen' \in [Slots -> [Rows -> Read]] /\ team' \in [TxId -> 0..MaxTx]
       /\ reconnected' \in [Slots -> 0..MaxTx] /\ claimed' = claimed
       /\ \A p \in Slots : reconnected'[p] \in {reconnected[p], 0}
  BY <1>1 DEF Inv, Types
<1>15. image'.oit \in {image.oit, image.oit} /\ disk'.oit \in {disk.oit, image.oit}
  BY <1>4, <1>6
<1>. QED
  BY <1>5, <1>8, <1>10, <1>11, <1>12, <1>13, <1>14, <1>15, StepKeeps

-------------------------------------------------------------------------------
LEMMA CommitKeeps ==
    ASSUME Inv, NEW s \in Slots, NEW retain \in BOOLEAN,
           Commit(s, retain) \/ CommitFails(s, retain) \/ Rollback(s, retain)
    PROVE  Inv'
<1>1. PICK committed \in BOOLEAN :
          /\ slots' = [slots EXCEPT ![s] = Ended(s, retain, committed)]
          /\ committed = TRUE \/ committed = FALSE
  BY DEF Commit, CommitFails, Rollback, Ends
<1>. DEFINE new == Ended(s, retain, committed)
            ids == Ids(slots[s])
            Work(state) == EndState(image, ids, state)
<1>2. Moves(s, new) /\ Ids(new) = {}
  BY <1>1, EndedIs DEF Moves
<1>3. /\ seen' \in [Slots -> [Rows -> Read]] /\ team' \in [TxId -> 0..MaxTx]
      /\ reconnected' = reconnected /\ claimed' = claimed
      /\ reconnected' \in [Slots -> 0..MaxTx]
  <2>1. \/ seen' = seen
        \/ seen' = [seen EXCEPT ![s] = [r \in Rows |-> NoRow]]
    BY DEF Commit, CommitFails, Rollback, Ends
  <2>2. [r \in Rows |-> NoRow] \in [Rows -> Read]
    BY NoRowRead
  <2>. QED
    BY <2>1, <2>2 DEF Commit, CommitFails, Rollback, Ends, Inv, Types
<1>4. AllTx(s) = ids /\ CommitIds(s) = ids
  BY AllTxIs DEF CommitIds
<1>. HIDE DEF new, ids, Work
<1>5. CASE Commit(s, retain)
  <2>1. CASE slots[s].touched
    <3>1. FlushAndInstall(Work("Committed"))
      BY <1>4, <1>5, <2>1 DEF Commit, Work
    <3>2. told' = [t \in TxId |->
                    IF t \in ids
                    THEN IF "Committed" = "Committed" THEN "committed" ELSE "undone"
                    ELSE told[t]]
      BY <1>4, <1>5 DEF Commit, Tell
    <3>. QED
      BY <1>2, <1>3, <3>1, <3>2, EndKeeps DEF Work, ids
  <2>2. CASE ~slots[s].touched
    <3>1. slots[s].touched = FALSE
      BY <2>2, HeldFacts DEF TxSlots
    <3>2. ids = {}
      BY <3>1 DEF Inv, HeldInv, ids
    <3>3. told' = told
      BY <1>4, <1>5, <3>2 DEF Commit, Tell, Inv, Types
    <3>4. UNCHANGED <<image, flushed, disk, told, claimed>>
      BY <1>3, <1>5, <2>2, <3>3 DEF Commit
    <3>. QED
      BY <1>2, <1>3, <3>4, QuietKeeps
  <2>. QED
    BY <2>1, <2>2
<1>6. CASE CommitFails(s, retain)
  <2>1. FlushFails(Work("Committed")) /\ told' = told
    BY <1>4, <1>6 DEF CommitFails, Work
  <2>. QED
    BY <1>2, <1>3, <2>1, EndKeeps DEF Work, ids
<1>7. CASE Rollback(s, retain)
  <2>1. CASE slots[s].touched
    <3>1. CASE FlushAndInstall(Work("Dead")) /\ Tell(ids, "undone")
      <4>1. told' = [t \in TxId |->
                      IF t \in ids
                      THEN IF "Dead" = "Committed" THEN "committed" ELSE "undone"
                      ELSE told[t]]
        BY <3>1 DEF Tell
      <4>. QED
        BY <1>2, <1>3, <3>1, <4>1, EndKeeps DEF Work, ids
    <3>2. CASE FlushFails(Work("Dead")) /\ told' = told
      BY <1>2, <1>3, <3>2, EndKeeps DEF Work, ids
    <3>. QED
      BY <1>4, <1>7, <2>1, <3>1, <3>2 DEF Rollback, Work
  <2>2. CASE ~slots[s].touched
    <3>4. UNCHANGED <<image, flushed, disk, told, claimed>>
      BY <1>3, <1>7, <2>2 DEF Rollback
    <3>. QED
      BY <1>2, <1>3, <3>4, QuietKeeps
  <2>. QED
    BY <2>1, <2>2
<1>. QED
  BY <1>5, <1>6, <1>7

LEMMA DetachKeeps ==
    ASSUME Inv, NEW s \in Slots, Detach(s)
    PROVE  Inv'
<1>. DEFINE ids == Ids(slots[s])
<1>1. Moves(s, Idle) /\ Ids(Idle) = {}
  BY IdleIs DEF Moves, Detach
<1>2. /\ seen' \in [Slots -> [Rows -> Read]] /\ team' \in [TxId -> 0..MaxTx]
      /\ claimed' = claimed /\ reconnected' \in [Slots -> 0..MaxTx]
      /\ \A p \in Slots : reconnected'[p] \in {reconnected[p], 0}
  <2>1. [r \in Rows |-> NoRow] \in [Rows -> Read]
    BY NoRowRead
  <2>. QED
    BY <2>1, TxIds DEF Detach, Inv, Types
<1>3. AllTx(s) = ids
  BY AllTxIs
<1>. HIDE DEF ids
<1>4. CASE UNCHANGED <<image, flushed, disk, told>>
  BY <1>1, <1>2, <1>4, QuietKeeps
<1>5. CASE FlushAndInstall(EndState(image, ids, "Dead")) /\ Tell(ids, "undone")
  <2>1. told' = [t \in TxId |->
                  IF t \in ids
                  THEN IF "Dead" = "Committed" THEN "committed" ELSE "undone"
                  ELSE told[t]]
    BY <1>5 DEF Tell
  <2>. QED
    BY <1>1, <1>2, <1>5, <2>1, EndKeeps DEF ids
<1>6. CASE FlushFails(EndState(image, ids, "Dead")) /\ told' = told
  BY <1>1, <1>2, <1>6, EndKeeps DEF ids
<1>. QED
  BY <1>3, <1>4, <1>5, <1>6 DEF Detach

(* A step of none of the open transactions. *)
LEMMA NobodyMoves ==
    ASSUME Inv, slots' = slots, NEW ids, NEW state, Changes(ids, state), ids \cap Held = {},
           Numbers'
    PROVE  HeldInv' /\ slots' \in [Slots -> TxSlots] /\ Fresh
<1>1. image.next \in Nat /\ image'.next \in Nat
  BY NumberedIs DEF Inv, Numbers, Numbered
<1>2. ASSUME NEW p \in Slots, NEW t \in Ids(slots[p])
      PROVE  /\ t <= image'.next /\ disk'.tip[t] # "Committed"
             /\ image'.tip[t] = IF slots[p].prepared = TRUE THEN "Limbo" ELSE "Active"
  <2>1. t \notin ids /\ t \in TxId
    BY <1>2, HeldFacts
  <2>2. /\ t <= image.next /\ disk.tip[t] # "Committed"
        /\ image.tip[t] = IF slots[p].prepared = TRUE THEN "Limbo" ELSE "Active"
    BY <1>2 DEF Inv, HeldInv
  <2>3. image'.tip[t] = image.tip[t] /\ disk'.tip[t] \in {disk.tip[t], image.tip[t]}
    BY <2>1 DEF Changes
  <2>4. t <= image'.next
    BY <1>1, <2>1, <2>2, TxIds DEF Changes
  <2>. QED
    BY <2>2, <2>3, <2>4
<1>3. HeldInv'
  BY <1>2 DEF HeldInv, Inv
<1>4. Held' = Held
  BY HeldIs, HeldNext
<1>. QED
  BY <1>3, <1>4 DEF Fresh, Inv, Types

LEMMA ResolveKeeps ==
    ASSUME Inv, NEW s \in Slots, NEW state \in {"Committed", "Dead"}, Resolve(s, state)
    PROVE  Inv'
<1>. DEFINE t == reconnected[s]
            ids == {t}
            work == EndState(image, ids, state)
<1>1. /\ t # 0 /\ reconnected' = [reconnected EXCEPT ![s] = 0]
      /\ UNCHANGED <<slots, team, claimed, seen>>
      /\ \/ FlushAndInstall(work) /\ Tell(ids, IF state = "Committed" THEN "committed" ELSE "undone")
         \/ FlushFails(work) /\ told' = told
  BY DEF Resolve
<1>2. /\ t \in TxId /\ t <= image.next /\ image.tip[t] = "Limbo" /\ t \notin Held
      /\ \A p \in Slots \ {s} : reconnected[p] # t
  BY <1>1 DEF Inv, Types, ReconInv, TxId
<1>3. /\ ids \in SUBSET TxId /\ \A u \in ids : u <= image.next /\ image.tip[u] \in Open
  BY <1>2 DEF Open
<1>. HIDE DEF ids, work
<1>4. /\ Numbers' /\ FilesInv' /\ Changes(ids, state)
      /\ image'.oit = image.oit /\ disk'.oit \in {disk.oit, image.oit}
      /\ image.next \in Nat /\ image'.next \in Nat
      /\ FlushAndInstall(work) => \A u \in ids : image'.tip[u] = state /\ disk'.tip[u] = state
  BY <1>1, <1>3, EndFiles DEF work
<1>5. HeldInv' /\ slots' \in [Slots -> TxSlots] /\ Fresh
  BY <1>1, <1>2, <1>4, NobodyMoves DEF ids
<1>6. Held' = Held
  BY <1>1, HeldIs, HeldNext
<1>7. Rightly(ids)
  <2>1. CASE told' = told
    BY <2>1 DEF Rightly, Inv, Types
  <2>2. CASE FlushAndInstall(work) /\ Tell(ids, IF state = "Committed" THEN "committed" ELSE "undone")
    <3>1. told' = [u \in TxId |-> IF u \in ids
                                  THEN IF state = "Committed" THEN "committed" ELSE "undone"
                                  ELSE told[u]]
      BY <2>2 DEF Tell
    <3>2. told' \in [TxId -> {"nothing", "committed", "undone"}]
      BY <3>1 DEF Inv, Types
    <3>3. image'.tip[t] = state /\ disk'.tip[t] = state /\ t <= image'.next
      <4>1. t \in Nat /\ image.next <= image'.next
        BY <1>2, <1>4, TxIds DEF Changes
      <4>2. t \in ids
        BY DEF ids
      <4>. HIDE DEF t
      <4>. QED
        BY <1>2, <1>4, <2>2, <4>1, <4>2
    <3>. QED
      BY <1>2, <1>6, <3>1, <3>2, <3>3 DEF Rightly, ids
  <2>. QED
    BY <1>1, <2>1, <2>2
<1>8. \A p \in Slots : reconnected'[p] \notin ids
  BY <1>1, <1>2, TxIds DEF ids, Inv, Types
<1>9. /\ reconnected' \in [Slots -> 0..MaxTx]
      /\ \A p \in Slots : reconnected'[p] \in {reconnected[p], 0}
  BY <1>1, TxIds DEF Inv, Types
<1>10. /\ \A u \in TxId : u >= claimed /\ u < image.oit => image.tip[u] = "Committed"
       /\ seen' \in [Slots -> [Rows -> Read]] /\ team' \in [TxId -> 0..MaxTx] /\ claimed' = claimed
  BY <1>1 DEF Inv, OitInv, Types
<1>11. \A u \in ids : u \in Held \/ image.tip[u] = "Limbo" \/ u > image.next
  BY <1>2 DEF ids
<1>. QED
  BY <1>4, <1>5, <1>7, <1>8, <1>9, <1>10, <1>11, StepKeeps

-------------------------------------------------------------------------------
(* The copy a statement writes into. *)
LEMMA WorkIs ==
    ASSUME Inv, NEW s \in Slots, CanReserve(s)
    PROVE  LET w == WorkCopy(s)
               tx == WorkTx(s)
           IN  /\ Numbered(w) /\ Blank(w) /\ w.rows = image.rows
               /\ image.next <= w.next
               /\ \A t \in TxId : w.tip[t] = image.tip[t]
               /\ \A t \in TxId : t >= claimed /\ t < w.oit => image.tip[t] = "Committed"
               /\ tx \in TxId /\ tx <= w.next
               /\ IF WriteTx(s) = 0 THEN tx = image.next + 1 /\ w.next = tx
                  ELSE tx = WriteTx(s) /\ tx \in Ids(slots[s]) /\ w = image
<1>. DEFINE sl == slots[s]
<1>1. /\ Numbered(image) /\ Blank(image) /\ image.next \in Nat /\ image.next \in 0..MaxTx
      /\ image.next >= 1
  <2>1. Numbered(image) /\ Blank(image)
    BY DEF Inv, Numbers, FilesInv
  <2>2. image.next \in Nat /\ image.next \in 0..MaxTx /\ image.oit >= 1 /\ image.oit <= image.next
        /\ image.oit \in Nat
    BY <2>1, NumberedIs
  <2>. QED
    BY <2>1, <2>2
<1>2. \A t \in TxId : t >= claimed /\ t < image.oit => image.tip[t] = "Committed"
  BY DEF Inv, OitInv
<1>3. CASE WriteTx(s) # 0
  <2>1. WorkTx(s) = WriteTx(s) /\ WorkCopy(s) = image
    BY <1>3 DEF WorkTx, WorkCopy
  <2>2. WriteTx(s) \in Ids(sl)
    <3>1. WindowInv(sl) /\ sl \in TxSlots
      BY HeldFacts
    <3>2. Len(sl.windows) \in 1..Len(sl.windows)
      BY <3>1, LenProperties DEF WindowInv, WindowsOk, TxSlots
    <3>3. CASE Inner(s) = 1
      BY <1>3, <3>3 DEF WriteTx, Ids
    <3>4. CASE Inner(s) # 1
      <4>1. WriteTx(s) = sl.windows[Len(sl.windows)].tx
        BY <3>4 DEF WriteTx, Inner
      <4>2. WriteTx(s) \in IdsOf(sl.windows[Len(sl.windows)])
        BY <1>3, <4>1 DEF IdsOf
      <4>. QED
        BY <3>1, <3>2, <4>2 DEF WindowInv, WindowsOk, Ids
    <3>. QED
      BY <3>3, <3>4
  <2>3. WriteTx(s) \in TxId /\ WriteTx(s) <= image.next
    BY <2>2, HeldFacts
  <2>. QED
    BY <1>1, <1>2, <1>3, <2>1, <2>2, <2>3
<1>4. CASE WriteTx(s) = 0
  <2>. DEFINE w == BeginActive(image)
  <2>1. WorkTx(s) = image.next + 1 /\ WorkCopy(s) = w /\ image.next < MaxTx
    BY <1>4 DEF WorkTx, WorkCopy, CanReserve
  <2>2. /\ Numbered(w) /\ w.next = image.next + 1 /\ w.rows = image.rows
        /\ \A t \in TxId : w.tip[t] = IF t = image.next + 1 THEN "Active" ELSE image.tip[t]
        /\ Passed(image, w)
    BY <1>1, <2>1, BeginActiveIs
  <2>. HIDE DEF w
  <2>3. image.next + 1 \in TxId /\ image.tip[image.next + 1] = "Active"
    BY <1>1, <2>1, TxIds DEF Blank, TxId
  <2>4. \A t \in TxId : w.tip[t] = image.tip[t]
    BY <2>2, <2>3
  <2>5. Blank(w)
    <3>1. \A t \in TxId : t > w.next => t > image.next
      BY <1>1, <2>2, TxIds
    <3>. QED
      BY <1>1, <2>4, <3>1 DEF Blank
  <2>6. ASSUME NEW t \in TxId, t >= claimed, t < w.oit
        PROVE  image.tip[t] = "Committed"
    <3>1. t \in Nat /\ image.oit \in Nat
      BY <1>1, TxIds, NumberedIs
    <3>2. CASE t < image.oit
      BY <1>2, <2>6, <3>2
    <3>3. CASE image.oit <= t
      BY <2>2, <2>6, <3>3 DEF Passed
    <3>. QED
      BY <3>1, <3>2, <3>3
  <2>7. image.next <= w.next /\ image.next + 1 <= w.next
    BY <1>1, <2>2
  <2>. QED
    BY <1>4, <2>1, <2>2, <2>3, <2>4, <2>5, <2>6, <2>7
<1>. QED
  BY <1>3, <1>4

(* The transaction that writes holds the id of its window.                 *)
LEMMA AdoptedIs ==
    ASSUME Inv, NEW s \in Slots, CanReserve(s)
    PROVE  LET new == Adopt(slots[s], WorkTx(s))
           IN  /\ new \in TxSlots /\ WindowInv(new)
               /\ Ids(new) = Ids(slots[s]) \cup {WorkTx(s)}
               /\ new.prepared = slots[s].prepared /\ new.touched = TRUE
<1>. DEFINE sl == slots[s]
            tx == WorkTx(s)
            new == Adopt(sl, tx)
<1>1. /\ tx \in TxId
      /\ IF WriteTx(s) = 0 THEN tx = image.next + 1 ELSE tx = WriteTx(s) /\ tx \in Ids(sl)
  BY WorkIs
<1>3. /\ sl \in TxSlots /\ WindowInv(sl) /\ Ids(sl) \in SUBSET TxId
      /\ \A t \in Ids(sl) : t <= image.next
  BY HeldFacts
<1>4. image.next \in Nat
  BY NumberedIs DEF Inv, Numbers
<1>. HIDE DEF tx, new
<1>5. WriteTx(s) = 0 => tx \notin Ids(sl)
  BY <1>1, <1>3, <1>4
<1>6. /\ new \in TxSlots /\ WindowInv(new) /\ Ids(new) = Ids(sl) \cup {tx}
      /\ new.prepared = sl.prepared /\ new.touched = TRUE
  <2>1. WriteTx(s) = IF Len(sl.windows) = 1 THEN sl.tx ELSE sl.windows[Len(sl.windows)].tx
    BY DEF WriteTx, Inner
  <2>2. \/ tx \notin Ids(sl)
        \/ tx = IF Len(sl.windows) = 1 THEN sl.tx ELSE sl.windows[Len(sl.windows)].tx
    BY <1>1, <1>5, <2>1
  <2>3. IF Len(sl.windows) = 1 THEN sl.tx \in {0, tx}
        ELSE sl.windows[Len(sl.windows)].tx \in {0, tx}
    BY <1>1, <2>1
  <2>. QED
    BY <1>1, <1>3, <2>2, <2>3, AdoptIs DEF new
<1>. QED
  BY <1>6 DEF tx, new

(* A statement's step: the chain of one row changes, by versions of ids    *)
(* handed out.                                                             *)
LEMMA InstallKeeps ==
    ASSUME Inv, NEW s \in Slots, Works(s), CanReserve(s), NEW r \in Rows, NEW chain \in Seq(Vers),
           \A i \in 1..Len(chain) : chain[i].tx <= WorkCopy(s).next,
           Install(s, [WorkCopy(s) EXCEPT !.rows[r] = chain], WorkTx(s))
    PROVE  Inv'
<1>. DEFINE sl == slots[s]
            w == WorkCopy(s)
            tx == WorkTx(s)
            work == [w EXCEPT !.rows[r] = chain]
            new == Adopt(sl, tx)
<1>1. /\ Numbered(w) /\ Blank(w) /\ w.rows = image.rows
      /\ image.next <= w.next
      /\ \A t \in TxId : w.tip[t] = image.tip[t]
      /\ \A t \in TxId : t >= claimed /\ t < w.oit => image.tip[t] = "Committed"
      /\ tx \in TxId /\ tx <= w.next
      /\ IF WriteTx(s) = 0 THEN tx = image.next + 1 /\ w.next = tx
         ELSE tx = WriteTx(s) /\ tx \in Ids(sl) /\ w = image
  BY WorkIs
<1>2. /\ image' = work /\ flushed' = flushed /\ disk' = disk /\ faults' = faults
      /\ slots' = [slots EXCEPT ![s] = new]
      /\ Enlist(s, tx)
      /\ UNCHANGED <<reconnected, told, claimed, seen>>
  BY DEF Install, InstallDirty
<1>3. /\ sl \in TxSlots /\ WindowInv(sl) /\ Ids(sl) \in SUBSET TxId /\ Ids(sl) \subseteq Held
      /\ \A t \in Ids(sl) : t <= image.next
  BY HeldFacts
<1>4. image.next \in Nat
  BY NumberedIs DEF Inv, Numbers
<1>. HIDE DEF w, tx, new
<1>6. /\ new \in TxSlots /\ WindowInv(new) /\ Ids(new) = Ids(sl) \cup {tx}
      /\ new.prepared = sl.prepared /\ new.touched = TRUE
  BY AdoptedIs DEF tx, new
<1>7. /\ work.next = w.next /\ work.oit = w.oit /\ work.tip = w.tip
      /\ work.rows = [image.rows EXCEPT ![r] = chain] /\ Numbered(work)
  <2>1. w \in File /\ w.rows \in [Rows -> Seq(Vers)]
    BY <1>1, NumberedIs
  <2>2. [w.rows EXCEPT ![r] = chain] \in [Rows -> Seq(Vers)]
    BY <2>1
  <2>3. /\ work.next = w.next /\ work.oit = w.oit /\ work.tip = w.tip
        /\ work.rows = [w.rows EXCEPT ![r] = chain]
    BY <2>1 DEF File
  <2>4. work \in File
    BY <2>1, <2>2 DEF File, Vers
  <2>. QED
    BY <1>1, <2>3, <2>4 DEF Numbered
<1>. HIDE DEF work
<1>8. Written(work)
  <2>1. image.rows \in [Rows -> Seq(Vers)]
    BY NumberedIs DEF Inv, Numbers
  <2>2. w.next \in Nat
    BY <1>1, NumberedIs
  <2>3. ASSUME NEW q \in Rows, NEW i \in 1..Len(work.rows[q])
        PROVE  work.rows[q][i].tx <= w.next
    <3>1. CASE q = r
      <4>1. work.rows[q] = chain
        BY <1>7, <2>1, <3>1
      <4>. QED
        BY <2>3, <4>1 DEF w
    <3>2. CASE q # r
      <4>1. work.rows[q] = image.rows[q]
        BY <1>7, <2>1, <3>2
      <4>2. image.rows[q][i].tx <= image.next
        BY <2>3, <4>1 DEF Inv, FilesInv, Written
      <4>3. image.rows[q][i] \in Vers
        BY <2>1, <2>3, <4>1, ElementOfSeq
      <4>4. image.rows[q][i].tx \in Nat
        BY <4>3, TxIds DEF Vers
      <4>. QED
        BY <1>1, <1>4, <2>2, <4>1, <4>2, <4>4
    <3>. QED
      BY <3>1, <3>2
  <2>. QED
    BY <1>7, <2>3 DEF Written
<1>9. Copy(work, {}, "Dead")
  BY <1>1, <1>7, <1>8 DEF Copy, Blank, TxState
<1>10. Numbers' /\ FilesInv' /\ Changes({}, "Dead")
  BY <1>2, <1>9, DirtyFiles DEF Inv, InstallDirty
<1>11. Moves(s, new)
  BY <1>2, <1>6 DEF Moves
<1>12. HeldInv' /\ slots' \in [Slots -> TxSlots]
  <2>1. \A p \in Slots \ {s} : Ids(slots[p]) \cap Ids(new) = {}
    <3>1. \A p \in Slots \ {s} : Ids(slots[p]) \cap Ids(sl) = {}
      BY HeldFacts
    <3>2. \A p \in Slots \ {s} : tx \notin Ids(slots[p])
      <4>1. \A p \in Slots : \A t \in Ids(slots[p]) : t <= image.next
        BY HeldFacts
      <4>2. CASE WriteTx(s) = 0
        <5>1. tx = image.next + 1 /\ ~(tx <= image.next)
          BY <1>1, <1>4, <4>2
        <5>. QED
          BY <4>1, <5>1
      <4>3. CASE WriteTx(s) # 0
        <5>1. tx \in Ids(sl)
          BY <1>1, <4>3
        <5>. QED
          BY <3>1, <5>1
      <4>. QED
        BY <4>2, <4>3
    <3>. QED
      BY <1>6, <3>1, <3>2
  <2>2. ASSUME NEW t \in Ids(new)
        PROVE  /\ t <= image'.next /\ disk'.tip[t] # "Committed"
               /\ image'.tip[t] = IF new.prepared = TRUE THEN "Limbo" ELSE "Active"
    <3>1. new.prepared # TRUE
      BY <1>6 DEF Works
    <3>2. t \in TxId /\ image'.tip[t] = image.tip[t] /\ disk'.tip[t] = disk.tip[t]
      BY <1>1, <1>2, <1>3, <1>6, <1>7, <2>2
    <3>3. CASE t \in Ids(sl)
      <4>1. /\ t <= image.next /\ disk.tip[t] # "Committed"
            /\ image.tip[t] = IF sl.prepared = TRUE THEN "Limbo" ELSE "Active"
        BY <3>3 DEF Inv, HeldInv
      <4>2. t <= image'.next
        <5>1. t \in Nat /\ w.next \in Nat /\ image'.next = w.next
          BY <1>1, <1>2, <1>7, <3>2, TxIds, NumberedIs
        <5>. QED
          BY <1>1, <1>4, <4>1, <5>1
      <4>. QED
        BY <1>6, <3>1, <3>2, <4>1, <4>2
    <3>4. CASE t \notin Ids(sl)
      <4>1. t = tx /\ t = image.next + 1
        BY <1>1, <1>6, <2>2, <3>4
      <4>2. t > image.next /\ t > disk.next
        BY <1>4, <4>1, NumberedIs DEF Inv, Numbers, FilesInv
      <4>3. image.tip[t] = "Active" /\ disk.tip[t] = "Active"
        BY <3>2, <4>2 DEF Inv, FilesInv, Blank
      <4>4. t <= image'.next
        BY <1>1, <1>2, <1>7, <4>1
      <4>. QED
        BY <3>1, <3>2, <4>3, <4>4
    <3>. QED
      BY <3>3, <3>4
  <2>3. \A p \in Slots \ {s} : Ids(slots[p]) \cap {} = {}
    OBVIOUS
  <2>4. image'.next \in Nat
    BY <1>10, NumberedIs DEF Numbers, Numbered
  <2>. QED
    BY <1>4, <1>10, <1>11, <2>1, <2>2, <2>3, <2>4, OthersHold DEF Inv, Types
<1>13. Fresh
  <2>1. \A t \in Held' : t \in Held \/ t = tx
    BY <1>2, <1>6, HeldIs, HeldNext DEF Inv, Types
  <2>2. tx \in Held \/ tx > image.next
    BY <1>1, <1>3, <1>4
  <2>. QED
    BY <2>1, <2>2 DEF Fresh
<1>14. team' \in [TxId -> 0..MaxTx]
  <2>1. team \in [TxId -> 0..MaxTx] /\ tx \in 0..MaxTx
    BY <1>1, TxIds DEF Inv, Types, TxId
  <2>2. AllTx(s) # {} => (CHOOSE t \in AllTx(s) : TRUE) \in TxId
    BY <1>3, AllTxIs
  <2>. QED
    BY <1>2, <2>1, <2>2 DEF Enlist
<1>15. Rightly({})
  BY <1>2 DEF Rightly, Inv, Types
<1>16. /\ seen' \in [Slots -> [Rows -> Read]] /\ claimed' = claimed
       /\ reconnected' \in [Slots -> 0..MaxTx]
       /\ \A p \in Slots : reconnected'[p] \in {reconnected[p], 0}
       /\ \A p \in Slots : reconnected'[p] \notin {}
  BY <1>2 DEF Inv, Types
<1>17. image'.oit \in {image.oit, w.oit} /\ disk'.oit \in {disk.oit, w.oit}
  BY <1>2, <1>7
<1>. QED
  BY <1>1, <1>10, <1>12, <1>13, <1>14, <1>15, <1>16, <1>17, StepKeeps

(* After a write there is one version more, or the same number. *)
Dropped(tip, chain) == Head(chain).del /\ StateOf(tip, Head(chain).tx) = "Dead"

Wrote(tip, chain, v, new) ==
    /\ Len(new) >= 1 /\ new[1] = v
    /\ \/ /\ ~Dropped(tip, chain)
          /\ Len(new) = Len(chain) + 1
          /\ \A i \in 1..Len(chain) : new[i + 1] = chain[i]
       \/ /\ Dropped(tip, chain)
          /\ Len(new) = Len(chain)
          /\ \A i \in 2..Len(chain) : new[i] = chain[i]
    /\ \A i \in 1..Len(new) : new[i] = v \/ \E j \in 1..Len(chain) : new[i] = chain[j]

LEMMA WrittenOver ==
    ASSUME NEW tip, NEW chain \in Seq(Vers), NEW v \in Vers, chain # <<>>
    PROVE  Wrote(tip, chain, v, WriteOver(tip, chain, v))
<1>. DEFINE one == <<v>>
            rest == Tail(chain)
            old == Dropped(tip, chain)
            new == WriteOver(tip, chain, v)
<1>1. one \in Seq(Vers) /\ Len(one) = 1 /\ one[1] = v
  OBVIOUS
<1>2. /\ rest \in Seq(Vers) /\ Len(rest) = Len(chain) - 1
      /\ \A i \in 1..Len(rest) : rest[i] = chain[i + 1]
  BY HeadTailProperties
<1>3. Len(chain) \in Nat /\ Len(chain) >= 1
  BY EmptySeq, LenProperties
<1>4. new = IF old THEN one \o rest ELSE one \o chain
  BY DEF WriteOver, Dropped
<1>. HIDE DEF one, rest, new
<1>5. CASE old
  <2>0. rest \in Seq(Vers)
    BY <1>2
  <2>1. /\ one \o rest \in Seq(Vers)
        /\ Len(one \o rest) = Len(one) + Len(rest)
        /\ \A i \in 1..(Len(one) + Len(rest)) :
              (one \o rest)[i] = IF i <= Len(one) THEN one[i] ELSE rest[i - Len(one)]
    BY <1>1, <2>0, ConcatProperties
  <2>2. Len(new) = Len(chain) /\ \A i \in 1..Len(chain) : new[i] = IF i <= 1 THEN one[i] ELSE rest[i - 1]
    BY <1>1, <1>2, <1>3, <1>4, <1>5, <2>1
  <2>3. new[1] = v
    BY <1>1, <1>3, <2>2
  <2>4. \A i \in 2..Len(chain) : new[i] = chain[i]
    <3>1. ASSUME NEW i \in 2..Len(chain)
          PROVE  i \in 1..Len(chain) /\ ~(i <= 1) /\ i - 1 \in 1..Len(rest) /\ i - 1 + 1 = i
      BY <1>2, <1>3
    <3>. QED
      BY <1>2, <2>2, <3>1
  <2>5. ASSUME NEW i \in 1..Len(new)
        PROVE  new[i] = v \/ \E j \in 1..Len(chain) : new[i] = chain[j]
    <3>1. i = 1 \/ i \in 2..Len(chain)
      BY <1>3, <2>2
    <3>2. \A j \in 2..Len(chain) : j \in 1..Len(chain)
      BY <1>3
    <3>. QED
      BY <2>3, <2>4, <3>1, <3>2
  <2>. QED
    BY <1>3, <1>5, <2>2, <2>3, <2>4, <2>5 DEF new, Wrote
<1>6. CASE ~old
  <2>1. /\ Len(one \o chain) = Len(one) + Len(chain)
        /\ \A i \in 1..(Len(one) + Len(chain)) :
              (one \o chain)[i] = IF i <= Len(one) THEN one[i] ELSE chain[i - Len(one)]
    BY <1>1, ConcatProperties
  <2>2. /\ Len(new) = Len(chain) + 1
        /\ \A i \in 1..(Len(chain) + 1) : new[i] = IF i <= 1 THEN one[i] ELSE chain[i - 1]
    BY <1>1, <1>3, <1>4, <1>6, <2>1
  <2>3. new[1] = v
    BY <1>1, <1>3, <2>2
  <2>4. \A i \in 1..Len(chain) : new[i + 1] = chain[i]
    <3>1. ASSUME NEW i \in 1..Len(chain)
          PROVE  i + 1 \in 1..(Len(chain) + 1) /\ ~(i + 1 <= 1) /\ i + 1 - 1 = i
      BY <1>3
    <3>. QED
      BY <2>2, <3>1
  <2>5. ASSUME NEW i \in 1..Len(new)
        PROVE  new[i] = v \/ \E j \in 1..Len(chain) : new[i] = chain[j]
    <3>1. i = 1 \/ (i - 1 \in 1..Len(chain) /\ i - 1 + 1 = i)
      BY <1>3, <2>2
    <3>. QED
      BY <2>3, <2>4, <3>1
  <2>. QED
    BY <1>3, <1>6, <2>2, <2>3, <2>4, <2>5 DEF new, Wrote
<1>. QED
  BY <1>5, <1>6

LEMMA WriteKeeps ==
    ASSUME Inv, NEW s \in Slots, NEW r \in Rows,
           Insert(s, r) \/ \E del \in BOOLEAN : UpdateOrDelete(s, r, del)
    PROVE  Inv'
<1>1. image.rows[r] \in Seq(Vers) /\ image.next \in Nat
  BY NumberedIs DEF Inv, Numbers
<1>2. \A i \in 1..Len(image.rows[r]) : image.rows[r][i].tx <= image.next
  BY DEF Inv, FilesInv, Written
<1>3. ASSUME CanReserve(s), NEW del \in BOOLEAN
      PROVE  /\ Version(WorkTx(s), del) \in Vers
             /\ WorkTx(s) <= WorkCopy(s).next /\ image.next <= WorkCopy(s).next
             /\ WorkCopy(s).rows = image.rows /\ WorkCopy(s).next \in Nat
  <2>1. /\ WorkTx(s) \in TxId /\ WorkTx(s) <= WorkCopy(s).next /\ image.next <= WorkCopy(s).next
        /\ WorkCopy(s).rows = image.rows /\ Numbered(WorkCopy(s))
    BY <1>3, WorkIs
  <2>2. Version(WorkTx(s), del) \in Vers
    BY <2>1 DEF Version, Vers
  <2>3. WorkCopy(s).next \in Nat
    BY <2>1, NumberedIs
  <2>. QED
    BY <2>1, <2>2, <2>3
<1>4. CASE Insert(s, r)
  <2>. DEFINE v == Version(WorkTx(s), FALSE)
              chain == <<v>>
  <2>1. Works(s) /\ CanReserve(s) /\ Install(s, [WorkCopy(s) EXCEPT !.rows[r] = chain], WorkTx(s))
    BY <1>4 DEF Insert
  <2>2. v \in Vers /\ v.tx = WorkTx(s) /\ WorkTx(s) <= WorkCopy(s).next
    BY <1>3, <2>1 DEF Version
  <2>. HIDE DEF v
  <2>3. chain \in Seq(Vers) /\ \A i \in 1..Len(chain) : chain[i].tx <= WorkCopy(s).next
    <3>1. Len(chain) = 1 /\ chain[1] = v /\ \A i \in 1..1 : i = 1
      OBVIOUS
    <3>2. chain \in Seq(Vers)
      BY <2>2
    <3>. HIDE DEF chain
    <3>. QED
      BY <2>2, <3>1, <3>2
  <2>. HIDE DEF chain
  <2>. QED
    BY <2>1, <2>3, InstallKeeps
<1>5. ASSUME NEW del \in BOOLEAN, UpdateOrDelete(s, r, del) PROVE Inv'
  <2>. DEFINE v == Version(WorkTx(s), del)
              chain == WriteOver(image.tip, image.rows[r], v)
  <2>1. Works(s) /\ CanReserve(s) /\ image.rows[r] # <<>>
    BY <1>5 DEF UpdateOrDelete, Target
  <2>2. /\ v \in Vers /\ v.tx = WorkTx(s) /\ WorkTx(s) <= WorkCopy(s).next
        /\ image.next <= WorkCopy(s).next
        /\ WorkCopy(s).rows = image.rows /\ WorkCopy(s).next \in Nat
    BY <1>3, <2>1 DEF Version
  <2>3. Install(s, [WorkCopy(s) EXCEPT !.rows[r] = chain], WorkTx(s))
    BY <1>5, <2>2 DEF UpdateOrDelete
  <2>. HIDE DEF v
  <2>4. chain \in Seq(Vers)
    BY <1>1, <2>1, <2>2, WriteOverType
  <2>5. ASSUME NEW i \in 1..Len(chain)
        PROVE  chain[i] = v \/ \E j \in 1..Len(image.rows[r]) : chain[i] = image.rows[r][j]
    <3>1. Wrote(image.tip, image.rows[r], v, chain)
      BY <1>1, <2>1, <2>2, WrittenOver
    <3>. HIDE DEF chain
    <3>. QED
      BY <2>5, <3>1 DEF Wrote
  <2>. HIDE DEF chain
  <2>6. ASSUME NEW i \in 1..Len(chain) PROVE chain[i].tx <= WorkCopy(s).next
    <3>1. CASE chain[i] = v
      BY <2>2, <3>1
    <3>2. CASE \E j \in 1..Len(image.rows[r]) : chain[i] = image.rows[r][j]
      <4>1. PICK j \in 1..Len(image.rows[r]) : chain[i] = image.rows[r][j]
        BY <3>2
      <4>2. image.rows[r][j] \in Vers
        BY <1>1, ElementOfSeq
      <4>3. image.rows[r][j].tx \in Nat
        BY <4>2, TxIds DEF Vers
      <4>4. image.rows[r][j].tx <= image.next
        BY <1>2
      <4>5. image.rows[r][j].tx <= WorkCopy(s).next
        <5>. DEFINE a == image.rows[r][j].tx
                    b == WorkCopy(s).next
        <5>1. a \in Nat /\ b \in Nat /\ a <= image.next /\ image.next <= b
          BY <2>2, <4>3, <4>4
        <5>. HIDE DEF a, b
        <5>2. a <= b
          BY <1>1, <5>1
        <5>. QED
          BY <5>2 DEF a, b
      <4>. QED
        BY <4>1, <4>5
    <3>. QED
      BY <2>5, <3>1, <3>2
  <2>. QED
    BY <2>1, <2>3, <2>4, <2>6, InstallKeeps
<1>. QED
  BY <1>4, <1>5

-------------------------------------------------------------------------------
(* Of a transaction that is prepared without an id of its own, no          *)
(* savepoint has one either: it has none at all.                           *)
LEMMA PreparedIs ==
    ASSUME Inv, NEW s \in Slots, OneIdOnly(s), "manyInLimbo" \notin Beyond,
           slots[s].tx # 0 \/ image.next < MaxTx
    PROVE  LET tx == PrepareTx(s)
               new == Prepared(s)
           IN  /\ tx \in TxId
               /\ new \in TxSlots /\ WindowInv(new)
               /\ Ids(new) = {tx}
               /\ IF slots[s].tx # 0 THEN tx \in Ids(slots[s]) /\ Ids(slots[s]) = {tx} /\ new = slots[s]
                  ELSE tx = image.next + 1 /\ Ids(slots[s]) = {}
<1>. DEFINE sl == slots[s]
<1>1. /\ sl \in TxSlots /\ WindowInv(sl) /\ Ids(sl) \in SUBSET TxId
      /\ \A t \in Ids(sl) : t <= image.next
  BY HeldFacts
<1>2. image.next \in Nat /\ Ids(sl) \subseteq {sl.tx} /\ sl.tx \in 0..MaxTx
  BY <1>1, AllTxIs, NumberedIs DEF OneIdOnly, Inv, Numbers, TxSlots
<1>3. CASE sl.tx # 0
  <2>1. PrepareTx(s) = sl.tx /\ Prepared(s) = sl
    BY <1>3 DEF PrepareTx, Prepared
  <2>2. sl.tx \in Ids(sl)
    BY <1>3 DEF Ids
  <2>. QED
    BY <1>1, <1>2, <1>3, <2>1, <2>2
<1>4. CASE sl.tx = 0
  <2>. DEFINE tx == image.next + 1
  <2>1. PrepareTx(s) = tx /\ Prepared(s) = Adopt(sl, tx)
    BY <1>4 DEF PrepareTx, Prepared
  <2>2. tx \in TxId
    BY <1>2, <1>4, TxIds DEF TxId
  <2>3. Ids(sl) = {} /\ sl.nested = {}
    <3>1. 0 \notin Ids(sl)
      BY <1>1, TxIds
    <3>2. Ids(sl) = {}
      BY <1>2, <1>4, <3>1
    <3>. QED
      BY <3>2 DEF Ids
  <2>4. Len(sl.windows) \in 1..Len(sl.windows)
    BY <1>1, LenProperties DEF WindowInv, WindowsOk, TxSlots
  <2>5. sl.windows[Len(sl.windows)].tx = 0
    <3>1. IdsOf(sl.windows[Len(sl.windows)]) \subseteq {}
      BY <1>1, <2>3, <2>4 DEF WindowInv, WindowsOk
    <3>. QED
      BY <3>1 DEF IdsOf
  <2>. HIDE DEF tx
  <2>6. IF Len(sl.windows) = 1 THEN sl.tx \in {0, tx}
        ELSE sl.windows[Len(sl.windows)].tx \in {0, tx}
    BY <1>4, <2>5
  <2>7. /\ Adopt(sl, tx) \in TxSlots /\ WindowInv(Adopt(sl, tx))
        /\ Ids(Adopt(sl, tx)) = Ids(sl) \cup {tx}
    BY <1>1, <2>2, <2>3, <2>6, AdoptIs
  <2>. QED
    BY <1>4, <2>1, <2>2, <2>3, <2>7 DEF tx
<1>. QED
  BY <1>3, <1>4

(* The copy a prepare writes: one id in limbo. *)
LEMMA PrepareCopy ==
    ASSUME Inv, NEW s \in Slots, OneIdOnly(s), "manyInLimbo" \notin Beyond,
           slots[s].tx # 0 \/ image.next < MaxTx
    PROVE  LET work == PrepareWork(s)
           IN  /\ Copy(work, {PrepareTx(s)}, "Limbo")
               /\ slots[s].tx # 0 => work.next = image.next
               /\ \A t \in TxId : t >= claimed /\ t < work.oit => image.tip[t] = "Committed"
<1>. DEFINE tx == PrepareTx(s)
            w == IF slots[s].tx # 0 THEN image ELSE BeginActive(image)
            work == SetState(w, {tx}, "Limbo")
<1>1. /\ tx \in TxId
      /\ IF slots[s].tx # 0 THEN tx \in Ids(slots[s]) /\ Ids(slots[s]) = {tx}
         ELSE tx = image.next + 1 /\ Ids(slots[s]) = {}
  BY PreparedIs
<1>2. PrepareWork(s) = work
  <2>1. AllTx(s) \cup {tx} = {tx}
    BY <1>1, AllTxIs
  <2>. QED
    BY <2>1 DEF PrepareWork, EndState
<1>3. /\ Numbered(w) /\ Blank(w) /\ w.rows = image.rows /\ image.next <= w.next
      /\ \A t \in TxId : w.tip[t] = image.tip[t]
      /\ \A t \in TxId : t >= claimed /\ t < w.oit => image.tip[t] = "Committed"
      /\ tx <= w.next /\ (slots[s].tx # 0 => w.next = image.next)
      /\ image.tip[tx] \in Open
  <2>0. /\ Numbered(image) /\ Blank(image) /\ image.next \in Nat
        /\ \A t \in TxId : t >= claimed /\ t < image.oit => image.tip[t] = "Committed"
    BY NumberedIs DEF Inv, Numbers, FilesInv, OitInv
  <2>1. CASE slots[s].tx # 0
    <3>1. tx <= image.next /\ image.tip[tx] \in Open
      BY <1>1, <2>1, HeldFacts
    <3>. QED
      BY <2>0, <2>1, <3>1
  <2>2. CASE slots[s].tx = 0
    <3>. DEFINE b == BeginActive(image)
    <3>1. w = b
      BY <2>2
    <3>2. /\ Numbered(b) /\ b.next = image.next + 1 /\ b.rows = image.rows
          /\ \A t \in TxId : b.tip[t] = IF t = image.next + 1 THEN "Active" ELSE image.tip[t]
          /\ Passed(image, b)
      BY <2>0, <2>2, BeginActiveIs
    <3>. HIDE DEF b, w
    <3>3. tx = image.next + 1 /\ tx > image.next /\ image.tip[tx] = "Active"
      BY <1>1, <2>0, <2>2 DEF Blank
    <3>4. \A t \in TxId : b.tip[t] = image.tip[t]
      BY <3>2, <3>3
    <3>5. Blank(b)
      <4>1. \A t \in TxId : t > b.next => t > image.next
        BY <2>0, <3>2, TxIds
      <4>. QED
        BY <2>0, <3>4, <4>1 DEF Blank
    <3>6. ASSUME NEW t \in TxId, t >= claimed, t < b.oit
          PROVE  image.tip[t] = "Committed"
      <4>1. t \in Nat /\ image.oit \in Nat
        BY <2>0, TxIds, NumberedIs
      <4>2. CASE t < image.oit
        BY <2>0, <3>6, <4>2
      <4>3. CASE image.oit <= t
        BY <3>2, <3>6, <4>3 DEF Passed
      <4>. QED
        BY <4>1, <4>2, <4>3
    <3>7. image.next <= b.next /\ tx <= b.next
      BY <2>0, <3>2, <3>3
    <3>. QED
      BY <2>2, <3>1, <3>2, <3>3, <3>4, <3>5, <3>6, <3>7 DEF Open
  <2>. QED
    BY <2>1, <2>2
<1>. HIDE DEF w, tx
<1>4. /\ work \in File /\ work.next = w.next /\ work.oit = w.oit /\ work.rows = w.rows
      /\ \A t \in TxId : work.tip[t] = IF t \in {tx} THEN "Limbo" ELSE w.tip[t]
  BY <1>3, SetStateIs DEF Numbered, TxState
<1>. HIDE DEF work
<1>5. Numbered(work)
  BY <1>3, <1>4 DEF Numbered
<1>6. w.next \in Nat /\ image.next \in Nat
  BY <1>3, NumberedIs DEF Inv, Numbers
<1>7. Blank(work)
  <2>1. \A t \in TxId : t > w.next => t # tx
    BY <1>1, <1>3, <1>6, TxIds
  <2>. QED
    BY <1>3, <1>4, <2>1 DEF Blank
<1>8. Written(work)
  <2>1. ASSUME NEW r \in Rows, NEW i \in 1..Len(work.rows[r])
        PROVE  work.rows[r][i].tx <= w.next
    <3>1. work.rows[r] = image.rows[r]
      BY <1>3, <1>4
    <3>2. image.rows[r] \in Seq(Vers)
      BY NumberedIs DEF Inv, Numbers
    <3>3. image.rows[r][i] \in Vers
      BY <2>1, <3>1, <3>2, ElementOfSeq
    <3>4. image.rows[r][i].tx \in Nat
      BY <3>3, TxIds DEF Vers
    <3>5. image.rows[r][i].tx <= image.next
      BY <2>1, <3>1 DEF Inv, FilesInv, Written
    <3>. DEFINE a == image.rows[r][i].tx
    <3>6. a \in Nat /\ a <= image.next
      BY <3>4, <3>5
    <3>. HIDE DEF a
    <3>7. a <= w.next
      BY <1>3, <1>6, <3>6
    <3>. QED
      BY <3>1, <3>7 DEF a
  <2>. QED
    BY <1>4, <2>1 DEF Written
<1>9. Copy(work, {tx}, "Limbo")
  BY <1>1, <1>3, <1>4, <1>5, <1>7, <1>8 DEF Copy, TxState
<1>. QED
  BY <1>2, <1>3, <1>4, <1>9 DEF tx

LEMMA EnlistType ==
    ASSUME Inv, NEW s \in Slots, NEW tx \in TxId, Enlist(s, tx)
    PROVE  team' \in [TxId -> 0..MaxTx]
<1>1. team \in [TxId -> 0..MaxTx] /\ tx \in 0..MaxTx
  BY TxIds DEF Inv, Types, TxId
<1>2. AllTx(s) # {} => (CHOOSE t \in AllTx(s) : TRUE) \in TxId
  BY HeldFacts, AllTxIs
<1>. QED
  BY <1>1, <1>2 DEF Enlist

LEMMA PrepareKeeps ==
    ASSUME Inv, NEW s \in Slots, Prepare(s), "manyInLimbo" \notin Beyond
    PROVE  Inv'
<1>. DEFINE tx == PrepareTx(s)
            ids == {tx}
            work == PrepareWork(s)
            sl == Prepared(s)
            new == [sl EXCEPT !.touched = TRUE, !.prepared = TRUE]
<1>1. /\ OneIdOnly(s) /\ (slots[s].tx # 0 \/ image.next < MaxTx)
      /\ FlushAndInstall(work)
      /\ slots' = [slots EXCEPT ![s] = new]
      /\ Enlist(s, tx)
      /\ UNCHANGED <<reconnected, told, claimed, seen>>
  BY DEF Prepare
<1>2. /\ tx \in TxId /\ sl \in TxSlots /\ WindowInv(sl) /\ Ids(sl) = {tx}
      /\ IF slots[s].tx # 0 THEN tx \in Ids(slots[s]) /\ Ids(slots[s]) = {tx}
         ELSE tx = image.next + 1 /\ Ids(slots[s]) = {}
  BY <1>1, PreparedIs
<1>3. /\ Copy(work, ids, "Limbo")
      /\ \A t \in TxId : t >= claimed /\ t < work.oit => image.tip[t] = "Committed"
  BY <1>1, PrepareCopy
<1>. HIDE DEF sl, work, tx
<1>4. /\ new \in TxSlots /\ new.tx = sl.tx /\ new.nested = sl.nested
      /\ new.windows = sl.windows /\ new.touched = TRUE /\ new.prepared = TRUE
  BY <1>2 DEF TxSlots
<1>. HIDE DEF new
<1>5. Moves(s, new) /\ Ids(new) = {tx}
  <2>1. WindowInv(new) /\ Ids(new) = {tx}
    BY <1>2, <1>4, SameWindows
  <2>. QED
    BY <1>1, <1>4, <2>1 DEF Moves
<1>6. Numbers' /\ FilesInv' /\ Changes(ids, "Limbo") /\ \A t \in ids : image'.tip[t] = "Limbo"
  BY <1>1, <1>3, FlushedFiles DEF Inv
<1>7. image.next \in Nat /\ image'.next \in Nat
  BY <1>6, NumberedIs DEF Inv, Numbers, Numbered
<1>8. image' = work /\ tx <= work.next
  BY <1>1, <1>3 DEF FlushAndInstall, Copy
<1>9. \A p \in Slots \ {s} : tx \notin Ids(slots[p])
  <2>1. CASE slots[s].tx # 0
    BY <1>2, <2>1, HeldFacts
  <2>2. CASE slots[s].tx = 0
    <3>1. tx = image.next + 1 /\ ~(tx <= image.next)
      BY <1>2, <1>7, <2>2
    <3>. QED
      BY <3>1, HeldFacts
  <2>. QED
    BY <2>1, <2>2
<1>10. HeldInv' /\ slots' \in [Slots -> TxSlots]
  <2>1. disk'.tip[tx] # "Committed"
    <3>1. disk.tip[tx] # "Committed"
      <4>1. CASE slots[s].tx # 0
        BY <1>2, <4>1 DEF Inv, HeldInv
      <4>2. CASE slots[s].tx = 0
        <5>1. tx > disk.next
          BY <1>2, <1>7, <4>2, NumberedIs DEF Inv, Numbers, FilesInv
        <5>. QED
          BY <1>2, <5>1 DEF Inv, FilesInv, Blank
      <4>. QED
        BY <4>1, <4>2
    <3>. QED
      BY <1>2, <1>6, <3>1 DEF Changes
  <2>2. \A t \in Ids(new) : /\ t <= image'.next /\ disk'.tip[t] # "Committed"
                            /\ image'.tip[t] = IF new.prepared = TRUE THEN "Limbo" ELSE "Active"
    BY <1>4, <1>5, <1>6, <1>8, <2>1
  <2>3. /\ \A p \in Slots \ {s} : Ids(slots[p]) \cap ids = {}
        /\ \A p \in Slots \ {s} : Ids(slots[p]) \cap Ids(new) = {}
    BY <1>5, <1>9
  <2>. QED
    BY <1>5, <1>6, <1>7, <2>2, <2>3, OthersHold DEF Inv, Types
<1>11. tx \in Held \/ tx > image.next
  BY <1>2, <1>7, HeldIs
<1>12. Fresh
  <2>1. \A t \in Held' : t \in Held \/ t = tx
    BY <1>1, <1>5, HeldIs, HeldNext DEF Inv, Types
  <2>. QED
    BY <1>11, <2>1 DEF Fresh
<1>13. Rightly(ids)
  BY <1>1 DEF Rightly, Inv, Types
<1>14. \A p \in Slots : reconnected'[p] \notin ids
  <2>1. ASSUME NEW p \in Slots, reconnected[p] = tx PROVE FALSE
    <3>1. reconnected[p] <= image.next /\ reconnected[p] \notin Held
      BY <1>2, <2>1, TxIds DEF Inv, ReconInv
    <3>. QED
      BY <1>7, <1>11, <1>2, <2>1, <3>1, TxIds
  <2>. QED
    BY <1>1, <2>1
<1>15. /\ seen' \in [Slots -> [Rows -> Read]] /\ claimed' = claimed
       /\ reconnected' \in [Slots -> 0..MaxTx]
       /\ \A p \in Slots : reconnected'[p] \in {reconnected[p], 0}
       /\ team' \in [TxId -> 0..MaxTx]
  BY <1>1, <1>2, EnlistType DEF Inv, Types
<1>16. image'.oit \in {image.oit, work.oit} /\ disk'.oit \in {disk.oit, work.oit}
  <2>1. Flushed(work)
    BY <1>1, <1>3, FlushIs DEF Copy, Inv, Numbers
  <2>. QED
    BY <1>8, <2>1 DEF Flushed
<1>17. \A t \in ids : t \in Held \/ image.tip[t] = "Limbo" \/ t > image.next
  BY <1>11
<1>. QED
  BY <1>3, <1>6, <1>10, <1>12, <1>13, <1>14, <1>15, <1>16, <1>17, StepKeeps

LEMMA PrepareFailsKeeps ==
    ASSUME Inv, NEW s \in Slots, PrepareFails(s),
           "manyInLimbo" \notin Beyond, "prepareFails" \notin Beyond
    PROVE  Inv'
<1>. DEFINE tx == PrepareTx(s)
            ids == {tx}
            work == PrepareWork(s)
            new == [slots[s] EXCEPT !.touched = slots[s].touched]
<1>1. /\ OneIdOnly(s) /\ slots[s].tx # 0 /\ disk'.tip = disk.tip
      /\ FlushFails(work)
      /\ slots' = [slots EXCEPT ![s] = new]
      /\ Enlist(s, tx)
      /\ UNCHANGED <<reconnected, told, claimed, seen>>
  BY DEF PrepareFails, Prepared
<1>2. tx \in TxId /\ tx \in Ids(slots[s])
  BY <1>1, PreparedIs
<1>3. /\ Copy(work, ids, "Limbo") /\ work.next = image.next
      /\ \A t \in TxId : t >= claimed /\ t < work.oit => image.tip[t] = "Committed"
  BY <1>1, PrepareCopy
<1>4. slots' = slots
  <2>1. new = slots[s]
    BY HeldFacts DEF TxSlots
  <2>. QED
    BY <1>1, <2>1 DEF Inv, Types
<1>. HIDE DEF work, tx, new
<1>5. Numbers' /\ FilesInv' /\ Changes(ids, "Limbo")
  BY <1>1, <1>3, FailedFiles DEF Inv
<1>6. image' = image
  BY <1>1 DEF FlushFails
<1>7. Changes({}, "Limbo")
  BY <1>1, <1>5, <1>6 DEF Changes
<1>8. HeldInv' /\ slots' \in [Slots -> TxSlots] /\ Fresh
  BY <1>4, <1>5, <1>7, NobodyMoves
<1>9. Rightly({}) /\ claimed' = claimed
  BY <1>1 DEF Rightly, Inv, Types
<1>10. /\ seen' \in [Slots -> [Rows -> Read]]
       /\ reconnected' \in [Slots -> 0..MaxTx]
       /\ \A p \in Slots : reconnected'[p] \in {reconnected[p], 0}
       /\ \A p \in Slots : reconnected'[p] \notin {}
       /\ team' \in [TxId -> 0..MaxTx]
  BY <1>1, <1>2, EnlistType DEF Inv, Types
<1>11. image'.oit \in {image.oit, work.oit} /\ disk'.oit \in {disk.oit, work.oit}
  <2>1. Flushed(work)
    BY <1>1, <1>3, FlushIs DEF Copy, Inv, Numbers
  <2>. QED
    BY <1>6, <2>1 DEF Flushed
<1>. QED
  BY <1>3, <1>5, <1>7, <1>8, <1>9, <1>10, <1>11, StepKeeps

-------------------------------------------------------------------------------
(* The sweep.  What is left of a chain was in it before.                   *)
LEMMA SweepChainKeeps ==
    ASSUME NEW tip, NEW held, NEW chain \in Seq(Vers), NEW n \in Nat,
           \A i \in 1..Len(chain) : chain[i].tx <= n
    PROVE  \A i \in 1..Len(SweepChain(tip, held, chain)) :
              SweepChain(tip, held, chain)[i].tx <= n
<1>. DEFINE K == Remaining(tip, held, chain)
            new == SweepChain(tip, held, chain)
<1>1. K \subseteq 1..Len(chain) /\ Len(chain) \in Nat
  BY LenProperties DEF Remaining
<1>2. CASE new = <<>>
  <2>1. Len(new) = 0
    BY <1>2
  <2>. HIDE DEF new
  <2>2. \A i \in 1..Len(new) : new[i].tx <= n
    BY <2>1
  <2>. QED
    BY <2>2 DEF new
<1>3. CASE K # {} /\ new # <<>>
  <2>1. Least(K) \in 1..Len(chain)
    BY <1>1, <1>3, LeastIsLeast
  <2>2. new = <<chain[Least(K)]>> \/ new = SubSeq(chain, Least(K), Len(chain))
    BY <1>3 DEF SweepChain
  <2>3. CASE new = <<chain[Least(K)]>>
    <3>. DEFINE v == chain[Least(K)]
    <3>1. new = <<v>> /\ v.tx <= n
      BY <2>1, <2>3
    <3>. HIDE DEF new, v
    <3>2. Len(new) = 1 /\ new[1] = v
      BY <3>1
    <3>3. \A i \in 1..1 : i = 1
      OBVIOUS
    <3>4. \A i \in 1..Len(new) : new[i].tx <= n
      BY <3>1, <3>2, <3>3
    <3>. QED
      BY <3>4 DEF new
  <2>4. CASE new = SubSeq(chain, Least(K), Len(chain))
    <3>. DEFINE m == Least(K)
    <3>1. m \in 1..Len(chain) /\ new = SubSeq(chain, m, Len(chain))
      BY <2>1, <2>4
    <3>. HIDE DEF new, m
    <3>2. \A j \in m..Len(chain) : chain[j] \in Vers
      BY <1>1, <3>1, ElementOfSeq
    <3>3. /\ Len(new) = IF m <= Len(chain) THEN Len(chain) - m + 1 ELSE 0
          /\ \A i \in 1..(Len(chain) - m + 1) : new[i] = chain[m + i - 1]
      BY <1>1, <3>1, <3>2, SubSeqProperties
    <3>4. ASSUME NEW i \in 1..Len(new) PROVE new[i].tx <= n
      <4>1. i \in 1..(Len(chain) - m + 1) /\ m + i - 1 \in 1..Len(chain)
        BY <1>1, <3>1, <3>3
      <4>. QED
        BY <3>3, <4>1
    <3>. QED
      BY <3>4 DEF new
  <2>. QED
    BY <2>2, <2>3, <2>4
<1>4. CASE K = {} /\ new # <<>>
  BY <1>4 DEF SweepChain
<1>. QED
  BY <1>2, <1>3, <1>4

Gone == UNION {Abandoned(image.tip, Held, image.rows[r]) : r \in Rows}

(* Whom the sweep marks dead: active transactions nobody answers for.      *)
LEMMA GoneIs ==
    ASSUME Inv
    PROVE  /\ Gone \in SUBSET TxId /\ Gone \cap Held = {}
           /\ \A t \in Gone : t <= image.next /\ image.tip[t] = "Active"
<1>1. image.rows \in [Rows -> Seq(Vers)] /\ Written(image)
  BY NumberedIs DEF Inv, Numbers, FilesInv
<1>2. ASSUME NEW r \in Rows, NEW t \in Abandoned(image.tip, Held, image.rows[r])
      PROVE  t \in TxId /\ t \notin Held /\ t <= image.next /\ image.tip[t] = "Active"
  <2>. DEFINE chain == image.rows[r]
  <2>1. chain \in Seq(Vers) /\ \A i \in 1..Len(chain) : chain[i].tx <= image.next
    BY <1>1 DEF Written
  <2>2. Len(chain) \in Nat /\ DOMAIN chain = 1..Len(chain)
    BY <2>1, LenProperties
  <2>. HIDE DEF chain
  <2>3. PICK i \in DOMAIN chain : /\ t = chain[i].tx
                                  /\ \A k \in 1..i : BackedOut(image.tip, Held, chain[k].tx)
    BY <1>2 DEF Abandoned, chain
  <2>4. StateOf(image.tip, t) = "Active"
    BY <1>2 DEF Abandoned
  <2>5. chain[i] \in Vers /\ chain[i].tx <= image.next
    BY <2>1, <2>2, <2>3, ElementOfSeq
  <2>6. t \in TxId /\ t # 0 /\ t <= image.next
    BY <2>3, <2>5, TxIds DEF Vers
  <2>7. i \in 1..i
    BY <2>2, <2>3
  <2>8. BackedOut(image.tip, Held, t)
    BY <2>3, <2>7
  <2>. QED
    BY <2>4, <2>6, <2>8 DEF BackedOut, StateOf
<1>. QED
  BY <1>2 DEF Gone

LEMMA SweptCopy ==
    ASSUME Inv
    PROVE  Copy(Swept, Gone, "Dead") /\ Swept.next = image.next
<1>. DEFINE set == SetState(image, Gone, "Dead")
            rows == [r \in Rows |-> SweepChain(image.tip, Held, image.rows[r])]
            work == Swept
<1>1. /\ Numbered(image) /\ Blank(image) /\ Written(image)
      /\ image \in File /\ image.next \in Nat /\ image.next \in 0..MaxTx
      /\ image.rows \in [Rows -> Seq(Vers)] /\ image.oit >= 1 /\ image.oit <= image.next
      /\ image.oit \in Nat
  BY NumberedIs DEF Inv, Numbers, FilesInv
<1>2. /\ set \in File /\ set.next = image.next
      /\ \A t \in TxId : set.tip[t] = IF t \in Gone THEN "Dead" ELSE image.tip[t]
  BY <1>1, SetStateIs DEF TxState
<1>3. rows \in [Rows -> Seq(Vers)]
  BY <1>1, SweepChainType
<1>4. work = [set EXCEPT !.oit = image.next, !.rows = rows]
  BY DEF Swept, Gone
<1>5. \A r \in Rows : \A i \in 1..Len(rows[r]) : rows[r][i].tx <= image.next
  <2>. TAKE r \in Rows
  <2>1. image.rows[r] \in Seq(Vers) /\ \A i \in 1..Len(image.rows[r]) : image.rows[r][i].tx <= image.next
    BY <1>1 DEF Written
  <2>2. rows[r] = SweepChain(image.tip, Held, image.rows[r])
    OBVIOUS
  <2>. HIDE DEF rows
  <2>. QED
    BY <1>1, <2>1, <2>2, SweepChainKeeps
<1>. HIDE DEF set, rows, work
<1>6. /\ work \in File /\ work.next = image.next /\ work.oit = image.next
      /\ work.rows = rows /\ work.tip = set.tip
  BY <1>1, <1>2, <1>3, <1>4 DEF File, Vers
<1>7. 1 <= image.next
  BY <1>1
<1>8. Numbered(work)
  BY <1>1, <1>6, <1>7 DEF Numbered
<1>9. Blank(work)
  <2>1. ASSUME NEW t \in TxId, t > image.next PROVE t \notin Gone
    <3>. DEFINE n == image.next
    <3>1. n \in Nat /\ t \in Nat /\ t > n
      BY <1>1, <2>1, TxIds
    <3>. HIDE DEF n
    <3>2. ~(t <= n)
      BY <3>1
    <3>. QED
      BY <3>2, GoneIs DEF n
  <2>. QED
    BY <1>1, <1>2, <1>6, <2>1 DEF Blank
<1>10. Written(work)
  BY <1>5, <1>6 DEF Written
<1>11. Copy(work, Gone, "Dead")
  <2>1. \A t \in Gone : t <= work.next /\ image.tip[t] \in Open
    BY <1>6, GoneIs DEF Open
  <2>2. image.next <= work.next
    BY <1>1, <1>6
  <2>3. \A t \in TxId : work.tip[t] = IF t \in Gone THEN "Dead" ELSE image.tip[t]
    BY <1>2, <1>6
  <2>. QED
    BY <1>8, <1>9, <1>10, <2>1, <2>2, <2>3, GoneIs DEF Copy, TxState
<1>. QED
  BY <1>6, <1>11 DEF work

LEMMA SweepKeeps ==
    ASSUME Inv, Sweep
    PROVE  Inv'
<1>. DEFINE work == Swept
<1>1. /\ FlushAndInstall(work) \/ FlushFails(work)
      /\ claimed' = image.next
      /\ UNCHANGED <<slots, reconnected, team, told, seen>>
  BY DEF Sweep
<1>2. Copy(work, Gone, "Dead") /\ work.next = image.next
  BY SweptCopy
<1>. HIDE DEF work
<1>3. Numbers' /\ FilesInv' /\ Changes(Gone, "Dead")
  BY <1>1, <1>2, FlushedFiles, FailedFiles DEF Inv
<1>4. /\ image'.next = image.next /\ image.next \in Nat /\ image'.next \in Nat
      /\ image.next \in 0..MaxTx
  BY <1>1, <1>2, NumberedIs DEF FlushAndInstall, FlushFails, Inv, Numbers
<1>5. HeldInv' /\ slots' \in [Slots -> TxSlots] /\ Fresh
  BY <1>1, <1>3, GoneIs, NobodyMoves
<1>6. Rightly(Gone)
  BY <1>1 DEF Rightly, Inv, Types
<1>7. ToldInv'
  BY <1>3, <1>4, <1>5, <1>6, ToldKeeps DEF Inv
<1>8. ReconInv'
  <2>1. \A s \in Slots : reconnected'[s] \notin Gone
    <3>1. ASSUME NEW s \in Slots, reconnected[s] \in Gone PROVE FALSE
      <4>1. reconnected[s] # 0 /\ image.tip[reconnected[s]] = "Active"
        BY <3>1, GoneIs, TxIds
      <4>2. image.tip[reconnected[s]] = "Limbo"
        BY <4>1 DEF Inv, ReconInv
      <4>. QED
        BY <4>1, <4>2
    <3>. QED
      BY <1>1, <3>1
  <2>2. /\ reconnected \in [Slots -> 0..MaxTx] /\ reconnected' \in [Slots -> 0..MaxTx]
        /\ \A s \in Slots : reconnected'[s] \in {reconnected[s], 0}
    BY <1>1 DEF Inv, Types
  <2>. QED
    BY <1>3, <1>4, <1>5, <2>1, <2>2, ReconKeeps DEF Inv
<1>9. OitInv'
  <2>1. ASSUME NEW t \in TxId, t >= claimed', t < image'.oit \/ t < disk'.oit
        PROVE  FALSE
    <3>1. t \in Nat /\ t >= image.next
      BY <1>1, <2>1, TxIds
    <3>2. /\ image'.oit \in Nat /\ image'.oit <= image'.next
          /\ disk'.oit \in Nat /\ disk'.oit <= disk'.next /\ disk'.next \in Nat
      BY <1>3, NumberedIs DEF Numbers, Numbered, File
    <3>3. disk'.next <= image'.next
      BY <1>3 DEF FilesInv
    <3>. QED
      BY <1>4, <2>1, <3>1, <3>2, <3>3
  <2>. QED
    BY <2>1 DEF OitInv
<1>10. Types'
  BY <1>1, <1>4 DEF Inv, Types
<1>. QED
  BY <1>3, <1>5, <1>7, <1>8, <1>9, <1>10 DEF Inv

-------------------------------------------------------------------------------
(* A crash.  Committed in memory is committed in the file, and what is not *)
(* committed in memory is not in the file either unless a flush failed.    *)
LEMMA CommittedIsWritten ==
    ASSUME Tips, NEW t \in TxId, image.tip[t] = "Committed"
    PROVE  disk.tip[t] = "Committed"
BY DEF Tips, Open

LEMMA CrashKeeps ==
    ASSUME Inv, Crash
    PROVE  Inv'
<1>1. /\ image' = disk /\ flushed' = disk /\ disk' = disk /\ claimed' = claimed
      /\ slots' = [s \in Slots |-> Idle]
      /\ reconnected' = [s \in Slots |-> 0]
      /\ seen' = [s \in Slots |-> [r \in Rows |-> NoRow]]
      /\ team' = [t \in TxId |-> IF t > disk.next THEN 0 ELSE team[t]]
      /\ told' = [t \in TxId |-> IF t > disk.next /\ told[t] = "undone" THEN "nothing"
                                 ELSE told[t]]
  BY DEF Crash
<1>2. Numbers'
  BY <1>1 DEF Inv, Numbers, Numbered
<1>3. disk.next \in Nat
  BY NumberedIs DEF Inv, Numbers
<1>4. FilesInv'
  BY <1>1, <1>3 DEF Inv, FilesInv, Blank, Written, Tips
<1>5. Types'
  <2>1. [r \in Rows |-> NoRow] \in [Rows -> Read]
    BY NoRowRead
  <2>2. seen' \in [Slots -> [Rows -> Read]]
    BY <1>1, <2>1
  <2>3. slots' \in [Slots -> TxSlots] /\ reconnected' \in [Slots -> 0..MaxTx]
    BY <1>1, IdleIs, TxIds
  <2>4. team' \in [TxId -> 0..MaxTx] /\ told' \in [TxId -> {"nothing", "committed", "undone"}]
    BY <1>1, TxIds DEF Inv, Types
  <2>. QED
    BY <1>1, <2>2, <2>3, <2>4 DEF Inv, Types
<1>6. \A s \in Slots : slots'[s] = Idle /\ Ids(slots'[s]) = {}
  BY <1>1, IdleIs
<1>7. Held' = {}
  BY <1>6, HeldNext
<1>8. HeldInv'
  BY <1>6, IdleIs DEF HeldInv
<1>9. ReconInv'
  BY <1>1 DEF ReconInv
<1>10. ToldInv'
  <2>1. ASSUME NEW t \in TxId, told'[t] = "committed"
        PROVE  image'.tip[t] = "Committed"
    <3>1. told[t] = "committed"
      BY <1>1, <2>1
    <3>. QED
      BY <1>1, <3>1, CommittedIsWritten DEF Inv, ToldInv, FilesInv
  <2>2. ASSUME NEW t \in TxId, told'[t] = "undone"
        PROVE  /\ t <= image'.next /\ t \notin Held'
               /\ image'.tip[t] \in {"Dead", "Active"} /\ disk'.tip[t] \in {"Dead", "Active"}
    <3>1. told[t] = "undone" /\ ~(t > disk.next)
      BY <1>1, <2>2
    <3>2. t <= disk.next
      BY <1>3, <3>1, TxIds
    <3>. QED
      BY <1>1, <1>7, <3>1, <3>2 DEF Inv, ToldInv
  <2>. QED
    BY <2>1, <2>2 DEF ToldInv
<1>11. OitInv'
  <2>1. ASSUME NEW t \in TxId, t >= claimed, t < disk.oit
        PROVE  disk.tip[t] = "Committed"
    BY <2>1, CommittedIsWritten DEF Inv, OitInv, FilesInv
  <2>. QED
    BY <1>1, <2>1 DEF OitInv
<1>. QED
  BY <1>2, <1>4, <1>5, <1>8, <1>9, <1>10, <1>11 DEF Inv

-------------------------------------------------------------------------------
(* What callers and the disk are not to do for the theorems to hold.  Of   *)
(* the rest of Beyonds they are free, but for RepeatableReadHolds, which a *)
(* sweep beside a snapshot breaks, and WritesOverWhatItSeesHolds, which a  *)
(* write over a dead head does.                                            *)
Ordinary ==
    Beyond \cap {"twoResolvers", "sideTimeout", "prepareFails", "manyInLimbo"} = {}

LEMMA InitInv == Init => Inv
<1>. SUFFICES ASSUME Init PROVE Inv
  OBVIOUS
<1>. DEFINE v == Version(1, FALSE)
            chain == <<v>>
<1>1. /\ image.next = 1 /\ image.oit = 1 /\ image.rows = [r \in Rows |-> chain]
      /\ image.tip = [t \in TxId |-> IF t = 1 THEN "Committed" ELSE "Active"]
      /\ image = [next |-> image.next, oit |-> image.oit, rows |-> image.rows, tip |-> image.tip]
      /\ flushed = image /\ disk = image
  BY DEF Init
<1>2. v \in Vers /\ v.tx = 1
  BY TxIds DEF Version, Vers
<1>. HIDE DEF v
<1>3. chain \in Seq(Vers) /\ Len(chain) = 1 /\ chain[1] = v
  BY <1>2
<1>. HIDE DEF chain
<1>4. image \in File
  <2>1. image.rows \in [Rows -> Seq(Vers)]
    BY <1>1, <1>3
  <2>2. image.tip \in [TxId -> TxState]
    BY <1>1 DEF TxState
  <2>3. 1 \in 0..MaxTx
    BY TxIds
  <2>. QED
    BY <1>1, <2>1, <2>2, <2>3 DEF File, Vers
<1>5. Numbered(image)
  BY <1>1, <1>4 DEF Numbered
<1>6. Numbers
  BY <1>1, <1>5 DEF Numbers
<1>7. Types
  <2>1. [r \in Rows |-> NoRow] \in [Rows -> Read]
    BY NoRowRead
  <2>. QED
    BY <2>1, IdleIs, TxIds DEF Init, Types
<1>8. Written(image)
  <2>1. \A i \in 1..Len(chain) : i = 1
    BY <1>3
  <2>2. \A i \in 1..Len(chain) : chain[i].tx <= image.next
    BY <1>1, <1>2, <1>3, <2>1
  <2>3. \A r \in Rows : image.rows[r] = chain
    BY <1>1
  <2>. QED
    BY <2>2, <2>3 DEF Written
<1>9. Blank(image)
  BY <1>1, TxIds DEF Blank
<1>10. FilesInv
  BY <1>1, <1>8, <1>9 DEF FilesInv, Blank, Written, Tips
<1>11. \A s \in Slots : slots[s] = Idle /\ Ids(slots[s]) = {}
  BY IdleIs DEF Init
<1>12. HeldInv
  BY <1>11, IdleIs DEF HeldInv
<1>13. ReconInv /\ ToldInv
  BY DEF Init, ReconInv, ToldInv
<1>14. OitInv
  BY <1>1, TxIds DEF OitInv, TxId
<1>. QED
  BY <1>6, <1>7, <1>10, <1>12, <1>13, <1>14 DEF Inv

LEMMA SameKeeps == Inv /\ UNCHANGED txVars => Inv'
<1>. SUFFICES ASSUME Inv, UNCHANGED txVars PROVE Inv'
  OBVIOUS
<1>1. UNCHANGED <<image, flushed, disk, faults, slots, reconnected, team, told, claimed, seen>>
  BY DEF txVars
<1>2. Held' = Held
  BY <1>1, HeldIs, HeldNext
<1>3. Numbers' /\ Types' /\ FilesInv'
  BY <1>1 DEF Inv, Numbers, Numbered, Types, FilesInv, Blank, Written, Tips
<1>. QED
  BY <1>1, <1>2, <1>3 DEF Inv, HeldInv, ReconInv, ToldInv, OitInv

LEMMA InvNext ==
    ASSUME Ordinary
    PROVE  Inv /\ [Next]_txVars => Inv'
<1>. SUFFICES ASSUME Inv, [Next]_txVars PROVE Inv'
  OBVIOUS
<1>0. /\ "twoResolvers" \notin Beyond /\ "sideTimeout" \notin Beyond
      /\ "prepareFails" \notin Beyond /\ "manyInLimbo" \notin Beyond
  BY DEF Ordinary
<1>1. ASSUME NEW s \in Slots, Start(s) PROVE Inv'
  BY <1>1, StartKeeps
<1>2. ASSUME NEW s \in Slots, Savepoint(s) PROVE Inv'
  BY <1>2, MarksKeep
<1>3. ASSUME NEW s \in Slots, NEW r \in Rows,
             Insert(s, r) \/ \E del \in BOOLEAN : UpdateOrDelete(s, r, del)
      PROVE Inv'
  BY <1>3, WriteKeeps
<1>4. ASSUME NEW s \in Slots, NEW i \in 1..MaxMarks, Redeclare(s, i) \/ Release(s, i)
      PROVE Inv'
  BY <1>4, MarksKeep
<1>5. ASSUME NEW s \in Slots, NEW i \in 1..MaxMarks, RollbackTo(s, i) PROVE Inv'
  BY <1>0, <1>5, RollbackToKeeps
<1>6. ASSUME NEW s \in Slots, NEW retain \in BOOLEAN,
             Commit(s, retain) \/ CommitFails(s, retain) \/ Rollback(s, retain)
      PROVE Inv'
  BY <1>6, CommitKeeps
<1>7. ASSUME NEW s \in Slots, Prepare(s) PROVE Inv'
  BY <1>0, <1>7, PrepareKeeps
<1>8. ASSUME NEW s \in Slots, PrepareFails(s) PROVE Inv'
  BY <1>0, <1>8, PrepareFailsKeeps
<1>9. ASSUME NEW s \in Slots, Detach(s) PROVE Inv'
  BY <1>9, DetachKeeps
<1>10. ASSUME NEW s \in Slots, NEW t \in TxId, Reconnect(s, t) PROVE Inv'
  BY <1>0, <1>10, ReconnectKeeps
<1>11. ASSUME NEW s \in Slots, NEW state \in {"Committed", "Dead"}, Resolve(s, state) PROVE Inv'
  BY <1>11, ResolveKeeps
<1>12. CASE Sweep
  BY <1>12, SweepKeeps
<1>13. CASE Crash
  BY <1>13, CrashKeeps
<1>14. CASE UNCHANGED txVars
  BY <1>14, SameKeeps
<1>. QED
  BY <1>1, <1>2, <1>3, <1>4, <1>5, <1>6, <1>7, <1>8, <1>9, <1>10, <1>11, <1>12, <1>13, <1>14
  DEF Next

(* The inductive invariant holds throughout: no id is answered for by two  *)
(* connections, no file knows of an id that was not handed out, and the    *)
(* file is ahead of the image only by what a failed flush left in it.      *)
THEOREM InvHolds ==
    ASSUME Ordinary
    PROVE  Spec => []Inv
<1>1. Init => Inv
  BY InitInv
<1>2. Inv /\ [Next]_txVars => Inv'
  BY InvNext
<1>. QED
  BY <1>1, <1>2, PTL DEF Spec

(* The files, connections and answers of the model are what they are meant *)
(* to be: records of File, transactions with windows of ids (TypeOK).      *)
THEOREM TypesHold ==
    ASSUME Ordinary
    PROVE  Spec => []TypeOK
<1>1. Inv => TypeOK
  <2>. SUFFICES ASSUME Inv PROVE TypeOK
    OBVIOUS
  <2>1. ASSUME NEW s \in Slots
        PROVE  /\ slots[s].tx \in 0..MaxTx
               /\ slots[s].nested \subseteq TxId
               /\ slots[s].snapshot.limit \in 0..(MaxTx + 1)
               /\ \A i \in 1..Inner(s) : slots[s].windows[i] \in
                      [tx : 0..MaxTx, folded : SUBSET TxId]
               /\ \A r \in Rows : seen[s][r] \in [tx : 0..MaxTx, del : BOOLEAN]
    <3>1. slots[s] \in TxSlots /\ seen[s] \in [Rows -> Read]
      BY DEF Inv, Types
    <3>2. slots[s].snapshot.limit \in 0..(MaxTx + 1)
      BY <3>1 DEF TxSlots, Snapshots
    <3>3. \A i \in 1..Inner(s) : slots[s].windows[i] \in Windows
      BY <3>1, ElementOfSeq DEF TxSlots, Inner
    <3>. QED
      BY <3>1, <3>2, <3>3 DEF TxSlots, Windows, Read
  <2>. QED
    BY <2>1 DEF TypeOK, Inv, Numbers, Numbered, Types
<1>. QED
  BY <1>1, InvHolds, PTL

(* A client that was told committed finds its work committed, in memory    *)
(* and after any crash; one that was told of an undo never does, whatever  *)
(* flushes failed and whoever resolved it (end_write, resolve_limbo).      *)
THEOREM ToldTheTruthHolds ==
    ASSUME Ordinary
    PROVE  Spec => []ToldTheTruth
<1>1. Inv => ToldTheTruth
  BY CommittedIsWritten DEF Inv, ToldInv, FilesInv, ToldTheTruth
<1>. QED
  BY <1>1, InvHolds, PTL

(* Below the oldest transaction of the header everything is committed, in  *)
(* memory and in the file, but for what a sweep has answered for           *)
(* (update_oldest).                                                        *)
THEOREM OitIsHonestHolds ==
    ASSUME Ordinary
    PROVE  Spec => []OitIsHonest
<1>1. Inv => OitIsHonest
  BY CommittedIsWritten DEF Inv, OitInv, FilesInv, OitIsHonest
<1>. QED
  BY <1>1, InvHolds, PTL

-------------------------------------------------------------------------------
(* All or nothing.  u belongs to the transaction of t, and is part of what *)
(* a commit makes of it.                                                   *)
Mates(t, u) == team[t] # 0 /\ team[t] = team[u] /\ told[u] # "undone"

(* An inventory in which no transaction is committed by halves. *)
Even(tip) ==
    \A t, u \in TxId : Mates(t, u) /\ tip[t] = "Committed" => tip[u] = "Committed"

(* An open transaction holds every id of its team that is not undone.      *)
Together(s) ==
    \A t \in Ids(slots[s]) :
        /\ team[t] # 0
        /\ \A u \in Ids(slots[s]) : team[u] = team[t]
        /\ \A u \in TxId : Mates(t, u) => u \in Ids(slots[s])

Numbering == \A t \in TxId : team[t] <= t /\ (t > image.next => team[t] = 0)
AloneInLimbo == \A t, u \in TxId : image.tip[t] = "Limbo" /\ Mates(t, u) => u = t

TeamsInv ==
    /\ Numbering
    /\ \A s \in Slots : Together(s)
    /\ AloneInLimbo
    /\ Even(image.tip) /\ Even(disk.tip)

(* The ids of a transaction are on one page of the inventory.              *)
TeamsOnOnePage ==
    \A t, u \in TxId : team[t] # 0 /\ team[t] = team[u] => TipPage(t) = TipPage(u)

(* A copy in which some ids, active or in limbo, are in another state.     *)
Makes(work, ids, state) ==
    /\ Numbered(work) /\ ids \subseteq TxId
    /\ \A t \in ids : image.tip[t] \in Open
    /\ \A t \in TxId : work.tip[t] = IF t \in ids THEN state ELSE image.tip[t]

LEMMA CopyMakes ==
    ASSUME NEW work, NEW ids, NEW state, Copy(work, ids, state)
    PROVE  Makes(work, ids, state)
BY DEF Copy, Makes

(* The copy of a step that ends a whole transaction, or kills some ids.    *)
LEMMA EvenWork ==
    ASSUME TeamsInv, NEW ids, NEW state, NEW work, Makes(work, ids, state),
           state = "Committed" => \A t \in ids, u \in TxId : Mates(t, u) => u \in ids
    PROVE  Even(work.tip)
BY DEF TeamsInv, Even, Open, Makes

LEMMA EvenFlushed ==
    ASSUME TeamsOnOnePage, Even(disk.tip), NEW work, Even(work.tip), Flushed(work)
    PROVE  Even(disk'.tip)
<1>. SUFFICES ASSUME NEW t \in TxId, NEW u \in TxId, Mates(t, u), disk'.tip[t] = "Committed"
     PROVE  disk'.tip[u] = "Committed"
  BY DEF Even
<1>1. TipPage(t) = TipPage(u)
  BY DEF TeamsOnOnePage, Mates
<1>2. \/ disk'.tip[t] = disk.tip[t] /\ disk'.tip[u] = disk.tip[u]
      \/ disk'.tip[t] = work.tip[t] /\ disk'.tip[u] = work.tip[u]
  BY <1>1 DEF Flushed
<1>. QED
  BY <1>2 DEF Even

(* An id somebody holds now makes no file uneven: its team is held or      *)
(* undone, and nothing of that is committed anywhere.                      *)
LEMMA HeldIsEven ==
    ASSUME Inv', \A s \in Slots : Together(s)', NEW t \in TxId, NEW u \in TxId,
           Mates(t, u)', u \in Held'
    PROVE  /\ image'.tip[t] # "Committed" /\ disk'.tip[t] # "Committed"
           /\ told'[t] # "undone" =>
                 \E s \in Slots : t \in Ids(slots'[s]) /\ u \in Ids(slots'[s])
<1>1. PICK s \in Slots : u \in Ids(slots'[s])
  BY HeldNext
<1>2. CASE told'[t] = "undone"
  BY <1>2 DEF Inv, ToldInv
<1>3. CASE told'[t] # "undone"
  <2>1. Mates(u, t)'
    BY <1>3 DEF Mates
  <2>2. t \in Ids(slots'[s])
    BY <1>1, <2>1 DEF Together
  <2>3. image'.tip[t] # "Committed" /\ disk'.tip[t] # "Committed"
    BY <2>2 DEF Inv, HeldInv
  <2>. QED
    BY <1>1, <2>2, <2>3
<1>. QED
  BY <1>2, <1>3

LEMMA FilesEven ==
    ASSUME Inv, Inv', TeamsInv, TeamsOnOnePage,
           NEW ids, NEW state, NEW work, Makes(work, ids, state),
           state = "Committed" => \A t \in ids, u \in TxId : Mates(t, u) => u \in ids,
           FlushAndInstall(work) \/ FlushFails(work) \/ InstallDirty(work),
           \A s \in Slots : Together(s)',
           \A t, u \in TxId : Mates(t, u)' => Mates(t, u) \/ u \in Held'
    PROVE  Even(image.tip)' /\ Even(disk.tip)'
<1>1. Even(work.tip) /\ Even(image.tip) /\ Even(disk.tip)
  BY EvenWork DEF TeamsInv
<1>2. Even(disk'.tip)
  <2>1. CASE FlushAndInstall(work) \/ FlushFails(work)
    <3>1. Flushed(work)
      BY <2>1, FlushIs DEF Inv, Numbers, Makes
    <3>. QED
      BY <1>1, <3>1, EvenFlushed
  <2>2. CASE InstallDirty(work)
    BY <1>1, <2>2 DEF InstallDirty
  <2>. QED
    BY <2>1, <2>2
<1>3. Even(image'.tip)
  BY <1>1 DEF FlushAndInstall, FlushFails, InstallDirty
<1>4. ASSUME NEW t \in TxId, NEW u \in TxId, Mates(t, u)'
      PROVE  /\ image'.tip[t] = "Committed" => image'.tip[u] = "Committed"
             /\ disk'.tip[t] = "Committed" => disk'.tip[u] = "Committed"
  <2>1. CASE u \in Held'
    BY <1>4, <2>1, HeldIsEven
  <2>2. CASE Mates(t, u)
    BY <1>2, <1>3, <2>2 DEF Even
  <2>. QED
    BY <1>4, <2>1, <2>2
<1>. QED
  BY <1>4 DEF Even

(* Nobody joins: transactions end, or lose what is undone.                 *)
Parts ==
    /\ team' = team
    /\ \A p \in Slots : Ids(slots'[p]) \subseteq Ids(slots[p])
    /\ \A p \in Slots : \A u \in Ids(slots[p]) \ Ids(slots'[p]) :
          Ids(slots'[p]) = {} \/ told'[u] = "undone"
    /\ \A u \in TxId : told[u] = "undone" => told'[u] = "undone"

LEMMA PartsKeep ==
    ASSUME TeamsInv, Parts, image.next \in Nat, image'.next \in Nat, image.next <= image'.next
    PROVE  /\ Numbering' /\ \A s \in Slots : Together(s)'
           /\ \A t, u \in TxId : Mates(t, u)' => Mates(t, u)
<1>1. Numbering'
  <2>1. \A t \in TxId : t > image'.next => t > image.next
    BY TxIds
  <2>. QED
    BY <2>1 DEF TeamsInv, Numbering, Parts
<1>2. \A t, u \in TxId : Mates(t, u)' => Mates(t, u)
  BY DEF Mates, Parts
<1>3. ASSUME NEW s \in Slots PROVE Together(s)'
  <2>. SUFFICES ASSUME NEW t \in Ids(slots'[s])
       PROVE  /\ team'[t] # 0
              /\ \A u \in Ids(slots'[s]) : team'[u] = team'[t]
              /\ \A u \in TxId : Mates(t, u)' => u \in Ids(slots'[s])
    BY DEF Together
  <2>1. t \in Ids(slots[s]) /\ Ids(slots'[s]) \subseteq Ids(slots[s]) /\ team' = team
    BY DEF Parts
  <2>2. team[t] # 0 /\ \A u \in Ids(slots[s]) : team[u] = team[t]
    BY <2>1 DEF TeamsInv, Together
  <2>3. ASSUME NEW u \in TxId, Mates(t, u)' PROVE u \in Ids(slots'[s])
    <3>1. Mates(t, u) /\ told'[u] # "undone"
      BY <2>3, <2>1 DEF Mates, Parts
    <3>2. u \in Ids(slots[s])
      BY <2>1, <3>1 DEF TeamsInv, Together
    <3>. QED
      BY <3>1, <3>2 DEF Parts
  <2>. QED
    BY <2>1, <2>2, <2>3
<1>. QED
  BY <1>1, <1>2, <1>3

LEMMA TeamsKeep ==
    ASSUME Inv, Inv', TeamsInv, TeamsOnOnePage, Parts,
           NEW ids, NEW state, NEW work, Makes(work, ids, state), image.next <= image'.next,
           state = "Committed" => \A t \in ids, u \in TxId : Mates(t, u) => u \in ids,
           state = "Limbo" => \A t \in ids, u \in TxId : Mates(t, u) => u = t,
           FlushAndInstall(work) \/ FlushFails(work) \/ InstallDirty(work)
    PROVE  TeamsInv'
<1>1. image.next \in Nat /\ image'.next \in Nat
  BY NumberedIs DEF Inv, Numbers, Numbered
<1>2. /\ Numbering' /\ \A s \in Slots : Together(s)'
      /\ \A t, u \in TxId : Mates(t, u)' => Mates(t, u)
  BY <1>1, PartsKeep
<1>3. Even(image.tip)' /\ Even(disk.tip)'
  BY <1>2, FilesEven
<1>4. AloneInLimbo'
  <2>1. ASSUME NEW t \in TxId, NEW u \in TxId, image'.tip[t] = "Limbo", Mates(t, u)
        PROVE  u = t
    <3>1. image.tip[t] = "Limbo" \/ (t \in ids /\ state = "Limbo")
      BY <2>1 DEF FlushAndInstall, FlushFails, InstallDirty, Makes
    <3>. QED
      BY <2>1, <3>1 DEF TeamsInv, AloneInLimbo
  <2>. QED
    BY <1>2, <2>1 DEF AloneInLimbo
<1>. QED
  BY <1>2, <1>3, <1>4 DEF TeamsInv

(* Nothing but windows, snapshots and what was adopted changes; or a       *)
(* transaction without an id ends.                                         *)
LEMMA QuietTeams ==
    ASSUME Inv, Inv', TeamsInv, TeamsOnOnePage,
           UNCHANGED <<image, flushed, disk, faults, team, told>>,
           \A p \in Slots : Ids(slots'[p]) \in {Ids(slots[p]), {}}
    PROVE  TeamsInv'
<1>1. Parts
  BY DEF Parts
<1>2. InstallDirty(image)
  BY DEF InstallDirty
<1>3. image.next <= image'.next
  BY NumberedIs DEF Inv, Numbers
<1>4. Makes(image, {}, "Dead")
  BY DEF Makes, Inv, Numbers
<1>. QED
  BY <1>1, <1>2, <1>3, <1>4, TeamsKeep

LEMMA QuietSteps ==
    ASSUME Inv, Inv', TeamsInv, TeamsOnOnePage, NEW s \in Slots,
           \/ Start(s) \/ Savepoint(s) \/ \E t \in TxId : Reconnect(s, t)
           \/ \E i \in 1..MaxMarks : Redeclare(s, i) \/ Release(s, i)
    PROVE  TeamsInv'
<1>0. slots \in [Slots -> TxSlots]
  BY DEF Inv, Types
<1>1. CASE Start(s)
  <2>1. PICK snap \in {Latest, Capture(image.next, image.tip)} :
            slots' = [slots EXCEPT ![s] = Opened(snap)]
    BY <1>1 DEF Start, Opened
  <2>2. snap \in Snapshots
    <3>1. image.next + 1 \in 0..(MaxTx + 1) /\ 1..image.next \subseteq TxId
      BY NumberedIs, TxIds DEF Inv, Numbers, TxId
    <3>2. Capture(image.next, image.tip) \in Snapshots
      BY <3>1 DEF Capture, Snapshots
    <3>. QED
      BY <3>2, IdleIs DEF TxSlots
  <2>3. Ids(Opened(snap)) = {}
    BY <2>2, OpenedIs
  <2>4. \A p \in Slots : Ids(slots'[p]) \in {Ids(slots[p]), {}}
    BY <1>0, <2>1, <2>3
  <2>. QED
    BY <1>1, <2>4, QuietTeams DEF Start
<1>2. CASE \E t \in TxId : Reconnect(s, t)
  BY <1>2, QuietTeams DEF Reconnect
<1>3. CASE Savepoint(s) \/ \E i \in 1..MaxMarks : Redeclare(s, i) \/ Release(s, i)
  <2>1. PICK vs : slots' = [slots EXCEPT ![s].windows = vs]
    BY <1>3 DEF Savepoint, Redeclare, Release
  <2>. DEFINE new == [slots[s] EXCEPT !.windows = vs]
  <2>2. slots' = [slots EXCEPT ![s] = new]
    BY <2>1
  <2>3. new.tx = slots[s].tx /\ new.nested = slots[s].nested
    BY <1>0 DEF TxSlots
  <2>. HIDE DEF new
  <2>4. \A p \in Slots : Ids(slots'[p]) \in {Ids(slots[p]), {}}
    BY <1>0, <2>2, <2>3 DEF Ids
  <2>5. UNCHANGED <<image, flushed, disk, faults, team, told>>
    BY <1>3 DEF Savepoint, Redeclare, Release
  <2>. QED
    BY <2>4, <2>5, QuietTeams
<1>. QED
  BY <1>1, <1>2, <1>3

(* A whole transaction ends, or tries to. *)
LEMMA EndTeams ==
    ASSUME Inv, Inv', TeamsInv, TeamsOnOnePage, NEW s \in Slots,
           Ids(slots'[s]) = {}, \A p \in Slots \ {s} : slots'[p] = slots[p], team' = team,
           NEW state \in {"Committed", "Dead"}, NEW work,
           work = EndState(image, Ids(slots[s]), state),
           FlushAndInstall(work) \/ FlushFails(work),
           \A u \in TxId : told'[u] = told[u] \/ u \in Ids(slots[s])
    PROVE  TeamsInv'
<1>. DEFINE ids == Ids(slots[s])
<1>1. ids \in SUBSET TxId /\ ids \subseteq Held /\ \A t \in ids : t <= image.next /\ image.tip[t] \in Open
  BY HeldFacts
<1>2. Copy(work, ids, state) /\ work.next = image.next
  BY <1>1, EndCopy DEF Inv, TxState
<1>3. Parts
  <2>1. \A u \in TxId : told[u] = "undone" => told'[u] = "undone"
    BY <1>1 DEF Inv, ToldInv
  <2>. QED
    BY <2>1 DEF Parts
<1>4. image.next <= image'.next
  BY <1>2, NumberedIs DEF FlushAndInstall, FlushFails, Inv, Numbers
<1>5. \A t \in ids, u \in TxId : Mates(t, u) => u \in ids
  BY DEF TeamsInv, Together
<1>. HIDE DEF ids
<1>6. Makes(work, ids, state) /\ state # "Limbo"
  BY <1>2, CopyMakes
<1>. QED
  BY <1>3, <1>4, <1>5, <1>6, TeamsKeep

LEMMA CommitTeams ==
    ASSUME Inv, Inv', TeamsInv, TeamsOnOnePage, NEW s \in Slots, NEW retain \in BOOLEAN,
           Commit(s, retain) \/ CommitFails(s, retain) \/ Rollback(s, retain)
    PROVE  TeamsInv'
<1>1. PICK committed \in BOOLEAN : slots' = [slots EXCEPT ![s] = Ended(s, retain, committed)]
  BY DEF Commit, CommitFails, Rollback, Ends
<1>. DEFINE ids == Ids(slots[s])
            Work(state) == EndState(image, ids, state)
<1>2. /\ Ids(slots'[s]) = {} /\ (\A p \in Slots \ {s} : slots'[p] = slots[p]) /\ team' = team
      /\ \A p \in Slots : Ids(slots'[p]) \in {Ids(slots[p]), {}}
  <2>1. slots \in [Slots -> TxSlots]
    BY DEF Inv, Types
  <2>2. Ids(Ended(s, retain, committed)) = {}
    BY EndedIs
  <2>3. team' = team
    BY DEF Commit, CommitFails, Rollback, Ends
  <2>. HIDE DEF Ended
  <2>4. slots'[s] = Ended(s, retain, committed) /\ \A p \in Slots \ {s} : slots'[p] = slots[p]
    BY <1>1, <2>1
  <2>. QED
    BY <2>2, <2>3, <2>4
<1>3. AllTx(s) = ids /\ CommitIds(s) = ids
  BY AllTxIs DEF CommitIds
<1>4. \A u \in TxId : told'[u] = told[u] \/ u \in ids
  <2>1. told' = told \/ Tell(ids, "committed") \/ Tell(ids, "undone")
    BY <1>3 DEF Commit, CommitFails, Rollback
  <2>. HIDE DEF ids
  <2>. QED
    BY <2>1 DEF Tell
<1>. HIDE DEF ids, Work
<1>5. CASE FlushAndInstall(Work("Committed")) \/ FlushFails(Work("Committed"))
  BY <1>2, <1>4, <1>5, EndTeams DEF Work, ids
<1>6. CASE FlushAndInstall(Work("Dead")) \/ FlushFails(Work("Dead"))
  BY <1>2, <1>4, <1>6, EndTeams DEF Work, ids
<1>7. CASE UNCHANGED <<image, flushed, disk, faults>> /\ ~slots[s].touched
  <2>1. slots[s].touched = FALSE
    BY <1>7, HeldFacts DEF TxSlots
  <2>2. ids = {}
    BY <2>1 DEF Inv, HeldInv, ids
  <2>3. told' = told
    BY <1>4, <2>2 DEF Inv, Types
  <2>. QED
    BY <1>2, <1>7, <2>3, QuietTeams
<1>. QED
  BY <1>3, <1>5, <1>6, <1>7 DEF Commit, CommitFails, Rollback, Work

LEMMA DetachTeams ==
    ASSUME Inv, Inv', TeamsInv, TeamsOnOnePage, NEW s \in Slots, Detach(s)
    PROVE  TeamsInv'
<1>. DEFINE ids == Ids(slots[s])
            work == EndState(image, ids, "Dead")
<1>1. AllTx(s) = ids
  BY AllTxIs
<1>2. /\ Ids(slots'[s]) = {} /\ (\A p \in Slots \ {s} : slots'[p] = slots[p]) /\ team' = team
      /\ \A p \in Slots : Ids(slots'[p]) \in {Ids(slots[p]), {}}
  <2>1. slots \in [Slots -> TxSlots] /\ slots' = [slots EXCEPT ![s] = Idle] /\ Ids(Idle) = {}
    BY IdleIs DEF Inv, Types, Detach
  <2>. HIDE DEF Idle
  <2>. QED
    BY <2>1 DEF Detach
<1>3. \A u \in TxId : told'[u] = told[u] \/ u \in ids
  BY <1>1 DEF Detach, Tell, Inv, Types
<1>. HIDE DEF ids, work
<1>4. CASE FlushAndInstall(work) \/ FlushFails(work)
  BY <1>2, <1>3, <1>4, EndTeams DEF work, ids
<1>5. CASE UNCHANGED <<image, flushed, disk, faults, told>>
  BY <1>2, <1>5, QuietTeams
<1>. QED
  BY <1>1, <1>4, <1>5 DEF Detach, work

LEMMA ResolveTeams ==
    ASSUME Inv, Inv', TeamsInv, TeamsOnOnePage, NEW s \in Slots,
           NEW state \in {"Committed", "Dead"}, Resolve(s, state)
    PROVE  TeamsInv'
<1>. DEFINE t == reconnected[s]
            ids == {t}
            work == EndState(image, ids, state)
<1>1. /\ t # 0 /\ slots' = slots /\ team' = team
      /\ \/ FlushAndInstall(work) /\ Tell(ids, IF state = "Committed" THEN "committed" ELSE "undone")
         \/ FlushFails(work) /\ told' = told
  BY DEF Resolve
<1>2. t \in TxId /\ t <= image.next /\ image.tip[t] = "Limbo"
  BY <1>1 DEF Inv, Types, ReconInv, TxId
<1>3. \A u \in TxId : told[u] = "undone" => told'[u] = "undone"
  <2>1. told[t] # "undone"
    BY <1>2 DEF Inv, ToldInv
  <2>. QED
    BY <1>1, <2>1 DEF Tell
<1>4. Parts
  BY <1>1, <1>3 DEF Parts
<1>5. /\ ids \in SUBSET TxId /\ \A u \in ids : u <= image.next /\ image.tip[u] \in Open
      /\ \A v \in ids, u \in TxId : Mates(v, u) => u \in ids
  BY <1>2 DEF Open, TeamsInv, AloneInLimbo
<1>. HIDE DEF ids, work
<1>6. Copy(work, ids, state) /\ work.next = image.next
  BY <1>5, EndCopy DEF Inv, TxState, work
<1>7. image.next <= image'.next
  BY <1>1, <1>6, NumberedIs DEF FlushAndInstall, FlushFails, Inv, Numbers
<1>. QED
  BY <1>1, <1>4, <1>5, <1>6, <1>7, CopyMakes, TeamsKeep

LEMMA SweepTeams ==
    ASSUME Inv, Inv', TeamsInv, TeamsOnOnePage, Sweep
    PROVE  TeamsInv'
<1>. DEFINE work == Swept
<1>1. /\ FlushAndInstall(work) \/ FlushFails(work)
      /\ UNCHANGED <<slots, team, told>>
  BY DEF Sweep
<1>2. Copy(work, Gone, "Dead") /\ work.next = image.next
  BY SweptCopy
<1>. HIDE DEF work
<1>3. Parts
  BY <1>1 DEF Parts
<1>4. image.next <= image'.next
  BY <1>1, <1>2, NumberedIs DEF FlushAndInstall, FlushFails, Inv, Numbers
<1>5. Gone \in SUBSET TxId /\ \A t \in Gone : image.tip[t] \in Open
  BY GoneIs DEF Open
<1>. QED
  BY <1>1, <1>2, <1>3, <1>4, <1>5, CopyMakes, TeamsKeep

LEMMA RollbackToTeams ==
    ASSUME Inv, Inv', TeamsInv, TeamsOnOnePage,
           NEW s \in Slots, NEW i \in 1..MaxMarks, RollbackTo(s, i), "sideTimeout" \notin Beyond
    PROVE  TeamsInv'
<1>. DEFINE ids == Killed(s, i)
            work == EndState(image, ids, "Dead")
            new == BackTo(slots[s], i, ids)
<1>1. /\ Works(s) /\ i \in 1..(Inner(s) - 1)
      /\ InstallDirty(work)
      /\ slots' = [slots EXCEPT ![s] = new]
      /\ told' = [t \in TxId |-> IF t \in ids THEN "undone" ELSE told[t]]
      /\ team' = team
  BY DEF RollbackTo, EndState, Killed
<1>. HIDE DEF work, new
<1>2. /\ Ids(new) = Ids(slots[s]) \ ids
      /\ ids \subseteq Ids(slots[s]) /\ ids \in SUBSET TxId
  <2>1. slots[s] \in TxSlots /\ WindowInv(slots[s]) /\ i \in 1..(Len(slots[s].windows) - 1)
    BY <1>1, HeldFacts DEF Inner
  <2>2. ids = LaterIds(slots[s].windows, i)
    BY DEF Killed, Undone, Inner, LaterIds
  <2>. HIDE DEF ids
  <2>. QED
    BY <2>1, <2>2, BackToIs DEF new
<1>. HIDE DEF ids
<1>3. \A t \in ids : t <= image.next /\ image.tip[t] \in Open
  BY <1>2, HeldFacts
<1>4. Copy(work, ids, "Dead") /\ work.next = image.next
  BY <1>2, <1>3, EndCopy DEF work, Inv, TxState
<1>5. Parts
  BY <1>1, <1>2 DEF Parts, Inv, Types
<1>6. image.next <= image'.next
  BY <1>1, <1>4, NumberedIs DEF InstallDirty, Inv, Numbers
<1>. QED
  BY <1>1, <1>2, <1>3, <1>4, <1>5, <1>6, CopyMakes, TeamsKeep

(* An id is handed out: it joins what its transaction has, or is the first.*)
LEMMA JoinKeeps ==
    ASSUME Inv, TeamsInv, NEW s \in Slots, NEW tx \in TxId, tx = image.next + 1,
           Enlist(s, tx), told' = told, tx <= image'.next, image'.next \in Nat,
           Ids(slots'[s]) = Ids(slots[s]) \cup {tx},
           \A p \in Slots \ {s} : slots'[p] = slots[p]
    PROVE  /\ Numbering' /\ \A p \in Slots : Together(p)'
           /\ \A t, u \in TxId : Mates(t, u)' => Mates(t, u) \/ u \in Ids(slots'[s])
<1>. DEFINE ids == Ids(slots[s])
            v == IF ids = {} THEN tx ELSE team[CHOOSE t \in ids : TRUE]
<1>1. /\ ids \in SUBSET TxId /\ ids \subseteq Held /\ \A t \in ids : t <= image.next
      /\ \A p \in Slots : Ids(slots[p]) \in SUBSET TxId /\ \A t \in Ids(slots[p]) : t <= image.next
      /\ \A p \in Slots \ {s} : Ids(slots[p]) \cap ids = {}
  BY HeldFacts
<1>2. /\ image.next \in Nat /\ tx \in Nat /\ team \in [TxId -> 0..MaxTx]
      /\ \A t \in TxId : team[t] <= t /\ (t > image.next => team[t] = 0)
  BY NumberedIs, TxIds DEF Inv, Numbers, Types, TeamsInv, Numbering
<1>3. team[tx] = 0 /\ tx \notin ids /\ \A p \in Slots : tx \notin Ids(slots[p])
  <2>1. tx > image.next /\ ~(tx <= image.next)
    BY <1>2
  <2>. HIDE DEF ids
  <2>. QED
    BY <1>1, <1>2, <2>1
<1>4. team' = [team EXCEPT ![tx] = v]
  <2>1. AllTx(s) = ids
    BY AllTxIs
  <2>. HIDE DEF ids
  <2>. QED
    BY <1>2, <1>3, <2>1 DEF Enlist
<1>5. \/ ids = {} /\ v = tx
      \/ \E c \in ids : v = team[c]
  OBVIOUS
<1>. HIDE DEF v
<1>6. team'[tx] = v /\ \A t \in TxId : t # tx => team'[t] = team[t]
  BY <1>2, <1>4
<1>7. ASSUME NEW t \in TxId PROVE team[t] < tx
  BY <1>2, TxIds
<1>8. ASSUME NEW c \in ids PROVE /\ team[c] # 0 /\ (\A u \in ids : team[u] = team[c])
                                 /\ told[c] # "undone"
                                 /\ \A u \in TxId : Mates(c, u) => u \in ids
  <2>1. c \in Held /\ c \in TxId
    BY <1>1
  <2>2. told[c] # "undone"
    BY <2>1 DEF Inv, ToldInv
  <2>. QED
    BY <2>2 DEF TeamsInv, Together
<1>9. v # 0 /\ v <= tx /\ \A c \in ids : team[c] = v
  <2>1. CASE ids = {}
    BY <1>2, <1>5, <2>1, TxIds
  <2>2. CASE ids # {}
    <3>1. PICK c \in ids : v = team[c]
      BY <1>5, <2>2
    <3>2. c \in TxId
      BY <1>1
    <3>3. team[c] \in 0..MaxTx /\ team[c] < tx
      BY <1>2, <1>7, <3>2
    <3>4. v # 0 /\ v <= tx
      BY <1>2, <1>8, <3>1, <3>3, TxIds
    <3>. QED
      BY <1>8, <3>1, <3>4
  <2>. QED
    BY <2>1, <2>2
<1>10. ASSUME NEW u \in TxId, u # tx, team[u] = v, told[u] # "undone" PROVE u \in ids
  <2>1. CASE ids = {}
    BY <1>2, <1>5, <1>7, <1>10, <2>1
  <2>2. CASE ids # {}
    <3>1. PICK c \in ids : v = team[c]
      BY <1>5, <2>2
    <3>2. Mates(c, u)
      BY <1>8, <1>10, <3>1 DEF Mates
    <3>. QED
      BY <1>8, <3>2
  <2>. QED
    BY <2>1, <2>2
<1>11. Numbering'
  <2>1. ASSUME NEW t \in TxId PROVE team'[t] <= t /\ (t > image'.next => team'[t] = 0)
    <3>1. t \in Nat
      BY TxIds
    <3>2. CASE t = tx
      BY <1>2, <1>6, <1>9, <3>1, <3>2
    <3>3. CASE t # tx
      BY <1>2, <1>6, <3>1, <3>3
    <3>. QED
      BY <3>2, <3>3
  <2>. QED
    BY <2>1 DEF Numbering
<1>12. ASSUME NEW t \in TxId, NEW u \in TxId, Mates(t, u)'
       PROVE  Mates(t, u) \/ u \in ids \cup {tx}
  <2>0. team'[t] # 0 /\ team'[t] = team'[u] /\ told[u] # "undone"
    BY <1>12 DEF Mates
  <2>1. CASE u = tx
    BY <2>1
  <2>2. CASE u # tx /\ t = tx
    BY <1>6, <1>10, <2>0, <2>2
  <2>3. CASE u # tx /\ t # tx
    BY <1>6, <2>0, <2>3 DEF Mates
  <2>. QED
    BY <2>1, <2>2, <2>3
<1>13. ASSUME NEW p \in Slots PROVE Together(p)'
  <2>1. CASE p = s
    <3>. SUFFICES ASSUME NEW t \in ids \cup {tx}
         PROVE  /\ team'[t] # 0
                /\ \A u \in ids \cup {tx} : team'[u] = team'[t]
                /\ \A u \in TxId : Mates(t, u)' => u \in ids \cup {tx}
      BY <2>1 DEF Together
    <3>1. \A u \in ids \cup {tx} : team'[u] = v
      BY <1>1, <1>6, <1>9
    <3>2. ASSUME NEW u \in TxId, Mates(t, u)' PROVE u \in ids \cup {tx}
      <4>0. team'[t] = team'[u] /\ told[u] # "undone"
        BY <3>2 DEF Mates
      <4>1. CASE u # tx
        BY <1>6, <1>10, <3>1, <4>0, <4>1
      <4>. QED
        BY <4>1
    <3>. QED
      BY <1>9, <3>1, <3>2
  <2>2. CASE p # s
    <3>. SUFFICES ASSUME NEW t \in Ids(slots[p])
         PROVE  /\ team'[t] # 0
                /\ \A u \in Ids(slots[p]) : team'[u] = team'[t]
                /\ \A u \in TxId : Mates(t, u)' => u \in Ids(slots[p])
      BY <2>2 DEF Together
    <3>1. t \in TxId /\ t # tx /\ t \notin ids /\ \A u \in Ids(slots[p]) : u \in TxId /\ u # tx
      BY <1>1, <1>3, <2>2
    <3>2. /\ team[t] # 0 /\ (\A u \in Ids(slots[p]) : team[u] = team[t])
          /\ \A u \in TxId : Mates(t, u) => u \in Ids(slots[p])
      BY DEF TeamsInv, Together
    <3>3. ASSUME NEW u \in TxId, Mates(t, u)' PROVE u \in Ids(slots[p])
      <4>0. team'[t] = team'[u] /\ told[u] # "undone"
        BY <3>3 DEF Mates
      <4>1. CASE u # tx
        BY <1>6, <3>1, <3>2, <4>0, <4>1 DEF Mates
      <4>2. CASE u = tx
        <5>1. team[t] = v
          BY <1>6, <3>1, <4>0, <4>2
        <5>2. told[t] # "undone"
          BY <3>1, HeldIs DEF Inv, ToldInv
        <5>. QED
          BY <1>10, <3>1, <5>1, <5>2
      <4>. QED
        BY <4>1, <4>2
    <3>. QED
      BY <1>6, <3>1, <3>2, <3>3
  <2>. QED
    BY <2>1, <2>2
<1>. QED
  BY <1>11, <1>12, <1>13

LEMMA JoinTeams ==
    ASSUME Inv, Inv', TeamsInv, TeamsOnOnePage,
           NEW s \in Slots, NEW tx \in TxId, tx = image.next + 1,
           Enlist(s, tx), told' = told, tx <= image'.next,
           Ids(slots'[s]) = Ids(slots[s]) \cup {tx},
           \A p \in Slots \ {s} : slots'[p] = slots[p],
           Ids(slots[s]) = {} \/ slots'[s].prepared # TRUE,
           NEW ids \in SUBSET {tx}, NEW work, Makes(work, ids, "Limbo"),
           FlushAndInstall(work) \/ FlushFails(work) \/ InstallDirty(work)
    PROVE  TeamsInv'
<1>0. image.next \in Nat /\ image'.next \in Nat
  BY NumberedIs DEF Inv, Numbers, Numbered
<1>1. image.next \in Nat /\ image'.next \in Nat /\ tx > image.next
  <2>. DEFINE a == image.next
  <2>1. a \in Nat /\ tx = a + 1
    BY <1>0
  <2>. HIDE DEF a
  <2>2. tx > a
    BY <2>1
  <2>. QED
    BY <1>0, <2>2 DEF a
<1>2. /\ Numbering' /\ \A p \in Slots : Together(p)'
      /\ \A t, u \in TxId : Mates(t, u)' => Mates(t, u) \/ u \in Ids(slots'[s])
  BY <1>1, JoinKeeps
<1>3. image.tip[tx] = "Active" /\ team[tx] = 0
  BY <1>1 DEF Inv, FilesInv, Blank, TeamsInv, Numbering
<1>4. Even(image.tip)' /\ Even(disk.tip)'
  <2>1. \A t, u \in TxId : Mates(t, u)' => Mates(t, u) \/ u \in Held'
    BY <1>2, HeldNext
  <2>. QED
    BY <1>2, <2>1, FilesEven
<1>5. AloneInLimbo'
  <2>1. ASSUME NEW t \in TxId, NEW u \in TxId, image'.tip[t] = "Limbo", Mates(t, u)'
        PROVE  u = t
    <3>1. CASE Mates(t, u)
      <4>1. t # tx
        BY <1>3, <3>1 DEF Mates
      <4>2. image.tip[t] = "Limbo"
        BY <2>1, <4>1 DEF FlushAndInstall, FlushFails, InstallDirty, Makes
      <4>. QED
        BY <3>1, <4>2 DEF TeamsInv, AloneInLimbo
    <3>2. CASE u \in Ids(slots'[s])
      <4>1. told'[t] # "undone"
        BY <2>1 DEF Inv, ToldInv
      <4>2. Mates(u, t)'
        BY <2>1, <4>1 DEF Mates
      <4>3. t \in Ids(slots'[s])
        BY <1>2, <3>2, <4>2 DEF Together
      <4>4. slots'[s].prepared = TRUE
        BY <2>1, <4>3 DEF Inv, HeldInv
      <4>5. Ids(slots[s]) = {}
        BY <4>4, Zenon
      <4>. QED
        BY <3>2, <4>3, <4>5
    <3>. QED
      BY <1>2, <2>1, <3>1, <3>2
  <2>. QED
    BY <2>1 DEF AloneInLimbo
<1>. QED
  BY <1>2, <1>4, <1>5 DEF TeamsInv

(* An id that its transaction had already joins nothing new. *)
LEMMA StaysEnlisted ==
    ASSUME Inv, TeamsInv, NEW s \in Slots, NEW tx \in Ids(slots[s]), Enlist(s, tx)
    PROVE  team' = team
<1>1. team[tx] # 0 /\ team \in [TxId -> 0..MaxTx]
  BY DEF TeamsInv, Together, Inv, Types
<1>. QED
  BY <1>1 DEF Enlist

LEMMA InstallTeams ==
    ASSUME Inv, Inv', TeamsInv, TeamsOnOnePage, NEW s \in Slots, Works(s), CanReserve(s),
           NEW work, Install(s, work, WorkTx(s)),
           work.tip = WorkCopy(s).tip, work.next = WorkCopy(s).next
    PROVE  TeamsInv'
<1>. DEFINE tx == WorkTx(s)
            w == WorkCopy(s)
            new == Adopt(slots[s], tx)
<1>1. /\ image.next <= w.next
      /\ \A t \in TxId : w.tip[t] = image.tip[t]
      /\ tx \in TxId /\ tx <= w.next
      /\ IF WriteTx(s) = 0 THEN tx = image.next + 1 ELSE tx \in Ids(slots[s])
  BY WorkIs
<1>2. /\ InstallDirty(work) /\ slots' = [slots EXCEPT ![s] = new] /\ Enlist(s, tx)
      /\ told' = told
  BY DEF Install
<1>3. Ids(new) = Ids(slots[s]) \cup {tx} /\ new.prepared = slots[s].prepared
  BY AdoptedIs
<1>. HIDE DEF tx, w, new
<1>4. /\ Ids(slots'[s]) = Ids(slots[s]) \cup {tx} /\ slots'[s].prepared # TRUE
      /\ \A p \in Slots \ {s} : slots'[p] = slots[p]
  BY <1>2, <1>3 DEF Works, Inv, Types
<1>5. image' = work /\ Numbered(work)
  BY <1>2 DEF InstallDirty, Inv, Numbers, Numbered
<1>6. /\ Makes(work, {}, "Limbo") /\ Makes(work, {}, "Dead")
      /\ image.next <= image'.next /\ tx <= image'.next /\ {} \in SUBSET {tx}
  BY <1>1, <1>5 DEF w, Makes
<1>7. CASE WriteTx(s) = 0
  BY <1>1, <1>2, <1>4, <1>5, <1>6, <1>7, JoinTeams
<1>8. CASE WriteTx(s) # 0
  <2>1. team' = team
    BY <1>1, <1>2, <1>8, StaysEnlisted
  <2>2. Parts
    <3>1. \A p \in Slots : Ids(slots'[p]) = Ids(slots[p])
      BY <1>1, <1>4, <1>8
    <3>. QED
      BY <1>2, <2>1, <3>1 DEF Parts
  <2>. QED
    BY <1>2, <1>5, <1>6, <2>2, TeamsKeep
<1>. QED
  BY <1>7, <1>8

LEMMA WriteTeams ==
    ASSUME Inv, Inv', TeamsInv, TeamsOnOnePage, NEW s \in Slots, NEW r \in Rows,
           Insert(s, r) \/ \E del \in BOOLEAN : UpdateOrDelete(s, r, del)
    PROVE  TeamsInv'
<1>1. Works(s) /\ CanReserve(s)
  BY DEF Insert, UpdateOrDelete
<1>2. PICK x : Install(s, [WorkCopy(s) EXCEPT !.rows[r] = x], WorkTx(s))
  BY DEF Insert, UpdateOrDelete
<1>. DEFINE w == WorkCopy(s)
            work == [w EXCEPT !.rows[r] = x]
<1>3. w \in File
  BY <1>1, WorkIs DEF Numbered
<1>. HIDE DEF w
<1>4. work.tip = w.tip /\ work.next = w.next
  BY <1>3 DEF File
<1>5. Install(s, work, WorkTx(s))
  BY <1>2 DEF w
<1>. HIDE DEF work
<1>. QED
  BY <1>1, <1>4, <1>5, InstallTeams DEF w

LEMMA PrepareTeams ==
    ASSUME Inv, Inv', TeamsInv, TeamsOnOnePage, NEW s \in Slots, Prepare(s),
           "manyInLimbo" \notin Beyond
    PROVE  TeamsInv'
<1>. DEFINE tx == PrepareTx(s)
            ids == {tx}
            work == PrepareWork(s)
            sl == Prepared(s)
            new == [sl EXCEPT !.touched = TRUE, !.prepared = TRUE]
<1>1. /\ OneIdOnly(s) /\ (slots[s].tx # 0 \/ image.next < MaxTx)
      /\ FlushAndInstall(work)
      /\ slots' = [slots EXCEPT ![s] = new]
      /\ Enlist(s, tx)
      /\ told' = told
  BY DEF Prepare
<1>2. /\ tx \in TxId /\ sl \in TxSlots /\ Ids(sl) = {tx}
      /\ IF slots[s].tx # 0 THEN tx \in Ids(slots[s]) /\ Ids(slots[s]) = {tx}
         ELSE tx = image.next + 1 /\ Ids(slots[s]) = {}
  BY <1>1, PreparedIs
<1>3. Copy(work, ids, "Limbo")
  BY <1>1, PrepareCopy
<1>. HIDE DEF sl, work, tx
<1>4. Ids(new) = {tx}
  <2>1. new.tx = sl.tx /\ new.nested = sl.nested
    BY <1>2 DEF TxSlots
  <2>. HIDE DEF new
  <2>. QED
    BY <1>2, <2>1 DEF Ids
<1>. HIDE DEF new
<1>5. Ids(slots'[s]) = {tx} /\ \A p \in Slots \ {s} : slots'[p] = slots[p]
  BY <1>1, <1>4 DEF Inv, Types
<1>6. /\ image' = work /\ image.next <= image'.next /\ tx <= image'.next
      /\ ids \in SUBSET {tx} /\ Makes(work, ids, "Limbo")
  BY <1>1, <1>2, <1>3, CopyMakes DEF FlushAndInstall, Copy
<1>7. CASE slots[s].tx = 0
  <2>1. /\ tx = image.next + 1 /\ Ids(slots[s]) = {}
        /\ Ids(slots'[s]) = Ids(slots[s]) \cup {tx}
    BY <1>2, <1>5, <1>7
  <2>. HIDE DEF ids
  <2>. QED
    BY <1>1, <1>2, <1>5, <1>6, <2>1, JoinTeams
<1>8. CASE slots[s].tx # 0
  <2>1. Ids(slots[s]) = {tx} /\ team' = team
    BY <1>1, <1>2, <1>8, StaysEnlisted
  <2>2. Parts
    BY <1>1, <1>5, <2>1 DEF Parts
  <2>3. \A t \in ids, u \in TxId : Mates(t, u) => u = t
    BY <2>1 DEF TeamsInv, Together
  <2>. HIDE DEF ids
  <2>. QED
    BY <1>1, <1>6, <2>2, <2>3, TeamsKeep
<1>. QED
  BY <1>7, <1>8

LEMMA PrepareFailsTeams ==
    ASSUME Inv, Inv', TeamsInv, TeamsOnOnePage, NEW s \in Slots, PrepareFails(s),
           "manyInLimbo" \notin Beyond, "prepareFails" \notin Beyond
    PROVE  TeamsInv'
<1>. DEFINE tx == PrepareTx(s)
            ids == {tx}
            work == PrepareWork(s)
            new == [slots[s] EXCEPT !.touched = slots[s].touched]
<1>1. /\ OneIdOnly(s) /\ slots[s].tx # 0
      /\ FlushFails(work)
      /\ slots' = [slots EXCEPT ![s] = new]
      /\ Enlist(s, tx)
      /\ told' = told
  BY DEF PrepareFails, Prepared
<1>2. tx \in TxId /\ Ids(slots[s]) = {tx}
  BY <1>1, PreparedIs
<1>3. Copy(work, ids, "Limbo")
  BY <1>1, PrepareCopy
<1>4. slots' = slots
  <2>1. new = slots[s]
    BY HeldFacts DEF TxSlots
  <2>. QED
    BY <1>1, <2>1 DEF Inv, Types
<1>. HIDE DEF work, tx
<1>5. team' = team
  BY <1>1, <1>2, StaysEnlisted
<1>6. Parts
  BY <1>1, <1>4, <1>5 DEF Parts
<1>7. \A t \in ids, u \in TxId : Mates(t, u) => u = t
  BY <1>2 DEF TeamsInv, Together
<1>8. image.next <= image'.next
  BY <1>1, NumberedIs DEF FlushFails, Inv, Numbers
<1>9. Makes(work, ids, "Limbo")
  BY <1>3, CopyMakes
<1>. HIDE DEF ids
<1>. QED
  BY <1>1, <1>6, <1>7, <1>8, <1>9, TeamsKeep

LEMMA CrashTeams ==
    ASSUME Inv, Inv', TeamsInv, Crash
    PROVE  TeamsInv'
<1>1. /\ image' = disk /\ disk' = disk
      /\ slots' = [s \in Slots |-> Idle]
      /\ team' = [t \in TxId |-> IF t > disk.next THEN 0 ELSE team[t]]
      /\ told' = [t \in TxId |-> IF t > disk.next /\ told[t] = "undone" THEN "nothing"
                                 ELSE told[t]]
  BY DEF Crash
<1>2. disk.next \in Nat
  BY NumberedIs DEF Inv, Numbers
<1>3. Numbering'
  <2>1. ASSUME NEW t \in TxId
        PROVE  team'[t] <= t /\ (t > disk.next => team'[t] = 0)
    <3>1. t \in Nat /\ team[t] <= t /\ team'[t] = IF t > disk.next THEN 0 ELSE team[t]
      BY <1>1, TxIds DEF TeamsInv, Numbering
    <3>. QED
      BY <3>1
  <2>. QED
    BY <1>1, <2>1 DEF Numbering
<1>4. \A s \in Slots : Together(s)'
  BY <1>1, IdleIs DEF Together
<1>5. ASSUME NEW t \in TxId, NEW u \in TxId, Mates(t, u)' PROVE Mates(t, u)
  BY <1>1, <1>5 DEF Mates
<1>6. Even(image.tip)' /\ Even(disk.tip)'
  BY <1>1, <1>5 DEF TeamsInv, Even
<1>7. AloneInLimbo'
  <2>1. \A t \in TxId : disk.tip[t] = "Limbo" => image.tip[t] = "Limbo"
    BY DEF Inv, FilesInv, Tips
  <2>. QED
    BY <1>1, <1>5, <2>1 DEF TeamsInv, AloneInLimbo
<1>. QED
  BY <1>3, <1>4, <1>6, <1>7 DEF TeamsInv

LEMMA InitTeams == Init => TeamsInv
<1>. SUFFICES ASSUME Init PROVE TeamsInv
  OBVIOUS
<1>1. \A t \in TxId : team[t] = 0 /\ t \in Nat
  BY TxIds DEF Init
<1>2. Numbering
  BY <1>1 DEF Numbering
<1>3. \A s \in Slots : Ids(slots[s]) = {}
  BY IdleIs DEF Init
<1>4. ASSUME NEW t \in TxId, NEW u \in TxId PROVE ~Mates(t, u)
  BY <1>1 DEF Mates
<1>. QED
  BY <1>2, <1>3, <1>4 DEF TeamsInv, Together, AloneInLimbo, Even

LEMMA SameTeams == TeamsInv /\ UNCHANGED txVars => TeamsInv'
<1>. SUFFICES ASSUME TeamsInv, UNCHANGED txVars PROVE TeamsInv'
  OBVIOUS
<1>1. UNCHANGED <<image, disk, slots, team, told>>
  BY DEF txVars
<1>2. Numbering' /\ \A s \in Slots : Together(s)'
  BY <1>1 DEF TeamsInv, Numbering, Together, Mates
<1>3. AloneInLimbo' /\ Even(image.tip)' /\ Even(disk.tip)'
  BY <1>1 DEF TeamsInv, AloneInLimbo, Even, Mates
<1>. QED
  BY <1>2, <1>3 DEF TeamsInv

LEMMA TeamsNext ==
    ASSUME Ordinary
    PROVE  Inv /\ Inv' /\ TeamsInv /\ TeamsOnOnePage /\ [Next]_txVars => TeamsInv'
<1>. SUFFICES ASSUME Inv, Inv', TeamsInv, TeamsOnOnePage, [Next]_txVars PROVE TeamsInv'
  OBVIOUS
<1>0. /\ "twoResolvers" \notin Beyond /\ "sideTimeout" \notin Beyond
      /\ "prepareFails" \notin Beyond /\ "manyInLimbo" \notin Beyond
  BY DEF Ordinary
<1>1. ASSUME NEW s \in Slots,
             \/ Start(s) \/ Savepoint(s) \/ \E t \in TxId : Reconnect(s, t)
             \/ \E i \in 1..MaxMarks : Redeclare(s, i) \/ Release(s, i)
      PROVE TeamsInv'
  BY <1>1, QuietSteps
<1>2. ASSUME NEW s \in Slots, NEW r \in Rows,
             Insert(s, r) \/ \E del \in BOOLEAN : UpdateOrDelete(s, r, del)
      PROVE TeamsInv'
  BY <1>2, WriteTeams
<1>3. ASSUME NEW s \in Slots, NEW i \in 1..MaxMarks, RollbackTo(s, i) PROVE TeamsInv'
  BY <1>0, <1>3, RollbackToTeams
<1>4. ASSUME NEW s \in Slots, NEW retain \in BOOLEAN,
             Commit(s, retain) \/ CommitFails(s, retain) \/ Rollback(s, retain)
      PROVE TeamsInv'
  BY <1>4, CommitTeams
<1>5. ASSUME NEW s \in Slots, Prepare(s) PROVE TeamsInv'
  BY <1>0, <1>5, PrepareTeams
<1>6. ASSUME NEW s \in Slots, PrepareFails(s) PROVE TeamsInv'
  BY <1>0, <1>6, PrepareFailsTeams
<1>7. ASSUME NEW s \in Slots, Detach(s) PROVE TeamsInv'
  BY <1>7, DetachTeams
<1>8. ASSUME NEW s \in Slots, NEW state \in {"Committed", "Dead"}, Resolve(s, state)
      PROVE TeamsInv'
  BY <1>8, ResolveTeams
<1>9. CASE Sweep
  BY <1>9, SweepTeams
<1>10. CASE Crash
  BY <1>10, CrashTeams
<1>11. CASE UNCHANGED txVars
  BY <1>11, SameTeams
<1>. QED
  BY <1>1, <1>2, <1>3, <1>4, <1>5, <1>6, <1>7, <1>8, <1>9, <1>10, <1>11 DEF Next

(* The ids of a transaction are committed together or not at all, whatever *)
(* savepoints gave it ids of their own, whatever flush failed and wherever *)
(* a crash fell, as long as they are on one page of the inventory          *)
(* (commit_transaction, end_transactions).                                 *)
THEOREM AllOrNothingHolds ==
    ASSUME Ordinary
    PROVE  Spec /\ []TeamsOnOnePage => []AllOrNothing
<1>1. Init => TeamsInv
  BY InitTeams
<1>2. Inv /\ Inv' /\ TeamsInv /\ TeamsOnOnePage /\ [Next]_txVars => TeamsInv'
  BY TeamsNext
<1>3. TeamsInv => AllOrNothing
  BY DEF TeamsInv, Even, Mates, AllOrNothing
<1>4. Spec => []Inv
  BY InvHolds
<1>. QED
  BY <1>1, <1>2, <1>3, <1>4, PTL DEF Spec

-------------------------------------------------------------------------------
(* What a snapshot reads.  new is chain with a version in front, or with   *)
(* its first version exchanged (d is 0).                                   *)
Grown(chain, new, d) ==
    /\ d \in {0, 1}
    /\ Len(new) = Len(chain) + d
    /\ \A i \in 2..Len(new) : i - d \in 1..Len(chain) /\ new[i] = chain[i - d]

LEMMA ReadBehind ==
    ASSUME NEW tip, NEW own, NEW snap, NEW chain \in Seq(Vers), NEW new \in Seq(Vers),
           NEW d, Grown(chain, new, d), Len(new) >= 1,
           ~Counts(tip, own, snap, new[1].tx),
           d = 0 => ~Counts(tip, own, snap, chain[1].tx)
    PROVE  Visible(tip, own, snap, new) = Visible(tip, own, snap, chain)
<1>. DEFINE C == Counted(tip, own, snap, chain)
            N == Counted(tip, own, snap, new)
<1>1. /\ Len(chain) \in Nat /\ Len(new) \in Nat /\ d \in {0, 1}
      /\ DOMAIN chain = 1..Len(chain) /\ DOMAIN new = 1..Len(new)
  BY LenProperties DEF Grown
<1>2. C \subseteq 1..Len(chain) /\ N \subseteq 1..Len(new)
  BY <1>1 DEF Counted
<1>3. ASSUME NEW i \in N PROVE i \in 2..Len(new) /\ i - d \in C /\ new[i] = chain[i - d]
  <2>1. i \in 1..Len(new) /\ Counts(tip, own, snap, new[i].tx)
    BY <1>1, <1>3 DEF Counted
  <2>2. i \in 2..Len(new)
    BY <1>1, <2>1
  <2>3. i - d \in 1..Len(chain) /\ new[i] = chain[i - d]
    BY <2>2 DEF Grown
  <2>. QED
    BY <1>1, <2>1, <2>2, <2>3 DEF Counted
<1>4. ASSUME NEW i \in C PROVE i + d \in N
  <2>1. i \in 1..Len(chain) /\ Counts(tip, own, snap, chain[i].tx)
    BY <1>1, <1>4 DEF Counted
  <2>2. i + d \in 2..Len(new) /\ (i + d) - d = i
    BY <1>1, <2>1 DEF Grown
  <2>3. new[i + d] = chain[(i + d) - d]
    <3>. DEFINE k == i + d
    <3>1. k \in 2..Len(new)
      BY <2>2
    <3>. HIDE DEF k
    <3>2. new[k] = chain[k - d]
      BY <3>1 DEF Grown
    <3>. QED
      BY <3>2 DEF k
  <2>4. i + d \in DOMAIN new
    BY <1>1, <2>2
  <2>. QED
    BY <2>1, <2>2, <2>3, <2>4 DEF Counted
<1>. HIDE DEF C, N
<1>5. CASE C = {}
  <2>1. N = {}
    BY <1>3, <1>5
  <2>. QED
    BY <1>5, <2>1 DEF Visible, C, N
<1>6. CASE C # {}
  <2>1. C \in SUBSET Nat /\ N \in SUBSET Nat /\ N # {}
    <3>1. C \subseteq Nat /\ N \subseteq Nat
      BY <1>1, <1>2
    <3>2. PICK i \in C : TRUE
      BY <1>6
    <3>. QED
      BY <1>4, <3>1, <3>2
  <2>. DEFINE a == Least(C)
              b == Least(N)
  <2>2. a \in C /\ (\A j \in C : a <= j) /\ b \in N /\ (\A j \in N : b <= j)
    BY <1>6, <2>1, LeastIsLeast
  <2>. HIDE DEF a, b
  <2>3. b <= a + d /\ a <= b - d
    BY <1>3, <1>4, <2>2
  <2>4. b - d = a
    BY <1>1, <2>1, <2>2, <2>3
  <2>5. new[b] = chain[a]
    BY <1>3, <2>2, <2>4
  <2>. QED
    BY <1>6, <2>1, <2>5 DEF Visible, C, N, a, b
<1>. QED
  BY <1>5, <1>6

(* A snapshot as it reads without its own commits.                         *)
Bare(snap) == [snap EXCEPT !.committed_own = {}]

LEMMA BareIs ==
    ASSUME NEW snap \in Snapshots
    PROVE  /\ Bare(snap).limit = snap.limit /\ Bare(snap).active = snap.active
           /\ Bare(snap).committed_own = {}
           /\ Bare(snap) = [limit |-> snap.limit, active |-> snap.active, committed_own |-> {}]
           /\ snap.limit # 0 => Bare(snap) # Latest
BY DEF Bare, Snapshots, Latest

(* Every transaction the snapshot counts as over is over. *)
Settled(tip, snap) ==
    \A t \in TxId : t < snap.limit /\ t \notin snap.active => tip[t] \notin Open

Onward == \A t \in TxId : image'.tip[t] = image.tip[t] \/ image.tip[t] \in Open

LEMMA ReadOnward ==
    ASSUME NEW snap \in Snapshots, snap.limit # 0, Settled(image.tip, snap), Onward,
           NEW chain \in Seq(Vers)
    PROVE  /\ Settled(image'.tip, snap)
           /\ Visible(image'.tip, {}, Bare(snap), chain) = Visible(image.tip, {}, Bare(snap), chain)
<1>. DEFINE bare == Bare(snap)
<1>1. bare # Latest /\ bare.committed_own = {} /\ bare.limit = snap.limit /\ bare.active = snap.active
  BY BareIs
<1>2. Settled(image'.tip, snap)
  BY DEF Settled, Onward
<1>. HIDE DEF bare
<1>3. ASSUME NEW t \in TxId
      PROVE  Counts(image'.tip, {}, bare, t) <=> Counts(image.tip, {}, bare, t)
  <2>1. CASE t < snap.limit /\ t \notin snap.active
    <3>1. image'.tip[t] = image.tip[t]
      BY <2>1 DEF Settled, Onward
    <3>. QED
      BY <3>1 DEF Counts, StateOf
  <2>2. CASE ~(t < snap.limit /\ t \notin snap.active)
    <3>1. ~Sees(bare, t) /\ t # 0
      BY <1>1, <2>2, TxIds DEF Sees
    <3>. QED
      BY <1>1, <3>1 DEF Counts
  <2>. QED
    BY <2>1, <2>2
<1>4. ASSUME NEW i \in DOMAIN chain PROVE chain[i].tx \in TxId
  <2>1. i \in 1..Len(chain)
    BY <1>4, LenProperties
  <2>2. chain[i] \in Vers
    BY <2>1, ElementOfSeq
  <2>. QED
    BY <2>2 DEF Vers
<1>5. Counted(image'.tip, {}, bare, chain) = Counted(image.tip, {}, bare, chain)
  BY <1>3, <1>4 DEF Counted
<1>. QED
  BY <1>2, <1>5 DEF Visible, bare

-------------------------------------------------------------------------------
(* What stands behind the versions of a transaction: over i there is one   *)
(* of its own, j, and nothing between them but its own and dead ones.      *)
Over(tip, chain, own, j, i) ==
    /\ j < i /\ chain[j].tx \in own
    /\ chain[i].tx \notin own /\ tip[chain[i].tx] # "Dead"
    /\ \A k \in 1..Len(chain) :
          j < k /\ k < i => chain[k].tx \in own \/ tip[chain[k].tx] = "Dead"

Known(tip, snap, t) == tip[t] = "Committed" /\ (snap = Latest \/ Sees(snap, t))

OverKnown(tip, chain, own, snap) ==
    \A i, j \in 1..Len(chain) : Over(tip, chain, own, j, i) => Known(tip, snap, chain[i].tx)

(* The first living version of others is one the transaction knows. *)
FirstKnown(tip, chain, own, snap) ==
    \A i \in 1..Len(chain) :
        /\ chain[i].tx \notin own /\ tip[chain[i].tx] # "Dead"
        /\ \A k \in 1..Len(chain) : k < i => tip[chain[k].tx] = "Dead"
        => Known(tip, snap, chain[i].tx)

LEMMA OverWrite ==
    ASSUME NEW tip, NEW own, NEW snap, NEW chain \in Seq(Vers), NEW new \in Seq(Vers),
           NEW d, Grown(chain, new, d),
           OverKnown(tip, chain, own, snap),
           d = 0 => tip[chain[1].tx] = "Dead",
           1 \in 1..Len(new) /\ new[1].tx \in own => FirstKnown(tip, chain, own, snap)
    PROVE  OverKnown(tip, new, own, snap)
<1>1. Len(chain) \in Nat /\ Len(new) \in Nat /\ d \in {0, 1} /\ Len(new) = Len(chain) + d
  BY LenProperties DEF Grown
<1>2. \A i \in 2..Len(new) : i - d \in 1..Len(chain) /\ new[i] = chain[i - d]
  BY DEF Grown
<1>3. ASSUME NEW k \in 1..Len(chain), d = 1 \/ k # 1
      PROVE  k + d \in 2..Len(new) /\ new[k + d] = chain[k]
  <2>1. k + d \in 2..Len(new) /\ (k + d) - d = k
    BY <1>1, <1>3
  <2>. DEFINE l == k + d
  <2>. HIDE DEF l
  <2>2. l \in 2..Len(new) /\ l - d = k
    BY <2>1 DEF l
  <2>3. new[l] = chain[k]
    BY <1>2, <2>2
  <2>. QED
    BY <2>2, <2>3 DEF l
<1>4. ASSUME NEW i \in 2..Len(new), NEW j \in 2..Len(new), Over(tip, new, own, j, i)
      PROVE  Known(tip, snap, new[i].tx)
  <2>. DEFINE a == i - d
              b == j - d
  <2>1. /\ a \in 1..Len(chain) /\ b \in 1..Len(chain) /\ b < a
        /\ new[i] = chain[a] /\ new[j] = chain[b] /\ a + d = i /\ b + d = j
    <3>1. j < i /\ i \in Nat /\ j \in Nat
      BY <1>4 DEF Over
    <3>. QED
      BY <1>1, <1>2, <3>1
  <2>. HIDE DEF a, b
  <2>2. ASSUME NEW k \in 1..Len(chain), b < k, k < a
        PROVE  chain[k].tx \in own \/ tip[chain[k].tx] = "Dead"
    <3>0. a \in Nat /\ b \in Nat /\ k \in Nat /\ d \in Nat /\ b >= 1 /\ i = a + d /\ j = b + d
      BY <1>1, <2>1
    <3>1. k # 1 /\ j < k + d /\ k + d < i
      BY <2>2, <3>0
    <3>2. k + d \in 2..Len(new) /\ new[k + d] = chain[k]
      BY <1>3, <3>1
    <3>. DEFINE l == k + d
    <3>. HIDE DEF l
    <3>3. l \in 1..Len(new) /\ new[l] = chain[k] /\ j < l /\ l < i
      BY <1>1, <3>1, <3>2 DEF l
    <3>. QED
      BY <1>4, <3>3 DEF Over
  <2>3. Over(tip, chain, own, b, a)
    BY <1>4, <2>1, <2>2 DEF Over
  <2>. QED
    BY <2>1, <2>3 DEF OverKnown
<1>5. ASSUME NEW i \in 1..Len(new), NEW j \in 1..Len(new), Over(tip, new, own, j, i)
      PROVE  Known(tip, snap, new[i].tx)
  <2>1. i \in 2..Len(new) /\ j < i
    BY <1>1, <1>5 DEF Over
  <2>2. CASE j # 1
    BY <1>1, <1>4, <1>5, <2>1, <2>2
  <2>3. CASE j = 1 /\ \E k \in 2..Len(new) : k < i /\ new[k].tx \in own
    <3>1. PICK k \in 2..Len(new) : k < i /\ new[k].tx \in own
      BY <2>3
    <3>2. Over(tip, new, own, k, i)
      <4>1. \A l \in 1..Len(new) : k < l => j < l
        BY <1>1, <2>3, <3>1
      <4>. QED
        BY <1>5, <3>1, <4>1 DEF Over
    <3>. QED
      BY <1>4, <2>1, <3>1, <3>2
  <2>4. CASE j = 1 /\ \A k \in 2..Len(new) : k < i => new[k].tx \notin own
    <3>. DEFINE a == i - d
    <3>1. a \in 1..Len(chain) /\ new[i] = chain[a] /\ a + d = i
      BY <1>1, <1>2, <2>1
    <3>. HIDE DEF a
    <3>2. ASSUME NEW k \in 1..Len(chain), k < a PROVE tip[chain[k].tx] = "Dead"
      <4>1. CASE d = 0 /\ k = 1
        BY <4>1
      <4>2. CASE d = 1 \/ k # 1
        <5>1. k + d \in 2..Len(new) /\ new[k + d] = chain[k] /\ k + d < i
          BY <1>1, <1>3, <3>1, <3>2, <4>2
        <5>. DEFINE l == k + d
        <5>. HIDE DEF l
        <5>2. l \in 2..Len(new) /\ l \in 1..Len(new) /\ new[l] = chain[k] /\ l < i /\ j < l
          BY <1>1, <2>4, <5>1 DEF l
        <5>. QED
          BY <1>5, <2>4, <5>2 DEF Over
      <4>. QED
        BY <1>1, <4>1, <4>2
    <3>3. FirstKnown(tip, chain, own, snap)
      BY <1>5, <2>4 DEF Over
    <3>4. chain[a].tx \notin own /\ tip[chain[a].tx] # "Dead"
      BY <1>5, <3>1 DEF Over
    <3>. QED
      BY <3>1, <3>2, <3>3, <3>4 DEF FirstKnown
  <2>. QED
    BY <2>2, <2>3, <2>4
<1>. QED
  BY <1>5 DEF OverKnown

(* The chain from some version on. *)
LEMMA OverSuffix ==
    ASSUME NEW tip, NEW own, NEW snap, NEW chain \in Seq(Vers), NEW new \in Seq(Vers),
           NEW d \in Nat, \A i \in 1..Len(new) : i + d \in 1..Len(chain) /\ new[i] = chain[i + d],
           Len(new) = Len(chain) - d \/ Len(new) <= 1,
           OverKnown(tip, chain, own, snap)
    PROVE  OverKnown(tip, new, own, snap)
<1>1. Len(chain) \in Nat /\ Len(new) \in Nat
  BY LenProperties
<1>2. ASSUME NEW i \in 1..Len(new), NEW j \in 1..Len(new), Over(tip, new, own, j, i)
      PROVE  Known(tip, snap, new[i].tx)
  <2>1. j < i
    BY <1>2 DEF Over
  <2>2. Len(new) = Len(chain) - d
    BY <1>1, <2>1
  <2>. DEFINE a == i + d
              b == j + d
  <2>3. /\ a \in 1..Len(chain) /\ b \in 1..Len(chain) /\ b < a
        /\ new[i] = chain[a] /\ new[j] = chain[b] /\ a - d = i /\ b - d = j
    BY <1>1, <2>1
  <2>. HIDE DEF a, b
  <2>4. ASSUME NEW k \in 1..Len(chain), b < k, k < a
        PROVE  chain[k].tx \in own \/ tip[chain[k].tx] = "Dead"
    <3>. DEFINE l == k - d
    <3>1. l \in 1..Len(new) /\ l + d = k /\ j < l /\ l < i
      BY <1>1, <2>2, <2>3, <2>4
    <3>. HIDE DEF l
    <3>2. new[l] = chain[k]
      BY <3>1
    <3>. QED
      BY <1>2, <3>1, <3>2 DEF Over
  <2>5. Over(tip, chain, own, b, a)
    BY <1>2, <2>3, <2>4 DEF Over
  <2>. QED
    BY <2>3, <2>5 DEF OverKnown
<1>. QED
  BY <1>2 DEF OverKnown

-------------------------------------------------------------------------------
(* What a step does to the transactions.  Either p has no snapshot after   *)
(* it, or it is the one it had, but for its own commits; and p holds       *)
(* nothing after it, or, under the same snapshot, what it held, less what  *)
(* died, and what is new.                                                  *)
SnapPasses(p) ==
    \/ slots'[p].snapshot = Latest
    \/ /\ slots[p].snapshot # Latest
       /\ slots'[p].snapshot.limit = slots[p].snapshot.limit
       /\ slots'[p].snapshot.active = slots[p].snapshot.active
       /\ seen'[p] = seen[p]

IdsPass(p) ==
    \/ Ids(slots'[p]) = {}
    \/ /\ slots'[p].snapshot = slots[p].snapshot
       /\ \A t \in TxId :
             /\ t \in Ids(slots'[p]) => t \in Ids(slots[p]) \/ t > image.next
             /\ t \in Ids(slots[p]) => t \in Ids(slots'[p]) \/ image'.tip[t] = "Dead"

SnapInv(p) ==
    slots[p].snapshot # Latest =>
        /\ slots[p].snapshot.limit # 0
        /\ Settled(image.tip, slots[p].snapshot)
        /\ \A r \in Rows : Visible(image.tip, {}, Bare(slots[p].snapshot), image.rows[r]) = seen[p][r]

OverInv ==
    \A p \in Slots, r \in Rows :
        OverKnown(image.tip, image.rows[r], Ids(slots[p]), slots[p].snapshot)

LEMMA OverOnward ==
    ASSUME Inv, Inv', Onward, NEW p \in Slots, IdsPass(p), NEW r \in Rows,
           OverKnown(image.tip, image.rows[r], Ids(slots[p]), slots[p].snapshot)
    PROVE  OverKnown(image'.tip, image.rows[r], Ids(slots'[p]), slots'[p].snapshot)
<1>. DEFINE chain == image.rows[r]
            old == Ids(slots[p])
            own == Ids(slots'[p])
            snap == slots[p].snapshot
            tip == image.tip
            tipp == image'.tip
<1>1. /\ chain \in Seq(Vers) /\ Len(chain) \in Nat /\ image.next \in Nat
      /\ \A i \in 1..Len(chain) : chain[i].tx \in TxId /\ chain[i].tx <= image.next
  <2>1. chain \in Seq(Vers) /\ image.next \in Nat
    BY NumberedIs DEF Inv, Numbers
  <2>2. \A i \in 1..Len(chain) : chain[i].tx <= image.next
    BY DEF Inv, FilesInv, Written
  <2>. HIDE DEF chain
  <2>3. \A i \in 1..Len(chain) : chain[i] \in Vers
    BY <2>1, ElementOfSeq
  <2>. QED
    BY <2>1, <2>2, <2>3, LenProperties DEF Vers
<1>2. \A t \in TxId : tipp[t] = tip[t] \/ tip[t] \in Open
  BY DEF Onward
<1>3. CASE own = {}
  BY <1>3 DEF OverKnown, Over
<1>4. CASE own # {}
  <2>1. /\ slots'[p].snapshot = snap
        /\ \A t \in TxId : /\ t \in own => t \in old \/ t > image.next
                           /\ t \in old => t \in own \/ tipp[t] = "Dead"
    BY <1>4 DEF IdsPass
  <2>2. OverKnown(tip, chain, old, snap)
    OBVIOUS
  <2>. HIDE DEF chain, old, own, snap, tip, tipp
  <2>3. \A i \in 1..Len(chain) : chain[i].tx \in own => chain[i].tx \in old
    <3>. TAKE i \in 1..Len(chain)
    <3>. DEFINE t == chain[i].tx
    <3>1. t \in TxId /\ t \in Nat /\ t <= image.next
      BY <1>1, TxIds
    <3>. HIDE DEF t
    <3>2. ~(t > image.next)
      BY <1>1, <3>1
    <3>3. t \in own => t \in old
      BY <2>1, <3>1, <3>2
    <3>. QED
      BY <3>3 DEF t
  <2>4. ASSUME NEW i \in 1..Len(chain), NEW j \in 1..Len(chain), Over(tipp, chain, own, j, i)
        PROVE  Known(tipp, snap, chain[i].tx)
    <3>1. /\ chain[j].tx \in old /\ j < i
          /\ chain[i].tx \notin own /\ tipp[chain[i].tx] # "Dead" /\ chain[i].tx \in TxId
      BY <1>1, <2>3, <2>4 DEF Over
    <3>2. chain[i].tx \notin old /\ tip[chain[i].tx] # "Dead"
      BY <1>2, <2>1, <3>1 DEF Open
    <3>. DEFINE B == {k \in 1..Len(chain) : /\ j < k /\ k < i
                                            /\ chain[k].tx \notin old /\ tip[chain[k].tx] # "Dead"}
    <3>3. CASE B = {}
      <4>1. Over(tip, chain, old, j, i)
        BY <3>1, <3>2, <3>3 DEF Over
      <4>2. Known(tip, snap, chain[i].tx)
        BY <2>2, <4>1 DEF OverKnown
      <4>3. tipp[chain[i].tx] = tip[chain[i].tx]
        BY <1>2, <3>1, <4>2 DEF Known, Open
      <4>. QED
        BY <4>2, <4>3 DEF Known
    <3>4. CASE B # {}
      <4>. DEFINE l == Least(B)
      <4>0. B \in SUBSET Nat /\ B \subseteq 1..Len(chain)
        BY <1>1
      <4>1. l \in B /\ \A k \in B : l <= k
        <5>. HIDE DEF B
        <5>. QED
          BY <3>4, <4>0, LeastIsLeast
      <4>. HIDE DEF l
      <4>2. /\ l \in 1..Len(chain) /\ j < l /\ l < i /\ chain[l].tx \notin old
            /\ tip[chain[l].tx] # "Dead" /\ chain[l].tx \in TxId
        BY <1>1, <4>1
      <4>3. ASSUME NEW k \in 1..Len(chain), j < k, k < l
            PROVE  chain[k].tx \in old \/ tip[chain[k].tx] = "Dead"
        <5>1. k < i /\ ~(l <= k)
          BY <1>1, <4>2, <4>3
        <5>. QED
          BY <4>1, <4>3, <5>1
      <4>4. Over(tip, chain, old, j, l)
        BY <3>1, <4>2, <4>3 DEF Over
      <4>5. tip[chain[l].tx] = "Committed"
        BY <2>2, <4>2, <4>4 DEF OverKnown, Known
      <4>6. tipp[chain[l].tx] = "Committed"
        BY <1>2, <4>2, <4>5 DEF Open
      <4>7. chain[l].tx \in own \/ tipp[chain[l].tx] = "Dead"
        BY <2>4, <4>2 DEF Over
      <4>. QED
        BY <2>3, <4>2, <4>6, <4>7
    <3>. QED
      BY <3>3, <3>4
  <2>. QED
    BY <2>1, <2>4 DEF OverKnown, own, tipp, chain
<1>. QED
  BY <1>3, <1>4

(* A transaction that starts or passes still reads what it read. *)
LEMMA SnapOnward ==
    ASSUME Inv, Inv', Onward, NEW p \in Slots, SnapPasses(p), SnapInv(p),
           \A r \in Rows : \A snap \in Snapshots :
              snap.limit # 0 /\ Settled(image'.tip, snap) =>
                 Visible(image'.tip, {}, Bare(snap), image'.rows[r])
                     = Visible(image'.tip, {}, Bare(snap), image.rows[r])
    PROVE  SnapInv(p)'
<1>. DEFINE snap == slots[p].snapshot
            new == slots'[p].snapshot
<1>1. snap \in Snapshots /\ new \in Snapshots /\ \A r \in Rows : image.rows[r] \in Seq(Vers)
  <2>1. slots[p] \in TxSlots /\ slots'[p] \in TxSlots
    BY DEF Inv, Types
  <2>. QED
    BY <2>1, NumberedIs DEF TxSlots, Inv, Numbers
<1>2. CASE new = Latest
  BY <1>2 DEF SnapInv
<1>3. CASE new # Latest
  <2>1. /\ snap # Latest /\ new.limit = snap.limit /\ new.active = snap.active
        /\ seen'[p] = seen[p]
    BY <1>3 DEF SnapPasses
  <2>2. /\ snap.limit # 0 /\ Settled(image.tip, snap)
        /\ \A r \in Rows : Visible(image.tip, {}, Bare(snap), image.rows[r]) = seen[p][r]
    BY <2>1 DEF SnapInv
  <2>. HIDE DEF snap, new
  <2>3. Bare(new) = Bare(snap)
    BY <1>1, <2>1, BareIs
  <2>4. Settled(image'.tip, new)
    <3>1. Settled(image'.tip, snap)
      BY <1>1, <2>2, EmptySeq, ReadOnward
    <3>. QED
      BY <2>1, <3>1 DEF Settled
  <2>5. ASSUME NEW r \in Rows
        PROVE  Visible(image'.tip, {}, Bare(new), image'.rows[r]) = seen'[p][r]
    <3>1. Visible(image'.tip, {}, Bare(snap), image.rows[r])
             = Visible(image.tip, {}, Bare(snap), image.rows[r])
      BY <1>1, <2>2, ReadOnward
    <3>2. Visible(image'.tip, {}, Bare(new), image'.rows[r])
             = Visible(image'.tip, {}, Bare(new), image.rows[r])
      BY <1>1, <2>1, <2>2, <2>4
    <3>. QED
      BY <2>1, <2>2, <2>3, <3>1, <3>2
  <2>. QED
    BY <2>1, <2>2, <2>4, <2>5 DEF SnapInv, new
<1>. QED
  BY <1>2, <1>3

-------------------------------------------------------------------------------
(* Every step of a transaction but its start and its writes.               *)
Passing ==
    /\ Onward /\ image'.rows = image.rows
    /\ \A p \in Slots : SnapPasses(p) /\ IdsPass(p)

Alone(s) == \A p \in Slots \ {s} : slots'[p] = slots[p] /\ seen'[p] = seen[p]

LEMMA OthersPass ==
    ASSUME NEW s \in Slots, Alone(s), NEW p \in Slots \ {s}
    PROVE  SnapPasses(p) /\ IdsPass(p)
BY DEF Alone, SnapPasses, IdsPass

LEMMA SameImage == image' = image => Onward /\ image'.rows = image.rows
BY DEF Onward

LEMMA SetOnward ==
    ASSUME Inv, NEW ids \in SUBSET TxId, NEW state \in TxState,
           \A t \in ids : image.tip[t] \in Open,
           image' = SetState(image, ids, state)
    PROVE  Onward /\ image'.rows = image.rows /\ \A t \in ids : image'.tip[t] = state
<1>1. image \in File
  BY NumberedIs DEF Inv, Numbers
<1>. QED
  BY <1>1, SetStateIs DEF Onward

(* It goes on with other windows, and with all it holds. *)
LEMMA WindowsPass ==
    ASSUME Inv, NEW s \in Slots, NEW vs,
           slots' = [slots EXCEPT ![s].windows = vs],
           UNCHANGED <<image, seen>>
    PROVE  Passing
<1>1. slots \in [Slots -> TxSlots] /\ slots[s] \in TxSlots
  BY DEF Inv, Types
<1>2. /\ slots'[s].snapshot = slots[s].snapshot /\ slots'[s].tx = slots[s].tx
      /\ slots'[s].nested = slots[s].nested /\ Alone(s)
  BY <1>1 DEF TxSlots, Alone
<1>3. SnapPasses(s) /\ IdsPass(s)
  BY <1>2 DEF SnapPasses, IdsPass, Ids
<1>. QED
  BY <1>2, <1>3, OthersPass, SameImage DEF Passing

LEMMA MarksPass ==
    ASSUME Inv, NEW s \in Slots,
           \/ Savepoint(s)
           \/ \E i \in 1..MaxMarks : Redeclare(s, i) \/ Release(s, i)
           \/ \E t \in TxId : Reconnect(s, t)
    PROVE  Passing
<1>1. CASE Savepoint(s)
  BY <1>1, WindowsPass DEF Savepoint
<1>2. ASSUME NEW i \in 1..MaxMarks, Redeclare(s, i) PROVE Passing
  <2>. DEFINE ws == slots[s].windows
              merged == [ws EXCEPT ![i].folded = @ \cup IdsOf(ws[i + 1])]
              vs == SubSeq(merged, 1, i) \o SubSeq(merged, i + 2, Len(ws)) \o <<Window>>
  <2>1. slots' = [slots EXCEPT ![s].windows = vs] /\ UNCHANGED <<image, seen>>
    BY <1>2 DEF Redeclare
  <2>. HIDE DEF vs
  <2>. QED
    BY <2>1, WindowsPass
<1>3. ASSUME NEW i \in 1..MaxMarks, Release(s, i) PROVE Passing
  BY <1>3, WindowsPass DEF Release
<1>4. ASSUME NEW t \in TxId, Reconnect(s, t) PROVE Passing
  <2>1. UNCHANGED <<image, slots, seen>>
    BY <1>4 DEF Reconnect
  <2>. QED
    BY <2>1, OthersPass, SameImage DEF Passing, SnapPasses, IdsPass
<1>. QED
  BY <1>1, <1>2, <1>3, <1>4

LEMMA RollbackToPass ==
    ASSUME Inv, NEW s \in Slots, NEW i \in 1..MaxMarks, RollbackTo(s, i),
           "sideTimeout" \notin Beyond
    PROVE  Passing
<1>. DEFINE ids == Killed(s, i)
            new == BackTo(slots[s], i, ids)
<1>1. /\ i \in 1..(Inner(s) - 1)
      /\ image' = SetState(image, ids, "Dead")
      /\ slots' = [slots EXCEPT ![s] = new]
      /\ seen' = seen
  BY DEF RollbackTo, InstallDirty, Killed
<1>. HIDE DEF new
<1>2. /\ Ids(new) = Ids(slots[s]) \ ids /\ new.snapshot = slots[s].snapshot
      /\ ids \subseteq Ids(slots[s]) /\ ids \in SUBSET TxId
  <2>1. slots[s] \in TxSlots /\ WindowInv(slots[s]) /\ i \in 1..(Len(slots[s].windows) - 1)
    BY <1>1, HeldFacts DEF Inner
  <2>2. ids = LaterIds(slots[s].windows, i)
    BY DEF Killed, Undone, Inner, LaterIds
  <2>. HIDE DEF ids
  <2>. QED
    BY <2>1, <2>2, BackToIs DEF new
<1>. HIDE DEF ids
<1>3. \A t \in ids : image.tip[t] \in Open
  BY <1>2, HeldFacts
<1>4. Onward /\ image'.rows = image.rows /\ \A t \in ids : image'.tip[t] = "Dead"
  BY <1>1, <1>2, <1>3, SetOnward DEF TxState
<1>5. slots'[s] = new /\ Alone(s)
  BY <1>1 DEF Inv, Types, Alone
<1>6. SnapPasses(s) /\ IdsPass(s)
  BY <1>1, <1>2, <1>4, <1>5 DEF SnapPasses, IdsPass
<1>. QED
  BY <1>4, <1>5, <1>6, OthersPass DEF Passing

(* A transaction that ends holds nothing; one that goes on after a RETAIN  *)
(* keeps its snapshot.                                                     *)
LEMMA EndPass ==
    ASSUME Inv, NEW s \in Slots, NEW retain \in BOOLEAN,
           Commit(s, retain) \/ CommitFails(s, retain) \/ Rollback(s, retain)
    PROVE  Passing
<1>. DEFINE ids == Ids(slots[s])
<1>1. PICK committed \in BOOLEAN : Ends(s, retain, committed)
  BY DEF Commit, CommitFails, Rollback
<1>2. /\ slots' = [slots EXCEPT ![s] = Ended(s, retain, committed)]
      /\ seen' = IF retain = TRUE THEN seen ELSE [seen EXCEPT ![s] = [r \in Rows |-> NoRow]]
  BY <1>1 DEF Ends
<1>3. slots'[s] = Ended(s, retain, committed) /\ Ids(slots'[s]) = {} /\ Alone(s)
  <2>1. slots'[s] = Ended(s, retain, committed) /\ Alone(s)
    BY <1>2 DEF Inv, Types, Alone
  <2>. QED
    BY <2>1, EndedIs
<1>4. SnapPasses(s)
  <2>1. CASE retain = FALSE
    BY <1>3, <2>1 DEF SnapPasses, Ended, Idle
  <2>2. CASE retain = TRUE /\ slots[s].snapshot = Latest
    BY <1>3, <2>2 DEF SnapPasses, Ended, Idle
  <2>3. CASE retain = TRUE /\ slots[s].snapshot # Latest
    <3>. DEFINE snap == slots[s].snapshot
                more == IF committed THEN snap.committed_own \cup AllTx(s) ELSE snap.committed_own
    <3>1. slots'[s].snapshot = [snap EXCEPT !.committed_own = more]
      BY <1>3, <2>3 DEF Ended, Idle
    <3>2. snap \in Snapshots
      BY HeldFacts DEF TxSlots
    <3>. HIDE DEF more
    <3>3. slots'[s].snapshot.limit = snap.limit /\ slots'[s].snapshot.active = snap.active
      BY <3>1, <3>2 DEF Snapshots
    <3>4. seen'[s] = seen[s]
      BY <1>2, <2>3
    <3>. QED
      BY <2>3, <3>3, <3>4 DEF SnapPasses
  <2>. QED
    BY <2>1, <2>2, <2>3
<1>5. AllTx(s) = ids /\ CommitIds(s) = ids
  BY AllTxIs DEF CommitIds
<1>6. ids \in SUBSET TxId /\ \A t \in ids : image.tip[t] \in Open
  BY HeldFacts
<1>. HIDE DEF ids
<1>7. image' = image \/ \E state \in TxState : image' = SetState(image, ids, state)
  BY <1>5 DEF Commit, CommitFails, Rollback, FlushAndInstall, FlushFails, EndState, TxState
<1>8. Onward /\ image'.rows = image.rows
  BY <1>6, <1>7, SetOnward, SameImage
<1>. QED
  BY <1>3, <1>4, <1>8, OthersPass DEF Passing, IdsPass

LEMMA DetachPass ==
    ASSUME Inv, NEW s \in Slots, Detach(s)
    PROVE  Passing
<1>. DEFINE ids == Ids(slots[s])
<1>1. slots'[s] = Idle /\ Alone(s) /\ Ids(Idle) = {} /\ Idle.snapshot = Latest
  BY IdleIs DEF Detach, Inv, Types, Alone, Idle
<1>2. AllTx(s) = ids /\ ids \in SUBSET TxId /\ \A t \in ids : image.tip[t] \in Open
  BY AllTxIs, HeldFacts
<1>. HIDE DEF ids
<1>3. image' = image \/ image' = SetState(image, ids, "Dead")
  BY <1>2 DEF Detach, FlushAndInstall, FlushFails, EndState
<1>4. Onward /\ image'.rows = image.rows
  BY <1>2, <1>3, SetOnward, SameImage DEF TxState
<1>. QED
  BY <1>1, <1>4, OthersPass DEF Passing, IdsPass, SnapPasses

LEMMA ResolvePass ==
    ASSUME Inv, NEW s \in Slots, NEW state \in {"Committed", "Dead"}, Resolve(s, state)
    PROVE  Passing
<1>. DEFINE t == reconnected[s]
            ids == {t}
<1>1. /\ t \in TxId /\ image.tip[t] = "Limbo" /\ UNCHANGED <<slots, seen>>
      /\ image' = image \/ image' = SetState(image, ids, state)
  <2>1. t # 0 /\ t \in 0..MaxTx
    BY DEF Resolve, Inv, Types
  <2>2. t \in TxId /\ image.tip[t] = "Limbo"
    BY <2>1 DEF Inv, ReconInv, TxId
  <2>. QED
    BY <2>2 DEF Resolve, FlushAndInstall, FlushFails, EndState
<1>2. ids \in SUBSET TxId /\ (\A u \in ids : image.tip[u] \in Open) /\ state \in TxState
  BY <1>1 DEF Open, TxState
<1>. HIDE DEF ids
<1>3. Onward /\ image'.rows = image.rows
  BY <1>1, <1>2, SetOnward, SameImage
<1>. QED
  BY <1>1, <1>3 DEF Passing, SnapPasses, IdsPass

LEMMA PrepareFailsPass ==
    ASSUME Inv, NEW s \in Slots, PrepareFails(s), "prepareFails" \notin Beyond
    PROVE  Passing
<1>. DEFINE new == [slots[s] EXCEPT !.touched = slots[s].touched]
<1>1. /\ image' = image /\ seen' = seen
      /\ slots' = [slots EXCEPT ![s] = new]
  BY DEF PrepareFails, Prepared, FlushFails
<1>2. new = slots[s]
  BY HeldFacts DEF TxSlots
<1>. HIDE DEF new
<1>3. slots' = slots
  BY <1>1, <1>2 DEF Inv, Types
<1>. QED
  BY <1>1, <1>3, SameImage DEF Passing, SnapPasses, IdsPass

LEMMA PreparePass ==
    ASSUME Inv, NEW s \in Slots, Prepare(s), "manyInLimbo" \notin Beyond
    PROVE  Passing
<1>. DEFINE tx == PrepareTx(s)
            work == PrepareWork(s)
            sl == Prepared(s)
            new == [sl EXCEPT !.touched = TRUE, !.prepared = TRUE]
<1>1. /\ OneIdOnly(s) /\ (slots[s].tx # 0 \/ image.next < MaxTx)
      /\ seen' = seen /\ image' = work
      /\ slots' = [slots EXCEPT ![s] = new]
  BY DEF Prepare, FlushAndInstall
<1>2. /\ tx \in TxId /\ sl \in TxSlots /\ Ids(sl) = {tx}
      /\ IF slots[s].tx # 0 THEN tx \in Ids(slots[s]) /\ Ids(slots[s]) = {tx} /\ sl = slots[s]
         ELSE tx = image.next + 1 /\ Ids(slots[s]) = {}
  BY <1>1, PreparedIs
<1>3. Copy(work, {tx}, "Limbo") /\ work.rows = image.rows
  <2>1. Copy(work, {tx}, "Limbo")
    BY <1>1, PrepareCopy
  <2>2. image \in File /\ BeginActive(image).rows = image.rows
    BY NumberedIs DEF Inv, Numbers, BeginActive, SetState
  <2>. QED
    BY <2>1, <2>2 DEF PrepareWork, EndState, SetState
<1>4. sl.snapshot = slots[s].snapshot
  BY HeldFacts DEF Prepared, Adopt, TxSlots
<1>. HIDE DEF tx, work, sl
<1>5. slots'[s].snapshot = slots[s].snapshot /\ Ids(slots'[s]) = {tx} /\ Alone(s)
  <2>1. new.snapshot = sl.snapshot /\ new.tx = sl.tx /\ new.nested = sl.nested
    BY <1>2 DEF TxSlots
  <2>. HIDE DEF new
  <2>. QED
    BY <1>1, <1>2, <1>4, <2>1 DEF Inv, Types, Ids, Alone
<1>6. Onward /\ image'.rows = image.rows
  BY <1>1, <1>3 DEF Onward, Copy
<1>7. SnapPasses(s) /\ IdsPass(s)
  <2>1. SnapPasses(s)
    BY <1>1, <1>5 DEF SnapPasses
  <2>2. image.next \in Nat
    BY NumberedIs DEF Inv, Numbers
  <2>3. \A t \in TxId : t \in Ids(slots'[s]) => t \in Ids(slots[s]) \/ t > image.next
    BY <1>2, <1>5, <2>2
  <2>4. \A t \in TxId : t \in Ids(slots[s]) => t \in Ids(slots'[s])
    BY <1>2, <1>5
  <2>. QED
    BY <1>5, <2>1, <2>3, <2>4 DEF IdsPass
<1>. QED
  BY <1>5, <1>6, <1>7, OthersPass DEF Passing

(* A start, as far as its snapshot goes, reads what it saw. *)
LEMMA StartSees ==
    ASSUME Inv, NEW s \in Slots, Start(s)
    PROVE  /\ Onward /\ image' = image /\ SnapInv(s)'
           /\ \A p \in Slots : IdsPass(p)
           /\ \A p \in Slots \ {s} : SnapPasses(p)
<1>1. PICK snap \in {Latest, Capture(image.next, image.tip)} :
         /\ slots' = [slots EXCEPT ![s] = [Idle EXCEPT !.open = TRUE, !.snapshot = snap]]
         /\ seen' = [seen EXCEPT ![s] = [r \in Rows |->
                       IF snap = Latest THEN NoRow
                       ELSE Visible(image.tip, {}, snap, image.rows[r])]]
  BY DEF Start
<1>2. image' = image
  BY DEF Start
<1>3. slots'[s].snapshot = snap /\ Ids(slots'[s]) = {} /\ Alone(s)
  BY <1>1 DEF Inv, Types, Alone, Ids, Idle
<1>4. ASSUME snap = Latest PROVE SnapInv(s)'
  BY <1>3, <1>4 DEF SnapInv
<1>5. ASSUME snap = Capture(image.next, image.tip) PROVE SnapInv(s)'
  <2>1. image.next \in Nat /\ image.next \in 0..MaxTx /\ image.next + 1 # 0
    BY NumberedIs DEF Inv, Numbers
  <2>2. /\ snap.limit = image.next + 1 /\ snap.committed_own = {}
        /\ snap.active = {t \in 1..image.next : image.tip[t] \in {"Active", "Limbo"}}
        /\ snap = [limit |-> snap.limit, active |-> snap.active, committed_own |-> {}]
    BY <1>5 DEF Capture
  <2>3. snap # Latest
    BY <2>1, <2>2 DEF Latest
  <2>4. Bare(snap) = snap
    BY <2>2 DEF Bare
  <2>5. Settled(image.tip, snap)
    <3>1. ASSUME NEW t \in TxId, t < image.next + 1 PROVE t \in 1..image.next
      BY <2>1, <3>1, TxIds
    <3>. QED
      BY <2>2, <3>1 DEF Settled, Open
  <2>6. \A r \in Rows : seen'[s][r] = Visible(image.tip, {}, snap, image.rows[r])
    BY <1>1, <2>3 DEF Inv, Types
  <2>. QED
    BY <1>2, <1>3, <2>1, <2>2, <2>4, <2>5, <2>6 DEF SnapInv
<1>. QED
  BY <1>2, <1>3, <1>4, <1>5, OthersPass, SameImage DEF IdsPass

-------------------------------------------------------------------------------
(* A write.  s holds its id, and has passed the tests of Target.           *)
Writes(s, r, d, v) ==
    /\ image'.tip = image.tip
    /\ \A q \in Rows \ {r} : image'.rows[q] = image.rows[q]
    /\ Grown(image.rows[r], image'.rows[r], d)
    /\ Len(image'.rows[r]) >= 1 /\ image'.rows[r][1] = v
    /\ v.tx \in Ids(slots'[s])
    /\ d = 0 => image.tip[image.rows[r][1].tx] = "Dead" /\ image.rows[r][1].tx \in TxId
    /\ Alone(s) /\ seen'[s] = seen[s] /\ SnapPasses(s) /\ IdsPass(s)
    /\ Ids(slots[s]) \subseteq Ids(slots'[s])
    /\ slots'[s].snapshot = slots[s].snapshot
    /\ image.rows[r] = <<>> \/ Target(s, r)

LEMMA WriteIs ==
    ASSUME Inv, Inv', NEW s \in Slots, NEW r \in Rows,
           Insert(s, r) \/ \E del \in BOOLEAN : UpdateOrDelete(s, r, del)
    PROVE  \E d \in {0, 1}, v \in Vers : Writes(s, r, d, v)
<1>. DEFINE chain == image.rows[r]
            tx == WorkTx(s)
            w == WorkCopy(s)
<1>1. CanReserve(s)
  BY DEF Insert, UpdateOrDelete
<1>2. /\ w.rows = image.rows /\ \A t \in TxId : w.tip[t] = image.tip[t]
      /\ tx \in TxId /\ Numbered(w)
      /\ IF WriteTx(s) = 0 THEN tx = image.next + 1 ELSE tx \in Ids(slots[s])
  BY <1>1, WorkIs
<1>3. /\ w.tip = image.tip /\ chain \in Seq(Vers) /\ Len(chain) \in Nat /\ image.next \in Nat
  <2>1. w.tip \in [TxId -> TxState] /\ image.tip \in [TxId -> TxState]
    BY <1>2, NumberedIs DEF Inv, Numbers
  <2>2. w.tip = image.tip
    BY <1>2, <2>1
  <2>3. chain \in Seq(Vers) /\ image.next \in Nat
    BY NumberedIs DEF Inv, Numbers
  <2>. QED
    BY <2>2, <2>3, LenProperties
<1>4. PICK new : /\ image' = [w EXCEPT !.rows[r] = new]
                 /\ slots' = [slots EXCEPT ![s] = Adopt(slots[s], tx)]
                 /\ seen' = seen
                 /\ \/ chain = <<>> /\ new = <<Version(tx, FALSE)>>
                    \/ \E del \in BOOLEAN : /\ Target(s, r)
                                            /\ new = WriteOver(image.tip, chain, Version(tx, del))
  <2>1. CASE Insert(s, r)
    BY <2>1 DEF Insert, Install, InstallDirty
  <2>2. ASSUME NEW del \in BOOLEAN, UpdateOrDelete(s, r, del) 
        PROVE  /\ image' = [w EXCEPT !.rows[r] = WriteOver(image.tip, chain, Version(tx, del))]
               /\ slots' = [slots EXCEPT ![s] = Adopt(slots[s], tx)]
               /\ seen' = seen /\ Target(s, r)
    BY <1>2, <2>2 DEF UpdateOrDelete, Install, InstallDirty
  <2>. QED
    BY <2>1, <2>2
<1>. HIDE DEF w, tx
<1>5. /\ image'.tip = image.tip /\ image'.rows[r] = new
      /\ \A q \in Rows \ {r} : image'.rows[q] = image.rows[q]
  <2>1. w \in File /\ w.rows \in [Rows -> Seq(Vers)]
    BY <1>2, NumberedIs
  <2>. QED
    BY <1>2, <1>3, <1>4, <2>1 DEF File
<1>6. /\ Ids(slots'[s]) = Ids(slots[s]) \cup {tx} /\ Alone(s) /\ seen'[s] = seen[s]
      /\ slots'[s].snapshot = slots[s].snapshot
  <2>1. Ids(Adopt(slots[s], tx)) = Ids(slots[s]) \cup {tx}
    BY <1>1, AdoptedIs DEF tx
  <2>2. Adopt(slots[s], tx).snapshot = slots[s].snapshot
    BY HeldFacts DEF Adopt, TxSlots
  <2>. QED
    BY <1>4, <2>1, <2>2 DEF Inv, Types, Alone
<1>7. SnapPasses(s) /\ IdsPass(s)
  <2>1. WriteTx(s) = 0 => tx > image.next
    BY <1>2, <1>3
  <2>. QED
    BY <1>2, <1>6, <2>1 DEF SnapPasses, IdsPass
<1>8. CASE chain = <<>> /\ new = <<Version(tx, FALSE)>>
  <2>. DEFINE v == Version(tx, FALSE)
  <2>1. v \in Vers /\ v.tx = tx
    BY <1>2 DEF Version, Vers
  <2>. HIDE DEF v
  <2>2. Len(new) = 1 /\ new[1] = v /\ Len(chain) = 0
    BY <1>8 DEF v
  <2>3. Grown(chain, new, 1)
    BY <2>2 DEF Grown
  <2>4. chain = <<>> \/ Target(s, r)
    BY <1>8
  <2>5. Writes(s, r, 1, v)
    BY <1>5, <1>6, <1>7, <2>1, <2>2, <2>3, <2>4 DEF Writes
  <2>. QED
    BY <2>1, <2>5
<1>9. ASSUME NEW del \in BOOLEAN, Target(s, r), new = WriteOver(image.tip, chain, Version(tx, del))
      PROVE  \E d \in {0, 1}, v \in Vers : Writes(s, r, d, v)
  <2>. DEFINE v == Version(tx, del)
  <2>1. v \in Vers /\ v.tx = tx
    BY <1>2 DEF Version, Vers
  <2>2. chain # <<>>
    BY <1>9 DEF Target
  <2>. HIDE DEF v
  <2>3. Wrote(image.tip, chain, v, new)
    BY <1>3, <1>9, <2>1, <2>2, WrittenOver DEF v
  <2>4. Len(chain) >= 1
    BY <1>3, <2>2, EmptySeq
  <2>5. CASE ~Dropped(image.tip, chain)
    <3>1. Len(new) = Len(chain) + 1 /\ new[1] = v /\ \A i \in 1..Len(chain) : new[i + 1] = chain[i]
      BY <2>3, <2>5 DEF Wrote
    <3>2. ASSUME NEW i \in 2..Len(new) PROVE i - 1 \in 1..Len(chain) /\ new[i] = chain[i - 1]
      <4>. DEFINE k == i - 1
      <4>1. k \in 1..Len(chain) /\ k + 1 = i
        BY <1>3, <3>1, <3>2
      <4>. HIDE DEF k
      <4>2. new[i] = chain[k]
        BY <3>1, <4>1
      <4>. QED
        BY <4>1, <4>2 DEF k
    <3>3. Grown(chain, new, 1) /\ Len(new) >= 1
      BY <1>3, <3>1, <3>2 DEF Grown
    <3>4. Writes(s, r, 1, v)
      BY <1>5, <1>6, <1>7, <1>9, <2>1, <3>1, <3>3 DEF Writes
    <3>. QED
      BY <2>1, <3>4
  <2>6. CASE Dropped(image.tip, chain)
    <3>1. Len(new) = Len(chain) /\ new[1] = v /\ \A i \in 2..Len(chain) : new[i] = chain[i]
      BY <2>3, <2>6 DEF Wrote
    <3>2. Grown(chain, new, 0) /\ Len(new) >= 1
      BY <1>3, <2>4, <3>1 DEF Grown
    <3>3. image.tip[chain[1].tx] = "Dead" /\ chain[1].tx \in TxId
      <4>1. chain[1] \in Vers /\ Head(chain) = chain[1]
        BY <1>3, <2>2, <2>4, ElementOfSeq, HeadTailProperties
      <4>. QED
        BY <2>6, <4>1, TxIds DEF Dropped, StateOf, Vers
    <3>4. Writes(s, r, 0, v)
      BY <1>5, <1>6, <1>7, <1>9, <2>1, <3>1, <3>2, <3>3 DEF Writes
    <3>. QED
      BY <2>1, <3>4
  <2>. QED
    BY <2>5, <2>6
<1>. QED
  BY <1>4, <1>8, <1>9

(* Writers have asked of the first living version behind which only dead   *)
(* ones stand, whoever wrote it.                                           *)
LEMMA OwnWindows == ASSUME Inv, NEW s \in Slots PROVE OwnTx(s) \subseteq Ids(slots[s])
<1>. DEFINE ws == slots[s].windows
<1>1. WindowsOk(ws, slots[s].nested) /\ ws \in Seq(Windows)
  BY HeldFacts DEF WindowInv, TxSlots
<1>2. ASSUME NEW i \in DOMAIN ws PROVE IdsOf(ws[i]) \subseteq slots[s].nested
  <2>1. i \in 1..Len(ws)
    BY <1>1, <1>2, LenProperties
  <2>. QED
    BY <1>1, <2>1 DEF WindowsOk
<1>. QED
  BY <1>2 DEF OwnTx, Ids

LEMMA TargetKnown ==
    ASSUME Inv, NEW s \in Slots, NEW r \in Rows, Target(s, r), "deadHead" \notin Beyond
    PROVE  FirstKnown(image.tip, image.rows[r], Ids(slots[s]), slots[s].snapshot)
<1>. DEFINE chain == image.rows[r]
            tip == image.tip
            own == OwnTx(s)
            snap == slots[s].snapshot
<1>1. /\ chain \in Seq(Vers) /\ Len(chain) \in Nat /\ DOMAIN chain = 1..Len(chain)
      /\ \A i \in 1..Len(chain) : chain[i].tx \in TxId /\ chain[i].tx # 0
  <2>1. chain \in Seq(Vers)
    BY NumberedIs DEF Inv, Numbers
  <2>. HIDE DEF chain
  <2>2. \A i \in 1..Len(chain) : chain[i] \in Vers
    BY <2>1, ElementOfSeq
  <2>. QED
    BY <2>1, <2>2, LenProperties, TxIds DEF Vers
<1>2. own \subseteq Ids(slots[s]) /\ \A t \in own : tip[t] \in Open
  BY OwnWindows, HeldFacts
<1>3. tip \in [TxId -> TxState]
  BY NumberedIs DEF Inv, Numbers
<1>4. /\ ~MeetsLimbo(tip, own, snap, chain)
      /\ \A t \in AskedAbout(chain) : ~Conflict(s, t) /\ ~Blocks(s, t)
  BY DEF Target
<1>. SUFFICES ASSUME NEW i \in 1..Len(chain),
                     chain[i].tx \notin Ids(slots[s]), tip[chain[i].tx] # "Dead",
                     \A k \in 1..Len(chain) : k < i => tip[chain[k].tx] = "Dead"
     PROVE  Known(tip, snap, chain[i].tx)
  BY DEF FirstKnown
<1>. DEFINE t == chain[i].tx
<1>5. t \in TxId /\ t # 0 /\ t \notin own /\ tip[t] # "Dead"
  BY <1>1, <1>2
<1>6. t \in AskedAbout(chain)
  <2>. DEFINE A == Alive(chain)
  <2>1. /\ A \subseteq 1..Len(chain)
        /\ \A k \in 1..Len(chain) : k \in A <=> tip[chain[k].tx] # "Dead"
    BY <1>1 DEF Alive, StateOf
  <2>2. i \in A /\ \A k \in A : i <= k
    <3>1. ASSUME NEW k \in A, k < i PROVE FALSE
      BY <2>1, <3>1
    <3>2. \A k \in A : k \in Nat
      BY <1>1, <2>1
    <3>. QED
      BY <1>1, <2>1, <3>1, <3>2
  <2>3. A \in SUBSET Nat /\ A # {}
    BY <1>1, <2>1, <2>2
  <2>4. Least(A) \in A /\ \A k \in A : Least(A) <= k
    <3>. HIDE DEF A
    <3>. QED
      BY <2>3, LeastIsLeast
  <2>5. Least(A) = i
    <3>. DEFINE l == Least(A)
    <3>1. l <= i /\ i <= l /\ l \in Nat /\ i \in Nat
      BY <1>1, <2>1, <2>2, <2>4
    <3>. HIDE DEF l
    <3>2. l = i
      BY <3>1
    <3>. QED
      BY <3>2 DEF l
  <2>. QED
    BY <2>3, <2>5 DEF AskedAbout
<1>. HIDE DEF own, chain
<1>7. tip[t] # "Limbo"
  <2>1. ASSUME tip[t] = "Limbo" PROVE FALSE
    <3>1. ASSUME NEW j \in 1..i PROVE ~Counts(tip, own, snap, chain[j].tx)
      <4>1. j \in 1..Len(chain) /\ chain[j].tx \in TxId /\ chain[j].tx # 0
        BY <1>1
      <4>2. tip[chain[j].tx] \in {"Dead", "Limbo"}
        <5>1. j = i \/ j < i
          BY <1>1
        <5>. QED
          BY <2>1, <4>1, <5>1
      <4>3. chain[j].tx \notin own
        <5>1. CASE j = i
          BY <1>5, <5>1
        <5>2. CASE j # i
          <6>1. j < i
            BY <1>1, <5>2
          <6>2. tip[chain[j].tx] = "Dead"
            BY <4>1, <6>1
          <6>. QED
            BY <1>2, <6>2 DEF Open
        <5>. QED
          BY <5>1, <5>2
      <4>. QED
        BY <4>1, <4>2, <4>3 DEF Counts, StateOf
    <3>2. MeetsLimbo(tip, own, snap, chain)
      BY <1>1, <1>5, <2>1, <3>1 DEF MeetsLimbo, StateOf
    <3>. QED
      BY <1>4, <3>2
  <2>. QED
    BY <2>1
<1>8. tip[t] # "Active"
  BY <1>4, <1>5, <1>6 DEF Blocks, StateOf, own
<1>9. tip[t] = "Committed"
  BY <1>3, <1>5, <1>7, <1>8 DEF TxState
<1>10. snap = Latest \/ Sees(snap, t)
  BY <1>4, <1>5, <1>6, <1>9 DEF Conflict, StateOf, own
<1>. QED
  BY <1>9, <1>10 DEF Known

LEMMA WriteOvers ==
    ASSUME Inv, Inv', OverInv, NEW s \in Slots, NEW r \in Rows, NEW d \in {0, 1}, NEW v \in Vers,
           Writes(s, r, d, v), "deadHead" \notin Beyond
    PROVE  OverInv'
<1>1. Onward
  BY DEF Writes, Onward
<1>2. ASSUME NEW p \in Slots, NEW q \in Rows
      PROVE  OverKnown(image'.tip, image.rows[q], Ids(slots'[p]), slots'[p].snapshot)
  <2>1. IdsPass(p)
    <3>1. CASE p = s
      BY <3>1 DEF Writes
    <3>2. CASE p # s
      <4>1. Alone(s) /\ p \in Slots \ {s}
        BY <3>2 DEF Writes
      <4>. QED
        BY <4>1, OthersPass
    <3>. QED
      BY <3>1, <3>2
  <2>. QED
    BY <1>1, <2>1, OverOnward DEF OverInv
<1>3. ASSUME NEW p \in Slots
      PROVE  OverKnown(image'.tip, image'.rows[r], Ids(slots'[p]), slots'[p].snapshot)
  <2>. DEFINE chain == image.rows[r]
              new == image'.rows[r]
              own == Ids(slots'[p])
              snap == slots'[p].snapshot
  <2>1. chain \in Seq(Vers) /\ new \in Seq(Vers)
    <3>1. Numbered(image) /\ Numbered(image')
      BY DEF Inv, Numbers, Numbered
    <3>. QED
      BY <3>1, NumberedIs
  <2>2. /\ image'.tip = image.tip /\ Grown(chain, new, d) /\ new[1] = v
        /\ (d = 0 => image'.tip[chain[1].tx] = "Dead")
    BY DEF Writes
  <2>3. ASSUME v.tx \in own
        PROVE  FirstKnown(image'.tip, chain, own, snap)
    <3>1. p = s
      <4>1. v.tx \in Ids(slots'[s])
        BY DEF Writes
      <4>2. p # s => Ids(slots'[p]) \cap Ids(slots'[s]) = {}
        BY DEF Inv, HeldInv
      <4>. QED
        BY <2>3, <4>1, <4>2
    <3>2. Ids(slots[s]) \subseteq own /\ snap = slots[s].snapshot
      BY <3>1 DEF Writes
    <3>3. CASE chain = <<>>
      <4>1. Len(chain) = 0
        BY <3>3
      <4>. QED
        BY <4>1 DEF FirstKnown
    <3>4. CASE Target(s, r)
      <4>1. FirstKnown(image.tip, chain, Ids(slots[s]), slots[s].snapshot)
        BY <3>4, TargetKnown
      <4>. HIDE DEF chain, own, snap
      <4>. QED
        BY <2>2, <3>2, <4>1 DEF FirstKnown
    <3>. QED
      BY <3>3, <3>4 DEF Writes
  <2>4. OverKnown(image'.tip, chain, own, snap)
    BY <1>2
  <2>. HIDE DEF chain, own, snap, new
  <2>5. OverKnown(image'.tip, new, own, snap)
    BY <2>1, <2>2, <2>3, <2>4, OverWrite
  <2>. QED
    BY <2>5 DEF new, own, snap
<1>4. ASSUME NEW p \in Slots, NEW q \in Rows
      PROVE  OverKnown(image'.tip, image'.rows[q], Ids(slots'[p]), slots'[p].snapshot)
  <2>1. CASE q = r
    BY <1>3, <2>1
  <2>2. CASE q # r
    <3>1. image'.rows[q] = image.rows[q]
      BY <2>2 DEF Writes
    <3>. QED
      BY <1>2, <3>1
  <2>. QED
    BY <2>1, <2>2
<1>. QED
  BY <1>4 DEF OverInv

LEMMA WriteReads ==
    ASSUME Inv, Inv', NEW s \in Slots, NEW r \in Rows, NEW d \in {0, 1}, NEW v \in Vers,
           Writes(s, r, d, v), \A p \in Slots : SnapInv(p)
    PROVE  \A p \in Slots : SnapInv(p)'
<1>1. Onward
  BY DEF Writes, Onward
<1>2. ASSUME NEW p \in Slots PROVE SnapPasses(p)
  <2>1. CASE p = s
    BY <2>1 DEF Writes
  <2>2. CASE p # s
    <3>1. Alone(s) /\ p \in Slots \ {s}
      BY <2>2 DEF Writes
    <3>. QED
      BY <3>1, OthersPass
  <2>. QED
    BY <2>1, <2>2
<1>3. ASSUME NEW q \in Rows, NEW snap \in Snapshots, snap.limit # 0
      PROVE  Visible(image'.tip, {}, Bare(snap), image'.rows[q])
                = Visible(image'.tip, {}, Bare(snap), image.rows[q])
  <2>1. CASE q # r
    BY <2>1 DEF Writes
  <2>2. CASE q = r
    <3>. DEFINE chain == image.rows[r]
                new == image'.rows[r]
                bare == Bare(snap)
                tip == image'.tip
    <3>1. chain \in Seq(Vers) /\ new \in Seq(Vers)
      <4>1. Numbered(image) /\ Numbered(image')
        BY DEF Inv, Numbers, Numbered
      <4>. QED
        BY <4>1, NumberedIs
    <3>2. /\ Grown(chain, new, d) /\ Len(new) >= 1 /\ new[1] = v
          /\ d = 0 => tip[chain[1].tx] = "Dead" /\ chain[1].tx \in TxId
      BY DEF Writes
    <3>3. tip[v.tx] # "Committed" /\ v.tx # 0
      <4>1. v.tx \in Ids(slots'[s]) /\ v.tx \in TxId
        BY DEF Writes, Vers
      <4>2. tip[v.tx] = IF slots'[s].prepared = TRUE THEN "Limbo" ELSE "Active"
        BY <4>1 DEF Inv, HeldInv
      <4>. QED
        BY <4>1, <4>2, TxIds
    <3>4. ~Counts(tip, {}, bare, v.tx)
      BY <3>3 DEF Counts, StateOf
    <3>5. d = 0 => ~Counts(tip, {}, bare, chain[1].tx)
      BY <3>2, TxIds DEF Counts, StateOf
    <3>. HIDE DEF chain, new, bare, tip
    <3>6. Visible(tip, {}, bare, new) = Visible(tip, {}, bare, chain)
      BY <3>1, <3>2, <3>4, <3>5, ReadBehind
    <3>. QED
      BY <2>2, <3>6 DEF chain, new, bare, tip
  <2>. QED
    BY <2>1, <2>2
<1>. QED
  BY <1>1, <1>2, <1>3, SnapOnward

-------------------------------------------------------------------------------
(* The sweep leaves the end of a chain, its head or nothing of it.         *)
LEMMA SweepChainOver ==
    ASSUME NEW tip, NEW own, NEW snap, NEW held, NEW was, NEW chain \in Seq(Vers),
           OverKnown(tip, chain, own, snap)
    PROVE  OverKnown(tip, SweepChain(was, held, chain), own, snap)
<1>. DEFINE K == Remaining(was, held, chain)
            new == SweepChain(was, held, chain)
            l == Least(K)
<1>1. K \subseteq 1..Len(chain) /\ Len(chain) \in Nat
  BY LenProperties DEF Remaining
<1>2. new \in Seq(Vers)
  BY SweepChainType
<1>3. CASE new = <<>>
  <2>1. Len(new) = 0
    BY <1>3
  <2>. HIDE DEF new
  <2>. QED
    BY <2>1 DEF OverKnown, new
<1>4. CASE K # {} /\ new # <<>>
  <2>1. l \in 1..Len(chain)
    <3>1. K \in SUBSET Nat
      BY <1>1
    <3>2. l \in K
      <4>. HIDE DEF K
      <4>. QED
        BY <1>4, <3>1, LeastIsLeast
    <3>. QED
      BY <1>1, <3>2
  <2>2. new = <<chain[l]>> \/ new = SubSeq(chain, l, Len(chain))
    BY <1>4 DEF SweepChain
  <2>. DEFINE d == l - 1
  <2>. HIDE DEF K, l
  <2>3. CASE new = <<chain[l]>>
    <3>1. Len(new) = 1 /\ new[1] = chain[l]
      BY <2>3
    <3>. HIDE DEF new
    <3>2. d \in Nat /\ 1 + d = l
      BY <1>1, <2>1
    <3>. HIDE DEF d
    <3>3. \A i \in 1..Len(new) : i + d \in 1..Len(chain) /\ new[i] = chain[i + d]
      BY <2>1, <3>1, <3>2
    <3>4. Len(new) <= 1
      BY <3>1
    <3>5. OverKnown(tip, new, own, snap)
      BY <1>2, <3>2, <3>3, <3>4, OverSuffix
    <3>. QED
      BY <3>5 DEF new
  <2>4. CASE new = SubSeq(chain, l, Len(chain))
    <3>1. /\ Len(new) = Len(chain) - l + 1
          /\ \A i \in 1..(Len(chain) - l + 1) : new[i] = chain[l + i - 1]
      BY <1>1, <2>1, <2>4, SubSeqProperties
    <3>. HIDE DEF new
    <3>2. d \in Nat /\ l = d + 1
      BY <1>1, <2>1
    <3>3. Len(new) = Len(chain) - d
      BY <1>1, <2>1, <3>1, <3>2
    <3>. HIDE DEF d
    <3>4. ASSUME NEW i \in 1..Len(new) PROVE i + d \in 1..Len(chain) /\ new[i] = chain[i + d]
      <4>1. l + i - 1 = i + d /\ i + d \in 1..Len(chain) /\ i \in 1..(Len(chain) - l + 1)
        BY <1>1, <2>1, <3>1, <3>2, <3>3
      <4>. QED
        BY <3>1, <4>1
    <3>5. OverKnown(tip, new, own, snap)
      BY <1>2, <3>2, <3>3, <3>4, OverSuffix
    <3>. QED
      BY <3>5 DEF new
  <2>. QED
    BY <2>2, <2>3, <2>4
<1>5. CASE K = {}
  <2>1. new = <<>>
    BY <1>5 DEF SweepChain
  <2>. QED
    BY <1>3, <2>1
<1>. QED
  BY <1>3, <1>4, <1>5

LEMMA SweepIs ==
    ASSUME Inv, Sweep
    PROVE  /\ Onward /\ slots' = slots /\ seen' = seen
           /\ \/ image'.rows = image.rows
              \/ \A r \in Rows : image'.rows[r] = SweepChain(image.tip, Held, image.rows[r])
<1>1. slots' = slots /\ seen' = seen /\ (image' = Swept \/ image' = image)
  BY DEF Sweep, FlushAndInstall, FlushFails
<1>2. CASE image' = image
  BY <1>1, <1>2, SameImage
<1>3. CASE image' = Swept
  <2>1. Copy(Swept, Gone, "Dead")
    BY SweptCopy
  <2>2. Onward
    BY <1>3, <2>1 DEF Onward, Copy
  <2>3. image \in File
    BY NumberedIs DEF Inv, Numbers
  <2>4. Swept.rows = [r \in Rows |-> SweepChain(image.tip, Held, image.rows[r])]
    <3>. DEFINE rows == [r \in Rows |-> SweepChain(image.tip, Held, image.rows[r])]
    <3>. HIDE DEF rows
    <3>1. Swept = [SetState(image, Gone, "Dead") EXCEPT !.oit = image.next, !.rows = rows]
      BY DEF Swept, Gone, rows
    <3>2. SetState(image, Gone, "Dead") \in File
      BY <2>3, SetStateIs DEF TxState
    <3>. QED
      BY <3>1, <3>2 DEF File, rows
  <2>. QED
    BY <1>1, <1>3, <2>2, <2>4
<1>. QED
  BY <1>1, <1>2, <1>3

LEMMA SweepOvers ==
    ASSUME Inv, Inv', OverInv, Sweep
    PROVE  OverInv'
<1>1. Onward /\ slots' = slots
  BY SweepIs
<1>2. ASSUME NEW p \in Slots, NEW r \in Rows
      PROVE  OverKnown(image'.tip, image'.rows[r], Ids(slots'[p]), slots'[p].snapshot)
  <2>1. IdsPass(p)
    BY <1>1 DEF IdsPass
  <2>2. OverKnown(image'.tip, image.rows[r], Ids(slots'[p]), slots'[p].snapshot)
    BY <1>1, <2>1, OverOnward DEF OverInv
  <2>3. image.rows[r] \in Seq(Vers)
    BY NumberedIs DEF Inv, Numbers
  <2>. QED
    BY <2>2, <2>3, SweepIs, SweepChainOver
<1>. QED
  BY <1>2 DEF OverInv

(* Of the connections of a crash none is left. *)
LEMMA CrashForgets ==
    ASSUME Crash
    PROVE  OverInv' /\ \A p \in Slots : SnapInv(p)'
<1>1. \A p \in Slots : slots'[p] = Idle
  BY DEF Crash
<1>2. Ids(Idle) = {} /\ Idle.snapshot = Latest
  BY IdleIs DEF Idle
<1>3. OverInv'
  BY <1>1, <1>2 DEF OverInv, OverKnown, Over
<1>4. \A p \in Slots : SnapInv(p)'
  BY <1>1, <1>2 DEF SnapInv
<1>. QED
  BY <1>3, <1>4

LEMMA PassingKeeps ==
    ASSUME Inv, Inv', Passing
    PROVE  /\ OverInv => OverInv'
           /\ (\A p \in Slots : SnapInv(p)) => \A p \in Slots : SnapInv(p)'
<1>1. Onward /\ image'.rows = image.rows /\ \A p \in Slots : SnapPasses(p) /\ IdsPass(p)
  BY DEF Passing
<1>2. ASSUME OverInv PROVE OverInv'
  <2>1. ASSUME NEW p \in Slots, NEW r \in Rows
        PROVE  OverKnown(image'.tip, image'.rows[r], Ids(slots'[p]), slots'[p].snapshot)
    BY <1>1, <1>2, OverOnward DEF OverInv
  <2>. QED
    BY <2>1 DEF OverInv
<1>3. ASSUME \A p \in Slots : SnapInv(p) PROVE \A p \in Slots : SnapInv(p)'
  BY <1>1, <1>3, SnapOnward
<1>. QED
  BY <1>2, <1>3

(* Every step is one of a write, a start, a sweep, a crash or passes. *)
LEMMA StepIs ==
    ASSUME Ordinary, Inv, [Next]_txVars
    PROVE  \/ Passing
           \/ \E s \in Slots : Start(s)
           \/ \E s \in Slots, r \in Rows :
                 Insert(s, r) \/ \E del \in BOOLEAN : UpdateOrDelete(s, r, del)
           \/ Sweep
           \/ Crash
<1>0. /\ "sideTimeout" \notin Beyond /\ "prepareFails" \notin Beyond /\ "manyInLimbo" \notin Beyond
  BY DEF Ordinary
<1>1. ASSUME NEW s \in Slots,
             \/ Savepoint(s) \/ \E t \in TxId : Reconnect(s, t)
             \/ \E i \in 1..MaxMarks : Redeclare(s, i) \/ Release(s, i)
      PROVE Passing
  BY <1>1, MarksPass
<1>2. ASSUME NEW s \in Slots, NEW i \in 1..MaxMarks, RollbackTo(s, i) PROVE Passing
  BY <1>0, <1>2, RollbackToPass
<1>3. ASSUME NEW s \in Slots, NEW retain \in BOOLEAN,
             Commit(s, retain) \/ CommitFails(s, retain) \/ Rollback(s, retain)
      PROVE Passing
  BY <1>3, EndPass
<1>4. ASSUME NEW s \in Slots, Prepare(s) PROVE Passing
  BY <1>0, <1>4, PreparePass
<1>5. ASSUME NEW s \in Slots, PrepareFails(s) PROVE Passing
  BY <1>0, <1>5, PrepareFailsPass
<1>6. ASSUME NEW s \in Slots, Detach(s) PROVE Passing
  BY <1>6, DetachPass
<1>7. ASSUME NEW s \in Slots, NEW state \in {"Committed", "Dead"}, Resolve(s, state) PROVE Passing
  BY <1>7, ResolvePass
<1>8. ASSUME UNCHANGED txVars PROVE Passing
  BY <1>8, SameImage DEF txVars, Passing, SnapPasses, IdsPass
<1>. QED
  BY <1>1, <1>2, <1>3, <1>4, <1>5, <1>6, <1>7, <1>8 DEF Next

LEMMA SnapNext ==
    ASSUME Ordinary, "sweepBeside" \notin Beyond
    PROVE  Inv /\ Inv' /\ (\A p \in Slots : SnapInv(p)) /\ [Next]_txVars => \A p \in Slots : SnapInv(p)'
<1>. SUFFICES ASSUME Inv, Inv', \A p \in Slots : SnapInv(p), [Next]_txVars
     PROVE  \A p \in Slots : SnapInv(p)'
  OBVIOUS
<1>1. CASE Passing
  BY <1>1, PassingKeeps
<1>2. ASSUME NEW s \in Slots, Start(s) PROVE \A p \in Slots : SnapInv(p)'
  <2>1. /\ Onward /\ image' = image /\ SnapInv(s)'
        /\ \A p \in Slots \ {s} : SnapPasses(p)
    BY <1>2, StartSees
  <2>2. ASSUME NEW p \in Slots \ {s} PROVE SnapInv(p)'
    BY <2>1, <2>2, SnapOnward
  <2>. QED
    BY <2>1, <2>2
<1>3. ASSUME NEW s \in Slots, NEW r \in Rows,
             Insert(s, r) \/ \E del \in BOOLEAN : UpdateOrDelete(s, r, del)
      PROVE  \A p \in Slots : SnapInv(p)'
  <2>1. PICK d \in {0, 1}, v \in Vers : Writes(s, r, d, v)
    BY <1>3, WriteIs
  <2>. QED
    BY <2>1, WriteReads
<1>4. CASE Sweep
  <2>1. \A p \in Slots : slots'[p].snapshot = Latest
    BY <1>4 DEF Sweep
  <2>. QED
    BY <2>1 DEF SnapInv
<1>5. CASE Crash
  BY <1>5, CrashForgets
<1>. QED
  BY <1>1, <1>2, <1>3, <1>4, <1>5, StepIs

LEMMA OverNext ==
    ASSUME Ordinary, "deadHead" \notin Beyond
    PROVE  Inv /\ Inv' /\ OverInv /\ [Next]_txVars => OverInv'
<1>. SUFFICES ASSUME Inv, Inv', OverInv, [Next]_txVars PROVE OverInv'
  OBVIOUS
<1>1. CASE Passing
  BY <1>1, PassingKeeps
<1>2. ASSUME NEW s \in Slots, Start(s) PROVE OverInv'
  <2>1. Onward /\ image' = image /\ \A p \in Slots : IdsPass(p)
    BY <1>2, StartSees
  <2>2. ASSUME NEW p \in Slots, NEW r \in Rows
        PROVE  OverKnown(image'.tip, image'.rows[r], Ids(slots'[p]), slots'[p].snapshot)
    BY <2>1, OverOnward DEF OverInv
  <2>. QED
    BY <2>2 DEF OverInv
<1>3. ASSUME NEW s \in Slots, NEW r \in Rows,
             Insert(s, r) \/ \E del \in BOOLEAN : UpdateOrDelete(s, r, del)
      PROVE  OverInv'
  <2>1. PICK d \in {0, 1}, v \in Vers : Writes(s, r, d, v)
    BY <1>3, WriteIs
  <2>. QED
    BY <2>1, WriteOvers
<1>4. CASE Sweep
  BY <1>4, SweepOvers
<1>5. CASE Crash
  BY <1>5, CrashForgets
<1>. QED
  BY <1>1, <1>2, <1>3, <1>4, <1>5, StepIs

LEMMA InitForgets == Init => OverInv /\ \A p \in Slots : SnapInv(p)
<1>. SUFFICES ASSUME Init PROVE OverInv /\ \A p \in Slots : SnapInv(p)
  OBVIOUS
<1>1. \A p \in Slots : slots[p] = Idle
  BY DEF Init
<1>2. Ids(Idle) = {} /\ Idle.snapshot = Latest
  BY IdleIs DEF Idle
<1>. QED
  BY <1>1, <1>2 DEF OverInv, OverKnown, Over, SnapInv

(* A snapshot transaction reads throughout what it read when it began, but *)
(* for its own work: whatever others commit, roll back, prepare or         *)
(* resolve, whichever flush fails, and across its own COMMIT RETAIN        *)
(* (Snapshot::capture, visible_version_2pc_prefix), if no sweep comes      *)
(* beside it.                                                              *)
THEOREM RepeatableReadHolds ==
    ASSUME Ordinary, "sweepBeside" \notin Beyond
    PROVE  Spec => []RepeatableRead
<1>. DEFINE Repeats == \A p \in Slots : SnapInv(p)
<1>1. Init => Repeats
  BY InitForgets
<1>2. Inv /\ Inv' /\ Repeats /\ [Next]_txVars => Repeats'
  BY SnapNext
<1>3. Repeats => RepeatableRead
  BY DEF SnapInv, RepeatableRead, Bare
<1>4. Spec => []Inv
  BY InvHolds
<1>. HIDE DEF Repeats
<1>. QED
  BY <1>1, <1>2, <1>3, <1>4, PTL DEF Spec

LEMMA OverIsSeen ==
    ASSUME Inv, OverInv
    PROVE  WritesOverWhatItSees
<1>. SUFFICES ASSUME NEW s \in Slots, NEW r \in Rows
     PROVE  LET chain == image.rows[r]
                behind == {i \in DOMAIN chain :
                              /\ chain[i].tx \notin AllTx(s)
                              /\ StateOf(image.tip, chain[i].tx) # "Dead"
                              /\ \E j \in 1..i : chain[j].tx \in AllTx(s)}
            IN  behind # {} =>
                    LET t == chain[Least(behind)].tx
                    IN  /\ StateOf(image.tip, t) = "Committed"
                        /\ slots[s].snapshot = Latest \/ Sees(slots[s].snapshot, t)
  BY DEF WritesOverWhatItSees
<1>. DEFINE chain == image.rows[r]
            own == Ids(slots[s])
            tip == image.tip
            snap == slots[s].snapshot
            behind == {i \in DOMAIN chain :
                          /\ chain[i].tx \notin own
                          /\ StateOf(tip, chain[i].tx) # "Dead"
                          /\ \E j \in 1..i : chain[j].tx \in own}
            l == Least(behind)
<1>1. /\ Len(chain) \in Nat /\ DOMAIN chain = 1..Len(chain)
      /\ \A i \in 1..Len(chain) : chain[i].tx \in TxId /\ chain[i].tx # 0
  <2>1. chain \in Seq(Vers)
    BY NumberedIs DEF Inv, Numbers
  <2>. HIDE DEF chain
  <2>2. \A i \in 1..Len(chain) : chain[i] \in Vers
    BY <2>1, ElementOfSeq
  <2>. QED
    BY <2>1, <2>2, LenProperties, TxIds DEF Vers
<1>2. AllTx(s) = own
  BY AllTxIs
<1>3. OverKnown(tip, chain, own, snap)
  BY DEF OverInv
<1>. HIDE DEF chain, own, tip, snap
<1>4. ASSUME behind # {}
      PROVE  /\ StateOf(tip, chain[l].tx) = "Committed"
             /\ snap = Latest \/ Sees(snap, chain[l].tx)
  <2>1. l \in behind /\ \A k \in behind : l <= k
    <3>1. behind \in SUBSET Nat
      BY <1>1
    <3>. HIDE DEF behind
    <3>. QED
      BY <1>4, <3>1, LeastIsLeast
  <2>. HIDE DEF l
  <2>2. /\ l \in 1..Len(chain) /\ chain[l].tx \notin own /\ tip[chain[l].tx] # "Dead"
        /\ \E j \in 1..l : chain[j].tx \in own
    BY <1>1, <2>1 DEF StateOf
  <2>3. PICK j \in 1..l : chain[j].tx \in own
    BY <2>2
  <2>4. j \in 1..Len(chain) /\ j < l
    BY <1>1, <2>2, <2>3
  <2>5. ASSUME NEW k \in 1..Len(chain), j < k, k < l
        PROVE  chain[k].tx \in own \/ tip[chain[k].tx] = "Dead"
    <3>1. k \notin behind /\ j \in 1..k
      BY <1>1, <2>1, <2>2, <2>4, <2>5
    <3>. QED
      BY <1>1, <2>3, <3>1 DEF StateOf
  <2>6. Over(tip, chain, own, j, l)
    BY <2>2, <2>3, <2>4, <2>5 DEF Over
  <2>7. Known(tip, snap, chain[l].tx)
    BY <1>3, <2>2, <2>4, <2>6 DEF OverKnown
  <2>. QED
    BY <1>1, <2>2, <2>7 DEF Known, StateOf
<1>. QED
  BY <1>2, <1>4 DEF chain, own, tip, snap, l

(* Nobody overwrites what it has not seen: behind the versions of an open  *)
(* transaction stands, but for dead ones, a committed one that its         *)
(* snapshot sees - no lost update, whatever savepoint was undone, whatever *)
(* flush failed and whatever the sweep took out (blocking_transaction,     *)
(* snapshot_conflict), if no write goes over a dead head that hides        *)
(* another version.                                                        *)
THEOREM WritesOverWhatItSeesHolds ==
    ASSUME Ordinary, "deadHead" \notin Beyond
    PROVE  Spec => []WritesOverWhatItSees
<1>1. Init => OverInv
  BY InitForgets
<1>2. Inv /\ Inv' /\ OverInv /\ [Next]_txVars => OverInv'
  BY OverNext
<1>3. Inv /\ OverInv => WritesOverWhatItSees
  BY OverIsSeen
<1>4. Spec => []Inv
  BY InvHolds
<1>. QED
  BY <1>1, <1>2, <1>3, <1>4, PTL DEF Spec

-------------------------------------------------------------------------------
(* What a crash leaves.  A reader without a snapshot counts what is        *)
(* committed; a version that is not may be put in front of a chain.        *)
Reads(tip, chain) == Visible(tip, {}, Latest, chain)

LEMMA TxOf ==
    ASSUME NEW chain \in Seq(Vers), NEW i \in 1..Len(chain)
    PROVE  chain[i] \in Vers /\ chain[i].tx \in TxId
<1>1. chain[i] \in Vers
  BY ElementOfSeq
<1>. QED
  BY <1>1 DEF Vers

LEMMA CountedNow ==
    ASSUME NEW tip, NEW chain \in Seq(Vers)
    PROVE  Counted(tip, {}, Latest, chain) = {i \in 1..Len(chain) : tip[chain[i].tx] = "Committed"}
<1>1. DOMAIN chain = 1..Len(chain)
  BY LenProperties
<1>2. ASSUME NEW i \in 1..Len(chain)
      PROVE  Counts(tip, {}, Latest, chain[i].tx) <=> tip[chain[i].tx] = "Committed"
  <2>1. chain[i].tx # 0
    BY TxOf, TxIds
  <2>. QED
    BY <2>1 DEF Counts, StateOf
<1>. QED
  BY <1>1, <1>2 DEF Counted

LEMMA SameReads ==
    ASSUME NEW tip, NEW was, NEW chain \in Seq(Vers),
           \A t \in TxId : tip[t] = "Committed" <=> was[t] = "Committed"
    PROVE  Reads(tip, chain) = Reads(was, chain)
<1>1. \A i \in 1..Len(chain) :
         tip[chain[i].tx] = "Committed" <=> was[chain[i].tx] = "Committed"
  BY TxOf
<1>2. /\ Counted(tip, {}, Latest, chain) = {i \in 1..Len(chain) : tip[chain[i].tx] = "Committed"}
      /\ Counted(was, {}, Latest, chain) = {i \in 1..Len(chain) : was[chain[i].tx] = "Committed"}
  BY CountedNow
<1>3. Counted(tip, {}, Latest, chain) = Counted(was, {}, Latest, chain)
  BY <1>1, <1>2
<1>. QED
  BY <1>3 DEF Reads, Visible

(* a without its first k versions is b without its first e, and of these   *)
(* none is committed.                                                      *)
Shifted(a, b, k, e) ==
    /\ k \in Nat /\ e \in Nat /\ k <= Len(a) /\ e <= Len(b)
    /\ Len(a) + e = Len(b) + k
    /\ \A i \in (k + 1)..Len(a) : a[i] = b[(i - k) + e]

LEMMA ReadsBelow ==
    ASSUME NEW tip, NEW a \in Seq(Vers), NEW b \in Seq(Vers), NEW k, NEW e, Shifted(a, b, k, e),
           \A i \in 1..k : tip[a[i].tx] # "Committed",
           \A i \in 1..e : tip[b[i].tx] # "Committed"
    PROVE  Reads(tip, a) = Reads(tip, b)
<1>. DEFINE A == Counted(tip, {}, Latest, a)
            B == Counted(tip, {}, Latest, b)
<1>1. /\ Len(a) \in Nat /\ Len(b) \in Nat /\ k \in Nat /\ e \in Nat
      /\ Len(a) + e = Len(b) + k /\ k <= Len(a) /\ e <= Len(b)
  BY LenProperties DEF Shifted
<1>2. /\ A = {i \in 1..Len(a) : tip[a[i].tx] = "Committed"}
      /\ B = {i \in 1..Len(b) : tip[b[i].tx] = "Committed"}
  BY CountedNow
<1>. HIDE DEF A, B
<1>3. ASSUME NEW i \in A PROVE (i - k) + e \in B /\ a[i] = b[(i - k) + e] /\ i > k
  <2>1. i \in 1..Len(a) /\ ~(i \in 1..k)
    BY <1>2
  <2>2. i \in (k + 1)..Len(a) /\ (i - k) + e \in 1..Len(b) /\ i > k
    BY <1>1, <2>1
  <2>3. a[i] = b[(i - k) + e]
    BY <2>2 DEF Shifted
  <2>. QED
    BY <1>2, <2>2, <2>3
<1>4. ASSUME NEW j \in B PROVE (j - e) + k \in A /\ j > e
  <2>. DEFINE i == (j - e) + k
  <2>1. j \in 1..Len(b) /\ ~(j \in 1..e)
    BY <1>2
  <2>2. i \in (k + 1)..Len(a) /\ i \in 1..Len(a) /\ (i - k) + e = j /\ j > e
    BY <1>1, <2>1
  <2>. HIDE DEF i
  <2>3. a[i] = b[(i - k) + e]
    BY <2>2 DEF Shifted
  <2>4. i \in A
    BY <1>2, <2>2, <2>3
  <2>. QED
    BY <2>2, <2>4 DEF i
<1>5. CASE A = {}
  <2>1. B = {}
    BY <1>4, <1>5
  <2>. QED
    BY <1>5, <2>1 DEF Reads, Visible, A, B
<1>6. CASE A # {}
  <2>1. A \in SUBSET Nat /\ B \in SUBSET Nat /\ B # {}
    <3>1. PICK i \in A : TRUE
      BY <1>6
    <3>2. (i - k) + e \in B
      BY <1>3, <3>1
    <3>3. A \subseteq Nat /\ B \subseteq Nat
      BY <1>1, <1>2
    <3>. QED
      BY <3>2, <3>3
  <2>. DEFINE x == Least(A)
              y == Least(B)
  <2>2. x \in A /\ (\A i \in A : x <= i) /\ y \in B /\ (\A j \in B : y <= j)
    BY <1>6, <2>1, LeastIsLeast
  <2>. HIDE DEF x, y
  <2>3. (x - k) + e \in B /\ a[x] = b[(x - k) + e] /\ (y - e) + k \in A
    BY <1>3, <1>4, <2>2
  <2>4. y <= (x - k) + e /\ x <= (y - e) + k
    BY <2>2, <2>3
  <2>5. x \in Nat /\ y \in Nat
    BY <2>1, <2>2
  <2>6. (x - k) + e = y
    BY <1>1, <2>4, <2>5
  <2>7. a[x] = b[y]
    BY <2>3, <2>6
  <2>. QED
    BY <1>6, <2>1, <2>7 DEF Reads, Visible, A, B, x, y
<1>. QED
  BY <1>5, <1>6

(* What the sweep takes out, nobody reads who counts what it counts as     *)
(* committed and nothing it backs out.                                     *)
LEMMA SweepReads ==
    ASSUME NEW tip, NEW was, NEW held, NEW chain \in Seq(Vers),
           \A i \in 1..Len(chain) :
              /\ was[chain[i].tx] = "Committed" => tip[chain[i].tx] = "Committed"
              /\ BackedOut(was, held, chain[i].tx) => tip[chain[i].tx] # "Committed"
    PROVE  Reads(tip, SweepChain(was, held, chain)) = Reads(tip, chain)
<1>. DEFINE K == Remaining(was, held, chain)
            C == Counted(tip, {}, Latest, chain)
            new == SweepChain(was, held, chain)
            l == Least(K)
<1>1. Len(chain) \in Nat /\ DOMAIN chain = 1..Len(chain)
  BY LenProperties
<1>2. /\ C = {i \in 1..Len(chain) : tip[chain[i].tx] = "Committed"}
      /\ K = {i \in 1..Len(chain) : ~BackedOut(was, held, chain[i].tx)}
  BY <1>1, CountedNow DEF Remaining
<1>3. C \subseteq K
  BY <1>2
<1>4. Reads(tip, <<>>) = NoRow
  BY DEF Reads, Visible, Counted
<1>. HIDE DEF C, K, new
<1>5. CASE K = {}
  <2>1. C = {}
    BY <1>3, <1>5
  <2>2. new = <<>>
    BY <1>5 DEF SweepChain, K, new
  <2>3. Reads(tip, chain) = NoRow
    BY <2>1 DEF Reads, Visible, C
  <2>. QED
    BY <1>4, <2>2, <2>3 DEF new
<1>6. CASE K # {}
  <2>1. K \in SUBSET Nat
    BY <1>1, <1>2
  <2>2. l \in K /\ \A j \in K : l <= j
    BY <1>6, <2>1, LeastIsLeast
  <2>. DEFINE head == chain[l]
  <2>3. l \in 1..Len(chain) /\ head \in Vers /\ head.tx \in TxId /\ l \in Nat
    BY <1>2, <2>2, TxOf, <1>1
  <2>4. StateOf(was, head.tx) = was[head.tx]
    BY <2>3, TxIds DEF StateOf
  <2>5. new = IF was[head.tx] = "Committed"
              THEN IF head.del THEN <<>> ELSE <<head>>
              ELSE SubSeq(chain, l, Len(chain))
    BY <1>6, <2>4 DEF SweepChain, K, new
  <2>. HIDE DEF l
  <2>6. CASE was[head.tx] = "Committed"
    <3>1. tip[head.tx] = "Committed"
      BY <2>3, <2>6
    <3>2. l \in C /\ \A j \in C : l <= j
      BY <1>2, <1>3, <2>2, <2>3, <3>1
    <3>3. C \in SUBSET Nat /\ C # {}
      BY <1>3, <2>1, <3>2
    <3>4. Least(C) = l
      <4>. DEFINE m == Least(C)
      <4>1. m \in C /\ \A j \in C : m <= j
        BY <3>3, LeastIsLeast
      <4>. HIDE DEF m
      <4>2. m \in Nat /\ m <= l /\ l <= m
        BY <3>2, <3>3, <4>1
      <4>3. m = l
        BY <2>3, <4>2
      <4>. QED
        BY <4>3 DEF m
    <3>5. Reads(tip, chain) = IF head.del THEN NoRow ELSE head
      BY <3>3, <3>4 DEF Reads, Visible, C
    <3>6. CASE head.del
      BY <1>4, <2>5, <2>6, <3>5, <3>6 DEF new
    <3>7. CASE ~head.del
      <4>. DEFINE one == <<head>>
                  O == Counted(tip, {}, Latest, one)
      <4>1. new = one
        BY <2>5, <2>6, <3>7
      <4>2. one \in Seq(Vers) /\ Len(one) = 1 /\ one[1] = head
        BY <2>3
      <4>. HIDE DEF one, head
      <4>3. O = {1}
        <5>1. O = {i \in 1..Len(one) : tip[one[i].tx] = "Committed"}
          BY <4>2, CountedNow
        <5>2. \A i : i \in 1..Len(one) <=> i = 1
          BY <4>2
        <5>. HIDE DEF O
        <5>. QED
          BY <3>1, <4>2, <5>1, <5>2
      <4>. HIDE DEF O
      <4>4. Least(O) = 1
        <5>1. O \in SUBSET Nat /\ O # {}
          BY <4>3
        <5>2. Least(O) \in O
          BY <5>1, LeastIsLeast
        <5>. QED
          BY <4>3, <5>2
      <4>5. Reads(tip, one) = head
        BY <3>7, <4>2, <4>3, <4>4 DEF Reads, Visible, O
      <4>. QED
        BY <3>5, <3>7, <4>1, <4>5 DEF new
    <3>. QED
      BY <3>6, <3>7
  <2>7. CASE was[head.tx] # "Committed"
    <3>. DEFINE b == SubSeq(chain, l, Len(chain))
                k == l - 1
    <3>1. new = b
      BY <2>5, <2>7
    <3>2. \A j \in l..Len(chain) : chain[j] \in Vers
      BY <1>1, <2>3, ElementOfSeq
    <3>3. /\ b \in Seq(Vers)
          /\ Len(b) = IF l <= Len(chain) THEN Len(chain) - l + 1 ELSE 0
          /\ \A i \in 1..(Len(chain) - l + 1) : b[i] = chain[l + i - 1]
      BY <1>1, <2>3, <3>2, SubSeqProperties
    <3>4. k \in Nat /\ l = k + 1 /\ k <= Len(chain) /\ Len(b) = Len(chain) - k
      BY <1>1, <2>3, <3>3
    <3>. HIDE DEF b, k
    <3>5. ASSUME NEW i \in (k + 1)..Len(chain) PROVE chain[i] = b[(i - k) + 0]
      <4>. DEFINE j == (i - k) + 0
      <4>1. j \in 1..(Len(chain) - l + 1) /\ l + j - 1 = i
        BY <1>1, <3>4, <3>5
      <4>. HIDE DEF j
      <4>2. b[j] = chain[l + j - 1]
        BY <3>3, <4>1
      <4>. QED
        BY <4>1, <4>2 DEF j
    <3>6. Shifted(chain, b, k, 0)
      BY <1>1, <3>4, <3>5 DEF Shifted
    <3>7. \A i \in 1..k : tip[chain[i].tx] # "Committed"
      <4>1. ASSUME NEW i \in 1..k, tip[chain[i].tx] = "Committed" PROVE FALSE
        <5>1. i \in 1..Len(chain) /\ ~(l <= i)
          BY <1>1, <3>4, <4>1
        <5>2. i \in K
          BY <1>2, <1>3, <4>1, <5>1
        <5>. QED
          BY <2>2, <5>1, <5>2
      <4>. QED
        BY <4>1
    <3>8. Reads(tip, chain) = Reads(tip, b)
      <4>1. \A i \in 1..0 : tip[b[i].tx] # "Committed"
        OBVIOUS
      <4>. QED
        BY <3>3, <3>6, <3>7, <4>1, ReadsBelow
    <3>. QED
      BY <3>1, <3>8 DEF new
  <2>. QED
    BY <2>6, <2>7
<1>. QED
  BY <1>5, <1>6

(* Which ids may yet come to be committed: not those that are dead, nor    *)
(* the active ones nobody answers for, unless a flush that failed left     *)
(* them committed in the file.                                             *)
Hopeless(t) ==
    t <= image.next /\ BackedOut(image.tip, Held, t) /\ disk.tip[t] # "Committed"

Futures == [TxId -> TxState]

Future(tip) ==
    \A t \in TxId : /\ image.tip[t] = "Committed" => tip[t] = "Committed"
                    /\ Hopeless(t) => tip[t] # "Committed"

(* What may yet be committed after a step might have been before it.       *)
Narrows == \A tip \in Futures : Future(tip)' => Future(tip)

Fits(ids, state) ==
    /\ Changes(ids, state)
    /\ \/ state = "Dead"
       \/ \A t \in ids : t \in Held \/ image.tip[t] = "Limbo" \/ t > image.next

LEMMA FitsNarrow ==
    ASSUME Inv, Inv', Fresh, NEW ids, NEW state, Fits(ids, state)
    PROVE  Narrows /\ Onward
<1>. DEFINE n == image.next
            m == image'.next
<1>1. /\ n \in Nat /\ m \in Nat /\ n <= m
  BY NumberedIs DEF Inv, Numbers, Numbered, Fits, Changes
<1>2. /\ \A t \in ids : image.tip[t] \in Open
      /\ \A t \in TxId : /\ image'.tip[t] # image.tip[t] => t \in ids /\ image'.tip[t] = state
                         /\ disk'.tip[t] # disk.tip[t] =>
                               disk'.tip[t] = IF t \in ids THEN state ELSE image.tip[t]
      /\ state = "Dead" \/ \A t \in ids : t \in Held \/ image.tip[t] = "Limbo" \/ t > n
  BY DEF Fits, Changes
<1>. HIDE DEF n, m
<1>3. ASSUME NEW t \in TxId, Hopeless(t)
      PROVE  Hopeless(t)'
  <2>1. /\ t <= n /\ t \in Nat /\ disk.tip[t] # "Committed"
        /\ image.tip[t] = "Dead" \/ (image.tip[t] = "Active" /\ t \notin Held)
    BY <1>3, TxIds DEF Hopeless, BackedOut, StateOf, n
  <2>2. t <= m /\ ~(t > n)
    BY <1>1, <2>1
  <2>3. t \in ids => state = "Dead"
    BY <1>2, <2>1, <2>2 DEF Open
  <2>4. t \notin Held => t \notin Held'
    BY <2>2 DEF Fresh, n
  <2>5. image'.tip[t] = "Dead" \/ (image'.tip[t] = "Active" /\ t \notin Held')
    BY <1>2, <2>1, <2>3, <2>4
  <2>6. disk'.tip[t] # "Committed"
    BY <1>2, <2>1, <2>3
  <2>. QED
    BY <2>2, <2>5, <2>6, TxIds DEF Hopeless, BackedOut, StateOf, m
<1>4. Onward
  BY <1>2 DEF Onward
<1>5. ASSUME NEW t \in TxId, image.tip[t] = "Committed" PROVE image'.tip[t] = "Committed"
  BY <1>4, <1>5 DEF Onward, Open
<1>6. ASSUME NEW tip \in Futures, Future(tip)' PROVE Future(tip)
  BY <1>3, <1>5, <1>6 DEF Future
<1>. QED
  BY <1>4, <1>6 DEF Narrows

(* Every step but a write, a sweep and a crash: the rows of the image stay *)
(* and so does the file, or a flush of these rows comes through or fails.  *)
Kept ==
    /\ disk' = disk /\ flushed' = flushed
    /\ \A t \in TxId : image'.tip[t] = "Committed" => image.tip[t] = "Committed"

(* Nothing that is dead in the image comes to be committed in the file.    *)
NoneRises ==
    \A t \in TxId : image'.tip[t] = "Dead" /\ disk'.tip[t] = "Committed" =>
                        image.tip[t] = "Dead" /\ disk.tip[t] = "Committed"

Calm ==
    /\ image'.rows = image.rows /\ Narrows /\ Onward /\ NoneRises
    /\ \/ Kept
       \/ \E work : FlushAndInstall(work)
       \/ \E work : FlushFails(work) /\ work.rows = image.rows

LEMMA InstalledRises ==
    ASSUME Inv, NEW work, FlushAndInstall(work)
    PROVE  NoneRises
<1>1. image' = work
  BY DEF FlushAndInstall
<1>2. ASSUME NEW t \in TxId, work.tip[t] = "Dead" PROVE disk'.tip[t] # "Committed"
  <2>1. \/ disk'.tip[t] = work.tip[t]
        \/ disk'.tip[t] = disk.tip[t] /\ work.tip[t] = flushed.tip[t]
    BY InstalledIs
  <2>2. flushed.tip[t] = "Dead" => disk.tip[t] = "Dead"
    BY DEF Inv, FilesInv, Tips, Open
  <2>. QED
    BY <1>2, <2>1, <2>2
<1>. QED
  BY <1>1, <1>2 DEF NoneRises

LEMMA FailedRises ==
    ASSUME NEW ids, NEW state, Changes(ids, state), image' = image
    PROVE  NoneRises
BY DEF Changes, NoneRises, Open

LEMMA PassFresh ==
    ASSUME Inv', \A p \in Slots : IdsPass(p)
    PROVE  Fresh
<1>1. Held' = UNION {Ids(slots'[p]) : p \in Slots} /\ Held = UNION {Ids(slots[p]) : p \in Slots}
  BY HeldIs, HeldNext
<1>2. ASSUME NEW p \in Slots, NEW t \in Ids(slots'[p]) PROVE t \in Held \/ t > image.next
  <2>1. slots'[p] \in TxSlots
    BY DEF Inv, Types
  <2>2. t \in TxId
    BY <1>2, <2>1, IdsType
  <2>3. t \in Ids(slots[p]) \/ t > image.next
    BY <1>2, <2>2 DEF IdsPass
  <2>. QED
    BY <1>1, <2>3
<1>. QED
  BY <1>1, <1>2 DEF Fresh

LEMMA SameCalm ==
    ASSUME Inv, Inv', \A p \in Slots : IdsPass(p), UNCHANGED <<image, flushed, disk>>
    PROVE  Calm
<1>1. Fresh
  BY PassFresh
<1>2. Fits({}, "Dead")
  BY SameFiles DEF Inv, Fits
<1>3. Narrows /\ Onward
  BY <1>1, <1>2, FitsNarrow
<1>. QED
  BY <1>3 DEF Calm, Kept, NoneRises

LEMMA EndsCalm ==
    ASSUME Inv, Inv', \A p \in Slots : IdsPass(p),
           NEW ids \in SUBSET TxId, NEW state \in {"Committed", "Dead"},
           \A t \in ids : /\ t <= image.next /\ image.tip[t] \in Open
                          /\ t \in Held \/ image.tip[t] = "Limbo",
           \/ FlushAndInstall(EndState(image, ids, state))
           \/ FlushFails(EndState(image, ids, state))
    PROVE  Calm
<1>. DEFINE work == EndState(image, ids, state)
<1>1. Fits(ids, state)
  BY EndFiles DEF Fits
<1>2. Narrows /\ Onward
  BY <1>1, PassFresh, FitsNarrow
<1>3. work.rows = image.rows
  BY DEF EndState, SetState
<1>. HIDE DEF work
<1>4. CASE FlushAndInstall(work)
  <2>1. image' = work
    BY <1>4 DEF FlushAndInstall
  <2>. QED
    BY <1>2, <1>3, <1>4, <2>1, InstalledRises DEF Calm
<1>5. CASE FlushFails(work)
  <2>1. image' = image
    BY <1>5 DEF FlushFails
  <2>2. NoneRises
    BY <1>1, <2>1, FailedRises DEF Fits
  <2>. QED
    BY <1>2, <1>3, <1>5, <2>1, <2>2 DEF Calm
<1>. QED
  BY <1>4, <1>5 DEF work

LEMMA EndCalm ==
    ASSUME Inv, Inv', NEW s \in Slots, NEW retain \in BOOLEAN,
           Commit(s, retain) \/ CommitFails(s, retain) \/ Rollback(s, retain)
    PROVE  Calm
<1>. DEFINE ids == Ids(slots[s])
<1>1. \A p \in Slots : IdsPass(p)
  BY EndPass DEF Passing
<1>2. AllTx(s) = ids /\ CommitIds(s) = ids
  BY AllTxIs DEF CommitIds
<1>3. ids \in SUBSET TxId /\ \A t \in ids : t <= image.next /\ image.tip[t] \in Open /\ t \in Held
  BY HeldFacts
<1>. HIDE DEF ids
<1>4. \/ UNCHANGED <<image, flushed, disk>>
      \/ \E state \in {"Committed", "Dead"} : \/ FlushAndInstall(EndState(image, ids, state))
                                              \/ FlushFails(EndState(image, ids, state))
  BY <1>2 DEF Commit, CommitFails, Rollback
<1>. QED
  BY <1>1, <1>3, <1>4, SameCalm, EndsCalm

LEMMA DetachCalm ==
    ASSUME Inv, Inv', NEW s \in Slots, Detach(s)
    PROVE  Calm
<1>. DEFINE ids == Ids(slots[s])
<1>1. \A p \in Slots : IdsPass(p)
  BY DetachPass DEF Passing
<1>2. AllTx(s) = ids
  BY AllTxIs
<1>3. ids \in SUBSET TxId /\ \A t \in ids : t <= image.next /\ image.tip[t] \in Open /\ t \in Held
  BY HeldFacts
<1>. HIDE DEF ids
<1>4. \/ UNCHANGED <<image, flushed, disk>>
      \/ FlushAndInstall(EndState(image, ids, "Dead")) \/ FlushFails(EndState(image, ids, "Dead"))
  BY <1>2 DEF Detach
<1>. QED
  BY <1>1, <1>3, <1>4, SameCalm, EndsCalm

LEMMA ResolveCalm ==
    ASSUME Inv, Inv', NEW s \in Slots, NEW state \in {"Committed", "Dead"}, Resolve(s, state)
    PROVE  Calm
<1>. DEFINE t == reconnected[s]
            ids == {t}
<1>1. \A p \in Slots : IdsPass(p)
  BY ResolvePass DEF Passing
<1>2. t \in TxId /\ t <= image.next /\ image.tip[t] = "Limbo"
  <2>1. t # 0 /\ t \in 0..MaxTx
    BY DEF Resolve, Inv, Types
  <2>. QED
    BY <2>1 DEF Inv, ReconInv, TxId
<1>3. FlushAndInstall(EndState(image, ids, state)) \/ FlushFails(EndState(image, ids, state))
  BY DEF Resolve
<1>4. /\ ids \in SUBSET TxId
      /\ \A u \in ids : /\ u <= image.next /\ image.tip[u] \in Open
                        /\ u \in Held \/ image.tip[u] = "Limbo"
  BY <1>2 DEF Open
<1>. HIDE DEF ids
<1>. QED
  BY <1>1, <1>3, <1>4, EndsCalm

LEMMA RollbackToCalm ==
    ASSUME Inv, Inv', NEW s \in Slots, NEW i \in 1..MaxMarks, RollbackTo(s, i),
           "sideTimeout" \notin Beyond
    PROVE  Calm
<1>. DEFINE ids == Killed(s, i)
            work == EndState(image, ids, "Dead")
<1>1. /\ i \in 1..(Inner(s) - 1) /\ InstallDirty(work)
  BY DEF RollbackTo, EndState, Killed
<1>2. ids \subseteq Ids(slots[s]) /\ ids \in SUBSET TxId
  <2>1. slots[s] \in TxSlots /\ WindowInv(slots[s]) /\ i \in 1..(Len(slots[s].windows) - 1)
    BY <1>1, HeldFacts DEF Inner
  <2>2. ids = LaterIds(slots[s].windows, i)
    BY DEF Killed, Undone, Inner, LaterIds
  <2>. HIDE DEF ids
  <2>. QED
    BY <2>1, <2>2, BackToIs
<1>. HIDE DEF ids
<1>3. \A t \in ids : t <= image.next /\ image.tip[t] \in Open /\ image.tip[t] = "Active"
  <2>1. Works(s) /\ slots[s].prepared = FALSE
    BY HeldFacts DEF RollbackTo, Works, TxSlots
  <2>. QED
    BY <1>2, <2>1, HeldFacts DEF Inv, HeldInv
<1>4. Copy(work, ids, "Dead")
  BY <1>2, <1>3, EndCopy DEF Inv, TxState
<1>5. work.rows = image.rows
  BY DEF EndState, SetState
<1>. HIDE DEF work
<1>6. Fits(ids, "Dead")
  BY <1>1, <1>3, <1>4, DirtyFiles DEF Inv, Fits
<1>7. \A p \in Slots : IdsPass(p)
  BY RollbackToPass DEF Passing
<1>8. Narrows /\ Onward
  BY <1>6, <1>7, PassFresh, FitsNarrow
<1>9. image' = work /\ disk' = disk /\ flushed' = flushed
  BY <1>1 DEF InstallDirty
<1>10. \A t \in TxId : image'.tip[t] = "Committed" => image.tip[t] = "Committed"
  BY <1>6 DEF Fits, Changes
<1>11. NoneRises
  <2>1. \A t \in ids : disk.tip[t] # "Committed"
    BY <1>2 DEF Inv, HeldInv
  <2>. QED
    BY <1>6, <1>9, <2>1 DEF NoneRises, Fits, Changes
<1>. QED
  BY <1>5, <1>8, <1>9, <1>10, <1>11 DEF Calm, Kept

LEMMA PrepareCalm ==
    ASSUME Inv, Inv', NEW s \in Slots, Prepare(s) \/ PrepareFails(s),
           "manyInLimbo" \notin Beyond, "prepareFails" \notin Beyond
    PROVE  Calm
<1>. DEFINE tx == PrepareTx(s)
            work == PrepareWork(s)
<1>1. /\ OneIdOnly(s) /\ (slots[s].tx # 0 \/ image.next < MaxTx)
      /\ \/ FlushAndInstall(work)
         \/ FlushFails(work) /\ slots[s].tx # 0 /\ disk'.tip = disk.tip
  BY DEF Prepare, PrepareFails
<1>2. \A p \in Slots : IdsPass(p)
  BY PreparePass, PrepareFailsPass DEF Passing
<1>3. /\ Copy(work, {tx}, "Limbo") /\ work.rows = image.rows
      /\ slots[s].tx # 0 => work.next = image.next
  <2>1. Copy(work, {tx}, "Limbo") /\ (slots[s].tx # 0 => work.next = image.next)
    BY <1>1, PrepareCopy
  <2>2. image \in File /\ BeginActive(image).rows = image.rows
    BY NumberedIs DEF Inv, Numbers, BeginActive, SetState
  <2>. QED
    BY <2>1, <2>2 DEF PrepareWork, EndState, SetState
<1>4. tx \in Held \/ tx > image.next
  <2>1. IF slots[s].tx # 0 THEN tx \in Ids(slots[s]) ELSE tx = image.next + 1
    BY <1>1, PreparedIs
  <2>2. image.next \in Nat
    BY NumberedIs DEF Inv, Numbers
  <2>. QED
    BY <2>1, <2>2, HeldFacts
<1>. HIDE DEF tx, work
<1>5. Numbers /\ FilesInv
  BY DEF Inv
<1>6. CASE FlushAndInstall(work)
  <2>1. Fits({tx}, "Limbo") /\ image' = work
    BY <1>3, <1>4, <1>5, <1>6, FlushedFiles DEF Fits, FlushAndInstall
  <2>2. Narrows /\ Onward
    BY <1>2, <2>1, PassFresh, FitsNarrow
  <2>. QED
    BY <1>3, <1>6, <2>1, <2>2, InstalledRises DEF Calm
<1>7. CASE FlushFails(work) /\ slots[s].tx # 0 /\ disk'.tip = disk.tip
  <2>1. Fits({tx}, "Limbo") /\ image' = image
    BY <1>3, <1>4, <1>5, <1>7, FailedFiles DEF Fits, FlushFails
  <2>2. Narrows /\ Onward
    BY <1>2, <2>1, PassFresh, FitsNarrow
  <2>3. NoneRises
    BY <2>1, FailedRises DEF Fits
  <2>. QED
    BY <1>3, <1>7, <2>1, <2>2, <2>3 DEF Calm
<1>. QED
  BY <1>1, <1>6, <1>7

LEMMA CalmStep ==
    ASSUME Ordinary, Inv, Inv', [Next]_txVars
    PROVE  \/ Calm
           \/ \E s \in Slots, r \in Rows :
                 Insert(s, r) \/ \E del \in BOOLEAN : UpdateOrDelete(s, r, del)
           \/ Sweep
           \/ Crash
<1>0. /\ "sideTimeout" \notin Beyond /\ "prepareFails" \notin Beyond /\ "manyInLimbo" \notin Beyond
  BY DEF Ordinary
<1>1. ASSUME NEW s \in Slots,
             \/ Savepoint(s) \/ \E t \in TxId : Reconnect(s, t)
             \/ \E i \in 1..MaxMarks : Redeclare(s, i) \/ Release(s, i)
      PROVE Calm
  <2>1. \A p \in Slots : IdsPass(p)
    BY <1>1, MarksPass DEF Passing
  <2>2. UNCHANGED <<image, flushed, disk>>
    BY <1>1 DEF Savepoint, Reconnect, Redeclare, Release
  <2>. QED
    BY <2>1, <2>2, SameCalm
<1>2. ASSUME NEW s \in Slots, Start(s) PROVE Calm
  <2>1. \A p \in Slots : IdsPass(p)
    BY <1>2, StartSees
  <2>. QED
    BY <1>2, <2>1, SameCalm DEF Start
<1>3. ASSUME NEW s \in Slots, NEW i \in 1..MaxMarks, RollbackTo(s, i) PROVE Calm
  BY <1>0, <1>3, RollbackToCalm
<1>4. ASSUME NEW s \in Slots, NEW retain \in BOOLEAN,
             Commit(s, retain) \/ CommitFails(s, retain) \/ Rollback(s, retain)
      PROVE Calm
  BY <1>4, EndCalm
<1>5. ASSUME NEW s \in Slots, Prepare(s) \/ PrepareFails(s) PROVE Calm
  BY <1>0, <1>5, PrepareCalm
<1>6. ASSUME NEW s \in Slots, Detach(s) PROVE Calm
  BY <1>6, DetachCalm
<1>7. ASSUME NEW s \in Slots, NEW state \in {"Committed", "Dead"}, Resolve(s, state) PROVE Calm
  BY <1>7, ResolveCalm
<1>8. ASSUME UNCHANGED txVars PROVE Calm
  <2>1. UNCHANGED <<image, flushed, disk, slots>>
    BY <1>8 DEF txVars
  <2>2. \A p \in Slots : IdsPass(p)
    BY <2>1 DEF IdsPass
  <2>. QED
    BY <2>1, <2>2, SameCalm
<1>. QED
  BY <1>1, <1>2, <1>3, <1>4, <1>5, <1>6, <1>7, <1>8 DEF Next

-------------------------------------------------------------------------------
(* The rows of the file.  A row of the image is the row of the baseline    *)
(* with versions in front that are not committed, or with them in place of *)
(* its dead head; and as long as none of them is committed, the row of the *)
(* file reads like that of the baseline.                                   *)
Ahead(r, k, d) ==
    /\ d \in {0, 1}
    /\ Shifted(image.rows[r], flushed.rows[r], k, d)
    /\ \A i \in 1..k : image.tip[image.rows[r][i].tx] # "Committed"
    /\ d = 1 => k >= 1 /\ image.tip[flushed.rows[r][1].tx] = "Dead"

StandsIn(r, k) ==
    \A tip \in Futures :
        Future(tip) /\ (\A i \in 1..k : tip[image.rows[r][i].tx] # "Committed") =>
            Reads(tip, disk.rows[r]) = Reads(tip, flushed.rows[r])

RowInv(r) == \E k \in Nat, d \in {0, 1} : Ahead(r, k, d) /\ StandsIn(r, k)

DeadInv == \A t \in TxId : image.tip[t] = "Dead" => disk.tip[t] # "Committed"

SameRow(r) == Reads(disk.tip, disk.rows[r]) = Reads(disk.tip, image.rows[r])

LEMMA RowsType ==
    ASSUME Inv, NEW r \in Rows
    PROVE  /\ image.rows[r] \in Seq(Vers) /\ flushed.rows[r] \in Seq(Vers)
           /\ disk.rows[r] \in Seq(Vers)
BY NumberedIs DEF Inv, Numbers

LEMMA RowIds ==
    ASSUME Inv, NEW r \in Rows, NEW i \in 1..Len(image.rows[r])
    PROVE  image.rows[r][i].tx \in TxId /\ image.rows[r][i].tx <= image.next
BY RowsType, TxOf DEF Inv, FilesInv, Written

LEMMA DeadHopeless ==
    ASSUME DeadInv, NEW t \in TxId, t <= image.next, image.tip[t] = "Dead"
    PROVE  Hopeless(t)
BY TxIds DEF DeadInv, Hopeless, BackedOut, StateOf

LEMMA RowKept ==
    ASSUME Inv, NEW r \in Rows, image'.rows[r] = image.rows[r], Narrows, Onward, Kept, RowInv(r)
    PROVE  RowInv(r)'
<1>1. PICK k \in Nat, d \in {0, 1} : Ahead(r, k, d) /\ StandsIn(r, k)
  BY DEF RowInv
<1>2. Shifted(image.rows[r], flushed.rows[r], k, d)
  BY <1>1 DEF Ahead
<1>3. \A i \in 1..k : i \in 1..Len(image.rows[r])
  BY <1>2, RowsType, LenProperties DEF Shifted
<1>4. \A i \in 1..k : image'.tip[image'.rows[r][i].tx] # "Committed"
  <2>1. \A i \in 1..k : image.rows[r][i].tx \in TxId
    BY <1>3, RowIds
  <2>. QED
    BY <1>1, <2>1 DEF Ahead, Kept
<1>5. d = 1 => k >= 1 /\ image'.tip[flushed'.rows[r][1].tx] = "Dead"
  <2>1. ASSUME d = 1 PROVE flushed.rows[r][1].tx \in TxId
    <3>1. 1 \in 1..Len(flushed.rows[r])
      BY <1>2, <2>1, RowsType, LenProperties DEF Shifted
    <3>. QED
      BY <3>1, RowsType, TxOf
  <2>. QED
    BY <1>1, <2>1 DEF Ahead, Kept, Onward, Open
<1>6. Ahead(r, k, d)'
  BY <1>2, <1>4, <1>5 DEF Ahead, Kept
<1>7. StandsIn(r, k)'
  BY <1>1 DEF StandsIn, Narrows, Kept
<1>. QED
  BY <1>6, <1>7 DEF RowInv

(* Where image and baseline are one, and the file reads like them. *)
LEMMA RowSettled ==
    ASSUME NEW r \in Rows, Inv', image'.rows[r] = flushed'.rows[r], StandsIn(r, 0)'
    PROVE  RowInv(r)' /\ SameRow(r)'
<1>. DEFINE a == image'.rows[r]
<1>1. a \in Seq(Vers) /\ Len(a) \in Nat
  <2>1. a \in Seq(Vers)
    BY NumberedIs DEF Inv, Numbers, Numbered
  <2>. QED
    BY <2>1, LenProperties
<1>. HIDE DEF a
<1>2. Shifted(a, a, 0, 0)
  BY <1>1 DEF Shifted
<1>3. Ahead(r, 0, 0)'
  BY <1>2 DEF Ahead, a
<1>4. disk'.tip \in Futures
  BY NumberedIs DEF Inv, Numbers, Numbered, Futures
<1>5. PICK tip \in Futures : tip = disk'.tip
  BY <1>4
<1>6. Future(tip)'
  <2>1. ASSUME NEW t \in TxId, image'.tip[t] = "Committed" PROVE tip[t] = "Committed"
    BY <1>5, <2>1 DEF Inv, FilesInv, Tips, Open
  <2>. QED
    BY <1>5, <2>1 DEF Future, Hopeless
<1>7. SameRow(r)'
  <2>1. \A i \in 1..0 : FALSE
    OBVIOUS
  <2>2. Reads(tip, disk'.rows[r]) = Reads(tip, flushed'.rows[r])
    BY <1>6, <2>1 DEF StandsIn
  <2>. QED
    BY <1>5, <2>2 DEF SameRow
<1>. QED
  BY <1>3, <1>7 DEF RowInv

(* A flush that comes through leaves a row in the file as it was only      *)
(* where the row is that of the baseline: then none of what had been put   *)
(* in front of it may matter any more.                                     *)
LEMMA PutRow ==
    ASSUME NEW work, FlushAndInstall(work), NEW r \in Rows
    PROVE  /\ image' = work /\ flushed' = work
           /\ disk'.rows[r] = IF work.rows[r] # flushed.rows[r] THEN work.rows[r] ELSE disk.rows[r]
BY DEF FlushAndInstall, Put

LEMMA RowFlushed ==
    ASSUME Inv, Inv', Narrows, NEW r \in Rows, NEW work, FlushAndInstall(work),
           NEW k, StandsIn(r, k),
           work.rows[r] = flushed.rows[r] =>
               \A tip \in Futures :
                  Future(tip)' => \A i \in 1..k : tip[image.rows[r][i].tx] # "Committed"
    PROVE  RowInv(r)' /\ SameRow(r)'
<1>1. /\ image' = work /\ flushed' = work
      /\ disk'.rows[r] = IF work.rows[r] # flushed.rows[r] THEN work.rows[r] ELSE disk.rows[r]
  BY PutRow
<1>2. ASSUME NEW tip \in Futures, Future(tip)'
      PROVE  Reads(tip, disk'.rows[r]) = Reads(tip, flushed'.rows[r])
  <2>1. CASE work.rows[r] # flushed.rows[r]
    BY <1>1, <2>1
  <2>2. CASE work.rows[r] = flushed.rows[r]
    <3>1. Future(tip) /\ \A i \in 1..k : tip[image.rows[r][i].tx] # "Committed"
      BY <1>2, <2>2 DEF Narrows
    <3>2. Reads(tip, disk.rows[r]) = Reads(tip, flushed.rows[r])
      BY <3>1 DEF StandsIn
    <3>. QED
      BY <1>1, <2>2, <3>2
  <2>. QED
    BY <2>1, <2>2
<1>3. StandsIn(r, 0)'
  BY <1>2 DEF StandsIn
<1>. QED
  BY <1>1, <1>3, RowSettled

LEMMA RowEnded ==
    ASSUME Inv, Inv', DeadInv, Narrows, NEW r \in Rows, NEW work, FlushAndInstall(work),
           image'.rows = image.rows, RowInv(r)
    PROVE  RowInv(r)' /\ SameRow(r)'
<1>1. PICK k \in Nat, d \in {0, 1} : Ahead(r, k, d) /\ StandsIn(r, k)
  BY DEF RowInv
<1>. DEFINE chain == image.rows[r]
            base == flushed.rows[r]
<1>2. ASSUME work.rows[r] = base, NEW tip \in Futures, Future(tip)', NEW i \in 1..k
      PROVE  tip[chain[i].tx] # "Committed"
  <2>1. chain = base
    BY <1>2, PutRow
  <2>2. Len(base) \in Nat /\ Shifted(chain, base, k, d)
    BY <1>1, RowsType, LenProperties DEF Ahead
  <2>3. k = d /\ k = 1 /\ i = 1
    BY <1>2, <2>1, <2>2 DEF Shifted
  <2>4. image.tip[chain[1].tx] = "Dead"
    BY <1>1, <2>1, <2>3 DEF Ahead
  <2>5. chain[1].tx \in TxId /\ chain[1].tx <= image.next
    <3>1. 1 \in 1..Len(chain)
      BY <2>1, <2>2, <2>3 DEF Shifted
    <3>. QED
      BY <3>1, RowIds
  <2>6. Hopeless(chain[1].tx)
    BY <2>4, <2>5, DeadHopeless
  <2>7. Future(tip)
    BY <1>2 DEF Narrows
  <2>. QED
    BY <2>3, <2>5, <2>6, <2>7 DEF Future
<1>. QED
  BY <1>1, <1>2, RowFlushed

(* A flush that fails, over a file that was as the baseline says.          *)
LEMMA RowTorn ==
    ASSUME Inv, Inv', DeadInv', NEW r \in Rows, disk = flushed, image' = image, flushed' = flushed,
           RowInv(r),
           \A tip \in Futures : Future(tip)' =>
               \/ Reads(tip, disk'.rows[r]) = Reads(tip, flushed.rows[r])
               \/ Reads(tip, disk'.rows[r]) = Reads(tip, image.rows[r])
    PROVE  RowInv(r)'
<1>1. PICK k \in Nat, d \in {0, 1} : Ahead(r, k, d)
  BY DEF RowInv
<1>. DEFINE chain == image.rows[r]
            base == flushed.rows[r]
<1>2. Shifted(chain, base, k, d) /\ chain \in Seq(Vers) /\ base \in Seq(Vers)
  BY <1>1, RowsType DEF Ahead
<1>3. Ahead(r, k, d)'
  BY <1>1 DEF Ahead
<1>4. ASSUME NEW tip \in Futures, Future(tip)', \A i \in 1..k : tip[chain[i].tx] # "Committed"
      PROVE  Reads(tip, chain) = Reads(tip, base)
  <2>1. ASSUME NEW i \in 1..d PROVE tip[base[i].tx] # "Committed"
    <3>1. d = 1 /\ i = 1 /\ 1 \in 1..Len(base)
      BY <1>2, <2>1, LenProperties DEF Shifted
    <3>2. image.tip[base[1].tx] = "Dead"
      BY <1>1, <3>1 DEF Ahead
    <3>3. base[1].tx \in TxId /\ base[1].tx <= disk.next
      BY <1>2, <3>1, TxOf DEF Inv, FilesInv, Written
    <3>4. base[1].tx <= image.next
      <4>. DEFINE x == disk.next
                  y == image.next
                  z == base[1].tx
      <4>1. x \in Nat /\ y \in Nat /\ z \in Nat /\ z <= x /\ x <= y
        BY <3>3, NumberedIs, TxIds DEF Inv, Numbers, FilesInv
      <4>. HIDE DEF x, y, z
      <4>2. z <= y
        BY <4>1
      <4>. QED
        BY <4>2 DEF y, z
    <3>5. Hopeless(base[1].tx)'
      BY <3>2, <3>3, <3>4, TxIds DEF DeadInv, Hopeless, BackedOut, StateOf
    <3>. QED
      BY <1>4, <3>1, <3>3, <3>5 DEF Future
  <2>. QED
    BY <1>2, <1>4, <2>1, ReadsBelow
<1>5. StandsIn(r, k)'
  BY <1>4 DEF StandsIn
<1>. QED
  BY <1>3, <1>5 DEF RowInv

LEMMA TornRow ==
    ASSUME Inv, NEW work, FlushFails(work), NEW r \in Rows
    PROVE  /\ image' = image /\ flushed' = flushed
           /\ \/ disk' = disk
              \/ disk'.tip = disk.tip /\ disk'.rows[r] \in {disk.rows[r], work.rows[r]}
              \/ disk'.rows[r] = IF work.rows[r] # flushed.rows[r] THEN work.rows[r]
                                 ELSE disk.rows[r]
<1>1. image' = image /\ flushed' = flushed /\ disk' \in Torn(work)
  BY DEF FlushFails
<1>2. ASSUME NEW R \in SUBSET Rows, disk' = Put(work, R, {})
      PROVE  disk'.tip = disk.tip /\ disk'.rows[r] \in {disk.rows[r], work.rows[r]}
  <2>1. disk'.tip = [t \in TxId |-> disk.tip[t]]
    BY <1>2 DEF Put
  <2>2. disk.tip \in [TxId -> TxState]
    BY NumberedIs DEF Inv, Numbers
  <2>3. disk'.rows[r] \in {disk.rows[r], work.rows[r]}
    BY <1>2 DEF Put
  <2>. QED
    BY <2>1, <2>2, <2>3
<1>3. ASSUME NEW P \in SUBSET TipPages, disk' = Put(work, Rows, P)
      PROVE  disk'.rows[r] = IF work.rows[r] # flushed.rows[r] THEN work.rows[r] ELSE disk.rows[r]
  BY <1>3 DEF Put
<1>. QED
  BY <1>1, <1>2, <1>3 DEF Torn

LEMMA RowFailed ==
    ASSUME Inv, Inv', DeadInv', NEW r \in Rows, disk = flushed,
           NEW work, FlushFails(work), work.rows = image.rows, RowInv(r), SameRow(r)
    PROVE  RowInv(r)' /\ SameRow(r)'
<1>1. /\ image' = image /\ flushed' = flushed
      /\ \/ disk' = disk
         \/ disk'.tip = disk.tip /\ disk'.rows[r] \in {disk.rows[r], image.rows[r]}
         \/ disk'.rows[r] = IF image.rows[r] # flushed.rows[r] THEN image.rows[r]
                            ELSE disk.rows[r]
  BY TornRow
<1>2. disk'.rows[r] \in {flushed.rows[r], image.rows[r]}
  BY <1>1
<1>3. RowInv(r)'
  BY <1>1, <1>2, RowTorn
<1>4. ASSUME disk'.tip = disk.tip PROVE SameRow(r)'
  <2>1. Reads(disk.tip, flushed.rows[r]) = Reads(disk.tip, image.rows[r])
    BY DEF SameRow
  <2>. QED
    BY <1>1, <1>2, <1>4, <2>1 DEF SameRow
<1>5. ASSUME disk'.rows[r] = image.rows[r] PROVE SameRow(r)'
  BY <1>1, <1>5 DEF SameRow
<1>6. disk'.tip = disk.tip \/ disk'.rows[r] = image.rows[r]
  BY <1>1
<1>. QED
  BY <1>3, <1>4, <1>5, <1>6

(* A sweep.  Where it leaves the row of the baseline, it backed out all    *)
(* that stood before it.                                                   *)
LEMMA SweptIs ==
    ASSUME Inv, NEW r \in Rows
    PROVE  Swept.rows[r] = SweepChain(image.tip, Held, image.rows[r])
<1>. DEFINE rows == [q \in Rows |-> SweepChain(image.tip, Held, image.rows[q])]
<1>1. rows[r] = SweepChain(image.tip, Held, image.rows[r])
  OBVIOUS
<1>. HIDE DEF rows
<1>2. Swept = [SetState(image, Gone, "Dead") EXCEPT !.oit = image.next, !.rows = rows]
  BY DEF Swept, Gone, rows
<1>3. image \in File
  BY NumberedIs DEF Inv, Numbers
<1>4. SetState(image, Gone, "Dead") \in File
  BY <1>3, SetStateIs DEF TxState
<1>5. Swept.rows = rows
  BY <1>2, <1>4 DEF File
<1>. QED
  BY <1>1, <1>5

LEMMA SweptOff ==
    ASSUME Inv, NEW r \in Rows, NEW k \in Nat, NEW d \in {0, 1}, Ahead(r, k, d),
           Swept.rows[r] = flushed.rows[r], NEW i \in 1..k
    PROVE  Swept.tip[image.rows[r][i].tx] = "Dead"
<1>. DEFINE chain == image.rows[r]
            base == flushed.rows[r]
            tip == image.tip
            K == Remaining(tip, Held, chain)
            l == Least(K)
            new == SweepChain(tip, Held, chain)
<1>1. /\ chain \in Seq(Vers) /\ Len(chain) \in Nat /\ DOMAIN chain = 1..Len(chain)
      /\ Shifted(chain, base, k, d) /\ new = base /\ Len(base) \in Nat
  BY RowsType, LenProperties, SweptIs DEF Ahead
<1>2. /\ \A j \in 1..k : j \in 1..Len(chain) /\ tip[chain[j].tx] # "Committed"
      /\ d = 1 => tip[base[1].tx] = "Dead"
      /\ Len(chain) + d = Len(base) + k
  BY <1>1 DEF Ahead, Shifted
<1>3. \A j \in 1..Len(chain) : chain[j].tx \in TxId /\ chain[j].tx # 0
  BY RowIds, TxIds
<1>4. K = {j \in 1..Len(chain) : ~BackedOut(tip, Held, chain[j].tx)}
  BY <1>1 DEF Remaining
<1>. HIDE DEF K
<1>5. ASSUME NEW j \in 1..k, j \in K PROVE FALSE
  <2>1. K \in SUBSET Nat /\ K # {}
    BY <1>1, <1>4, <1>5
  <2>2. l \in K /\ \A m \in K : l <= m
    BY <2>1, LeastIsLeast
  <2>3. new = IF StateOf(tip, chain[l].tx) = "Committed"
              THEN IF chain[l].del THEN <<>> ELSE <<chain[l]>>
              ELSE SubSeq(chain, l, Len(chain))
    BY <2>1 DEF SweepChain, K
  <2>. HIDE DEF l, new, chain, base, tip
  <2>4. l \in 1..Len(chain) /\ l <= j /\ l \in 1..k /\ l \in Nat
    BY <1>1, <1>4, <1>5, <2>2
  <2>5. tip[chain[l].tx] # "Committed" /\ StateOf(tip, chain[l].tx) = tip[chain[l].tx]
    BY <1>2, <1>3, <2>4 DEF StateOf
  <2>6. base = SubSeq(chain, l, Len(chain))
    BY <1>1, <2>3, <2>5
  <2>7. \A m \in l..Len(chain) : chain[m] \in Vers
    BY <1>1, <2>4, ElementOfSeq
  <2>8. /\ Len(base) = Len(chain) - l + 1
        /\ \A m \in 1..(Len(chain) - l + 1) : base[m] = chain[l + m - 1]
    BY <1>1, <2>4, <2>6, <2>7, SubSeqProperties
  <2>9. l = k + 1 - d
    BY <1>1, <1>2, <2>4, <2>8
  <2>10. d = 1
    BY <2>4, <2>9
  <2>11. 1 \in 1..(Len(chain) - l + 1) /\ l + 1 - 1 = l
    BY <1>1, <2>4
  <2>12. base[1] = chain[l]
    BY <2>8, <2>11
  <2>13. BackedOut(tip, Held, chain[l].tx)
    BY <1>2, <2>5, <2>10, <2>12 DEF BackedOut
  <2>. QED
    BY <1>4, <2>2, <2>13
<1>6. \A j \in 1..i : j \in DOMAIN chain /\ BackedOut(tip, Held, chain[j].tx)
  <2>1. ASSUME NEW j \in 1..i PROVE j \in 1..k
    OBVIOUS
  <2>. QED
    BY <1>1, <1>2, <1>4, <1>5, <2>1
<1>7. i \in DOMAIN chain /\ i \in 1..i
  BY <1>1, <1>2
<1>. DEFINE t == chain[i].tx
<1>8. t \in TxId /\ t # 0 /\ StateOf(tip, t) = tip[t] /\ BackedOut(tip, Held, t)
  BY <1>1, <1>3, <1>6, <1>7 DEF StateOf
<1>9. Swept.tip[t] = IF t \in Gone THEN "Dead" ELSE tip[t]
  BY <1>8, SweptCopy DEF Copy
<1>10. ASSUME tip[t] = "Active" PROVE t \in Gone
  <2>1. t \in Abandoned(tip, Held, chain)
    BY <1>6, <1>7, <1>8, <1>10 DEF Abandoned
  <2>. QED
    BY <2>1 DEF Gone
<1>11. tip[t] = "Dead" \/ tip[t] = "Active"
  BY <1>8 DEF BackedOut
<1>. QED
  BY <1>9, <1>10, <1>11

LEMMA RowSwept ==
    ASSUME Inv, Inv', DeadInv', Narrows, NEW r \in Rows, FlushAndInstall(Swept), RowInv(r)
    PROVE  RowInv(r)' /\ SameRow(r)'
<1>1. PICK k \in Nat, d \in {0, 1} : Ahead(r, k, d) /\ StandsIn(r, k)
  BY DEF RowInv
<1>2. image' = Swept /\ Swept.next = image.next
  BY SweptCopy DEF FlushAndInstall
<1>3. ASSUME Swept.rows[r] = flushed.rows[r], NEW tip \in Futures, Future(tip)', NEW i \in 1..k
      PROVE  tip[image.rows[r][i].tx] # "Committed"
  <2>1. image.rows[r][i].tx \in TxId /\ image.rows[r][i].tx <= image.next
    <3>1. i \in 1..Len(image.rows[r])
      BY <1>1, RowsType, LenProperties DEF Ahead, Shifted
    <3>. QED
      BY <3>1, RowIds
  <2>2. PICK t \in TxId : t = image.rows[r][i].tx
    BY <2>1
  <2>3. image'.tip[t] = "Dead"
    BY <1>1, <1>2, <1>3, <2>2, SweptOff
  <2>4. t <= image'.next
    BY <1>2, <2>1, <2>2
  <2>5. Hopeless(t)'
    BY <2>3, <2>4, TxIds DEF DeadInv, Hopeless, BackedOut, StateOf
  <2>. QED
    BY <1>3, <2>2, <2>5 DEF Future
<1>. QED
  BY <1>1, <1>3, RowFlushed

(* One that fails, over a file that was as the baseline says.              *)
LEMMA SweepFailsIs ==
    ASSUME Inv, disk = flushed, FlushFails(Swept)
    PROVE  /\ image' = image
           /\ \A t \in TxId : /\ disk'.tip[t] = "Committed" <=> disk.tip[t] = "Committed"
                              /\ image.tip[t] # "Committed" => disk'.tip[t] # "Committed"
<1>1. Copy(Swept, Gone, "Dead") /\ Swept.next = image.next
  BY SweptCopy
<1>2. Changes(Gone, "Dead")
  BY <1>1, FailedFiles DEF Inv
<1>3. image' = image
  BY DEF FlushFails
<1>4. ASSUME NEW t \in TxId
      PROVE  /\ disk'.tip[t] = "Committed" <=> disk.tip[t] = "Committed"
             /\ image.tip[t] # "Committed" => disk'.tip[t] # "Committed"
  <2>1. /\ disk'.tip[t] # disk.tip[t] => disk'.tip[t] = IF t \in Gone THEN "Dead" ELSE image.tip[t]
        /\ t \in Gone => image.tip[t] \in Open
    BY <1>2 DEF Changes
  <2>2. image.tip[t] # disk.tip[t] => disk.tip[t] = "Active" /\ image.tip[t] = "Dead"
    BY DEF Inv, FilesInv, Tips
  <2>. QED
    BY <2>1, <2>2 DEF Open
<1>. QED
  BY <1>3, <1>4

LEMMA RowSweptTorn ==
    ASSUME Inv, Inv', DeadInv', NEW r \in Rows, disk = flushed, slots' = slots,
           FlushFails(Swept), RowInv(r), SameRow(r)
    PROVE  RowInv(r)' /\ SameRow(r)'
<1>. DEFINE chain == image.rows[r]
            base == flushed.rows[r]
            swept == SweepChain(image.tip, Held, chain)
<1>1. /\ image' = image /\ flushed' = flushed /\ Held' = Held
      /\ disk'.rows[r] \in {base, swept}
  <2>1. disk'.rows[r] \in {base, swept}
    BY TornRow, SweptIs
  <2>2. Held' = Held
    BY DEF Held, AllTx
  <2>. QED
    BY <2>1, <2>2, TornRow
<1>2. \A t \in TxId : /\ disk'.tip[t] = "Committed" <=> disk.tip[t] = "Committed"
                      /\ image.tip[t] # "Committed" => disk'.tip[t] # "Committed"
  BY SweepFailsIs
<1>3. chain \in Seq(Vers) /\ base \in Seq(Vers)
  BY RowsType
<1>4. ASSUME NEW tip \in Futures, Future(tip)'
      PROVE  Reads(tip, swept) = Reads(tip, chain)
  <2>1. ASSUME NEW i \in 1..Len(chain)
        PROVE  /\ image.tip[chain[i].tx] = "Committed" => tip[chain[i].tx] = "Committed"
               /\ BackedOut(image.tip, Held, chain[i].tx) => tip[chain[i].tx] # "Committed"
    <3>1. chain[i].tx \in TxId /\ chain[i].tx <= image.next
      BY RowIds
    <3>2. PICK t \in TxId : t = chain[i].tx
      BY <3>1
    <3>3. image.tip[t] = "Committed" => tip[t] = "Committed"
      BY <1>1, <1>4 DEF Future
    <3>4. ASSUME BackedOut(image.tip, Held, t) PROVE Hopeless(t)'
      <4>1. image.tip[t] # "Committed"
        BY <3>4, TxIds DEF BackedOut, StateOf
      <4>2. disk'.tip[t] # "Committed"
        BY <1>2, <4>1
      <4>3. BackedOut(image'.tip, Held', t)
        BY <1>1, <3>4
      <4>4. t <= image'.next
        BY <1>1, <3>1, <3>2
      <4>. QED
        BY <4>2, <4>3, <4>4 DEF Hopeless
    <3>. QED
      BY <1>4, <3>2, <3>3, <3>4 DEF Future
  <2>. QED
    BY <1>3, <2>1, SweepReads
<1>. HIDE DEF chain, base, swept
<1>5. RowInv(r)'
  <2>1. ASSUME NEW tip \in Futures, Future(tip)'
        PROVE  \/ Reads(tip, disk'.rows[r]) = Reads(tip, flushed.rows[r])
               \/ Reads(tip, disk'.rows[r]) = Reads(tip, image.rows[r])
    BY <1>1, <1>4, <2>1 DEF chain, base
  <2>. QED
    BY <1>1, <2>1, RowTorn
<1>6. ASSUME disk'.rows[r] = swept PROVE SameRow(r)'
  <2>1. disk'.tip \in Futures
    BY NumberedIs DEF Inv, Numbers, Numbered, Futures
  <2>2. PICK tip \in Futures : tip = disk'.tip
    BY <2>1
  <2>3. Future(tip)'
    <3>1. ASSUME NEW t \in TxId, image'.tip[t] = "Committed" PROVE tip[t] = "Committed"
      BY <2>2, <3>1 DEF Inv, FilesInv, Tips, Open
    <3>. QED
      BY <2>2, <3>1 DEF Future, Hopeless
  <2>4. Reads(tip, swept) = Reads(tip, chain)
    BY <1>4, <2>3
  <2>. QED
    BY <1>1, <1>6, <2>2, <2>4 DEF SameRow, chain
<1>7. ASSUME disk'.rows[r] = base PROVE SameRow(r)'
  <2>1. /\ Reads(disk'.tip, base) = Reads(disk.tip, base)
        /\ Reads(disk'.tip, chain) = Reads(disk.tip, chain)
    BY <1>2, <1>3, SameReads
  <2>2. Reads(disk.tip, base) = Reads(disk.tip, chain)
    BY DEF SameRow, base, chain
  <2>. QED
    BY <1>1, <1>7, <2>1, <2>2 DEF SameRow, chain
<1>. QED
  BY <1>1, <1>5, <1>6, <1>7

LEMMA SweepNarrows ==
    ASSUME Inv, Inv', Sweep
    PROVE  Narrows /\ NoneRises
<1>1. (FlushAndInstall(Swept) \/ FlushFails(Swept)) /\ slots' = slots
  BY DEF Sweep
<1>2. Copy(Swept, Gone, "Dead") /\ Swept.next = image.next
  BY SweptCopy
<1>3. Fits(Gone, "Dead")
  BY <1>1, <1>2, FlushedFiles, FailedFiles DEF Inv, Fits
<1>4. Fresh
  <2>1. Held' = Held
    BY <1>1 DEF Held, AllTx
  <2>. QED
    BY <2>1, FreshLess
<1>5. Narrows
  BY <1>3, <1>4, FitsNarrow
<1>6. NoneRises
  <2>1. CASE FlushAndInstall(Swept)
    BY <2>1, InstalledRises
  <2>2. CASE FlushFails(Swept)
    <3>1. image' = image
      BY <2>2 DEF FlushFails
    <3>. QED
      BY <1>3, <3>1, FailedRises DEF Fits
  <2>. QED
    BY <1>1, <2>1, <2>2
<1>. QED
  BY <1>5, <1>6

(* A write.  Its version comes in front, not committed; in place of a dead *)
(* head it takes nothing away that anybody reads.                          *)
LEMMA WriteFiles ==
    ASSUME Inv, NEW s \in Slots, NEW r \in Rows,
           Insert(s, r) \/ \E del \in BOOLEAN : UpdateOrDelete(s, r, del)
    PROVE  disk' = disk /\ flushed' = flushed /\ image.next <= image'.next
<1>0. CanReserve(s)
  BY DEF Insert, UpdateOrDelete
<1>1. \E chain, tx : Install(s, [WorkCopy(s) EXCEPT !.rows[r] = chain], tx)
  <2>1. ASSUME Insert(s, r)
        PROVE  \E chain, tx : Install(s, [WorkCopy(s) EXCEPT !.rows[r] = chain], tx)
    BY <2>1 DEF Insert
  <2>2. ASSUME NEW del \in BOOLEAN, UpdateOrDelete(s, r, del)
        PROVE  \E chain, tx : Install(s, [WorkCopy(s) EXCEPT !.rows[r] = chain], tx)
    <3>. DEFINE chain == WriteOver(image.tip, WorkCopy(s).rows[r], Version(WorkTx(s), del))
    <3>1. Install(s, [WorkCopy(s) EXCEPT !.rows[r] = chain], WorkTx(s))
      BY <2>2 DEF UpdateOrDelete
    <3>. QED
      BY <3>1
  <2>. QED
    BY <2>1, <2>2
<1>2. PICK chain, tx : Install(s, [WorkCopy(s) EXCEPT !.rows[r] = chain], tx)
  BY <1>1
<1>. DEFINE w == WorkCopy(s)
            work == [w EXCEPT !.rows[r] = chain]
<1>3. Numbered(w) /\ image.next <= w.next
  BY <1>0, WorkIs
<1>4. image' = work /\ disk' = disk /\ flushed' = flushed
  BY <1>2 DEF Install, InstallDirty
<1>. HIDE DEF w
<1>5. w \in File
  BY <1>3, NumberedIs
<1>6. work.next = w.next
  BY <1>5 DEF File
<1>. QED
  BY <1>3, <1>4, <1>6

LEMMA WriteNarrows ==
    ASSUME Inv, Inv', NEW s \in Slots, NEW r \in Rows, NEW d, NEW v, Writes(s, r, d, v),
           disk' = disk, flushed' = flushed, image.next <= image'.next
    PROVE  Narrows /\ Onward /\ Kept
<1>1. image'.tip = image.tip
  BY DEF Writes
<1>2. Fits({}, "Dead")
  BY <1>1 DEF Fits, Changes, TxState
<1>3. ASSUME NEW p \in Slots PROVE IdsPass(p)
  <2>1. CASE p = s
    BY <2>1 DEF Writes
  <2>2. CASE p # s
    <3>1. Alone(s) /\ p \in Slots \ {s}
      BY <2>2 DEF Writes
    <3>. QED
      BY <3>1, OthersPass
  <2>. QED
    BY <2>1, <2>2
<1>4. Narrows /\ Onward
  BY <1>2, <1>3, PassFresh, FitsNarrow
<1>. QED
  BY <1>1, <1>4 DEF Kept

LEMMA RowWritten ==
    ASSUME Inv, Inv', DeadInv, NEW s \in Slots, NEW r \in Rows, NEW e \in {0, 1}, NEW v \in Vers,
           Writes(s, r, e, v), Narrows, Kept, RowInv(r), SameRow(r)
    PROVE  RowInv(r)' /\ SameRow(r)'
<1>. DEFINE chain == image.rows[r]
            new == image'.rows[r]
            base == flushed.rows[r]
            tip == image.tip
<1>1. PICK k \in Nat, d \in {0, 1} : Ahead(r, k, d) /\ StandsIn(r, k)
  BY DEF RowInv
<1>2. /\ chain \in Seq(Vers) /\ base \in Seq(Vers) /\ new \in Seq(Vers)
      /\ Len(chain) \in Nat /\ Len(base) \in Nat /\ Len(new) \in Nat
  <2>1. new \in Seq(Vers)
    BY NumberedIs DEF Inv, Numbers, Numbered
  <2>. QED
    BY <2>1, RowsType, LenProperties
<1>3. /\ image'.tip = tip /\ disk' = disk /\ flushed' = flushed
      /\ Grown(chain, new, e) /\ Len(new) >= 1 /\ new[1] = v
      /\ e = 0 => tip[chain[1].tx] = "Dead"
  BY DEF Writes, Kept
<1>4. v.tx \in TxId /\ tip[v.tx] # "Committed" /\ disk.tip[v.tx] # "Committed"
  <2>1. v.tx \in Ids(slots'[s]) /\ v.tx \in TxId
    BY DEF Writes, Vers
  <2>2. /\ disk'.tip[v.tx] # "Committed"
        /\ image'.tip[v.tx] = IF slots'[s].prepared = TRUE THEN "Limbo" ELSE "Active"
    BY <2>1 DEF Inv, HeldInv
  <2>. QED
    BY <1>3, <2>1, <2>2
<1>5. /\ Shifted(chain, base, k, d)
      /\ \A i \in 1..k : tip[chain[i].tx] # "Committed"
      /\ d = 1 => k >= 1 /\ tip[base[1].tx] = "Dead"
  BY <1>1 DEF Ahead
<1>6. e = 0 => 1 \in 1..Len(chain)
  BY <1>2, <1>3 DEF Grown
<1>7. ASSUME e = 0 PROVE chain[1].tx \in TxId /\ Hopeless(chain[1].tx)
  <2>1. chain[1].tx \in TxId /\ chain[1].tx <= image.next
    BY <1>6, <1>7, RowIds
  <2>. QED
    BY <1>3, <1>7, <2>1, DeadHopeless
<1>8. ASSUME NEW h \in Nat, NEW c \in {0, 1},
             Shifted(new, base, h, c),
             \A i \in 1..h : tip[new[i].tx] # "Committed",
             c = 1 => h >= 1 /\ tip[base[1].tx] = "Dead",
             \A now \in Futures :
                Future(now) /\ (\A i \in 1..h : now[new[i].tx] # "Committed") =>
                    \A i \in 1..k : now[chain[i].tx] # "Committed"
      PROVE  RowInv(r)'
  <2>1. Ahead(r, h, c)'
    BY <1>3, <1>8 DEF Ahead
  <2>2. ASSUME NEW now \in Futures, Future(now)', \A i \in 1..h : now[new[i].tx] # "Committed"
        PROVE  Reads(now, disk.rows[r]) = Reads(now, base)
    <3>1. Future(now)
      BY <2>2 DEF Narrows
    <3>. QED
      BY <1>1, <1>8, <2>2, <3>1 DEF StandsIn
  <2>3. StandsIn(r, h)'
    BY <1>3, <2>2 DEF StandsIn
  <2>. QED
    BY <2>1, <2>3 DEF RowInv
<1>9. ASSUME e = 1 PROVE RowInv(r)'
  <2>. DEFINE h == k + 1
  <2>1. /\ Len(new) = Len(chain) + 1
        /\ \A i \in 2..Len(new) : i - 1 \in 1..Len(chain) /\ new[i] = chain[i - 1]
    BY <1>3, <1>9 DEF Grown
  <2>. HIDE DEF chain, new, base, tip
  <2>2. Shifted(new, base, h, d)
    <3>1. /\ h \in Nat /\ d \in Nat /\ h <= Len(new) /\ d <= Len(base)
          /\ Len(new) + d = Len(base) + h
      BY <1>2, <1>5, <2>1 DEF Shifted
    <3>2. ASSUME NEW i \in (h + 1)..Len(new) PROVE new[i] = base[(i - h) + d]
      <4>0. i \in Nat /\ k + 2 <= i /\ i <= Len(new) /\ Len(new) = Len(chain) + 1
        BY <1>2, <2>1
      <4>1. /\ i \in 2..Len(new) /\ i - 1 \in (k + 1)..Len(chain)
            /\ ((i - 1) - k) + d = (i - h) + d
        <5>1. i \in 2..Len(new) /\ i - 1 \in (k + 1)..Len(chain)
          BY <1>2, <4>0
        <5>2. (i - 1) - k = i - h
          BY <4>0
        <5>. QED
          BY <5>1, <5>2
      <4>2. chain[i - 1] = base[((i - 1) - k) + d]
        BY <1>5, <4>1 DEF Shifted
      <4>. QED
        BY <2>1, <4>1, <4>2
    <3>. QED
      BY <3>1, <3>2 DEF Shifted
  <2>3. ASSUME NEW i \in 1..h PROVE tip[new[i].tx] # "Committed"
    <3>1. CASE i = 1
      BY <1>3, <1>4, <3>1
    <3>2. CASE i # 1
      <4>1. i \in 2..Len(new) /\ i - 1 \in 1..k
        BY <1>2, <1>5, <2>1, <3>2 DEF Shifted
      <4>. QED
        BY <1>5, <2>1, <4>1
    <3>. QED
      BY <3>1, <3>2
  <2>4. ASSUME NEW now \in Futures, \A i \in 1..h : now[new[i].tx] # "Committed", NEW i \in 1..k
        PROVE  now[chain[i].tx] # "Committed"
    <3>1. i + 1 \in 2..Len(new) /\ i + 1 \in 1..h /\ (i + 1) - 1 = i
      BY <1>2, <1>5, <2>1 DEF Shifted
    <3>2. new[i + 1] = chain[(i + 1) - 1]
      BY <2>1, <3>1
    <3>. QED
      BY <2>4, <3>1, <3>2
  <2>5. d = 1 => h >= 1 /\ tip[base[1].tx] = "Dead"
    BY <1>5
  <2>6. h \in Nat
    OBVIOUS
  <2>. HIDE DEF h
  <2>. QED
    BY <1>8, <2>2, <2>3, <2>4, <2>5, <2>6
<1>10. ASSUME e = 0, k >= 1 PROVE RowInv(r)'
  <2>1. /\ Len(new) = Len(chain)
        /\ \A i \in 2..Len(new) : i \in 1..Len(chain) /\ new[i] = chain[i]
    <3>1. /\ Len(new) = Len(chain) + 0
          /\ \A i \in 2..Len(new) : i - 0 \in 1..Len(chain) /\ new[i] = chain[i - 0]
      BY <1>3, <1>10 DEF Grown
    <3>2. \A i \in 2..Len(new) : i - 0 = i
      OBVIOUS
    <3>. QED
      BY <1>2, <3>1, <3>2
  <2>2. Shifted(new, base, k, d)
    <3>1. \A i \in (k + 1)..Len(new) : i \in 2..Len(new)
      BY <1>2, <1>10
    <3>. QED
      BY <1>2, <1>5, <2>1, <3>1 DEF Shifted
  <2>3. ASSUME NEW i \in 1..k, i # 1 PROVE new[i] = chain[i]
    <3>1. i \in 2..Len(new)
      BY <1>2, <1>5, <2>1, <2>3 DEF Shifted
    <3>. QED
      BY <2>1, <3>1
  <2>4. ASSUME NEW i \in 1..k PROVE tip[new[i].tx] # "Committed"
    BY <1>3, <1>4, <1>5, <2>3
  <2>5. ASSUME NEW now \in Futures, Future(now), \A i \in 1..k : now[new[i].tx] # "Committed",
               NEW i \in 1..k
        PROVE  now[chain[i].tx] # "Committed"
    <3>1. CASE i = 1
      BY <1>7, <1>10, <2>5, <3>1 DEF Future
    <3>2. CASE i # 1
      BY <2>3, <2>5, <3>2
    <3>. QED
      BY <3>1, <3>2
  <2>. HIDE DEF chain, new, base, tip
  <2>. QED
    BY <1>5, <1>8, <2>2, <2>4, <2>5
<1>11. ASSUME e = 0, k = 0 PROVE RowInv(r)'
  <2>1. /\ Len(new) = Len(chain)
        /\ \A i \in 2..Len(new) : i \in 1..Len(chain) /\ new[i] = chain[i]
    <3>1. /\ Len(new) = Len(chain) + 0
          /\ \A i \in 2..Len(new) : i - 0 \in 1..Len(chain) /\ new[i] = chain[i - 0]
      BY <1>3, <1>11 DEF Grown
    <3>2. \A i \in 2..Len(new) : i - 0 = i
      OBVIOUS
    <3>. QED
      BY <1>2, <3>1, <3>2
  <2>2. d = 0
    BY <1>5, <1>11
  <2>3. Len(chain) = Len(base) /\ \A i \in 1..Len(chain) : chain[i] = base[i]
    <3>1. Len(chain) + 0 = Len(base) + 0 /\ \A i \in (0 + 1)..Len(chain) : chain[i] = base[(i - 0) + 0]
      BY <1>5, <1>11, <2>2 DEF Shifted
    <3>2. \A i \in 1..Len(chain) : i \in (0 + 1)..Len(chain) /\ (i - 0) + 0 = i
      BY <1>2
    <3>. QED
      BY <1>2, <3>1, <3>2
  <2>4. Shifted(new, base, 1, 1)
    <3>1. ASSUME NEW i \in (1 + 1)..Len(new) PROVE new[i] = base[(i - 1) + 1]
      <4>1. i \in 2..Len(new) /\ (i - 1) + 1 = i
        BY <1>2
      <4>. QED
        BY <2>1, <2>3, <4>1
    <3>2. 1 \in Nat /\ 1 <= Len(new) /\ 1 <= Len(base) /\ Len(new) + 1 = Len(base) + 1
      BY <1>2, <1>3, <2>1, <2>3
    <3>. QED
      BY <3>1, <3>2 DEF Shifted
  <2>5. \A i \in 1..1 : i = 1
    OBVIOUS
  <2>6. \A i \in 1..1 : tip[new[i].tx] # "Committed"
    BY <1>3, <1>4, <2>5
  <2>7. tip[base[1].tx] = "Dead"
    BY <1>3, <1>6, <1>11, <2>3
  <2>8. ~\E i \in 1..k : TRUE
    BY <1>11
  <2>. HIDE DEF chain, new, base, tip
  <2>. QED
    BY <1>8, <2>4, <2>6, <2>7, <2>8
<1>12. RowInv(r)'
  BY <1>9, <1>10, <1>11
<1>13. Reads(disk.tip, new) = Reads(disk.tip, chain)
  <2>. DEFINE c == 1 - e
  <2>1. /\ c \in {0, 1} /\ c <= Len(chain) /\ Len(new) + c = Len(chain) + 1
        /\ \A i \in 2..Len(new) : new[i] = chain[i - e]
    BY <1>2, <1>3, <1>6 DEF Grown
  <2>2. ASSUME NEW i \in (1 + 1)..Len(new) PROVE new[i] = chain[(i - 1) + c]
    <3>1. i \in 2..Len(new) /\ (i - 1) + c = i - e
      BY <1>2
    <3>. QED
      BY <2>1, <3>1
  <2>3. Shifted(new, chain, 1, c)
    BY <1>2, <1>3, <2>1, <2>2 DEF Shifted
  <2>4. \A i \in 1..1 : disk.tip[new[i].tx] # "Committed"
    <3>1. \A i \in 1..1 : i = 1
      OBVIOUS
    <3>. QED
      BY <1>3, <1>4, <3>1
  <2>5. ASSUME NEW i \in 1..c PROVE disk.tip[chain[i].tx] # "Committed"
    <3>1. i = 1 /\ e = 0
      OBVIOUS
    <3>. QED
      BY <1>3, <1>7, <3>1 DEF DeadInv
  <2>. HIDE DEF c, chain, new
  <2>. QED
    BY <1>2, <2>3, <2>4, <2>5, ReadsBelow
<1>. QED
  BY <1>3, <1>12, <1>13 DEF SameRow

(* A flush fails only over a file that was as the baseline says, which it  *)
(* is again, after one that failed, when the process starts anew.          *)
OverSound == faults' # faults => disk = flushed

FileInv ==
    /\ faults \in Nat /\ DeadInv
    /\ \A r \in Rows : RowInv(r) /\ SameRow(r)

LEMMA FailsOverSound ==
    ASSUME faults \in Nat, OverSound, NEW work, FlushFails(work)
    PROVE  disk = flushed
BY DEF OverSound, FlushFails

LEMMA CalmRows ==
    ASSUME Inv, Inv', FileInv, DeadInv', OverSound, Calm, NEW r \in Rows
    PROVE  RowInv(r)' /\ SameRow(r)'
<1>1. /\ image'.rows = image.rows /\ Narrows /\ Onward
      /\ DeadInv /\ faults \in Nat /\ RowInv(r) /\ SameRow(r)
  BY DEF Calm, FileInv
<1>2. CASE Kept
  <2>1. RowInv(r)'
    BY <1>1, <1>2, RowKept
  <2>2. SameRow(r)'
    BY <1>1, <1>2 DEF SameRow, Kept
  <2>. QED
    BY <2>1, <2>2
<1>3. ASSUME NEW work, FlushAndInstall(work) PROVE RowInv(r)' /\ SameRow(r)'
  BY <1>1, <1>3, RowEnded
<1>4. ASSUME NEW work, FlushFails(work), work.rows = image.rows
      PROVE  RowInv(r)' /\ SameRow(r)'
  <2>1. disk = flushed
    BY <1>1, <1>4, FailsOverSound
  <2>. QED
    BY <1>1, <1>4, <2>1, RowFailed
<1>. QED
  BY <1>2, <1>3, <1>4 DEF Calm

LEMMA WriteRows ==
    ASSUME Inv, Inv', FileInv, NEW s \in Slots, NEW r \in Rows,
           Insert(s, r) \/ \E del \in BOOLEAN : UpdateOrDelete(s, r, del)
    PROVE  DeadInv' /\ \A q \in Rows : RowInv(q)' /\ SameRow(q)'
<1>1. PICK e \in {0, 1}, v \in Vers : Writes(s, r, e, v)
  BY WriteIs
<1>2. disk' = disk /\ flushed' = flushed /\ image.next <= image'.next
  BY WriteFiles
<1>3. Narrows /\ Onward /\ Kept
  BY <1>1, <1>2, WriteNarrows
<1>4. image'.tip = image.tip /\ \A q \in Rows \ {r} : image'.rows[q] = image.rows[q]
  BY <1>1 DEF Writes
<1>5. DeadInv'
  BY <1>2, <1>4 DEF FileInv, DeadInv
<1>6. ASSUME NEW q \in Rows PROVE RowInv(q)' /\ SameRow(q)'
  <2>1. CASE q = r
    BY <1>1, <1>3, <2>1, RowWritten DEF FileInv
  <2>2. CASE q # r
    <3>1. image'.rows[q] = image.rows[q]
      BY <1>4, <2>2
    <3>2. RowInv(q)'
      BY <1>3, <3>1, RowKept DEF FileInv
    <3>3. SameRow(q)'
      BY <1>2, <3>1 DEF FileInv, SameRow
    <3>. QED
      BY <3>2, <3>3
  <2>. QED
    BY <2>1, <2>2
<1>. QED
  BY <1>5, <1>6

LEMMA SweepRows ==
    ASSUME Inv, Inv', FileInv, DeadInv', OverSound, Sweep, NEW r \in Rows
    PROVE  RowInv(r)' /\ SameRow(r)'
<1>1. Narrows
  BY SweepNarrows
<1>2. slots' = slots /\ (FlushAndInstall(Swept) \/ FlushFails(Swept))
  BY DEF Sweep
<1>3. CASE FlushAndInstall(Swept)
  BY <1>1, <1>3, RowSwept DEF FileInv
<1>4. CASE FlushFails(Swept)
  <2>1. disk = flushed
    BY <1>4, FailsOverSound DEF FileInv
  <2>. QED
    BY <1>2, <1>4, <2>1, RowSweptTorn DEF FileInv
<1>. QED
  BY <1>2, <1>3, <1>4

LEMMA CrashRows ==
    ASSUME Inv', Crash, FileInv
    PROVE  DeadInv' /\ \A r \in Rows : RowInv(r)' /\ SameRow(r)'
<1>1. image' = disk /\ flushed' = disk /\ disk' = disk
  BY DEF Crash
<1>2. DeadInv'
  BY <1>1 DEF DeadInv
<1>3. ASSUME NEW r \in Rows PROVE RowInv(r)' /\ SameRow(r)'
  <2>1. StandsIn(r, 0)'
    BY <1>1 DEF StandsIn
  <2>2. image'.rows[r] = flushed'.rows[r]
    BY <1>1
  <2>. QED
    BY <2>1, <2>2, RowSettled
<1>. QED
  BY <1>2, <1>3

LEMMA RisesDead ==
    ASSUME DeadInv, NoneRises
    PROVE  DeadInv'
BY DEF DeadInv, NoneRises

(* What a step does to the file.                                           *)
LEMMA FileStep ==
    ASSUME [Next]_txVars
    PROVE  \/ UNCHANGED <<flushed, disk, faults>>
           \/ \E work : FlushAndInstall(work) \/ FlushFails(work)
           \/ Crash
<1>. DEFINE Dirty == UNCHANGED <<flushed, disk, faults>>
            Flush == \E work : FlushAndInstall(work) \/ FlushFails(work)
<1>1. ASSUME NEW s \in Slots, Start(s) \/ Savepoint(s) \/ \E t \in TxId : Reconnect(s, t) PROVE Dirty
  BY <1>1 DEF Start, Savepoint, Reconnect
<1>2. ASSUME NEW s \in Slots, NEW r \in Rows,
             Insert(s, r) \/ \E del \in BOOLEAN : UpdateOrDelete(s, r, del)
      PROVE  Dirty
  BY <1>2 DEF Insert, UpdateOrDelete, Install, InstallDirty
<1>3. ASSUME NEW s \in Slots, NEW i \in 1..MaxMarks,
             Redeclare(s, i) \/ Release(s, i) \/ RollbackTo(s, i)
      PROVE  Dirty
  BY <1>3 DEF Redeclare, Release, RollbackTo, InstallDirty
<1>4. ASSUME NEW s \in Slots, NEW retain \in BOOLEAN,
             Commit(s, retain) \/ CommitFails(s, retain) \/ Rollback(s, retain)
      PROVE  Dirty \/ Flush
  BY <1>4 DEF Commit, CommitFails, Rollback
<1>5. ASSUME NEW s \in Slots, Prepare(s) \/ PrepareFails(s) PROVE Flush
  BY <1>5 DEF Prepare, PrepareFails
<1>6. ASSUME NEW s \in Slots, Detach(s) PROVE Dirty \/ Flush
  BY <1>6 DEF Detach
<1>7. ASSUME NEW s \in Slots, NEW state \in {"Committed", "Dead"}, Resolve(s, state) PROVE Flush
  BY <1>7 DEF Resolve
<1>8. ASSUME Sweep PROVE Flush
  BY <1>8 DEF Sweep
<1>9. ASSUME UNCHANGED txVars PROVE Dirty
  BY <1>9 DEF txVars
<1>. HIDE DEF Dirty, Flush
<1>10. Dirty \/ Flush \/ Crash
  BY <1>1, <1>2, <1>3, <1>4, <1>5, <1>6, <1>7, <1>8, <1>9 DEF Next
<1>. QED
  BY <1>10 DEF Dirty, Flush

LEMMA FaultsType ==
    ASSUME faults \in Nat, [Next]_txVars
    PROVE  faults' \in Nat
BY FileStep DEF FlushAndInstall, FlushFails, Crash

LEMMA FileNext ==
    ASSUME Ordinary
    PROVE  Inv /\ Inv' /\ FileInv /\ [Next]_txVars /\ OverSound => FileInv'
<1>. SUFFICES ASSUME Inv, Inv', FileInv, [Next]_txVars, OverSound PROVE FileInv'
  OBVIOUS
<1>0. faults' \in Nat
  BY FaultsType DEF FileInv
<1>1. ASSUME Calm PROVE FileInv'
  <2>1. DeadInv'
    BY <1>1, RisesDead DEF FileInv, Calm
  <2>2. \A r \in Rows : RowInv(r)' /\ SameRow(r)'
    BY <1>1, <2>1, CalmRows
  <2>. QED
    BY <1>0, <2>1, <2>2 DEF FileInv
<1>2. ASSUME NEW s \in Slots, NEW r \in Rows,
             Insert(s, r) \/ \E del \in BOOLEAN : UpdateOrDelete(s, r, del)
      PROVE  FileInv'
  <2>1. DeadInv' /\ \A q \in Rows : RowInv(q)' /\ SameRow(q)'
    BY <1>2, WriteRows
  <2>. QED
    BY <1>0, <2>1 DEF FileInv
<1>3. ASSUME Sweep PROVE FileInv'
  <2>1. DeadInv'
    BY <1>3, SweepNarrows, RisesDead DEF FileInv
  <2>2. \A r \in Rows : RowInv(r)' /\ SameRow(r)'
    BY <1>3, <2>1, SweepRows
  <2>. QED
    BY <1>0, <2>1, <2>2 DEF FileInv
<1>4. ASSUME Crash PROVE FileInv'
  <2>1. DeadInv' /\ \A r \in Rows : RowInv(r)' /\ SameRow(r)'
    BY <1>4, CrashRows
  <2>. QED
    BY <1>0, <2>1 DEF FileInv
<1>. QED
  BY <1>1, <1>2, <1>3, <1>4, CalmStep

LEMMA InitFile == Init => FileInv
<1>. SUFFICES ASSUME Init PROVE FileInv
  OBVIOUS
<1>1. Inv /\ image = flushed /\ disk = image /\ faults = 0
  BY InitInv DEF Init
<1>2. DeadInv
  BY <1>1 DEF DeadInv
<1>3. ASSUME NEW r \in Rows PROVE RowInv(r) /\ SameRow(r)
  <2>. DEFINE a == image.rows[r]
  <2>1. a \in Seq(Vers) /\ Len(a) \in Nat
    BY <1>1, RowsType, LenProperties
  <2>. HIDE DEF a
  <2>2. Shifted(a, a, 0, 0)
    BY <2>1 DEF Shifted
  <2>3. Ahead(r, 0, 0)
    BY <1>1, <2>2 DEF Ahead, a
  <2>4. StandsIn(r, 0) /\ SameRow(r)
    BY <1>1 DEF StandsIn, SameRow
  <2>. QED
    BY <2>3, <2>4 DEF RowInv
<1>. QED
  BY <1>1, <1>2, <1>3 DEF FileInv

LEMMA FileIsRead ==
    ASSUME FileInv
    PROVE  CrashLosesNothing
BY DEF FileInv, SameRow, Reads, CrashLosesNothing

(* The file reads like the image at every moment: a crash loses nothing    *)
(* and brings nothing back, whatever was written beside, backed out or     *)
(* swept and whichever page writes a failed flush left out (careful write, *)
(* the inventory last), as long as no second flush fails over the file a   *)
(* first one tore.                                                         *)
THEOREM CrashLosesNothingHolds ==
    ASSUME Ordinary
    PROVE  Spec /\ [][OverSound]_txVars => []CrashLosesNothing
<1>1. Init => FileInv
  BY InitFile
<1>2. Inv /\ Inv' /\ FileInv /\ [Next]_txVars /\ [OverSound]_txVars => FileInv'
  <2>1. UNCHANGED txVars => OverSound
    BY DEF OverSound, txVars
  <2>. QED
    BY <2>1, FileNext
<1>3. FileInv => CrashLosesNothing
  BY FileIsRead
<1>4. Spec => []Inv
  BY InvHolds
<1>. QED
  BY <1>1, <1>2, <1>3, <1>4, PTL DEF Spec

(* While no flush has failed the file is as the baseline says.             *)
InSync == faults \in Nat /\ (faults = 0 => disk = flushed)

LEMMA SyncedFlush ==
    ASSUME Inv, NEW work, Numbered(work), FlushAndInstall(work), disk = flushed
    PROVE  disk' = flushed'
<1>. DEFINE New(t) == /\ TipPage(t) \in TipPages
                      /\ \E u \in TxId : /\ TipPage(u) = TipPage(t)
                                         /\ work.tip[u] # flushed.tip[u]
            rows == [r \in Rows |-> IF r \in Rows /\ work.rows[r] # flushed.rows[r]
                                    THEN work.rows[r] ELSE disk.rows[r]]
            tip == [t \in TxId |-> IF New(t) THEN work.tip[t] ELSE disk.tip[t]]
<1>1. flushed' = work /\ disk' = [next |-> work.next, oit |-> work.oit, rows |-> rows, tip |-> tip]
  BY DEF FlushAndInstall, Put
<1>2. work \in File
  BY NumberedIs
<1>3. rows = work.rows
  <2>1. work.rows = [r \in Rows |-> work.rows[r]]
    BY <1>2 DEF File
  <2>. QED
    BY <2>1
<1>4. tip = work.tip
  <2>1. work.tip = [t \in TxId |-> work.tip[t]]
    BY <1>2 DEF File
  <2>2. \A t \in TxId : TipPage(t) \in TipPages
    BY DEF TipPages
  <2>3. ASSUME NEW t \in TxId PROVE tip[t] = work.tip[t]
    BY <2>2
  <2>. HIDE DEF New
  <2>4. tip = [t \in TxId |-> tip[t]]
    OBVIOUS
  <2>. HIDE DEF tip
  <2>. QED
    BY <2>1, <2>3, <2>4
<1>. HIDE DEF rows, tip
<1>5. work = [next |-> work.next, oit |-> work.oit, rows |-> work.rows, tip |-> work.tip]
  BY <1>2 DEF File
<1>. QED
  BY <1>1, <1>3, <1>4, <1>5

LEMMA SyncNext == Inv /\ Inv' /\ InSync /\ [Next]_txVars => InSync'
<1>. SUFFICES ASSUME Inv, Inv', InSync, [Next]_txVars PROVE InSync'
  OBVIOUS
<1>1. CASE UNCHANGED <<flushed, disk, faults>>
  BY <1>1 DEF InSync
<1>2. ASSUME NEW work, FlushAndInstall(work) PROVE InSync'
  <2>1. faults' = faults /\ image' = work
    BY <1>2 DEF FlushAndInstall
  <2>2. Numbered(work)
    BY <2>1 DEF Inv, Numbers, Numbered
  <2>3. disk = flushed => disk' = flushed'
    BY <1>2, <2>2, SyncedFlush
  <2>. QED
    BY <2>1, <2>3 DEF InSync
<1>3. ASSUME NEW work, FlushFails(work) PROVE InSync'
  BY <1>3 DEF FlushFails, InSync
<1>4. CASE Crash
  BY <1>4 DEF Crash, InSync
<1>. QED
  BY <1>1, <1>2, <1>3, <1>4, FileStep

(* Where flushes can fail only once, as in the run, nothing more is asked. *)
THEOREM OneFaultLosesNothing ==
    ASSUME Ordinary, MaxFaults \in {0, 1}
    PROVE  Spec => []CrashLosesNothing
<1>1. Init => InSync
  BY DEF Init, InSync
<1>2. InSync /\ [Next]_txVars => OverSound
  <2>. SUFFICES ASSUME InSync, [Next]_txVars, faults' # faults PROVE disk = flushed
    BY DEF OverSound
  <2>1. \E work : FlushFails(work)
    BY FileStep DEF FlushAndInstall, Crash
  <2>2. faults < MaxFaults
    BY <2>1 DEF FlushFails
  <2>. QED
    BY <2>2 DEF InSync
<1>3. Init => FileInv
  BY InitFile
<1>4. Inv /\ Inv' /\ FileInv /\ InSync /\ [Next]_txVars => FileInv'
  BY <1>2, FileNext
<1>5. FileInv => CrashLosesNothing
  BY FileIsRead
<1>6. Inv /\ Inv' /\ InSync /\ [Next]_txVars => InSync'
  BY SyncNext
<1>7. Spec => []Inv
  BY InvHolds
<1>. QED
  BY <1>1, <1>3, <1>4, <1>5, <1>6, <1>7, PTL DEF Spec
==============================================================================
