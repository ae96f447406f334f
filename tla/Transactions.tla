----------------------------- MODULE Transactions -----------------------------
(***************************************************************************)
(* Transactions of src/crates/wire/src/server.rs (Database): snapshots,    *)
(* statements, savepoints, commit, rollback, two-phase commit, the sweep   *)
(* and a crash, over the rows and the transaction inventory of one file.   *)
(*                                                                         *)
(* image is what every attachment reads; a statement or the end of a       *)
(* transaction clones it, edits the clone and installs it, all under the   *)
(* write side of the pool, so each is one step here.  Only the ends of     *)
(* transactions, a prepare and a sweep reach the disk: page by page, the   *)
(* header first and the inventory last (CarefulFlush), and only the pages  *)
(* that differ from what the server believes the file to hold (flushed).   *)
(* A flush may fail after any of its page writes.                          *)
(***************************************************************************)
EXTENDS Versions, FiniteSets

CONSTANTS
    Rows,         \* record slots of the tables
    Slots,        \* connections, each with one transaction at a time
    MaxTx,        \* ids that can be handed out
    MaxVersions,  \* bound of a chain's length
    MaxFaults,    \* bound of the flushes that fail
    MaxMarks,     \* bound of the savepoints of a transaction
    IdsPerTip,    \* ids per inventory page
    Beyond        \* what callers and the disk may do besides (see Beyonds)

(* Each lifts one restriction and breaks what README names for it.         *)
(*  "sweepBeside"   a sweep while a snapshot transaction is open           *)
(*  "twoResolvers"  a limbo transaction reconnected while another          *)
(*                  connection still holds it                              *)
(*  "sideTimeout"   ROLLBACK TO cannot get the write side                  *)
(*  "prepareFails"  a prepare fails that reserved its id or had reached    *)
(*                  the inventory page                                     *)
(*  "manyInLimbo"   a transaction with savepoints' ids is prepared         *)
(*  "deadHead"      a write to a row whose head is dead and hides a        *)
(*                  version that would have stopped it                     *)
Beyonds == {"sweepBeside", "twoResolvers", "sideTimeout", "prepareFails", "manyInLimbo",
            "deadHead"}

ASSUME TransactionsAssumption ==
    /\ {MaxVersions, MaxFaults, MaxMarks} \subseteq Nat
    /\ {MaxTx, IdsPerTip} \subseteq Nat \ {0}
    /\ Beyond \subseteq Beyonds

VARIABLES
    image,        \* the shared image: [next, oit, rows, tip]
    flushed,      \* the flush baseline
    disk,         \* the file
    faults,       \* how many flushes have failed
    slots,        \* the transaction of each connection
    reconnected,  \* the limbo transaction each connection adopted, or 0
    team,         \* the transaction an id belongs to, by its first id
    told,         \* what the client of an id was told of its end
    claimed,      \* the ids a sweep has answered for in the header
    seen          \* what each open snapshot saw of every row when it began

txVars == <<image, flushed, disk, faults, slots, reconnected, team, told, claimed, seen>>

TxId == 1..MaxTx
TipPage(t) == (t - 1) \div IdsPerTip
TipPages == {TipPage(t) : t \in TxId}

-------------------------------------------------------------------------------
(* The state of one transaction: TxSlot.  windows[1] is the transaction's  *)
(* own; every savepoint opens another, whose records carry an id of their  *)
(* own.                                                                    *)
Window == [tx |-> 0, folded |-> {}]
IdsOf(w) == ({w.tx} \ {0}) \cup w.folded

Idle == [open |-> FALSE, snapshot |-> Latest, tx |-> 0, nested |-> {},
         windows |-> <<Window>>, touched |-> FALSE, prepared |-> FALSE]

AllTx(s) == ({slots[s].tx} \ {0}) \cup slots[s].nested
OwnTx(s) ==
    ({slots[s].tx} \ {0})
        \cup UNION {IdsOf(slots[s].windows[i]) : i \in DOMAIN slots[s].windows}

Inner(s) == Len(slots[s].windows)
WriteTx(s) == IF Inner(s) = 1 THEN slots[s].tx ELSE slots[s].windows[Inner(s)].tx

(* The lock table: every id an open transaction answers for is locked.     *)
Held == UNION {AllTx(s) : s \in Slots}

-------------------------------------------------------------------------------
SetState(img, ids, state) ==
    [img EXCEPT !.tip = [t \in TxId |-> IF t \in ids THEN state ELSE img.tip[t]]]

(* update_oldest: the oldest transaction moves up to one below the first   *)
(* id that is not committed, from the stored value on, never back.         *)
OldestAt(img) ==
    LET from == IF img.oit = 0 THEN 1 ELSE img.oit
        first == Least({t \in from..(img.next + 1) :
                           t > img.next \/ img.tip[t] # "Committed"})
    IN  IF first - 1 > from THEN first - 1 ELSE from

(* Mutant: it moves at a transaction's end as well. *)
EndState_MovesOit(img, ids, state) ==
    LET new == SetState(img, ids, state) IN [new EXCEPT !.oit = OldestAt(new)]

EndState(img, ids, state) == SetState(img, ids, state)

(* Reserve the next id, active in the inventory. *)
BeginActive(img) ==
    LET new == [SetState(img, {img.next + 1}, "Active") EXCEPT !.next = img.next + 1]
    IN  [new EXCEPT !.oit = OldestAt(new)]

(* The image a statement writes into and the id its records carry.         *)
WorkTx(s) == IF WriteTx(s) # 0 THEN WriteTx(s) ELSE image.next + 1
WorkCopy(s) == IF WriteTx(s) # 0 THEN image ELSE BeginActive(image)
CanReserve(s) == WriteTx(s) # 0 \/ image.next < MaxTx

Adopt(sl, tx) ==
    IF Len(sl.windows) = 1
    THEN [sl EXCEPT !.tx = tx, !.touched = TRUE]
    ELSE [sl EXCEPT !.windows[Len(sl.windows)].tx = tx,
                    !.nested = @ \cup {tx}, !.touched = TRUE]

Enlist(s, tx) ==
    team' = [team EXCEPT ![tx] =
                IF @ # 0 THEN @
                ELSE IF AllTx(s) = {} THEN tx
                ELSE team[CHOOSE t \in AllTx(s) : TRUE]]

-------------------------------------------------------------------------------
(* The page writes of a flush of work.                                     *)
Put(work, rows, tips) ==
    [next |-> work.next, oit |-> work.oit,
     rows |-> [r \in Rows |->
                  IF r \in rows /\ work.rows[r] # flushed.rows[r]
                  THEN work.rows[r] ELSE disk.rows[r]],
     tip  |-> [t \in TxId |->
                  IF /\ TipPage(t) \in tips
                     /\ \E u \in TxId : /\ TipPage(u) = TipPage(t)
                                        /\ work.tip[u] # flushed.tip[u]
                  THEN work.tip[t] ELSE disk.tip[t]]]

(* Mutant: the inventory is not held back behind the rows. *)
Torn_TipAnyTime(work) ==
    {disk} \cup {Put(work, R, P) : R \in SUBSET Rows, P \in SUBSET TipPages}

Torn(work) ==
    {disk} \cup {Put(work, R, {}) : R \in SUBSET Rows}
           \cup {Put(work, Rows, P) : P \in SUBSET TipPages}

(* Mutant: the image is installed though it was not written. *)
FlushAndInstall_InstallOnly(work) ==
    /\ image' = work
    /\ UNCHANGED <<flushed, disk, faults>>

FlushAndInstall(work) ==
    /\ disk' = Put(work, Rows, TipPages)
    /\ flushed' = work
    /\ image' = work
    /\ UNCHANGED faults

FlushFails(work) ==
    /\ faults < MaxFaults
    /\ faults' = faults + 1
    /\ disk' \in Torn(work)
    /\ UNCHANGED <<image, flushed>>

InstallDirty(work) == image' = work /\ UNCHANGED <<flushed, disk, faults>>

-------------------------------------------------------------------------------
Init ==
    /\ image = [next |-> 1, oit |-> 1,
                rows |-> [r \in Rows |-> <<Version(1, FALSE)>>],
                tip |-> [t \in TxId |-> IF t = 1 THEN "Committed" ELSE "Active"]]
    /\ flushed = image
    /\ disk = image
    /\ faults = 0
    /\ slots = [s \in Slots |-> Idle]
    /\ reconnected = [s \in Slots |-> 0]
    /\ team = [t \in TxId |-> 0]
    /\ told = [t \in TxId |-> "nothing"]
    /\ claimed = 0
    /\ seen = [s \in Slots |-> [r \in Rows |-> NoRow]]

(* OP_TRANSACTION: a snapshot is captured now, read committed has none.    *)
Start(s) ==
    /\ ~slots[s].open
    /\ \E snap \in {Latest, Capture(image.next, image.tip)} :
          /\ slots' = [slots EXCEPT ![s] = [Idle EXCEPT !.open = TRUE, !.snapshot = snap]]
          /\ seen' = [seen EXCEPT ![s] = [r \in Rows |->
                        IF snap = Latest THEN NoRow
                        ELSE Visible(image.tip, {}, snap, image.rows[r])]]
    /\ UNCHANGED <<image, flushed, disk, faults, reconnected, team, told, claimed>>

Works(s) == slots[s].open /\ ~slots[s].prepared

Install(s, work, tx) ==
    /\ InstallDirty(work)
    /\ slots' = [slots EXCEPT ![s] = Adopt(slots[s], tx)]
    /\ Enlist(s, tx)
    /\ UNCHANGED <<reconnected, told, claimed, seen>>

Insert(s, r) ==
    /\ Works(s) /\ CanReserve(s)
    /\ image.rows[r] = <<>>
    /\ Install(s, [WorkCopy(s) EXCEPT !.rows[r] = <<Version(WorkTx(s), FALSE)>>], WorkTx(s))

(* What a statement may write: a row it sees, whose head is no other       *)
(* transaction's live work and, under a snapshot, no later commit.         *)
Blocks(s, t) == t # 0 /\ t \notin OwnTx(s) /\ StateOf(image.tip, t) = "Active"

(* Mutant: a snapshot that does not see the head writes over it. *)
Conflict_Never(s, t) == FALSE

Conflict(s, t) ==
    /\ slots[s].snapshot # Latest
    /\ t # 0 /\ t \notin OwnTx(s)
    /\ ~Sees(slots[s].snapshot, t)
    /\ StateOf(image.tip, t) = "Committed"

(* The code asks of the head alone, dead or not.                           *)
Alive(chain) == {i \in DOMAIN chain : StateOf(image.tip, chain[i].tx) # "Dead"}

AskedAbout(chain) ==
    {chain[1].tx} \cup
        IF "deadHead" \in Beyond \/ Alive(chain) = {} THEN {}
        ELSE {chain[Least(Alive(chain))].tx}

Target(s, r) ==
    /\ image.rows[r] # <<>>
    /\ ~MeetsLimbo(image.tip, OwnTx(s), slots[s].snapshot, image.rows[r])
    /\ Visible(image.tip, OwnTx(s), slots[s].snapshot, image.rows[r]) # NoRow
    /\ \A t \in AskedAbout(image.rows[r]) : ~Conflict(s, t) /\ ~Blocks(s, t)

UpdateOrDelete(s, r, del) ==
    /\ Works(s) /\ CanReserve(s)
    /\ Target(s, r)
    /\ Len(image.rows[r]) < MaxVersions
    /\ Install(s, [WorkCopy(s) EXCEPT !.rows[r] =
                      WriteOver(image.tip, @, Version(WorkTx(s), del))], WorkTx(s))

-------------------------------------------------------------------------------
(* Savepoints.  Mark i is window i + 1.                                    *)
Fold(ws, from, into) ==   \* windows from.. given up to window into
    [SubSeq(ws, 1, into) EXCEPT ![into].folded =
        @ \cup UNION {IdsOf(ws[i]) : i \in from..Len(ws)}]

Savepoint(s) ==
    /\ Works(s) /\ Inner(s) <= MaxMarks
    /\ slots' = [slots EXCEPT ![s].windows = Append(@, Window)]
    /\ UNCHANGED <<image, flushed, disk, faults, reconnected, team, told, claimed, seen>>

(* The same name again: the mark it displaces folds into its parent.       *)
Redeclare(s, i) ==
    /\ Works(s) /\ i \in 1..(Inner(s) - 1)
    /\ LET ws == slots[s].windows
           merged == [ws EXCEPT ![i].folded = @ \cup IdsOf(ws[i + 1])]
       IN  slots' = [slots EXCEPT ![s].windows =
                        SubSeq(merged, 1, i) \o SubSeq(merged, i + 2, Len(ws)) \o <<Window>>]
    /\ UNCHANGED <<image, flushed, disk, faults, reconnected, team, told, claimed, seen>>

Release(s, i) ==
    /\ Works(s) /\ i \in 1..(Inner(s) - 1)
    /\ slots' = [slots EXCEPT ![s].windows = Fold(@, i + 1, i)]
    /\ UNCHANGED <<image, flushed, disk, faults, reconnected, team, told, claimed, seen>>

Undone(s, i) == UNION {IdsOf(slots[s].windows[j]) : j \in (i + 1)..Inner(s)}

Killed(s, i) == Undone(s, i)

BackTo(sl, i, ids) ==
    [sl EXCEPT !.windows = Append(SubSeq(@, 1, i), Window),
               !.nested = @ \ ids, !.touched = IF ids = {} THEN @ ELSE TRUE]

RollbackTo(s, i) ==
    /\ Works(s) /\ i \in 1..(Inner(s) - 1)
    /\ \E side \in {TRUE} \cup (IF "sideTimeout" \in Beyond THEN {FALSE} ELSE {}) :
          LET ids == IF side THEN Killed(s, i) ELSE {}
          IN  /\ InstallDirty(SetState(image, ids, "Dead"))
              /\ slots' = [slots EXCEPT ![s] = BackTo(@, i, ids)]
    /\ told' = [t \in TxId |-> IF t \in Undone(s, i) THEN "undone" ELSE told[t]]
    /\ UNCHANGED <<reconnected, team, claimed, seen>>

-------------------------------------------------------------------------------
(* The end of a transaction.  end_write forgets its ids and locks whatever *)
(* became of the flush; a RETAIN goes on under the same snapshot.          *)
Ended(s, retain, committed) ==
    IF ~retain THEN Idle
    ELSE [Idle EXCEPT !.open = TRUE,
            !.snapshot = IF slots[s].snapshot = Latest THEN Latest
                         ELSE [slots[s].snapshot EXCEPT !.committed_own =
                                  IF committed THEN @ \cup AllTx(s) ELSE @]]

(* Mutant: a commit settles the transaction's own id only. *)
CommitIds_OwnOnly(s) == {slots[s].tx} \ {0}

CommitIds(s) == AllTx(s)

Ends(s, retain, committed) ==
    /\ slots[s].open /\ reconnected[s] = 0
    /\ slots' = [slots EXCEPT ![s] = Ended(s, retain, committed)]
    /\ seen' = IF retain THEN seen ELSE [seen EXCEPT ![s] = [r \in Rows |-> NoRow]]
    /\ UNCHANGED <<reconnected, team, claimed>>

Tell(ids, what) == told' = [t \in TxId |-> IF t \in ids THEN what ELSE told[t]]

Commit(s, retain) ==
    /\ Ends(s, retain, TRUE)
    /\ IF slots[s].touched
       THEN FlushAndInstall(EndState(image, CommitIds(s), "Committed"))
       ELSE UNCHANGED <<image, flushed, disk, faults>>
    /\ Tell(AllTx(s), "committed")

CommitFails(s, retain) ==
    /\ Ends(s, retain, FALSE)
    /\ slots[s].touched
    /\ FlushFails(EndState(image, CommitIds(s), "Committed"))
    /\ UNCHANGED told

Rollback(s, retain) ==
    /\ Ends(s, retain, FALSE)
    /\ IF slots[s].touched
       THEN \/ FlushAndInstall(EndState(image, AllTx(s), "Dead")) /\ Tell(AllTx(s), "undone")
            \/ FlushFails(EndState(image, AllTx(s), "Dead")) /\ UNCHANGED told
       ELSE UNCHANGED <<image, flushed, disk, faults, told>>

-------------------------------------------------------------------------------
(* Two-phase commit.                                                       *)
PrepareTx(s) == IF slots[s].tx # 0 THEN slots[s].tx ELSE image.next + 1
PrepareWork(s) ==
    EndState(IF slots[s].tx # 0 THEN image ELSE BeginActive(image),
             AllTx(s) \cup {PrepareTx(s)}, "Limbo")

Prepared(s) ==
    IF slots[s].tx # 0 THEN slots[s] ELSE Adopt(slots[s], PrepareTx(s))

OneIdOnly(s) == AllTx(s) \subseteq {slots[s].tx} \/ "manyInLimbo" \in Beyond

Prepare(s) ==
    /\ slots[s].open
    /\ OneIdOnly(s)
    /\ slots[s].tx # 0 \/ image.next < MaxTx
    /\ FlushAndInstall(PrepareWork(s))
    /\ slots' = [slots EXCEPT ![s] = [Prepared(s) EXCEPT !.touched = TRUE, !.prepared = TRUE]]
    /\ Enlist(s, PrepareTx(s))
    /\ UNCHANGED <<reconnected, told, claimed, seen>>

PrepareFails(s) ==
    /\ slots[s].open
    /\ OneIdOnly(s)
    /\ slots[s].tx # 0 \/ image.next < MaxTx
    /\ FlushFails(PrepareWork(s))
    /\ \/ slots[s].tx # 0 /\ disk'.tip = disk.tip
       \/ "prepareFails" \in Beyond
    /\ slots' = [slots EXCEPT ![s] = [Prepared(s) EXCEPT !.touched = slots[s].touched]]
    /\ Enlist(s, PrepareTx(s))
    /\ UNCHANGED <<reconnected, told, claimed, seen>>

(* The connection goes: a prepared transaction stays in limbo, any other   *)
(* is rolled back, and what was reconnected waits for another.             *)
Detach(s) ==
    /\ slots[s].open \/ reconnected[s] # 0
    /\ slots' = [slots EXCEPT ![s] = Idle]
    /\ reconnected' = [reconnected EXCEPT ![s] = 0]
    /\ seen' = [seen EXCEPT ![s] = [r \in Rows |-> NoRow]]
    /\ IF slots[s].prepared \/ AllTx(s) = {}
       THEN UNCHANGED <<image, flushed, disk, faults, told>>
       ELSE \/ FlushAndInstall(EndState(image, AllTx(s), "Dead")) /\ Tell(AllTx(s), "undone")
            \/ FlushFails(EndState(image, AllTx(s), "Dead")) /\ UNCHANGED told
    /\ UNCHANGED <<team, claimed>>

Reconnect(s, t) ==
    /\ t <= image.next /\ image.tip[t] = "Limbo"
    /\ \/ "twoResolvers" \in Beyond
       \/ t \notin Held /\ \A other \in Slots : reconnected[other] # t
    /\ reconnected' = [reconnected EXCEPT ![s] = t]
    /\ UNCHANGED <<image, flushed, disk, faults, slots, team, told, claimed, seen>>

(* The next commit or rollback of the connection resolves it: the rows of  *)
(* one id, and the inventory is not asked again.                           *)
Resolve(s, state) ==
    /\ reconnected[s] # 0
    /\ reconnected' = [reconnected EXCEPT ![s] = 0]
    /\ LET work == EndState(image, {reconnected[s]}, state)
       IN  \/ /\ FlushAndInstall(work)
              /\ Tell({reconnected[s]}, IF state = "Committed" THEN "committed" ELSE "undone")
           \/ FlushFails(work) /\ UNCHANGED told
    /\ UNCHANGED <<slots, team, claimed, seen>>

-------------------------------------------------------------------------------
(* gfix -sweep, on the attach of a connection of its own.  It claims in    *)
(* the header that nothing it has passed is of interest any more.  A sweep *)
(* that finds nothing, and would only make the claim, is left out.         *)
Swept ==
    LET gone == UNION {Abandoned(image.tip, Held, image.rows[r]) : r \in Rows}
    IN  [SetState(image, gone, "Dead") EXCEPT
            !.oit = image.next,
            !.rows = [r \in Rows |-> SweepChain(image.tip, Held, image.rows[r])]]

Sweep ==
    /\ Swept.rows # image.rows
    /\ \/ "sweepBeside" \in Beyond
       \/ \A s \in Slots : slots[s].snapshot = Latest
    /\ FlushAndInstall(Swept) \/ FlushFails(Swept)
    /\ claimed' = image.next
    /\ UNCHANGED <<slots, reconnected, team, told, seen>>

(* The process dies and starts again over the file: ids it had not got     *)
(* into the header are handed out again.                                   *)
Crash ==
    /\ image' = disk
    /\ flushed' = disk
    /\ slots' = [s \in Slots |-> Idle]
    /\ reconnected' = [s \in Slots |-> 0]
    /\ seen' = [s \in Slots |-> [r \in Rows |-> NoRow]]
    /\ team' = [t \in TxId |-> IF t > disk.next THEN 0 ELSE team[t]]
    /\ told' = [t \in TxId |-> IF t > disk.next /\ told[t] = "undone" THEN "nothing"
                               ELSE told[t]]
    /\ UNCHANGED <<disk, faults, claimed>>

Next ==
    \/ \E s \in Slots :
          \/ Start(s)
          \/ Savepoint(s)
          \/ \E r \in Rows : Insert(s, r) \/ \E del \in BOOLEAN : UpdateOrDelete(s, r, del)
          \/ \E i \in 1..MaxMarks : Redeclare(s, i) \/ Release(s, i) \/ RollbackTo(s, i)
          \/ \E retain \in BOOLEAN :
                Commit(s, retain) \/ CommitFails(s, retain) \/ Rollback(s, retain)
          \/ Prepare(s)
          \/ PrepareFails(s)
          \/ Detach(s)
          \/ \E t \in TxId : Reconnect(s, t)
          \/ \E state \in {"Committed", "Dead"} : Resolve(s, state)
    \/ Sweep
    \/ Crash

Spec == Init /\ [][Next]_txVars
-------------------------------------------------------------------------------
File == [next : 0..MaxTx, oit : 0..MaxTx, rows : [Rows -> Seq([tx : TxId, del : BOOLEAN])],
         tip : [TxId -> TxState]]

TypeOK ==
    /\ image \in File /\ flushed \in File /\ disk \in File
    /\ \A s \in Slots :
          /\ slots[s].tx \in 0..MaxTx
          /\ slots[s].nested \subseteq TxId
          /\ slots[s].snapshot.limit \in 0..(MaxTx + 1)
          /\ \A i \in 1..Inner(s) : slots[s].windows[i] \in
                 [tx : 0..MaxTx, folded : SUBSET TxId]
          /\ \A r \in Rows : seen[s][r] \in [tx : 0..MaxTx, del : BOOLEAN]
    /\ reconnected \in [Slots -> 0..MaxTx]
    /\ team \in [TxId -> 0..MaxTx]
    /\ told \in [TxId -> {"nothing", "committed", "undone"}]

(* A snapshot transaction reads, apart from its own work, what it read     *)
(* when it began, whatever others commit, roll back, prepare or resolve.   *)
RepeatableRead ==
    \A s \in Slots, r \in Rows :
        slots[s].snapshot # Latest =>
            Visible(image.tip, {}, [slots[s].snapshot EXCEPT !.committed_own = {}],
                    image.rows[r]) = seen[s][r]

(* Nothing is overwritten unseen: behind the versions of an open           *)
(* transaction stands a committed one, and one its snapshot sees.          *)
WritesOverWhatItSees ==
    \A s \in Slots, r \in Rows :
        LET chain == image.rows[r]
            behind == {i \in DOMAIN chain :
                          /\ chain[i].tx \notin AllTx(s)
                          /\ StateOf(image.tip, chain[i].tx) # "Dead"
                          /\ \E j \in 1..i : chain[j].tx \in AllTx(s)}
        IN  behind # {} =>
                LET t == chain[Least(behind)].tx
                IN  /\ StateOf(image.tip, t) = "Committed"
                    /\ slots[s].snapshot = Latest \/ Sees(slots[s].snapshot, t)

(* What a client was told of an id holds in memory and after any crash.    *)
ToldTheTruth ==
    \A t \in TxId, f \in {"image", "disk"} :
        LET tip == IF f = "image" THEN image.tip ELSE disk.tip
        IN  /\ told[t] = "committed" => tip[t] = "Committed"
            /\ told[t] = "undone" => tip[t] # "Committed"

(* The ids of one transaction are committed together or not at all, but    *)
(* for those a savepoint undid.                                            *)
AllOrNothing ==
    \A t, u \in TxId :
        team[t] # 0 /\ team[t] = team[u] /\ told[u] # "undone" =>
            /\ image.tip[t] = "Committed" => image.tip[u] = "Committed"
            /\ disk.tip[t] = "Committed" => disk.tip[u] = "Committed"

(* The rows in the file are as good as the rows in memory: read under the  *)
(* file's own inventory, which is what a crash leaves, they are the same.  *)
CrashLosesNothing ==
    \A r \in Rows : Visible(disk.tip, {}, Latest, disk.rows[r])
                        = Visible(disk.tip, {}, Latest, image.rows[r])

(* "everything below OIT is assumed committed" (update_oldest): it is, for *)
(* every id no sweep has answered for, in memory and in the file.          *)
OitIsHonest ==
    \A t \in TxId :
        t >= claimed =>
            /\ t < image.oit => image.tip[t] = "Committed"
            /\ t < disk.oit => disk.tip[t] = "Committed"
===============================================================================
