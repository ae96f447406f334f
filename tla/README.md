# fire-crab in TLA+

fire-crab is a Rust conversion of the Firebird database engine. This directory
holds TLA+ models of the parts of it that run concurrently or must survive a
crash, the TLC runs that check them on small instances, and TLAPS proofs of the
properties that matter most. Paths below are relative to the repository.

## 1. The system

One server process serves many attachments, one thread each, over files that
the original engine can open too.

| Component | State it keeps | Operations | Hard behaviour |
|---|---|---|---|
| Lock table, `crates/lck/src/lib.rs` | per lock: grants, per-mode counts, FIFO queue, data word; knocks per owner | create_owner, enqueue(_deadline), convert, dequeue, take_knocks, expire, purge_owner, write_data | one probe against an aggregate stands for all holders; FIFO regrant; deadlock scan |
| Database locks, `crates/wire/src/dblocks.rs` | one lock table per file, a condition variable | hold_transaction, reserve_relation, wait_for_transaction, transaction_is_held, release | parked threads, 50 ms re-test, timeouts racing grants, one thread expiring another's wait |
| Page cache, `crates/cch/src/lib.rs` | dirty buffers and the precedence graph, kept from both ends | mark, precedence, write_buffer, flush, careful_plan(_paged) | cycles, bounded cycle search, recursion, crash between any two writes |
| Buffer pool, `crates/cch/src/pool.rs` | one image per file, flush baseline, fingerprint, reentrant write token | open, publish, note_flushed, note_disk, begin_write / end_write, forget | the file may change underneath; three mutexes set one after another |
| Transactions, `crates/wire/src/server.rs` (`Database`) | id, undo windows, snapshot, write token, touched | work_copy, adopt_tx, install_dirty, commit_tx, kill_tx, prepare_tx, resolve_tx | clone-edit-install of a whole image; all ids of a transaction at once; limbo |
| Record versions, `crates/ods/src/tra.rs`, `tip.rs` | version chains, transaction inventory, snapshots | capture, sees, visible_version | readers walking chains while others commit |
| Sweep, `crates/ods/src/gc.rs` | the same pages, OIT/OAT/OST markers | analyze, purge_row_chain_keeping, sweep | removing only what nobody can need |
| Events, `crates/evt/src/lib.rs` | counters, interests, posts per transaction | queue, cancel, post, commit, rollback | delivery order against the commit |
| Metadata and statement caches, `crates/wire/src/mdc.rs`, `stmc.rs` | memo tables keyed by schema generation | relation, memo, invalidate, sync_epoch | filled outside the lock, file replaced underneath |
| Shutdown gate, `DbGate` in `crates/wire/src/server.rs` | attachments, open transactions and kick generation of one file, atomics; the header's shutdown byte | attach, -shut with its wait and kick, -online, the end of a transaction, drop | counters read and reset one at a time, by threads that have not heard of each other |
| Page I/O, on-disk structures, compiler, optimizer, executor, auth, burp, svc, blb, fcstat | none that is shared, or bytes of pages | sequential | data, not control |

How they meet. A DML statement reserves its relation (dblocks), takes the write
token of the pool, clones the image, edits the copy and publishes it: its pages
are dirty in the pool. A writer that meets a row version of a live transaction
gives the token back, waits for that transaction's lock (dblocks) and runs
again. COMMIT takes the token, sets the inventory bits in a copy, flushes the
changed pages in careful order (page cache) and only then publishes and
releases the owner's locks, which wakes the waiters. The sweep asks the lock
table whether an ACTIVE transaction still has an owner.

What makes each part correct:

- *Lock table*: grants of a lock are compatible; counts are exact; nobody is
  left in a queue that no release will serve; nobody overtakes a conflicting
  earlier waiter; cycles of waits are denied; a purge leaves nothing.
- *Database locks*: "ended" is said only of an ended transaction; a parked
  thread returns; nobody's timeout takes another's wait or grant; a
  reservation lasts as long as its transaction and excludes what it should.
- *Page cache and flush*: the graph is acyclic, its drain terminates, and
  every prefix of the writes is a file without dangling references in which a
  committed transaction has all its pages.
- *Pool*: the image changes only by whole installs, none is lost, and what a
  commit was acknowledged for is in the file whatever flushes fail later.
- *Transactions, versions, sweep*: a snapshot reads the same for its whole life,
  nothing is overwritten unseen, a client is told the truth about its ids now
  and after a crash, all ids of a transaction go together, and the sweep and the
  markers give up nothing a reader can need.
- *Caches*: what they serve was read from the schema as it is now.
- *Events*: a committed post is counted.
- *Shutdown gate*: the counts a shutdown waits on are the counts of what is
  there, and nobody stays in a file that is shut.

## 2. Modules

| Module | Models | Extends |
|---|---|---|
| `LockModes` | the seven modes, `COMPATIBILITY`, highest mode | |
| `LockTableOps` | the policy as operators on blocks, tables and knocks | `LockModes` |
| `LockTable` | `LockTable` as a state machine, one action per call | `LockTableOps` |
| `DbLocks` | `DbLocks` and its callers: threads, waits, clock | `LockTableOps` |
| `PageCache` | `Cache`, with the call stack of `write_buffer` | |
| `CarefulFlush` | `build_plan` and the page loop of `flush_careful` | `PageCache` |
| `Versions` | snapshots, visibility, version chains, what the sweep takes out | |
| `Transactions` | `Database`: statements, savepoints, commit, rollback, two-phase commit, sweep, crash | `Versions` |
| `AtomicImage` | what the pool promises: an image changed by whole writes | |
| `BufferPool` | `pool.rs` with its writers and attachments; implements `AtomicImage` | `INSTANCE AtomicImage WITH` its own `image`, `acked`, `attached` |
| `MetadataCache` | `mdc.rs` and `stmc.rs`, the statements that fill them, the DDL that empties them | |
| `Events` | `evt/src/lib.rs`, the requests and transactions that use it | |
| `Gate` | `DbGate`: attach, shutdown, ends of transactions, drop | |
| `LockTableOpsProofs` | lemmas about blocks: what each operation keeps, grants, leaves alone | `LockTableOps`, `TLAPS` |
| `LockTableProofs` | theorems about `LockTable`'s `Spec` and `DisciplinedSpec` | `LockTable`, `LockTableOpsProofs` |
| `DbLocksProofs` | theorems about `DbLocks` | `DbLocks`, `LockTableOpsProofs` |
| `PageCacheProofs` | theorems about `PageCache`'s `CacheSpec` | `PageCache`, `TLAPS` |
| `CarefulFlushProofs` | theorems about `CarefulFlush` | `CarefulFlush`, `PageCacheProofs` |
| `BufferPoolProofs` | theorems about `BufferPool` | `BufferPool`, `TLAPS` |
| `MetadataCacheProofs` | theorems about `MetadataCache` | `MetadataCache`, `TLAPS` |
| `TransactionsProofs` | theorems about `Transactions` | `Transactions`, `TLAPS` |
| `MC*` | model values, small sets and symmetry for TLC | |

**LockTable.** A table is a function from lock names to blocks; the source
creates a block on the first request and removes it with the last, and a name
without a block behaves as `EmptyBlock` in every query, so the function is
total. A block keeps `granted`, `counts`, `pending` and `data` as the source
does - the counts separately, because the source updates them separately.
Regrant is a loop in the source; here `RegrantCount` says how far the loop gets
(the longest prefix of the queue in which each request is compatible with the
aggregate the ones before it have raised) and `Regrant` moves that prefix. The
depth-first search of `deadlock_from` is stated as its result: the start is in
every set that is closed under waiting and holds whom it waits for. A victim's
request is withdrawn but its knocks stay, as in the source.
Two specifications share the actions. `Spec` lets anybody call anything.
`DisciplinedSpec` is what the server does: an owner asks only for locks it has
no request on (`reserve_relation` tests `is_granted` first, transaction ids are
fresh), never waits in a convert, and makes no call while it is parked, because
its thread sleeps in the wait loop.

**DbLocks.** One action per critical section of the table's mutex. The wait
loop of `reserve_relation` and `wait_for_transaction` is `WakeGranted` and
`WakeTimedOut` - the third outcome, to sleep again, changes nothing. `Tick` is
the clock; `now` and deadlines are in the same unit. `answer` is what the last
step told its caller, so that properties can speak of what a thread was told.
`writers` records which owner was let go on to write which relation: what
`reserve_dml_relation` answered. A caller is one transaction; its life is
new, live (has written, holds its own lock), ended, or closed (never wrote).
`Probe` is the owner that `transaction_is_held` makes for its question and purges
again: it is one of the table's `Owners` and none of the `Callers`.

**PageCache.** `write_buffer` recurses; `calls` is its stack, and every
physical write is a step. `Related` is the bounded search by its result: the
search pops the start and one page per edge it walks, so it runs out exactly
when one plus the number of edges below the start exceeds the limit.

**CarefulFlush.** The precedence calls of `build_plan` are triples (number of
the loop nest, outer page, inner page) taken in lexicographic order, which is
the order of the nested loops. `order` is the cache's list of writes and
`written` how many of them `flush_careful` has made to the file: a crash leaves
`OnDisk`, so the invariants over `OnDisk` are the crash-safety properties, and
no crash action is needed. The tie-break writes inside `precedence` happen
while the plan is built and go to the list as well, as in the source.

**Versions.** A chain is a sequence of versions, head first; a version is the id
that wrote it and whether it is a deleted stub. `Counted` and `Visible` are the
strict walk of `visible_version_2pc_prefix`, which stops at a version in limbo;
`Capture` and `Sees` are `Snapshot`; `WriteOver` is what an update or delete
does to a chain, `Remaining` and `SweepChain` what the sweep leaves of it.

**Transactions.** One action per request, since a statement clones, edits and
installs under the write side of the pool (`BufferPool` looks inside that). The
image is what every attachment reads, `disk` what a crash leaves, `flushed` what
the server believes the disk to hold. A flush writes pages in the careful order,
so what a failure or a crash in the middle leaves is `Torn`: some of the data
pages, and the inventory page only after all of them. An update reads through
its snapshot and writes at the head; between the two stand the tests of
`blocking_transaction` and `snapshot_conflict`, and a blocked writer does nothing
here (its wait is `DbLocks`). Savepoints are marks into the undo windows, each
with an id of its own; ROLLBACK TO kills the ids above its mark, RELEASE folds
them down. `told` is what clients heard of each id, `team` which ids belong to
one transaction, `seen` what a snapshot read when it began: these three and
`claimed` exist for the properties.

**BufferPool.** A page is the set of writes it shows, so that a lost or half
visible write can be told. `install_flushed` stores image, baseline and
fingerprint under three mutexes: `Publish`, `NoteFlushed`, `NoteDisk`. An
attachment takes the pool's mutex and not the write token: `Attach`,
`FindChanged`, `ReadFile`, `Reload`, `Rebase`, `Reopened` run between any steps
of a writer. The token is recursive. `AtomicImage` has the variables `image`,
`acked` and `attached`, and each of its steps is a whole install, an
acknowledged one, or a reload; `acked` exists for the properties.

**MetadataCache.** One relation stands for the catalog, and what is known of it
is the number of the DDL that made it. A lookup is in the steps the code takes
its locks in. DDL first shows in its own session's draft, then in the image at
the commit, and then in the caches, when the end of the transaction calls
`invalidate`: between the last two a session `Publishing` is the only time a
stale answer is allowed. A DDL statement marks its transaction and invalidates
before it has the write side and before first-updater-wins is asked (`DdlBegins`),
so several may stand at that point; one of them lands (`DdlLands`), a refused one
is `DdlFails` and leaves its session with `did_ddl` and nothing to commit.

**Events.** `pending` is keyed as the server keys it: by the transaction's id
or, before it has one, by the attachment's key. Deliveries are collected under
the table's mutex and written after it (`outbox`).

**Gate.** Every access to one of the three atomics is a step. The word the
counters wrap at is a constant.

## 3. Runs

| Run | Bounds | Question |
|---|---|---|
| `LockApi` | 2 owners, 1 lock, modes SR PR SW, one deadline, at most 4 requests | what holds of a lock block under any calls at all |
| `LockDisciplined` | 3 owners, 2 locks, modes PR SW, one deadline, every request they can have (6) | what holds of the server's calls: compatibility, one request each, no deadlock among grants, FIFO, purge |
| `DbLocks` | 3 transactions (1 consistency), 1 relation, waits of 1 tick, 2 ticks of time | what threads are told, timeouts, liveness |
| `DbLocksUpgrade` | 2 consistency transactions | a violation: two protected readers both write (finding) |
| `PageCache` | 4 pages, search budget 5 | graph, recursion and flush under any calls |
| `CarefulFlush` | 5 pages, page 0 the header, every typing, the source's budget of 1000 | every prefix of a flush |
| `Transactions` | 1 row, 2 connections, 3 ids, chains of 3, 1 failing flush, 1 savepoint, one inventory page | what snapshots read, writes overwrite, clients are told and crashes leave |
| `LostUpdate` | 4 ids, chains of 4, 1 savepoint, no failing flush, "deadHead" lifted | a violation: a write over live work behind a dead head (finding) |
| `BufferPool` | 2 threads, 2 pages, 3 writes, token depth 2, 1 failing flush, 1 file replaced | `AtomicImage` is implemented; acknowledged commits are in the file |
| `MetadataCache` | 2 sessions, 2 DDL statements (or 1 and a replaced file), landed or refused | both caches against the schema |
| `EventPosts` | 2 attachments, 1 event, 2 posts | a violation: a post from before the first write is lost (finding) |
| `GateCounts` | 3 attachments, 2 kicks, a word of 8 values | a violation: the count of open transactions wraps (finding) |

Why the bounds are enough. Two owners suffice for what one call can do to the
book-keeping of one block; with four requests they hold several grants each and
queue behind themselves, and the mode set has a pair that is compatible, one
that is not, and a mode (SW) that hides another (PR) from the aggregate. Three
owners and two locks are the smallest instance with a wait cycle, with a waiter
between two others and with a regrant of several waiters. Owners and locks are
symmetric model values in the lock-table runs, which check safety only; DbLocks
checks liveness and uses no symmetry. In `DbLocks` two ticks let one wait
expire while another still has time. Four pages make cycles of every length up
to four, and a budget of five is exceeded by dense graphs and not by sparse
ones. Four content pages and the header hold any chain of references the loops
can build (blob, data, btree, root or pip, pointer, tip).
`RelatedLimit` is 1000 in the source; a plan passes it with, for instance, 32
data and 32 btree pages under one index root. The limit is a parameter: with
1000 it is never reached on five pages, with 4 it is (section 4).

`Transactions` reaches 0.5 million states, `MetadataCache` 3.4, `BufferPool` 0.65.
Three ids are a transaction with a savepoint's id and another that meets it, or
a prepared one, its resolver and a reader; three versions are what a sweep can
cut (a head, what it hides and what that hid). Two connections make every race
the properties speak of, because each relates one transaction to what the others
have done together; the crash may come after any action and within any flush. In
the pool the interesting cases need a statement's dirty install of one thread
under the commit of another that fails half way, hence two pages, three writes
and one fault. In the cache, `MaxDdl` = 3 counts the schema the file came with: two DDL
statements, of one session or of both at once, or one and a file replaced. Connections, pages, writes and
sessions are symmetric, and these runs check no liveness. Savepoints within
savepoints are beyond the run of `Transactions` and within its theorems, which
hold for any `MaxMarks`.

`LockDisciplined` tells states apart by owners and table only (`VIEW
KnocksApart`): the calls of `DisciplinedSpec` post knocks and never read them,
and none of that run's properties speaks of them. `LockApi` has them in its states.

`CHECK_DEADLOCK FALSE` stands where the system stops: the lock runs when a
bound is reached (`MaxRequests`, or time running out at `MaxTime` with all
transactions over), the flush when it is done, and `Transactions`, `BufferPool`
and `MetadataCache` when their ids, writes or changes are used up.

**Fairness.** `DbLocks` assumes that a parked thread re-tests (the wait is
`wait_timeout` with at most 50 ms, so the thread needs no notification) and
that the clock runs; no fairness on any caller. `PageCache` and `CarefulFlush`
assume that the code of a call in progress goes on; a caller need not call.

## 4. Findings

Each is a violation run; TLC prints the shortest trace.

- `LostUpdate`: `blocking_transaction` and `snapshot_conflict` ask about the head
  of the chain only. After UPDATE, SAVEPOINT, UPDATE, ROLLBACK TO the head is dead
  and the version behind it is live work of the same transaction: another one is
  not stopped, reads the committed version behind both and puts its own in front.
  One of the two updates is lost. Under SNAPSHOT the same happens without a
  savepoint: T commits a version that S does not see, U writes over it and rolls
  back, and S may then write, though T's commit should stop it. A statement that
  fails half way leaves a dead head like ROLLBACK TO.
- `DbLocksUpgrade`: `reserve_relation` answers Granted for any mode to an owner
  that has any grant, so a consistency transaction that read a table does not
  get its protected write.
- `EventPosts`: a POST_EVENT before the transaction's first write is filed under
  another key than the one its commit asks for. It is lost, or, after COMMIT
  RETAINING, delivered by a later commit of the handle.
- `GateCounts`: a forced shutdown zeroes `active_tx` while kicked attachments
  still hold counted transactions; the end of each takes one off and the count
  wraps. Later `-shut -tran` requests wait for nothing and fail.

**Lifted restrictions.** Where the code breaks a property only in one situation,
the module has a constant that lets the situation happen. The run leaves it out
and checks everything else; with it TLC finds the violation named here.

| Module, constant | Lets happen | Breaks |
|---|---|---|
| `Transactions`, `Beyond` "sweepBeside" | a sweep beside an open snapshot: it judges by the inventory and asks no snapshot (`gc.rs` 188) | `RepeatableRead` |
| "twoResolvers" | a second connection reconnects a limbo transaction still held: limbo is asked at OP_RECONNECT and not when it is resolved; COMMIT RETAINING of a reconnected id ends as a rollback | `ToldTheTruth` |
| "sideTimeout" | ROLLBACK TO does not get the write side: `kill_window_ids` returns before it takes the ids out of `nested_tx` (`server.rs` 5693; the comment at 5680 says that direction must never happen) | `ToldTheTruth` |
| "prepareFails" | a prepare fails that reserved its id, or after the inventory page: `prepare_tx` adopts the id before the flush | `ToldTheTruth` |
| "manyInLimbo" | a transaction with savepoints' ids is prepared: all ids go to limbo, resolving flips one | `AllOrNothing` |
| "deadHead" | a write to a row whose head is dead and hides a version that would have stopped it: the run `LostUpdate` | `WritesOverWhatItSees` |
| `MaxFaults` = 2 | a commit whose flush fails at its very end, its bits already in the file, and then a sweep, which takes the abandoned version out of a row and fails or dies before it writes the inventory: the bits of a transaction stand in the file without all of its rows | `CrashLosesNothing` |
| `IdsPerTip` small | the ids of one transaction lie on two inventory pages: a flush that fails between them, or a crash, commits half | `AllOrNothing` |
| `BufferPool`, `AttachUnsettled` | an attachment comes while a flush is half way, or after it failed: `open` (`pool.rs` 317) reads the half-written file, drops dirty installs of others, and makes it the baseline | `ImageIsAtomic` |
| `MetadataCache`, `Beyond` "imageFirst" | DDL commits between the image a lookup reads and the generation it files the answer under (`mdc.rs` 117 takes them in that order) | `CacheIsCurrent` |
| "quietUndo" | ROLLBACK TO undoes DDL that left no residue and invalidates nothing (`server.rs` 5808) | `PlansAreCurrent` |
| "endFails" | the flush of an end with DDL fails and the statement cache keeps its plans | `PlansAreCurrent` |
| `CarefulFlush`, `RelatedLimit` = 4 | the search of the graph runs out: the forced write of the window page puts the inventory ahead of pages it commits (`cch/lib.rs` 123, 140; the doc at 276 says it goes last) | `TipLast` |

On `LockTable` TLC finds `NobodyWaitsForever` violated (the constants of
`LockDisciplined` without a deadline): the deadlock scan follows grants only (`lck/lib.rs` 574), so a cycle closed through the FIFO order of a queue is
parked, where the doc of `Verdict::Deadlock` (255) says it is denied "instead of
letting it wait forever". The server passes a deadline with every wait, so it shows
there as a timeout instead of a deadlock error.

On `Gate` TLC also finds, beside the run's property: an attachment that comes
between the kick and the header's byte stays, neither kicked nor refused, in a
file whose header then says full or single-user (the doc at `server.rs` 39582
says a straggler is told to go); an attachment that counts itself before the
kick's store and reads the generation after it is in nobody's count; two
shutdowns at once, each of which compared its target with the mode before the
other's write, can loosen the mode. And a kicked attachment that detaches reads
the shutter's 1 as its own and purges temporary rows (`server.rs` 144967) that
the comment above keeps for "a live session".

Seen beside these: after a failed flush the baseline no longer says what the
file holds (`pool.rs` 126); the sweep sets the markers to the next id while held
ids and limbo stay below them; a writer that meets an ACTIVE head without an
owner loops until a sweep (`with_conflict_wait`); posts are delivered before the
commit they belong to, which may fail; ROLLBACK TO does not take posts back; a
detach leaves interests, socket and posts behind, and a second OP_QUE_EVENTS
keeps the first one's id.

Met while modelling, reachable only through calls of the lock table that the
server does not make, and so without a run: a convert to a weaker mode, an
`expire` and the purge of an owner that only waits run no regrant sweep
(`lib.rs` 367, 461, 493; after a convert the knock protocol of line 444 does not
grant the waiter); an owner with two grants on a lock (re-enqueue, or a waiting
convert regranted beside its first grant) keeps one through `purge_owner`
(line 488) and can come to hold a mode that hides a conflict (line 366); the
victim of the scan leaves its knocks (line 332). The case of `expire` does occur
in the server: a writer queued behind an expired wait stays parked until the
next release or its own deadline. `EveryWaitReturns` holds of it; it is late,
not lost.

## 5. Proofs

All theorems hold for every value of the constants under the assumptions named
`...Assumption` in the modules: finitely many owners, modes and deadlines of the
right type. TLC evaluates the assumptions in the runs.

`LockTableOpsProofs` has no theorem of its own: it says of every operation on a
block (enqueue, dequeue, convert, expire, purge, the regrant sweep) that it keeps
the block sound and whose requests it grants, parks, takes away or leaves alone.
`LockTableProofs` and `DbLocksProofs` rest on these lemmas.

`LockTableProofs`, about `Spec`, any calls in any order:

- `TypeCorrect`, `CountsAlwaysExact`, `NoLostQueue`, `DataNeverOutlives`
  (`TypeOK`, `CountsExact`, `QueueHasHolder`, `DataDiesWithLock`).

They come from one inductive invariant, `TableInv`: types, exact counts, no
queue without a holder and no data in a free block, per lock. None of the parts
is inductive alone. That a queue has a holder rests on the counts: the sweep
of `dequeue` stops only at a request the aggregate refuses, and if the counts
were not exact it could refuse on behalf of holders that are gone. With exact
counts a refusal means a grant exists (`AggregateIsSound`, `ProbeIsSound`,
`SweepOK`). Each operation of a block has its lemma, and `TableInvNext` has one
step per action.

The same module, about `DisciplinedSpec`:

- `NoConflictingGrants` (`GrantedCompatible`): the soundness of the single
  probe. The probe compares with the highest granted mode only; it is sound
  because no pair of compatible modes hides a conflict behind the higher one,
  and the sweep keeps that by testing each waiter against the raised aggregate.
- `OneRequestPerOwner` (`OneRequest`).
- `NoDeadlockAmongGrants` (`WaitForAcyclic`): if the scan at park time found no
  cycle, none ever appears. The argument is that a later grant adds edges only
  towards owners that were let in, an owner has one wait, and whoever is let in
  stops waiting; so every new edge leads to an owner without edges.
- `PurgesAreComplete` (`PurgeIsComplete`) and `NobodyOvertakes` (`NoOvertaking`),
  about steps. Both come down to where the regrant sweep stops: it grants a prefix
  of the queue, each request against the aggregate the ones before it have raised,
  so whom it passes it has granted, and the first it leaves is refused by a holder.

The invariant is `DisciplineInv`: every block orderly (one request each,
compatible grants), every owner waiting in at most one place, and the graph
acyclic. What the discipline contributes is that an owner that asks, converts or
releases is not parked, and asks only where it holds nothing: without the first,
a grant could add an edge towards an owner that waits; without the second, an
owner could have two grants.

`DbLocksProofs`, any number of transactions, relations, timeouts and ticks:

- `TypeCorrect` (`TypeOK`), `EndedIsTrue` (`EndedMeansEnded`), `ProbeIsExact`
  (`HeldIffLive`), `EveryWaitHasItsThread` (`NoOrphanWait`), `EveryThreadHasItsWait`
  (`NoLostWait`);
- `ReservationsStay` (`ReservationsLast`), `GrantsBeatTimeouts`
  (`GrantBeatsTimeout`), about steps;
- `ConsistencyKeepsOthersOut`: no transaction of another degree is let write what
  a consistency transaction holds. `OneConsistencyIsProtected`
  (`ProtectedFromWriters`) is the whole of what the source documents, under the
  hypothesis that at most one transaction has degree 3; without it the property is
  false (`DbLocksUpgrade`).

`DbInv` is the inductive invariant. What it adds to the properties is why each
request is in the table. A grant is a reservation at the level its owner asks for,
the lock of a transaction that lives, or the share of a thread that waited for that
transaction (`GrantsAreDue`); a parked request is the call its thread sleeps in,
with its mode and deadline (`WaitsAreCalls`); a live transaction holds its own lock
exclusively (`LiveHolds`), and what a thread was let write it holds (`WritersHold`).
So a share on a transaction's lock is granted only when that transaction no longer
lives, which is what "ended" says; and `expire`, which drops the overdue requests of
every thread, takes none whose thread would not have given up by itself.

`PageCacheProofs`, about `CacheSpec`, any number of pages and any budget:

- `PrecedenceIsDirty`, `GraphIsAcyclic`, `RecursionIsBounded`, `FlushIsComplete`
  (`FirstIsDirty`, `NoCycle`, `StackFollowsGraph`, `FlushLeavesNothing`).

The invariant `IInv` adds that the two adjacency maps are one graph (`OneGraph`)
and that what a flush has still to write is on its list. The graph gains an edge
only in `Precedence`, and only where the search has found no way back: that a
cycle through the new edge would have been such a way is `NoCycle`'s step, and a
search that runs out is harmless here because it answers yes. The stack is a
path of the graph, so without a cycle no page is on it twice.

`CarefulFlushProofs`, any number of pages of any types:

- `EachPageIsWrittenOnce` (`AllWrittenOnce`), also when the search runs out;
- `NothingPointsIntoSpace`, `BitsGoBetween`, `HeaderIsFirst`, `InventoryIsLast`
  (`NothingIntoSpace`, `AllocatedBetween`, `HeaderFirst`, `TipLast`), each for
  behaviours in which the search stays `WithinBudget`. That hypothesis is needed:
  beyond it `TipLast` is false (section 4).
- `BudgetIsEnough`: a flush of so few pages that their number squared is below
  `RELATED_LIMIT` - up to 31 pages at the source's 1000 - stays within it.

`BInv` has the stages of the flush and what is on the list at each. `DownInv` says
that the edges of the graph go down the ranks of the page types, so that the tie
break of a cycle, which writes a page at once, never happens. `OrderInv` says that each
precedence call is still to be made, or an edge of the graph, or over because its
first page is written, and that nothing is on the list before what it must follow.
That the graph has no cycle and the list is complete is cited from
`PageCacheProofs`.

`BufferPoolProofs`, any number of threads, pages, writes and failing flushes:

- `AcknowledgedCommitsStay` (`AckedIsDurable`);
- `PoolIsAtomicImage` (`ImageIsAtomic`): every step of the pool is a step of
  `AtomicImage` or a stutter.

Both assume `~AttachUnsettled`, the restriction of section 4. `IInv` says who may
be where given who has the token (`TokenInv`), that a work copy holds the image
as it is, or with one write more (`WorkInv`, which is what the token is for: nobody
else can install meanwhile), that a thread reading the file again is alone with
it (`OpenInv`), that no page of the baseline shows more than the file or the image
(`BaseInv`: a flush leaves out the pages equal to the baseline, so these must be in
the file already), and that what was acknowledged is in both (`AckInv`).

`MetadataCacheProofs`, any number of sessions and changes:

- `SharedCacheIsCurrent` (`CacheIsCurrent`), assuming "imageFirst" is not lifted;
- `StatementPlansAreCurrent` (`PlansAreCurrent`), assuming nothing is lifted.

`CacheInv` rests on `AnswerInv`: while nobody is publishing, a lookup under way
whose key is the present generation has read the committed schema, because the
invalidation that ends a publication makes every key taken before it old.
`PlanInv` says the same of plans, made and in the making.

`TransactionsProofs`, any number of connections, rows, ids, savepoints and failing
flushes:

- `TypesHold`, `ToldTheTruthHolds`, `OitIsHonestHolds` (`TypeOK`, `ToldTheTruth`,
  `OitIsHonest`);
- `AllOrNothingHolds` (`AllOrNothing`), for behaviours in which the ids of a
  transaction stay on one inventory page (`[]TeamsOnOnePage`). That hypothesis is
  needed: a flush that fails between two pages commits half (section 4, `IdsPerTip`).
  With at least `MaxTx` ids on a page, as in the run, every behaviour satisfies it;
- `RepeatableReadHolds` (`RepeatableRead`), if "sweepBeside" is not lifted;
- `WritesOverWhatItSeesHolds` (`WritesOverWhatItSees`), if "deadHead" is not lifted;
- `CrashLosesNothingHolds` (`CrashLosesNothing`), for behaviours in which a flush
  fails only over a file that is as the baseline says (`OverSound`): at most one
  failing flush that tears the file in the life of a process, any number over its
  restarts. That hypothesis is needed: a second failure over the torn file breaks
  it (section 4, `MaxFaults`);
- `OneFaultLosesNothing` (`CrashLosesNothing`) without a hypothesis on behaviours,
  where `MaxFaults` is 0 or 1, as in the run.

All assume `Ordinary`: "twoResolvers", "sideTimeout", "prepareFails" and "manyInLimbo"
of section 4 are not in `Beyond`, each of which breaks one of them. A sweep beside a
snapshot and a write over a dead head each break the one theorem that excludes it and
are allowed in all the others.

The inductive invariant is `Inv`, seven parts that need each other. The properties
speak of image and file, and a failed flush leaves the two apart, so the invariant
has to say by how much. `FilesInv` does, id by id: against the baseline `flushed`
the image is ahead only where a ROLLBACK TO made an active id dead, and the file
only where a flush that failed after the inventory page committed or killed an id
the baseline has as open. So what is committed in memory is committed in the
baseline and in the file (`CommittedIsWritten`), which is why a crash takes no
acknowledged commit back. The other direction, that nothing undone comes back, rests
on `HeldInv` and `ReconInv`: an id has one connection that answers for it, is active
or in limbo while it has, and is committed in no file; an adopted id is in limbo and
nobody else's; so no second commit or resolution reaches an id a client was told
about (`ToldInv`). `OitInv` says what the marker of either file is worth.

`TeamsInv` adds what all-or-nothing needs: an open transaction holds every id of
its team that no savepoint undid (`Together`), so a commit takes all of them; an id
in limbo has no such companion (`AloneInLimbo`), so resolving it alone splits nothing.

The next three theorems speak of version chains as well as of ids. Most steps leave
the chains alone and move ids only forward: `Onward` says that none but an open id
changes its state, `Passing` that a step does this and hands no id from one
connection to another. What is left to look at is a write, a sweep and a crash.

`RepeatableRead` is inductive with `SnapInv`: every id a snapshot counts is over
(`Settled`, since `Capture` takes in the active and limbo ids below its limit and
nobody reuses an id), so no step changes what the snapshot counts; and a version
somebody puts in front of a chain, or in place of its dead head, is not counted
(`ReadBehind`). A sweep may take out what the snapshot reads: hence "sweepBeside".

`WritesOverWhatItSees` asks for the first version behind a connection's own work.
`OverInv` says it of every pair of places in the chain: where one is the
connection's, the other is not, and all between are its own or dead, the other is
committed and known to its snapshot, or dead (`OverKnown`). Stated of pairs it
survives the steps that the first version alone does not: an id between that dies, a
sweep that cuts the chain, and another connection's write. For a write of the
connection itself it is `Target` that says so (`TargetKnown`): the code tests the
head, and without "deadHead" that test reaches the first version that is not dead.

`CrashLosesNothing` compares the rows of the file with those of the image, which a
write changes long before a flush. `RowInv` relates both to the baseline: the row
of the image is the row of the baseline with versions in front, none of them
committed, or in place of its dead head (`Ahead`), and as long as none of these is
committed, the row of the file reads like that of the baseline (`StandsIn`) - under
every inventory the file may yet have, not only the present one. Which these are is
`Future`: what is committed stays so, and an id that is dead, or active with nobody
to answer for it, stays uncommitted unless the file has it committed already
(`Hopeless`). This set of inventories only shrinks (`Narrows`), so what holds of it
goes on to hold. A flush leaves out the rows equal to the baseline; where the sweep
makes a row equal to it, all it took off is hopeless (`SweptOff`), so the file's row
still reads the same. A flush that fails leaves each row of the file as it was
or as in the copy, and the inventory only after all rows. `DeadInv`, that nothing
dead in memory is committed in the file, closes the circle. With two failures it
does not close: the first leaves an abandoned id committed in the file, the sweep
backs it out, and the second puts the swept row under the old inventory.

Only model-checked are the liveness properties `EveryWaitReturns` (`DbLocks`),
`OperationsReturn` (`PageCache`) and `FlushEnds` (`CarefulFlush`): the prover does not
treat `ENABLED` or fairness. Every invariant and step property of the passing runs is
stated by a theorem. Induction over data stays with TLC too; the operators avoid
recursion so that the modules can be proved about.

## 6. Plan

1. Composition of `BufferPool` with `DbLocks`: the write token is a lock the
   deadlock scan cannot see, and a writer must give it back before it waits.
2. Composition of `Events` with the end of a transaction whose flush fails.
3. Undo windows of failing statements and of autonomous blocks in `Transactions`.

## 7. Not modelled

Page bytes, record encoding, SQL, authentication, backup streams, services, blob
addressing and page I/O: sequential data transformations that the repository
tests against the engine. The whole-file write of a file that grew
(`flush_careful` does not order it and says so). A page write that fails: the
flush stops there, which leaves the same file as a crash. The backup-mode and
`FC_NO_CAREFUL` diversions of the flush. Statistics counters, the registry of
lock tables by path and poisoned mutexes. `now_ms` is read by `reserve_relation`
under the mutex and by `wait_for_transaction` just before it; the model reads it
in the same step. An attachment's savepoint and autonomous windows hold
further transaction locks under the same owner; `DbLocks` has one per owner.

In `Transactions`: the undo window of a failing statement, autonomous blocks,
generators (not transactional by design), temporary tables, the markers OAT and
OST, statement snapshots of READ CONSISTENCY, sweeps that find nothing to do, and a
sweep's errors on a chain it cannot follow (it skips the chain). `Put` writes the
header's `next` and `oit` with every flush, where the source writes the header
page if it changed. In
`BufferPool`: a deleted file (`forget`), a reader that fetches single pages, the
delta of backup mode; and in its run no attachment looks between the three stores
of a writer's install (`AttachUnsettled`, section 4). In `CarefulFlush`: a search
that runs out of its budget happens with a smaller `RelatedLimit` only (section 4).
In `Events`: an attachment that leaves (section 4 says what
it leaves behind). In `Gate`: more than one transaction handle per attachment, and
the rows of MON$ATTACHMENTS. `retune_tx` is not called.

The share of the repository these modules map is small and stays so: of its 263
thousand lines nearly all are the SQL compiler, the executor, on-disk formats,
character sets and the tests inside the source files, which run in one thread on
data that is private to a request. What is shared between threads or must survive
a crash is the table in section 1.
