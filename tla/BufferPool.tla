------------------------------ MODULE BufferPool ------------------------------
(***************************************************************************)
(* The buffer pool, src/crates/cch/src/pool.rs, with the writers and the   *)
(* attachments of src/crates/wire/src/server.rs around it.                 *)
(*                                                                         *)
(* A page is the set of writes it shows.  A writer clones the image under  *)
(* the write token, edits the clone and installs it; a statement leaves it *)
(* there, dirty, and a commit writes the pages that differ from the flush  *)
(* baseline, one after the other, before it installs.  An attachment       *)
(* compares the file's length and time (stamp) with the ones the pool      *)
(* noted and reads the file again when they differ; it takes the pool's    *)
(* mutex for that and not the write token.                                 *)
(***************************************************************************)
EXTENDS Naturals

CONSTANTS
    Threads,         \* connections, one thread each
    Pages,           \* pages of the file
    Writes,          \* statements and commits that can be made
    NoThread,        \* nobody
    MaxDepth,        \* bound of the token's recursion
    MaxFaults,       \* bound of the flushes that fail
    MaxReloads,      \* bound of the times the file is replaced from outside
    AttachUnsettled  \* may an attachment come between the first page of a
                     \* flush and the note of the file's new stamp?

ASSUME BufferPoolAssumption ==
    /\ NoThread \notin Threads
    /\ {MaxDepth, MaxFaults, MaxReloads} \subseteq Nat
    /\ AttachUnsettled \in BOOLEAN

VARIABLES
    file,      \* the pages of the file
    stamp,     \* its length and modification time
    image,     \* SharedImage.image
    flushed,   \* SharedImage.flushed
    disk,      \* SharedImage.disk: the stamp the pool knows
    epoch,     \* how often the pool has read the file again
    owner,     \* WriteState
    depth,
    tokens,    \* the WriteTokens each thread has in hand
    at,        \* where each thread stands
    work,      \* its working copy
    todo,      \* the pages its flush has still to write
    fp,        \* the stamp its attachment found
    raw,       \* the pages its attachment read
    attached,  \* the threads that have the database open
    used,      \* writes made
    faults,    \* flushes that failed
    acked      \* what the last acknowledged commit had in each page

onDisk == <<file, stamp>>
shared == <<image, flushed, disk, epoch>>
token == <<owner, depth, tokens>>
locals == <<at, work, todo, fp, raw>>
history == <<used, faults, acked>>
poolVars == <<onDisk, shared, token, locals, attached, history>>

Contents == [Pages -> SUBSET Writes]
Nothing == [p \in Pages |-> {}]

(* An attachment holds the mutex of the pool's map from its first look at  *)
(* the file to its last store.                                             *)
Opening == {"found", "read", "reloaded", "rebased"}
PoolIsFree == \A t \in Threads : at[t] \notin Opening

Init ==
    /\ file = Nothing /\ image = Nothing
    /\ flushed = Nothing /\ acked = Nothing
    /\ stamp = 0 /\ disk = 0 /\ epoch = 0
    /\ owner = NoThread /\ depth = 0
    /\ tokens = [t \in Threads |-> 0]
    /\ at = [t \in Threads |-> "idle"]
    /\ work = [t \in Threads |-> Nothing]
    /\ todo = [t \in Threads |-> {}]
    /\ fp = [t \in Threads |-> 0]
    /\ raw = [t \in Threads |-> Nothing]
    /\ attached = {}
    /\ used = {}
    /\ faults = 0

Go(t, where) == at' = [at EXCEPT ![t] = where]

-------------------------------------------------------------------------------
(* begin_write, end_write.  A wait that runs out leaves nothing behind.    *)
BeginWrite(t) ==
    /\ t \in attached /\ at[t] = "idle" /\ tokens[t] < MaxDepth
    /\ \/ owner = NoThread /\ depth' = 1
       \/ owner = t /\ depth' = depth + 1
    /\ owner' = t
    /\ tokens' = [tokens EXCEPT ![t] = @ + 1]
    /\ UNCHANGED <<onDisk, shared, locals, history, attached>>

(* Mutant: any drop of a token gives the write side back. *)
OwnerAfter_NobodyAtOnce(d) == NoThread

OwnerAfter(d) == IF d = 0 THEN NoThread ELSE owner

EndWrite(t) ==
    /\ tokens[t] > 0 /\ at[t] = "idle"
    /\ tokens' = [tokens EXCEPT ![t] = @ - 1]
    /\ depth' = IF depth > 0 THEN depth - 1 ELSE 0
    /\ owner' = OwnerAfter(depth')
    /\ UNCHANGED <<onDisk, shared, locals, history, attached>>

(* work_copy: the clone is taken with a token in hand.                     *)
WorkCopy(t) ==
    /\ tokens[t] > 0 /\ at[t] = "idle"
    /\ Go(t, "copied")
    /\ work' = [work EXCEPT ![t] = image]
    /\ UNCHANGED <<onDisk, shared, token, history, todo, fp, raw, attached>>

Edit(t, w, P) ==
    [p \in Pages |-> IF p \in P THEN work[t][p] \cup {w} ELSE work[t][p]]

(* A statement's write stops at the pool, or at an error before it.        *)
InstallDirty(t, w, P) ==
    /\ at[t] = "copied" /\ w \notin used
    /\ Go(t, "idle")
    /\ image' = Edit(t, w, P)
    /\ used' = used \cup {w}
    /\ UNCHANGED <<onDisk, token, flushed, disk, epoch, work, todo,
                   fp, raw, attached, faults, acked>>

DropCopy(t) ==
    /\ at[t] = "copied"
    /\ Go(t, "idle")
    /\ UNCHANGED <<onDisk, shared, token, history, work, todo, fp, raw, attached>>

-------------------------------------------------------------------------------
(* flush_and_install.                                                      *)

(* Mutant: the pages that differ from the image, which earlier statements  *)
(* have already changed there. *)
Changed_SinceInstalled(new) == {p \in Pages : new[p] # image[p]}

Changed(new) == {p \in Pages : new[p] # flushed[p]}

Flush(t, w, P) ==
    /\ at[t] = "copied" /\ w \notin used
    /\ Go(t, "flushing")
    /\ work' = [work EXCEPT ![t] = Edit(t, w, P)]
    /\ todo' = [todo EXCEPT ![t] = Changed(Edit(t, w, P))]
    /\ used' = used \cup {w}
    /\ UNCHANGED <<onDisk, shared, token, fp, raw, attached, faults, acked>>

WritePage(t, p) ==
    /\ at[t] = "flushing" /\ p \in todo[t]
    /\ file' = [file EXCEPT ![p] = work[t][p]]
    /\ stamp' = stamp + 1
    /\ todo' = [todo EXCEPT ![t] = @ \ {p}]
    /\ UNCHANGED <<shared, token, history, at, work, fp, raw, attached>>

FlushFails(t) ==
    /\ at[t] = "flushing" /\ faults < MaxFaults
    /\ faults' = faults + 1
    /\ Go(t, "idle")
    /\ UNCHANGED <<onDisk, shared, token, work, todo, fp,
                   raw, attached, used, acked>>

(* install_flushed: three stores under three mutexes.                      *)
Publish(t) ==
    /\ at[t] = "flushing" /\ todo[t] = {}
    /\ Go(t, "published")
    /\ image' = work[t]
    /\ acked' = work[t]
    /\ UNCHANGED <<onDisk, token, flushed, disk, epoch, work, todo,
                   fp, raw, attached, used, faults>>

NoteFlushed(t) ==
    /\ at[t] = "published"
    /\ Go(t, "noted")
    /\ flushed' = work[t]
    /\ UNCHANGED <<onDisk, token, history, image, disk, epoch,
                   work, todo, fp, raw, attached>>

NoteDisk(t) ==
    /\ at[t] = "noted"
    /\ Go(t, "idle")
    /\ disk' = stamp
    /\ UNCHANGED <<onDisk, token, history, image, flushed, epoch,
                   work, todo, fp, raw, attached>>

-------------------------------------------------------------------------------
(* open.                                                                   *)
Attach(t) ==
    /\ t \notin attached /\ at[t] = "idle"
    /\ PoolIsFree
    /\ disk = stamp
    /\ attached' = attached \cup {t}
    /\ UNCHANGED <<onDisk, shared, token, locals, history>>

FindChanged(t) ==
    /\ t \notin attached /\ at[t] = "idle"
    /\ PoolIsFree
    /\ disk # stamp
    /\ attached = {} \/ AttachUnsettled
    /\ Go(t, "found")
    /\ fp' = [fp EXCEPT ![t] = stamp]
    /\ UNCHANGED <<onDisk, shared, token, history, work, todo, raw, attached>>

ReadFile(t) ==
    /\ at[t] = "found"
    /\ Go(t, "read")
    /\ raw' = [raw EXCEPT ![t] = file]
    /\ UNCHANGED <<onDisk, shared, token, history, work, todo, fp, attached>>

Reload(t) ==
    /\ at[t] = "read"
    /\ Go(t, "reloaded")
    /\ epoch' = epoch + 1
    /\ image' = raw[t]
    /\ UNCHANGED <<onDisk, token, history, flushed, disk, work,
                   todo, fp, raw, attached>>

Rebase(t) ==
    /\ at[t] = "reloaded"
    /\ Go(t, "rebased")
    /\ flushed' = raw[t]
    /\ UNCHANGED <<onDisk, token, history, image, disk, epoch,
                   work, todo, fp, raw, attached>>

Reopened(t) ==
    /\ at[t] = "rebased"
    /\ Go(t, "idle")
    /\ disk' = fp[t]
    /\ attached' = attached \cup {t}
    /\ UNCHANGED <<onDisk, token, history, image, flushed, epoch,
                   work, todo, fp, raw>>

Detach(t) ==
    /\ t \in attached /\ at[t] = "idle" /\ tokens[t] = 0
    /\ attached' = attached \ {t}
    /\ UNCHANGED <<onDisk, shared, token, locals, history>>

(* Somebody deletes the file and makes another, while nobody has it open.  *)
Replace ==
    /\ attached = {} /\ PoolIsFree
    /\ epoch < MaxReloads /\ disk = stamp
    /\ file' = Nothing
    /\ stamp' = stamp + 1
    /\ acked' = Nothing
    /\ UNCHANGED <<shared, token, locals, attached, used, faults>>

Next ==
    \/ \E t \in Threads :
          \/ BeginWrite(t) \/ EndWrite(t) \/ WorkCopy(t) \/ DropCopy(t)
          \/ \E w \in Writes, P \in SUBSET Pages :
                InstallDirty(t, w, P) \/ Flush(t, w, P)
          \/ \E p \in Pages : WritePage(t, p)
          \/ FlushFails(t) \/ Publish(t) \/ NoteFlushed(t) \/ NoteDisk(t)
          \/ Attach(t) \/ FindChanged(t) \/ ReadFile(t) \/ Reload(t) \/ Rebase(t)
          \/ Reopened(t) \/ Detach(t)
    \/ Replace

Spec == Init /\ [][Next]_poolVars
-------------------------------------------------------------------------------
(* The pool keeps its promise: no install is ever lost from the image or   *)
(* seen by halves, and a reload gives back what was acknowledged           *)
(* ("the image is published atomically ... a reader sees the image either  *)
(* before or after a writer's install and never during it").               *)
A == INSTANCE AtomicImage WITH image <- image, acked <- acked, attached <- attached
ImageIsAtomic == A!Spec

(* What a commit was acknowledged for is in the file, whatever flushes are *)
(* under way or have failed since.                                         *)
AckedIsDurable == \A p \in Pages : acked[p] \subseteq file[p]
===============================================================================
