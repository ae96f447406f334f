---------------------------- MODULE MetadataCache ----------------------------
(***************************************************************************)
(* The metadata cache of a database (src/crates/wire/src/mdc.rs), shared   *)
(* by its attachments, and the statement cache of each attachment          *)
(* (src/crates/wire/src/stmc.rs), with the statements that fill them and   *)
(* the ends of DDL that empty them (src/crates/wire/src/server.rs).        *)
(*                                                                         *)
(* One relation stands for the catalog; what there is to know of it is the *)
(* number of the DDL that made it so.  A statement is planned in the steps *)
(* the code takes its locks in: the generation for the plan's key, the     *)
(* image, the generation for the cache's key, the lookup, and the store.   *)
(***************************************************************************)
EXTENDS Naturals

CONSTANTS
    Sessions,    \* connections
    MaxDdl,      \* DDL statements begun, and replaced files
    MaxReloads,  \* times the file is replaced from outside
    Beyond       \* what may happen besides (see Beyonds)

(*  "imageFirst"  DDL commits between the image a lookup will read from and *)
(*                the generation it files the answer under                 *)
(*  "quietUndo"   ROLLBACK TO undoes DDL that leaves no residue            *)
(*  "endFails"    the end of a transaction with DDL cannot be written      *)
Beyonds == {"imageFirst", "quietUndo", "endFails"}

ASSUME MetadataCacheAssumption ==
    /\ {MaxDdl, MaxReloads} \subseteq Nat
    /\ Beyond \subseteq Beyonds

VARIABLES
    schema,      \* what the committed catalog in the image says
    made,        \* DDL statements begun so far, and replaced files
    poolEpoch,   \* times the pool has read the file again
    generation,  \* Cache: generation, epoch and the one answer
    epoch,
    answer,
    attached,    \* sessions that have the database open
    at,          \* where each session stands
    did_ddl,     \* its transaction has run DDL
    draft,       \* what its own uncommitted DDL says
    plans,       \* its statement cache: generation and answer of its plan
    key,         \* the generation a plan in the making is filed under
    img,         \* what the image in its hand, or its DDL's copy, says
    cacheKey     \* the generation its answer is filed under

onFile == <<schema, made, poolEpoch>>
cache == <<generation, epoch, answer>>
planning == <<plans, key, img, cacheKey>>
metaVars == <<onFile, cache, attached, at, did_ddl, draft, planning>>

None == 0
NoPlan == [generation |-> None, about |-> None]

Go(s, where) == at' = [at EXCEPT ![s] = where]
Idle(s) == s \in attached /\ at[s] = "idle"

(* The catalog as a session reads it: its own uncommitted DDL counts.      *)
View(s) == IF draft[s] # None THEN draft[s] ELSE schema

Init ==
    /\ schema = 1 /\ made = 1 /\ poolEpoch = 0
    /\ generation = 1 /\ epoch = 0 /\ answer = None
    /\ attached = {}
    /\ at = [s \in Sessions |-> "idle"]
    /\ did_ddl = [s \in Sessions |-> FALSE]
    /\ draft = [s \in Sessions |-> None]
    /\ plans = [s \in Sessions |-> NoPlan]
    /\ key = [s \in Sessions |-> None]
    /\ img = [s \in Sessions |-> None]
    /\ cacheKey = [s \in Sessions |-> None]

-------------------------------------------------------------------------------
(* Planning a statement that is not in the statement cache.                *)
Prepare(s) ==
    /\ Idle(s)
    /\ plans[s].generation # generation
    /\ Go(s, "keyed")
    /\ key' = [key EXCEPT ![s] = generation]
    /\ UNCHANGED <<onFile, cache, attached, did_ddl, draft, plans, img, cacheKey>>

TakeImage(s) ==
    /\ at[s] = "keyed"
    /\ Go(s, "image")
    /\ img' = [img EXCEPT ![s] = View(s)]
    /\ UNCHANGED <<onFile, cache, attached, did_ddl, draft, plans, key, cacheKey>>

Planned(s, about) ==
    plans' = [plans EXCEPT ![s] = [generation |-> key[s], about |-> about]]

(* A session with uncommitted DDL of its own reads the catalog directly.   *)
ReadOwn(s) ==
    /\ at[s] = "image" /\ did_ddl[s]
    /\ Go(s, "idle")
    /\ Planned(s, img[s])
    /\ UNCHANGED <<onFile, cache, attached, did_ddl, draft, key, img, cacheKey>>

TakeKey(s) ==
    /\ at[s] = "image" /\ ~did_ddl[s]
    /\ img[s] = View(s) \/ "imageFirst" \in Beyond
    /\ Go(s, "looking")
    /\ cacheKey' = [cacheKey EXCEPT ![s] = generation]
    /\ UNCHANGED <<onFile, cache, attached, did_ddl, draft, plans, key, img>>

Found(s) == answer # None /\ cacheKey[s] = generation

Hit(s) ==
    /\ at[s] = "looking" /\ Found(s)
    /\ Go(s, "idle")
    /\ Planned(s, answer)
    /\ UNCHANGED <<onFile, cache, attached, did_ddl, draft, key, img, cacheKey>>

Miss(s) ==
    /\ at[s] = "looking" /\ ~Found(s)
    /\ Go(s, "reading")
    /\ UNCHANGED <<onFile, cache, attached, did_ddl, draft, planning>>

(* Mutant: the generation is not asked again before the store. *)
MayStore_Always(s) == TRUE

MayStore(s) == cacheKey[s] = generation

Store(s) ==
    /\ at[s] = "reading"
    /\ Go(s, "idle")
    /\ answer' = IF MayStore(s) THEN img[s] ELSE answer
    /\ Planned(s, img[s])
    /\ UNCHANGED <<onFile, generation, epoch, attached, did_ddl, draft, key, img, cacheKey>>

-------------------------------------------------------------------------------
(* invalidate_meta: the shared cache and the session's own.                *)
Invalidate == generation' = generation + 1 /\ answer' = None /\ UNCHANGED epoch

InvalidateMeta(s) ==
    /\ Invalidate
    /\ plans' = [plans EXCEPT ![s] = NoPlan]
    /\ UNCHANGED <<key, cacheKey>>

(* Mutant: the end of a transaction that was rolled back keeps the caches. *)
ForgetAtEnd_CommitOnly(s) ==
    IF at[s] = "published" THEN InvalidateMeta(s) ELSE UNCHANGED <<cache, plans, key, cacheKey>>

ForgetAtEnd(s) == InvalidateMeta(s)

(* The ends of other transactions, which hold the write side throughout.   *)
WriteSideFree(s) ==
    \A other \in Sessions \ {s} : at[other] \notin {"deferred", "published", "undone"}

(* A DDL statement marks its transaction and invalidates before it waits   *)
(* for the write side and before it may be refused.                        *)
DdlBegins(s) ==
    /\ Idle(s) /\ made < MaxDdl
    /\ Go(s, "ddl")
    /\ made' = made + 1
    /\ img' = [img EXCEPT ![s] = made + 1]
    /\ did_ddl' = [did_ddl EXCEPT ![s] = TRUE]
    /\ InvalidateMeta(s)
    /\ UNCHANGED <<schema, poolEpoch, attached, draft>>

(* First updater wins: nobody else has an uncommitted version.             *)
DdlLands(s) ==
    /\ at[s] = "ddl" /\ WriteSideFree(s)
    /\ \A other \in Sessions \ {s} : draft[other] = None
    /\ Go(s, "idle")
    /\ draft' = [draft EXCEPT ![s] = img[s]]
    /\ InvalidateMeta(s)
    /\ UNCHANGED <<onFile, attached, did_ddl, img>>

(* Refused because somebody has, or failed for a reason of its own.        *)
DdlFails(s) ==
    /\ at[s] = "ddl"
    /\ Go(s, "idle")
    /\ UNCHANGED <<onFile, cache, attached, did_ddl, draft, planning>>

(* ROLLBACK TO: apply_ddl_residue invalidates only if there is residue.    *)
UndoDdl(s) ==
    /\ Idle(s) /\ draft[s] # None /\ WriteSideFree(s)
    /\ draft' = [draft EXCEPT ![s] = None]
    /\ \/ InvalidateMeta(s)
       \/ "quietUndo" \in Beyond /\ UNCHANGED <<cache, plans, key, cacheKey>>
    /\ UNCHANGED <<onFile, attached, at, did_ddl, img>>

(* The ends of a transaction with DDL: deferred work, the flip of its ids, *)
(* and after that the caches.                                              *)
DeferredWork(s) ==
    /\ Idle(s) /\ did_ddl[s] /\ WriteSideFree(s)
    /\ Go(s, "deferred")
    /\ InvalidateMeta(s)
    /\ UNCHANGED <<onFile, attached, did_ddl, draft, img>>

Commit(s) ==
    /\ Idle(s) \/ at[s] = "deferred"
    /\ did_ddl[s] /\ WriteSideFree(s)
    /\ Go(s, "published")
    /\ schema' = View(s)
    /\ UNCHANGED <<made, poolEpoch, cache, attached, did_ddl, draft, planning>>

Rollback(s) ==
    /\ Idle(s) /\ did_ddl[s] /\ WriteSideFree(s)
    /\ Go(s, "undone")
    /\ draft' = [draft EXCEPT ![s] = None]
    /\ UNCHANGED <<onFile, cache, attached, did_ddl, planning>>

Ended(s) ==
    /\ at[s] \in {"published", "undone"}
    /\ Go(s, "idle")
    /\ did_ddl' = [did_ddl EXCEPT ![s] = FALSE]
    /\ draft' = [draft EXCEPT ![s] = None]
    /\ ForgetAtEnd(s)
    /\ UNCHANGED <<onFile, attached, img>>

EndFails(s) ==
    /\ Idle(s) \/ at[s] = "deferred"
    /\ did_ddl[s]
    /\ draft[s] = None \/ "endFails" \in Beyond
    /\ Go(s, "idle")
    /\ did_ddl' = [did_ddl EXCEPT ![s] = FALSE]
    /\ draft' = [draft EXCEPT ![s] = None]
    /\ UNCHANGED <<onFile, cache, attached, planning>>

-------------------------------------------------------------------------------
(* load_database: the pool gives the image, having read the file again if  *)
(* somebody replaced it while nobody had it open; then sync_epoch.         *)
Joining == {"opened", "stale", "cleared"}

Open(s) ==
    /\ s \notin attached /\ at[s] = "idle"
    /\ Go(s, "opened")
    /\ \/ UNCHANGED onFile
       \/ /\ attached = {} /\ \A other \in Sessions : at[other] = "idle"
          /\ made < MaxDdl /\ poolEpoch < MaxReloads
          /\ poolEpoch' = poolEpoch + 1
          /\ made' = made + 1 /\ schema' = made + 1
    /\ UNCHANGED <<cache, attached, did_ddl, draft, planning>>

Join(s) == attached' = attached \cup {s} /\ Go(s, "idle")

SameEpoch(s) ==
    /\ at[s] = "opened" /\ epoch = poolEpoch
    /\ Join(s)
    /\ UNCHANGED <<onFile, cache, did_ddl, draft, planning>>

StaleEpoch(s) ==
    /\ at[s] = "opened" /\ epoch # poolEpoch
    /\ Go(s, "stale")
    /\ UNCHANGED <<onFile, cache, attached, did_ddl, draft, planning>>

(* Mutant: the epoch is stored before what it stands for is dropped. *)
DropStale_EpochFirst(s) ==
    /\ epoch' = poolEpoch
    /\ UNCHANGED <<generation, answer>>

DropStale(s) == Invalidate

Clear(s) ==
    /\ at[s] = "stale"
    /\ Go(s, "cleared")
    /\ DropStale(s)
    /\ UNCHANGED <<onFile, attached, did_ddl, draft, planning>>

(* Nobody replaces the file under a session that is joining.               *)
StoreEpoch(s) ==
    /\ at[s] = "cleared"
    /\ epoch' = poolEpoch
    /\ Join(s)
    /\ UNCHANGED <<onFile, generation, answer, did_ddl, draft, planning>>

Detach(s) ==
    /\ Idle(s) /\ ~did_ddl[s]
    /\ attached' = attached \ {s}
    /\ plans' = [plans EXCEPT ![s] = NoPlan]
    /\ UNCHANGED <<onFile, cache, at, did_ddl, draft, key, img, cacheKey>>

Next == \E s \in Sessions :
    \/ Prepare(s) \/ TakeImage(s) \/ ReadOwn(s) \/ TakeKey(s)
    \/ Hit(s) \/ Miss(s) \/ Store(s)
    \/ DdlBegins(s) \/ DdlLands(s) \/ DdlFails(s) \/ UndoDdl(s)
    \/ DeferredWork(s) \/ Commit(s) \/ Rollback(s) \/ Ended(s) \/ EndFails(s)
    \/ Open(s) \/ SameEpoch(s) \/ StaleEpoch(s) \/ Clear(s) \/ StoreEpoch(s)
    \/ Detach(s)

Spec == Init /\ [][Next]_metaVars
-------------------------------------------------------------------------------
Publishing == \E s \in Sessions : at[s] = "published"

(* What the shared cache holds under the present generation is what the    *)
(* committed catalog says, but while a commit that changed it has not come *)
(* to the caches yet ("storing under the key we looked up would then       *)
(* publish an answer for a schema that no longer exists").                 *)
CacheIsCurrent ==
    attached # {} /\ ~Publishing /\ answer # None => answer = schema

(* A plan the statement cache would serve was made for the catalog as its  *)
(* session reads it now, its own DDL included, done or undone.             *)
PlansAreCurrent ==
    \A s \in attached :
        ~Publishing /\ at[s] # "undone" /\ plans[s].generation = generation
            => plans[s].about = View(s)
===============================================================================
