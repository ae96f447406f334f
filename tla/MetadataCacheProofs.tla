------------------------- MODULE MetadataCacheProofs -------------------------
(***************************************************************************)
(* The caches of schema answers, for any number of sessions, DDL           *)
(* statements and replaced files: the shared cache never answers for       *)
(* another schema than the committed one, as long as no DDL commits        *)
(* between an image and the generation its answer is filed under, and a    *)
(* statement cache never serves a plan of another schema, as long as DDL   *)
(* is undone and ended the way that invalidates (README, section 4).       *)
(***************************************************************************)
EXTENDS MetadataCache, TLAPS

Planning == {"keyed", "image", "looking", "reading"}
Changing == {"ddl", "deferred", "published", "undone"}

TypeInv ==
    /\ schema \in Nat /\ made \in Nat \ {None} /\ poolEpoch \in Nat
    /\ generation \in Nat \ {None} /\ epoch \in Nat /\ answer \in Nat
    /\ attached \subseteq Sessions
    /\ at \in [Sessions -> {"idle"} \cup Planning \cup Changing \cup Joining]
    /\ did_ddl \in [Sessions -> BOOLEAN]
    /\ draft \in [Sessions -> Nat]
    /\ plans \in [Sessions -> [generation : Nat, about : Nat]]
    /\ key \in [Sessions -> Nat]
    /\ img \in [Sessions -> Nat]
    /\ cacheKey \in [Sessions -> Nat]

(* Who is where: only an attached session plans or changes anything, only  *)
(* one with DDL of its own changes it, and none with DDL of its own uses   *)
(* the shared cache.                                                       *)
PlaceInv ==
    \A s \in Sessions :
        /\ at[s] \in Planning => s \in attached
        /\ at[s] \in Changing => did_ddl[s]
        /\ at[s] \in Joining => s \notin attached
        /\ did_ddl[s] => s \in attached
        /\ draft[s] # None => did_ddl[s]
        /\ at[s] \in {"looking", "reading"} => ~did_ddl[s]
        /\ cacheKey[s] <= generation

(* A session that is attached has told the cache of the file it reads.     *)
EpochInv ==
    /\ epoch <= poolEpoch
    /\ attached # {} => epoch = poolEpoch
    /\ epoch # poolEpoch => \A s \in Sessions : at[s] = "cleared" => answer = None

(* The answer, and what may still become the answer, is of the committed   *)
(* schema.                                                                 *)
AnswerInv ==
    ~Publishing =>
        /\ epoch = poolEpoch /\ answer # None => answer = schema
        /\ \A s \in Sessions :
              at[s] \in {"looking", "reading"} /\ cacheKey[s] = generation => img[s] = schema

CacheInv == TypeInv /\ PlaceInv /\ EpochInv /\ AnswerInv

-------------------------------------------------------------------------------
LEMMA InitCacheInv == Init => CacheInv
BY DEF Init, CacheInv, TypeInv, PlaceInv, EpochInv, AnswerInv, NoPlan, None, Planning, Changing, Joining

(* Whatever else a step does, an invalidation that no change of schema     *)
(* goes with leaves nothing to be stale.                                   *)
LEMMA InvalidateAnswer ==
    ASSUME CacheInv, Invalidate, cacheKey' = cacheKey
    PROVE  AnswerInv'
<1>1. answer' = None /\ \A s \in Sessions : cacheKey'[s] # generation'
  BY DEF Invalidate, CacheInv, TypeInv, PlaceInv
<1>2. \A s \in Sessions : cacheKey'[s] = generation' => img'[s] = schema'
  BY <1>1
<1>. QED
  BY <1>1 DEF AnswerInv

LEMMA PlanningStep ==
    ASSUME CacheInv, NEW s \in Sessions,
           Prepare(s) \/ TakeImage(s) \/ ReadOwn(s) \/ Hit(s) \/ Miss(s)
    PROVE  CacheInv'
<1>. USE DEF Prepare, TakeImage, ReadOwn, Hit, Miss, Go, Idle, View, Planned, Found,
         onFile, cache, planning
<1>1. TypeInv'
  <2>1. CASE Prepare(s)
    BY <2>1 DEF CacheInv, TypeInv, Planning
  <2>2. CASE TakeImage(s)
    BY <2>2 DEF CacheInv, TypeInv, Planning
  <2>3. CASE ReadOwn(s)
    BY <2>3 DEF CacheInv, TypeInv
  <2>4. CASE Hit(s)
    BY <2>4 DEF CacheInv, TypeInv
  <2>5. CASE Miss(s)
    BY <2>5 DEF CacheInv, TypeInv, Planning
  <2>. QED
    BY <2>1, <2>2, <2>3, <2>4, <2>5
<1>2. PlaceInv'
  BY DEF CacheInv, TypeInv, PlaceInv, Planning, Changing, Joining
<1>3. EpochInv'
  BY DEF CacheInv, TypeInv, EpochInv
<1>4. AnswerInv'
  BY DEF CacheInv, TypeInv, AnswerInv, Publishing
<1>. QED
  BY <1>1, <1>2, <1>3, <1>4 DEF CacheInv

LEMMA TakeKeyStep ==
    ASSUME "imageFirst" \notin Beyond, CacheInv, NEW s \in Sessions, TakeKey(s)
    PROVE  CacheInv'
<1>. USE DEF TakeKey, Go, View, onFile, cache
<1>1. TypeInv'
  BY DEF CacheInv, TypeInv, Planning
<1>2. PlaceInv'
  BY DEF CacheInv, TypeInv, PlaceInv, Planning, Changing, Joining
<1>3. EpochInv'
  BY DEF CacheInv, TypeInv, EpochInv
<1>4. AnswerInv'
  BY DEF CacheInv, TypeInv, PlaceInv, AnswerInv, Publishing
<1>. QED
  BY <1>1, <1>2, <1>3, <1>4 DEF CacheInv

LEMMA StoreStep ==
    ASSUME CacheInv, NEW s \in Sessions, Store(s)
    PROVE  CacheInv'
<1>. USE DEF Store, Go, Planned, MayStore, onFile, cache
<1>1. TypeInv'
  BY DEF CacheInv, TypeInv, Planning
<1>2. PlaceInv'
  BY DEF CacheInv, TypeInv, PlaceInv, Planning, Changing, Joining
<1>3. EpochInv'
  BY DEF CacheInv, TypeInv, PlaceInv, EpochInv, Planning
<1>4. AnswerInv'
  BY DEF CacheInv, TypeInv, AnswerInv, Publishing
<1>. QED
  BY <1>1, <1>2, <1>3, <1>4 DEF CacheInv

(* The statements and ends of DDL that invalidate. *)
LEMMA InvalidatingStep ==
    ASSUME CacheInv, NEW s \in Sessions,
           DdlBegins(s) \/ DdlLands(s) \/ DeferredWork(s) \/ Ended(s)
    PROVE  CacheInv'
<1>. USE DEF DdlBegins, DdlLands, DeferredWork, Ended, ForgetAtEnd, InvalidateMeta, Go, Idle, onFile
<1>1. Invalidate /\ cacheKey' = cacheKey
  OBVIOUS
<1>2. TypeInv'
  <2>1. NoPlan \in [generation : Nat, about : Nat]
    BY DEF NoPlan, None
  <2>. HIDE DEF NoPlan
  <2>2. CASE DdlBegins(s)
    BY <1>1, <2>1, <2>2 DEF CacheInv, TypeInv, Invalidate, Changing, None
  <2>3. CASE DdlLands(s)
    BY <1>1, <2>1, <2>3 DEF CacheInv, TypeInv, Invalidate, None
  <2>4. CASE DeferredWork(s)
    BY <1>1, <2>1, <2>4 DEF CacheInv, TypeInv, Invalidate, Changing, None
  <2>5. CASE Ended(s)
    BY <1>1, <2>1, <2>5 DEF CacheInv, TypeInv, Invalidate, None
  <2>. QED
    BY <2>2, <2>3, <2>4, <2>5
<1>3. PlaceInv'
  <2>. USE DEF CacheInv, TypeInv, PlaceInv, Invalidate, Planning, Changing, Joining
  <2>1. CASE DdlBegins(s)
    BY <1>1, <2>1
  <2>2. CASE DdlLands(s)
    BY <1>1, <2>2
  <2>3. CASE DeferredWork(s)
    BY <1>1, <2>3
  <2>4. CASE Ended(s)
    BY <1>1, <2>4
  <2>. QED
    BY <2>1, <2>2, <2>3, <2>4
<1>4. EpochInv'
  BY <1>1 DEF CacheInv, TypeInv, EpochInv, Invalidate
<1>5. AnswerInv'
  BY <1>1, InvalidateAnswer
<1>. QED
  BY <1>2, <1>3, <1>4, <1>5 DEF CacheInv

(* Those that do not touch the caches, or may not. *)
LEMMA QuietStep ==
    ASSUME CacheInv, NEW s \in Sessions,
           DdlFails(s) \/ Rollback(s) \/ EndFails(s) \/ Detach(s)
    PROVE  CacheInv'
<1>. USE DEF DdlFails, Rollback, EndFails, Detach, Go, Idle, onFile, cache, planning
<1>1. TypeInv'
  <2>1. NoPlan \in [generation : Nat, about : Nat]
    BY DEF NoPlan, None
  <2>2. CASE DdlFails(s)
    BY <2>2 DEF CacheInv, TypeInv
  <2>3. CASE Rollback(s)
    BY <2>3 DEF CacheInv, TypeInv, Changing, None
  <2>4. CASE EndFails(s)
    BY <2>4 DEF CacheInv, TypeInv, None
  <2>5. CASE Detach(s)
    BY <2>1, <2>5 DEF CacheInv, TypeInv
  <2>. QED
    BY <2>2, <2>3, <2>4, <2>5
<1>2. PlaceInv'
  BY DEF CacheInv, TypeInv, PlaceInv, Planning, Changing, Joining
<1>3. EpochInv'
  BY DEF CacheInv, TypeInv, EpochInv
<1>4. AnswerInv'
  BY DEF CacheInv, TypeInv, AnswerInv, Publishing
<1>. QED
  BY <1>1, <1>2, <1>3, <1>4 DEF CacheInv

LEMMA UndoDdlStep ==
    ASSUME CacheInv, NEW s \in Sessions, UndoDdl(s)
    PROVE  CacheInv'
<1>. USE DEF UndoDdl, Idle, onFile
<1>1. CASE InvalidateMeta(s)
  <2>1. Invalidate /\ cacheKey' = cacheKey
    BY <1>1 DEF InvalidateMeta
  <2>2. TypeInv' /\ PlaceInv' /\ EpochInv'
    BY <1>1, <2>1
       DEF CacheInv, TypeInv, PlaceInv, EpochInv, Invalidate, InvalidateMeta, NoPlan, None
  <2>. QED
    BY <2>1, <2>2, InvalidateAnswer DEF CacheInv
<1>2. CASE UNCHANGED <<cache, plans, key, cacheKey>>
  BY <1>2 DEF CacheInv, TypeInv, PlaceInv, EpochInv, AnswerInv, Publishing, None, cache
<1>. QED
  BY <1>1, <1>2

LEMMA CommitStep ==
    ASSUME CacheInv, NEW s \in Sessions, Commit(s)
    PROVE  CacheInv'
<1>. USE DEF Commit, Go, Idle, View, cache, planning
<1>1. Publishing'
  BY DEF Publishing, CacheInv, TypeInv
<1>2. TypeInv'
  BY DEF CacheInv, TypeInv, Changing
<1>3. PlaceInv'
  BY DEF CacheInv, TypeInv, PlaceInv, Planning, Changing, Joining
<1>4. EpochInv'
  BY DEF CacheInv, TypeInv, EpochInv
<1>. QED
  BY <1>1, <1>2, <1>3, <1>4 DEF CacheInv, AnswerInv

(* load_database. *)
LEMMA OpenStep ==
    ASSUME CacheInv, NEW s \in Sessions, Open(s)
    PROVE  CacheInv'
<1>. USE DEF Open, Go, cache, planning
<1>1. TypeInv'
  BY DEF CacheInv, TypeInv, Joining, onFile, None
<1>2. PlaceInv'
  BY DEF CacheInv, TypeInv, PlaceInv, Planning, Changing, Joining
<1>3. CASE UNCHANGED onFile
  BY <1>1, <1>2, <1>3 DEF CacheInv, TypeInv, EpochInv, AnswerInv, Publishing, onFile
<1>4. CASE ~UNCHANGED onFile
  <2>1. attached = {} /\ poolEpoch' = poolEpoch + 1 /\ \A t \in Sessions : at'[t] \in {"idle", "opened"}
    BY <1>4 DEF CacheInv, TypeInv
  <2>2. EpochInv'
    BY <2>1 DEF CacheInv, TypeInv, EpochInv
  <2>3. AnswerInv'
    <3>1. CASE epoch' = poolEpoch'
      BY <2>1, <3>1 DEF CacheInv, TypeInv, EpochInv
    <3>2. CASE epoch' # poolEpoch'
      BY <2>1, <3>2 DEF AnswerInv
    <3>. QED
      BY <3>1, <3>2
  <2>. QED
    BY <1>1, <1>2, <2>2, <2>3 DEF CacheInv
<1>. QED
  BY <1>3, <1>4

LEMMA JoinStep ==
    ASSUME CacheInv, NEW s \in Sessions,
           SameEpoch(s) \/ StaleEpoch(s) \/ Clear(s) \/ StoreEpoch(s)
    PROVE  CacheInv'
<1>. USE DEF SameEpoch, StaleEpoch, Clear, StoreEpoch, DropStale, Join, Go, onFile, cache, planning
<1>1. TypeInv'
  <2>. USE DEF CacheInv, TypeInv, Joining, Invalidate, None
  <2>1. CASE SameEpoch(s)
    BY <2>1
  <2>2. CASE StaleEpoch(s)
    BY <2>2
  <2>3. CASE Clear(s)
    BY <2>3
  <2>4. CASE StoreEpoch(s)
    BY <2>4
  <2>. QED
    BY <2>1, <2>2, <2>3, <2>4
<1>2. PlaceInv'
  <2>. USE DEF CacheInv, TypeInv, PlaceInv, Planning, Changing, Joining, Invalidate
  <2>1. CASE SameEpoch(s)
    BY <2>1
  <2>2. CASE StaleEpoch(s)
    BY <2>2
  <2>3. CASE Clear(s)
    BY <2>3
  <2>4. CASE StoreEpoch(s)
    BY <2>4
  <2>. QED
    BY <2>1, <2>2, <2>3, <2>4
<1>3. EpochInv'
  BY DEF CacheInv, TypeInv, EpochInv, Invalidate
<1>4. AnswerInv'
  <2>1. CASE Clear(s)
    BY <2>1, InvalidateAnswer DEF Clear
  <2>2. CASE StoreEpoch(s)
    BY <2>2 DEF CacheInv, TypeInv, EpochInv, AnswerInv, Publishing
  <2>3. CASE SameEpoch(s) \/ StaleEpoch(s)
    BY <2>3 DEF CacheInv, TypeInv, AnswerInv, Publishing
  <2>. QED
    BY <2>1, <2>2, <2>3
<1>. QED
  BY <1>1, <1>2, <1>3, <1>4 DEF CacheInv

LEMMA NextCacheInv ==
    ASSUME "imageFirst" \notin Beyond, CacheInv, [Next]_metaVars
    PROVE  CacheInv'
<1>1. CASE Next
  BY <1>1, PlanningStep, TakeKeyStep, StoreStep, InvalidatingStep, QuietStep, UndoDdlStep,
     CommitStep, OpenStep, JoinStep
     DEF Next
<1>2. CASE UNCHANGED metaVars
  BY <1>2 DEF metaVars, onFile, cache, planning, CacheInv, TypeInv, PlaceInv, EpochInv,
     AnswerInv, Publishing
<1>. QED
  BY <1>1, <1>2

THEOREM CacheInvariant ==
    ASSUME "imageFirst" \notin Beyond
    PROVE  Spec => []CacheInv
BY InitCacheInv, NextCacheInv, PTL DEF Spec

(* What DbMetadata answers is the committed schema (but between a commit   *)
(* and its invalidate), for any number of connections.                     *)
THEOREM SharedCacheIsCurrent ==
    ASSUME "imageFirst" \notin Beyond
    PROVE  Spec => []CacheIsCurrent
<1>1. CacheInv => CacheIsCurrent
  BY DEF CacheInv, EpochInv, AnswerInv, CacheIsCurrent
<1>. QED
  BY <1>1, CacheInvariant, PTL

-------------------------------------------------------------------------------
(* The plans of the statement caches, made and in the making. *)
PlanInv ==
    \A s \in Sessions :
        /\ s \notin attached => plans[s] = NoPlan
        /\ plans[s].generation <= generation /\ key[s] <= generation
        /\ ~Publishing /\ at[s] # "undone" /\ plans[s].generation = generation
              => plans[s].about = View(s)
        /\ ~Publishing /\ at[s] \in {"image", "looking", "reading"} /\ key[s] = generation
              => img[s] = View(s)

LEMMA InitPlanInv == Init => PlanInv
<1>. SUFFICES ASSUME Init, NEW s \in Sessions
              PROVE  /\ plans[s] = NoPlan
                     /\ plans[s].generation <= generation /\ key[s] <= generation
                     /\ plans[s].generation # generation /\ key[s] # generation
  BY DEF PlanInv
<1>. QED
  BY DEF Init, NoPlan, None

(* After an invalidation no plan has the present generation. *)
LEMMA InvalidatePlan ==
    ASSUME CacheInv, PlanInv, NEW s \in Sessions, InvalidateMeta(s), UNCHANGED attached
    PROVE  PlanInv'
<1>1. \A t \in Sessions : /\ plans'[t] = plans[t] \/ plans'[t] = NoPlan
                          /\ key'[t] = key[t]
  BY DEF InvalidateMeta, CacheInv, TypeInv
<1>2. generation' = generation + 1 /\ generation \in Nat
  BY DEF InvalidateMeta, Invalidate, CacheInv, TypeInv
<1>3. \A t \in Sessions : /\ plans'[t].generation <= generation
                          /\ key'[t] <= generation
                          /\ plans'[t].generation \in Nat /\ key'[t] \in Nat
  BY <1>1, <1>2 DEF PlanInv, NoPlan, None, CacheInv, TypeInv
<1>4. \A t \in Sessions : t \notin attached' => plans'[t] = NoPlan
  BY <1>1 DEF PlanInv
<1>5. \A t \in Sessions : plans'[t].generation # generation' /\ key'[t] # generation'
  BY <1>2, <1>3
<1>6. \A t \in Sessions : plans'[t].generation <= generation' /\ key'[t] <= generation'
  BY <1>2, <1>3
<1>. QED
  BY <1>4, <1>5, <1>6 DEF PlanInv

LEMMA NextPlanInv ==
    ASSUME Beyond = {}, CacheInv, PlanInv, [Next]_metaVars
    PROVE  PlanInv'
<1>. USE DEF Go, Idle, onFile, cache, planning
<1>1. ASSUME NEW s \in Sessions, Prepare(s) PROVE PlanInv'
  BY <1>1 DEF Prepare, CacheInv, TypeInv, PlanInv, Publishing, View
<1>2. ASSUME NEW s \in Sessions, TakeImage(s) PROVE PlanInv'
  BY <1>2 DEF TakeImage, CacheInv, TypeInv, PlanInv, Publishing, View
<1>3. ASSUME NEW s \in Sessions, ReadOwn(s) PROVE PlanInv'
  BY <1>3 DEF ReadOwn, Planned, CacheInv, TypeInv, PlaceInv, PlanInv, Publishing, View, Planning
<1>4. ASSUME NEW s \in Sessions, TakeKey(s) PROVE PlanInv'
  BY <1>4 DEF TakeKey, CacheInv, TypeInv, PlanInv, Publishing, View
<1>5. ASSUME NEW s \in Sessions, Hit(s) PROVE PlanInv'
  <2>1. /\ s \in attached /\ epoch = poolEpoch /\ draft[s] = None
        /\ ~Publishing => answer = schema
    BY <1>5 DEF Hit, Found, CacheInv, PlaceInv, EpochInv, AnswerInv, Planning
  <2>2. ~Publishing => answer = View(s)
    BY <2>1 DEF View
  <2>. QED
    BY <1>5, <2>1, <2>2 DEF Hit, Planned, CacheInv, TypeInv, PlanInv, Publishing, View
<1>6. ASSUME NEW s \in Sessions, Miss(s) PROVE PlanInv'
  BY <1>6 DEF Miss, CacheInv, TypeInv, PlanInv, Publishing, View
<1>7. ASSUME NEW s \in Sessions, Store(s) PROVE PlanInv'
  BY <1>7 DEF Store, Planned, CacheInv, TypeInv, PlaceInv, PlanInv, Publishing, View, Planning
<1>8. ASSUME NEW s \in Sessions,
             DdlBegins(s) \/ DdlLands(s) \/ DeferredWork(s) \/ Ended(s) \/ UndoDdl(s)
      PROVE  PlanInv'
  <2>1. InvalidateMeta(s) /\ UNCHANGED attached
    BY <1>8 DEF DdlBegins, DdlLands, DeferredWork, Ended, ForgetAtEnd, UndoDdl
  <2>. QED
    BY <2>1, InvalidatePlan
<1>9. ASSUME NEW s \in Sessions, DdlFails(s) PROVE PlanInv'
  BY <1>9 DEF DdlFails, CacheInv, TypeInv, PlanInv, Publishing, View
<1>10. ASSUME NEW s \in Sessions, Commit(s) PROVE PlanInv'
  <2>1. Publishing'
    BY <1>10 DEF Commit, Publishing, CacheInv, TypeInv
  <2>. QED
    BY <1>10, <2>1 DEF Commit, PlanInv
<1>11. ASSUME NEW s \in Sessions, Rollback(s) PROVE PlanInv'
  BY <1>11 DEF Rollback, CacheInv, TypeInv, PlanInv, Publishing, View
<1>12. ASSUME NEW s \in Sessions, EndFails(s) PROVE PlanInv'
  BY <1>12 DEF EndFails, CacheInv, TypeInv, PlanInv, Publishing, View
<1>13. ASSUME NEW s \in Sessions, Detach(s) PROVE PlanInv'
  BY <1>13 DEF Detach, CacheInv, TypeInv, PlanInv, Publishing, View, NoPlan, None
<1>14. ASSUME NEW s \in Sessions, Open(s) PROVE PlanInv'
  <2>1. CASE UNCHANGED onFile
    BY <1>14, <2>1 DEF Open, CacheInv, TypeInv, PlanInv, Publishing, View
  <2>2. CASE ~UNCHANGED onFile
    <3>1. /\ attached' = {} /\ \A t \in Sessions : at'[t] \in {"idle", "opened"}
          /\ UNCHANGED <<plans, key, generation>>
      BY <1>14, <2>2 DEF Open, CacheInv, TypeInv
    <3>2. \A t \in Sessions : plans'[t] = NoPlan /\ plans'[t].generation # generation'
      BY <1>14, <3>1 DEF Open, CacheInv, TypeInv, PlanInv, NoPlan, None
    <3>. QED
      BY <3>1, <3>2 DEF PlanInv
  <2>. QED
    BY <2>1, <2>2
<1>15. ASSUME NEW s \in Sessions, SameEpoch(s) \/ StaleEpoch(s) \/ StoreEpoch(s) PROVE PlanInv'
  BY <1>15 DEF SameEpoch, StaleEpoch, StoreEpoch, Join, Joining, CacheInv, TypeInv, PlaceInv,
     PlanInv, Publishing, View, NoPlan, None
<1>16. ASSUME NEW s \in Sessions, Clear(s) PROVE PlanInv'
  <2>1. /\ generation' = generation + 1 /\ generation \in Nat
        /\ UNCHANGED <<plans, key, attached>>
        /\ \A t \in Sessions : plans[t].generation \in Nat /\ key[t] \in Nat
    BY <1>16 DEF Clear, DropStale, Invalidate, CacheInv, TypeInv
  <2>2. \A t \in Sessions :
           /\ plans'[t].generation # generation' /\ key'[t] # generation'
           /\ plans'[t].generation <= generation' /\ key'[t] <= generation'
           /\ t \notin attached' => plans'[t] = NoPlan
    BY <2>1 DEF PlanInv
  <2>. QED
    BY <2>2 DEF PlanInv
<1>17. CASE UNCHANGED metaVars
  BY <1>17 DEF metaVars, PlanInv, Publishing, View
<1>. QED
  BY <1>1, <1>2, <1>3, <1>4, <1>5, <1>6, <1>7, <1>8, <1>9, <1>10, <1>11, <1>12, <1>13, <1>14,
     <1>15, <1>16, <1>17 DEF Next

(* What the statement cache would serve was planned for the catalog as its *)
(* session reads it, its own DDL included, for any number of connections.  *)
THEOREM StatementPlansAreCurrent ==
    ASSUME Beyond = {}
    PROVE  Spec => []PlansAreCurrent
<1>1. CacheInv /\ PlanInv => PlansAreCurrent
  BY DEF CacheInv, TypeInv, PlanInv, PlansAreCurrent
<1>2. Spec => []CacheInv
  BY CacheInvariant
<1>3. Spec => []PlanInv
  BY <1>2, InitPlanInv, NextPlanInv, PTL DEF Spec
<1>. QED
  BY <1>1, <1>2, <1>3, PTL
===============================================================================
