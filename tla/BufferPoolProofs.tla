-------------------------- MODULE BufferPoolProofs --------------------------
(***************************************************************************)
(* What the buffer pool keeps for any number of threads, pages, writes and *)
(* failing flushes, as long as no attachment comes while the file is half  *)
(* written (README, section 4): it implements AtomicImage, and what a      *)
(* commit was acknowledged for is in the file.                             *)
(***************************************************************************)
EXTENDS BufferPool, TLAPS

Writing == {"copied", "flushing", "published", "noted"}

TypeInv ==
    /\ file \in Contents /\ image \in Contents
    /\ flushed \in Contents /\ acked \in Contents
    /\ stamp \in Nat /\ disk \in Nat
    /\ owner \in Threads \cup {NoThread}
    /\ depth \in Nat
    /\ tokens \in [Threads -> Nat]
    /\ at \in [Threads -> {"idle"} \cup Writing \cup Opening]
    /\ work \in [Threads -> Contents]
    /\ raw \in [Threads -> Contents]
    /\ todo \in [Threads -> SUBSET Pages]
    /\ fp \in [Threads -> Nat]
    /\ attached \subseteq Threads
    /\ used \subseteq Writes

(* The owner of the write side has all its tokens, nobody else has one, and *)
(* who has one is attached.                                                 *)
TokenInv ==
    \A t \in Threads :
        /\ IF owner = t THEN tokens[t] = depth /\ depth > 0 ELSE tokens[t] = 0
        /\ tokens[t] > 0 => t \in attached

(* Every page of the one shows no more than the page of the other. *)
Within(small, large) == \A p \in Pages : small[p] \subseteq large[p]

OneMore(old, new) == \E w \in Writes, P \in SUBSET Pages : new = A!With(old, w, P)

(* A thread with a copy of the image has a token, and the copy is the      *)
(* image, or the image and one write of which the pages not to do are in   *)
(* the file.                                                               *)
WorkInv ==
    \A t \in Threads :
        /\ at[t] \in Writing => tokens[t] > 0
        /\ at[t] = "copied" => work[t] = image
        /\ at[t] = "flushing" =>
              /\ OneMore(image, work[t])
              /\ \A p \in Pages \ todo[t] : work[t][p] \subseteq file[p]
        /\ at[t] = "published" => work[t] = image /\ Within(image, file)

(* A thread that reads the file again is alone with it. *)
OpenInv ==
    /\ \A t, u \in Threads : at[t] \in Opening /\ at[u] \in Opening => t = u
    /\ \A t \in Threads :
          /\ at[t] \in Opening => attached = {} /\ disk # stamp
          /\ at[t] \in {"read", "reloaded", "rebased"} => raw[t] = file
          /\ at[t] \in {"reloaded", "rebased"} => image = raw[t]
          /\ at[t] = "rebased" => flushed = raw[t]

(* While somebody can flush, or can become able to without a look at the   *)
(* file, the pages a flush leaves out are in the file.                     *)
BaseInv ==
    attached # {} \/ disk = stamp => Within(flushed, file) /\ Within(flushed, image)

AckInv == Within(acked, file) /\ Within(acked, image)

IInv == TypeInv /\ TokenInv /\ WorkInv /\ OpenInv /\ BaseInv /\ AckInv

-------------------------------------------------------------------------------
LEMMA InitIInv == Init => IInv
BY BufferPoolAssumption
   DEF Init, IInv, TypeInv, TokenInv, WorkInv, OpenInv, BaseInv, AckInv, Within,
       Contents, Nothing, Writing, Opening

(* Only one thread at a time has a copy, and none while the file is read.  *)
LEMMA Alone ==
    ASSUME IInv, NEW t \in Threads, at[t] \in Writing
    PROVE  /\ owner = t /\ attached # {} /\ t \in attached
           /\ \A u \in Threads : u # t => at[u] = "idle"
<1>1. tokens[t] > 0 /\ owner = t /\ t \in attached
  BY DEF IInv, TokenInv, WorkInv, TypeInv
<1>2. ASSUME NEW u \in Threads, u # t PROVE at[u] = "idle"
  <2>1. at[u] \notin Writing
    BY <1>1, <1>2 DEF IInv, TokenInv, WorkInv, TypeInv
  <2>2. at[u] \notin Opening
    BY <1>1 DEF IInv, OpenInv
  <2>. QED
    BY <2>1, <2>2 DEF IInv, TypeInv
<1>. QED
  BY <1>1, <1>2

LEMMA EditIsOneMore ==
    ASSUME NEW t \in Threads, NEW w \in Writes, NEW P \in SUBSET Pages,
           work[t] = image, image \in Contents
    PROVE  /\ OneMore(image, Edit(t, w, P))
           /\ Edit(t, w, P) \in Contents
           /\ Within(image, Edit(t, w, P))
BY DEF Edit, OneMore, A!With, Contents, Within

LEMMA OneMoreIsMore ==
    ASSUME NEW img \in Contents, NEW new, OneMore(img, new)
    PROVE  new \in Contents /\ Within(img, new)
BY DEF OneMore, A!With, Contents, Within

LEMMA WithinTransitive ==
    ASSUME NEW f, NEW g, NEW h, Within(f, g), Within(g, h)
    PROVE  Within(f, h)
BY DEF Within
-------------------------------------------------------------------------------
(* The token. *)
LEMMA BeginWriteStep ==
    ASSUME IInv, NEW t \in Threads, BeginWrite(t)
    PROVE  IInv'
<1>. USE DEF BeginWrite, onDisk, shared, locals, history
<1>1. TypeInv'
  BY DEF IInv, TypeInv
<1>2. TokenInv'
  BY BufferPoolAssumption DEF IInv, TypeInv, TokenInv
<1>3. WorkInv'
  BY DEF IInv, WorkInv, TypeInv, Writing, Within
<1>4. OpenInv' /\ BaseInv' /\ AckInv'
  BY DEF IInv, OpenInv, BaseInv, AckInv, Within, Opening
<1>. QED
  BY <1>1, <1>2, <1>3, <1>4 DEF IInv

LEMMA EndWriteStep ==
    ASSUME IInv, NEW t \in Threads, EndWrite(t)
    PROVE  IInv'
<1>. USE DEF EndWrite, OwnerAfter, onDisk, shared, locals, history
<1>1. TypeInv'
  BY DEF IInv, TypeInv
<1>2. TokenInv'
  BY BufferPoolAssumption DEF IInv, TypeInv, TokenInv
<1>3. WorkInv'
  BY DEF IInv, WorkInv, TypeInv, Writing, Within
<1>4. OpenInv' /\ BaseInv' /\ AckInv'
  BY DEF IInv, OpenInv, BaseInv, AckInv, Within, Opening
<1>. QED
  BY <1>1, <1>2, <1>3, <1>4 DEF IInv

(* The working copy. *)
LEMMA WorkCopyStep ==
    ASSUME IInv, NEW t \in Threads, WorkCopy(t)
    PROVE  IInv'
<1>. USE DEF WorkCopy, Go, onDisk, shared, token, history
<1>1. TypeInv'
  BY DEF IInv, TypeInv, Writing
<1>2. TokenInv'
  BY DEF IInv, TokenInv
<1>3. WorkInv'
  BY DEF IInv, WorkInv, TypeInv, Writing, Within
<1>4. OpenInv' /\ BaseInv' /\ AckInv'
  BY DEF IInv, TypeInv, OpenInv, BaseInv, AckInv, Within, Opening
<1>. QED
  BY <1>1, <1>2, <1>3, <1>4 DEF IInv

LEMMA DropCopyStep ==
    ASSUME IInv, NEW t \in Threads, DropCopy(t)
    PROVE  IInv'
<1>. USE DEF DropCopy, Go, onDisk, shared, token, history
<1>1. TypeInv'
  BY DEF IInv, TypeInv, Writing
<1>2. TokenInv'
  BY DEF IInv, TokenInv
<1>3. WorkInv'
  BY DEF IInv, WorkInv, TypeInv, Writing, Within
<1>4. OpenInv' /\ BaseInv' /\ AckInv'
  BY DEF IInv, TypeInv, OpenInv, BaseInv, AckInv, Within, Opening
<1>. QED
  BY <1>1, <1>2, <1>3, <1>4 DEF IInv

LEMMA InstallDirtyStep ==
    ASSUME IInv, NEW t \in Threads, NEW w \in Writes, NEW P \in SUBSET Pages,
           InstallDirty(t, w, P)
    PROVE  IInv'
<1>. USE DEF InstallDirty, Go, onDisk, token
<1>1. at[t] \in Writing /\ work[t] = image /\ image \in Contents
  BY DEF Writing, IInv, WorkInv, TypeInv
<1>2. \A u \in Threads : at'[u] = "idle"
  BY <1>1, Alone DEF IInv, TypeInv
<1>3. image' \in Contents /\ Within(image, image')
  BY <1>1, EditIsOneMore
<1>4. TypeInv'
  BY <1>3 DEF IInv, TypeInv, Writing
<1>5. TokenInv'
  BY DEF IInv, TokenInv
<1>6. WorkInv' /\ OpenInv'
  BY <1>2 DEF WorkInv, OpenInv, Writing, Opening
<1>7. BaseInv' /\ AckInv'
  BY <1>3, WithinTransitive DEF IInv, BaseInv, AckInv, Within
<1>. QED
  BY <1>4, <1>5, <1>6, <1>7 DEF IInv

-------------------------------------------------------------------------------
(* flush_and_install. *)
LEMMA FlushStep ==
    ASSUME IInv, NEW t \in Threads, NEW w \in Writes, NEW P \in SUBSET Pages,
           Flush(t, w, P)
    PROVE  IInv'
<1>. USE DEF Flush, Go, onDisk, shared, token
<1>1. at[t] \in Writing /\ work[t] = image /\ image \in Contents
  BY DEF Writing, IInv, WorkInv, TypeInv
<1>2. attached # {} /\ \A u \in Threads : u # t => at'[u] = "idle"
  BY <1>1, Alone DEF IInv, TypeInv
<1>3. at'[t] = "flushing" /\ work'[t] = Edit(t, w, P)
  BY DEF IInv, TypeInv
<1>4. /\ OneMore(image, work'[t])
      /\ work'[t] \in Contents
  BY <1>1, <1>3, EditIsOneMore
<1>5. TypeInv'
  <2>1. Changed(Edit(t, w, P)) \in SUBSET Pages
    BY DEF Changed
  <2>. QED
    BY <1>3, <1>4, <2>1 DEF IInv, TypeInv, Writing
<1>6. TokenInv'
  BY DEF IInv, TokenInv
<1>7. \A p \in Pages \ todo'[t] : work'[t][p] \subseteq file[p]
  <2>1. todo'[t] = {p \in Pages : work'[t][p] # flushed[p]}
    BY <1>3 DEF IInv, TypeInv, Changed
  <2>. QED
    BY <1>2, <2>1 DEF IInv, BaseInv, Within
<1>8. WorkInv'
  <2>1. tokens'[t] > 0
    BY <1>1 DEF IInv, WorkInv
  <2>. QED
    BY <1>2, <1>3, <1>4, <1>7, <2>1 DEF WorkInv, Writing
<1>9. OpenInv' /\ BaseInv' /\ AckInv'
  BY <1>2, <1>3 DEF IInv, OpenInv, BaseInv, AckInv, Within, Opening
<1>. QED
  BY <1>5, <1>6, <1>8, <1>9 DEF IInv

LEMMA WritePageStep ==
    ASSUME IInv, NEW t \in Threads, NEW p \in Pages, WritePage(t, p)
    PROVE  IInv'
<1>. USE DEF WritePage, shared, token, history
<1>1. at[t] \in Writing /\ at[t] = "flushing"
  BY DEF Writing
<1>2. attached # {} /\ \A u \in Threads : u # t => at[u] = "idle"
  BY <1>1, Alone
<1>3. Within(image, work[t]) /\ work[t] \in Contents
  BY <1>1, OneMoreIsMore DEF IInv, WorkInv, TypeInv
<1>4. /\ file'[p] = work[t][p]
      /\ \A q \in Pages : q # p => file'[q] = file[q]
  BY DEF IInv, TypeInv, Contents
<1>5. TypeInv'
  BY <1>3 DEF IInv, TypeInv, Contents
<1>6. TokenInv'
  BY DEF IInv, TokenInv
<1>7. WorkInv'
  <2>1. \A q \in Pages \ todo'[t] : work[t][q] \subseteq file'[q]
    BY <1>1, <1>4 DEF IInv, WorkInv, TypeInv
  <2>. QED
    BY <1>1, <1>2, <2>1 DEF IInv, WorkInv, Writing
<1>8. OpenInv'
  BY <1>1, <1>2 DEF OpenInv, Opening
<1>9. Within(flushed, image) /\ Within(flushed, file) /\ Within(acked, image) /\ Within(acked, file)
  BY <1>2 DEF IInv, BaseInv, AckInv
<1>10. BaseInv' /\ AckInv'
  BY <1>3, <1>4, <1>9 DEF BaseInv, AckInv, Within
<1>. QED
  BY <1>5, <1>6, <1>7, <1>8, <1>10 DEF IInv

LEMMA FlushFailsStep ==
    ASSUME IInv, NEW t \in Threads, FlushFails(t)
    PROVE  IInv'
<1>. USE DEF FlushFails, Go, onDisk, shared, token
<1>1. TypeInv'
  BY DEF IInv, TypeInv, Writing
<1>2. TokenInv'
  BY DEF IInv, TokenInv
<1>3. WorkInv'
  BY DEF IInv, WorkInv, TypeInv, Writing, Within
<1>4. OpenInv' /\ BaseInv' /\ AckInv'
  BY DEF IInv, TypeInv, OpenInv, BaseInv, AckInv, Within, Opening
<1>. QED
  BY <1>1, <1>2, <1>3, <1>4 DEF IInv

LEMMA PublishStep ==
    ASSUME IInv, NEW t \in Threads, Publish(t)
    PROVE  IInv'
<1>. USE DEF Publish, Go, onDisk, token
<1>1. at[t] \in Writing /\ at[t] = "flushing"
  BY DEF Writing
<1>2. attached # {} /\ \A u \in Threads : u # t => at'[u] = "idle"
  BY <1>1, Alone DEF IInv, TypeInv
<1>3. at'[t] = "published"
  BY DEF IInv, TypeInv
<1>4. work[t] \in Contents /\ Within(image, work[t])
  BY <1>1, OneMoreIsMore DEF IInv, WorkInv, TypeInv
<1>5. Within(work[t], file)
  BY <1>1 DEF IInv, WorkInv, Within
<1>6. TypeInv'
  BY <1>4 DEF IInv, TypeInv, Writing
<1>7. TokenInv'
  BY DEF IInv, TokenInv
<1>8. WorkInv'
  <2>1. tokens'[t] > 0
    BY <1>1 DEF IInv, WorkInv
  <2>. QED
    BY <1>2, <1>3, <1>5, <2>1 DEF WorkInv, Writing, Within
<1>9. OpenInv'
  BY <1>2, <1>3 DEF OpenInv, Opening
<1>10. BaseInv' /\ AckInv'
  BY <1>2, <1>4, <1>5 DEF IInv, BaseInv, AckInv, Within
<1>. QED
  BY <1>6, <1>7, <1>8, <1>9, <1>10 DEF IInv

LEMMA NoteFlushedStep ==
    ASSUME IInv, NEW t \in Threads, NoteFlushed(t)
    PROVE  IInv'
<1>. USE DEF NoteFlushed, Go, onDisk, token, history
<1>1. at[t] \in Writing /\ at[t] = "published"
  BY DEF Writing
<1>2. attached # {} /\ \A u \in Threads : u # t => at'[u] = "idle"
  BY <1>1, Alone DEF IInv, TypeInv
<1>3. at'[t] = "noted"
  BY DEF IInv, TypeInv
<1>4. TypeInv'
  BY DEF IInv, TypeInv, Writing
<1>5. TokenInv'
  BY DEF IInv, TokenInv
<1>6. WorkInv'
  BY <1>1, <1>2, <1>3 DEF IInv, WorkInv, Writing
<1>7. OpenInv'
  BY <1>2, <1>3 DEF OpenInv, Opening
<1>8. BaseInv' /\ AckInv'
  BY <1>1 DEF IInv, WorkInv, BaseInv, AckInv, Within
<1>. QED
  BY <1>4, <1>5, <1>6, <1>7, <1>8 DEF IInv

LEMMA NoteDiskStep ==
    ASSUME IInv, NEW t \in Threads, NoteDisk(t)
    PROVE  IInv'
<1>. USE DEF NoteDisk, Go, onDisk, token, history
<1>1. at[t] \in Writing
  BY DEF Writing
<1>2. attached # {} /\ \A u \in Threads : at'[u] = "idle"
  BY <1>1, Alone DEF IInv, TypeInv
<1>3. TypeInv'
  BY DEF IInv, TypeInv, Writing
<1>4. TokenInv'
  BY DEF IInv, TokenInv
<1>5. WorkInv' /\ OpenInv'
  BY <1>2 DEF WorkInv, OpenInv, Writing, Opening
<1>6. BaseInv' /\ AckInv'
  BY <1>2 DEF IInv, BaseInv, AckInv, Within
<1>. QED
  BY <1>3, <1>4, <1>5, <1>6 DEF IInv
-------------------------------------------------------------------------------
(* open, and the end of an attachment. *)
LEMMA OpeningAlone ==
    ASSUME IInv, NEW t \in Threads, at[t] \in Opening
    PROVE  /\ attached = {} /\ disk # stamp
           /\ \A u \in Threads : u # t => at[u] = "idle"
<1>1. attached = {} /\ disk # stamp
  BY DEF IInv, OpenInv
<1>2. ASSUME NEW u \in Threads, u # t PROVE at[u] = "idle"
  <2>1. at[u] \notin Writing
    BY <1>1, Alone
  <2>2. at[u] \notin Opening
    BY <1>2 DEF IInv, OpenInv
  <2>. QED
    BY <2>1, <2>2 DEF IInv, TypeInv
<1>. QED
  BY <1>1, <1>2

LEMMA AttachStep ==
    ASSUME IInv, NEW t \in Threads, Attach(t)
    PROVE  IInv'
<1>. USE DEF Attach, onDisk, shared, token, locals, history
<1>1. TypeInv'
  BY DEF IInv, TypeInv
<1>2. TokenInv'
  BY DEF IInv, TokenInv
<1>3. WorkInv'
  BY DEF IInv, WorkInv, Writing, Within
<1>4. OpenInv'
  BY DEF OpenInv, PoolIsFree, Opening
<1>5. BaseInv' /\ AckInv'
  BY DEF IInv, BaseInv, AckInv, Within
<1>. QED
  BY <1>1, <1>2, <1>3, <1>4, <1>5 DEF IInv

LEMMA FindChangedStep ==
    ASSUME IInv, ~AttachUnsettled, NEW t \in Threads, FindChanged(t)
    PROVE  IInv'
<1>. USE DEF FindChanged, Go, onDisk, shared, token, history
<1>1. attached = {} /\ at'[t] = "found" /\ \A u \in Threads : u # t => at'[u] = "idle"
  <2>1. attached = {}
    OBVIOUS
  <2>2. \A u \in Threads : at[u] = "idle"
    BY <2>1, Alone DEF IInv, TypeInv, PoolIsFree
  <2>. QED
    BY <2>1, <2>2 DEF IInv, TypeInv
<1>2. TypeInv'
  BY DEF IInv, TypeInv, Opening
<1>3. TokenInv'
  BY DEF IInv, TokenInv
<1>4. WorkInv' /\ OpenInv'
  BY <1>1 DEF WorkInv, OpenInv, Writing, Opening
<1>5. BaseInv' /\ AckInv'
  BY DEF IInv, BaseInv, AckInv, Within
<1>. QED
  BY <1>2, <1>3, <1>4, <1>5 DEF IInv

LEMMA ReadFileStep ==
    ASSUME IInv, NEW t \in Threads, ReadFile(t)
    PROVE  IInv'
<1>. USE DEF ReadFile, Go, onDisk, shared, token, history
<1>1. attached = {} /\ disk # stamp /\ \A u \in Threads : u # t => at'[u] = "idle"
  BY OpeningAlone DEF Opening, IInv, TypeInv
<1>2. at'[t] = "read" /\ raw'[t] = file
  BY DEF IInv, TypeInv
<1>3. TypeInv'
  BY DEF IInv, TypeInv, Opening
<1>4. TokenInv'
  BY DEF IInv, TokenInv
<1>5. WorkInv' /\ OpenInv'
  BY <1>1, <1>2 DEF WorkInv, OpenInv, Writing, Opening
<1>6. BaseInv' /\ AckInv'
  BY DEF IInv, BaseInv, AckInv, Within
<1>. QED
  BY <1>3, <1>4, <1>5, <1>6 DEF IInv

LEMMA ReloadStep ==
    ASSUME IInv, NEW t \in Threads, Reload(t)
    PROVE  IInv'
<1>. USE DEF Reload, Go, onDisk, token, history
<1>1. attached = {} /\ disk # stamp /\ \A u \in Threads : u # t => at'[u] = "idle"
  BY OpeningAlone DEF Opening, IInv, TypeInv
<1>2. at'[t] = "reloaded" /\ raw[t] = file
  BY DEF IInv, TypeInv, OpenInv
<1>3. TypeInv'
  BY DEF IInv, TypeInv, Opening
<1>4. TokenInv'
  BY DEF IInv, TokenInv
<1>5. WorkInv' /\ OpenInv'
  BY <1>1, <1>2 DEF WorkInv, OpenInv, Writing, Opening
<1>6. BaseInv' /\ AckInv'
  BY <1>1, <1>2 DEF IInv, BaseInv, AckInv, Within
<1>. QED
  BY <1>3, <1>4, <1>5, <1>6 DEF IInv

LEMMA RebaseStep ==
    ASSUME IInv, NEW t \in Threads, Rebase(t)
    PROVE  IInv'
<1>. USE DEF Rebase, Go, onDisk, token, history
<1>1. attached = {} /\ disk # stamp /\ \A u \in Threads : u # t => at'[u] = "idle"
  BY OpeningAlone DEF Opening, IInv, TypeInv
<1>2. at'[t] = "rebased" /\ raw[t] = file /\ image = raw[t]
  BY DEF IInv, TypeInv, OpenInv
<1>3. TypeInv'
  BY DEF IInv, TypeInv, Opening
<1>4. TokenInv'
  BY DEF IInv, TokenInv
<1>5. WorkInv' /\ OpenInv'
  BY <1>1, <1>2 DEF WorkInv, OpenInv, Writing, Opening
<1>6. BaseInv' /\ AckInv'
  BY <1>1 DEF IInv, BaseInv, AckInv, Within
<1>. QED
  BY <1>3, <1>4, <1>5, <1>6 DEF IInv

LEMMA ReopenedStep ==
    ASSUME IInv, NEW t \in Threads, Reopened(t)
    PROVE  IInv'
<1>. USE DEF Reopened, Go, onDisk, token, history
<1>1. \A u \in Threads : at'[u] = "idle"
  BY OpeningAlone DEF Opening, IInv, TypeInv
<1>2. flushed = file /\ image = file
  BY DEF IInv, OpenInv
<1>3. TypeInv'
  BY DEF IInv, TypeInv, Opening
<1>4. TokenInv'
  BY DEF IInv, TokenInv
<1>5. WorkInv' /\ OpenInv'
  BY <1>1 DEF WorkInv, OpenInv, Writing, Opening
<1>6. BaseInv' /\ AckInv'
  BY <1>2 DEF IInv, BaseInv, AckInv, Within
<1>. QED
  BY <1>3, <1>4, <1>5, <1>6 DEF IInv

LEMMA DetachStep ==
    ASSUME IInv, NEW t \in Threads, Detach(t)
    PROVE  IInv'
<1>. USE DEF Detach, onDisk, shared, token, locals, history
<1>1. TypeInv'
  BY DEF IInv, TypeInv
<1>2. TokenInv'
  BY DEF IInv, TokenInv, TypeInv
<1>3. WorkInv'
  BY DEF IInv, WorkInv, Writing, Within
<1>4. OpenInv'
  BY DEF IInv, OpenInv, Opening
<1>5. BaseInv' /\ AckInv'
  BY DEF IInv, BaseInv, AckInv, Within
<1>. QED
  BY <1>1, <1>2, <1>3, <1>4, <1>5 DEF IInv

LEMMA ReplaceStep ==
    ASSUME IInv, Replace
    PROVE  IInv'
<1>. USE DEF Replace, shared, token, locals
<1>1. \A u \in Threads : at[u] = "idle"
  BY Alone DEF IInv, TypeInv, PoolIsFree
<1>2. TypeInv'
  BY DEF IInv, TypeInv, Nothing, Contents
<1>3. TokenInv'
  BY DEF IInv, TokenInv
<1>4. WorkInv' /\ OpenInv'
  BY <1>1 DEF WorkInv, OpenInv, Writing, Opening
<1>5. BaseInv' /\ AckInv'
  BY DEF IInv, TypeInv, BaseInv, AckInv, Within, Nothing
<1>. QED
  BY <1>2, <1>3, <1>4, <1>5 DEF IInv

LEMMA NextIInv ==
    ASSUME ~AttachUnsettled, IInv, [Next]_poolVars
    PROVE  IInv'
<1>1. CASE Next
  BY <1>1, BeginWriteStep, EndWriteStep, WorkCopyStep, DropCopyStep, InstallDirtyStep,
     FlushStep, WritePageStep, FlushFailsStep, PublishStep, NoteFlushedStep,
     NoteDiskStep, AttachStep, FindChangedStep, ReadFileStep, ReloadStep, RebaseStep,
     ReopenedStep, DetachStep, ReplaceStep
     DEF Next
<1>2. CASE UNCHANGED poolVars
  <2>. USE <1>2 DEF poolVars, onDisk, shared, token, locals, history
  <2>1. TypeInv' /\ TokenInv'
    BY DEF IInv, TypeInv, TokenInv
  <2>2. WorkInv'
    BY DEF IInv, WorkInv, Within
  <2>3. OpenInv' /\ BaseInv' /\ AckInv'
    BY DEF IInv, OpenInv, BaseInv, AckInv, Within
  <2>. QED
    BY <2>1, <2>2, <2>3 DEF IInv
<1>. QED
  BY <1>1, <1>2

-------------------------------------------------------------------------------
(* The inductive invariant holds of every behaviour in which nobody        *)
(* attaches to a half-written file.                                        *)
THEOREM PoolInvariant ==
    ASSUME ~AttachUnsettled
    PROVE  Spec => []IInv
BY InitIInv, NextIInv, PTL DEF Spec

(* A commit that was acknowledged (OP_COMMIT's answer, after               *)
(* flush_and_install) is in the file, for any number of connections,       *)
(* pages and failed flushes.                                               *)
THEOREM AcknowledgedCommitsStay ==
    ASSUME ~AttachUnsettled
    PROVE  Spec => []AckedIsDurable
<1>1. IInv => AckedIsDurable
  BY DEF IInv, AckInv, Within, AckedIsDurable
<1>. QED
  BY <1>1, PoolInvariant, PTL

(* Every step of the pool is a step of AtomicImage or leaves its variables *)
(* alone.                                                                  *)
LEMMA StepIsAtomic ==
    ASSUME IInv, [Next]_poolVars
    PROVE  [A!Next]_<<image, acked, attached>>
<1>. DEFINE Same == UNCHANGED <<image, acked, attached>>
<1>1. ASSUME NEW t \in Threads, NEW w \in Writes, NEW P \in SUBSET Pages,
             InstallDirty(t, w, P)
      PROVE  A!Install
  <2>1. work[t] = image /\ image \in Contents
    BY <1>1 DEF InstallDirty, IInv, WorkInv, TypeInv
  <2>2. OneMore(image, image')
    BY <1>1, <2>1, EditIsOneMore DEF InstallDirty
  <2>. QED
    BY <1>1, <2>2 DEF OneMore, A!Install, InstallDirty
<1>2. ASSUME NEW t \in Threads, Publish(t)
      PROVE  A!Commit
  <2>1. OneMore(image, image') /\ acked' = image'
    BY <1>2 DEF Publish, IInv, WorkInv
  <2>. QED
    BY <1>2, <2>1 DEF OneMore, A!Commit, Publish
<1>3. ASSUME NEW t \in Threads, Reload(t)
      PROVE  A!Reload
  <2>1. attached = {}
    BY <1>3, OpeningAlone DEF Reload, Opening
  <2>2. image' \in Contents /\ Within(acked, image')
    BY <1>3 DEF Reload, IInv, TypeInv, OpenInv, AckInv
  <2>. QED
    BY <1>3, <2>1, <2>2 DEF Reload, A!Reload, A!Contents, Contents, Within, history
<1>4. ASSUME NEW t \in Threads, Attach(t) \/ Reopened(t) \/ Detach(t)
      PROVE  A!AttachOrDetach
  <2>1. attached' \in SUBSET Threads
    BY <1>4 DEF IInv, TypeInv, Attach, Reopened, Detach
  <2>. QED
    BY <1>4, <2>1 DEF Attach, Reopened, Detach, A!AttachOrDetach, shared, history
<1>5. ASSUME Replace
      PROVE  A!Replace
  BY <1>5 DEF Replace, A!Replace, Nothing, A!Nothing, shared
<1>6. ASSUME NEW t \in Threads,
             \/ BeginWrite(t) \/ EndWrite(t) \/ WorkCopy(t) \/ DropCopy(t)
             \/ FlushFails(t) \/ NoteFlushed(t) \/ NoteDisk(t)
             \/ FindChanged(t) \/ ReadFile(t) \/ Rebase(t)
      PROVE  Same
  BY <1>6 DEF BeginWrite, EndWrite, WorkCopy, DropCopy, FlushFails, NoteFlushed, NoteDisk,
     FindChanged, ReadFile, Rebase, shared, history
<1>7. ASSUME NEW t \in Threads, NEW w \in Writes, NEW P \in SUBSET Pages, Flush(t, w, P)
      PROVE  Same
  BY <1>7 DEF Flush, shared
<1>8. ASSUME NEW t \in Threads, NEW p \in Pages, WritePage(t, p)
      PROVE  Same
  BY <1>8 DEF WritePage, shared, history
<1>9. CASE UNCHANGED poolVars
  BY <1>9 DEF poolVars, shared, history
<1>. QED
  BY <1>1, <1>2, <1>3, <1>4, <1>5, <1>6, <1>7, <1>8, <1>9 DEF Next, A!Next

(* The shared image of pool.rs is what its head says: published            *)
(* atomically, every write in it whole and none lost, and read again only  *)
(* with all that was acknowledged.                                         *)
THEOREM PoolIsAtomicImage ==
    ASSUME ~AttachUnsettled
    PROVE  Spec => ImageIsAtomic
<1>1. Init => A!Init
  BY DEF Init, A!Init, Nothing, A!Nothing
<1>. QED
  BY <1>1, PoolInvariant, StepIsAtomic, PTL DEF Spec, ImageIsAtomic, A!Spec
===============================================================================
