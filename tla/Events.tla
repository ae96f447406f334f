-------------------------------- MODULE Events --------------------------------
(***************************************************************************)
(* The event table of a database (src/crates/evt/src/lib.rs), the sockets  *)
(* it is heard on, and the requests and transactions of the attachments    *)
(* that use it (src/crates/wire/src/server.rs).                            *)
(*                                                                         *)
(* An event is a counter.  POST_EVENT files a post under the key the       *)
(* transaction has at that moment; the end of the transaction counts or    *)
(* drops what lies under the key it has by then; a client hears a counter  *)
(* that has reached the threshold it queued.  An attachment runs one       *)
(* transaction at a time here and keeps its event session to the end.      *)
(***************************************************************************)
EXTENDS Naturals, Sequences, SequencesExt, Functions

CONSTANTS
    Sessions,  \* attachments
    Names,     \* event names
    MaxPosts   \* POST_EVENTs run, and the largest threshold queued

VARIABLES
    counts,     \* EventTable: a counter for each name somebody listened for
    interests,  \* interests in the order they were queued
    pending,    \* posts of each attachment by key and name
    has_id,     \* the transaction has reserved its own id
    sockets,    \* attachments with an auxiliary socket
    outbox,     \* deliveries a thread has collected and not yet written
    heard,      \* the last counter written to each attachment's socket
    ran,        \* POST_EVENTs run so far
    posted,     \* posts of the live transaction
    due         \* posts of committed transactions to names with a counter

table == <<counts, interests, pending>>
wire == <<sockets, outbox, heard>>
ghosts == <<ran, posted, due>>
eventVars == <<table, has_id, wire, ghosts>>

NoPosts == [n \in Names |-> 0]

(* Posts lie under the transaction's id, or under its lock owner while it  *)
(* has none.  An end that does not retain the transaction leaves with both *)
(* numbers: nobody asks for them again.                                    *)
Keys == {"tx", "owner"}

event_tx(s) == IF has_id[s] THEN "tx" ELSE "owner"

Init ==
    /\ counts = << >> /\ interests = << >>
    /\ pending = [s \in Sessions |-> [k \in Keys |-> NoPosts]]
    /\ has_id = [s \in Sessions |-> FALSE]
    /\ sockets = {} /\ heard = [s \in Sessions |-> NoPosts]
    /\ outbox = [s \in Sessions |-> << >>]
    /\ ran = 0 /\ posted = [s \in Sessions |-> NoPosts] /\ due = NoPosts

(* A thread writes what it has collected before it does anything else.     *)
Free(s) == outbox[s] = << >>

-------------------------------------------------------------------------------
Delivery(s, n, count) == [session |-> s, name |-> n, count |-> count + 1]

(* OP_QUE_EVENTS: the socket, then the interest or its answer at once.     *)
Queue(s, n, seen) ==
    LET now == IF n \in DOMAIN counts THEN counts[n] ELSE 0 IN
    /\ Free(s)
    /\ sockets' = sockets \cup {s}
    /\ counts' = [m \in DOMAIN counts \cup {n} |-> IF m = n THEN now ELSE counts[m]]
    /\ IF seen <= now
       THEN /\ outbox' = [outbox EXCEPT ![s] = <<Delivery(s, n, now)>>]
            /\ UNCHANGED interests
       ELSE /\ interests' = Append(interests,
                  [session |-> s, name |-> n, threshold |-> seen])
            /\ UNCHANGED outbox
    /\ UNCHANGED <<pending, has_id, heard, ghosts>>

(* OP_CANCEL_EVENTS *)
Cancel(s) ==
    /\ Free(s) /\ s \in sockets
    /\ interests' = SelectSeq(interests, LAMBDA i : i.session # s)
    /\ sockets' = sockets \ {s}
    /\ UNCHANGED <<counts, pending, has_id, outbox, heard, ghosts>>

(* POST_EVENT in a body *)
Post(s, n) ==
    /\ Free(s)
    /\ ran < MaxPosts /\ ran' = ran + 1
    /\ pending' = [pending EXCEPT ![s][event_tx(s)][n] = @ + 1]
    /\ posted' = [posted EXCEPT ![s][n] = @ + 1]
    /\ UNCHANGED <<counts, interests, has_id, wire, due>>

(* The first write outside a savepoint or a body reserves the own id.      *)
Write(s) ==
    /\ Free(s) /\ ~has_id[s]
    /\ has_id' = [has_id EXCEPT ![s] = TRUE]
    /\ UNCHANGED <<table, wire, ghosts>>

-------------------------------------------------------------------------------
Reached(i, posts) ==
    posts[i.name] > 0 /\ i.threshold <= counts[i.name] + posts[i.name]

(* EventTable::commit *)
CountPosts(s) ==
    LET posts == pending[s][event_tx(s)]
        fired == SelectSeq(interests, LAMBDA i : Reached(i, posts))
        Answer(i) == Delivery(i.session, i.name, counts[i.name] + posts[i.name])
    IN  /\ counts' = [n \in DOMAIN counts |-> counts[n] + posts[n]]
        /\ interests' = SelectSeq(interests, LAMBDA i : ~Reached(i, posts))
        /\ outbox' = [outbox EXCEPT
               ![s] = [j \in DOMAIN fired |-> Answer(fired[j])]]

(* What is left of the keys when the transaction has ended.                *)
Forgotten(s, retain) ==
    [pending EXCEPT ![s] =
        [k \in Keys |-> IF retain /\ k # event_tx(s) THEN @[k] ELSE NoPosts]]

Ended(s, retain) ==
    /\ Free(s)
    /\ pending' = Forgotten(s, retain)
    /\ has_id' = [has_id EXCEPT ![s] = FALSE]
    /\ posted' = [posted EXCEPT ![s] = NoPosts]
    /\ UNCHANGED <<sockets, heard, ran>>

(* The posts are counted before the commit is written, whatever comes of   *)
(* the write.                                                              *)
Commit(s, retain) ==
    /\ CountPosts(s)
    /\ due' = [n \in Names |->
           due[n] + IF n \in DOMAIN counts THEN posted[s][n] ELSE 0]
    /\ Ended(s, retain)

Rollback(s, retain) ==
    /\ Ended(s, retain)
    /\ UNCHANGED <<counts, interests, outbox, due>>

(* deliver_events, after the table is let go of: a session that has no     *)
(* socket is passed over, one whose socket is gone loses it.               *)
Deliver(s) ==
    /\ ~Free(s)
    /\ outbox' = [outbox EXCEPT ![s] = Tail(@)]
    /\ LET d == Head(outbox[s]) IN
       \/ /\ d.session \in sockets
          /\ heard' = [heard EXCEPT ![d.session][d.name] = d.count]
          /\ UNCHANGED sockets
       \/ sockets' = sockets \ {d.session} /\ UNCHANGED heard
    /\ UNCHANGED <<table, has_id, ghosts>>

Next ==
    \E s \in Sessions :
        \/ \E n \in Names : Post(s, n)
        \/ \E n \in Names, seen \in 0..MaxPosts : Queue(s, n, seen)
        \/ Cancel(s)
        \/ Write(s)
        \/ \E retain \in BOOLEAN : Commit(s, retain) \/ Rollback(s, retain)
        \/ Deliver(s)

Spec == Init /\ [][Next]_eventVars

-------------------------------------------------------------------------------
(***************************************************************************)
(* A counter somebody listens on says how many posts were made by the      *)
(* transactions that committed: a transaction's posts are counted at its   *)
(* commit and swallowed by its rollback, whether or not it also wrote      *)
(* (event_tx, end_transaction).                                            *)
(***************************************************************************)
CommittedPostsCount == \A n \in DOMAIN counts : counts[n] = due[n]
===============================================================================
