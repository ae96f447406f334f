----------------------------- MODULE AtomicImage -----------------------------
(***************************************************************************)
(* What the buffer pool promises (src/crates/cch/src/pool.rs, head of the  *)
(* file): one image per database, into which every write goes whole and    *)
(* behind which none is lost, and a file that holds whatever a commit was  *)
(* acknowledged for.                                                       *)
(***************************************************************************)
CONSTANTS Threads, Pages, Writes

VARIABLES
    image,     \* the writes each page of the image shows
    acked,     \* the writes each page had when a commit was acknowledged
    attached   \* the connections that have the database open

Contents == [Pages -> SUBSET Writes]
Nothing == [p \in Pages |-> {}]

With(img, w, P) == [p \in Pages |-> IF p \in P THEN img[p] \cup {w} ELSE img[p]]

Init ==
    /\ image = Nothing
    /\ acked = Nothing
    /\ attached = {}

Install ==
    /\ \E w \in Writes, P \in SUBSET Pages : image' = With(image, w, P)
    /\ UNCHANGED <<acked, attached>>

Commit ==
    /\ \E w \in Writes, P \in SUBSET Pages : image' = With(image, w, P)
    /\ acked' = image'
    /\ UNCHANGED attached

AttachOrDetach ==
    /\ attached' \in SUBSET Threads
    /\ UNCHANGED <<image, acked>>

(* Between attachments the file may become another database, and may be    *)
(* read again: it comes back with all that was acknowledged.               *)
Replace ==
    /\ attached = {}
    /\ acked' = Nothing
    /\ UNCHANGED <<image, attached>>

Reload ==
    /\ attached = {}
    /\ image' \in Contents
    /\ \A p \in Pages : acked[p] \subseteq image'[p]
    /\ UNCHANGED <<acked, attached>>

Next == Install \/ Commit \/ AttachOrDetach \/ Replace \/ Reload

Spec == Init /\ [][Next]_<<image, acked, attached>>
==============================================================================
