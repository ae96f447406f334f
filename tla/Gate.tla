--------------------------------- MODULE Gate ---------------------------------
(***************************************************************************)
(* DbGate (src/crates/wire/src/server.rs): the counters every attachment   *)
(* to one file shares, and what asks them - the attach, -shut and -online, *)
(* the end of a transaction, the detach.  Each counter is an atomic of its *)
(* own: a thread does one access, and others run before its next one.      *)
(*                                                                         *)
(* An attachment has one transaction handle here.  -shut and -online are   *)
(* what an attach asks for on its way in, so no transaction is open then.  *)
(***************************************************************************)
EXTENDS Naturals

CONSTANTS
    Attachments,
    MaxKicks,  \* shutdowns that get as far as the kick
    Word       \* one more than the largest count: 2^64 in the build

Modes == 0 .. 3  \* none, multi, single, full
SingleMode == 2
FullMode == 3

(* What an attach asks for: nothing, -shut with one of its waits, -online. *)
Plain == [ask |-> "none", target |-> 0]
Asks == {Plain}
            \cup [ask : {"attach", "tran", "force"}, target : Modes \ {0}]
            \cup [ask : {"online"}, target : Modes \ {FullMode}]
Shuts == {"attach", "tran", "force"}

VARIABLES
    attaches, active_tx, kick_gen,  \* DbGate
    mode,                           \* the header's shutdown byte
    pc, want,                       \* each attachment's thread
    my_kick_gen, counted_tx         \* Database

gate == <<attaches, active_tx, kick_gen>>
gateVars == <<gate, mode, pc, want, my_kick_gen, counted_tx>>

Init ==
    /\ attaches = 0 /\ active_tx = 0 /\ kick_gen = 0 /\ mode = 0
    /\ pc = [a \in Attachments |-> "out"]
    /\ want = [a \in Attachments |-> Plain]
    /\ my_kick_gen = [a \in Attachments |-> 0]
    /\ counted_tx = [a \in Attachments |-> FALSE]

(* fetch_add and fetch_sub wrap. *)
Inc(n) == (n + 1) % Word
Dec(n) == (n + Word - 1) % Word

Goto(a, l) == pc' = [pc EXCEPT ![a] = l]
At(a, from, to) == pc[a] = from /\ Goto(a, to)

kicked(a) == my_kick_gen[a] < kick_gen

-------------------------------------------------------------------------------
(* load_database: the count, and only then the generation. *)
Join(a, w) ==
    /\ At(a, "out", "joined")
    /\ attaches' = Inc(attaches)
    /\ want' = [want EXCEPT ![a] = w]
    /\ UNCHANGED <<active_tx, kick_gen, mode, my_kick_gen, counted_tx>>

LoadGen(a) ==
    /\ At(a, "joined", "loaded")
    /\ my_kick_gen' = [my_kick_gen EXCEPT ![a] = kick_gen]
    /\ UNCHANGED <<gate, mode, want, counted_tx>>

(* Single-user mode holds one attachment; a full shutdown lets in only who *)
(* comes to change the mode.                                               *)
Denied(a) ==
    \/ mode = SingleMode /\ attaches > 1
    \/ mode = FullMode /\ want[a].ask = "none"

(* The attach is refused, or goes on to what it asks for.                  *)
Admit(a) ==
    /\ At(a, "loaded", IF Denied(a) THEN "dropping"
                       ELSE IF want[a].ask = "none" THEN "in" ELSE "ladder")
    /\ UNCHANGED <<gate, mode, want, my_kick_gen, counted_tx>>

(* -shut tightens, -online loosens, against the mode as it is now.         *)
Ladder(a) ==
    /\ IF want[a].ask \in Shuts
       THEN At(a, "ladder", IF want[a].target > mode THEN "waiting" ELSE "dropping")
       ELSE At(a, "ladder", IF want[a].target < mode THEN "header" ELSE "dropping")
    /\ UNCHANGED <<gate, mode, want, my_kick_gen, counted_tx>>

-------------------------------------------------------------------------------
WaitOver(a) ==
    IF want[a].ask = "tran" THEN active_tx = 0 ELSE attaches <= 1

(* The delay may run out at any moment: -force then goes on, the others    *)
(* are refused.                                                            *)
WaitEnds(a) ==
    /\ pc[a] = "waiting"
    /\ \/ (WaitOver(a) \/ want[a].ask = "force") /\ Goto(a, "kick")
       \/ ~WaitOver(a) /\ want[a].ask # "force" /\ Goto(a, "dropping")
    /\ UNCHANGED <<gate, mode, want, my_kick_gen, counted_tx>>

(* The kick: the generation, then the two counts.                          *)
KickGen(a) ==
    /\ At(a, "kick", "kickAttaches")
    /\ kick_gen < MaxKicks
    /\ kick_gen' = kick_gen + 1
    /\ my_kick_gen' = [my_kick_gen EXCEPT ![a] = kick_gen + 1]
    /\ UNCHANGED <<attaches, active_tx, mode, want, counted_tx>>

KickAttaches(a) ==
    /\ At(a, "kickAttaches", "kickTx")
    /\ attaches' = 1
    /\ UNCHANGED <<active_tx, kick_gen, mode, want, my_kick_gen, counted_tx>>

KickTx(a) ==
    /\ At(a, "kickTx", "header")
    /\ active_tx' = 0
    /\ UNCHANGED <<attaches, kick_gen, mode, want, my_kick_gen, counted_tx>>

(* The header byte, in a flush that may fail after everybody was kicked.   *)
WriteHeader(a) ==
    /\ \/ At(a, "header", "in") /\ mode' = want[a].target
       \/ At(a, "header", "dropping") /\ UNCHANGED mode
    /\ UNCHANGED <<gate, want, my_kick_gen, counted_tx>>

-------------------------------------------------------------------------------
(* A statement asks for the kick once, before it begins.                   *)
Statement(a) ==
    /\ ~kicked(a) /\ At(a, "in", "running")
    /\ UNCHANGED <<gate, mode, want, my_kick_gen, counted_tx>>

(* It ends having written, so that its transaction counts, or not.         *)
note_tx_begun(a) ==
    /\ active_tx' = IF counted_tx[a] THEN active_tx ELSE Inc(active_tx)
    /\ counted_tx' = [counted_tx EXCEPT ![a] = TRUE]

StatementEnds(a) ==
    /\ At(a, "running", "in")
    /\ note_tx_begun(a) \/ UNCHANGED <<active_tx, counted_tx>>
    /\ UNCHANGED <<attaches, kick_gen, mode, want, my_kick_gen>>

(* Commit and rollback do not ask for the kick, and nor does the detach.   *)
end_write(a) ==
    /\ active_tx' = IF counted_tx[a] THEN Dec(active_tx) ELSE active_tx
    /\ counted_tx' = [counted_tx EXCEPT ![a] = FALSE]

EndTx(a) ==
    /\ pc[a] = "in" /\ counted_tx[a] /\ end_write(a)
    /\ UNCHANGED <<attaches, kick_gen, mode, pc, want, my_kick_gen>>

(* The detach ends the transaction; a dropped socket leaves it to drop.    *)
Leave(a) ==
    /\ At(a, "in", "dropping")
    /\ end_write(a) \/ UNCHANGED <<active_tx, counted_tx>>
    /\ UNCHANGED <<attaches, kick_gen, mode, want, my_kick_gen>>

(* drop: the transaction's count, the question, the attachment's count.    *)
DropTx(a) ==
    /\ At(a, "dropping", "asking") /\ end_write(a)
    /\ UNCHANGED <<attaches, kick_gen, mode, want, my_kick_gen>>

AskKicked(a) ==
    /\ At(a, "asking", IF kicked(a) THEN "out" ELSE "leaving")
    /\ UNCHANGED <<gate, mode, want, my_kick_gen, counted_tx>>

DropAttach(a) ==
    /\ At(a, "leaving", "out")
    /\ attaches' = Dec(attaches)
    /\ UNCHANGED <<active_tx, kick_gen, mode, want, my_kick_gen, counted_tx>>

Next ==
    \E a \in Attachments :
        \/ \E w \in Asks : Join(a, w)
        \/ LoadGen(a) \/ Admit(a) \/ Ladder(a)
        \/ WaitEnds(a) \/ KickGen(a) \/ KickAttaches(a) \/ KickTx(a)
        \/ WriteHeader(a)
        \/ Statement(a) \/ StatementEnds(a) \/ EndTx(a)
        \/ Leave(a) \/ DropTx(a) \/ AskKicked(a) \/ DropAttach(a)

Spec == Init /\ [][Next]_gateVars

-------------------------------------------------------------------------------
Kicking == {"kickAttaches", "kickTx"}

(* Whoever waits for open transactions reads a count of open transactions: *)
(* when no attachment has one and no shutdown is half way through its      *)
(* kick, active_tx is 0 (-shut -tran tests it in apply_shutdown_dpb).      *)
NoneOpenNoneCounted ==
    (\A a \in Attachments : ~counted_tx[a] /\ pc[a] \notin Kicking) => active_tx = 0
===============================================================================
