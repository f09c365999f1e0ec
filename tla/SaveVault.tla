------------------------------ MODULE SaveVault ------------------------------
(***************************************************************************)
(* What the save data functions of launch.c promise a player, without      *)
(* SAVE.INI, save IDs or cartridge media: while the file selector is open, *)
(* every save on the card is the one its game last left, or the player has *)
(* been told that it is not; and on the way there a save only ever changes *)
(* towards what its game left.                                             *)
(***************************************************************************)
EXTENDS Integers

CONSTANTS
    Slots,      \* the saves: one for each medium of each game
    Chunk,      \* the pieces of a save
    Content,    \* what a piece can hold
    Blank,      \* what a piece holds before any game has written it
    Owner(_)    \* the game a slot belongs to

VARIABLES
    home,       \* home[s][c]: the save on the card
    live,       \* live[s][c]: the save as its game last left it
    excused,    \* the slots the player knows to be lost
    open,       \* whether the file selector is open
    wild        \* whether an event outside the promise has happened

vars == <<home, live, excused, open, wild>>

Kept(s) == s \in excused \/ home[s] = live[s]
Family(s) == {t \in Slots : Owner(t) = Owner(s)}

Init ==
    /\ home \in [Slots -> [Chunk -> Content]]
    /\ live = home
    /\ excused = {}
    /\ open = FALSE
    /\ wild = FALSE

(* Learning of a loss may accompany any step that ends a session. *)
Excuse == excused \subseteq excused' /\ excused' \subseteq Slots

Open ==
    /\ ~open /\ open'
    /\ Excuse
    /\ (\A s \in Slots : Kept(s))'
    /\ UNCHANGED <<home, live, wild>>

Leave ==
    /\ ~open'
    /\ Excuse
    /\ UNCHANGED <<home, live, wild>>

(* A game starts from its saves; a warned player may lose what it writes.   *)
Start(s) ==
    /\ ~open
    /\ live' = [t \in Slots |-> IF t \in Family(s) THEN home[t] ELSE live[t]]
    /\ excused' \in {excused \ Family(s), excused \cup Family(s)}
    /\ UNCHANGED <<home, open, wild>>

Play(s, c) ==
    /\ ~open
    /\ \E v \in Content : live' = [live EXCEPT ![s][c] = v]
    /\ UNCHANGED <<home, excused, open, wild>>

Store(s, c) ==
    /\ ~open
    /\ home' = [home EXCEPT ![s][c] = live[s][c]]
    /\ UNCHANGED <<live, excused, open, wild>>

(* The player erases a save.                                                *)
Erase(s) ==
    /\ open
    /\ home' = [home EXCEPT ![s] = [c \in Chunk |-> Blank]]
    /\ live' = [live EXCEPT ![s] = [c \in Chunk |-> Blank]]
    /\ UNCHANGED <<excused, open, wild>>

(* From the first event outside the promise on, nothing is promised.        *)
Break == wild'

Next ==
    \/ Open \/ Leave \/ Break
    \/ \E s \in Slots : Start(s) \/ Erase(s) \/ \E c \in Chunk : Play(s, c) \/ Store(s, c)

Spec == Init /\ [][Next]_vars

(* The promise as a state property. *)
Promise == open /\ ~wild => \A s \in Slots : Kept(s)
=============================================================================
