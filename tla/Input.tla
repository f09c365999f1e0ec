------------------------------- MODULE Input --------------------------------
(***************************************************************************)
(* The keypad: vblank_input_update, in the interrupt handler, collects     *)
(* keys in three masks; input_update, in the main loop, copies the masks,  *)
(* decides which key counts as pressed, with repetition, and clears them;  *)
(* ui_hidctrl passes the held keys on to a computer.                       *)
(*                                                                         *)
(* Covered: the interrupt between any two of these, a main loop that is    *)
(* late by any number of ticks, the 8-bit timers of the repetition.        *)
(*                                                                         *)
(* Abstracted: the console's wiring of keys to bits; input_update is only  *)
(* called after at least one interrupt, as all its callers idle first.     *)
(***************************************************************************)
EXTENDS Naturals

CONSTANTS
    Loop,     \* the keys input_update looks at are 1..Loop: 11
    Extra,    \* further bits the handler may set: KEY_PCV2_CLEAR and others
    Clear,    \* the key that ends ui_hidctrl
    Wrap,     \* values of an input_vbls_next: 256
    First,    \* settings.joy_repeat_first_ticks
    Again,    \* settings.joy_repeat_next_ticks
    Race,     \* whether an interrupt may come between the copy and the clearing
    MaxLag    \* bound: ticks between two calls of input_update

Keys == 1..Loop \cup Extra

KeyAssumption == Loop \in Nat /\ Extra \cap 1..Loop = {} /\ Clear \in Keys
TimeAssumption == Wrap \in Nat /\ First \in 1..(Wrap \div 2 - 1) /\ Again \in 1..(Wrap \div 2 - 1)
BoundAssumption == MaxLag \in Nat /\ Race \in BOOLEAN

VARIABLES
    pc,        \* "idle", or "copied": between the copy and the clearing
    mode,      \* "menu"; "clear": in input_wait_clear; "hid": in ui_hidctrl
    keys,      \* input_keys
    repressed, \* input_keys_repressed
    released,  \* input_keys_released
    copy,      \* input_update's copies of the three
    held,      \* input_held
    pressed,   \* input_pressed
    next,      \* input_vbls_next
    tick,      \* vbl_ticks, as far as the timers see it
    lag,       \* ticks since the masks were last cleared
    down,      \* the keys that are down
    struck,    \* those that went down since the masks were cleared
    quiet      \* quiet[k]: ticks since k was reported, if it stayed down

masks == <<keys, repressed, released>>
vars  == <<pc, mode, masks, copy, held, pressed, next, tick, lag, down, struck, quiet>>

NoCopy == [keys |-> {}, re |-> {}, rel |-> {}]
Soon(n) == IF n > First THEN First ELSE n

-----------------------------------------------------------------------------
(* The interrupt, with the keys that are down by now.  The ticks the loop   *)
(* is late are not counted beyond MaxLag.                                   *)
Vblank ==
    /\ pc = "idle" \/ Race
    /\ lag < MaxLag
    /\ \E d \in SUBSET Keys :
         /\ down' = d
         /\ struck' = struck \cup (d \ down)
         /\ keys' = keys \cup d
         /\ repressed' = repressed \cup (d \cap released)
         /\ released' = released \cup (held \ d)
         /\ quiet' = [k \in Keys |-> IF k \in d THEN Soon(quiet[k] + 1) ELSE First]
    /\ tick' = (tick + 1) % Wrap
    /\ lag' = lag + 1
    /\ UNCHANGED <<pc, mode, copy, held, pressed, next>>

(* input_update, up to ia16_enable_irq.                                     *)
CopyMasks ==
    /\ pc = "idle" /\ lag > 0 /\ mode # "clear"
    /\ copy' = [keys |-> keys, re |-> repressed, rel |-> released]
    /\ pc' = "copied"
    /\ UNCHANGED <<mode, masks, held, pressed, next, tick, lag, down, struck, quiet>>

(* Mutant: the timer is compared as it is stored.                           *)
DueLate(k) == next[k] < tick

Due(k)   == (next[k] - tick) % Wrap >= Wrap \div 2

Fresh(k) == k \in copy.re \/ (k \notin held /\ k \notin copy.rel)

(* The loop ends at the first key that is pressed, whose repetition is due, *)
(* or that is released and no longer held.                                  *)
Ends(k)  == k \in copy.keys /\ (k \in copy.re \/ k \notin held \/ Due(k))
Last     == {k \in 1..Loop : Ends(k) /\ \A j \in 1..(k - 1) : ~Ends(j)}
Passed   == {k \in 1..Loop : \A j \in 1..k : ~Ends(j)}

Repeats  == {k \in Last : ~Fresh(k) /\ k \in held /\ k \notin copy.rel}
Starts   == {k \in Last : Fresh(k)}

Decide ==
    /\ pressed' = Starts \cup Repeats
    /\ held' = (held \ ({k \in Passed : k \notin copy.keys \/ k \in copy.rel}
                        \cup {k \in Last : k \in copy.rel}))
               \cup Starts
    /\ next' = [k \in Keys |-> IF k \in Starts THEN (tick + First) % Wrap
                               ELSE IF k \in Repeats THEN (tick + Again) % Wrap
                               ELSE next[k]]
    /\ quiet' = [k \in Keys |-> IF k \in pressed' THEN 0 ELSE quiet[k]]

(* The rest of input_update; input_reset.  The copies were local.           *)
Update ==
    /\ pc = "copied" /\ Decide
    /\ keys' = {} /\ repressed' = {} /\ released' = {}
    /\ struck' = {} /\ lag' = 0
    /\ pc' = "idle" /\ copy' = NoCopy
    /\ UNCHANGED <<mode, tick, down>>

(* input_wait_clear, which dialogs and other screens begin with: input_reset *)
(* once a tick, until there is a tick without a key.                        *)
WaitClear ==
    /\ pc = "idle" /\ lag > 0
    /\ mode = "menu" \/ (mode = "clear" /\ keys # {})
    /\ mode' = "clear"
    /\ keys' = {} /\ repressed' = {} /\ released' = {}
    /\ struck' = {} /\ lag' = 0
    /\ UNCHANGED <<pc, copy, held, pressed, next, tick, down, quiet>>

WaitOver ==
    /\ pc = "idle" /\ mode = "clear" /\ lag > 0 /\ keys = {}
    /\ mode' = "menu"
    /\ UNCHANGED <<pc, masks, copy, held, pressed, next, tick, lag, down, struck, quiet>>

EnterHid ==
    /\ pc = "idle" /\ mode = "menu" /\ mode' = "hid"
    /\ UNCHANGED <<pc, masks, copy, held, pressed, next, tick, lag, down, struck, quiet>>

ExitHid ==
    /\ mode = "hid" /\ pc = "idle" /\ Clear \in held
    /\ mode' = "menu"
    /\ UNCHANGED <<pc, masks, copy, held, pressed, next, tick, lag, down, struck, quiet>>

Init ==
    /\ pc = "idle" /\ mode = "menu"
    /\ keys = {} /\ repressed = {} /\ released = {}
    /\ copy = NoCopy
    /\ held = {} /\ pressed = {} /\ down = {} /\ struck = {}
    /\ next = [k \in Keys |-> 0] /\ tick = 0 /\ lag = 0
    /\ quiet = [k \in Keys |-> First]

Next == Vblank \/ CopyMasks \/ Update \/ WaitClear \/ WaitOver \/ EnterHid \/ ExitHid

Waiting == mode = "clear" /\ WaitClear

(* The display interrupts and the main loop does not stop.                  *)
Fairness == /\ WF_vars(Vblank) /\ WF_vars(CopyMasks) /\ WF_vars(Update)
            /\ WF_vars(WaitOver) /\ WF_vars(Waiting) /\ WF_vars(ExitHid)

Spec == Init /\ [][Next]_vars
LiveSpec == Spec /\ Fairness

-----------------------------------------------------------------------------
TypeOK ==
    /\ pc \in {"idle", "copied"} /\ mode \in {"menu", "clear", "hid"}
    /\ keys \subseteq Keys /\ repressed \subseteq keys /\ released \subseteq Keys
    /\ held \subseteq 1..Loop /\ pressed \subseteq held
    /\ next \in [Keys -> 0..(Wrap - 1)] /\ tick \in 0..(Wrap - 1)
    /\ lag \in 0..MaxLag /\ down \subseteq Keys /\ struck \subseteq keys
    /\ quiet \in [Keys -> 0..First]

(* A key that stays down is reported again no sooner than the shorter of its *)
(* repeat times, whatever other keys do and however late the main loop is.   *)
Shorter == IF First < Again THEN First ELSE Again
PacedStep ==
    \A k \in 1..Loop :
        k \in pressed' /\ pc = "copied" /\ pc' = "idle" /\ k \notin struck => quiet[k] >= Shorter

RepeatPaced == [][PacedStep]_vars

(* A key that went down since the last update, and before the masks were    *)
(* copied, is reported by this one, also if it is up again, or was down     *)
(* before and was let go in between, unless a key before it was down as     *)
(* well.                                                                    *)
HeardStep ==
    pc = "copied" /\ pc' = "idle" =>
        \A k \in struck \cap copy.keys \cap 1..Loop :
            (k \notin held \/ k \in copy.re) /\ (\A j \in 1..(k - 1) : j \notin copy.keys)
               => k \in pressed'

PressHeard == [][HeardStep]_vars

(* A key that is held down alone is reported again and again, whatever was  *)
(* pressed before and however the ticks fall, unless a screen waits for all *)
(* keys to be let go.                                                       *)
HeldKeyHeard ==
    \A k \in 1..Loop : []<>(down # {k} \/ k \in pressed \/ mode = "clear")

(* ui_hid.c:64, "test for exit key: 1 << 12 on PCv2": holding the key ends  *)
(* the controller mode.                                                     *)
ClearExitsHid == (mode = "hid" /\ [](Clear \in down)) ~> mode = "menu"
=============================================================================
