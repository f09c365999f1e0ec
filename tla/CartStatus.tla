----------------------------- MODULE CartStatus -----------------------------
(***************************************************************************)
(* The main loop's housekeeping: idle_until_vblank asks the cartridge's    *)
(* microcontroller for interrupts (cart_irq_update) at one tick of 64 and  *)
(* for its status and the accelerometer (cart_status_update) at another;   *)
(* a removed storage card leads to a loop that waits for its return; two   *)
(* readouts turn the screen, which the list loop applies.                  *)
(*                                                                         *)
(* Covered: ticks that a slow loop misses, MCU calls that fail, the card   *)
(* and the console's position changing at any time, the orientation        *)
(* setting, screens that force the horizontal layout.                      *)
(*                                                                         *)
(* Abstracted: firmware 1.1.0 or later, a console that can be turned; an   *)
(* accelerometer readout is whether it asks for each of the positions.     *)
(***************************************************************************)
EXTENDS Naturals

CONSTANTS
    Period,    \* 64 ticks
    IrqTick,   \* 31
    InfoTick,  \* 63
    MaxLag,    \* ticks one turn of the loop may take beyond its own
    MaxMoves,  \* bound: how often the card is moved
    Failing    \* whether MCU calls may fail

TickAssumption ==
    /\ Period \in Nat /\ IrqTick \in 0..(Period - 1) /\ InfoTick \in 0..(Period - 1)
    /\ IrqTick # InfoTick
BoundAssumption == MaxLag \in Nat /\ MaxMoves \in Nat /\ Failing \in BOOLEAN

VARIABLES
    pc,      \* "loop", "removed" (cart_tf_removed_handler) or "reset"
    tick,    \* vbl_ticks modulo Period
    card,    \* whether the storage card is in
    irqs,    \* interrupts the MCU keeps until they are read
    moves,   \* bound: how often the card was moved
    info,    \* CART_PRESENT_MCU_INFO_OK
    auto,    \* orientation_state: bit 7, automatic
    upright, \*   bit 0, the position it has settled on
    staged,  \*   bit 1, one readout asked for a toggle
    shown,   \* bit 0 of bitmap_rotation: the vertical layout is chosen
    forced,  \* bit 1: the horizontal layout is forced
    asked    \* how many readouts in a row, up to two, asked for a toggle

screen == <<auto, upright, staged, shown, forced, asked>>
vars   == <<pc, tick, card, irqs, moves, info, screen>>

Irqs == {"remove", "insert"}
Cap(n) == IF n > 2 THEN 2 ELSE n

NextTick == \E lag \in 0..MaxLag : tick' = (tick + 1 + lag) % Period

-----------------------------------------------------------------------------
(* cart_irq_update: reading acknowledges everything read.                   *)
IrqUpdate ==
    /\ \/ /\ info
          /\ irqs' = {}
          /\ pc' = IF "remove" \in irqs THEN "removed" ELSE pc
       \/ (~info \/ Failing) /\ UNCHANGED <<irqs, pc>>
    /\ UNCHANGED <<info, screen>>

(* cart_status_update: the status, and in automatic mode a readout.  asks   *)
(* is whether the readout asks for the other position.                      *)
InfoOk == info' = TRUE \/ (Failing /\ info' = FALSE)

(* Mutant: one readout is enough.                                           *)
ReadoutAtOnce(asks) ==
    /\ upright' = (upright # asks)
    /\ staged' = FALSE
    /\ asked' = IF asks THEN Cap(asked + 1) ELSE 0

Readout(asks) ==
    /\ IF asks /\ staged THEN upright' = ~upright /\ staged' = FALSE
                         ELSE UNCHANGED upright /\ staged' = asks
    /\ asked' = IF asks THEN Cap(asked + 1) ELSE 0

ReadoutFails ==
    /\ upright' = FALSE /\ staged' = FALSE /\ asked' = 0

InfoUpdate ==
    /\ InfoOk
    /\ \/ auto /\ \E asks \in BOOLEAN : Readout(asks)
       \/ auto /\ Failing /\ ReadoutFails
       \/ ~auto /\ UNCHANGED <<upright, staged, asked>>
    /\ UNCHANGED <<pc, irqs, auto, shown, forced>>

(* Mutant: a turn of the loop takes two ticks.                              *)
IdleMissed ==
    /\ pc = "loop"
    /\ \/ tick = IrqTick /\ info /\ IrqUpdate
       \/ tick = InfoTick /\ InfoUpdate
       \/ tick \notin {IrqTick, InfoTick} /\ UNCHANGED <<pc, irqs, info, screen>>
    /\ tick' = (tick + 2) % Period
    /\ UNCHANGED <<card, moves>>

(* idle_until_vblank: what the tick calls for, then a wait for the next.    *)
Idle ==
    /\ pc = "loop"
    /\ \/ tick = IrqTick /\ IrqUpdate
       \/ tick = InfoTick /\ InfoUpdate
       \/ tick \notin {IrqTick, InfoTick} /\ UNCHANGED <<pc, irqs, info, screen>>
    /\ NextTick
    /\ UNCHANGED <<card, moves>>

(* cart_status_apply_orientation_change, in the loops of ui_selector.       *)
ApplyOrientation ==
    /\ pc = "loop" /\ auto /\ shown # upright
    /\ shown' = upright
    /\ UNCHANGED <<pc, tick, card, irqs, moves, info, auto, upright, staged, forced, asked>>

(* The setting: automatic, or one of the two positions.                     *)
SetOrientation ==
    /\ pc = "loop"
    /\ \/ /\ ~auto /\ auto' = TRUE /\ upright' = FALSE /\ staged' = FALSE
          /\ shown' = FALSE /\ asked' = 0
       \/ /\ \E v \in BOOLEAN : shown' = v
          /\ auto' = FALSE /\ asked' = 0
          /\ IF auto THEN upright' = FALSE /\ staged' = FALSE ELSE UNCHANGED <<upright, staged>>
    /\ UNCHANGED <<pc, tick, card, irqs, moves, info, forced>>

(* The on-screen keyboard and other screens that have no vertical layout.   *)
ForceHorizontal ==
    /\ pc = "loop"
    /\ forced' = ~forced
    /\ UNCHANGED <<pc, tick, card, irqs, moves, info, auto, upright, staged, shown, asked>>

(* cart_tf_removed_handler: a turn of its loop.                             *)
AwaitCard ==
    /\ pc = "removed"
    /\ \/ irqs' = {} /\ pc' = IF "insert" \in irqs THEN "reset" ELSE pc
       \/ Failing /\ UNCHANGED <<irqs, pc>>
    /\ UNCHANGED <<tick, card, moves, info, screen>>

MoveCard ==
    /\ pc # "reset" /\ moves < MaxMoves
    /\ card' = ~card /\ moves' = moves + 1
    /\ irqs' = irqs \cup (IF card THEN {"remove"} ELSE {"insert"})
    /\ UNCHANGED <<pc, tick, info, screen>>

Init ==
    /\ pc = "loop" /\ tick = 0 /\ card = TRUE /\ irqs = {} /\ moves = 0
    /\ info = FALSE
    /\ auto = FALSE /\ upright = FALSE /\ staged = FALSE /\ asked = 0
    /\ shown = FALSE /\ forced \in BOOLEAN

Next ==
    \/ Idle \/ ApplyOrientation \/ SetOrientation \/ ForceHorizontal
    \/ AwaitCard \/ MoveCard

Fairness == WF_vars(Idle) /\ WF_vars(AwaitCard)

Spec == Init /\ [][Next]_vars
LiveSpec == Spec /\ Fairness

-----------------------------------------------------------------------------
TypeOK ==
    /\ pc \in {"loop", "removed", "reset"} /\ tick \in 0..(Period - 1)
    /\ irqs \subseteq Irqs /\ moves \in 0..MaxMoves
    /\ {card, info, auto, upright, staged, shown, forced} \subseteq BOOLEAN
    /\ asked \in 0..2

(* status.c:120, "Require at least two readouts (~1 second) for an          *)
(* orientation toggle": while the setting stays automatic, the layout       *)
(* changes only when the last two readouts asked for it.                    *)
TurnsAreSteady == [][auto /\ auto' /\ upright # upright' => asked' = 2]_vars

(* The same of turns to the vertical layout, which no failure may cause.    *)
TurnsUpSteady == [][auto /\ auto' /\ ~upright /\ upright' => asked' = 2]_vars

(* idle_until_vblank serves the interrupts often enough, whatever else the  *)
(* loop does: a card that was taken out is noticed.                         *)
RemovalIsNoticed == (~card /\ pc = "loop") ~> (pc # "loop")

(* changelog.md:105, "inserting a removed storage card will trigger a       *)
(* cartridge reboot".                                                       *)
ReturnReboots == (pc = "removed" /\ card /\ moves = MaxMoves) ~> pc = "reset"
=============================================================================
