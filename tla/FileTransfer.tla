---------------------------- MODULE FileTransfer ----------------------------
(***************************************************************************)
(* What xmodem.c promises to the commands built on it: the receiver gets   *)
(* the blocks of the file in order and each of them once; it reports       *)
(* success only when it has them all, and the sender only when the         *)
(* receiver has.  Each side may give up at any time.                       *)
(***************************************************************************)
EXTENDS Naturals, Sequences

CONSTANT Last       \* the blocks of the longest file

VARIABLES
    length,         \* the blocks the sender finds in the file
    taken,          \* the blocks the receiver has, in order
    sender,         \* "busy", "done" or "failed"
    receiver        \* likewise

vars == <<length, taken, sender, receiver>>

Init ==
    /\ length \in 0..Last
    /\ taken = <<>>
    /\ sender = "busy"
    /\ receiver = "busy"

Deliver ==
    /\ receiver = "busy"
    /\ Len(taken) < length
    /\ taken' = Append(taken, Len(taken) + 1)
    /\ receiver' \in {"busy", "failed"}        \* failed: it has no room for more
    /\ UNCHANGED <<length, sender>>

(* A read error counts as the end of the file. *)
CutShort ==
    /\ sender = "busy"
    /\ length' = Len(taken)
    /\ sender' \in {"busy", "failed"}
    /\ UNCHANGED <<taken, receiver>>

ReceiverDone ==
    /\ receiver = "busy"
    /\ Len(taken) = length
    /\ receiver' = "done"
    /\ UNCHANGED <<length, taken, sender>>

SenderDone ==
    /\ sender = "busy"
    /\ receiver = "done"
    /\ sender' = "done"
    /\ UNCHANGED <<length, taken, receiver>>

GiveUp ==
    /\ \/ sender = "busy" /\ sender' = "failed" /\ UNCHANGED receiver
       \/ receiver = "busy" /\ receiver' = "failed" /\ UNCHANGED sender
    /\ UNCHANGED <<length, taken>>

Next == Deliver \/ CutShort \/ ReceiverDone \/ SenderDone \/ GiveUp

Spec == Init /\ [][Next]_vars
=============================================================================
