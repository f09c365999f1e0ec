------------------------------- MODULE XModem -------------------------------
(***************************************************************************)
(* xmodem.c: xmodem_send and xmodem_recv_to_psram, joined by the USB       *)
(* serial line.  A peer of either is normally a program on a computer;     *)
(* here each is the other's peer.                                          *)
(*                                                                         *)
(* Covered: every branch of both loops, requests that pile up before the   *)
(* sender is ready, damaged blocks and answers, writes that time out, an   *)
(* unplugged cable, a cancel, the end of memory, an error while the file   *)
(* is read.                                                                *)
(*                                                                         *)
(* Abstracted: block n of the file is the number n; a message arrives      *)
(* whole; damage is always noticed by the check sum or the complement of   *)
(* the index, and never turns one control byte into another.  The          *)
(* correction of the size at the end of a transfer is not here.            *)
(***************************************************************************)
EXTENDS Naturals, Sequences

CONSTANTS
    Last,       \* bound: a file has at most so many 128-byte blocks
    IdxMod,     \* block indices are uint8_t: 256
    Capacity,   \* the blocks in the PSRAM banks below the asset heap
    MaxSilence, \* timeouts the receiver tolerates in a row: 10
    Slow,       \* whether a timeout may expire while an answer is on its way
    Faults,     \* which of FaultKinds may happen
    MaxFaults,  \* bound: how many of them do
    MaxQueue    \* bound: messages on the line while the receiver repeats itself

(* "block", "end", "answer": damage on the way.  "stall": a write or a read *)
(* fails.  "unplug", "cancel": by the user.  "card": the file cannot be     *)
(* read on.                                                                 *)
FaultKinds == {"block", "end", "answer", "stall", "unplug", "cancel", "card"}

ASSUME FileAssumption  == Last \in Nat /\ Capacity \in Nat \ {0}
ASSUME IndexAssumption == IdxMod \in Nat /\ IdxMod >= 2
ASSUME LimitAssumption == MaxSilence \in Nat /\ MaxFaults \in Nat /\ MaxQueue \in Nat
ASSUME ModeAssumption  == Slow \in BOOLEAN /\ Faults \subseteq FaultKinds

VARIABLES
    \* xmodem_send
    sres,    \* its result: "idle" before the call, "run" inside it
    sent,    \* blocks asked of the callback; the low byte is xmodem_idx
    fresh,   \* new_data_requested
    avail,   \* data_available
    length,  \* the blocks the callback finds in the file
    \* xmodem_recv_to_psram
    rres,    \* its result
    psram,   \* the blocks copied to PSRAM, in order; Len + 1 is xmodem_idx
    soh,     \* received_soh
    eot,     \* eot_step
    silence, \* timeout_ticks
    \* the line
    line,    \* whether it is plugged in
    toR,     \* on the way to the receiver
    toS,     \* on the way to the sender
    faults   \* bound: faults so far

sender   == <<sres, sent, fresh, avail, length>>
receiver == <<rres, psram, soh, eot, silence>>
vars     == <<sender, receiver, line, toR, toS, faults>>

Block(n) == [kind |-> "SOH", n |-> n, part |-> "whole"]
Eot      == [kind |-> "EOT", n |-> 0, part |-> "whole"]
Byte(k)  == [kind |-> k, n |-> 0, part |-> "whole"]
Index(n) == n % IdxMod

Results == {"idle", "run", "ok", "timeout", "cancel", "mcu", "toolarge"}
Parts   == {"whole", "header", "data", "cut"}   \* "cut": the end is missing
Message == [kind : {"SOH", "EOT", "CAN", "junk"}, n : 0..Last, part : Parts]
Request == {"ACK", "NAK", "CAN", "junk"}

Fault(k) == k \in Faults /\ faults < MaxFaults /\ faults' = faults + 1
NoFault  == UNCHANGED faults

-----------------------------------------------------------------------------
(* xmodem_send *)

SenderStart ==
    /\ sres = "idle"
    /\ sres' = "run"
    /\ UNCHANGED <<sent, fresh, avail, length, receiver, line, toR, toS, faults>>

(* SEND_DATA: the line takes the message, or the write times out, perhaps   *)
(* in the middle of it.  The loop goes on with what is given for `avail'.   *)
SendBlock(m) ==
    \/ /\ line /\ NoFault
       /\ toR' = Append(toR, m)
       /\ UNCHANGED sres
    \/ /\ ~line /\ NoFault
       /\ sres' = "timeout"
       /\ UNCHANGED toR
    \/ /\ line /\ Fault("stall")
       /\ sres' = "timeout"
       /\ \/ UNCHANGED toR
          \/ m.kind = "SOH" /\ toR' = Append(toR, [m EXCEPT !.part = "cut"])

(* The callback reads block sent'; a read error ends the file.              *)
SendNext ==
    /\ sent' = sent + 1
    /\ fresh' = FALSE
    /\ \/ /\ sent + 1 <= length
          /\ avail' = 2
          /\ UNCHANGED length
          /\ SendBlock(Block(sent + 1))
       \/ /\ sent + 1 > length
          /\ avail' = 0
          /\ UNCHANGED length
          /\ SendBlock(Eot)
       \/ /\ sent + 1 <= length
          /\ line /\ Fault("card")
          /\ avail' = 0
          /\ length' = sent
          /\ toR' = Append(toR, Eot)
          /\ UNCHANGED sres

SendAgain ==
    /\ SendBlock(IF avail = 0 THEN Eot ELSE Block(sent))
    /\ UNCHANGED <<sent, fresh, avail, length>>

(* Mutant: every request asks for new data. *)
SenderHearsAnyRequest ==
    /\ sres = "run" /\ toS # <<>>
    /\ toS' = Tail(toS)
    /\ SendNext
    /\ UNCHANGED <<receiver, line>>

(* One byte from the receiver: ACK asks for the next block, NAK for the     *)
(* same again, but the first request of either kind for the first block.    *)
SenderHears ==
    /\ sres = "run" /\ toS # <<>>
    /\ toS' = Tail(toS)
    /\ \/ /\ Head(toS) = "ACK" /\ ~fresh /\ avail = 0
          /\ sres' = "ok"
          /\ UNCHANGED <<sent, fresh, avail, length, toR, faults>>
       \/ /\ \/ Head(toS) = "ACK" /\ (fresh \/ avail # 0)
             \/ Head(toS) = "NAK" /\ fresh
          /\ SendNext
       \/ /\ Head(toS) = "NAK" /\ ~fresh
          /\ SendAgain
       \/ /\ Head(toS) = "CAN"
          /\ sres' = "cancel"
          /\ UNCHANGED <<sent, fresh, avail, length, toR, faults>>
       \/ /\ Head(toS) = "junk"
          /\ UNCHANGED <<sender, toR, faults>>
    /\ UNCHANGED <<receiver, line>>

(* nile_mcu_native_cdc_read_sync reports an error; nothing else ends a wait *)
(* for the receiver.                                                        *)
SenderReadFails ==
    /\ sres = "run" /\ Fault("stall")
    /\ sres' = "mcu"
    /\ UNCHANGED <<sent, fresh, avail, length, receiver, line, toR, toS>>

-----------------------------------------------------------------------------
(* xmodem_recv_to_psram *)

(* SEND_DATA of one byte; r is the result when it succeeds.                 *)
Answer(k, r) ==
    \/ /\ line /\ NoFault
       /\ toS' = Append(toS, k)
       /\ rres' = r
    \/ /\ (~line /\ NoFault) \/ (line /\ Fault("stall"))
       /\ rres' = "timeout"
       /\ UNCHANGED toS

ReceiverStart ==
    /\ rres = "idle"
    /\ toR' = <<>>
    /\ Answer("NAK", "run")
    /\ UNCHANGED <<sender, psram, soh, eot, silence, line>>

Expected(m) == m.n % IdxMod = Index(Len(psram) + 1)

(* Mutants: the index is not compared; a block seen before is acknowledged  *)
(* again; a damaged block is not asked for again.                           *)
TakeBlockOfAnyIndex(m) ==
    /\ m.part = "whole"
    /\ Answer("ACK", "run")
    /\ psram' = IF rres' = "timeout" THEN psram ELSE Append(psram, m.n)
    /\ soh' = TRUE

SkipBlockAcknowledged(m) ==
    /\ m.part \in {"whole", "data"} /\ ~Expected(m)
    /\ Answer("ACK", "run")
    /\ soh' = FALSE
    /\ UNCHANGED psram

RefuseBlockSilently(m) ==
    /\ m.part \in {"header", "data"}
    /\ soh' = TRUE
    /\ UNCHANGED <<rres, psram, toS, faults>>

(* The block the receiver waits for.  The room that is left is checked      *)
(* after the acknowledgement.                                               *)
TakeBlock(m) ==
    /\ m.part = "whole" /\ Expected(m)
    /\ Answer("ACK", IF Len(psram) + 1 = Capacity THEN "full" ELSE "run")
    /\ psram' = IF rres' = "timeout" THEN psram ELSE Append(psram, m.n)
    /\ soh' = TRUE

(* A good header of another block: no answer.                               *)
SkipBlock(m) ==
    /\ m.part \in {"whole", "data"} /\ ~Expected(m)
    /\ soh' = FALSE
    /\ UNCHANGED <<rres, psram, toS, faults>>

RefuseBlock(m) ==
    /\ m.part = "header" \/ (m.part = "data" /\ Expected(m))
    /\ Answer("NAK", "run")
    /\ soh' = TRUE
    /\ UNCHANGED psram

ReceiverHears ==
    LET m == Head(toR) IN
    /\ rres = "run" /\ toR # <<>>
    /\ toR' = Tail(toR)
    /\ \/ /\ m.kind = "SOH"
          /\ silence' = 0
          /\ \/ TakeBlock(m) \/ SkipBlock(m) \/ RefuseBlock(m)
             \/ /\ m.part = "cut"
                /\ rres' = "timeout"
                /\ soh' = TRUE
                /\ UNCHANGED <<psram, toS, faults>>
          /\ UNCHANGED eot
       \/ /\ m.kind = "EOT"
          /\ eot' = eot + 1
          /\ IF eot = 0 THEN Answer("NAK", "run") ELSE Answer("ACK", "ok")
          /\ UNCHANGED <<psram, soh, silence>>
       \/ /\ m.kind = "CAN"
          /\ rres' = "cancel"
          /\ UNCHANGED <<psram, soh, eot, silence, toS, faults>>
       \/ /\ m.kind = "junk"
          /\ UNCHANGED <<receiver, toS, faults>>
    /\ UNCHANGED <<sender, line>>

(* The memory is full, whether or not more blocks follow.                   *)
ReceiverFull ==
    /\ rres = "full"
    /\ Answer("CAN", "toolarge")
    /\ UNCHANGED <<sender, psram, soh, eot, silence, line, toR>>

(* Nothing has come in time.                                                *)
ReceiverSilence ==
    /\ rres = "run"
    /\ Slow \/ (toR = <<>> /\ (toS = <<>> \/ sres # "run"))
    /\ silence' = silence + 1
    /\ \/ /\ silence + 1 > MaxSilence
          /\ rres' = "timeout"
          /\ UNCHANGED <<toS, faults>>
       \/ /\ silence + 1 <= MaxSilence /\ soh
          /\ UNCHANGED <<rres, toS, faults>>
       \/ /\ silence + 1 <= MaxSilence /\ ~soh
          /\ Len(toR) + Len(toS) < MaxQueue
          /\ Answer("NAK", "run")
    /\ UNCHANGED <<sender, psram, soh, eot, line, toR>>

-----------------------------------------------------------------------------
(* The line and its user *)

DamageBlock ==
    /\ toR # <<>> /\ Head(toR).kind = "SOH" /\ Head(toR).part = "whole"
    /\ Fault("block")
    /\ \E p \in {"header", "data"} :
          toR' = <<[Head(toR) EXCEPT !.part = p]>> \o Tail(toR)
    /\ UNCHANGED <<sender, receiver, line, toS>>

DamageEnd ==
    /\ toR # <<>> /\ Head(toR).kind = "EOT"
    /\ Fault("end")
    /\ toR' = <<Byte("junk")>> \o Tail(toR)
    /\ UNCHANGED <<sender, receiver, line, toS>>

DamageAnswer ==
    /\ toS # <<>> /\ Fault("answer")
    /\ Head(toS) \in {"ACK", "NAK"}
    /\ toS' = <<"junk">> \o Tail(toS)
    /\ UNCHANGED <<sender, receiver, line, toR>>

Unplug ==
    /\ line /\ Fault("unplug")
    /\ line' = FALSE
    /\ toR' = <<>> /\ toS' = <<>>
    /\ UNCHANGED <<sender, receiver>>

Replug ==
    /\ ~line
    /\ line' = TRUE
    /\ UNCHANGED <<sender, receiver, toR, toS, faults>>

Cancel ==
    /\ line /\ Fault("cancel")
    /\ \/ toR' = Append(toR, Byte("CAN")) /\ UNCHANGED toS
       \/ toS' = Append(toS, "CAN") /\ UNCHANGED toR
    /\ UNCHANGED <<sender, receiver, line>>

-----------------------------------------------------------------------------
Init ==
    /\ sres = "idle" /\ sent = 0 /\ fresh = TRUE /\ avail = 0
    /\ length \in 0..Last
    /\ rres = "idle" /\ psram = <<>> /\ soh = FALSE /\ eot = 0 /\ silence = 0
    /\ line = TRUE /\ toR = <<>> /\ toS = <<>> /\ faults = 0

Sender   == SenderStart \/ SenderHears \/ SenderReadFails
Receiver == ReceiverStart \/ ReceiverHears \/ ReceiverFull \/ ReceiverSilence
Line     == DamageBlock \/ DamageEnd \/ DamageAnswer \/ Unplug \/ Replug \/ Cancel

Next == Sender \/ Receiver \/ Line

Spec == Init /\ [][Next]_vars

(* Both loops run on; the clock of the receiver does.                       *)
LiveSpec ==
    /\ Spec
    /\ WF_vars(SenderHears)
    /\ WF_vars(ReceiverHears)
    /\ WF_vars(ReceiverFull)
    /\ WF_vars(ReceiverSilence)

-----------------------------------------------------------------------------
(* Properties *)

(* Every variable has its type.                                             *)
TypeOK ==
    /\ sres \in Results /\ rres \in Results \cup {"full"}
    /\ sent \in 0..(Last + 1) /\ length \in 0..Last
    /\ fresh \in BOOLEAN /\ avail \in {0, 2}
    /\ psram \in Seq(1..Last)
    /\ soh \in BOOLEAN /\ eot \in 0..2 /\ silence \in 0..(MaxSilence + 1)
    /\ line \in BOOLEAN /\ faults \in 0..MaxFaults
    /\ toR \in Seq(Message)
    /\ toS \in Seq(Request)

(* PSRAM holds the first blocks of the file, none of them twice and none    *)
(* left out, although a block's index names it modulo IdxMod only.          *)
InOrder == psram = [i \in 1..Len(psram) |-> i]

(* xmodem_recv_to_psram succeeds only with every block the sender found,    *)
(* xmodem_send only if xmodem_recv_to_psram has succeeded.                  *)
OkIsComplete ==
    /\ rres = "ok" => Len(psram) = length
    /\ sres = "ok" => rres = "ok"

(* The two functions keep the promise of FileTransfer.                      *)
Outcome(r) == CASE r \in {"idle", "run"} -> "busy"
                [] r = "ok"              -> "done"
                [] OTHER                 -> "failed"
Transfer == INSTANCE FileTransfer WITH
    taken <- psram, sender <- Outcome(sres), receiver <- Outcome(rres)
ImplementsTransfer == Transfer!Spec

(* If the sender starts before the receiver has given up, and single bytes  *)
(* are not lost, the file arrives, however many requests have piled up and  *)
(* although blocks are damaged on the way.                                  *)
Completes == (sres = "run" /\ rres = "run") ~> (sres = "ok" /\ rres = "ok")

(* After a block of the wrong index the receiver waits: "Give the           *)
(* communication time to resynchronize."  It then gets a block it can use,  *)
(* or gives up.                                                             *)
Resynchronizes == (rres = "run" /\ ~soh /\ psram # <<>>) ~> (soh \/ rres # "run")

=============================================================================
