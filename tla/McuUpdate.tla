----------------------------- MODULE McuUpdate ------------------------------
(***************************************************************************)
(* mcu_reset: at boot, the cartridge's microcontroller gets the firmware   *)
(* in /NILESWAN/MCU.BIN, unless the footer in its flash, a copy of the     *)
(* file's first bytes, says that it has it already; then                   *)
(* cart_status_init.                                                       *)
(*                                                                         *)
(* Covered: every call that can fail, in order, loss of power between any  *)
(* two, the user replacing the file, what the user is told.                *)
(*                                                                         *)
(* Abstracted: a firmware is its version; Chunks writes transfer it; a     *)
(* call that fails has no effect on the flash.                             *)
(***************************************************************************)
EXTENDS Naturals

CONSTANTS
    Versions,   \* of firmware
    NoVersion,  \* no file, or erased flash
    Bad,        \* a MCU.BIN without the expected header
    Chunks,     \* writes of READ_BUFFER_SIZE bytes
    CutAt,      \* the steps at which power may be lost
    FailAt,     \* the steps at which a call may fail
    MaxTrouble  \* bound: how often either happens

Steps == {"open", "reset", "compare", "erasefooter", "footer", "eraseblob",
          "chunk", "jump", "delay", "status", "menu"}

VersionAssumption ==
    NoVersion \notin Versions /\ Bad \notin Versions /\ Bad # NoVersion
BoundAssumption == Chunks \in Nat \ {0} /\ MaxTrouble \in Nat
StepAssumption == CutAt \subseteq Steps /\ FailAt \subseteq Steps

VARIABLES
    pc,
    bin,     \* MCU.BIN on the card
    flash,   \* the argument, FALSE when there is no file
    footer,  \* the version the footer page names
    blob,    \* blob[c]: which firmware's chunk c is in the MCU's flash
    next,    \* the chunk to write
    result,  \* of mcu_reset: "ok", "file", "corrupt" or "comm"
    native,  \* mcu_native_mode
    told,    \* whether a dialog was shown
    torn,    \* history: the version whose update has begun and not ended
    trouble  \* bound: failures and cuts so far

vars == <<pc, bin, flash, footer, blob, next, result, native, told, torn, trouble>>

Chunk == 1..Chunks
Erased == [c \in Chunk |-> NoVersion]

Return(r) == pc' = "status" /\ result' = r
Goto(l)   == pc' = l /\ UNCHANGED result
Works     == UNCHANGED trouble
Fails     == pc \in FailAt /\ trouble < MaxTrouble /\ trouble' = trouble + 1

OpenBin ==
    /\ pc = "open"
    /\ \/ bin = NoVersion /\ flash' = FALSE /\ Goto("reset") /\ Works
       \/ bin \in Versions /\ flash' = TRUE /\ Goto("reset") /\ Works
       \/ bin = Bad /\ Return("corrupt") /\ Works /\ UNCHANGED flash
       \/ Fails /\ Return("file") /\ UNCHANGED flash
    /\ UNCHANGED <<bin, footer, blob, next, native, told, torn>>

Reset ==
    /\ pc = "reset"
    /\ \/ flash /\ Goto("compare") /\ Works
       \/ ~flash /\ Goto("delay") /\ Works
       \/ Fails /\ Return("comm")
    /\ UNCHANGED <<bin, flash, footer, blob, next, native, told, torn>>

CompareFooter ==
    /\ pc = "compare"
    /\ \/ footer = bin /\ Goto("jump") /\ Works
       \/ footer # bin /\ Goto("erasefooter") /\ Works
       \/ Fails /\ Return("comm")
    /\ UNCHANGED <<bin, flash, footer, blob, next, native, told, torn>>

EraseFooter ==
    /\ pc = "erasefooter"
    /\ \/ footer' = NoVersion /\ Goto("footer") /\ Works
       \/ Fails /\ Return("comm") /\ UNCHANGED footer
    /\ UNCHANGED <<bin, flash, blob, next, native, told, torn>>

WriteFooter ==
    /\ pc = "footer"
    /\ \/ footer' = bin /\ torn' = bin /\ Goto("eraseblob") /\ Works
       \/ Fails /\ Return("comm") /\ UNCHANGED <<footer, torn>>
    /\ UNCHANGED <<bin, flash, blob, next, native, told>>

EraseBlob ==
    /\ pc = "eraseblob"
    /\ \/ blob' = Erased /\ next' = 1 /\ Goto("chunk") /\ Works
       \/ Fails /\ Return("comm") /\ UNCHANGED <<blob, next>>
    /\ UNCHANGED <<bin, flash, footer, native, told, torn>>

(* Mutant: the rest of the last chunk is not written.                       *)
WriteChunkButLast ==
    /\ pc = "chunk"
    /\ \/ next < Chunks /\ blob' = [blob EXCEPT ![next] = bin] /\ next' = next + 1 /\ Goto("chunk") /\ Works /\ UNCHANGED torn
       \/ /\ next >= Chunks /\ torn' = NoVersion /\ Goto("jump") /\ Works
          /\ UNCHANGED <<blob, next>>
    /\ UNCHANGED <<bin, flash, footer, native, told>>

WriteChunk ==
    /\ pc = "chunk"
    /\ \/ /\ next <= Chunks
          /\ blob' = [blob EXCEPT ![next] = bin]
          /\ next' = next + 1
          /\ Goto("chunk") /\ Works /\ UNCHANGED torn
       \/ /\ next > Chunks /\ torn' = NoVersion /\ Goto("jump") /\ Works
          /\ UNCHANGED <<blob, next>>
       \/ /\ next <= Chunks /\ Fails
          /\ \E r \in {"file", "comm"} : Return(r)
          /\ UNCHANGED <<blob, next, torn>>
    /\ UNCHANGED <<bin, flash, footer, native, told>>

Jump ==
    /\ pc = "jump"
    /\ \/ Goto("delay") /\ Works
       \/ Fails /\ Return("comm")
    /\ UNCHANGED <<bin, flash, footer, blob, next, native, told, torn>>

EnterNative ==
    /\ pc = "delay"
    /\ native' = TRUE
    /\ Return("ok") /\ Works
    /\ UNCHANGED <<bin, flash, footer, blob, next, told, torn>>

(* main shows every error of mcu_reset but ERR_MCU_COMM_FAILED, which       *)
(* cart_status_init returns; it may find something wrong of its own.        *)
StatusInit ==
    /\ pc = "status"
    /\ \/ told' = (result # "ok") /\ Works
       \/ told' = TRUE /\ Fails
    /\ Goto("menu")
    /\ UNCHANGED <<bin, flash, footer, blob, next, native, torn>>

PowerCycle ==
    /\ \/ pc = "menu" /\ UNCHANGED trouble
       \/ pc \in CutAt /\ trouble < MaxTrouble /\ trouble' = trouble + 1
    /\ Goto("open")
    /\ \E v \in Versions \cup {NoVersion, Bad} :
         (pc = "menu" \/ v = bin) /\ bin' = v
    /\ native' = FALSE /\ told' = FALSE
    /\ UNCHANGED <<flash, footer, blob, next, torn>>

Init ==
    /\ pc = "open" /\ bin \in Versions \cup {NoVersion, Bad}
    /\ \E v \in Versions : footer = v /\ blob = [c \in Chunk |-> v]
    /\ flash = TRUE /\ next = 1 /\ result = "ok"
    /\ native = FALSE /\ told = FALSE /\ torn = NoVersion /\ trouble = 0

Firmware ==
    \/ OpenBin \/ Reset \/ CompareFooter \/ EraseFooter \/ WriteFooter \/ EraseBlob
    \/ WriteChunk \/ Jump \/ EnterNative \/ StatusInit

Next == Firmware \/ PowerCycle

Spec == Init /\ [][Next]_vars

-----------------------------------------------------------------------------
TypeOK ==
    /\ pc \in Steps /\ bin \in Versions \cup {NoVersion, Bad}
    /\ footer \in Versions \cup {NoVersion}
    /\ blob \in [Chunk -> Versions \cup {NoVersion}]
    /\ next \in 1..(Chunks + 1)
    /\ result \in {"ok", "file", "corrupt", "comm"}
    /\ torn \in Versions \cup {NoVersion}
    /\ flash \in BOOLEAN /\ native \in BOOLEAN /\ told \in BOOLEAN
    /\ trouble \in 0..MaxTrouble

Whole(v) == \A c \in Chunk : blob[c] = v

(* mcu.c:80, "Compare MCU footer with MCU.BIN copy": the footer stands for  *)
(* the firmware.  The MCU is made to jump into its flash only when all of   *)
(* it is the firmware that MCU.BIN holds, whatever happened before; but for *)
(* an update to that very firmware which stopped after its footer.          *)
JumpsIntoFirmware == pc = "jump" /\ torn # bin => Whole(bin)

(* Without that exception.                                                  *)
JumpsIntoWhole == pc = "jump" => Whole(bin)

(* main.c:132-150: in the menu, a cartridge whose MCU is not in native mode *)
(* has led to a dialog, whichever of the calls failed.                      *)
FailureIsTold == pc = "menu" /\ ~native => told
=============================================================================
