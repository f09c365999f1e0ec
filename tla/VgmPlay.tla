------------------------------- MODULE VgmPlay -------------------------------
(***************************************************************************)
(* ui_vgmplay: a .vgm song is read into PSRAM, its header says which sound  *)
(* chip it is for, and a timer interrupt plays its commands up to the next *)
(* wait.  Banks of PSRAM are seen through windows: the place in the song   *)
(* is a bank and a position, a segment and an offset while it is played.   *)
(*                                                                         *)
(* Covered: the commands, one step each, with the pointer's arithmetic;    *)
(* samples that are copied to internal RAM and played from there by DMA;   *)
(* the waits against the time playing takes; loops; what the player leaves *)
(* behind.                                                                 *)
(*                                                                         *)
(* Abstracted: a command is its operation and its size in cells, the       *)
(* header is the set of chips with a clock, sounds are left out.           *)
(***************************************************************************)
EXTENDS Integers, Sequences

CONSTANTS
    Songs,      \* of commands by address, a loop point or 0, and chips
    Header,     \* vgm_get_offset
    Bank,       \* cells of a bank: 65536
    Para,       \* cells of a paragraph: 16
    High,       \* samples go to internal RAM from here, 0x8000,
    HighEnd,    \* to here, 0xFE00,
    Low,        \* then from here, 0x1800, to High
    MaxBlocks,  \* VGM_MAX_DATA_BLOCKS
    MaxStreams, \* VGM_MAX_STREAMS
    MaxTicks    \* bound: lines that pass while commands are played

VgmAssumption ==
    /\ Para \in Nat \ {0} /\ Bank % Para = 0 /\ Header < Bank
    /\ Low < High /\ High < HighEnd

VARIABLES
    pc,      \* "load", "main", "command": in the interrupt, "done"
    song,
    color,   \* ws_system_is_color_active
    bank, pos, \* the place in the song
    seg, off,  \* the same while it is played: state->ptr
    timer,   \* WS_TIMER_HBL_RELOAD_PORT
    place,   \* pcm_data_block_location
    blocks,  \* pcm_data_block_offset and _length
    memory,  \* of each cell, which data command it is a copy of
    dma,     \* the samples that are played, and which block they are to be
    outside, \* history: pcm_stream_flags was written behind its end
    lineIrq, \* whether the DMG driver's line interrupt is on
    result   \* of ui_vgmplay

where == <<bank, pos>>
ptr   == <<seg, off>>
sound == <<place, blocks, memory, dma, outside>>
vars  == <<pc, song, color, where, ptr, timer, sound, lineIrq, result>>

Chips    == {"sn76489", "dmg", "ws"}
Finished == 65535
Silence  == <<0, 0, 0>>

(* VGM_SAMPLES_TO_LINES: from 44100 samples to 12000 lines a second.        *)
Lines(samples) == (samples * 120 + 440) \div 441

(* What state->ptr points at: the window of ROM1 shows the bank after       *)
(* ROM0's.                                                                  *)
Address == (bank * Bank) + seg + off

-----------------------------------------------------------------------------
(* The file may not open, not fit or not be read.                           *)
Refuse ==
    /\ pc = "load" /\ pc' = "done" /\ result' = "error"
    /\ UNCHANGED <<song, color, where, ptr, timer, sound, lineIrq>>

(* One chip it can play, and no other.                                      *)
VgmInit ==
    /\ pc = "load"
    /\ lineIrq' = ("dmg" \in song.chips)
    /\ IF \E c \in Chips : song.chips = {c}
       THEN /\ pc' = "main" /\ timer' = 2 /\ pos' = Header
            /\ UNCHANGED result
       ELSE pc' = "done" /\ result' = "invalid" /\ UNCHANGED <<timer, pos>>
    /\ UNCHANGED <<song, color, bank, ptr, sound>>

(* vgm_state_to_ptr.                                                        *)
ToPtr(p) == seg' = p - (p % Para) /\ off' = p % Para

Interrupt ==
    /\ pc = "main" /\ pc' = "command"
    /\ ToPtr(pos)
    /\ UNCHANGED <<song, color, where, timer, sound, lineIrq, result>>

(* The offset has 16 bits.                                                  *)
Skip(cells) == off' = (off + cells) % Bank /\ UNCHANGED seg

(* Mutant: the next bank is not selected.                                   *)
FromPtrSameBank(s, o) == pos' = (s + o) % Bank /\ UNCHANGED bank

(* vgm_ptr_to_state.                                                        *)
FromPtr(s, o) ==
    /\ pos' = (s + o) % Bank
    /\ bank' = IF s + o >= Bank THEN bank + 1 ELSE bank

(* The end of vgm_interrupt_handler, of a vgm_play that ended where pos'    *)
(* says: when the wait is over by then, it goes on.                         *)
Sleep(lines) ==
    \E t \in 0..MaxTicks :
        \/ lines > t + 1 /\ pc' = "main" /\ timer' = lines - t /\ UNCHANGED ptr
        \/ lines <= t + 1 /\ pc' = "command" /\ timer' = 65535 /\ ToPtr(pos')

(* A wait of n samples, behind a command of so many cells; of none, the     *)
(* next command follows.                                                    *)
Pass(n, cells) ==
    IF n = 0 THEN Skip(cells) /\ UNCHANGED <<pc, where, timer>>
    ELSE FromPtr(seg, (off + cells) % Bank) /\ Sleep(Lines(n))

Command   == song.commands[Address]
Reads(op) == pc = "command" /\ Address \in DOMAIN song.commands /\ Command.op = op

Wait ==
    /\ Reads("wait") /\ Pass(Command.n, Command.size)
    /\ UNCHANGED <<song, color, sound, lineIrq, result>>

(* A command of the chip's driver, and one that it does not know: of that,  *)
(* only the operation is read.                                              *)
Drive ==
    /\ Reads("drive") /\ Pass(0, Command.size)
    /\ UNCHANGED <<song, color, sound, lineIrq, result>>

Unknown ==
    /\ Reads("unknown") /\ Pass(Finished, 1)
    /\ UNCHANGED <<song, color, sound, lineIrq, result>>

(* Where n cells are to go: to the high place, to the low one when it is    *)
(* full.                                                                    *)
Room(n)  == IF place >= High /\ place + n > HighEnd THEN Low ELSE place
Fits(n)  == Room(n) + n <= (IF Room(n) >= High THEN HighEnd ELSE High)

(* 0x67.  The data follows the command's first cell; when there is no room  *)
(* for it, it is not passed over.                                           *)
Data ==
    LET n == Command.size - 1
        o == Room(n)
    IN  /\ Reads("data")
        /\ \/ /\ ~color /\ Pass(0, Command.size)
              /\ UNCHANGED <<place, blocks, memory>>
           \/ /\ color /\ Len(blocks) >= MaxBlocks /\ Pass(Finished, 1)
              /\ UNCHANGED <<place, blocks, memory>>
           \/ /\ color /\ Len(blocks) < MaxBlocks /\ ~Fits(n)
              /\ place' = o /\ Pass(Finished, 1)
              /\ UNCHANGED <<blocks, memory>>
           \/ /\ color /\ Len(blocks) < MaxBlocks /\ Fits(n)
              /\ memory' = [c \in DOMAIN memory |-> IF c \in o..o + n - 1 THEN Address ELSE memory[c]]
              /\ blocks' = Append(blocks, <<o, n>>)
              /\ place' = o + n
              /\ Pass(0, Command.size)
        /\ UNCHANGED <<song, color, dma, outside, lineIrq, result>>

(* 0x92: the frequency is kept by stream.                                   *)
Frequency ==
    /\ Reads("frequency") /\ Pass(0, Command.size)
    /\ outside' = (outside \/ (color /\ Command.stream >= MaxStreams))
    /\ UNCHANGED <<song, color, place, blocks, memory, dma, lineIrq, result>>

(* 0x95: what was not loaded has no length.                                 *)
StartFast ==
    /\ Reads("start") /\ Pass(0, Command.size)
    /\ dma' = IF ~color THEN dma
              ELSE IF Command.block <= Len(blocks)
                   THEN Append(blocks[Command.block], Command.data)
                   ELSE Silence
    /\ UNCHANGED <<song, color, place, blocks, memory, outside, lineIrq, result>>

(* 0x93: from any place of internal RAM, which no block is asked for.       *)
Start ==
    /\ Reads("play") /\ Pass(IF color /\ ~Command.inside THEN Finished ELSE 0, Command.size)
    /\ dma' = IF color /\ Command.inside THEN Silence ELSE dma
    /\ UNCHANGED <<song, color, place, blocks, memory, outside, lineIrq, result>>

Stop ==
    /\ Reads("stop") /\ Pass(0, Command.size)
    /\ dma' = IF color THEN Silence ELSE dma
    /\ UNCHANGED <<song, color, place, blocks, memory, outside, lineIrq, result>>

(* vgm_jump_to_loop_point; without one, to the start.                       *)
LoopPlace == IF song.loop = 0 THEN Header ELSE song.loop

(* 0x66.                                                                    *)
End ==
    /\ Reads("end")
    /\ pos' = LoopPlace % Bank /\ bank' = LoopPlace \div Bank
    /\ Sleep(0)
    /\ UNCHANGED <<song, color, sound, lineIrq, result>>

(* A key, seen by input_update between two interrupts.                      *)
Leave ==
    /\ pc = "main" /\ pc' = "done" /\ result' = "ok"
    /\ timer' = 0 /\ dma' = Silence /\ lineIrq' = FALSE
    /\ UNCHANGED <<song, color, where, ptr, place, blocks, memory, outside>>

Init ==
    /\ pc = "load" /\ song \in Songs /\ color \in BOOLEAN
    /\ bank = 0 /\ pos = 0 /\ seg = 0 /\ off = 0 /\ timer = 0
    /\ place = High /\ blocks = <<>> /\ memory = [c \in Low..HighEnd - 1 |-> 0]
    /\ dma = Silence /\ outside = FALSE /\ lineIrq = FALSE /\ result = "none"

Handler ==
    \/ Wait \/ Drive \/ Unknown \/ Data \/ Frequency \/ Start \/ StartFast \/ Stop \/ End

Next == Refuse \/ VgmInit \/ Interrupt \/ Handler \/ Leave

Spec == Init /\ [][Next]_vars

(* The interrupt's handler runs on.                                         *)
LiveSpec == Spec /\ WF_vars(Handler)

-----------------------------------------------------------------------------
TypeOK ==
    /\ pc \in {"load", "main", "command", "done"}
    /\ pos \in 0..Bank - 1 /\ seg \in 0..Bank - 1 /\ off \in 0..Bank - 1 /\ bank \in Nat
    /\ timer \in 0..65535 /\ place \in Low..HighEnd /\ Len(blocks) <= MaxBlocks
    /\ result \in {"none", "ok", "error", "invalid"}

(* extras.md:26: such songs are supported.  The player reads commands where *)
(* one begins, across banks, loops and samples; what it would do with       *)
(* anything else is not explored.                                           *)
AtCommands == pc = "command" => Address \in DOMAIN song.commands

(* The samples that are played are those of the block they were asked for   *)
(* by, as long as they are played.                                          *)
StreamsPlayTheirBlock ==
    \A c \in dma[1]..dma[1] + dma[2] - 1 : memory[c] = dma[3]

(* The timer is set to a time that is left, and not to none.                *)
SleepsShort == pc = "main" => timer \in 2..Lines(Finished)

(* The player leaves no interrupt of a driver on when it was left by a key. *)
NothingLeftOn == pc = "done" /\ result # "invalid" => ~lineIrq

(* The same of a song it refused.                                           *)
NothingLeftEver == pc = "done" => ~lineIrq

(* vgm.h:31: there is room for the flags of VGM_MAX_STREAMS streams.        *)
FlagsInBounds == ~outside

(* The interrupt's handler returns, so that keys are seen.                  *)
HandlerReturns == (pc = "command") ~> (pc = "main")
=============================================================================
