----------------------------- MODULE MCProgress ------------------------------
(*****************************************************************************)
(* What must come to an end, one part at a time: save data being stored      *)
(* and restored, a file being transferred, keys being heard, a removed       *)
(* card being noticed, a song being played.                                  *)
(*****************************************************************************)
EXTENDS MCSaveData, MCSongs

(* Songs of which some end inside a half of the ring.                        *)
Songs == {Song(<<"fmt", "data">>, 1, 1, 1, 8, l) : l \in {9, 16, 30}}
ATune == CHOOSE s \in VgmSongs : TRUE

VARIABLES
    on,  \* the part that runs
    \* XModem
    sres, sent, fresh, avail, length, rres, psram, soh, eot, silence, line,
    toR, toS, faults,
    \* Input
    keypadPc, mode, keys, repressed, released, copy, held, pressed, next,
    tick, lag, down, struck, quiet,
    \* CartStatus
    cartPc, cartTick, cartCard, irqs, moves, info, auto, upright, staged,
    shown, forced, asked,
    \* WavPlay
    at, file, wavChunk, kind, fmt, irq, tell, begin, play, wavFresh, wavNext,
    wavKeys,
    \* VgmPlay
    vgmPc, song, color, bank, pos, seg, off, timer, place, blocks, memory,
    dma, outside, lineIrq, vgmResult

Xmodem == INSTANCE XModem WITH
    Last <- 4, IdxMod <- 2, Capacity <- 5, MaxSilence <- 4, Slow <- FALSE,
    Faults <- {"block"}, MaxFaults <- 3, MaxQueue <- 8
Keypad == INSTANCE Input WITH
    pc <- keypadPc, Loop <- 2, Extra <- {}, Clear <- 1, Wrap <- 6,
    First <- 2, Again <- 2, Race <- TRUE, MaxLag <- 1
Cart == INSTANCE CartStatus WITH
    pc <- cartPc, tick <- cartTick, card <- cartCard, Period <- 4,
    IrqTick <- 1, InfoTick <- 3, MaxLag <- 0, MaxMoves <- 1, Failing <- FALSE
Wav == INSTANCE WavPlay WITH
    chunk <- wavChunk, fresh <- wavFresh, next <- wavNext, keys <- wavKeys,
    Files <- Songs, Half <- 4, Start <- 2, Frame <- 2, Card <- 1,
    Word <- 256, CanSeek <- FALSE, CanFail <- FALSE
VgmTune == INSTANCE VgmPlay WITH
    pc <- vgmPc, result <- vgmResult, Songs <- VgmSongs,
    Header <- FirstCommand, Bank <- 32, Para <- 2, High <- 8, HighEnd <- 15,
    Low <- 2, MaxBlocks <- 16, MaxStreams <- 1, MaxTicks <- 2

xmodemVars == <<sres, sent, fresh, avail, length, rres, psram, soh, eot,
                silence, line, toR, toS, faults>>
keypadVars == <<keypadPc, mode, keys, repressed, released, copy, held,
                pressed, next, tick, lag, down, struck, quiet>>
cartVars == <<cartPc, cartTick, cartCard, irqs, moves, info, auto, upright,
              staged, shown, forced, asked>>
wavVars == <<at, file, wavChunk, kind, fmt, irq, tell, begin, play, wavFresh,
             wavNext, wavKeys>>
vgmtuneVars == <<vgmPc, song, color, bank, pos, seg, off, timer, place,
                 blocks, memory, dma, outside, lineIrq, vgmResult>>

all == <<on, vars, xmodemVars, keypadVars, cartVars, wavVars, vgmtuneVars>>

(* What does not run keeps its state.                                        *)
Rest ==
    /\ UNCHANGED on
    /\ IF on = "save" THEN TRUE ELSE UNCHANGED vars
    /\ IF on = "transfer" THEN TRUE ELSE UNCHANGED xmodemVars
    /\ IF on = "keypad" THEN TRUE ELSE UNCHANGED keypadVars
    /\ IF on = "status" THEN TRUE ELSE UNCHANGED cartVars
    /\ IF on = "song" THEN TRUE ELSE UNCHANGED wavVars
    /\ IF on = "vgm" THEN TRUE ELSE UNCHANGED vgmtuneVars

Parts == {"save", "transfer", "keypad", "status", "song", "vgm"}

ProgressInit ==
    /\ on \in Parts
    /\ Init /\ (on \in {"save"} \/ (\A g \in Games, m \in Media : size[g][m] = Absent))
    /\ Xmodem!Init /\ (on = "transfer" \/ (length = 0))
    /\ Keypad!Init
    /\ Cart!Init /\ (on = "status" \/ (~forced))
    /\ Wav!Init /\ (on = "song" \/ (file.length = 9))
    /\ VgmTune!Init /\ (on = "vgm" \/ (song = ATune /\ color))

SaveStep == on = "save" /\ Next /\ Rest
XmodemStep == on = "transfer" /\ Xmodem!Next /\ Rest
KeypadStep == on = "keypad" /\ Keypad!Next /\ Rest
CartStep == on = "status" /\ Cart!Next /\ Rest
WavStep == on = "song" /\ Wav!Next /\ Rest
VgmTuneStep == on = "vgm" /\ VgmTune!Next /\ Rest

ProgressNext ==
    \/ SaveStep \/ XmodemStep \/ KeypadStep \/ CartStep \/ WavStep
    \/ VgmTuneStep

(* The firmware takes the steps it can; both sides of a transfer run on, and *)
(* the receiver's clock; the display interrupts; the main loop does not      *)
(* stop; in every frame something of a song is played, and the interrupt     *)
(* that plays a tune goes on.  Users, games, cards and hosts owe nothing.    *)
Runs(part, A) == on = part /\ A /\ Rest

Fairness ==
    /\ WF_all(Runs("save", Firmware))
    /\ WF_all(Runs("transfer", Xmodem!SenderHears))
    /\ WF_all(Runs("transfer", Xmodem!ReceiverHears))
    /\ WF_all(Runs("transfer", Xmodem!ReceiverFull))
    /\ WF_all(Runs("transfer", Xmodem!ReceiverSilence))
    /\ WF_all(Runs("keypad", Keypad!Vblank))
    /\ WF_all(Runs("keypad", Keypad!CopyMasks))
    /\ WF_all(Runs("keypad", Keypad!Update))
    /\ WF_all(Runs("keypad", Keypad!WaitOver))
    /\ WF_all(Runs("keypad", Keypad!Waiting))
    /\ WF_all(Runs("keypad", Keypad!ExitHid))
    /\ WF_all(Runs("status", Cart!Idle))
    /\ WF_all(Runs("status", Cart!AwaitCard))
    /\ WF_all(Runs("vgm", VgmTune!Handler))
    /\ WF_all(Runs("song", Wav!Steps))
    /\ WF_all(Runs("song", Wav!NextFrame))
    /\ SF_all(Runs("song", Wav!FramePlays))

ProgressSpec == ProgressInit /\ [][ProgressNext]_all /\ Fairness

-----------------------------------------------------------------------------
ASSUME Keypad!KeyAssumption /\ Keypad!TimeAssumption /\ Keypad!BoundAssumption
ASSUME Cart!TickAssumption /\ Cart!BoundAssumption /\ Wav!WavAssumption
ASSUME VgmTune!VgmAssumption

(* launch.c: once the power stays on, a backup or a restore comes to rest,   *)
(* whatever fails.                                                           *)
SaveRests == on = "save" => ComesToRest

(* xmodem.c: a transfer whose requests piled up and whose blocks are damaged *)
(* on the way arrives.                                                       *)
Completes == Xmodem!Completes

(* input.c: a key that is held down alone is heard again and again.          *)
HeldKeyHeard == on = "keypad" => Keypad!HeldKeyHeard

(* main.c: a storage card that was taken out is noticed.                     *)
RemovalIsNoticed == Cart!RemovalIsNoticed

(* ui_wavplay.c: a song ends that nobody seeks in.  ui_vgmplay.c: the        *)
(* interrupt that plays a song's commands returns, so that keys are seen.    *)
SongEnds == Wav!SongEnds /\ VgmTune!HandlerReturns
=============================================================================
