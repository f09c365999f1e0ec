------------------------------ MODULE Cartridge -------------------------------
(*****************************************************************************)
(* What the cartridge does for a program, one part at a time: the life of    *)
(* an AthenaOS program's files, with a failing card or a failing MCU, the    *)
(* image made of them, the firmware update at boot, the bootstub that        *)
(* loads and starts a program, and the status the main loop asks for. The    *)
(* firmware has one thread, and each part runs to its end before another     *)
(* begins.                                                                   *)
(* The instances are of the modules that hold a part's theorems, where there *)
(* is one.                                                                   *)
(*****************************************************************************)
EXTENDS AthenaSave, Integers, Sequences

(* The parameters of each part but the first, as a record.                   *)
CONSTANTS CommandsOf, RomOf, McuOf, StubOf, CartOf

AnyProg == CHOOSE p \in Progs : TRUE
AnyName == CHOOSE n \in Names : TRUE

VARIABLES
    on,  \* the part that runs
    \* AthenaRom
    romPc, entry, fent, romLeft, segment, rom, ram, exec, chosen, seen,
    written,
    \* McuUpdate
    mcuPc, bin, flash, footer, blob, next, result, native, told, torn,
    trouble,
    \* Bootstub
    stubPc, stubProg, at, from, btr, ptr, cluster, sector, cc, run, window,
    psram, start, mixed, stubFaults,
    \* CartStatus
    cartPc, tick, card, irqs, moves, info, auto, upright, staged, shown,
    forced, asked

Commands == INSTANCE AthenaSave WITH
    Faults <- CommandsOf.Faults, MaxFaults <- CommandsOf.MaxFaults,
    CutAt <- CommandsOf.CutAt
Rom == INSTANCE AthenaRomProofs WITH
    pc <- romPc, left <- romLeft, Word <- RomOf.Word,
    DirSegment <- RomOf.DirSegment, OsSegment <- RomOf.OsSegment,
    Bank <- RomOf.Bank, Sector <- RomOf.Sector, Para <- RomOf.Para,
    FentSize <- RomOf.FentSize, RomMax <- RomOf.RomMax,
    RamMax <- RomOf.RamMax, Files <- RomOf.Files,
    SkipChosen <- RomOf.SkipChosen, MaxFiles <- RomOf.MaxFiles,
    CanFail <- RomOf.CanFail
Mcu == INSTANCE McuUpdate WITH
    pc <- mcuPc, Versions <- McuOf.Versions, NoVersion <- McuOf.NoVersion,
    Bad <- McuOf.Bad, Chunks <- McuOf.Chunks, CutAt <- McuOf.CutAt,
    FailAt <- McuOf.FailAt, MaxTrouble <- McuOf.MaxTrouble
Stub == INSTANCE BootstubProofs WITH
    pc <- stubPc, prog <- stubProg, faults <- stubFaults,
    Sector <- StubOf.Sector, Bank <- StubOf.Bank,
    Programs <- StubOf.Programs, Checked <- StubOf.Checked,
    Code <- StubOf.Code, Pointer <- StubOf.Pointer, Count <- StubOf.Count,
    DataBase <- StubOf.DataBase, MaxFaults <- StubOf.MaxFaults
Cart == INSTANCE CartStatus WITH
    pc <- cartPc, Period <- CartOf.Period, IrqTick <- CartOf.IrqTick,
    InfoTick <- CartOf.InfoTick, MaxLag <- CartOf.MaxLag,
    MaxMoves <- CartOf.MaxMoves, Failing <- CartOf.Failing

romVars == <<romPc, entry, fent, romLeft, segment, rom, ram, exec, chosen,
             seen, written>>
mcuVars == <<mcuPc, bin, flash, footer, blob, next, result, native, told,
             torn, trouble>>
stubVars == <<stubPc, stubProg, at, from, btr, ptr, cluster, sector, cc, run,
              window, psram, start, mixed, stubFaults>>
cartVars == <<cartPc, tick, card, irqs, moves, info, auto, upright, staged,
              shown, forced, asked>>

all == <<on, vars, romVars, mcuVars, stubVars, cartVars>>

(* What does not run keeps its state.                                        *)
Rest ==
    /\ UNCHANGED on
    /\ IF on \in {"files", "commands"} THEN TRUE ELSE UNCHANGED vars
    /\ IF on = "rom" THEN TRUE ELSE UNCHANGED romVars
    /\ IF on = "update" THEN TRUE ELSE UNCHANGED mcuVars
    /\ IF on = "stub" THEN TRUE ELSE UNCHANGED stubVars
    /\ IF on = "status" THEN TRUE ELSE UNCHANGED cartVars

Parts == {"files", "commands", "rom", "update", "stub", "status"}

RomRests ==
    /\ romPc = 0 /\ entry = 0 /\ fent = 0 /\ romLeft = 0 /\ segment = 0
    /\ rom = 0 /\ ram = 0 /\ exec = 0 /\ chosen = 0 /\ seen = 0
    /\ written = 0

McuRests ==
    /\ mcuPc = 0 /\ bin = 0 /\ flash = 0 /\ footer = 0 /\ blob = 0
    /\ next = 0 /\ result = 0 /\ native = 0 /\ told = 0 /\ torn = 0
    /\ trouble = 0

StubRests ==
    /\ stubPc = 0 /\ stubProg = 0 /\ at = 0 /\ from = 0 /\ btr = 0
    /\ ptr = 0 /\ cluster = 0 /\ sector = 0 /\ cc = 0 /\ run = 0
    /\ window = 0 /\ psram = 0 /\ start = 0 /\ mixed = 0 /\ stubFaults = 0

CartridgeInit ==
    /\ on \in Parts
    /\ Init /\ (on \in {"files", "commands"} \/ (version /\ prog = AnyProg /\ file = AnyName))
    /\ IF on = "rom" THEN Rom!Init ELSE RomRests
    /\ IF on = "update" THEN Mcu!Init ELSE McuRests
    /\ IF on = "stub" THEN Stub!Init ELSE StubRests
    /\ Cart!Init /\ (on = "status" \/ (~forced))

FilesStep == on = "files" /\ Next /\ Rest
CommandsStep == on = "commands" /\ Commands!Next /\ Rest
RomStep == on = "rom" /\ Rom!Next /\ Rest
McuStep == on = "update" /\ Mcu!Next /\ Rest
StubStep == on = "stub" /\ Stub!Next /\ Rest
CartStep == on = "status" /\ Cart!Next /\ Rest

CartridgeNext ==
    \/ FilesStep \/ CommandsStep \/ RomStep \/ McuStep \/ StubStep
    \/ CartStep

CartridgeSpec == CartridgeInit /\ [][CartridgeNext]_all

-----------------------------------------------------------------------------
(* The parts' assumptions on their parameters.                               *)
ASSUME PartsAssumption ==
    /\ Rom!LayoutAssumption /\ Rom!SectorAssumption /\ Rom!FileAssumption /\ Rom!LimitAssumption
    /\ Mcu!VersionAssumption /\ Mcu!BoundAssumption /\ Mcu!StepAssumption
    /\ Cart!TickAssumption /\ Cart!BoundAssumption
    /\ Stub!SizeAssumption /\ Stub!ProgramAssumption /\ Stub!PatchAssumption
    /\ Stub!FatAssumption /\ Stub!CardAssumption
    /\ CommandsOf.Faults \subseteq FaultKinds /\ CommandsOf.CutAt \subseteq Steps
    /\ CommandsOf.MaxFaults \in Nat

(* The variables of all parts keep to their types.                      *)
TypesOK ==
    CASE on \in {"files", "commands"} -> TypeOK
      [] on = "rom" -> Rom!TypeOK
      [] on = "update" -> Mcu!TypeOK
      [] on = "stub" -> Stub!TypeOK
      [] OTHER -> Cart!TypeOK

(* The program image of launch_athena.c: a file that was placed keeps its    *)
(* bytes, and AthenaOS its own; the file that starts is the one the user     *)
(* chose.                                                                    *)
FilesIntact == on = "rom" => (Rom!FilesIntact /\ Rom!OsKept /\ Rom!ChosenRuns)

(* What the bootstub starts is the program, every byte at its place, and it  *)
(* gives up only for a failing read or a short chain.                        *)
ImageInPlace ==
    on = "stub" => (Stub!ImageInPlace /\ Stub!OnlyAcrossMixed /\ Stub!ErrorsToldRight)

(* mcu.c:80, "Compare MCU footer with MCU.BIN copy": the MCU is made to jump *)
(* into its flash only when all of it is MCU.BIN's firmware, but for one     *)
(* whose update stopped half-way; an MCU that is not in native mode has led  *)
(* to a dialog, whichever call failed.                                       *)
JumpsIntoFirmware == on = "update" => (Mcu!JumpsIntoFirmware /\ Mcu!FailureIsTold)

(* The screen is turned upright only after two readouts that ask for it,     *)
(* whatever fails in between.                                                *)
TurnsUpSteady == Cart!TurnsUpSteady
=============================================================================
