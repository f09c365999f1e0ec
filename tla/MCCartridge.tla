----------------------------- MODULE MCCartridge -----------------------------
(*****************************************************************************)
(* The values of Cartridge's parameters for TLC.                             *)
(*****************************************************************************)
EXTENDS Cartridge

(* Segments of 2 bytes, banks of 16, 42 segments for files.                  *)
RomFile(n, bytes, header, sectors, isRam) ==
    [name |-> n, size |-> bytes, ww |-> header, claim |-> sectors, ram |-> isRam]

(* "game" ends inside a sector, "data" spans two banks, "odd" ends inside a  *)
(* segment; "fits" fills what "odd" leaves; "huge" and "long" do not fit.    *)
RomFiles == {RomFile("game", 9, TRUE, 3, FALSE), RomFile("data", 50, FALSE, 0, FALSE),
             RomFile("odd", 3, FALSE, 0, FALSE), RomFile("fits", 80, FALSE, 0, FALSE),
             RomFile("huge", 100, FALSE, 0, FALSE), RomFile("long", 86, TRUE, 22, FALSE),
             RomFile("save", 5, TRUE, 2, TRUE), RomFile("data", 7, FALSE, 0, TRUE)}

McuFails == {"open", "reset", "compare", "erasefooter", "footer", "eraseblob", "chunk",
             "jump", "status"}
McuCuts  == McuFails \cup {"delay"}
AllCuts  == {"boot", "entry", "files", "write", "unlink", "menu", "run"}

(* Sectors of 4 bytes, banks of 32.  Clusters in a row, every other one,     *)
(* backwards, and in swapped pairs; a chain may be a cluster short.          *)
Shapes == {"row", "apart", "back", "pairs"}
Chain(shape, n) ==
    [i \in 1..n |-> CASE shape = "row" -> i + 1
                      [] shape = "apart" -> 2 * i
                      [] shape = "back" -> n + 2 - i
                      [] OTHER -> IF i % 4 \in {1, 2} THEN i + 3 ELSE i - 1]
Boots(source, bytes, banks, freya, bits, sectors, shape, short) ==
    [source |-> source, size |-> bytes, banks |-> banks, freya |-> freya, bits |-> bits,
     cs |-> sectors,
     chain |-> Chain(shape, (bytes + 4 * sectors - 1) \div (4 * sectors) - short)]

(* Sizes that end inside a sector, in either half of a bank or with it.      *)
BootPrograms ==
    {Boots("card", s, 0, "no", b, c, h, 0) :
        s \in {10, 35, 50, 70}, b \in {12, 16, 32}, c \in {1, 2, 8}, h \in Shapes}
    \cup {Boots("card", s, 2, f, 12, 1, "pairs", 0) : s \in {32, 64}, f \in {"blank", "used"}}
    \cup {Boots("card", s, 0, "no", 16, 1, "row", 1) : s \in {10, 64}}
    \cup {Boots("psram", s, 0, f, 16, 1, "row", 0) : s \in {32, 64}, f \in {"blank", "used"}}
    \cup {Boots("psram", s, 0, "no", 16, 1, "row", 0) : s \in {10, 35, 50, 70, 96}}
    \cup {Boots("none", 32, 0, "no", 16, 1, "row", 0)}

(* What each part is given.                                                  *)
TheCommands == [Faults |-> {"mcu"}, MaxFaults |-> 1, CutAt |-> AllCuts]
TheRom == [Word |-> 128, DirSegment |-> 32, OsSegment |-> 80, Bank |-> 16, Sector |-> 2,
           Para |-> 2, FentSize |-> 2, RomMax |-> 2, RamMax |-> 1, Files |-> RomFiles,
           SkipChosen |-> FALSE, MaxFiles |-> 4, CanFail |-> TRUE]
TheMcu == [Versions |-> {"v1", "v2"}, NoVersion |-> "none", Bad |-> "bad", Chunks |-> 2,
           CutAt |-> McuCuts, FailAt |-> McuFails, MaxTrouble |-> 2]
TheStub == [Sector |-> 4, Bank |-> 32, Programs |-> BootPrograms, Checked |-> {18, 19},
            Code |-> {20, 21, 22}, Pointer |-> {28, 29}, Count |-> 40, DataBase |-> 50,
            MaxFaults |-> 2]
TheCart == [Period |-> 4, IrqTick |-> 1, InfoTick |-> 3, MaxLag |-> 2, MaxMoves |-> 2,
            Failing |-> TRUE]

(* What the theorems suppose holds of these values, for both of the parts    *)
(* that keep AthenaOS's files.                                               *)
ASSUME TheoremsApply == Rom!HonestHeaders /\ Guarded /\ Commands!Guarded
=============================================================================
