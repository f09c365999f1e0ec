-------------------------- MODULE AthenaRomProofs ---------------------------
(***************************************************************************)
(* Proofs about AthenaRom, for any files, limits and sizes of segments,    *)
(* sectors and banks, however the card fails: the image never leaves its   *)
(* place, every file in it is whole and where its entry says, and the file *)
(* that runs is the one that was chosen.                                   *)
(***************************************************************************)
EXTENDS AthenaRom, TLAPS

Rules == LayoutAssumption /\ SectorAssumption /\ FileAssumption /\ LimitAssumption

(* What OsKept and FilesIntact take for granted: a header counts the file's *)
(* sectors.                                                                 *)
HonestHeaders ==
    \A f \in Files : f.ww => f.claim = (Segments(f) + Sector - 1) \div Sector

-----------------------------------------------------------------------------
(* Types *)

Location == 0..(Word - 1)
Fent     == [file : Files, loc : Location]

(* A directory that is added to is not full, and what is added is a file.   *)
TypeInv ==
    /\ pc \in {"find", "place", "read", "ok", "memory", "card", "large"}
    /\ entry \in Files \cup {NoFile} /\ chosen \in Files \cup {NoFile}
    /\ left \in Nat /\ segment \in Location
    /\ rom \in Seq(Fent) /\ Len(rom) <= RomMax
    /\ ram \in Seq(Fent) /\ Len(ram) <= RamMax
    /\ exec \in 0..RomMax /\ seen \in 0..MaxFiles
    /\ pc \in {"place", "read"} => entry \in Files /\ ~Full(entry)
    /\ pc = "read" => fent \in Fent /\ fent.file = entry

LEMMA DivMod ==
    ASSUME NEW n \in Nat \ {0}, NEW a \in Nat
    PROVE  a \div n \in Nat /\ a % n \in 0..(n - 1) /\ a = (n * (a \div n)) + (a % n)
OBVIOUS

(* A smaller factor makes a multiple smaller by n at least.                 *)
LEMMA TimesMono ==
    ASSUME NEW n \in Nat \ {0}, NEW x \in Int, NEW y \in Int, x < y
    PROVE  n * x + n <= n * y
OBVIOUS

(* So does a place that lies before another.                               *)
LEMMA Before ==
    ASSUME NEW n \in Nat \ {0}, NEW s \in Nat, NEW x \in Nat, NEW y \in Nat, s >= x, s < y
    PROVE  (s - x) * n < (y - x) * n
<1> DEFINE a == s - x
           b == y - x
<1>1. a \in Nat /\ b \in Nat /\ a < b
    OBVIOUS
<1> HIDE DEF a, b
<1>2. n * a + n <= n * b /\ a * n = n * a /\ b * n = n * b /\ n * a \in Nat /\ n * b \in Nat
    BY <1>1, TimesMono
<1>3. a * n < b * n
    BY <1>2
<1> QED
    BY <1>3 DEF a, b

(* Two ways to write a number as a multiple and a remainder are one.        *)
LEMMA OneQuotient ==
    ASSUME NEW n \in Nat \ {0}, NEW p \in Int, NEW q \in Int,
           NEW r \in 0..(n - 1), NEW s \in 0..(n - 1), n * p + r = n * q + s
    PROVE  p = q /\ r = s
<1>1. n * p \in Int /\ n * q \in Int
    OBVIOUS
<1>2. ~(p < q)
    <2> SUFFICES ASSUME p < q PROVE FALSE
        OBVIOUS
    <2>1. n * p + n <= n * q
        BY TimesMono
    <2> QED
        BY <1>1, <2>1
<1>3. ~(q < p)
    <2> SUFFICES ASSUME q < p PROVE FALSE
        OBVIOUS
    <2>1. n * q + n <= n * p
        BY TimesMono
    <2> QED
        BY <1>1, <2>1
<1> QED
    BY <1>1, <1>2, <1>3

LEMMA Divided ==
    ASSUME NEW n \in Nat \ {0}, NEW a \in Nat, NEW q \in Int, NEW r \in 0..(n - 1), a = n * q + r
    PROVE  a \div n = q /\ a % n = r
<1> DEFINE d == a \div n
           m == a % n
<1>1. d \in Nat /\ m \in 0..(n - 1) /\ a = n * d + m
    BY DivMod
<1> HIDE DEF d, m
<1>2. n * d + m = n * q + r
    BY <1>1
<1>3. d = q /\ m = r
    BY <1>1, <1>2, OneQuotient
<1> QED
    BY <1>3 DEF d, m

(* Rounded up, a number is not less than it was, and not beyond a multiple  *)
(* that it was not beyond.                                                  *)
RoundUp(a) == ((a + Sector - 1) \div Sector) * Sector
Whole(a)   == \E k \in Int : a = k * Sector

LEMMA Rounded ==
    ASSUME SectorAssumption, NEW a \in Nat
    PROVE  /\ RoundUp(a) \in Nat /\ a <= RoundUp(a) /\ RoundUp(a) <= a + Sector - 1
           /\ Whole(RoundUp(a))
           /\ \A b \in Nat : Whole(b) /\ a <= b => RoundUp(a) <= b
<1> DEFINE q == (a + Sector - 1) \div Sector
           m == (a + Sector - 1) % Sector
<1>1. Sector \in Nat \ {0} /\ a + Sector - 1 \in Nat
    BY DEF SectorAssumption
<1>2. q \in Nat /\ m \in 0..(Sector - 1) /\ a + Sector - 1 = Sector * q + m
    BY <1>1, DivMod
<1>3. RoundUp(a) = q * Sector
    BY DEF RoundUp
<1> HIDE DEF q, m
<1>4. q * Sector = Sector * q /\ q * Sector \in Nat
    BY <1>1, <1>2
<1>5. RoundUp(a) \in Nat /\ a <= RoundUp(a) /\ RoundUp(a) <= a + Sector - 1
    BY <1>1, <1>2, <1>3, <1>4
<1>6. Whole(RoundUp(a))
    BY <1>2, <1>3 DEF Whole
<1>7. ASSUME NEW b \in Nat, Whole(b), a <= b PROVE RoundUp(a) <= b
    <2>1. PICK k \in Int : b = k * Sector
        BY <1>7 DEF Whole
    <2>2. b = Sector * k
        BY <1>1, <2>1
    <2>3. ~(k < q)
        <3> SUFFICES ASSUME k < q PROVE FALSE
            OBVIOUS
        <3>1. Sector * k + Sector <= Sector * q
            BY <1>1, <1>2, TimesMono
        <3> QED
            BY <1>1, <1>2, <1>4, <1>7, <2>2, <3>1
    <2>4. q = k \/ Sector * q + Sector <= Sector * k
        BY <1>1, <1>2, <2>3, TimesMono
    <2> QED
        BY <1>1, <1>2, <1>3, <1>4, <2>2, <2>4
<1> QED
    BY <1>5, <1>6, <1>7

LEMMA WholeSum ==
    ASSUME SectorAssumption, NEW a \in Nat, NEW b \in Nat, Whole(a), Whole(b)
    PROVE  Whole(a + b)
<1>1. PICK k \in Int : a = k * Sector
    BY DEF Whole
<1>2. PICK l \in Int : b = l * Sector
    BY DEF Whole
<1>3. a + b = (k + l) * Sector
    BY <1>1, <1>2 DEF SectorAssumption
<1> QED
    BY <1>3 DEF Whole

LEMMA Divisible ==
    ASSUME NEW n \in Nat \ {0}, NEW a \in Nat, a % n = 0
    PROVE  a \div n \in Nat /\ a = n * (a \div n)
BY DivMod

LEMMA WholeMultiple ==
    ASSUME SectorAssumption, NEW a \in Nat, a % Sector = 0
    PROVE  Whole(a)
<1>1. Sector \in Nat \ {0}
    BY DEF SectorAssumption
<1> DEFINE d == a \div Sector
<1>2. d \in Nat /\ a = Sector * d
    BY <1>1, Divisible
<1> HIDE DEF d
<1>3. a = d * Sector
    BY <1>1, <1>2
<1> QED
    BY <1>2, <1>3 DEF Whole

(* The directory lies before the files, and both at sectors.                *)
LEMMA Layout ==
    ASSUME Rules
    PROVE  /\ FilesAt \in Nat /\ OsSegment \in Nat /\ Word \in Nat
           /\ FilesAt <= OsSegment /\ OsSegment < Word /\ FilesAt > 0
           /\ Whole(FilesAt) /\ Whole(OsSegment)
<1>1. /\ Sector \in Nat \ {0} /\ Bank \in Nat \ {0} /\ DirSegment \in Nat /\ DirSegment > 0
      /\ OsSegment \in Nat /\ Word \in Nat /\ OsSegment < Word
    BY DEF Rules, LayoutAssumption, SectorAssumption
<1> DEFINE s == (RomMax + RamMax) * FentSize
<1>2. s \in Nat /\ s % Sector = 0 /\ FilesAt = DirSegment + s /\ DirSegment + s <= OsSegment
    BY DEF Rules, LimitAssumption, SectorAssumption, FilesAt
<1> HIDE DEF s
<1>3. Whole(s) /\ Whole(OsSegment) /\ Whole(Bank)
    BY <1>1, <1>2, WholeMultiple DEF Rules, SectorAssumption, LayoutAssumption
<1>4. Whole(DirSegment)
    <2> DEFINE d == DirSegment \div Bank
    <2>1. d \in Nat /\ DirSegment = Bank * d
        BY <1>1, Divisible DEF Rules, LayoutAssumption
    <2> HIDE DEF d
    <2>2. PICK k \in Int : Bank = k * Sector
        BY <1>3 DEF Whole
    <2>3. DirSegment = (k * d) * Sector /\ k * d \in Int
        BY <1>1, <2>1, <2>2
    <2> QED
        BY <2>3 DEF Whole
<1>5. Whole(DirSegment + s)
    BY <1>1, <1>2, <1>3, <1>4, WholeSum DEF Rules
<1> QED
    BY <1>1, <1>2, <1>3, <1>5

-----------------------------------------------------------------------------
(* Sizes *)

(* A segment is one of a file's if the file is longer than what lies before *)
(* it.                                                                      *)
LEMMA InSegments ==
    ASSUME Rules, NEW f \in Files
    PROVE  /\ Segments(f) \in Nat
           /\ \A n \in Nat : n < Segments(f) <=> n * Para < f.size
<1> DEFINE q == Segments(f)
           m == (f.size + Para - 1) % Para
<1>1. Para \in Nat \ {0} /\ f.size \in Nat /\ f.size + Para - 1 \in Nat
    BY DEF Rules, SectorAssumption, FileAssumption
<1>2. q \in Nat /\ m \in 0..(Para - 1) /\ f.size + Para - 1 = Para * q + m
    BY <1>1, DivMod DEF Segments
<1> HIDE DEF q, m
<1>3. ASSUME NEW n \in Nat PROVE n < q <=> n * Para < f.size
    <2>1. n * Para = Para * n /\ n * Para \in Nat /\ Para * q \in Nat
        BY <1>1, <1>2
    <2>2. n < q => Para * n + Para <= Para * q
        BY <1>1, <1>2, TimesMono
    <2>3. q < n => Para * q + Para <= Para * n
        BY <1>1, <1>2, TimesMono
    <2>4. q = n => Para * q = Para * n
        OBVIOUS
    <2> QED
        BY <1>1, <1>2, <2>1, <2>2, <2>3, <2>4
<1> QED
    BY <1>2, <1>3 DEF q

(* One turn reads all that is left or a whole number of segments.           *)
LEMMA Turns ==
    ASSUME Rules, left \in Nat, segment \in Location
    PROVE  /\ Turn \in Nat /\ Turn <= left
           /\ Turn = left \/ (\E k \in Nat : Turn = k * Para)
<1>1. Para \in Nat \ {0} /\ Bank \in Nat \ {0} /\ Bank % 2 = 0 /\ segment \in Nat
    BY DEF Rules, SectorAssumption, LayoutAssumption, Location
<1> DEFINE r == segment % Bank
           h == Bank \div 2
<1>2. r \in 0..(Bank - 1)
    BY <1>1, DivMod
<1>3. h \in Nat /\ Bank = 2 * h
    BY <1>1
<1> HIDE DEF r, h
<1>4. (Bank * Para) \div 2 = h * Para /\ h * Para \in Nat /\ Bank * Para = 2 * (h * Para)
    <2> DEFINE p == h * Para
    <2>1. p \in Nat /\ Bank * Para = 2 * p
        BY <1>1, <1>3
    <2> HIDE DEF p
    <2>2. (2 * p) \div 2 = p
        BY <2>1
    <2> QED
        BY <2>1, <2>2 DEF p
<1>5. (Bank - r) * Para \in Nat /\ Bank - r \in Nat
    BY <1>1, <1>2
<1>6. Room = (Bank - r) * Para
    BY DEF Room, r
<1>7. Turn \in {(Bank * Para) \div 2, left, Room}
    BY DEF Turn
<1>8. Turn <= left /\ Turn \in Nat
    BY <1>4, <1>5, <1>6 DEF Turn
<1> QED
    BY <1>3, <1>4, <1>5, <1>6, <1>7, <1>8

(* What is read, in segments: all of it when nothing is left behind.        *)
LEMMA QuotientOf ==
    ASSUME Rules, NEW k \in Nat
    PROVE  (k * Para) \div Para = k
<1>1. Para \in Nat \ {0} /\ k * Para \in Nat /\ k * Para = Para * k + 0
    BY DEF Rules, SectorAssumption
<1> QED
    BY <1>1, Divided

(* Segments that were read before and those read now make up all.           *)
LEMMA QuotientSum ==
    ASSUME Rules, NEW d \in Nat, NEW a \in Nat
    PROVE  (d * Para + a) \div Para = d + (a \div Para)
<1> DEFINE q == a \div Para
           m == a % Para
<1>1. Para \in Nat \ {0}
    BY DEF Rules, SectorAssumption
<1>2. q \in Nat /\ m \in 0..(Para - 1) /\ a = Para * q + m
    BY <1>1, DivMod
<1> HIDE DEF q, m
<1>3. d * Para + a \in Nat /\ d * Para + a = Para * (d + q) + m
    BY <1>1, <1>2
<1>4. (d * Para + a) \div Para = d + q
    BY <1>1, <1>2, <1>3, Divided
<1> QED
    BY <1>4 DEF q

LEMMA Add16Type ==
    ASSUME Rules, NEW a \in Nat, NEW b \in Nat
    PROVE  Add16(a, b) \in Location /\ (a + b < Word => Add16(a, b) = a + b)
<1>1. Word \in Nat \ {0} /\ a + b \in Nat
    BY DEF Rules, LayoutAssumption
<1>2. (a + b) % Word \in 0..(Word - 1)
    BY <1>1, DivMod
<1>3. ASSUME a + b < Word PROVE (a + b) % Word = a + b
    <2>1. a + b = Word * 0 + (a + b) /\ a + b \in 0..(Word - 1)
        BY <1>1, <1>3
    <2> QED
        BY <1>1, <2>1, Divided
<1> QED
    BY <1>2, <1>3 DEF Add16, Location

LEMMA AlignedType ==
    ASSUME Rules, segment \in Location
    PROVE  Aligned(segment) \in Location /\ (RoundUp(segment) < Word => Aligned(segment) = RoundUp(segment))
<1>1. Word \in Nat \ {0} /\ segment \in Nat
    BY DEF Rules, LayoutAssumption, Location
<1>2. RoundUp(segment) \in Nat
    BY <1>1, Rounded DEF Rules
<1>3. Aligned(segment) = Add16(RoundUp(segment), 0)
    BY <1>2 DEF Aligned, RoundUp, Add16
<1> QED
    BY <1>2, <1>3, Add16Type

(* The sectors of an honest header are those of the file.                   *)
LEMMA SectorsNat ==
    ASSUME Rules, NEW f \in Files
    PROVE  Sectors(f) \in Nat /\ Sectors(f) * Sector \in Nat
<1>1. Sector \in Nat \ {0} /\ Segments(f) + Sector - 1 \in Nat /\ f.claim \in Nat
    BY InSegments DEF Rules, SectorAssumption, FileAssumption
<1>2. (Segments(f) + Sector - 1) \div Sector \in Nat
    BY <1>1, DivMod
<1>3. Sectors(f) \in Nat
    BY <1>1, <1>2 DEF Sectors
<1> QED
    BY <1>1, <1>3

LEMMA HonestSectors ==
    ASSUME Rules, HonestHeaders, NEW f \in Files
    PROVE  Sectors(f) * Sector = RoundUp(Segments(f))
BY DEF HonestHeaders, Sectors, RoundUp

-----------------------------------------------------------------------------
LEMMA TypeInit == ASSUME Rules, Init PROVE TypeInv
<1>1. FilesAt \in Location
    BY Layout DEF Location
<1>2. rom \in Seq(Fent) /\ Len(rom) = 0 /\ ram \in Seq(Fent) /\ Len(ram) = 0
    BY DEF Init
<1>3. RomMax \in Nat /\ RamMax \in Nat /\ MaxFiles \in Nat
    BY DEF Rules, LimitAssumption
<1> QED
    BY <1>1, <1>2, <1>3 DEF Init, TypeInv

LEMMA AppendType ==
    ASSUME NEW S, NEW s \in Seq(S), NEW e \in S
    PROVE  /\ Append(s, e) \in Seq(S) /\ Len(Append(s, e)) = Len(s) + 1
           /\ \A i \in 1..Len(s) : Append(s, e)[i] = s[i]
           /\ Append(s, e)[Len(s) + 1] = e
OBVIOUS

LEMMA TypeStep == ASSUME Rules, TypeInv, [Next]_vars PROVE TypeInv'
<1>1. RomMax \in Nat /\ RamMax \in Nat /\ MaxFiles \in Nat
    BY DEF Rules, LimitAssumption
<1>2. CASE FindFile
    <2>1. PICK f \in Files, b \in BOOLEAN :
            /\ seen' = seen + 1
            /\ chosen' = IF b THEN f ELSE chosen
            /\ exec' = IF b /\ ~Full(f) THEN Len(rom) ELSE exec
            /\ b => ~f.ram
            /\ IF Full(f) THEN Stop("memory")
               ELSE /\ entry' = f
                    /\ pc' = "place"
                    /\ UNCHANGED <<fent, left, segment, rom, ram, written>>
        BY <1>2, Zenon DEF FindFile
    <2>2. seen' \in 0..MaxFiles
        BY <1>1, <1>2, <2>1 DEF FindFile, TypeInv
    <2>3. chosen' \in Files \cup {NoFile}
        BY <2>1 DEF TypeInv
    <2>4. exec' \in 0..RomMax
        BY <1>1, <2>1 DEF TypeInv, Full
    <2>5. CASE Full(f)
        BY <2>1, <2>2, <2>3, <2>4, <2>5 DEF Stop, TypeInv
    <2>6. CASE ~Full(f)
        <3>1. entry' = f /\ pc' = "place" /\ UNCHANGED <<fent, left, segment, rom, ram>>
            BY <2>1, <2>6
        <3>2. Full(f)' <=> Full(f)
            BY <3>1 DEF Full
        <3> QED
            BY <2>2, <2>3, <2>4, <2>6, <3>1, <3>2 DEF TypeInv, Full
    <2> QED
        BY <2>5, <2>6
<1>3. CASE CardFails
    BY <1>3 DEF CardFails, Stop, TypeInv
<1>4. CASE PlaceFile
    <2>1. CASE \E r \in {"find", "large"} : Stop(r)
        BY <1>4, <2>1 DEF PlaceFile, Stop, TypeInv
    <2>2. CASE left' = entry.size /\ fent' = [file |-> entry, loc |-> segment] /\ pc' = "read"
               /\ UNCHANGED <<entry, segment, rom, ram, written>>
        <3>1. entry \in Files /\ ~Full(entry) /\ entry.size \in Nat
            BY <1>4 DEF PlaceFile, TypeInv, Rules, FileAssumption
        <3>2. fent' \in Fent /\ fent'.file = entry
            BY <2>2, <3>1 DEF Fent, TypeInv
        <3> QED
            BY <1>4, <2>2, <3>1, <3>2 DEF PlaceFile, TypeInv, Full
    <2> QED
        BY <1>4, <2>1, <2>2 DEF PlaceFile
<1>5. CASE ReadFile
    <2>1. left' = left - Turn /\ segment' = Add16(segment, Turn \div Para)
          /\ UNCHANGED <<pc, entry, fent, rom, ram, exec, chosen, seen>>
        BY <1>5 DEF ReadFile
    <2>2. left \in Nat /\ segment \in Location /\ segment \in Nat
        BY DEF TypeInv, Location
    <2>3. Turn \in Nat /\ Turn <= left /\ Para \in Nat \ {0}
        BY <2>2, Turns DEF Rules, SectorAssumption
    <2>4. Turn \div Para \in Nat
        BY <2>3, DivMod
    <2>5. segment' \in Location /\ left' \in Nat
        BY <2>1, <2>2, <2>3, <2>4, Add16Type
    <2> QED
        BY <2>1, <2>5 DEF TypeInv, Full
<1>6. CASE FinishFile
    <2>1. pc = "read" /\ entry \in Files /\ ~Full(entry) /\ fent \in Fent
        BY <1>6 DEF FinishFile, TypeInv
    <2>2. segment' \in Location
        <3>1. fent.loc \in Nat /\ segment \in Location
            BY <2>1 DEF Fent, Location, TypeInv
        <3>2. Add16(fent.loc, Sectors(entry) * Sector) \in Location /\ Aligned(segment) \in Location
            BY <2>1, <3>1, SectorsNat, Add16Type, AlignedType
        <3> QED
            BY <1>6, <3>2 DEF FinishFile
    <2>3. rom' \in Seq(Fent) /\ Len(rom') <= RomMax /\ ram' \in Seq(Fent) /\ Len(ram') <= RamMax
        <3>1. CASE entry.ram
            <4>1. ram' = Append(ram, fent) /\ rom' = rom /\ Len(ram) < RamMax
                BY <1>1, <1>6, <2>1, <3>1 DEF FinishFile, Full, TypeInv
            <4> QED
                BY <1>1, <2>1, <4>1, AppendType DEF TypeInv
        <3>2. CASE ~entry.ram
            <4>1. rom' = Append(rom, fent) /\ ram' = ram /\ Len(rom) < RomMax
                BY <1>1, <1>6, <2>1, <3>2 DEF FinishFile, Full, TypeInv
            <4> QED
                BY <1>1, <2>1, <4>1, AppendType DEF TypeInv
        <3> QED
            BY <3>1, <3>2
    <2>4. pc' = "find" /\ UNCHANGED <<entry, left, exec, chosen, seen>>
        BY <1>6, Zenon DEF FinishFile
    <2> QED
        BY <2>2, <2>3, <2>4 DEF TypeInv
<1>7. CASE Done
    BY <1>7 DEF Done, Stop, TypeInv
<1>8. CASE UNCHANGED vars
    BY <1>8 DEF vars, TypeInv, Full
<1> QED
    BY <1>2, <1>3, <1>4, <1>5, <1>6, <1>7, <1>8 DEF Next

-----------------------------------------------------------------------------
(* The image *)

HeldTo(e, s) == \A t \in Nat : e.loc <= t /\ t < s => written[t] = e.file.name
End(e)       == e.loc + Segments(e.file)

(* The file that is being read lies at a sector and ends before the OS, and *)
(* as much of it is left as has not been read.                              *)
ReadInv ==
    /\ FilesAt <= fent.loc /\ fent.loc <= segment /\ Whole(fent.loc) /\ End(fent) <= OsSegment
    /\ left > 0 => left = entry.size - (segment - fent.loc) * Para /\ HeldTo(fent, segment)
    /\ left = 0 => segment = fent.loc + (entry.size \div Para) /\ HeldTo(fent, End(fent))

(* Where the files that are finished end.                                   *)
Limit   == IF pc = "read" THEN fent.loc ELSE segment
Kept(e) == FilesAt <= e.loc /\ End(e) <= Limit /\ HeldTo(e, End(e))

ImageInv ==
    /\ DOMAIN written = Location
    /\ OsKept
    /\ segment \in FilesAt..OsSegment
    /\ pc \in {"find", "place"} => Whole(segment)
    /\ pc = "read" => ReadInv
    /\ \A i \in 1..Len(rom) : Kept(rom[i])
    /\ \A i \in 1..Len(ram) : Kept(ram[i])

(* Until it is in the directory, the chosen file is the one being added.    *)
Chosen ==
    \/ exec < Len(rom) /\ rom[exec + 1].file = chosen
    \/ pc \in {"place", "read"} /\ entry = chosen /\ ~entry.ram /\ ~Skipped(entry) /\ exec = Len(rom)
    \/ pc \in {"memory", "large", "card"}

ChosenInv ==
    /\ chosen # NoFile => Chosen
    /\ pc = "ok" => chosen # NoFile

LEMMA ImageInit == ASSUME Rules, Init PROVE ImageInv
<1>1. OsKept
    BY Layout DEF Init, OsKept, Location
<1>2. segment \in FilesAt..OsSegment /\ Whole(segment) /\ DOMAIN written = Location
    BY Layout DEF Init, Location
<1>3. pc = "find" /\ Len(rom) = 0 /\ Len(ram) = 0
    BY DEF Init
<1> QED
    BY <1>1, <1>2, <1>3 DEF ImageInv

(* A segment of what is left of the file, or of what has been read.         *)
LEMMA LeftOver ==
    ASSUME Rules, TypeInv, ImageInv, pc = "read", left > 0, NEW s \in Nat, segment <= s
    PROVE  s < End(fent) <=> (s - segment) * Para < left
<1> DEFINE n == s - fent.loc
           d == segment - fent.loc
<1>1. fent.loc \in Nat /\ fent.loc <= segment /\ segment \in Nat /\ entry \in Files /\ fent.file = entry
    BY DEF TypeInv, ImageInv, ReadInv, Fent, Location
<1>2. left = entry.size - d * Para /\ Para \in Nat \ {0} /\ entry.size \in Nat
    BY <1>1 DEF ImageInv, ReadInv, Rules, SectorAssumption, FileAssumption
<1>3. n \in Nat /\ d \in Nat /\ s - segment = n - d
    BY <1>1
<1>4. (n < Segments(entry) <=> n * Para < entry.size) /\ Segments(entry) \in Nat
    BY <1>1, <1>3, InSegments
<1>5. s < End(fent) <=> n < Segments(entry)
    BY <1>1, <1>4 DEF End
<1> HIDE DEF n, d
<1>6. (n - d) * Para = n * Para - d * Para /\ n * Para \in Int /\ d * Para \in Int
    BY <1>2, <1>3
<1> QED
    BY <1>2, <1>3, <1>4, <1>5, <1>6

(* A turn writes segments of the file that come next, and no others.        *)
LEMMA TurnWrites ==
    ASSUME Rules, TypeInv, ImageInv, ReadFile
    PROVE  /\ DOMAIN written' = Location
           /\ \A s \in Location : s < segment \/ s >= OsSegment => written'[s] = written[s]
           /\ \A s \in Location : s >= segment /\ (s - segment) * Para < Turn =>
                written'[s] = fent.file.name
<1>1. pc = "read" /\ left > 0 /\ left \in Nat /\ segment \in Location /\ segment \in Nat
    BY DEF ReadFile, TypeInv, Location
<1>2. written' = [s \in Location |-> IF s >= segment /\ (s - segment) * Para < Turn
                                     THEN entry.name ELSE written[s]]
    BY DEF ReadFile, ImageInv
<1>3. ASSUME NEW s \in Location, s >= segment, (s - segment) * Para < Turn PROVE s < OsSegment
    <2>1. s \in Nat /\ Para \in Nat /\ Turn \in Nat /\ Turn <= left
        BY <1>1, Turns DEF Location, Rules, SectorAssumption
    <2>2. (s - segment) * Para < left
        <3> DEFINE p == (s - segment) * Para
        <3>1. p \in Int
            BY <1>1, <2>1
        <3> HIDE DEF p
        <3>2. p < Turn => p < left
            BY <1>1, <2>1, <3>1
        <3> QED
            BY <1>3, <3>2 DEF p
    <2>3. s < End(fent)
        BY <1>1, <1>3, <2>1, <2>2, LeftOver
    <2>4. End(fent) <= OsSegment /\ End(fent) \in Int /\ OsSegment \in Nat
        <3>1. fent.loc \in Nat /\ fent.file \in Files
            BY <1>1 DEF TypeInv, Fent, Location
        <3> QED
            BY <1>1, <3>1, InSegments, Layout DEF ImageInv, ReadInv, End
    <2> QED
        BY <2>1, <2>3, <2>4
<1>4. fent.file = entry
    BY <1>1 DEF TypeInv
<1>5. OsSegment \in Nat
    BY Layout
<1>6. \A s \in Location : s < segment => ~(s >= segment)
    BY <1>1 DEF Location
<1>7. \A s \in Location : s >= OsSegment => ~(s < OsSegment)
    BY <1>5 DEF Location
<1> HIDE DEF Turn
<1> QED
    BY <1>2, <1>3, <1>4, <1>6, <1>7

(* How far a turn gets: as many segments as it reads whole, or to the end.  *)
LEMMA TurnEnds ==
    ASSUME Rules, TypeInv, ImageInv, ReadFile
    PROVE  /\ segment' \in segment..OsSegment
           /\ left' > 0 => /\ left' = entry.size - (segment' - fent.loc) * Para
                           /\ Turn = (segment' - segment) * Para
           /\ left' = 0 => segment' = fent.loc + (entry.size \div Para) /\ Turn = left
<1> DEFINE d == segment - fent.loc
           q == Turn \div Para
<1>1. pc = "read" /\ left > 0 /\ left \in Nat /\ segment \in Location /\ segment \in Nat
    BY DEF ReadFile, TypeInv, Location
<1>2. /\ fent.loc \in Nat /\ fent.loc <= segment /\ entry \in Files /\ fent.file = entry
      /\ End(fent) <= OsSegment
    BY <1>1 DEF TypeInv, ImageInv, ReadInv, Fent, Location
<1>3. /\ left = entry.size - d * Para /\ Para \in Nat \ {0} /\ entry.size \in Nat /\ d \in Nat
      /\ OsSegment \in Nat /\ OsSegment < Word /\ Word \in Nat
    BY <1>1, <1>2, Layout DEF ImageInv, ReadInv, Rules, SectorAssumption, FileAssumption
<1>4. Turn \in Nat /\ Turn <= left /\ (Turn = left \/ \E k \in Nat : Turn = k * Para)
    BY <1>1, Turns
<1>5. left' = left - Turn /\ segment' = Add16(segment, q)
    BY DEF ReadFile
<1>6. q \in Nat /\ q * Para <= Turn
    <2>1. q \in Nat /\ Turn % Para \in 0..(Para - 1) /\ Turn = Para * q + (Turn % Para)
        BY <1>3, <1>4, DivMod
    <2> HIDE DEF q
    <2>2. q * Para = Para * q /\ Para * q \in Nat
        BY <1>3, <2>1
    <2>3. Turn % Para \in Nat
        BY <1>3, <2>1
    <2> QED
        BY <1>4, <2>1, <2>2, <2>3
<1>7. segment + q <= OsSegment
    <2> DEFINE n == d + q - 1
    <2>1. CASE q = 0
        BY <1>1, <1>3, <2>1 DEF ImageInv
    <2>2. CASE q > 0
        <3>1. segment + q - 1 \in Nat /\ segment <= segment + q - 1
              /\ (segment + q - 1) - segment = q - 1
            BY <1>1, <1>6, <2>2
        <3>2. (q - 1) * Para < left
            <4> HIDE DEF q
            <4>1. (q - 1) * Para = q * Para - Para /\ q * Para \in Int
                BY <1>3, <1>6
            <4> QED
                BY <1>1, <1>3, <1>4, <1>6, <4>1
        <3>3. segment + q - 1 < End(fent)
            BY <1>1, <3>1, <3>2, LeftOver
        <3>4. End(fent) \in Int
            BY <1>2, InSegments DEF End
        <3> QED
            BY <1>1, <1>2, <1>3, <1>6, <3>3, <3>4
    <2> QED
        BY <1>6, <2>1, <2>2
<1>8. segment' = segment + q
    BY <1>1, <1>3, <1>5, <1>6, <1>7, Add16Type
<1>9. ASSUME left' > 0
      PROVE  left' = entry.size - (segment' - fent.loc) * Para /\ Turn = (segment' - segment) * Para
    <2>1. PICK k \in Nat : Turn = k * Para
        BY <1>1, <1>4, <1>5, <1>9
    <2>2. q = k
        BY <2>1, QuotientOf
    <2>3. segment' - segment = k /\ segment' - fent.loc = d + k
        BY <1>1, <1>2, <1>8, <2>1, <2>2
    <2>4. (d + k) * Para = d * Para + k * Para /\ d * Para \in Int /\ k * Para \in Int
        BY <1>3, <2>1
    <2> QED
        BY <1>3, <1>5, <2>1, <2>3, <2>4
<1>10. ASSUME left' = 0 PROVE segment' = fent.loc + (entry.size \div Para) /\ Turn = left
    <2>1. Turn = left
        BY <1>1, <1>4, <1>5, <1>10
    <2>2. entry.size = d * Para + left /\ d * Para \in Int
        BY <1>1, <1>3
    <2>3. entry.size \div Para = d + q
        BY <1>1, <1>3, <2>1, <2>2, QuotientSum
    <2> QED
        BY <1>1, <1>2, <1>3, <1>6, <1>8, <2>1, <2>3
<1> QED
    BY <1>1, <1>3, <1>6, <1>7, <1>8, <1>9, <1>10

(* A file that is kept stays kept where nothing of it is written.           *)
LEMMA StaysKept ==
    ASSUME Rules, NEW e \in Fent, Kept(e), Limit' >= Limit, Limit \in Location, Limit' \in Location,
           \A s \in Location : s < Limit => written'[s] = written[s]
    PROVE  Kept(e)'
<1>1. e.loc \in Nat /\ Segments(e.file) \in Nat /\ Limit \in Nat /\ Limit' \in Nat
    BY InSegments DEF Fent, Location
<1>2. End(e) <= Limit' /\ End(e)' = End(e) /\ FilesAt <= e.loc
    BY <1>1 DEF Kept, End
<1>3. ASSUME NEW t \in Nat, e.loc <= t, t < End(e) PROVE written'[t] = e.file.name
    <2>1. t \in Location /\ t < Limit
        <3>1. Word \in Nat /\ FilesAt \in Nat
            BY Layout
        <3> HIDE DEF Limit
        <3> QED
            BY <1>1, <1>3, <3>1 DEF Kept, End, Location
    <2> QED
        BY <1>3, <2>1 DEF Kept, HeldTo
<1> HIDE DEF Limit, End
<1> QED
    BY <1>2, <1>3 DEF Kept, HeldTo

LEMMA EntryTypes ==
    ASSUME TypeInv
    PROVE  (\A i \in 1..Len(rom) : rom[i] \in Fent) /\ (\A i \in 1..Len(ram) : ram[i] \in Fent)
BY DEF TypeInv

LEMMA LimitType ==
    ASSUME Rules, TypeInv, ImageInv
    PROVE  Limit \in Location /\ Limit <= segment /\ segment \in Nat
<1>1. segment \in Nat /\ (pc = "read" => fent.loc \in Location /\ fent.loc <= segment)
    BY DEF TypeInv, ImageInv, ReadInv, Fent, Location
<1> QED
    BY <1>1 DEF Limit, TypeInv

LEMMA ReadKeeps ==
    ASSUME Rules, TypeInv, ImageInv, TypeInv', ReadFile PROVE ImageInv'
<1>1. pc = "read" /\ pc' = "read" /\ left > 0 /\ UNCHANGED <<entry, fent, rom, ram>>
    BY DEF ReadFile
<1>2. segment \in Nat /\ left \in Nat /\ left' \in Nat /\ fent \in Fent /\ fent.file = entry /\ entry \in Files
    BY <1>1 DEF TypeInv, Location
<1>3. fent.loc \in Nat /\ FilesAt <= fent.loc /\ fent.loc <= segment /\ End(fent) <= OsSegment
      /\ Whole(fent.loc) /\ HeldTo(fent, segment)
    BY <1>1, <1>2 DEF ImageInv, ReadInv, Fent, Location
<1>4. /\ segment' \in segment..OsSegment
      /\ left' > 0 => /\ left' = entry.size - (segment' - fent.loc) * Para
                      /\ Turn = (segment' - segment) * Para
      /\ left' = 0 => segment' = fent.loc + (entry.size \div Para) /\ Turn = left
    BY TurnEnds
<1>5. /\ DOMAIN written' = Location
      /\ \A s \in Location : s < segment \/ s >= OsSegment => written'[s] = written[s]
      /\ \A s \in Location : s >= segment /\ (s - segment) * Para < Turn => written'[s] = fent.file.name
    BY TurnWrites
<1>6. /\ FilesAt \in Nat /\ OsSegment \in Nat /\ Word \in Nat /\ OsSegment < Word
      /\ Para \in Nat \ {0} /\ Segments(fent.file) \in Nat
    BY <1>2, Layout, InSegments DEF Rules, SectorAssumption
<1>7. OsKept'
    <2> SUFFICES ASSUME NEW s \in Location, s \notin FilesAt..(OsSegment - 1)
                 PROVE  written'[s] = Begin(s)
        BY <1>5 DEF OsKept, Begin, FilesAt
    <2>1. s < segment \/ s >= OsSegment
        BY <1>2, <1>3, <1>6 DEF Location
    <2>2. written[s] = Begin(s)
        BY DEF OsKept, ImageInv
    <2> QED
        BY <1>5, <2>1, <2>2
<1>8. segment' \in FilesAt..OsSegment
    BY <1>2, <1>3, <1>4, <1>6
<1>9. ASSUME NEW s \in Nat, fent.loc <= s, s < segment PROVE written'[s] = fent.file.name
    <2>1. s \in Location
        BY <1>2, <1>6, <1>9 DEF ImageInv, Location
    <2> QED
        BY <1>3, <1>5, <1>9, <2>1 DEF HeldTo
<1>10. ASSUME left' > 0, NEW s \in Nat, fent.loc <= s, s < segment' PROVE written'[s] = fent.file.name
    <2>1. CASE s < segment
        BY <1>9, <1>10, <2>1
    <2>2. CASE s >= segment
        <3>1. segment' \in Nat /\ segment' <= OsSegment
            BY <1>2, <1>4, <1>6
        <3>2. s \in Location
            BY <1>6, <1>10, <3>1 DEF Location
        <3>3. (s - segment) * Para < (segment' - segment) * Para
            BY <1>2, <1>6, <1>10, <2>2, <3>1, Before
        <3>4. (s - segment) * Para < Turn
            BY <1>4, <1>10, <3>3
        <3> QED
            BY <1>5, <2>2, <3>2, <3>4
    <2> QED
        BY <1>2, <2>1, <2>2
<1>11. ASSUME left' = 0, NEW s \in Nat, fent.loc <= s, s < End(fent) PROVE written'[s] = fent.file.name
    <2>1. CASE s < segment
        BY <1>9, <1>11, <2>1
    <2>2. CASE s >= segment
        <3>1. s \in Location
            BY <1>2, <1>3, <1>6, <1>11 DEF End, Location
        <3>2. (s - segment) * Para < left
            BY <1>1, <1>11, <2>2, LeftOver
        <3>3. (s - segment) * Para < Turn
            BY <1>4, <1>11, <3>2
        <3> QED
            BY <1>5, <2>2, <3>1, <3>3
    <2> QED
        BY <1>2, <2>1, <2>2
<1>12. ReadInv'
    <2>1. fent.loc <= segment' /\ End(fent)' = End(fent)
        BY <1>1, <1>2, <1>3, <1>4, <1>6 DEF End
    <2>2. left' > 0 => HeldTo(fent, segment)'
        BY <1>1, <1>10 DEF HeldTo
    <2>3. left' = 0 => HeldTo(fent, End(fent))'
        BY <1>1, <1>11, <2>1 DEF HeldTo
    <2>4. Whole(fent.loc)'
        BY <1>1, <1>3 DEF Whole
    <2>5. fent' = fent /\ entry' = entry
        BY <1>1
    <2> HIDE DEF End
    <2>6. FilesAt <= fent'.loc /\ fent'.loc <= segment' /\ End(fent)' <= OsSegment
        BY <1>3, <2>1, <2>5
    <2> QED
        BY <1>4, <2>2, <2>3, <2>4, <2>5, <2>6 DEF ReadInv
<1>13. Limit \in Location /\ Limit <= segment /\ Limit' = Limit /\ Limit = fent.loc
    BY <1>1, LimitType DEF Limit
<1>14. \A s \in Location : s < Limit => written'[s] = written[s]
    BY <1>2, <1>3, <1>5, <1>13 DEF Location
<1>15. \A e \in Fent : Kept(e) => Kept(e)'
    BY <1>2, <1>3, <1>13, <1>14, StaysKept
<1>16. \A i \in 1..Len(rom) : Kept(rom[i])'
    BY <1>1, <1>15, EntryTypes DEF ImageInv
<1>17. \A i \in 1..Len(ram) : Kept(ram[i])'
    BY <1>1, <1>15, EntryTypes DEF ImageInv
<1> QED
    BY <1>1, <1>5, <1>7, <1>8, <1>12, <1>16, <1>17 DEF ImageInv

LEMMA PlaceKeeps ==
    ASSUME Rules, TypeInv, ImageInv, TypeInv', PlaceFile PROVE ImageInv'
<1>1. pc = "place" /\ entry \in Files /\ segment \in FilesAt..OsSegment /\ Whole(segment)
    BY DEF PlaceFile, TypeInv, ImageInv
<1>2. Limit = segment /\ UNCHANGED <<segment, written, rom, ram>> /\ Limit' = segment
    <2>1. UNCHANGED <<segment, written, rom, ram>> /\ (pc' = "read" => fent'.loc = segment)
        BY DEF PlaceFile, Stop
    <2> QED
        BY <1>1, <2>1 DEF Limit
<1>3. OsKept' /\ DOMAIN written' = Location
    BY <1>2 DEF ImageInv, OsKept, Begin, FilesAt
<1>4. (\A i \in 1..Len(rom) : Kept(rom[i])') /\ (\A i \in 1..Len(ram) : Kept(ram[i])')
    BY <1>2 DEF ImageInv, Kept, HeldTo, End
<1>5. Whole(segment)'
    BY <1>1, <1>2 DEF Whole
<1>6. ASSUME pc' = "read" PROVE ReadInv'
    <2>1. /\ entry.size <= FreeSize /\ left' = entry.size /\ fent' = [file |-> entry, loc |-> segment]
          /\ entry' = entry
        BY <1>6 DEF PlaceFile, Stop
    <2>2. /\ FilesAt \in Nat /\ OsSegment \in Nat /\ Word \in Nat /\ OsSegment < Word /\ segment \in Nat
          /\ Para \in Nat \ {0} /\ Segments(entry) \in Nat /\ entry.size \in Nat
        BY <1>1, Layout, InSegments DEF Rules, SectorAssumption, FileAssumption
    <2>3. FreeSize = (OsSegment - segment) * Para
        <3> DEFINE n == OsSegment - segment
        <3>1. n \in Nat /\ n \in 0..(Word - 1) /\ n = Word * 0 + n /\ Word \in Nat \ {0}
            BY <1>1, <2>2
        <3> HIDE DEF n
        <3>2. n % Word = n
            BY <3>1, Divided
        <3> QED
            BY <3>2 DEF FreeSize, n
    <2>4. Segments(entry) <= OsSegment - segment
        <3> DEFINE n == OsSegment - segment
        <3>1. n \in Nat
            BY <1>1, <2>2
        <3>2. ~(n * Para < entry.size)
            <4> HIDE DEF n
            <4>1. n * Para \in Nat
                BY <2>2, <3>1
            <4> QED
                BY <2>1, <2>2, <2>3, <4>1 DEF n
        <3>3. ~(n < Segments(entry))
            BY <1>1, <3>1, <3>2, InSegments
        <3> QED
            BY <2>2, <3>1, <3>3
    <2>5. End(fent)' = segment + Segments(entry) /\ fent'.loc = segment /\ End(fent)' <= OsSegment
        BY <1>1, <2>1, <2>2, <2>4 DEF End
    <2>6. HeldTo(fent, segment)' /\ left' = entry'.size - (segment' - fent'.loc) * Para
        <3>1. (segment' - fent'.loc) = 0 /\ 0 * Para = 0
            BY <1>2, <2>2, <2>5
        <3> QED
            BY <1>2, <2>1, <2>2, <2>5, <3>1 DEF HeldTo
    <2>7. ASSUME left' = 0
          PROVE  segment' = fent'.loc + (entry'.size \div Para) /\ HeldTo(fent, End(fent))'
        <3>1. entry.size = 0 /\ 0 \div Para = 0 /\ 0 * Para = 0
            BY <2>1, <2>2, <2>7, Divided
        <3>2. ~(0 < Segments(entry))
            BY <1>1, <3>1, InSegments
        <3>3. End(fent)' = segment
            BY <2>2, <2>5, <3>2
        <3> QED
            BY <1>2, <2>1, <2>2, <2>5, <3>1, <3>3 DEF HeldTo
    <2>8. FilesAt <= fent'.loc /\ fent'.loc <= segment' /\ Whole(fent.loc)'
        BY <1>1, <1>2, <2>2, <2>5 DEF Whole
    <2> QED
        BY <2>5, <2>6, <2>7, <2>8 DEF ReadInv
<1> QED
    BY <1>1, <1>2, <1>3, <1>4, <1>5, <1>6 DEF ImageInv

(* The next file starts at the first sector behind this one.                *)
LEMMA NextSector ==
    ASSUME Rules, HonestHeaders, TypeInv, ImageInv, FinishFile
    PROVE  /\ segment' = fent.loc + RoundUp(Segments(entry))
           /\ segment' <= OsSegment /\ Whole(segment') /\ End(fent) <= segment'
<1> DEFINE n == Segments(entry)
           c == RoundUp(n)
           q == entry.size \div Para
<1>1. pc = "read" /\ left = 0 /\ entry \in Files /\ fent.file = entry /\ fent.loc \in Nat /\ segment \in Location
    BY DEF FinishFile, TypeInv, Fent, Location
<1>2. /\ FilesAt <= fent.loc /\ Whole(fent.loc) /\ fent.loc + n <= OsSegment /\ segment = fent.loc + q
      /\ segment \in Nat
    BY <1>1 DEF ImageInv, ReadInv, End, Location
<1>3. /\ FilesAt \in Nat /\ OsSegment \in Nat /\ Word \in Nat /\ OsSegment < Word /\ Whole(OsSegment)
      /\ n \in Nat /\ Para \in Nat \ {0} /\ entry.size \in Nat
    BY <1>1, Layout, InSegments DEF Rules, SectorAssumption, FileAssumption
<1>4. q <= n /\ q \in Nat
    <2>1. q \in Nat /\ entry.size % Para \in 0..(Para - 1) /\ entry.size = Para * q + (entry.size % Para)
        BY <1>3, DivMod
    <2> DEFINE m == entry.size % Para
    <2> HIDE DEF q, m
    <2>2. n * Para >= entry.size /\ n * Para = Para * n
        <3>1. ~(n < n) /\ n * Para \in Nat
            BY <1>3
        <3>2. ~(n * Para < entry.size)
            BY <1>1, <1>3, <3>1, InSegments
        <3> QED
            BY <1>3, <3>1, <3>2
    <2>3. n < q => Para * n + Para <= Para * q
        BY <1>3, <2>1, TimesMono
    <2>4. m \in Nat /\ entry.size = Para * q + m /\ Para * n \in Nat /\ Para * q \in Nat
        BY <1>3, <2>1 DEF m
    <2> QED
        BY <1>3, <2>1, <2>2, <2>3, <2>4
<1>5. c \in Nat /\ n <= c /\ Whole(c)
    BY <1>3, Rounded DEF Rules
<1>6. Sectors(entry) * Sector = c
    BY <1>1, HonestSectors
<1> HIDE DEF n, c, q
<1>7. fent.loc + c <= OsSegment
    <2>1. Whole(OsSegment - fent.loc)
        <3>1. PICK k \in Int : OsSegment = k * Sector
            BY <1>3 DEF Whole
        <3>2. PICK l \in Int : fent.loc = l * Sector
            BY <1>2 DEF Whole
        <3>3. (k - l) * Sector = k * Sector - l * Sector /\ k - l \in Int
            BY <3>1, <3>2 DEF Rules, SectorAssumption
        <3>4. OsSegment - fent.loc = (k - l) * Sector
            BY <3>1, <3>2, <3>3
        <3> QED
            BY <3>3, <3>4 DEF Whole
    <2>2. OsSegment - fent.loc \in Nat /\ n <= OsSegment - fent.loc
        BY <1>1, <1>2, <1>3
    <2>3. c <= OsSegment - fent.loc
        BY <1>3, <2>1, <2>2, Rounded DEF Rules, c
    <2> QED
        BY <1>1, <1>3, <1>5, <2>3
<1>8. Whole(fent.loc + c) /\ fent.loc + c \in Nat
    BY <1>1, <1>2, <1>5, WholeSum DEF Rules
<1>9. Add16(fent.loc, c) = fent.loc + c
    BY <1>1, <1>3, <1>5, <1>7, Add16Type
<1>10. Aligned(segment) <= fent.loc + c /\ Aligned(segment) \in Nat
    <2>1. segment <= fent.loc + c
        BY <1>1, <1>2, <1>3, <1>4, <1>5
    <2>2. RoundUp(segment) <= fent.loc + c /\ RoundUp(segment) \in Nat
        BY <1>2, <1>8, <2>1, Rounded DEF Rules
    <2>3. RoundUp(segment) < Word
        BY <1>3, <1>7, <1>8, <2>2
    <2> QED
        BY <1>1, <2>2, <2>3, AlignedType
<1>11. segment' = fent.loc + c
    <2>1. segment' = IF Aligned(segment) < Add16(fent.loc, c) THEN Add16(fent.loc, c) ELSE Aligned(segment)
        BY <1>6 DEF FinishFile
    <2> QED
        BY <1>8, <1>9, <1>10, <2>1
<1>12. End(fent) <= segment'
    BY <1>1, <1>3, <1>5, <1>11 DEF End, n
<1> QED
    BY <1>7, <1>8, <1>11, <1>12 DEF c, n

LEMMA FinishKeeps ==
    ASSUME Rules, HonestHeaders, TypeInv, ImageInv, TypeInv', FinishFile PROVE ImageInv'
<1>1. pc = "read" /\ left = 0 /\ pc' = "find" /\ written' = written /\ fent \in Fent /\ fent.file = entry
    BY DEF FinishFile, TypeInv
<1>2. segment' <= OsSegment /\ Whole(segment)' /\ End(fent) <= segment' /\ segment' \in Nat
    BY NextSector DEF Whole, TypeInv, Location
<1>3. Limit = fent.loc /\ Limit' = segment' /\ FilesAt <= fent.loc /\ HeldTo(fent, End(fent))
      /\ fent.loc \in Nat
    BY <1>1 DEF Limit, ImageInv, ReadInv, Fent, Location
<1>4. fent.loc <= End(fent) /\ End(fent) \in Nat /\ FilesAt \in Nat /\ OsSegment \in Nat
    BY <1>1, <1>3, InSegments, Layout DEF End, Fent
<1>5. Limit' >= Limit /\ Limit \in Location /\ Limit' \in Location
    BY <1>2, <1>3, <1>4, LimitType DEF TypeInv
<1>6. \A e \in Fent : Kept(e) => Kept(e)'
    BY <1>1, <1>5, StaysKept
<1>7. ASSUME NEW e \in Fent, e = fent PROVE Kept(e)'
    <2>1. End(e)' = End(e) /\ End(e) <= Limit' /\ FilesAt <= e.loc
        BY <1>2, <1>3, <1>7 DEF End
    <2>2. HeldTo(e, End(e))'
        BY <1>1, <1>3, <1>7, <2>1 DEF HeldTo
    <2> HIDE DEF Limit, End
    <2> QED
        BY <2>1, <2>2 DEF Kept
<1>8. ASSUME NEW i \in 1..Len(rom'), NEW e \in Fent, e = rom'[i] PROVE Kept(e)'
    <2>1. CASE rom' = rom
        BY <1>6, <1>8, <2>1 DEF ImageInv
    <2>2. CASE rom' = Append(rom, fent)
        <3>1. (i \in 1..Len(rom) /\ e = rom[i]) \/ e = fent
            BY <1>1, <1>8, <2>2, AppendType DEF TypeInv
        <3> QED
            BY <1>6, <1>7, <3>1 DEF ImageInv
    <2> QED
        BY <2>1, <2>2 DEF FinishFile
<1>9. ASSUME NEW i \in 1..Len(ram'), NEW e \in Fent, e = ram'[i] PROVE Kept(e)'
    <2>1. CASE ram' = ram
        BY <1>6, <1>9, <2>1 DEF ImageInv
    <2>2. CASE ram' = Append(ram, fent)
        <3>1. (i \in 1..Len(ram) /\ e = ram[i]) \/ e = fent
            BY <1>1, <1>9, <2>2, AppendType DEF TypeInv
        <3> QED
            BY <1>6, <1>7, <3>1 DEF ImageInv
    <2> QED
        BY <2>1, <2>2 DEF FinishFile
<1>10. (\A i \in 1..Len(rom) : Kept(rom[i]))' /\ (\A i \in 1..Len(ram) : Kept(ram[i]))'
    <2>1. ASSUME NEW i \in 1..Len(rom') PROVE Kept(rom[i])'
        <3>1. PICK e \in Fent : e = rom'[i]
            BY DEF TypeInv
        <3>2. Kept(e)'
            BY <1>8, <3>1
        <3> HIDE DEF Limit
        <3> QED
            BY <3>1, <3>2 DEF Kept, HeldTo, End
    <2>2. ASSUME NEW i \in 1..Len(ram') PROVE Kept(ram[i])'
        <3>1. PICK e \in Fent : e = ram'[i]
            BY DEF TypeInv
        <3>2. Kept(e)'
            BY <1>9, <3>1
        <3> HIDE DEF Limit
        <3> QED
            BY <3>1, <3>2 DEF Kept, HeldTo, End
    <2> QED
        BY <2>1, <2>2
<1>11. OsKept' /\ DOMAIN written' = Location /\ segment' \in FilesAt..OsSegment
    BY <1>1, <1>2, <1>3, <1>4 DEF ImageInv, OsKept, Begin, FilesAt
<1> QED
    BY <1>1, <1>2, <1>10, <1>11 DEF ImageInv

LEMMA ImageStep ==
    ASSUME Rules, HonestHeaders, TypeInv, ImageInv, [Next]_vars PROVE ImageInv'
<1>1. TypeInv'
    BY TypeStep
<1>2. CASE ReadFile
    BY <1>1, <1>2, ReadKeeps
<1>3. CASE PlaceFile
    BY <1>1, <1>3, PlaceKeeps
<1>4. CASE FinishFile
    BY <1>1, <1>4, FinishKeeps
<1>5. CASE FindFile \/ CardFails \/ Done \/ UNCHANGED vars
    <2>1. /\ UNCHANGED <<written, segment, rom, ram, fent>>
          /\ UNCHANGED <<pc, left, entry>> \/ (pc = "find" /\ pc' # "read") \/ pc' = "card"
        <3>1. CASE FindFile
            BY <3>1 DEF FindFile, Stop
        <3>2. CASE CardFails
            BY <3>2 DEF CardFails, Stop
        <3>3. CASE Done
            BY <3>3 DEF Done, Stop
        <3>4. CASE UNCHANGED vars
            BY <3>4 DEF vars
        <3> QED
            BY <1>5, <3>1, <3>2, <3>3, <3>4
    <2>2. Limit \in Nat /\ Limit' \in Nat /\ Limit' >= Limit
        <3>1. Limit \in Location /\ Limit <= segment /\ segment \in Location /\ Limit \in Nat /\ segment \in Nat
            BY LimitType DEF TypeInv, Location
        <3>2. Limit' = Limit \/ Limit' = segment
            BY <2>1 DEF Limit
        <3> QED
            BY <3>1, <3>2
    <2>3. ASSUME NEW e \in Fent, Kept(e) PROVE Kept(e)'
        <3>1. End(e) \in Nat /\ FilesAt <= e.loc /\ End(e) <= Limit /\ HeldTo(e, End(e))
            BY <2>3, InSegments DEF Kept, End, Fent, Location
        <3>2. End(e)' = End(e) /\ HeldTo(e, End(e))'
            BY <2>1, <3>1 DEF HeldTo, End
        <3>3. End(e) <= Limit'
            BY <2>2, <3>1
        <3> HIDE DEF Limit, End
        <3> QED
            BY <3>1, <3>2, <3>3 DEF Kept
    <2>4. (\A i \in 1..Len(rom) : Kept(rom[i]))' /\ (\A i \in 1..Len(ram) : Kept(ram[i]))'
        <3>1. ASSUME NEW i \in 1..Len(rom') PROVE Kept(rom[i])'
            <4>1. i \in 1..Len(rom) /\ rom[i] \in Fent /\ Kept(rom[i])
                BY <2>1, EntryTypes DEF ImageInv
            <4>2. PICK e \in Fent : e = rom[i] /\ e = rom'[i]
                BY <2>1, <4>1
            <4>3. Kept(e)'
                BY <2>3, <4>1, <4>2
            <4> HIDE DEF Limit
            <4> QED
                BY <4>2, <4>3 DEF Kept, HeldTo, End
        <3>2. ASSUME NEW i \in 1..Len(ram') PROVE Kept(ram[i])'
            <4>1. i \in 1..Len(ram) /\ ram[i] \in Fent /\ Kept(ram[i])
                BY <2>1, EntryTypes DEF ImageInv
            <4>2. PICK e \in Fent : e = ram[i] /\ e = ram'[i]
                BY <2>1, <4>1
            <4>3. Kept(e)'
                BY <2>3, <4>1, <4>2
            <4> HIDE DEF Limit
            <4> QED
                BY <4>2, <4>3 DEF Kept, HeldTo, End
        <3> QED
            BY <3>1, <3>2
    <2>5. OsKept' /\ DOMAIN written' = Location /\ segment' \in FilesAt..OsSegment
        BY <2>1 DEF ImageInv, OsKept, Begin, FilesAt
    <2>6. (pc \in {"find", "place"} => Whole(segment))'
        BY <2>1 DEF ImageInv, Whole
    <2>7. (pc = "read" => ReadInv)'
        BY <2>1 DEF ImageInv, ReadInv, HeldTo, End, Whole
    <2> QED
        BY <2>4, <2>5, <2>6, <2>7 DEF ImageInv
<1> QED
    BY <1>2, <1>3, <1>4, <1>5 DEF Next

-----------------------------------------------------------------------------
(* The chosen file *)

LEMMA ChosenStep ==
    ASSUME Rules, ~SkipChosen, TypeInv, ChosenInv, [Next]_vars PROVE ChosenInv'
<1>1. CASE FindFile
    <2>1. PICK f \in Files, b \in BOOLEAN :
            /\ b => ~f.ram /\ chosen = NoFile
            /\ b => ~Skipped(f)
            /\ chosen' = IF b THEN f ELSE chosen
            /\ exec' = IF b /\ ~Full(f) THEN Len(rom) ELSE exec
            /\ IF Full(f) THEN Stop("memory")
               ELSE /\ entry' = f
                    /\ pc' = "place"
                    /\ UNCHANGED <<fent, left, segment, rom, ram, written>>
        BY <1>1, Zenon DEF FindFile
    <2>2. CASE Full(f)
        BY <2>1, <2>2 DEF Stop, ChosenInv, Chosen
    <2>3. CASE ~Full(f) /\ b
        <3>1. /\ chosen' = f /\ entry' = f /\ exec' = Len(rom) /\ pc' = "place" /\ ~f.ram /\ ~Skipped(f)
              /\ rom' = rom /\ ram' = ram
            BY <2>1, <2>3
        <3>2. ~Skipped(entry)'
            BY <3>1 DEF Skipped, TooBig, InUse, RomEntries, RamEntries
        <3> QED
            BY <3>1, <3>2 DEF ChosenInv, Chosen
    <2>4. CASE ~Full(f) /\ ~b
        <3>1. chosen' = chosen /\ exec' = exec /\ rom' = rom /\ pc = "find" /\ pc' = "place"
            BY <1>1, <2>1, <2>4 DEF FindFile
        <3> QED
            BY <3>1 DEF ChosenInv, Chosen
    <2> QED
        BY <2>2, <2>3, <2>4
<1>2. CASE CardFails
    BY <1>2 DEF CardFails, Stop, ChosenInv, Chosen
<1>3. CASE PlaceFile
    <2>1. UNCHANGED <<exec, chosen, rom, ram, entry>> /\ pc = "place"
          /\ pc' \in {"find", "large", "read"} /\ (pc' = "find" => Skipped(entry))
        BY <1>3 DEF PlaceFile, Stop
    <2>2. Skipped(entry)' <=> Skipped(entry)
        BY <2>1 DEF Skipped, TooBig, InUse, RomEntries, RamEntries
    <2> QED
        BY <2>1, <2>2 DEF ChosenInv, Chosen
<1>4. CASE ReadFile
    <2>1. UNCHANGED <<pc, exec, chosen, rom, ram, entry>>
        BY <1>4 DEF ReadFile
    <2>2. Skipped(entry)' <=> Skipped(entry)
        BY <2>1 DEF Skipped, TooBig, InUse, RomEntries, RamEntries
    <2> QED
        BY <2>1, <2>2 DEF ChosenInv, Chosen
<1>5. CASE FinishFile
    <2>1. /\ pc = "read" /\ pc' = "find" /\ UNCHANGED <<exec, chosen, entry>> /\ fent \in Fent /\ fent.file = entry
          /\ entry \in Files /\ rom \in Seq(Fent) /\ exec \in Nat
        BY <1>5 DEF FinishFile, TypeInv
    <2>2. CASE entry.ram
        <3>1. rom' = rom
            BY <1>5, <2>2 DEF FinishFile
        <3> QED
            BY <2>1, <2>2, <3>1 DEF ChosenInv, Chosen
    <2>3. CASE ~entry.ram
        <3>1. rom' = Append(rom, fent)
            BY <1>5, <2>3 DEF FinishFile
        <3>2. Len(rom') = Len(rom) + 1 /\ rom'[Len(rom) + 1] = fent /\ Len(rom) \in Nat
              /\ \A i \in 1..Len(rom) : rom'[i] = rom[i]
            BY <2>1, <3>1, AppendType
        <3>3. ASSUME exec < Len(rom), rom[exec + 1].file = chosen
              PROVE  exec < Len(rom') /\ rom'[exec + 1].file = chosen
            BY <2>1, <3>2, <3>3
        <3>4. ASSUME exec = Len(rom), entry = chosen
              PROVE  exec < Len(rom') /\ rom'[exec + 1].file = chosen
            BY <2>1, <3>2, <3>4
        <3> QED
            BY <2>1, <3>3, <3>4 DEF ChosenInv, Chosen
    <2> QED
        BY <2>2, <2>3
<1>6. CASE Done
    BY <1>6 DEF Done, Stop, ChosenInv, Chosen
<1>7. CASE UNCHANGED vars
    <2>1. UNCHANGED <<pc, exec, chosen, rom, ram, entry>>
        BY <1>7 DEF vars
    <2>2. Skipped(entry)' <=> Skipped(entry)
        BY <2>1 DEF Skipped, TooBig, InUse, RomEntries, RamEntries
    <2> QED
        BY <2>1, <2>2 DEF ChosenInv, Chosen
<1> QED
    BY <1>1, <1>2, <1>3, <1>4, <1>5, <1>6, <1>7 DEF Next

(* Every variable of the image's construction keeps its type, whatever the  *)
(* headers claim: the limits of both directories hold, and file_segment     *)
(* stays within 16 bits.                                                    *)
THEOREM TypeCorrect ==
    ASSUME Rules PROVE Spec => []TypeOK
<1>1. Init => TypeInv
    BY TypeInit
<1>2. TypeInv /\ [Next]_vars => TypeInv'
    BY TypeStep
<1>3. TypeInv => TypeOK
    <2> SUFFICES ASSUME TypeInv PROVE TypeOK
        OBVIOUS
    <2>1. \A e \in Entries : e.file \in Files /\ e.loc \in 0..(Word - 1)
        <3>1. \A e \in Entries : e \in Fent
            BY EntryTypes DEF Entries, RomEntries, RamEntries, TypeInv
        <3> QED
            BY <3>1 DEF Fent, Location
    <2> QED
        BY <2>1 DEF TypeInv, TypeOK, Location
<1> QED
    BY <1>1, <1>2, <1>3, PTL DEF Spec

(* launch_athena_romfile_add: however many files of whatever sizes, the     *)
(* image that is started holds each whole where its entry says, and nothing *)
(* outside of their space has been written, as long as headers count the    *)
(* sectors of their files.                                                  *)
THEOREM ImageIntact ==
    ASSUME Rules, HonestHeaders PROVE Spec => [](FilesIntact /\ OsKept)
<1>1. Init => TypeInv /\ ImageInv
    BY TypeInit, ImageInit
<1>2. TypeInv /\ ImageInv /\ [Next]_vars => TypeInv' /\ ImageInv'
    BY TypeStep, ImageStep
<1>3. TypeInv /\ ImageInv => FilesIntact /\ OsKept
    <2> SUFFICES ASSUME TypeInv, ImageInv, NEW e \in Entries, NEW s \in e.loc..(e.loc + Segments(e.file) - 1)
                 PROVE  written[s] = e.file.name
        BY DEF FilesIntact, ImageInv
    <2>1. e \in Fent /\ Kept(e)
        BY EntryTypes DEF Entries, RomEntries, RamEntries, ImageInv
    <2>2. e.loc \in Nat /\ Segments(e.file) \in Nat
        BY <2>1, InSegments DEF Fent, Location
    <2>3. s \in Nat /\ e.loc <= s /\ s < End(e)
        BY <2>2 DEF End
    <2> QED
        BY <2>1, <2>3 DEF Kept, HeldTo
<1> QED
    BY <1>1, <1>2, <1>3, PTL DEF Spec

(* launch_athena.c:336: the index that AthenaOS executes is that of the     *)
(* file that was chosen, if it is not one that is passed over.              *)
THEOREM ChosenIsRun ==
    ASSUME Rules, ~SkipChosen PROVE Spec => []ChosenRuns
<1>1. Init => TypeInv /\ ChosenInv
    BY TypeInit DEF Init, ChosenInv
<1>2. TypeInv /\ ChosenInv /\ [Next]_vars => TypeInv' /\ ChosenInv'
    BY TypeStep, ChosenStep
<1>3. TypeInv /\ ChosenInv => ChosenRuns
    BY DEF ChosenRuns, ChosenInv, Chosen
<1> QED
    BY <1>1, <1>2, <1>3, PTL DEF Spec
=============================================================================
