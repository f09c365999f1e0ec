------------------------------ MODULE WwExtract ------------------------------
(***************************************************************************)
(* Extracting the OS and the BIOS of a WonderWitch image: which of the     *)
(* known ones it holds is found by digests of ever longer beginnings of    *)
(* its bank, computed in one pass; what is found is copied to /fbin.       *)
(*                                                                         *)
(* Faults: a full card, reads and writes that fail.                        *)
(*                                                                         *)
(* Abstracted: a cell is what is read at once; a digest is the cells it    *)
(* was computed of.                                                        *)
(***************************************************************************)
EXTENDS Integers, Sequences

CONSTANTS
    Bank,        \* 65536, in cells
    Table,       \* ww_os_hashes: a sequence of records of name and cells
    BiosTable,   \* ww_bios_hashes
    Contents,    \* what may be in the OS's bank, sequences of Bank cells
    BiosBank,    \* what is in the BIOS's bank
    Short,       \* whether the image may be too short, or have no footer
    Free,        \* cells the card has left
    CanFail

TablesAreSorted ==      \* hashes.c: "must be sorted from smallest to largest filesize!"
    \A t \in {Table, BiosTable} :
        /\ t # <<>> /\ t \in Seq({t[i] : i \in DOMAIN t})
        /\ \A i \in DOMAIN t : Len(t[i].cells) \in 1..Bank
        /\ \A i, j \in DOMAIN t : i < j => Len(t[i].cells) <= Len(t[j].cells)

BanksAreWhole ==
    /\ Bank \in Nat /\ Free \in Nat
    /\ \A b \in Contents \cup {BiosBank} : b \in Seq({b[i] : i \in DOMAIN b}) /\ Len(b) = Bank

VARIABLES
    at, part,    \* what is about to be done, to "os" or "bios"
    os,          \* the OS's bank
    entry,       \* hash, an index of the table
    pos,         \* f_tell, from the start of the bank
    context,     \* the cells digested so far
    found,       \* an entry, or 0
    out,         \* the file that is written
    left,        \* size, what is to be copied
    fbin,        \* /fbin: the files extracted, by name
    free, result

vars == <<at, part, os, entry, pos, context, found, out, left, fbin, free, result>>

Hashes   == IF part = "os" THEN Table ELSE BiosTable
Contained == IF part = "os" THEN os ELSE BiosBank
Size(e)  == Len(Hashes[e].cells)
Cell(p)  == IF p < Len(Contained) THEN Contained[p + 1] ELSE "end"
Ends(r)  == at' = "done" /\ result' = r

-----------------------------------------------------------------------------
(* The image's size and footer are looked at, and the OS's bank sought.     *)
Begin ==
    /\ at = "begin"
    /\ \/ at' = "digest" /\ UNCHANGED result
       \/ Short /\ Ends("invalid")
    /\ UNCHANGED <<part, os, entry, pos, context, found, out, left, fbin, free>>

Digest ==
    /\ at = "digest" /\ pos < Size(entry)
    /\ context' = Append(context, Cell(pos)) /\ pos' = pos + 1
    /\ UNCHANGED <<at, part, os, entry, found, out, left, fbin, free, result>>

(* Mutant: the digest goes on after it was finished.                        *)
CompareFinal ==
    /\ at = "digest" /\ pos >= Size(entry)
    /\ \/ context = Hashes[entry].cells /\ found' = entry /\ at' = "found" /\ UNCHANGED <<entry, context>>
       \/ context # Hashes[entry].cells /\ entry = Len(Hashes) /\ at' = "found" /\ UNCHANGED <<entry, found, context>>
       \/ /\ context # Hashes[entry].cells /\ entry < Len(Hashes) /\ entry' = entry + 1
          /\ context' = Append(context, "padding") /\ UNCHANGED <<at, found>>
    /\ UNCHANGED <<part, os, pos, out, left, fbin, free, result>>

(* A digest is compared; if it is another, the next, longer one continues   *)
(* from the context that was saved.                                         *)
Compare ==
    /\ at = "digest" /\ pos >= Size(entry)
    /\ \/ context = Hashes[entry].cells /\ found' = entry /\ at' = "found" /\ UNCHANGED entry
       \/ /\ context # Hashes[entry].cells /\ UNCHANGED found
          /\ IF entry = Len(Hashes) THEN at' = "found" /\ UNCHANGED entry
             ELSE entry' = entry + 1 /\ UNCHANGED at
    /\ UNCHANGED <<part, os, pos, context, out, left, fbin, free, result>>

Found ==
    /\ at = "found" /\ at' = (IF found # 0 THEN "copy" ELSE "part")
    /\ pos' = 0 /\ left' = (IF found # 0 THEN Size(found) ELSE 0) /\ out' = <<>>
    /\ UNCHANGED <<part, os, entry, context, found, fbin, free, result>>

(* A cell is read and written: what was not written counts as not read, but *)
(* the file it is read from has gone on.                                    *)
Copy ==
    /\ at = "copy" /\ left > 0
    /\ IF free > 0
       THEN out' = Append(out, Cell(pos)) /\ left' = left - 1 /\ free' = free - 1
       ELSE UNCHANGED <<out, left, free>>
    /\ pos' = IF pos < Len(Contained) THEN pos + 1 ELSE pos
    /\ UNCHANGED <<at, part, os, entry, context, found, fbin, result>>

Close ==
    /\ at = "copy" /\ left = 0 /\ at' = "part"
    /\ fbin' = [fbin EXCEPT ![part] = <<Hashes[found].name, out>>]
    /\ UNCHANGED <<part, os, entry, pos, context, found, out, left, free, result>>

(* After the OS the BIOS.                                                   *)
NextPart ==
    /\ at = "part"
    /\ \/ part = "bios" /\ Ends("ok") /\ UNCHANGED <<part, entry, pos, context, found>>
       \/ /\ part = "os" /\ part' = "bios" /\ at' = "digest" /\ UNCHANGED result
          /\ entry' = 1 /\ pos' = 0 /\ context' = <<>> /\ found' = 0
    /\ UNCHANGED <<os, out, left, fbin, free>>

(* What was written of a file stays.                                        *)
Fails ==
    /\ CanFail /\ at \in {"begin", "digest", "found", "copy"} /\ Ends("error")
    /\ fbin' = IF at = "copy" THEN [fbin EXCEPT ![part] = <<Hashes[found].name, out>>] ELSE fbin
    /\ UNCHANGED <<part, os, entry, pos, context, found, out, left, free>>

Init ==
    /\ at = "begin" /\ part = "os" /\ os \in Contents /\ entry = 1 /\ pos = 0 /\ context = <<>>
    /\ found = 0 /\ out = <<>> /\ left = 0 /\ fbin = [p \in {"os", "bios"} |-> <<>>]
    /\ free = Free /\ result = "none"

Steps ==
    \/ Begin \/ Digest \/ Compare \/ Found
    \/ Copy \/ Close \/ NextPart

Next == Steps \/ Fails

(* The program's own steps are always taken.                                *)
Spec == Init /\ [][Next]_vars /\ WF_vars(Steps)

-----------------------------------------------------------------------------
TypeOK ==
    /\ at \in {"begin", "digest", "found", "copy", "part", "done"} /\ part \in {"os", "bios"}
    /\ entry \in DOMAIN Hashes /\ found \in 0..Len(Hashes) /\ pos \in 0..Bank
    /\ left \in 0..Bank /\ free \in 0..Free /\ result \in {"none", "ok", "error", "invalid"}

Prefix(c, s) == Len(c) <= Len(s) /\ SubSeq(s, 1, Len(c)) = c

(* A known OS or BIOS that the image holds is found, and no other: however  *)
(* many shorter ones the digest has been compared with before.              *)
KnownIsFound ==
    at = "found" =>
        IF found # 0 THEN Prefix(Hashes[found].cells, Contained)
        ELSE \A e \in DOMAIN Hashes : ~Prefix(Hashes[e].cells, Contained)

(* When all went well, what is in /fbin under a known name is that.         *)
ExtractedIsWhole ==
    result = "ok" =>
        /\ fbin["os"] # <<>> => \E e \in DOMAIN Table : fbin["os"] = <<Table[e].name, Table[e].cells>>
        /\ fbin["bios"] # <<>> => \E e \in DOMAIN BiosTable : fbin["bios"] = <<BiosTable[e].name, BiosTable[e].cells>>

(* image.md:53: BIOS and OS are extracted; at least it ends.                *)
ExtractionEnds == (at = "begin") ~> (at = "done")
=============================================================================
