------------------------------- MODULE WwImage -------------------------------
(***************************************************************************)
(* WonderWitch images: replacing the BIOS or the OS of an image and of the *)
(* .flash file beside it, and making an image of a BIOS and an OS.         *)
(*                                                                         *)
(* Faults: a full card, reads and writes that fail.                        *)
(*                                                                         *)
(* Abstracted: a cell stands for the bytes copied at once; the OS's footer *)
(* takes one; Bank cells are 64 KB.  A cell tells what is in it and which  *)
(* cell of that; a file is the sequence of its cells.                      *)
(***************************************************************************)
EXTENDS Integers, Sequences

CONSTANTS
    Bank,
    NewSize,      \* 524288, in cells
    Images,       \* sizes of the image, 0 if there is none
    Flashes,      \* sizes of the .flash file
    Offered,      \* components that may be chosen: records of kind and length
    Free,         \* cells the card has left
    CanFail

WwAssumption ==
    /\ Bank \in Nat \ {0, 1} /\ NewSize \in Nat /\ NewSize % Bank = 0 /\ NewSize >= 2 * Bank
    /\ Images \cup Flashes \cup {Free} \subseteq Nat /\ CanFail \in BOOLEAN
    /\ Offered \subseteq [kind : {"bios", "os"}, length : Nat \ {0}]

VARIABLES
    at,           \* what the program is about to do; "done"
    op,           \* "replace" or "create"
    osChosen,     \* the component that is written later, in an image that is made
    part,         \* the component that is written, input_path
    image, flash, \* the files, <<>> if there is none
    target,       \* the file under edit, output_path: "image" or "flash"
    size,         \* its size, or the one an image is to have
    pos,          \* f_tell
    ram,          \* the bank the component has been read into
    free,
    said,         \* the message that no file was found
    result

vars == <<at, op, osChosen, part, image, flash, target, size, pos, ram, free, said, result>>

Nothing == [kind |-> "none", length |-> 0]
IsOs == part.kind = "os"
Written == IF part.length > Bank THEN Bank ELSE part.length     \* bytes_to_write
Base == size - (IF IsOs THEN 2 * Bank ELSE Bank)
File == IF target = "image" THEN image ELSE flash
Old(n) == [i \in 1..n |-> <<"old", i>>]
Put(f) == IF target = "image" THEN image' = f /\ UNCHANGED flash ELSE flash' = f /\ UNCHANGED image
SmallerOf(a, b) == IF a < b THEN a ELSE b

Ends(r) == at' = "done" /\ result' = r

(* f_lseek, of a file that may be written: it grows as far as the card      *)
(* allows, which is no error.                                               *)
SeekTo(p) ==
    LET grown == SmallerOf(p, Len(File) + free)
    IN  /\ pos' = grown
        /\ IF grown > Len(File)
           THEN Put(File \o [i \in 1..(grown - Len(File)) |-> <<"raw", 0>>]) /\ free' = free - (grown - Len(File))
           ELSE UNCHANGED <<image, flash, free>>

(* f_write of one cell: on a full card nothing is written, without error.   *)
WriteCell(cell) ==
    \/ pos < Len(File) /\ Put([File EXCEPT ![pos + 1] = cell]) /\ pos' = pos + 1 /\ UNCHANGED free
    \/ pos = Len(File) /\ free > 0 /\ Put(Append(File, cell)) /\ pos' = pos + 1 /\ free' = free - 1
    \/ pos = Len(File) /\ free = 0 /\ UNCHANGED <<image, flash, pos, free>>

-----------------------------------------------------------------------------
(* A file is chosen; or the menu is left, or empty, and a message shown.    *)
Select ==
    /\ at = "select"
    /\ \/ \E c \in Offered :
            IF op = "replace" THEN part' = c /\ at' = "load" /\ UNCHANGED <<osChosen, said, result>>
            ELSE c.kind = "bios" /\ part' = c /\ at' = "select os" /\ UNCHANGED <<osChosen, said, result>>
       \/ said' = TRUE /\ Ends("ok") /\ UNCHANGED <<part, osChosen>>
    /\ UNCHANGED <<op, image, flash, target, size, pos, ram, free>>

SelectOs ==
    /\ at = "select os"
    /\ \/ \E c \in {c \in Offered : c.kind = "os"} : osChosen' = c /\ at' = "name" /\ UNCHANGED <<said, result>>
       \/ said' = TRUE /\ Ends("ok") /\ UNCHANGED osChosen
    /\ UNCHANGED <<op, part, image, flash, target, size, pos, ram, free>>

(* ui_fileops_check_file_overwrite: the old image goes with its save data.  *)
Overwrite ==
    /\ at = "name"
    /\ \/ image = <<>> /\ at' = "allocate" /\ UNCHANGED <<image, flash, free, result>>
       \/ /\ image # <<>>
          /\ \/ /\ free' = free + Len(image) + Len(flash)
                /\ image' = <<>> /\ flash' = <<>> /\ at' = "allocate" /\ UNCHANGED result
             \/ Ends("ok") /\ UNCHANGED <<image, flash, free>>
             \/ CanFail /\ Ends("error") /\ UNCHANGED <<image, flash, free>>
    /\ UNCHANGED <<op, osChosen, part, target, size, pos, ram, said>>

(* f_expand needs the space in one piece; f_lseek takes what there is.      *)
Allocate ==
    /\ at = "allocate"
    /\ \/ \E n \in {NewSize, SmallerOf(NewSize, free)} :
            /\ n <= free /\ image' = [i \in 1..n |-> <<"raw", 0>>] /\ free' = free - n
            /\ at' = "load" /\ UNCHANGED result
       \/ CanFail /\ Ends("error") /\ UNCHANGED <<image, free>>
    /\ size' = NewSize
    /\ UNCHANGED <<op, osChosen, part, flash, target, pos, ram, said>>

-----------------------------------------------------------------------------
(* The component is read into a bank of the cartridge's RAM.                *)
Load ==
    /\ at = "load"
    /\ \/ /\ ram' = [i \in 0..Bank - 1 |-> IF i < Written THEN <<part.kind, i>> ELSE ram[i]]
          /\ at' = "open" /\ UNCHANGED result
       \/ CanFail /\ Ends("error") /\ UNCHANGED ram
    /\ UNCHANGED <<op, osChosen, part, image, flash, target, size, pos, free, said>>

(* The file is opened, and its size taken; a .flash file need not exist.    *)
Open ==
    /\ at = "open"
    /\ size' = IF op = "replace" THEN Len(File) ELSE size
    /\ IF File = <<>> THEN Ends(IF target = "flash" THEN "ok" ELSE "error")
       ELSE IF size' < 2 * Bank THEN Ends("invalid")
       ELSE at' = "seek" /\ UNCHANGED result
    /\ pos' = 0
    /\ UNCHANGED <<op, osChosen, part, image, flash, target, ram, free, said>>

Seek ==
    /\ at = "seek" /\ at' = "write"
    /\ SeekTo(Base)
    /\ UNCHANGED <<op, osChosen, part, target, size, ram, said, result>>

Fails ==
    /\ CanFail /\ at \in {"open", "seek", "write", "foot"} /\ Ends("error")
    /\ UNCHANGED <<op, osChosen, part, image, flash, target, size, pos, ram, free, said>>

(* What is written is found by the lower bits of the position in the file.  *)
Write ==
    /\ at = "write"
    /\ IF pos >= Base + Written
       THEN at' = (IF IsOs THEN "foot" ELSE "next") /\ UNCHANGED <<image, flash, pos, free>>
       ELSE WriteCell(ram[pos % Bank]) /\ UNCHANGED at
    /\ UNCHANGED <<op, osChosen, part, target, size, ram, said, result>>

(* The footer of an OS is in the last cell of its bank.                     *)
Foot ==
    /\ at = "foot" /\ at' = "next" /\ size - Bank <= Len(File)
    /\ Put([File EXCEPT ![size - Bank] = <<"foot", Written>>]) /\ pos' = size - Bank
    /\ UNCHANGED <<op, osChosen, part, target, size, ram, free, said, result>>

(* Mutant: only the image.                                                  *)
NextNone ==
    /\ at = "next"
    /\ IF op = "create" /\ ~IsOs
       THEN part' = osChosen /\ at' = "load" /\ UNCHANGED <<target, result>>
       ELSE Ends("ok") /\ UNCHANGED <<part, target>>
    /\ UNCHANGED <<op, osChosen, image, flash, size, pos, ram, free, said>>

(* A .flash file is edited after an image; an OS after a BIOS.              *)
NextFile ==
    /\ at = "next"
    /\ \/ op = "replace" /\ target = "image" /\ target' = "flash" /\ at' = "open" /\ UNCHANGED <<part, result>>
       \/ op = "replace" /\ target = "flash" /\ Ends("ok") /\ UNCHANGED <<part, target>>
       \/ op = "create" /\ ~IsOs /\ part' = osChosen /\ at' = "load" /\ UNCHANGED <<target, result>>
       \/ op = "create" /\ IsOs /\ Ends("ok") /\ UNCHANGED <<part, target>>
    /\ UNCHANGED <<op, osChosen, image, flash, size, pos, ram, free, said>>

Init ==
    /\ at = "select" /\ op \in {"replace", "create"}
    /\ \E i \in Images, f \in Flashes : image = Old(i) /\ flash = Old(f)
    /\ op = "replace" => image # <<>>
    /\ osChosen = Nothing /\ part = Nothing /\ target = "image" /\ size = 0 /\ pos = 0
    /\ ram = [i \in 0..Bank - 1 |-> <<"old", i>>] /\ free = Free /\ said = FALSE /\ result = "none"

Steps ==
    \/ Select \/ SelectOs \/ Overwrite \/ Allocate
    \/ Load \/ Open \/ Seek \/ Write \/ Foot \/ NextFile

Next == Steps \/ Fails

(* The program's own steps are always taken.                                *)
Spec == Init /\ [][Next]_vars /\ WF_vars(Steps)

-----------------------------------------------------------------------------
TypeOK ==
    /\ at \in {"select", "select os", "name", "allocate", "load", "open", "seek", "write", "foot", "next", "done"}
    /\ op \in {"replace", "create"} /\ target \in {"image", "flash"} /\ said \in BOOLEAN
    /\ result \in {"none", "ok", "error", "invalid"}
    /\ free \in Nat /\ pos \in Nat /\ (at = "write" => pos <= Len(File))

Done == at = "done" /\ result = "ok" /\ part # Nothing /\ (op = "create" => part.kind = "os")

Holds(f, c) ==
    LET base == Len(f) - (IF c.kind = "os" THEN 2 * Bank ELSE Bank)
        n == SmallerOf(c.length, IF c.kind = "os" THEN Bank - 1 ELSE Bank)
    IN  base >= 0 /\ \A i \in 0..n - 1 : f[base + i + 1] = <<c.kind, i>>

(* An image whose size is a multiple of 64 KB has the component where its   *)
(* programs look for it, and so has the .flash file that is launched in its *)
(* stead.                                                                   *)
ComponentInPlace ==
    Done /\ Len(image) % Bank = 0 /\ Len(flash) % Bank = 0 =>
        /\ Holds(image, part)
        /\ op = "replace" /\ flash # <<>> => Holds(flash, part)

(* The footer of an OS tells how much of the bank is its.                   *)
FootTellsLength ==
    Done /\ IsOs /\ (op = "create" => Len(image) = NewSize) =>
        image[Len(image) - Bank] = <<"foot", Written>>

(* image.c:391: an image that is made has its size, in one piece or not.    *)
ImageHasItsSize == Done /\ op = "create" => Len(image) = NewSize

(* Of a file that is there, only the component's bank is written.           *)
KeptStep ==
    \A i \in 1..Len(image) :
        (image' # <<>> /\ image'[i] # image[i]) => size >= 2 * Bank /\ i \in Base + 1..Base + Bank

OthersAreKept == [][KeptStep]_vars

(* A replacement comes to its end.                                          *)
ReplacementEnds == (at = "load") ~> (at = "done")

(* image.c:391: an image is made also where its space is not in one piece.  *)
CreationEnds == (at = "allocate") ~> (at = "done")

(* image.md:50: the BIOS is replaced on the selected image.                 *)
BiosIsReplaced == Done => Holds(image, part)

(* image.md:52: an image that is made is a new one: no .flash file of an    *)
(* older one is there to be launched in its stead.                          *)
ImageIsNew == Done /\ op = "create" => flash = <<>>

(* en.po:406: no BIOS file was found.                                       *)
NoneFound == said => Offered = {}
=============================================================================
