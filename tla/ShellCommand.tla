---------------------------- MODULE ShellCommand ----------------------------
(***************************************************************************)
(* The line editor and the tokenizer of the remote shell: bytes arrive one *)
(* by one in shell_line, ENTER splits the line in place, character by      *)
(* character, and a command works on the pieces.  The buffer is never      *)
(* cleared: behind a line lie the remains of earlier ones.                 *)
(*                                                                         *)
(* Abstracted: whether the line is echoed (interactive mode); a command    *)
(* word is one character, "e" echo, "l" ls, "c" cat; what is typed matters *)
(* only as a blank, quote, backslash or dash.                              *)
(***************************************************************************)
EXTENDS Naturals, SequencesExt

CONSTANTS
    Typed,    \* characters that may arrive
    LineLen,  \* SHELL_LINE_LENGTH: 128
    Past,     \* bound: how far behind the buffer a read is followed
    CatSize,  \* bytes cat reads at once: 128
    Texts     \* files that cat may be called on

Blank  == "_"
Quote1 == "'"
Quote2 == "q"
Escape == "bsl"
Nul    == "NUL"
Eol    == "EOL"

LineAssumption == LineLen \in Nat /\ Past \in Nat /\ CatSize \in Nat \ {0}

VARIABLES
    line,     \* shell_line, from index 1
    pos,      \* shell_line_pos
    phase,    \* "read"; "split": in shell_token_start; "run": a command
    at, off, quote, \* shell_token_start's pos, offset, quote
    bad,      \* whether shell_token_start returned NULL
    typed,    \* the line as it was typed
    out       \* what a command has just printed, or done

vars == <<line, pos, phase, at, off, quote, bad, typed, out>>
Size == LineLen + 2

Read(i) == IF i <= Size THEN line[i] ELSE Nul

-----------------------------------------------------------------------------
(* shell_func: a byte is written behind the line before it is looked at.    *)
Silent   == out' = [cmd |-> "none"]
Store(c) == line' = [line EXCEPT ![pos + 1] = c] /\ Silent
Prompt   == pos' = 0 /\ typed' = <<>>
Reading  == phase = "read"

Char(c) ==
    /\ Reading /\ Store(c)
    /\ IF pos = LineLen THEN Prompt ELSE pos' = pos + 1 /\ typed' = Append(typed, c)
    /\ UNCHANGED <<phase, at, off, quote, bad>>

(* Backspace is 8, or 127, which is also the tokenizer's end marker.        *)
Backspace ==
    /\ Reading /\ \E b \in {"BS", Eol} : Store(b)
    /\ IF pos > 0 THEN pos' = pos - 1 /\ typed' = Front(typed) ELSE UNCHANGED <<pos, typed>>
    /\ UNCHANGED <<phase, at, off, quote, bad>>

CtrlC ==
    /\ Reading /\ Store("^C") /\ Prompt
    /\ UNCHANGED <<phase, at, off, quote, bad>>

(* ENTER on an empty line only turns the prompt on; otherwise it ends the   *)
(* line.                                                                    *)
EnterEmpty ==
    /\ Reading /\ pos = 0 /\ Store("CR")
    /\ UNCHANGED <<pos, phase, at, off, quote, bad, typed>>

Enter ==
    /\ Reading /\ pos > 0 /\ Store(Nul)
    /\ phase' = "split" /\ at' = 1 /\ off' = 0 /\ quote' = Nul /\ bad' = FALSE
    /\ UNCHANGED <<pos, typed>>

(* The host goes away and comes back: shell_reset.                          *)
Unplug ==
    /\ Reading /\ Prompt /\ Silent
    /\ UNCHANGED <<line, phase, at, off, quote, bad>>

-----------------------------------------------------------------------------
(* One turn of shell_token_start's loop.                                    *)
Keep(c, i) == IF i - off <= Size THEN line' = [line EXCEPT ![i - off] = c] ELSE UNCHANGED line

QuoteMark ==
    /\ phase = "split" /\ Read(at) \in {Quote1, Quote2}
    /\ IF quote \in {Nul, Read(at)}
       THEN /\ quote' = IF quote = Nul THEN Read(at) ELSE Nul
            /\ off' = off + 1 /\ at' = at + 1
            /\ UNCHANGED <<phase, bad>>
       ELSE bad' = TRUE /\ phase' = "run" /\ UNCHANGED <<quote, off, at>>
    /\ UNCHANGED <<line, pos, typed, out>>

KeepEscaped(c, i) == IF i - off - 1 <= Size THEN line' = [line EXCEPT ![i - off - 1] = c] ELSE UNCHANGED line

EscapeMark ==
    /\ phase = "split" /\ Read(at) = Escape
    /\ IF Read(at + 1) = Eol
       THEN bad' = TRUE /\ phase' = "run" /\ UNCHANGED line
       ELSE KeepEscaped(Read(at + 1), at + 1) /\ UNCHANGED <<phase, bad>>
    /\ off' = off + 1 /\ at' = at + 2
    /\ UNCHANGED <<pos, quote, typed, out>>

(* Mutant: a blank ends the piece also between quotes.                      *)
EndsPieceQuoted(c) == c = Blank

EndsPiece(c) == c = Blank /\ quote = Nul

PlainMark ==
    /\ phase = "split" /\ Read(at) \notin {Quote1, Quote2, Escape, Nul}
    /\ IF Read(at) = Eol
       THEN bad' = TRUE /\ phase' = "run" /\ UNCHANGED <<line, at>>
       ELSE /\ Keep(IF EndsPiece(Read(at)) THEN Nul ELSE Read(at), at)
            /\ at' = at + 1 /\ UNCHANGED <<phase, bad>>
    /\ UNCHANGED <<pos, off, quote, typed, out>>

(* The end of the line: a NUL, and an end marker behind it.                 *)
EndMark ==
    /\ phase = "split" /\ Read(at) = Nul
    /\ line' = [i \in 1..Size |-> IF i = at - off THEN Nul
                                  ELSE IF i = at - off + 1 THEN Eol ELSE line[i]]
    /\ phase' = "run"
    /\ UNCHANGED <<pos, at, off, quote, bad, typed, out>>

-----------------------------------------------------------------------------
(* The first piece starts with the line, and each call of shell_token_next  *)
(* skips to the next byte behind a NUL, until the end marker.               *)
EndAt  == CHOOSE i \in 1..Size : line[i] = Eol /\ \A j \in 1..(i - 1) : line[j] # Eol
Starts == {i \in 1..(EndAt - 1) : i = 1 \/ (line[i - 1] = Nul /\ line[i] # Nul)}
Piece(i) == SubSeq(line, i, (CHOOSE j \in i..(EndAt - 1) :
                line[j] = Nul /\ \A k \in i..(j - 1) : line[k] # Nul) - 1)
Pieces == [n \in 1..Cardinality(Starts) |->
             Piece(CHOOSE i \in Starts : Cardinality({j \in Starts : j < i}) = n - 1)]

(* ls increments the flag's character, not the pointer, until it is 0, so   *)
(* the rest of the piece is the next one: only its odd places are looked at *)
(* for a dash.                                                              *)
FlagRest(a) ==
    LET end == CHOOSE k \in 1..(Len(a) + 2) :
                  /\ k % 2 = 1 /\ (k > Len(a) \/ a[k] # "-")
                  /\ \A j \in 1..(k - 1) : j % 2 = 1 => (j <= Len(a) /\ a[j] = "-")
    IN  SubSeq(a, end, Len(a))
LsArg(ls, a) ==
    IF ls.flags /\ a = <<"-", "-">> THEN [ls EXCEPT !.flags = FALSE]
    ELSE LET path == IF ls.flags THEN FlagRest(a) ELSE a
         IN  IF path = <<>> THEN ls ELSE [ls EXCEPT !.paths = Append(@, path)]
LsPaths(args) == FoldLeft(LsArg, [flags |-> TRUE, paths |-> <<>>], args).paths

(* echo: the blank follows each word but the first.                         *)
Echo(args) == FlattenSeq([n \in 1..Len(args) |-> IF n = 1 THEN args[n] ELSE Append(args[n], Blank)])

(* cat prints a whole buffer, of which the last f_read may have filled only *)
(* the beginning: the rest is the previous one's, or the stack's.           *)
Reads(text)  == (Len(text) + CatSize - 1) \div CatSize
Cat(text, old) ==
    [n \in 1..(Reads(text) * CatSize) |->
        IF n <= Len(text) THEN text[n]
        ELSE IF n > CatSize THEN text[n - CatSize] ELSE old[n]]

Ready ==
    /\ phase = "run" /\ phase' = "read" /\ Prompt
    /\ at' = 1 /\ off' = 0 /\ quote' = Nul /\ bad' = FALSE
Args  == Tail(Pieces)

RunBad ==
    /\ Ready /\ bad
    /\ out' = [cmd |-> "error"]
    /\ UNCHANGED <<line>>

RunEcho ==
    /\ Ready /\ ~bad /\ Pieces[1] = <<"e">>
    /\ out' = [cmd |-> "echo", text |-> Echo(Args), args |-> Args]
    /\ UNCHANGED <<line>>

RunLs ==
    /\ Ready /\ ~bad /\ Pieces[1] = <<"l">>
    /\ out' = [cmd |-> "ls", paths |-> LsPaths(Args), args |-> Args]
    /\ UNCHANGED <<line>>

RunCat ==
    /\ Ready /\ ~bad /\ Pieces[1] = <<"c">>
    /\ IF Args = <<>>
       THEN out' = [cmd |-> "error"]
       ELSE \E text \in Texts : \E old \in [1..CatSize -> {"?"}] :
              out' = [cmd |-> "cat", text |-> Cat(text, old), file |-> text]
    /\ UNCHANGED <<line>>

RunOther ==
    /\ Ready /\ ~bad /\ Pieces[1] \notin {<<"e">>, <<"l">>, <<"c">>}
    /\ out' = [cmd |-> "error"]
    /\ UNCHANGED <<line>>

Init ==
    /\ line = [i \in 1..Size |-> Nul] /\ pos = 0
    /\ phase = "read" /\ at = 1 /\ off = 0 /\ quote = Nul /\ bad = FALSE
    /\ typed = <<>> /\ out = [cmd |-> "none"]

Next ==
    \/ \E c \in Typed : Char(c)
    \/ Backspace \/ CtrlC \/ EnterEmpty \/ Enter \/ Unplug
    \/ (at <= Size + Past /\ (QuoteMark \/ EscapeMark \/ PlainMark \/ EndMark))
    \/ RunBad \/ RunEcho \/ RunLs \/ RunCat \/ RunOther

Spec == Init /\ [][Next]_vars

-----------------------------------------------------------------------------
(* A shell's reading of the line, from left to right, without a buffer.     *)
Word(w, c) ==
    IF w.esc THEN [w EXCEPT !.esc = FALSE, !.words = Front(@) \o <<Append(Last(@), c)>>]
    ELSE IF c = Escape THEN [w EXCEPT !.esc = TRUE]
    ELSE IF c \in {Quote1, Quote2} /\ w.quote = Nul THEN [w EXCEPT !.quote = c]
    ELSE IF c = w.quote THEN [w EXCEPT !.quote = Nul]
    ELSE IF c \in {Quote1, Quote2} THEN [w EXCEPT !.bad = TRUE]
    ELSE IF c = Blank /\ w.quote = Nul THEN [w EXCEPT !.words = Append(@, <<>>)]
    ELSE [w EXCEPT !.words = Front(@) \o <<Append(Last(@), c)>>]

Words == FoldLeft(Word, [words |-> << <<>> >>, quote |-> Nul, esc |-> FALSE, bad |-> FALSE], typed)

TypeOK ==
    /\ line \in [1..Size -> Typed \cup {Nul, Eol, "BS", "CR", "^C"}]
    /\ pos \in 0..LineLen /\ bad \in BOOLEAN
    /\ phase \in {"read", "split", "run"}
    /\ at \in 1..(Size + Past + 2) /\ off \in 0..at /\ quote \in {Nul, Quote1, Quote2}
    /\ Len(typed) = pos

(* The line is split in place, over itself and over what earlier lines left *)
(* behind it, and yet a command gets the words that were typed: quotes and  *)
(* backslashes taken away, empty words dropped, but for the first.          *)
CommandGetsWords ==
    phase = "run" /\ ~Words.esc =>
      /\ bad = Words.bad
      /\ ~bad => Pieces = <<Head(Words.words)>>
                            \o SelectSeq(Tail(Words.words), LAMBDA w : w # <<>>)

(* tokenizer.h:31, "Needs at least two free bytes after the end of the      *)
(* buffer": the tokenizer looks no further than that.                       *)
StaysInLine == phase = "split" => at <= pos + 2

(* shell.c:87, "echo <text>" is to "Echo text".                             *)
EchoRepeats ==
    out.cmd = "echo" /\ out.args # <<>> =>
      out.text = FoldLeft(LAMBDA t, w : t \o <<Blank>> \o w, Head(out.args), Tail(out.args))

(* changelog.md:8, "`ls` now supports `-l` and `-s` arguments": flags are   *)
(* no paths.                                                                *)
FlagsAreNoPaths ==
    out.cmd = "ls" => out.paths = SelectSeq(out.args, LAMBDA w : w = <<>> \/ Head(w) # "-")

(* shell.c:83, "Print text from file at path": no more and no less.         *)
CatPrintsFile == out.cmd = "cat" => out.text = out.file
=============================================================================
