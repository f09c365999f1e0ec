------------------------------- MODULE WavPlay -------------------------------
(***************************************************************************)
(* The .wav player: it looks for the format and the sound in a file, then  *)
(* keeps a ring of two halves filled, which the sound DMA or the timer's   *)
(* interrupt plays round and round.                                        *)
(*                                                                         *)
(* Faults: a file may end anywhere; reads may fail.                        *)
(*                                                                         *)
(* Abstracted: samples; positions are in units of which Half make one half *)
(* of the ring; the arithmetic of a 32-bit word is that of Word.           *)
(***************************************************************************)
EXTENDS Integers, Sequences

CONSTANTS
    Files,     \* records: chunks, format, rate, channels, bits, and the length of
               \* the sound, which is that of the rest of the file
    Half,      \* WAV_BUFFER_SIZE
    Start,     \* where the sound begins in the file
    Frame,     \* what is played in a frame, at most
    Card,      \* what is played during a read, at most
    Word,      \* 2^32
    CanSeek, CanFail

WavAssumption ==
    /\ Half \in Nat \ {0} /\ {Start, Frame, Card} \subseteq Nat /\ Word \in Nat \ {0} /\ Word % 2 = 0
    /\ \A f \in Files : {f.length, f.rate, f.channels, f.bits} \subseteq Nat
    /\ {CanSeek, CanFail} \subseteq BOOLEAN

VARIABLES
    at,        \* "chunk", "check", "poll", "read", "frame"; "ended", "invalid", "divided"
    file,
    chunk,     \* chunks read
    kind,      \* chunk_info[0]
    fmt,       \* whether a format has been read
    irq,       \* use_irq
    tell,      \* f_tell
    begin,     \* data_start
    play,      \* what is being played, a position in the ring
    fresh,     \* the halves filled since they were last left
    next,      \* next_buffer
    keys       \* seeks left in this run

vars == <<at, file, chunk, kind, fmt, irq, tell, begin, play, fresh, next, keys>>

Size       == Start + file.length
ClampNot(p) == p                                         \* mutant: as for writing
Clamp(p)   == IF p > Size THEN Size ELSE p              \* f_lseek, of a file opened to be read
PerSample  == file.channels * (file.bits \div 8)
PerSecond  == PerSample * file.rate
Distance   == 3 * PerSecond
HalfOf(p)  == p \div Half
Bits(f)    == f.bits \in {8, 16} /\ f.channels \in {1, 2}
Known      == file.format = 1 /\ file.rate \in 1..65535
ByTimer    == ~(file.channels = 1 /\ file.bits = 8 /\ file.rate \in {4000, 6000, 12000, 24000})

-----------------------------------------------------------------------------
(* A chunk's header is read, the format taken, the rest skipped.            *)
Chunk ==
    /\ at = "chunk" /\ chunk < Len(file.chunks)
    /\ chunk' = chunk + 1 /\ kind' = file.chunks[chunk + 1]
    /\ fmt' = (fmt \/ kind' = "fmt")
    /\ at' = IF kind' # "data" THEN "chunk" ELSE IF fmt THEN "check" ELSE "invalid"
    /\ UNCHANGED <<file, irq, tell, begin, play, fresh, next, keys>>

(* At the end of the file nothing is read and chunk_info is what it was.    *)
ChunkEnd ==
    /\ at = "chunk" /\ chunk = Len(file.chunks)
    /\ at' = IF kind = "data" THEN "check" ELSE "chunk"
    /\ UNCHANGED <<file, chunk, kind, fmt, irq, tell, begin, play, fresh, next, keys>>

ReadFails ==
    /\ CanFail /\ at \in {"chunk", "check", "poll"}
    /\ at' = "ended"
    /\ UNCHANGED <<file, chunk, kind, fmt, irq, tell, begin, play, fresh, next, keys>>

(* The format is checked, both halves are filled, and the sound starts.     *)
Check ==
    /\ at = "check"
    /\ \/ ~Known /\ at' = "invalid" /\ UNCHANGED <<irq, tell, begin, fresh>>
       \/ /\ Known /\ irq' = ByTimer
          /\ tell' = Clamp(Start + 2 * Half) /\ begin' = tell' /\ fresh' = {0, 1}
          /\ at' = IF PerSecond = 0 THEN "divided" ELSE IF ByTimer /\ ~Bits(file) THEN "ended" ELSE "poll"
    /\ UNCHANGED <<file, chunk, kind, fmt, play, next, keys>>

(* Mutant: the half that is being played is filled.                         *)
PollSame ==
    /\ at = "poll"
    /\ at' = IF HalfOf(play) = next THEN "read" ELSE "frame"
    /\ UNCHANGED <<file, chunk, kind, fmt, irq, tell, begin, play, fresh, next, keys>>

(* The next half is filled once the other is being played.                  *)
Poll ==
    /\ at = "poll"
    /\ at' = IF HalfOf(play) # next THEN "read" ELSE "frame"
    /\ UNCHANGED <<file, chunk, kind, fmt, irq, tell, begin, play, fresh, next, keys>>

(* What is played while the next half is read.                              *)
Fill ==
    /\ tell' = Clamp(tell + Half)
    /\ \E d \in 0..Card :
         /\ play' = (play + d) % (2 * Half)
         /\ fresh' = (fresh \cup {next}) \ (IF HalfOf(play') # HalfOf(play) THEN {HalfOf(play)} ELSE {})
    /\ UNCHANGED <<file, chunk, kind, fmt, irq, begin, keys>>

(* Mutant: a short read is played, too.                                     *)
ReadGoesOn == at = "read" /\ Fill /\ next' = 1 - next /\ at' = "frame"

(* A read that is short ends the song.                                      *)
Read ==
    /\ at = "read" /\ Fill
    /\ \/ tell' < tell + Half /\ at' = "ended" /\ UNCHANGED next
       \/ tell' = tell + Half /\ at' = "frame" /\ next' = 1 - next

(* new_pos is signed and data_start is not: what is before the file's start *)
(* compares as what is behind its end.                                      *)
Seek(p) == LET u == p % Word IN Clamp(IF u < begin THEN begin ELSE u)

(* What is played while the program waits for a frame.                      *)
Plays(n) ==
    \E d \in 0..n :
      /\ play' = (play + d) % (2 * Half)
      /\ fresh' = fresh \ (IF HalfOf(play') # HalfOf(play) THEN {HalfOf(play)} ELSE {})

(* The rest of a frame, and the keys: B or START, X4, X2.                   *)
NextFrame ==
    /\ at = "frame" /\ at' = "poll"
    /\ Plays(Frame)
    /\ UNCHANGED <<file, chunk, kind, fmt, irq, tell, begin, next, keys>>

Key ==
    /\ at = "frame" /\ CanSeek
    /\ Plays(Frame)
    /\ \/ at' = "ended" /\ UNCHANGED <<tell, keys>>
       \/ keys > 0 /\ keys' = keys - 1 /\ at' = "poll" /\ tell' = Seek(tell - Distance)
       \/ keys > 0 /\ keys' = keys - 1 /\ at' = "poll" /\ tell' = Seek(tell + Distance)
    /\ UNCHANGED <<file, chunk, kind, fmt, irq, begin, next>>

Init ==
    /\ file \in Files
    /\ at = "chunk" /\ chunk = 0 /\ kind = "RIFF" /\ fmt = FALSE
    /\ irq = FALSE /\ tell = 0 /\ begin = 0 /\ play = 0 /\ fresh = {} /\ next = 0 /\ keys = 4

Next ==
    \/ Chunk \/ ChunkEnd \/ ReadFails \/ Check
    \/ Poll \/ Read \/ NextFrame \/ Key

Steps == Chunk \/ ChunkEnd \/ Check \/ Poll \/ Read
FramePlays == NextFrame /\ play' # play

(* The program runs; in every frame something is played.                    *)
Spec == Init /\ [][Next]_vars /\ WF_vars(Steps) /\ WF_vars(NextFrame) /\ SF_vars(FramePlays)

-----------------------------------------------------------------------------
TypeOK ==
    /\ at \in {"chunk", "check", "poll", "read", "frame", "ended", "invalid", "divided"}
    /\ play \in 0..2 * Half - 1 /\ next \in {0, 1} /\ fresh \subseteq {0, 1}
    /\ tell \in 0..Size

(* While the next half is filled, the other is played; and it is never the  *)
(* old sound that is played next.                                           *)
NothingPlayedTwice == at \in {"poll", "frame"} => HalfOf(play) \in fresh
NotWhileItPlays    == at = "read" => HalfOf(play) # next /\ next \notin fresh

(* Seeks stay within the sound.                                             *)
SeeksStayInSound == at \in {"poll", "read", "frame"} => begin <= tell /\ tell <= Size

(* Nothing is played of a file that has no format before its sound.         *)
FormatFirst ==
    at \in {"check", "poll", "read", "frame"} =>
        \E k \in 1..chunk : file.chunks[k] = "fmt" /\ \A m \in 1..k : file.chunks[m] # "data"

(* A song ends that nobody seeks in.                                        *)
SongEnds == (at = "poll") ~> (at = "ended")

(* ui_wavplay.c:120: a file without a format is told to be invalid.         *)
NoFormatIsTold == ("fmt" \notin {file.chunks[k] : k \in DOMAIN file.chunks}) => <>(at = "invalid")
=============================================================================
