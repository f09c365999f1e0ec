----------------------------- MODULE MenuProofs ------------------------------
(***************************************************************************)
(* Proofs about Menu, for every value of its parameters: the wave player,  *)
(* the keypad, the calendar with its texts and digits, and the clock, each *)
(* by itself and as a part of the menu.                                    *)
(***************************************************************************)
EXTENDS Menu, RtcTime, TLAPS

-----------------------------------------------------------------------------
(* The wave player *)

Ring == 0..(2 * WavOf.Half - 1)

Offset(p) == IF p < WavOf.Half THEN p ELSE p - WavOf.Half

Playing == {"poll", "read", "frame"}

(* Where the ring is played: in the half to be filled next, or else not so  *)
(* far behind it that it could be left before it is filled.                 *)
RingInv ==
    /\ play \in Ring /\ wavNext \in {0, 1} /\ fresh \subseteq {0, 1}
    /\ wavAt \in {"chunk", "check"} => play = 0 /\ wavNext = 0
    /\ wavAt \in Playing =>
         /\ 1 - wavNext \in fresh
         /\ Wav!HalfOf(play) # wavNext
            => wavNext \notin fresh
            /\ Offset(play) < (IF wavAt = "frame" THEN WavOf.Card ELSE WavOf.Card + WavOf.Frame)
         /\ wavAt = "read" => Wav!HalfOf(play) # wavNext
         /\ wavAt # "read" /\ Wav!HalfOf(play) = wavNext => wavNext \in fresh

SoundInv ==
    /\ wavFile \in WavOf.Files
    /\ tell \in 0..Wav!Size /\ begin \in 0..Wav!Size
    /\ wavAt \in Playing => begin <= tell

FormatRead ==
    \E k \in 1..chunk : wavFile.chunks[k] = "fmt" /\ \A m \in 1..k : wavFile.chunks[m] # "data"

FormatInv ==
    /\ chunk \in Nat
    /\ fmt => FormatRead
    /\ wavAt = "chunk" => kind # "data" /\ \A m \in 1..chunk : wavFile.chunks[m] # "data"
    /\ wavAt \in {"check", "poll", "read", "frame"} => fmt

LEMMA Sizes ==
    ASSUME Wav!WavAssumption
    PROVE  WavOf.Half \in Nat \ {0} /\ WavOf.Start \in Nat /\ WavOf.Frame \in Nat /\ WavOf.Card \in Nat
           /\ WavOf.Word \in Nat \ {0}
BY DEF Wav!WavAssumption

LEMMA Remainder ==
    ASSUME NEW n \in Nat \ {0}, NEW r \in 0..(n - 1), NEW q \in {0, 1}
    PROVE  (q * n + r) \div n = q /\ (q * n + r) % n = r
OBVIOUS

LEMMA HalfIs ==
    ASSUME Wav!WavAssumption, NEW p \in Ring
    PROVE  Wav!HalfOf(p) = IF p < WavOf.Half THEN 0 ELSE 1
<1>1. WavOf.Half \in Nat \ {0} /\ p \in 0..(2 * WavOf.Half - 1)
    BY Sizes DEF Ring
<1>2. CASE p < WavOf.Half
    <2>1. p \in 0..(WavOf.Half - 1) /\ 0 * WavOf.Half + p = p
        BY <1>1, <1>2
    <2>2. (0 * WavOf.Half + p) \div WavOf.Half = 0
        BY <1>1, <2>1, Remainder
    <2> QED
        BY <1>2, <2>1, <2>2 DEF Wav!HalfOf
<1>3. CASE ~(p < WavOf.Half)
    <2>1. p - WavOf.Half \in 0..(WavOf.Half - 1) /\ 1 * WavOf.Half + (p - WavOf.Half) = p
        BY <1>1, <1>3
    <2>2. (1 * WavOf.Half + (p - WavOf.Half)) \div WavOf.Half = 1
        BY <1>1, <2>1, Remainder
    <2> QED
        BY <1>3, <2>1, <2>2 DEF Wav!HalfOf
<1> QED
    BY <1>2, <1>3

(* Played on by half of the ring at most, it is in the same half or in the  *)
(* other one.                                                               *)
LEMMA PlayedOn ==
    ASSUME Wav!WavAssumption, NEW p \in Ring, NEW d \in 0..WavOf.Half
    PROVE  LET q == (p + d) % (2 * WavOf.Half)
           IN  /\ q \in Ring /\ Wav!HalfOf(p) \in {0, 1} /\ Offset(p) \in 0..(WavOf.Half - 1)
               /\ \/ Wav!HalfOf(q) = Wav!HalfOf(p) /\ Offset(q) = Offset(p) + d
                  \/ /\ Wav!HalfOf(q) = 1 - Wav!HalfOf(p) /\ Offset(q) = Offset(p) + d - WavOf.Half
                     /\ Offset(p) + d >= WavOf.Half
<1> DEFINE q == (p + d) % (2 * WavOf.Half)
<1>1. WavOf.Half \in Nat \ {0} /\ p \in 0..(2 * WavOf.Half - 1) /\ 2 * WavOf.Half \in Nat \ {0}
    BY Sizes DEF Ring
<1>2. q = IF p + d < 2 * WavOf.Half THEN p + d ELSE p + d - 2 * WavOf.Half
    <2>1. CASE p + d < 2 * WavOf.Half
        <3>1. p + d \in 0..(2 * WavOf.Half - 1) /\ 0 * (2 * WavOf.Half) + (p + d) = p + d
            BY <1>1, <2>1
        <3> QED
            BY <1>1, <2>1, <3>1, Remainder
    <2>2. CASE ~(p + d < 2 * WavOf.Half)
        <3>1. p + d - 2 * WavOf.Half \in 0..(2 * WavOf.Half - 1)
              /\ 1 * (2 * WavOf.Half) + (p + d - 2 * WavOf.Half) = p + d
            BY <1>1, <2>2
        <3> QED
            BY <1>1, <2>2, <3>1, Remainder
    <2> QED
        BY <2>1, <2>2
<1> HIDE DEF q
<1>3. q \in Ring
    BY <1>1, <1>2 DEF Ring
<1>4. (Wav!HalfOf(p) = IF p < WavOf.Half THEN 0 ELSE 1) /\ (Wav!HalfOf(q) = IF q < WavOf.Half THEN 0 ELSE 1)
    BY <1>3, HalfIs
<1>5. /\ q \in Ring /\ Wav!HalfOf(p) \in {0, 1} /\ Offset(p) \in 0..(WavOf.Half - 1)
      /\ \/ Wav!HalfOf(q) = Wav!HalfOf(p) /\ Offset(q) = Offset(p) + d
         \/ /\ Wav!HalfOf(q) = 1 - Wav!HalfOf(p) /\ Offset(q) = Offset(p) + d - WavOf.Half
            /\ Offset(p) + d >= WavOf.Half
    BY <1>1, <1>2, <1>3, <1>4 DEF Offset
<1> QED
    BY <1>5 DEF q

LEMMA RingInit == ASSUME Wav!WavAssumption, Wav!Init PROVE RingInv
BY Sizes DEF Wav!Init, RingInv, Ring, Playing

(* A frame is played: the half to be filled may be left, no other.          *)
LEMMA FrameKeeps ==
    ASSUME Wav!WavAssumption, Timely, RingInv, wavAt = "frame", Wav!Plays(WavOf.Frame), wavNext' = wavNext,
           wavAt' \in {"poll", "ended"}
    PROVE  RingInv'
<1>1. PICK d \in 0..WavOf.Frame :
        /\ play' = (play + d) % (2 * WavOf.Half)
        /\ fresh' = fresh \ (IF Wav!HalfOf(play') # Wav!HalfOf(play) THEN {Wav!HalfOf(play)} ELSE {})
    BY DEF Wav!Plays
<1>2. WavOf.Half \in Nat \ {0} /\ WavOf.Frame \in Nat /\ WavOf.Card \in Nat
      /\ WavOf.Frame + WavOf.Card <= WavOf.Half /\ d \in 0..WavOf.Half
    BY Sizes DEF Timely
<1>3. play \in Ring
    BY DEF RingInv
<1>4. /\ play' \in Ring /\ Wav!HalfOf(play) \in {0, 1} /\ Offset(play) \in 0..(WavOf.Half - 1)
      /\ \/ Wav!HalfOf(play') = Wav!HalfOf(play) /\ Offset(play') = Offset(play) + d
         \/ /\ Wav!HalfOf(play') = 1 - Wav!HalfOf(play) /\ Offset(play') = Offset(play) + d - WavOf.Half
            /\ Offset(play) + d >= WavOf.Half
    BY <1>1, <1>2, <1>3, PlayedOn
<1>5. /\ 1 - wavNext \in fresh /\ wavNext \in {0, 1}
      /\ Wav!HalfOf(play) # wavNext => wavNext \notin fresh /\ Offset(play) < WavOf.Card
      /\ Wav!HalfOf(play) = wavNext => wavNext \in fresh
    BY DEF RingInv, Playing
<1> DEFINE h == Wav!HalfOf(play)
           k == Wav!HalfOf(play')
           o == Offset(play)
           u == Offset(play')
<1>6. /\ h \in {0, 1} /\ o \in 0..(WavOf.Half - 1)
      /\ \/ k = h /\ u = o + d
         \/ k = 1 - h /\ u = o + d - WavOf.Half /\ o + d >= WavOf.Half
      /\ h # wavNext => wavNext \notin fresh /\ o < WavOf.Card
      /\ h = wavNext => wavNext \in fresh
      /\ fresh' = fresh \ (IF k # h THEN {h} ELSE {})
    BY <1>1, <1>4, <1>5
<1> HIDE DEF h, k, o, u
<1>7. k # wavNext => h = wavNext \/ u < WavOf.Card + WavOf.Frame
    BY <1>2, <1>5, <1>6
<1>8. CASE k = h
    <2>1. fresh' = fresh
        BY <1>6, <1>8
    <2>2. k # wavNext => wavNext \notin fresh /\ u < WavOf.Card + WavOf.Frame
        BY <1>2, <1>5, <1>6, <1>8
    <2>3. k = wavNext => wavNext \in fresh
        BY <1>6, <1>8
    <2> QED
        BY <1>4, <1>5, <2>1, <2>2, <2>3 DEF RingInv, Playing, h, k, o, u
<1>9. CASE k # h
    <2>1. k = 1 - h /\ u = o + d - WavOf.Half /\ o + d >= WavOf.Half /\ fresh' = fresh \ {h}
        BY <1>6, <1>9
    <2>2. h = wavNext /\ k = 1 - wavNext
        BY <1>2, <1>5, <1>6, <2>1
    <2>3. u < WavOf.Card + WavOf.Frame
        BY <1>2, <1>6, <2>1
    <2>4. k # wavNext /\ 1 - wavNext # wavNext
        BY <1>5, <2>2
    <2>5. wavNext \notin fresh' /\ 1 - wavNext \in fresh'
        BY <1>5, <2>1, <2>2, <2>4
    <2>6. fresh' \subseteq {0, 1}
        BY <2>1 DEF RingInv
    <2> QED
        BY <1>4, <1>5, <2>2, <2>3, <2>4, <2>5, <2>6 DEF RingInv, Playing, h, k, o, u
<1> QED
    BY <1>8, <1>9

(* A half is filled while the other is played: at its end that may be left, *)
(* too, and it is the one to be filled then.                                *)
LEMMA ReadKeeps ==
    ASSUME Wav!WavAssumption, Timely, RingInv, Wav!Read
    PROVE  RingInv'
<1>1. PICK d \in 0..WavOf.Card :
        /\ play' = (play + d) % (2 * WavOf.Half)
        /\ fresh' = (fresh \cup {wavNext}) \ (IF Wav!HalfOf(play') # Wav!HalfOf(play) THEN {Wav!HalfOf(play)}
           ELSE {})
    BY DEF Wav!Read, Wav!Fill
<1>2. WavOf.Half \in Nat \ {0} /\ WavOf.Frame \in Nat /\ WavOf.Card \in Nat
      /\ WavOf.Frame + WavOf.Card <= WavOf.Half /\ d \in 0..WavOf.Half
    BY Sizes DEF Timely
<1>3. play \in Ring
    BY DEF RingInv
<1>4. /\ play' \in Ring /\ Wav!HalfOf(play) \in {0, 1} /\ Offset(play) \in 0..(WavOf.Half - 1)
      /\ \/ Wav!HalfOf(play') = Wav!HalfOf(play) /\ Offset(play') = Offset(play) + d
         \/ /\ Wav!HalfOf(play') = 1 - Wav!HalfOf(play) /\ Offset(play') = Offset(play) + d - WavOf.Half
            /\ Offset(play) + d >= WavOf.Half
    BY <1>1, <1>2, <1>3, PlayedOn
<1>5. /\ wavNext \in {0, 1} /\ fresh \subseteq {0, 1} /\ 1 - wavNext \in fresh /\ wavNext \notin fresh
      /\ Wav!HalfOf(play) # wavNext /\ Offset(play) < WavOf.Card + WavOf.Frame
    BY DEF RingInv, Playing, Wav!Read
<1> DEFINE h == Wav!HalfOf(play)
           k == Wav!HalfOf(play')
           o == Offset(play)
           u == Offset(play')
<1>6. /\ h = 1 - wavNext /\ h # wavNext /\ o \in 0..(WavOf.Half - 1) /\ o < WavOf.Card + WavOf.Frame
      /\ \/ k = h /\ u = o + d
         \/ k = wavNext /\ u = o + d - WavOf.Half
      /\ fresh' = (fresh \cup {wavNext}) \ (IF k # h THEN {h} ELSE {})
    BY <1>1, <1>4, <1>5
<1> HIDE DEF h, k, o, u
<1>7. fresh' \subseteq {0, 1} /\ wavNext \in fresh' /\ 1 - (1 - wavNext) = wavNext /\ 1 - wavNext \in {0, 1}
    BY <1>5, <1>6
<1>8. CASE wavAt' = "ended"
    <2>1. wavNext' \in {0, 1}
        BY <1>5, <1>7 DEF Wav!Read
    <2> QED
        BY <1>4, <1>7, <1>8, <2>1 DEF RingInv, Playing
<1>9. CASE wavAt' = "frame" /\ wavNext' = 1 - wavNext
    <2>1. CASE k = h
        <3>1. h \in fresh'
            BY <1>5, <1>6, <2>1
        <3> QED
            BY <1>4, <1>6, <1>7, <1>9, <2>1, <3>1 DEF RingInv, Playing, h, k, o, u
    <2>2. CASE k = wavNext
        <3>1. h \notin fresh'
            BY <1>6, <2>2
        <3>2. u < WavOf.Card
            BY <1>2, <1>6, <2>2
        <3> QED
            BY <1>4, <1>6, <1>7, <1>9, <2>2, <3>1, <3>2 DEF RingInv, Playing, h, k, o, u
    <2> QED
        BY <1>6, <2>1, <2>2
<1> QED
    BY <1>8, <1>9 DEF Wav!Read

(* What becomes of a song that is checked.                                  *)
LEMMA CheckEnds ==
    ASSUME Wav!Check
    PROVE  /\ wavAt = "check" /\ UNCHANGED <<wavFile, chunk, kind, fmt, play, wavNext, wavKeys>>
           /\ \/ wavAt' = "invalid" /\ UNCHANGED <<tell, begin, fresh>>
              \/ /\ wavAt' \in {"divided", "ended", "poll"} /\ fresh' = {0, 1}
                 /\ tell' = Wav!Clamp(WavOf.Start + 2 * WavOf.Half) /\ begin' = tell'
<1>1. wavAt = "check" /\ UNCHANGED <<wavFile, chunk, kind, fmt, play, wavNext, wavKeys>>
    BY DEF Wav!Check
<1>2. CASE wavAt' = "invalid" /\ UNCHANGED <<irq, tell, begin, fresh>>
    BY <1>1, <1>2
<1>3. ASSUME ~(wavAt' = "invalid" /\ UNCHANGED <<irq, tell, begin, fresh>>)
      PROVE  /\ tell' = Wav!Clamp(WavOf.Start + 2 * WavOf.Half) /\ begin' = tell' /\ fresh' = {0, 1}
             /\ wavAt' \in {"divided", "ended", "poll"}
    BY <1>3 DEF Wav!Check
<1> QED
    BY <1>1, <1>2, <1>3

LEMMA RingStep == ASSUME Wav!WavAssumption, Timely, RingInv, [Wav!Next]_(Wav!vars) PROVE RingInv'
<1>1. CASE Wav!Chunk \/ Wav!ChunkEnd \/ Wav!ReadFails
    <2>1. /\ wavAt \in {"chunk", "check", "poll"} /\ UNCHANGED <<play, fresh, wavNext>>
          /\ wavAt' \in {"chunk", "check", "invalid", "ended"}
          /\ wavAt = "poll" => wavAt' = "ended"
        BY <1>1 DEF Wav!Chunk, Wav!ChunkEnd, Wav!ReadFails
    <2> QED
        BY <2>1 DEF RingInv, Playing
<1>2. CASE Wav!Check
    <2>1. /\ wavAt = "check" /\ play' = play /\ wavNext' = wavNext
          /\ \/ wavAt' = "invalid" /\ fresh' = fresh
             \/ wavAt' \in {"divided", "ended", "poll"} /\ fresh' = {0, 1}
        BY <1>2, CheckEnds
    <2>2. play = 0 /\ wavNext = 0
        BY <2>1 DEF RingInv, Playing
    <2>3. Wav!HalfOf(0) = 0
        <3>1. 0 \in Ring /\ 0 < WavOf.Half
            BY Sizes DEF Ring
        <3> QED
            BY <3>1, HalfIs
    <2>4. play' \in Ring /\ wavNext' \in {0, 1} /\ fresh' \subseteq {0, 1} /\ wavAt' \notin {"chunk", "check"}
        BY <2>1 DEF RingInv
    <2>5. wavAt' \in Playing => fresh' = {0, 1} /\ play' = 0 /\ wavNext' = 0 /\ wavAt' = "poll"
        BY <2>1, <2>2 DEF Playing
    <2> QED
        BY <2>3, <2>4, <2>5 DEF RingInv, Playing
<1>3. CASE Wav!Poll
    <2>1. /\ wavAt = "poll" /\ UNCHANGED <<play, fresh, wavNext>>
          /\ wavAt' = IF Wav!HalfOf(play) # wavNext THEN "read" ELSE "frame"
        BY <1>3 DEF Wav!Poll
    <2> QED
        BY <2>1 DEF RingInv, Playing
<1>4. CASE Wav!Read
    BY <1>4, ReadKeeps
<1>5. CASE Wav!NextFrame \/ Wav!Key
    BY <1>5, FrameKeeps DEF Wav!NextFrame, Wav!Key
<1>6. CASE UNCHANGED Wav!vars
    BY <1>6 DEF Wav!vars, RingInv
<1> QED
    BY <1>1, <1>2, <1>3, <1>4, <1>5, <1>6 DEF Wav!Next

-----------------------------------------------------------------------------
LEMMA Numbers ==
    ASSUME Wav!WavAssumption, wavFile \in WavOf.Files
    PROVE  Wav!Size \in Nat /\ Wav!Distance \in Nat
<1>1. wavFile.length \in Nat /\ wavFile.rate \in Nat /\ wavFile.channels \in Nat /\ wavFile.bits \in Nat
    BY DEF Wav!WavAssumption
<1>2. wavFile.bits \div 8 \in Nat
    BY <1>1
<1>3. Wav!PerSample \in Nat
    BY <1>1, <1>2 DEF Wav!PerSample
<1>4. Wav!PerSecond \in Nat
    BY <1>1, <1>3 DEF Wav!PerSecond
<1>5. Wav!Distance \in Nat
    BY <1>4 DEF Wav!Distance
<1> QED
    BY <1>1, <1>5, Sizes DEF Wav!Size

(* A position to be sought, before the start of the file or behind its end, *)
(* becomes one between the start of the sound and the end.                  *)
LEMMA SeekIn ==
    ASSUME Wav!WavAssumption, SoundInv, NEW p \in Int
    PROVE  Wav!Seek(p) \in 0..Wav!Size /\ begin <= Wav!Seek(p)
<1> DEFINE u == p % WavOf.Word
<1>1. u \in Nat
    BY Sizes
<1>2. Wav!Size \in Nat /\ begin \in 0..Wav!Size
    BY Numbers DEF SoundInv
<1>3. Wav!Seek(p) = LET v == IF u < begin THEN begin ELSE u IN IF v > Wav!Size THEN Wav!Size ELSE v
    BY DEF Wav!Seek, Wav!Clamp
<1> HIDE DEF u
<1> QED
    BY <1>1, <1>2, <1>3

LEMMA SoundStep == ASSUME Wav!WavAssumption, SoundInv, [Wav!Next]_(Wav!vars) PROVE SoundInv'
<1>1. Wav!Size \in Nat /\ Wav!Distance \in Nat /\ wavFile \in WavOf.Files /\ tell \in 0..Wav!Size
      /\ begin \in 0..Wav!Size
    BY Numbers DEF SoundInv
<1>2. wavFile' = wavFile
    <2>1. CASE Wav!Check
        BY <2>1, CheckEnds
    <2>2. CASE Wav!Chunk
        BY <2>2, Zenon DEF Wav!Chunk
    <2>3. CASE Wav!ChunkEnd \/ Wav!ReadFails \/ Wav!Poll \/ Wav!Read \/ Wav!NextFrame \/ Wav!Key
               \/ UNCHANGED Wav!vars
        BY <2>3 DEF Wav!ChunkEnd, Wav!ReadFails, Wav!Poll, Wav!Read, Wav!Fill, Wav!NextFrame, Wav!Key, Wav!vars
    <2> QED
        BY <2>1, <2>2, <2>3 DEF Wav!Next
<1>3. Wav!Size' = Wav!Size
    BY <1>2 DEF Wav!Size
<1>4. \A p \in Nat : Wav!Clamp(p) \in 0..Wav!Size /\ (begin <= p => begin <= Wav!Clamp(p))
    BY <1>1 DEF Wav!Clamp
<1>5. CASE Wav!Chunk \/ Wav!ChunkEnd \/ Wav!ReadFails \/ Wav!Poll \/ Wav!NextFrame
    <2>1. UNCHANGED <<tell, begin>> /\ (wavAt' \in Playing => wavAt \in Playing)
        BY <1>5 DEF Wav!Chunk, Wav!ChunkEnd, Wav!ReadFails, Wav!Poll, Wav!NextFrame, Playing
    <2> QED
        BY <1>2, <1>3, <2>1 DEF SoundInv
<1>6. CASE Wav!Check
    <2>1. \/ wavAt' = "invalid" /\ UNCHANGED <<tell, begin>>
          \/ tell' = Wav!Clamp(WavOf.Start + 2 * WavOf.Half) /\ begin' = tell'
        BY <1>6, CheckEnds
    <2>2. Wav!Clamp(WavOf.Start + 2 * WavOf.Half) \in 0..Wav!Size
        <3>1. WavOf.Start + 2 * WavOf.Half \in Nat
            BY Sizes
        <3> QED
            BY <1>4, <3>1
    <2> QED
        BY <1>1, <1>2, <1>3, <2>1, <2>2 DEF SoundInv, Playing
<1>7. CASE Wav!Read
    <2>1. tell' = Wav!Clamp(tell + WavOf.Half) /\ begin' = begin /\ wavAt = "read"
        BY <1>7 DEF Wav!Read, Wav!Fill
    <2>2. tell + WavOf.Half \in Nat /\ begin <= tell + WavOf.Half
        BY <1>1, <2>1, Sizes DEF SoundInv, Playing
    <2> QED
        BY <1>1, <1>2, <1>3, <1>4, <2>1, <2>2 DEF SoundInv
<1>8. CASE Wav!Key
    <2>1. begin' = begin /\ wavAt = "frame"
          /\ (tell' = tell \/ tell' = Wav!Seek(tell - Wav!Distance) \/ tell' = Wav!Seek(tell + Wav!Distance))
        BY <1>8 DEF Wav!Key
    <2>2. tell - Wav!Distance \in Int /\ tell + Wav!Distance \in Int
        BY <1>1
    <2>3. tell' \in 0..Wav!Size /\ begin <= tell'
        BY <1>1, <2>1, <2>2, SeekIn DEF SoundInv, Playing
    <2> QED
        BY <1>1, <1>2, <1>3, <2>1, <2>3 DEF SoundInv
<1>9. CASE UNCHANGED Wav!vars
    BY <1>2, <1>3, <1>9 DEF Wav!vars, SoundInv
<1> QED
    BY <1>5, <1>6, <1>7, <1>8, <1>9 DEF Wav!Next

LEMMA SoundInit == ASSUME Wav!WavAssumption, Wav!Init PROVE SoundInv
<1>1. wavFile \in WavOf.Files /\ tell = 0 /\ begin = 0 /\ wavAt = "chunk"
    BY DEF Wav!Init
<1> QED
    BY <1>1, Numbers DEF SoundInv, Playing

(* The format is a chunk that was read, and no sound before it.             *)
LEMMA FormatStep == ASSUME FormatInv, [Wav!Next]_(Wav!vars) PROVE FormatInv'
<1>1. CASE Wav!Chunk
    <2>1. /\ wavAt = "chunk" /\ chunk \in Nat /\ chunk' = chunk + 1 /\ wavFile' = wavFile
          /\ kind' = wavFile.chunks[chunk + 1]
          /\ wavAt' = IF kind' # "data" THEN "chunk" ELSE IF fmt THEN "check" ELSE "invalid"
        BY <1>1, Zenon DEF Wav!Chunk, FormatInv
    <2>2. kind # "data" /\ \A m \in 1..chunk : wavFile.chunks[m] # "data"
        BY <2>1 DEF FormatInv
    <2>3. fmt' => fmt \/ kind' = "fmt"
        BY <1>1, Zenon DEF Wav!Chunk
    <2>4. kind' # "data" => \A m \in 1..chunk' : wavFile'.chunks[m] # "data"
        BY <2>1, <2>2
    <2>5. fmt => FormatRead'
        <3> SUFFICES ASSUME fmt PROVE FormatRead'
            OBVIOUS
        <3>1. PICK k \in 1..chunk : wavFile.chunks[k] = "fmt" /\ \A m \in 1..k : wavFile.chunks[m] # "data"
            BY DEF FormatInv, FormatRead
        <3>2. k \in 1..chunk'
            BY <2>1
        <3> QED
            BY <2>1, <3>1, <3>2 DEF FormatRead
    <2>6. kind' = "fmt" => FormatRead'
        <3> SUFFICES ASSUME kind' = "fmt" PROVE FormatRead'
            OBVIOUS
        <3>1. chunk' \in 1..chunk' /\ wavFile'.chunks[chunk'] = "fmt"
            BY <2>1
        <3> QED
            BY <2>4, <3>1 DEF FormatRead
    <2>7. wavAt' = "chunk" => kind' # "data"
        BY <2>1, Zenon
    <2>8. wavAt' = "check" => fmt
        BY <2>1, Zenon
    <2>9. fmt => fmt'
        BY <1>1, Zenon DEF Wav!Chunk
    <2>10. wavAt' \notin {"poll", "read", "frame"}
        <3>1. wavAt' = "chunk" \/ wavAt' = "check" \/ wavAt' = "invalid"
            BY <2>1, Zenon
        <3> QED
            BY <3>1
    <2> QED
        BY <2>1, <2>3, <2>4, <2>5, <2>6, <2>7, <2>8, <2>9, <2>10 DEF FormatInv
<1>2. CASE Wav!ChunkEnd
    <2>1. UNCHANGED <<wavFile, chunk, kind, fmt>> /\ wavAt = "chunk" /\ wavAt' \in {"chunk", "check"}
          /\ (wavAt' = "check" => kind = "data")
        BY <1>2 DEF Wav!ChunkEnd
    <2>2. FormatRead' <=> FormatRead
        BY <2>1 DEF FormatRead
    <2> QED
        BY <2>1, <2>2 DEF FormatInv
<1>3. ASSUME Wav!ReadFails \/ Wav!Check \/ Wav!Poll \/ Wav!Read \/ Wav!NextFrame \/ Wav!Key PROVE FormatInv'
    <2>1. UNCHANGED <<wavFile, chunk, kind, fmt>> /\ wavAt' # "chunk"
          /\ (wavAt' \in Playing \cup {"check"} => wavAt \in Playing \cup {"check"})
        <3>1. CASE Wav!Check
            BY <3>1, CheckEnds DEF Playing
        <3>2. CASE Wav!ReadFails \/ Wav!Poll \/ Wav!Read \/ Wav!NextFrame \/ Wav!Key
            BY <3>2 DEF Wav!ReadFails, Wav!Poll, Wav!Read, Wav!Fill, Wav!NextFrame, Wav!Key, Playing
        <3> QED
            BY <1>3, <3>1, <3>2
    <2>2. FormatRead' <=> FormatRead
        BY <2>1 DEF FormatRead
    <2> QED
        BY <2>1, <2>2 DEF FormatInv, Playing
<1>4. CASE UNCHANGED Wav!vars
    <2>1. UNCHANGED <<wavAt, wavFile, chunk, kind, fmt>>
        BY <1>4 DEF Wav!vars
    <2>2. FormatRead' <=> FormatRead
        BY <2>1 DEF FormatRead
    <2> QED
        BY <2>1, <2>2 DEF FormatInv
<1> QED
    BY <1>1, <1>2, <1>3, <1>4 DEF Wav!Next

LEMMA FormatInit == Wav!Init => FormatInv
BY DEF Wav!Init, FormatInv, FormatRead

LEMMA PlaceStep ==
    ASSUME wavAt \in {"chunk", "check", "poll", "read", "frame", "ended", "invalid", "divided"},
           [Wav!Next]_(Wav!vars)
    PROVE  wavAt' \in {"chunk", "check", "poll", "read", "frame", "ended", "invalid", "divided"}
<1>1. CASE Wav!Check
    BY <1>1, CheckEnds
<1>2. CASE Wav!Chunk
    <2>1. wavAt' = "chunk" \/ wavAt' = "check" \/ wavAt' = "invalid"
        BY <1>2, Zenon DEF Wav!Chunk
    <2> QED
        BY <2>1
<1>3. CASE Wav!ChunkEnd \/ Wav!ReadFails \/ Wav!Poll \/ Wav!Read \/ Wav!NextFrame \/ Wav!Key \/ UNCHANGED Wav!vars
    BY <1>3 DEF Wav!ChunkEnd, Wav!ReadFails, Wav!Poll, Wav!Read, Wav!NextFrame, Wav!Key, Wav!vars
<1> QED
    BY <1>1, <1>2, <1>3 DEF Wav!Next

PlayInv ==
    /\ wavAt \in {"chunk", "check", "poll", "read", "frame", "ended", "invalid", "divided"}
    /\ RingInv /\ SoundInv

(* ui_wavplay.c: every variable of the player keeps its type; no seek and   *)
(* no read leaves the file.                                                 *)
THEOREM PlayerTypes ==
    ASSUME Wav!WavAssumption, Timely PROVE Wav!Init /\ [][Wav!Next]_(Wav!vars) => []Wav!TypeOK
<1>1. Wav!Init => PlayInv
    BY RingInit, SoundInit DEF Wav!Init, PlayInv
<1>2. PlayInv /\ [Wav!Next]_(Wav!vars) => PlayInv'
    BY RingStep, SoundStep, PlaceStep DEF PlayInv
<1>3. PlayInv => Wav!TypeOK
    BY DEF PlayInv, RingInv, Ring, SoundInv, Wav!TypeOK
<1> QED
    BY <1>1, <1>2, <1>3, PTL

(* ui_wavplay.c:270: for any sizes of ring and song and any seeks, the half *)
(* that is played is one that was filled since it was last played, and none *)
(* is being filled while it is played, if what is played in a frame and     *)
(* during a read fits into a half.                                          *)
THEOREM PlayedOnce ==
    ASSUME Wav!WavAssumption, Timely
    PROVE Wav!Init /\ [][Wav!Next]_(Wav!vars) => [](Wav!NothingPlayedTwice /\ Wav!NotWhileItPlays)
<1>1. Wav!Init => RingInv
    BY RingInit
<1>2. RingInv /\ [Wav!Next]_(Wav!vars) => RingInv'
    BY RingStep
<1>3. RingInv => Wav!NothingPlayedTwice /\ Wav!NotWhileItPlays
    <2> SUFFICES ASSUME RingInv PROVE Wav!NothingPlayedTwice /\ Wav!NotWhileItPlays
        OBVIOUS
    <2>1. Wav!HalfOf(play) \in {0, 1}
        BY HalfIs DEF RingInv
    <2> QED
        BY <2>1 DEF RingInv, Playing, Wav!NothingPlayedTwice, Wav!NotWhileItPlays
<1> QED
    BY <1>1, <1>2, <1>3, PTL

(* ui_wavplay.c: a seek stays within the sound, whatever its distance and   *)
(* however it wraps, and no sound is played of which no format was read.    *)
THEOREM SeeksAndFormats ==
    ASSUME Wav!WavAssumption
    PROVE Wav!Init /\ [][Wav!Next]_(Wav!vars) => [](Wav!SeeksStayInSound /\ Wav!FormatFirst)
<1>1. Wav!Init => SoundInv /\ FormatInv
    BY SoundInit, FormatInit
<1>2. SoundInv /\ FormatInv /\ [Wav!Next]_(Wav!vars) => SoundInv' /\ FormatInv'
    BY SoundStep, FormatStep
<1>3. SoundInv /\ FormatInv => Wav!SeeksStayInSound /\ Wav!FormatFirst
    <2> SUFFICES ASSUME SoundInv, FormatInv PROVE Wav!SeeksStayInSound /\ Wav!FormatFirst
        OBVIOUS
    <2>1. Wav!Size \in Int
        BY Sizes, Numbers DEF SoundInv
    <2>2. Wav!SeeksStayInSound
        BY <2>1 DEF SoundInv, Wav!SeeksStayInSound, Playing
    <2>3. Wav!FormatFirst
        BY DEF FormatInv, FormatRead, Wav!FormatFirst
    <2> QED
        BY <2>2, <2>3
<1> QED
    BY <1>1, <1>2, <1>3, PTL

-----------------------------------------------------------------------------
(* The keypad *)

(* The tick at which it is due, n ticks from now.                           *)
DueIn(k, n) == next[k] = (tick + n) % KeypadOf.Wrap

PadTypes ==
    /\ pc \in {"idle", "copied"} /\ held \subseteq 1..KeypadOf.Loop
    /\ tick \in 0..(KeypadOf.Wrap - 1) /\ lag \in Nat
    /\ next \in [Keypad!Keys -> 0..(KeypadOf.Wrap - 1)] /\ quiet \in [Keypad!Keys -> 0..KeypadOf.First]

MaskInv ==
    /\ repressed \subseteq struck /\ released \subseteq held
    /\ \A k \in released : quiet[k] = KeypadOf.First /\ (k \in struck \/ k \notin down)
    /\ lag > 0 => \A k \in Keypad!Keys \ keys : quiet[k] = KeypadOf.First

CopyInv ==
    pc = "copied" =>
        /\ copy.re \subseteq struck /\ copy.rel \subseteq held
        /\ \A k \in copy.rel : quiet[k] = KeypadOf.First
        /\ \A k \in Keypad!Keys \ copy.keys : quiet[k] = KeypadOf.First

TimerInv ==
    \A k \in 1..KeypadOf.Loop :
        /\ k \notin held => quiet[k] = KeypadOf.First
        /\ quiet[k] < Keypad!Shorter => DueIn(k, KeypadOf.First - quiet[k]) \/ DueIn(k, KeypadOf.Again - quiet[k])

PadInv == PadTypes /\ MaskInv /\ CopyInv /\ TimerInv

-----------------------------------------------------------------------------
(* Timers *)

(* The remainder of a number that is less than a turn away.                 *)
LEMMA OneTurn ==
    ASSUME NEW n \in Nat \ {0}, NEW x \in Int, -n <= x, x < 2 * n
    PROVE  x % n = IF x < 0 THEN x + n ELSE IF x < n THEN x ELSE x - n
<1> DEFINE q == x \div n
           m == x % n
<1>1. q \in Int /\ m \in 0..(n - 1) /\ x = n * q + m
    OBVIOUS
<1> HIDE DEF q, m
<1>2. n * q \in Int
    BY <1>1
<1>3. CASE q <= -2
    <2>1. n * q <= n * (-2)
        BY <1>1, <1>3
    <2> QED
        BY <1>1, <1>2, <2>1
<1>4. CASE q >= 2
    <2>1. n * q >= n * 2
        BY <1>1, <1>4
    <2> QED
        BY <1>1, <1>2, <2>1
<1>5. CASE q \in {-1, 0, 1}
    <2>1. n * q = (IF q = -1 THEN -n ELSE IF q = 0 THEN 0 ELSE n)
        BY <1>5
    <2>2. m = IF x < 0 THEN x + n ELSE IF x < n THEN x ELSE x - n
        BY <1>1, <1>5, <2>1
    <2> QED
        BY <2>2 DEF m
<1> QED
    BY <1>1, <1>3, <1>4, <1>5

LEMMA Times ==
    ASSUME Keypad!TimeAssumption
    PROVE  /\ KeypadOf.Wrap \in Nat \ {0} /\ KeypadOf.First \in Nat /\ KeypadOf.Again \in Nat
              /\ Keypad!Shorter \in Nat
           /\ 1 <= Keypad!Shorter /\ Keypad!Shorter <= KeypadOf.First /\ Keypad!Shorter <= KeypadOf.Again
           /\ KeypadOf.Wrap \div 2 \in Nat /\ 2 * (KeypadOf.Wrap \div 2) <= KeypadOf.Wrap
           /\ KeypadOf.First < KeypadOf.Wrap \div 2 /\ KeypadOf.Again < KeypadOf.Wrap \div 2
BY DEF Keypad!TimeAssumption, Keypad!Shorter

(* A tick later, it is due a tick sooner.                                   *)
LEMMA TickOn ==
    ASSUME Keypad!TimeAssumption, NEW t \in 0..(KeypadOf.Wrap - 1), NEW n \in 1..KeypadOf.Wrap
    PROVE  (t + 1) % KeypadOf.Wrap \in 0..(KeypadOf.Wrap - 1)
           /\ (((t + 1) % KeypadOf.Wrap) + (n - 1)) % KeypadOf.Wrap = (t + n) % KeypadOf.Wrap
<1> DEFINE a == t + 1
           b == t + n
           u == a % KeypadOf.Wrap
           v == u + (n - 1)
<1>1. /\ KeypadOf.Wrap \in Nat \ {0} /\ t \in Int /\ n \in Int
      /\ a \in Int /\ -KeypadOf.Wrap <= a /\ a < 2 * KeypadOf.Wrap /\ 0 <= a /\ a = t + 1
      /\ b \in Int /\ -KeypadOf.Wrap <= b /\ b < 2 * KeypadOf.Wrap /\ 0 <= b /\ b = t + n
    BY Times
<1> HIDE DEF a, b
<1>2. u = IF a < 0 THEN a + KeypadOf.Wrap ELSE IF a < KeypadOf.Wrap THEN a ELSE a - KeypadOf.Wrap
    BY <1>1, OneTurn, Zenon
<1>3. b % KeypadOf.Wrap = IF b < 0 THEN b + KeypadOf.Wrap ELSE IF b < KeypadOf.Wrap THEN b ELSE b - KeypadOf.Wrap
    BY <1>1, OneTurn, Zenon
<1>4. u = IF a < KeypadOf.Wrap THEN a ELSE a - KeypadOf.Wrap
    BY <1>1, <1>2
<1> HIDE DEF u
<1>5. u \in 0..(KeypadOf.Wrap - 1) /\ v \in Int /\ -KeypadOf.Wrap <= v /\ v < 2 * KeypadOf.Wrap
    BY <1>1, <1>4
<1>6. v % KeypadOf.Wrap = IF v < 0 THEN v + KeypadOf.Wrap ELSE IF v < KeypadOf.Wrap THEN v ELSE v - KeypadOf.Wrap
    BY <1>1, <1>5, OneTurn, Zenon
<1>7. v % KeypadOf.Wrap = b % KeypadOf.Wrap
    BY <1>1, <1>3, <1>4, <1>6
<1> QED
    BY <1>5, <1>7 DEF a, b, u

(* What is due in less than half a turn is not yet due.                     *)
LEMMA NotYet ==
    ASSUME Keypad!TimeAssumption, tick \in 0..(KeypadOf.Wrap - 1), NEW k \in Keypad!Keys,
           NEW n \in 1..(KeypadOf.Wrap \div 2 - 1), DueIn(k, n)
    PROVE  ~Keypad!Due(k)
<1> DEFINE b == tick + n
           d == next[k] - tick
<1>1. /\ KeypadOf.Wrap \in Nat \ {0} /\ tick \in Int /\ n \in Int /\ 1 <= n /\ n < KeypadOf.Wrap \div 2
         /\ KeypadOf.Wrap \div 2 \in Nat
      /\ 2 * (KeypadOf.Wrap \div 2) <= KeypadOf.Wrap
      /\ b \in Int /\ -KeypadOf.Wrap <= b /\ b < 2 * KeypadOf.Wrap /\ b = tick + n /\ 0 <= b
    BY Times
<1>2. next[k] = b % KeypadOf.Wrap
    BY DEF DueIn
<1> HIDE DEF b
<1>6. b % KeypadOf.Wrap = IF b < 0 THEN b + KeypadOf.Wrap ELSE IF b < KeypadOf.Wrap THEN b ELSE b - KeypadOf.Wrap
    BY <1>1, OneTurn, Zenon
<1>3. d \in Int /\ -KeypadOf.Wrap <= d /\ d < 2 * KeypadOf.Wrap /\ d = IF b < KeypadOf.Wrap THEN n
      ELSE n - KeypadOf.Wrap
    BY <1>1, <1>2, <1>6
<1> HIDE DEF d
<1>4. d % KeypadOf.Wrap = IF d < 0 THEN d + KeypadOf.Wrap ELSE IF d < KeypadOf.Wrap THEN d ELSE d - KeypadOf.Wrap
    BY <1>1, <1>3, OneTurn, Zenon
<1>5. d % KeypadOf.Wrap = n
    BY <1>1, <1>3, <1>4
<1> QED
    BY <1>1, <1>5 DEF Keypad!Due, d

-----------------------------------------------------------------------------
(* What every step keeps *)

LEMMA PadInit == ASSUME Keypad!TimeAssumption, Keypad!Init PROVE PadInv
<1>1. PadTypes
    BY Times DEF Keypad!Init, PadTypes
<1>2. MaskInv /\ CopyInv
    BY DEF Keypad!Init, MaskInv, CopyInv
<1>3. TimerInv
    <2>1. \A k \in 1..KeypadOf.Loop : quiet[k] = KeypadOf.First
        BY DEF Keypad!Init, Keypad!Keys
    <2> QED
        BY <2>1, Times DEF TimerInv
<1> QED
    BY <1>1, <1>2, <1>3 DEF PadInv

LEMMA TickStep ==
    ASSUME Keypad!TimeAssumption, PadInv, Keypad!Vblank PROVE PadInv'
<1>1. PICK d \in SUBSET Keypad!Keys :
         /\ down' = d
         /\ struck' = struck \cup (d \ down)
         /\ keys' = keys \cup d
         /\ repressed' = repressed \cup (d \cap released)
         /\ released' = released \cup (held \ d)
         /\ quiet' = [k \in Keypad!Keys |-> IF k \in d THEN Keypad!Soon(quiet[k] + 1) ELSE KeypadOf.First]
    BY DEF Keypad!Vblank
<1>2. UNCHANGED <<pc, copy, held, next>> /\ tick' = (tick + 1) % KeypadOf.Wrap /\ lag' = lag + 1
    BY DEF Keypad!Vblank
<1>3. \A k \in Keypad!Keys : /\ quiet[k] \in 0..KeypadOf.First /\ quiet'[k] \in 0..KeypadOf.First
                             /\ quiet'[k] = (IF k \in d /\ quiet[k] + 1 <= KeypadOf.First THEN quiet[k] + 1
                                ELSE KeypadOf.First)
    BY <1>1, Times DEF Keypad!Soon, PadInv, PadTypes
<1>4. PadTypes'
    <2>1. tick' \in 0..(KeypadOf.Wrap - 1)
        BY <1>2, TickOn, Times DEF PadInv, PadTypes
    <2>2. quiet' \in [Keypad!Keys -> 0..KeypadOf.First]
        BY <1>1, <1>3
    <2> QED
        BY <1>2, <2>1, <2>2 DEF PadInv, PadTypes
<1>5. MaskInv'
    <2>1. repressed' \subseteq struck' /\ released' \subseteq held'
        BY <1>1, <1>2 DEF PadInv, MaskInv
    <2>2. \A k \in released' : quiet'[k] = KeypadOf.First /\ (k \in struck' \/ k \notin down')
        <3>1. released' \subseteq Keypad!Keys
            BY <1>1 DEF PadInv, PadTypes, MaskInv, Keypad!Keys
        <3> QED
            BY <1>1, <1>3, <3>1, Times DEF PadInv, MaskInv
    <2>3. \A k \in Keypad!Keys \ keys' : quiet'[k] = KeypadOf.First
        BY <1>1, <1>3
    <2> QED
        BY <2>1, <2>2, <2>3 DEF MaskInv
<1>6. CopyInv'
    <2>1. \A k \in Keypad!Keys : quiet[k] = KeypadOf.First => quiet'[k] = KeypadOf.First
        BY <1>3, Times
    <2>2. held \subseteq Keypad!Keys
        BY DEF PadInv, PadTypes, Keypad!Keys
    <2> QED
        BY <1>1, <1>2, <2>1, <2>2 DEF PadInv, CopyInv
<1>7. TimerInv'
    <2> SUFFICES ASSUME NEW k \in 1..KeypadOf.Loop
                 PROVE  /\ k \notin held => quiet'[k] = KeypadOf.First
                        /\ quiet'[k] < Keypad!Shorter =>
                             \/ next[k] = (tick' + (KeypadOf.First - quiet'[k])) % KeypadOf.Wrap
                             \/ next[k] = (tick' + (KeypadOf.Again - quiet'[k])) % KeypadOf.Wrap
        BY <1>2 DEF TimerInv, DueIn
    <2>1. k \in Keypad!Keys /\ quiet[k] \in Int
        BY <1>3 DEF Keypad!Keys
    <2>2. k \notin held => quiet'[k] = KeypadOf.First
        BY <1>3, <2>1, Times DEF PadInv, TimerInv
    <2>3. ASSUME quiet'[k] < Keypad!Shorter
          PROVE  \/ next[k] = (tick' + (KeypadOf.First - quiet'[k])) % KeypadOf.Wrap
                 \/ next[k] = (tick' + (KeypadOf.Again - quiet'[k])) % KeypadOf.Wrap
        <3>1. quiet'[k] = quiet[k] + 1 /\ quiet[k] < Keypad!Shorter
            BY <1>3, <2>1, <2>3, Times
        <3>2. DueIn(k, KeypadOf.First - quiet[k]) \/ DueIn(k, KeypadOf.Again - quiet[k])
            BY <3>1 DEF PadInv, TimerInv
        <3>3. \A n \in 1..KeypadOf.Wrap : DueIn(k, n) => next[k] = (tick' + (n - 1)) % KeypadOf.Wrap
            BY <1>2, TickOn DEF PadInv, PadTypes, DueIn
        <3>4. KeypadOf.First - quiet[k] \in 1..KeypadOf.Wrap /\ KeypadOf.Again - quiet[k] \in 1..KeypadOf.Wrap
            BY <1>3, <2>1, <3>1, Times
        <3>5. KeypadOf.First - quiet'[k] = (KeypadOf.First - quiet[k]) - 1
              /\ KeypadOf.Again - quiet'[k] = (KeypadOf.Again - quiet[k]) - 1
            BY <2>1, <3>1, Times
        <3> QED
            BY <3>2, <3>3, <3>4, <3>5
    <2> QED
        BY <2>2, <2>3
<1> QED
    BY <1>4, <1>5, <1>6, <1>7 DEF PadInv

LEMMA CopyStep ==
    ASSUME PadInv, Keypad!CopyMasks PROVE PadInv'
<1>1. UNCHANGED <<Keypad!masks, held, next, tick, lag, down, struck, quiet>> /\ lag > 0
    BY DEF Keypad!CopyMasks
<1>2. pc' = "copied" /\ copy'.keys = keys /\ copy'.re = repressed /\ copy'.rel = released
    BY DEF Keypad!CopyMasks
<1> QED
    BY <1>1, <1>2 DEF Keypad!masks, PadInv, PadTypes, MaskInv, CopyInv, TimerInv, DueIn

(* A key that is not reported keeps its timer; one that is no longer held   *)
(* has been quiet.                                                          *)
LEMMA DecideStep ==
    ASSUME Keypad!TimeAssumption, PadInv, Keypad!Update PROVE PadInv'
<1>1. /\ Keypad!Starts \subseteq 1..KeypadOf.Loop /\ Keypad!Repeats \subseteq 1..KeypadOf.Loop
         /\ Keypad!Starts \cap Keypad!Repeats = {}
      /\ \A k \in Keypad!Repeats : k \in held /\ k \in copy.keys /\ k \notin copy.rel
    BY DEF Keypad!Starts, Keypad!Repeats, Keypad!Last, Keypad!Ends
<1>2. /\ pressed' = Keypad!Starts \cup Keypad!Repeats
      /\ held' = (held \ ({k \in Keypad!Passed : k \notin copy.keys \/ k \in copy.rel}
                          \cup {k \in Keypad!Last : k \in copy.rel})) \cup Keypad!Starts
      /\ next' = [k \in Keypad!Keys |-> IF k \in Keypad!Starts THEN (tick + KeypadOf.First) % KeypadOf.Wrap
                                 ELSE IF k \in Keypad!Repeats THEN (tick + KeypadOf.Again) % KeypadOf.Wrap
                                 ELSE next[k]]
      /\ quiet' = [k \in Keypad!Keys |-> IF k \in pressed' THEN 0 ELSE quiet[k]]
    BY DEF Keypad!Update, Keypad!Decide
<1>3. /\ pc = "copied" /\ pc' = "idle" /\ repressed' = {} /\ released' = {} /\ struck' = {} /\ lag' = 0
      /\ tick' = tick
    BY DEF Keypad!Update
<1>4. PadTypes'
    <2>1. tick + KeypadOf.First \in Int /\ tick + KeypadOf.Again \in Int /\ KeypadOf.Wrap \in Nat \ {0}
        BY Times DEF PadInv, PadTypes
    <2>2. (tick + KeypadOf.First) % KeypadOf.Wrap \in 0..(KeypadOf.Wrap - 1)
          /\ (tick + KeypadOf.Again) % KeypadOf.Wrap \in 0..(KeypadOf.Wrap - 1)
        BY <2>1
    <2>3. next' \in [Keypad!Keys -> 0..(KeypadOf.Wrap - 1)]
        BY <1>2, <2>2 DEF PadInv, PadTypes
    <2>4. quiet' \in [Keypad!Keys -> 0..KeypadOf.First]
        BY <1>2, Times DEF PadInv, PadTypes
    <2>5. held' \subseteq 1..KeypadOf.Loop
        BY <1>1, <1>2 DEF PadInv, PadTypes
    <2> QED
        BY <1>3, <2>3, <2>4, <2>5 DEF PadInv, PadTypes
<1>5. MaskInv' /\ CopyInv'
    BY <1>3 DEF MaskInv, CopyInv
<1>6. TimerInv'
    <2> SUFFICES ASSUME NEW k \in 1..KeypadOf.Loop
                 PROVE  /\ k \notin held' => quiet'[k] = KeypadOf.First
                        /\ quiet'[k] < Keypad!Shorter =>
                             \/ next'[k] = (tick + (KeypadOf.First - quiet'[k])) % KeypadOf.Wrap
                             \/ next'[k] = (tick + (KeypadOf.Again - quiet'[k])) % KeypadOf.Wrap
        BY <1>3 DEF TimerInv, DueIn
    <2>1. k \in Keypad!Keys
        BY DEF Keypad!Keys
    <2>2. CASE k \in pressed'
        <3>1. k \in held'
            BY <1>1, <1>2, <2>2
        <3>2. quiet'[k] = 0
            BY <1>2, <2>1, <2>2
        <3>3. next'[k] = (tick + KeypadOf.First) % KeypadOf.Wrap
              \/ next'[k] = (tick + KeypadOf.Again) % KeypadOf.Wrap
            BY <1>2, <2>1, <2>2
        <3>4. KeypadOf.First - 0 = KeypadOf.First /\ KeypadOf.Again - 0 = KeypadOf.Again
            BY Times
        <3> QED
            BY <3>1, <3>2, <3>3, <3>4
    <2>3. CASE k \notin pressed'
        <3>1. quiet'[k] = quiet[k] /\ next'[k] = next[k] /\ k \notin Keypad!Starts
            BY <1>2, <2>1, <2>3
        <3>2. k \notin held' => k \notin held \/ k \notin copy.keys \/ k \in copy.rel
            BY <1>2, <3>1
        <3>3. k \notin held' => quiet[k] = KeypadOf.First
            BY <1>3, <2>1, <3>2 DEF PadInv, TimerInv, CopyInv
        <3> QED
            BY <3>1, <3>3 DEF PadInv, TimerInv, DueIn
    <2> QED
        BY <2>2, <2>3
<1> QED
    BY <1>4, <1>5, <1>6 DEF PadInv

LEMMA PadStep ==
    ASSUME Keypad!TimeAssumption, PadInv, [Keypad!Next]_(Keypad!vars) PROVE PadInv'
<1>1. CASE Keypad!Vblank
    BY <1>1, TickStep
<1>2. CASE Keypad!CopyMasks
    BY <1>2, CopyStep
<1>3. CASE Keypad!Update
    BY <1>3, DecideStep
<1>4. CASE Keypad!WaitClear
    BY <1>4 DEF Keypad!WaitClear, PadInv, PadTypes, MaskInv, CopyInv, TimerInv, DueIn
<1>5. CASE UNCHANGED <<pc, Keypad!masks, copy, held, next, tick, lag, down, struck, quiet>>
    BY <1>5 DEF Keypad!masks, PadInv, PadTypes, MaskInv, CopyInv, TimerInv, DueIn
<1>6. Keypad!WaitOver \/ Keypad!EnterHid \/ Keypad!ExitHid \/ UNCHANGED Keypad!vars =>
         UNCHANGED <<pc, Keypad!masks, copy, held, next, tick, lag, down, struck, quiet>>
    BY DEF Keypad!WaitOver, Keypad!EnterHid, Keypad!ExitHid, Keypad!vars
<1> QED
    BY <1>1, <1>2, <1>3, <1>4, <1>5, <1>6 DEF Keypad!Next

(* Only input_update reports.                                               *)
LEMMA OnlyUpdate ==
    ASSUME [Keypad!Next]_(Keypad!vars), pc = "copied", pc' = "idle" PROVE Keypad!Update
BY DEF Keypad!Next, Keypad!Vblank, Keypad!CopyMasks, Keypad!WaitClear, Keypad!WaitOver, Keypad!EnterHid,
       Keypad!ExitHid, Keypad!vars

LEMMA Paced ==
    ASSUME Keypad!TimeAssumption, PadInv, [Keypad!Next]_(Keypad!vars) PROVE Keypad!PacedStep
<1> SUFFICES ASSUME NEW k \in 1..KeypadOf.Loop, k \in pressed', pc = "copied", pc' = "idle", k \notin struck
             PROVE  quiet[k] >= Keypad!Shorter
    BY DEF Keypad!PacedStep
<1>1. Keypad!Update
    BY OnlyUpdate
<1>2. k \in Keypad!Starts \/ k \in Keypad!Repeats
    BY <1>1 DEF Keypad!Update, Keypad!Decide
<1>3. k \in Keypad!Keys /\ quiet[k] \in 0..KeypadOf.First
    BY DEF PadInv, PadTypes, Keypad!Keys
<1>4. CASE k \in Keypad!Starts
    <2>1. k \notin copy.re
        BY DEF PadInv, CopyInv
    <2>2. k \notin held
        BY <1>4, <2>1 DEF Keypad!Starts, Keypad!Fresh
    <2> QED
        BY <2>2, Times DEF PadInv, TimerInv
<1>5. CASE k \in Keypad!Repeats /\ k \notin Keypad!Starts
    <2>1. k \notin copy.re /\ k \in held /\ Keypad!Due(k)
        BY <1>5 DEF Keypad!Repeats, Keypad!Starts, Keypad!Last, Keypad!Ends, Keypad!Fresh
    <2>2. ASSUME quiet[k] < Keypad!Shorter PROVE FALSE
        <3>1. DueIn(k, KeypadOf.First - quiet[k]) \/ DueIn(k, KeypadOf.Again - quiet[k])
            BY <2>2 DEF PadInv, TimerInv
        <3>2. KeypadOf.First - quiet[k] \in 1..(KeypadOf.Wrap \div 2 - 1)
              /\ KeypadOf.Again - quiet[k] \in 1..(KeypadOf.Wrap \div 2 - 1)
            BY <1>3, <2>2, Times
        <3> QED
            BY <1>3, <2>1, <3>1, <3>2, NotYet DEF PadInv, PadTypes
    <2> QED
        BY <1>3, <2>2, Times
<1> QED
    BY <1>2, <1>4, <1>5

LEMMA Heard ==
    ASSUME PadInv, [Keypad!Next]_(Keypad!vars) PROVE Keypad!HeardStep
<1> SUFFICES ASSUME pc = "copied", pc' = "idle", NEW k \in struck \cap copy.keys \cap 1..KeypadOf.Loop,
                    k \notin held \/ k \in copy.re, \A j \in 1..(k - 1) : j \notin copy.keys
             PROVE  k \in pressed'
    BY DEF Keypad!HeardStep
<1>1. Keypad!Update
    BY OnlyUpdate
<1>2. k \in Keypad!Last
    BY DEF Keypad!Last, Keypad!Ends
<1>3. Keypad!Fresh(k)
    BY DEF Keypad!Fresh, PadInv, CopyInv
<1> QED
    BY <1>1, <1>2, <1>3 DEF Keypad!Update, Keypad!Decide, Keypad!Starts

THEOREM KeysAreHeard ==
    Keypad!TimeAssumption => (Keypad!Spec => [][Keypad!PacedStep /\ Keypad!HeardStep]_(Keypad!vars))
<1>1. ASSUME Keypad!TimeAssumption PROVE Keypad!Spec => [][Keypad!PacedStep /\ Keypad!HeardStep]_(Keypad!vars)
    <2>1. Keypad!Init => PadInv
        BY <1>1, PadInit
    <2>2. PadInv /\ [Keypad!Next]_(Keypad!vars) => PadInv' /\ Keypad!PacedStep /\ Keypad!HeardStep
        BY <1>1, PadStep, Paced, Heard
    <2> QED
        BY <2>1, <2>2, PTL DEF Keypad!Spec
<1> QED
    BY <1>1

-----------------------------------------------------------------------------
(* Numbers in BCD *)

LEMMA BcdRead ==
    ASSUME NEW n \in 0..99
    PROVE  Num(Bcd(n)) = n /\ Bcd(n) \in 0..153 /\ Bcd(n) \in Int
BY DEF Num, Bcd

LEMMA BcdInt == \A n \in Int : Bcd(n) \in Int
BY DEF Bcd

LEMMA BcdOrder ==
    ASSUME NEW a \in 0..99, NEW b \in 0..99
    PROVE  (Bcd(a) <= Bcd(b) <=> a <= b) /\ (Bcd(a) = Bcd(b) <=> a = b)
BY DEF Bcd

LEMMA Named ==
    /\ Bcd(0) = 0 /\ Bcd(1) = 1 /\ Bcd(10) = 16 /\ Bcd(11) = 17 /\ Bcd(12) = 18 /\ Bcd(20) = 32
    /\ Bcd(23) = 35 /\ Bcd(29) = 41 /\ Bcd(31) = 49 /\ Bcd(59) = 89 /\ Bcd(99) = 153
BY DEF Bcd

(* An hour of either half of the day comes back from the clock's register.  *)
LEMMA HourReadBack ==
    ASSUME NEW h \in 0..23, NEW m \in BOOLEAN
    PROVE  LET v == HourReg(Bcd(h), m)
           IN  v \in Int /\ Hour24(v) = Bcd(h) /\ (m \/ v % PM < Noon)
BY DEF HourReg, Hour24, Bcd, Num, PM, Noon

-----------------------------------------------------------------------------
(* The calendar *)

LEMMA MonthDays ==
    /\ DaysInMonth[1] = 31 /\ DaysInMonth[2] = 28 /\ DaysInMonth[3] = 31 /\ DaysInMonth[4] = 30
    /\ DaysInMonth[5] = 31 /\ DaysInMonth[6] = 30 /\ DaysInMonth[7] = 31 /\ DaysInMonth[8] = 31
    /\ DaysInMonth[9] = 30 /\ DaysInMonth[10] = 31 /\ DaysInMonth[11] = 30 /\ DaysInMonth[12] = 31
BY DEF DaysInMonth

LEMMA DaysBeforeIs ==
    DaysBefore = [month \in 1..12 |-> IF month = 1 THEN 0 ELSE DaysBefore[month - 1] + DaysInMonth[month - 1]]
<1> DEFINE Rule(f) == f = [month \in 1..12 |-> IF month = 1 THEN 0 ELSE f[month - 1] + DaysInMonth[month - 1]]
           g == [month \in 1..12 |-> <<0, 31, 59, 90, 120, 151, 181, 212, 243, 273, 304, 334>>[month]]
<1>1. Rule(g)
    <2> SUFFICES ASSUME NEW month \in 1..12
                 PROVE  g[month] = IF month = 1 THEN 0 ELSE g[month - 1] + DaysInMonth[month - 1]
        OBVIOUS
    <2> QED
        BY MonthDays
<1>2. DaysBefore = CHOOSE f : Rule(f)
    BY Zenon DEF DaysBefore
<1> HIDE DEF Rule
<1>3. Rule(DaysBefore)
    BY <1>1, <1>2, Zenon
<1> QED
    BY <1>3 DEF Rule

LEMMA MonthsBefore ==
    /\ DaysBefore[1] = 0 /\ DaysBefore[2] = 31 /\ DaysBefore[3] = 59 /\ DaysBefore[4] = 90
    /\ DaysBefore[5] = 120 /\ DaysBefore[6] = 151 /\ DaysBefore[7] = 181 /\ DaysBefore[8] = 212
    /\ DaysBefore[9] = 243 /\ DaysBefore[10] = 273 /\ DaysBefore[11] = 304 /\ DaysBefore[12] = 334
<1>1. DaysBefore[1] = 0
    BY DaysBeforeIs
<1>2. \A month \in 2..12 : DaysBefore[month] = DaysBefore[month - 1] + DaysInMonth[month - 1]
    BY DaysBeforeIs
<1>3. DaysBefore[2] = 31 /\ DaysBefore[3] = 59 /\ DaysBefore[4] = 90 /\ DaysBefore[5] = 120
    BY <1>1, <1>2, MonthDays
<1>4. DaysBefore[6] = 151 /\ DaysBefore[7] = 181 /\ DaysBefore[8] = 212 /\ DaysBefore[9] = 243
    BY <1>2, <1>3, MonthDays
<1> QED
    BY <1>1, <1>2, <1>3, <1>4, MonthDays

(* The number of a day of the hundred years, from 6, a Saturday.            *)
DayNumber(y, m, d) ==
    365 * y + (y + 3) \div 4 + DaysBefore[m] + (IF m > 2 /\ Leap(y) THEN 1 ELSE 0) + d + 5

LEMMA WeekdayIs ==
    ASSUME NEW y \in 0..99, NEW m \in 1..12, NEW d \in 1..99,
           NEW c, c.year = Bcd(y), c.month = Bcd(m), c.day = Bcd(d)
    PROVE  Weekday(c) = DayNumber(y, m, d) % 7
<1>1. Num(c.year) = y /\ Num(c.month) = m /\ Num(c.day) = d
    <2>1. y \in 0..99 /\ m \in 0..99 /\ d \in 0..99
        OBVIOUS
    <2> QED
        BY <2>1, BcdRead, Zenon
<1>2. ~(y > 99) /\ ~(m < 1) /\ ~(m > 12) /\ ~(d < 1)
    OBVIOUS
<1>3. Within(m, 1, 12) = m /\ AtLeastOne(d) = d
    BY <1>2 DEF Within, AtLeastOne
<1>4. Weekday(c) = (365 * y + (y + 3) \div 4 + DaysBefore[m] + (IF m > 2 /\ Leap(y) THEN 1 ELSE 0) + d - 1 + 6) % 7
    BY <1>1, <1>2, <1>3 DEF Weekday
<1>5. DayNumber(y, m, d)
      = 365 * y + (y + 3) \div 4 + DaysBefore[m] + (IF m > 2 /\ Leap(y) THEN 1 ELSE 0) + d - 1 + 6
    <2> DEFINE q == (y + 3) \div 4
               b == DaysBefore[m]
               l == IF m > 2 /\ Leap(y) THEN 1 ELSE 0
    <2>1. q \in Int /\ b \in Int /\ l \in Int
        BY MonthsBefore
    <2> HIDE DEF q, b, l
    <2>2. 365 * y + q + b + l + d + 5 = 365 * y + q + b + l + d - 1 + 6
        BY <2>1
    <2> QED
        BY <2>2, Zenon DEF DayNumber, q, b, l
<1> QED
    BY <1>4, <1>5, Zenon

LEMMA NumbersFollow ==
    ASSUME NEW y \in 0..99, NEW m \in 1..12, NEW d \in 1..99
    PROVE  /\ DayNumber(y, m, d) \in Nat
           /\ DayNumber(y, m, d + 1) = DayNumber(y, m, d) + 1
           /\ d = DaysOf(y, m) /\ m < 12 => DayNumber(y, m + 1, 1) = DayNumber(y, m, d) + 1
           /\ d = 31 /\ m = 12 => DayNumber(y + 1, 1, 1) = DayNumber(y, m, d) + 1
<1>1. \A n \in 1..12 : DaysBefore[n] \in Nat
    BY MonthsBefore
<1>2. DayNumber(y, m, d) \in Nat /\ DayNumber(y, m, d + 1) = DayNumber(y, m, d) + 1
    BY <1>1 DEF DayNumber
<1>3. ASSUME d = DaysOf(y, m), m < 12 PROVE DayNumber(y, m + 1, 1) = DayNumber(y, m, d) + 1
    <2>1. DaysBefore[m + 1] = DaysBefore[m] + DaysInMonth[m] /\ DaysInMonth[m] \in Nat
        BY <1>3, DaysBeforeIs, MonthDays
    <2>2. d = IF m = 2 /\ Leap(y) THEN 29 ELSE DaysInMonth[m]
        BY <1>3 DEF DaysOf
    <2>3. CASE m = 2
        BY <1>1, <2>1, <2>2, <2>3, MonthDays DEF DayNumber
    <2>4. CASE m # 2
        BY <1>1, <1>3, <2>1, <2>2, <2>4 DEF DayNumber
    <2> QED
        BY <2>3, <2>4
<1>4. ASSUME d = 31, m = 12 PROVE DayNumber(y + 1, 1, 1) = DayNumber(y, m, d) + 1
    BY <1>4, MonthsBefore DEF DayNumber, Leap
<1> QED
    BY <1>2, <1>3, <1>4

-----------------------------------------------------------------------------
(* What the clock shows *)

Bcds(low, high) == {Bcd(n) : n \in low..high}
Registers == {HourReg(Bcd(h), m) : h \in 0..23, m \in BOOLEAN}
Shown == [year : Bcds(0, 99), month : Bcds(1, 12), day : Bcds(1, 99), wday : Int,
          hour : Registers, minute : Bcds(0, 59), second : Bcds(0, 59)]

(* It has as many days as its month.                                        *)
Exists(c) == Num(c.day) <= DaysOf(Num(c.year), Num(c.month))

LEMMA BcdsAre ==
    ASSUME NEW low \in 0..1, NEW high \in 0..99, NEW v \in Bcds(low, high)
    PROVE  Num(v) \in low..high /\ v = Bcd(Num(v)) /\ v \in 0..153
<1>1. PICK n \in low..high : v = Bcd(n)
    BY DEF Bcds
<1>2. n \in 0..99
    OBVIOUS
<1> QED
    BY <1>1, <1>2, BcdRead

LEMMA BcdIn ==
    ASSUME NEW low \in 0..1, NEW high \in 0..99, NEW n \in low..high
    PROVE  Bcd(n) \in Bcds(low, high)
BY DEF Bcds

LEMMA HourNow ==
    ASSUME NEW v \in Registers
    PROVE  v \in Int /\ Num(Hour24(v)) \in 0..23 /\ Hour24(v) = Bcd(Num(Hour24(v)))
<1>1. PICK h \in 0..23, m \in BOOLEAN : v = HourReg(Bcd(h), m)
    BY DEF Registers
<1>2. v \in Int /\ Hour24(v) = Bcd(h)
    BY <1>1, HourReadBack, Zenon
<1>3. h \in 0..99
    OBVIOUS
<1>4. Num(Hour24(v)) = h
    BY <1>2, <1>3, BcdRead
<1> QED
    BY <1>2, <1>4

LEMMA HourStored ==
    ASSUME NEW h \in 0..23, NEW m \in BOOLEAN
    PROVE  HourReg(Bcd(h), m) \in Registers
BY DEF Registers

(* With other numbers.                                                      *)
Numbered == [year : Int, month : Int, day : Int, wday : Int,
             hour : Int, minute : Int, second : Int]

LEMMA ShownIsNumbered == Shown \subseteq Numbered
<1> SUFFICES ASSUME NEW c \in Shown PROVE c \in Numbered
    OBVIOUS
<1>1. c.year \in Int /\ c.month \in Int /\ c.day \in Int /\ c.minute \in Int /\ c.second \in Int
    BY BcdsAre DEF Shown
<1>2. c.hour \in Int /\ c.wday \in Int
    BY HourNow DEF Shown
<1> QED
    BY <1>1, <1>2 DEF Shown, Numbered

LEMMA Renumbered ==
    ASSUME NEW c \in Numbered,
           NEW y, NEW m, NEW d, NEW w, NEW h, NEW min, NEW s,
           c.year = y, c.month = m, c.day = d, c.wday = w, c.hour = h, c.minute = min, c.second = s
    PROVE  c = [year |-> y, month |-> m, day |-> d, wday |-> w, hour |-> h, minute |-> min, second |-> s]
BY DEF Numbered

(* The day after a day that exists exists, and has the weekday that is      *)
(* computed for it.                                                         *)
LEMMA DayFollows ==
    ASSUME NEW c \in Shown, Exists(c), NextDay(c).year >= c.year
    PROVE  /\ NextDay(c) \in Shown /\ Exists(NextDay(c))
           /\ NextDay(c).hour = c.hour /\ NextDay(c).minute = c.minute /\ NextDay(c).second = c.second
           /\ c.wday = Weekday(c) => NextDay(c).wday = Weekday(NextDay(c))
<1> DEFINE y == Num(c.year)
           m == Num(c.month)
           d == Num(c.day)
           n == NextDay(c)
<1>1. /\ y \in 0..99 /\ c.year = Bcd(y) /\ m \in 1..12 /\ c.month = Bcd(m)
      /\ d \in 1..99 /\ c.day = Bcd(d) /\ d <= DaysOf(y, m)
    BY BcdsAre DEF Shown, Exists
<1>2. /\ n.wday = (c.wday + 1) % 7
      /\ n.day = IF d < DaysOf(y, m) THEN Bcd(d + 1) ELSE 1
      /\ n.month = IF d < DaysOf(y, m) THEN c.month ELSE IF c.month # Bcd(12) THEN Bcd(m + 1) ELSE 1
      /\ n.year = IF d < DaysOf(y, m) \/ c.month # Bcd(12) THEN c.year
                  ELSE IF c.year = Bcd(99) THEN 0 ELSE Bcd(y + 1)
      /\ n.hour = c.hour /\ n.minute = c.minute /\ n.second = c.second
      /\ n = [year |-> n.year, month |-> n.month, day |-> n.day, wday |-> n.wday,
              hour |-> n.hour, minute |-> n.minute, second |-> n.second]
    <2>1. /\ n.wday = (c.wday + 1) % 7
          /\ n.day = IF d < DaysOf(y, m) THEN Bcd(d + 1) ELSE 1
        BY DEF NextDay, Shown
    <2>2. n.month = IF d < DaysOf(y, m) THEN c.month ELSE IF c.month # Bcd(12) THEN Bcd(m + 1) ELSE 1
        BY DEF NextDay, Shown
    <2>3. n.year = IF d < DaysOf(y, m) \/ c.month # Bcd(12) THEN c.year
                   ELSE IF c.year = Bcd(99) THEN 0 ELSE Bcd(y + 1)
        BY DEF NextDay, Shown
    <2>4. n.hour = c.hour /\ n.minute = c.minute /\ n.second = c.second
        BY DEF NextDay, Shown
    <2>5. n = [year |-> n.year, month |-> n.month, day |-> n.day, wday |-> n.wday,
               hour |-> n.hour, minute |-> n.minute, second |-> n.second]
        <3>1. /\ (c.wday + 1) % 7 \in Int
              /\ (IF d < DaysOf(y, m) THEN Bcd(d + 1) ELSE 1) \in Int
              /\ (IF d < DaysOf(y, m) THEN c.month ELSE IF c.month # Bcd(12) THEN Bcd(m + 1) ELSE 1) \in Int
              /\ (IF d < DaysOf(y, m) \/ c.month # Bcd(12) THEN c.year
                  ELSE IF c.year = Bcd(99) THEN 0 ELSE Bcd(y + 1)) \in Int
            <4>1. c.wday \in Int /\ c.month \in Int /\ c.year \in Int
                BY ShownIsNumbered DEF Numbered
            <4>2. Bcd(d + 1) \in Int /\ Bcd(m + 1) \in Int /\ Bcd(y + 1) \in Int
                <5>1. d + 1 \in Int /\ m + 1 \in Int /\ y + 1 \in Int
                    BY <1>1
                <5> QED
                    BY <5>1, BcdInt, Zenon
            <4> QED
                BY <4>1, <4>2
        <3>2. n \in Numbered
            BY <3>1, ShownIsNumbered DEF NextDay, Numbered
        <3> QED
            BY <3>2, Renumbered
    <2> QED
        BY <2>1, <2>2, <2>3, <2>4, <2>5, Zenon
<1>3. DaysOf(y, m) \in 28..31
    BY <1>1, MonthDays DEF DaysOf
<1> HIDE DEF n, y, m, d
<1> DEFINE Follows(ny, nm, nd) ==
             /\ n.year = Bcd(ny) /\ n.month = Bcd(nm) /\ n.day = Bcd(nd) /\ nd <= DaysOf(ny, nm)
             /\ DayNumber(ny, nm, nd) = DayNumber(y, m, d) + 1
<1>4. \E ny \in 0..99, nm \in 1..12, nd \in 1..99 : Follows(ny, nm, nd)
    <2>1. CASE d < DaysOf(y, m)
        <3>1. y \in 0..99 /\ m \in 1..12 /\ d + 1 \in 1..99 /\ d + 1 <= DaysOf(y, m)
            BY <1>1, <1>3, <2>1
        <3>2. DayNumber(y, m, d + 1) = DayNumber(y, m, d) + 1
            BY <1>1, NumbersFollow
        <3>3. n.year = Bcd(y) /\ n.month = Bcd(m) /\ n.day = Bcd(d + 1)
            BY <1>1, <1>2, <2>1
        <3>4. Follows(y, m, d + 1)
            BY <3>1, <3>2, <3>3
        <3> QED
            BY <3>1, <3>4, Zenon
    <2>2. CASE d = DaysOf(y, m) /\ c.month # Bcd(12)
        <3>1. m < 12 /\ m + 1 \in 1..12 /\ 1 \in 1..99
            BY <1>1, <2>2
        <3>2. y \in 0..99 /\ m \in 1..12 /\ d \in 1..99 /\ d = DaysOf(y, m)
            BY <1>1, <2>2
        <3>3. DayNumber(y, m + 1, 1) = DayNumber(y, m, d) + 1
            BY <3>1, <3>2, NumbersFollow, Zenon
        <3>4. 1 <= DaysOf(y, m + 1)
            BY <1>1, <3>1, MonthDays DEF DaysOf
        <3>5. n.year = Bcd(y) /\ n.month = Bcd(m + 1) /\ n.day = Bcd(1)
            BY <1>1, <1>2, <2>2, Named
        <3>6. Follows(y, m + 1, 1)
            BY <3>3, <3>4, <3>5
        <3> QED
            BY <3>1, <3>2, <3>6, Zenon
    <2>3. CASE d = DaysOf(y, m) /\ c.month = Bcd(12)
        <3>1. m = 12
            <4>1. m \in 0..99 /\ 12 \in 0..99 /\ Bcd(m) = Bcd(12)
                BY <1>1, <2>3
            <4> QED
                BY <4>1, BcdOrder, Zenon
        <3>2. d = 31
            BY <2>3, <3>1, MonthDays DEF DaysOf
        <3>3. y # 99
            <4>1. ASSUME y = 99 PROVE FALSE
                <5>1. n.year = 0 /\ c.year = 153
                    BY <1>1, <1>2, <2>3, <4>1, Named
                <5> QED
                    BY <5>1 DEF n
            <4> QED
                BY <4>1
        <3>4. y + 1 \in 0..99 /\ 1 \in 1..12 /\ 1 \in 1..99 /\ c.year # Bcd(99)
            BY <1>1, <3>3, BcdOrder
        <3>5. DayNumber(y + 1, 1, 1) = DayNumber(y, m, d) + 1
            BY <1>1, <3>1, <3>2, NumbersFollow
        <3>6. 1 <= DaysOf(y + 1, 1)
            BY MonthDays DEF DaysOf
        <3>7. n.year = Bcd(y + 1) /\ n.month = Bcd(1) /\ n.day = Bcd(1)
            BY <1>1, <1>2, <2>3, <3>4, Named
        <3>8. Follows(y + 1, 1, 1)
            BY <3>5, <3>6, <3>7
        <3> QED
            BY <3>4, <3>8, Zenon
    <2>4. d < DaysOf(y, m) \/ d = DaysOf(y, m)
        BY <1>1, <1>3
    <2> QED
        BY <2>1, <2>2, <2>3, <2>4, Zenon
<1>9. PICK ny \in 0..99, nm \in 1..12, nd \in 1..99 : Follows(ny, nm, nd)
    BY <1>4
<1>5. Num(n.year) = ny /\ Num(n.month) = nm /\ Num(n.day) = nd
    <2>1. ny \in 0..99 /\ nm \in 0..99 /\ nd \in 0..99
        OBVIOUS
    <2> QED
        BY <1>9, <2>1, BcdRead, Zenon
<1>6. Exists(n)
    BY <1>5, <1>9 DEF Exists
<1>7. n \in Shown
    <2>1. n.year \in Bcds(0, 99) /\ n.month \in Bcds(1, 12) /\ n.day \in Bcds(1, 99)
        BY <1>9, BcdIn
    <2>2. n.wday \in Int /\ n.hour \in Registers /\ n.minute \in Bcds(0, 59) /\ n.second \in Bcds(0, 59)
        BY <1>2 DEF Shown
    <2> QED
        BY <1>2, <2>1, <2>2 DEF Shown
<1>8. ASSUME c.wday = Weekday(c) PROVE n.wday = Weekday(n)
    <2>1. Weekday(c) = DayNumber(y, m, d) % 7
        BY <1>1, WeekdayIs
    <2>2. Weekday(n) = DayNumber(ny, nm, nd) % 7
        BY <1>9, WeekdayIs
    <2>3. DayNumber(y, m, d) \in Nat
        BY <1>1, NumbersFollow
    <2> QED
        BY <1>2, <1>8, <1>9, <2>1, <2>2, <2>3
<1> QED
    BY <1>2, <1>6, <1>7, <1>8 DEF n

-----------------------------------------------------------------------------
(* The digits *)

Fields == {"year", "month", "day", "hour", "minute", "second"}
Largest(c) == IF c = "year" THEN 99 ELSE IF c = "month" THEN 12 ELSE IF c = "day" THEN 99
              ELSE IF c = "hour" THEN 23 ELSE 59

LEMMA FieldsAre ==
    /\ \A s \in 0..11 : Component(s) \in Fields
    /\ {Components[k] : k \in 1..6} = Fields
<1>1. \A k \in 1..6 : Components[k] \in Fields
    BY DEF Components, Fields
<1>2. \A s \in 0..11 : s \div 2 + 1 \in 1..6
    OBVIOUS
<1>3. \A f \in Fields : \E k \in 1..6 : Components[k] = f
    BY DEF Components, Fields
<1> QED
    BY <1>1, <1>2, <1>3 DEF Component

(* A digit that is turned stays within its component, wherever it was.      *)
LEMMA TurnedIn ==
    ASSUME NEW max \in 10..99, NEW min \in 0..1, NEW old \in min..99, NEW high \in BOOLEAN,
           NEW delta \in Deltas, high => delta \in {-1, 1}
    PROVE  Turned(old, min, max, high, delta) \in min..max
<1> DEFINE low == old % 10
           top == max % 10
           new == old + (IF high THEN 10 * delta ELSE Stride(old, delta))
<1>1. low \in 0..9 /\ top \in 0..9 /\ max - top >= 10 /\ old \in Int
    OBVIOUS
<1>2. WrapDown(old, min, max) \in min..max
    <2> HIDE DEF low, top
    <2>1. WrapDown(old, min, max) =
            LET w == (max - top) + low
                v == IF w > max THEN w - 10 ELSE w
            IN  IF v = old THEN max ELSE v
        BY DEF WrapDown, low, top
    <2> QED
        BY <1>1, <2>1
<1>3. WrapUp(old, min) \in min..max
    <2> HIDE DEF low
    <2>1. WrapUp(old, min) =
            LET v == IF low < min THEN min ELSE low
            IN  IF v = old THEN min ELSE v
        BY DEF WrapUp, low
    <2> QED
        BY <1>1, <2>1
<1>4. Turned(old, min, max, high, delta) =
        IF new \in min..max THEN new
        ELSE IF new < min THEN (IF high THEN WrapDown(old, min, max) ELSE max)
        ELSE IF high THEN WrapUp(old, min) ELSE min
    BY DEF Turned
<1> HIDE DEF new
<1> QED
    BY <1>2, <1>3, <1>4

LEMMA Limits ==
    ASSUME NEW now \in Shown, NEW c \in Fields
    PROVE  /\ Least(c) \in 0..1 /\ Most(now, c) \in 10..Largest(c) /\ Largest(c) \in 10..99
           /\ Value(now, c) \in Least(c)..Largest(c)
<1>1. Least(c) \in 0..1 /\ Largest(c) \in 10..99
    BY DEF Least, Largest
<1>2. Num(now.year) \in 0..99 /\ Num(now.month) \in 1..12 /\ Num(now.day) \in 1..99
    BY BcdsAre DEF Shown
<1>3. Num(now.minute) \in 0..59 /\ Num(now.second) \in 0..59 /\ Num(Hour24(now.hour)) \in 0..23
    BY BcdsAre, HourNow DEF Shown
<1>4. DaysOf(Num(now.year), Num(now.month)) \in 28..31
    BY <1>2, MonthDays DEF DaysOf
<1>5. CASE c = "day"
    BY <1>1, <1>2, <1>4, <1>5 DEF Most, Largest, Value, Least
<1>6. CASE c = "year"
    BY <1>1, <1>2, <1>6 DEF Most, Largest, Value, Least
<1>7. CASE c = "month"
    BY <1>1, <1>2, <1>7 DEF Most, Largest, Value, Least
<1>8. CASE c = "hour"
    BY <1>1, <1>3, <1>8 DEF Most, Largest, Value, Least
<1>9. CASE c \in {"minute", "second"}
    BY <1>1, <1>3, <1>9 DEF Most, Largest, Value, Least
<1> QED
    BY <1>5, <1>6, <1>7, <1>8, <1>9 DEF Fields

LEMMA StoredIn ==
    ASSUME NEW now \in Shown, NEW c \in Fields, NEW n \in Least(c)..Largest(c), NEW m \in BOOLEAN
    PROVE  LET new == Stored(now, c, n, m)
           IN  /\ new \in Shown /\ Value(new, c) = n /\ new.wday = now.wday
               /\ new[c] = IF c = "hour" THEN HourReg(Bcd(n), m) ELSE Bcd(n)
               /\ \A o \in Fields \ {c} : new[o] = now[o]
<1>1. n \in 0..99 /\ n \in Int
    BY DEF Least, Largest
<1>2. Num(Bcd(n)) = n
    BY <1>1, BcdRead
<1>3. CASE c = "hour"
    <2>1. n \in 0..23
        BY <1>3 DEF Least, Largest
    <2>2. HourReg(Bcd(n), m) \in Registers /\ Num(Hour24(HourReg(Bcd(n), m))) = n
        BY <1>2, <2>1, HourStored, HourReadBack
    <2> QED
        BY <1>3, <2>2 DEF Stored, Shown, Value, Fields
<1>4. CASE c = "year"
    <2>1. Bcd(n) \in Bcds(0, 99)
        BY <1>4 DEF Bcds, Least, Largest
    <2> QED
        BY <1>2, <1>4, <2>1 DEF Stored, Shown, Value, Fields
<1>5. CASE c = "month"
    <2>1. Bcd(n) \in Bcds(1, 12)
        BY <1>5 DEF Bcds, Least, Largest
    <2> QED
        BY <1>2, <1>5, <2>1 DEF Stored, Shown, Value, Fields
<1>6. CASE c = "day"
    <2>1. Bcd(n) \in Bcds(1, 99)
        BY <1>6 DEF Bcds, Least, Largest
    <2> QED
        BY <1>2, <1>6, <2>1 DEF Stored, Shown, Value, Fields
<1>7. CASE c = "minute"
    <2>1. Bcd(n) \in Bcds(0, 59)
        BY <1>7 DEF Bcds, Least, Largest
    <2> QED
        BY <1>2, <1>7, <2>1 DEF Stored, Shown, Value, Fields
<1>8. CASE c = "second"
    <2>1. Bcd(n) \in Bcds(0, 59)
        BY <1>8 DEF Bcds, Least, Largest
    <2> QED
        BY <1>2, <1>8, <2>1 DEF Stored, Shown, Value, Fields
<1> QED
    BY <1>3, <1>4, <1>5, <1>6, <1>7, <1>8 DEF Fields

(* rtc_adjust_component, of a time that is shown.                           *)
LEMMA AdjustedIn ==
    ASSUME NEW now \in Shown, NEW m \in BOOLEAN, NEW s \in 0..11, NEW delta \in Deltas
    PROVE  LET new == Adjust(now, m, s, delta)
               c   == Component(s)
           IN  /\ new \in Shown /\ new.wday = now.wday
               /\ Value(new, c) \in Least(c)..Most(now, c)
               /\ \A o \in Fields \ {c} : new[o] = now[o]
<1> DEFINE new == Adjust(now, m, s, delta)
           c == Component(s)
           far == High(s) /\ delta \in {-Far, Far}
           goes == IF delta = Far THEN Most(now, c) ELSE Least(c)
           turned == Turned(Value(now, c), Least(c), Most(now, c), High(s), delta)
<1>1. /\ c \in Fields
      /\ Least(c) \in 0..1 /\ Most(now, c) \in 10..Largest(c) /\ Largest(c) \in 10..99
      /\ Value(now, c) \in Least(c)..Largest(c)
    BY FieldsAre, Limits
<1>2. new = IF far THEN (IF c = "hour" THEN now ELSE Stored(now, c, goes, m))
            ELSE Stored(now, c, turned, m)
    BY DEF Adjust
<1>3. goes \in Least(c)..Most(now, c) /\ goes \in Least(c)..Largest(c)
    BY <1>1
<1>4. ASSUME ~far PROVE turned \in Least(c)..Most(now, c) /\ turned \in Least(c)..Largest(c)
    <2>1. High(s) \in BOOLEAN /\ (High(s) => delta \in {-1, 1})
        BY <1>4 DEF High, Deltas
    <2>2. Most(now, c) \in 10..99 /\ Value(now, c) \in Least(c)..99
        BY <1>1
    <2>3. turned \in Least(c)..Most(now, c)
        BY <1>1, <2>1, <2>2, TurnedIn
    <2> QED
        BY <1>1, <2>3
<1> HIDE DEF new, c, far, goes, turned
<1>5. CASE far /\ c = "hour"
    <2>1. new = now
        BY <1>2, <1>5
    <2>2. Value(now, c) \in Least(c)..Most(now, c)
        <3>1. Largest(c) = 23 /\ Most(now, c) = 23
            BY <1>5 DEF Largest, Most
        <3> QED
            BY <1>1, <3>1
    <2> QED
        BY <2>1, <2>2 DEF new, c
<1>6. CASE far /\ c # "hour"
    <2>1. new = Stored(now, c, goes, m)
        BY <1>2, <1>6
    <2> QED
        BY <1>1, <1>3, <2>1, StoredIn DEF new, c
<1>7. CASE ~far
    <2>1. new = Stored(now, c, turned, m)
        BY <1>2, <1>7
    <2> QED
        BY <1>1, <1>4, <1>7, <2>1, StoredIn DEF new, c
<1> QED
    BY <1>5, <1>6, <1>7


LEMMA LowTurned ==
    ASSUME NEW max \in 10..99, NEW min \in 0..1, NEW old \in min..max
    PROVE  /\ Turned(old, min, max, FALSE, -1) = IF old > min THEN old - 1 ELSE max
           /\ Turned(old, min, max, FALSE, 1) = IF old < max THEN old + 1 ELSE min
<1>1. /\ old \in Int /\ min \in Int /\ max \in Int /\ min <= old /\ old <= max /\ min < max
      /\ Stride(old, -1) = -1 /\ Stride(old, 1) = 1
    BY DEF Stride, Far
<1>2. Turned(old, min, max, FALSE, -1) = IF old > min THEN old - 1 ELSE max
    <2>1. old + Stride(old, -1) = old - 1
        BY <1>1
    <2> QED
        BY <1>1, <2>1 DEF Turned
<1>3. Turned(old, min, max, FALSE, 1) = IF old < max THEN old + 1 ELSE min
    BY <1>1 DEF Turned
<1> QED
    BY <1>2, <1>3

(* A low digit that was turned down is turned up again.                     *)
LEMMA LowReturns ==
    ASSUME NEW now \in Shown, Exists(now), NEW m \in BOOLEAN, NEW s \in 0..11, ~High(s),
           now.hour = HourReg(Bcd(Num(Hour24(now.hour))), m)
    PROVE  Adjust(Adjust(now, m, s, -1), m, s, 1) = now
<1> DEFINE c == Component(s)
           min == Least(c)
           max == Most(now, c)
           old == Value(now, c)
           lower == IF old > min THEN old - 1 ELSE max
           first == Adjust(now, m, s, -1)
           second == Adjust(first, m, s, 1)
<1>1. c \in Fields /\ min \in 0..1 /\ max \in 10..Largest(c) /\ Largest(c) \in 10..99 /\ old \in Int
    BY FieldsAre, Limits
<1>2. old \in min..max
    <2>1. CASE c = "day"
        <3>1. old = Num(now.day) /\ max = DaysOf(Num(now.year), Num(now.month))
            BY <2>1 DEF Value, Most
        <3> QED
            BY <3>1, Limits, <1>1 DEF Exists
    <2>2. CASE c # "day"
        <3>1. max = Largest(c)
            BY <1>1, <2>2 DEF Most, Largest, Fields
        <3> QED
            BY <1>1, <3>1, Limits
    <2> QED
        BY <2>1, <2>2
<1>3. \A d \in Shown : \A delta \in {-1, 1} :
        Adjust(d, m, s, delta) = Stored(d, c, Turned(Value(d, c), Least(c), Most(d, c), FALSE, delta), m)
    <2>1. High(s) = FALSE
        BY DEF High
    <2> QED
        BY <2>1, Zenon DEF Adjust
<1>4. /\ Turned(old, min, max, FALSE, -1) = lower
      /\ \A k \in min..max : Turned(k, min, max, FALSE, 1) = IF k < max THEN k + 1 ELSE min
    <2>1. min \in 0..1 /\ max \in 10..99
        BY <1>1
    <2> HIDE DEF min, max, old
    <2>2. \A k \in min..max : /\ Turned(k, min, max, FALSE, -1) = IF k > min THEN k - 1 ELSE max
                             /\ Turned(k, min, max, FALSE, 1) = IF k < max THEN k + 1 ELSE min
        BY <2>1, LowTurned, Zenon
    <2> QED
        BY <1>2, <2>2, Zenon
<1>5. first = Stored(now, c, lower, m) /\ lower \in min..max /\ lower \in min..Largest(c)
    <2>2. first = Stored(now, c, Turned(old, min, max, FALSE, -1), m)
        BY <1>3
    <2>3. lower \in min..max /\ lower \in min..Largest(c)
        BY <1>1, <1>2
    <2> QED
        BY <1>4, <2>2, <2>3
<1>6. first \in Shown /\ Value(first, c) = lower /\ first.wday = now.wday
      /\ \A o \in Fields \ {c} : first[o] = now[o]
    BY <1>1, <1>5, StoredIn
<1>7. Most(first, c) = max
    <2>1. CASE c = "day"
        <3>1. first.year = now.year /\ first.month = now.month
            BY <1>6, <2>1 DEF Fields
        <3> QED
            BY <2>1, <3>1 DEF Most
    <2>2. CASE c # "day"
        BY <1>1, <2>2 DEF Most, Fields
    <2> QED
        BY <2>1, <2>2
<1>8. second = Stored(first, c, old, m)
    <2>1. second = Stored(first, c, Turned(lower, min, max, FALSE, 1), m)
        BY <1>3, <1>6, <1>7
    <2>2. Turned(lower, min, max, FALSE, 1) = old
        <3>1. Turned(lower, min, max, FALSE, 1) = IF lower < max THEN lower + 1 ELSE min
            BY <1>4, <1>5
        <3>2. min \in 0..1 /\ max \in 10..99
            BY <1>1
        <3>3. (IF lower < max THEN lower + 1 ELSE min) = old
            <4> HIDE DEF old, min, max
            <4> QED
                BY <1>2, <3>2
        <3> QED
            BY <3>1, <3>3, Zenon
    <2> QED
        BY <2>1, <2>2
<1>9. /\ second \in Shown /\ second.wday = now.wday /\ \A o \in Fields \ {c} : second[o] = now[o]
      /\ second[c] = IF c = "hour" THEN HourReg(Bcd(old), m) ELSE Bcd(old)
    <2>1. old \in min..Largest(c)
        BY <1>1, <1>2
    <2> QED
        BY <1>1, <1>6, <1>8, <2>1, StoredIn
<1>10. now[c] = IF c = "hour" THEN HourReg(Bcd(old), m) ELSE Bcd(old)
    <2>1. /\ now.year = Bcd(Num(now.year)) /\ now.month = Bcd(Num(now.month)) /\ now.day = Bcd(Num(now.day))
          /\ now.minute = Bcd(Num(now.minute)) /\ now.second = Bcd(Num(now.second))
        BY BcdsAre DEF Shown
    <2> QED
        BY <1>1, <2>1 DEF Value, Fields
<1> HIDE DEF second, c, old
<1>11. \A o \in Fields : second[o] = now[o]
    BY <1>9, <1>10
<1>12. /\ second.year = now.year /\ second.month = now.month /\ second.day = now.day
       /\ second.hour = now.hour /\ second.minute = now.minute /\ second.second = now.second
    BY <1>11 DEF Fields
<1>13. second \in Numbered /\ now \in Numbered
    BY <1>9, ShownIsNumbered
<1>14. second = now
    BY <1>9, <1>12, <1>13 DEF Numbered
<1> QED
    BY <1>14 DEF second

-----------------------------------------------------------------------------
(* Texts *)

LEMMA TextFields ==
    ASSUME NEW c, NEW m \in BOOLEAN
    PROVE  /\ LET t == Text(c)
              IN  /\ t.year = 32 * 256 + c.year /\ t.month = c.month /\ t.day = c.day
                  /\ t.hour = Hour24(c.hour) /\ t.minute = c.minute /\ t.second = c.second
           /\ LET r == Read(c, m)
              IN  /\ r.year = c.year % 256 /\ r.month = c.month /\ r.day = c.day
                  /\ r.hour = HourReg(c.hour, m) /\ r.minute = c.minute /\ r.second = c.second
BY Named DEF Text, Read

NumberTexts == [year : Int, month : Int, day : Int, hour : Int, minute : Int, second : Int]

(* A text of the numbers of a date and of a time.                           *)
Tells(t, y, mo, d, h) ==
    /\ y \in 0..99 /\ mo \in 1..12 /\ d \in 1..99 /\ h \in 0..23
    /\ t.year = 32 * 256 + Bcd(y) /\ t.month = Bcd(mo) /\ t.day = Bcd(d) /\ t.hour = Bcd(h)
    /\ t.minute \in Bcds(0, 59) /\ t.second \in Bcds(0, 59)

(* It is read as that time, with its weekday.                               *)
LEMMA ReadIsShown ==
    ASSUME NEW m \in BOOLEAN, NEW t \in NumberTexts, NEW y, NEW mo, NEW d, NEW h, Tells(t, y, mo, d, h)
    PROVE  /\ Read(t, m) \in Shown /\ Read(t, m).wday = Weekday(Read(t, m))
           /\ Read(t, m).year = Bcd(y) /\ Read(t, m).month = Bcd(mo) /\ Read(t, m).day = Bcd(d)
           /\ Read(t, m).hour = HourReg(Bcd(h), m)
           /\ Read(t, m).minute = t.minute /\ Read(t, m).second = t.second
<1> USE DEF Tells
<1> DEFINE r == Read(t, m)
<1>1. t.year % 256 = Bcd(y)
    <2>1. \A b \in 0..153 : (32 * 256 + b) % 256 = b
        OBVIOUS
    <2>2. Bcd(y) \in 0..153
        BY BcdRead
    <2> QED
        BY <2>1, <2>2
<1>2. /\ r.year = Bcd(y) /\ r.month = Bcd(mo) /\ r.day = Bcd(d)
      /\ r.hour = HourReg(Bcd(h), m) /\ r.minute = t.minute /\ r.second = t.second
    BY <1>1, TextFields
<1>3. r.wday = DayNumber(y, mo, d) % 7
    <2> DEFINE now == [year |-> t.year % 256, month |-> t.month, day |-> t.day, wday |-> 0,
                      hour |-> HourReg(t.hour, m), minute |-> t.minute, second |-> t.second]
    <2>1. now.year = Bcd(y) /\ now.month = Bcd(mo) /\ now.day = Bcd(d)
        BY <1>1
    <2>2. r.wday = Weekday(now)
        BY DEF Read
    <2> HIDE DEF now
    <2> QED
        BY <2>1, <2>2, WeekdayIs
<1>4. Weekday(r) = DayNumber(y, mo, d) % 7
    <2> HIDE DEF r
    <2> QED
        BY <1>2, WeekdayIs
<1>5. r.wday \in Int
    <2>1. DayNumber(y, mo, d) \in Nat
        BY NumbersFollow
    <2> QED
        BY <1>3, <2>1
<1>6. r.year \in Bcds(0, 99) /\ r.month \in Bcds(1, 12) /\ r.day \in Bcds(1, 99) /\ r.hour \in Registers
    BY <1>2, BcdIn, HourStored
<1>7. r = [year |-> r.year, month |-> r.month, day |-> r.day, wday |-> r.wday,
           hour |-> r.hour, minute |-> r.minute, second |-> r.second]
    BY DEF Read
<1> HIDE DEF r
<1>8. r \in Shown
    BY <1>2, <1>5, <1>6, <1>7 DEF Shown
<1> QED
    BY <1>2, <1>3, <1>4, <1>8 DEF r

(* A time that exists, with its weekday, and the hour as the mode has it.   *)
Moment(c, m24) ==
    /\ c \in Shown /\ Exists(c) /\ c.wday = Weekday(c)
    /\ c.hour = HourReg(Bcd(Num(Hour24(c.hour))), m24)

LEMMA TextBack ==
    ASSUME NEW m \in BOOLEAN, NEW c, Moment(c, m)
    PROVE  Read(Text(c), m) = c /\ \A beyond : Accepted(Text(c), beyond) \/ c.month >= Bcd(10)
<1> DEFINE t == Text(c)
           y == Num(c.year)
           mo == Num(c.month)
           d == Num(c.day)
           h == Num(Hour24(c.hour))
<1>1. /\ y \in 0..99 /\ c.year = Bcd(y) /\ mo \in 1..12 /\ c.month = Bcd(mo)
      /\ d \in 1..99 /\ c.day = Bcd(d) /\ d <= DaysOf(y, mo)
    BY BcdsAre DEF Moment, Shown, Exists
<1>2. h \in 0..23 /\ Hour24(c.hour) = Bcd(h) /\ c.hour = HourReg(Bcd(h), m)
    BY HourNow DEF Moment, Shown
<1>3. /\ t.year = 32 * 256 + Bcd(y) /\ t.month = Bcd(mo) /\ t.day = Bcd(d) /\ t.hour = Bcd(h)
      /\ t.minute = c.minute /\ t.second = c.second
    <2>1. /\ t.year = 32 * 256 + c.year /\ t.month = c.month /\ t.day = c.day
          /\ t.hour = Hour24(c.hour) /\ t.minute = c.minute /\ t.second = c.second
        BY TextFields, Zenon
    <2> HIDE DEF t, y, mo, d, h
    <2> QED
        BY <1>1, <1>2, <2>1
<1>4. c \in Shown /\ c.wday = Weekday(c) /\ c.minute \in Bcds(0, 59) /\ c.second \in Bcds(0, 59)
    BY DEF Moment, Shown
<1> HIDE DEF t, y, mo, d, h
<1>5. Read(t, m) = c
    <2> DEFINE r == Read(t, m)
    <2>1. /\ r \in Shown /\ r.wday = Weekday(r)
          /\ r.year = Bcd(y) /\ r.month = Bcd(mo) /\ r.day = Bcd(d)
          /\ r.hour = HourReg(Bcd(h), m) /\ r.minute = t.minute /\ r.second = t.second
        <3>1. Tells(t, y, mo, d, h)
            BY <1>1, <1>2, <1>3, <1>4, Zenon DEF Tells
        <3>2. t \in NumberTexts
            <4>1. c.month \in Int /\ c.day \in Int /\ Hour24(c.hour) \in Int
                BY <1>1, <1>2, BcdInt
            <4> QED
                BY <1>4, <4>1, ShownIsNumbered, Named DEF t, Text, NumberTexts, Numbered
        <3> QED
            BY <3>1, <3>2, ReadIsShown, SMTT(30)
    <2> HIDE DEF r
    <2>2. r.wday = c.wday
        <3>1. Weekday(r) = DayNumber(y, mo, d) % 7
            BY <1>1, <2>1, WeekdayIs
        <3>2. Weekday(c) = DayNumber(y, mo, d) % 7
            BY <1>1, WeekdayIs
        <3> QED
            BY <1>4, <2>1, <3>1, <3>2
    <2>3. r \in Numbered /\ c \in Numbered
        BY <1>4, <2>1, ShownIsNumbered
    <2>4. /\ r.year = c.year /\ r.month = c.month /\ r.day = c.day
          /\ r.hour = c.hour /\ r.minute = c.minute /\ r.second = c.second
        BY <1>1, <1>2, <1>3, <2>1
    <2>5. r = c
        BY <2>2, <2>3, <2>4 DEF Numbered
    <2> QED
        BY <2>5 DEF r
<1>6. ASSUME NEW beyond, ~(c.month >= Bcd(10)) PROVE Accepted(t, beyond)
    <2>1. mo < 10 /\ c.month = mo
        <3>1. mo >= 10 => c.month >= 16
            BY <1>1 DEF Bcd
        <3>2. mo < 10 => Bcd(mo) = mo
            BY <1>1 DEF Bcd
        <3> QED
            BY <1>1, <1>6, <3>1, <3>2, Named
    <2>2. t.year \in 32 * 256 .. 32 * 256 + 153 /\ t.month \in 1..18
        <3>1. Bcd(y) \in 0..153
            BY <1>1, BcdRead
        <3>2. t.month \in 1..18
            BY <1>1, <1>3, <2>1
        <3> QED
            BY <1>3, <3>1, <3>2
    <2>3. DayLimit(mo, beyond) = IF mo = 2 THEN Bcd(29) ELSE Bcd(DaysInMonth[mo])
        BY <1>1, <2>1 DEF DayLimit
    <2>4. 1 <= Bcd(d) /\ Bcd(d) <= DayLimit(mo, beyond)
        <3>1. d <= IF mo = 2 THEN 29 ELSE DaysInMonth[mo]
            BY <1>1, MonthDays DEF DaysOf
        <3>2. 1 <= Bcd(d)
            BY <1>1 DEF Bcd
        <3>3. DaysInMonth[mo] \in 0..99 /\ 29 \in 0..99 /\ d \in 0..99
            BY <1>1, MonthDays
        <3> QED
            BY <2>3, <3>1, <3>2, <3>3, BcdOrder
    <2>5. t.day \in 1..DayLimit(t.month, beyond)
        <3>1. Bcd(d) \in Int /\ DayLimit(mo, beyond) \in Int
            BY <1>1, <2>3, BcdInt, MonthDays
        <3> QED
            BY <1>1, <1>3, <2>1, <2>4, <3>1
    <2>6. t.hour \in 0..35
        BY <1>2, <1>3 DEF Bcd
    <2>7. t.minute \in 0..89 /\ t.second \in 0..89
        <3>1. \A v \in Bcds(0, 59) : v \in 0..89
            BY DEF Bcds, Bcd
        <3> QED
            BY <1>3, <1>4, <3>1
    <2> QED
        BY <2>2, <2>5, <2>6, <2>7, Named DEF Accepted
<1> QED
    BY <1>5, <1>6 DEF t

LEMMA DayGoesOn ==
    ASSUME NEW m \in BOOLEAN, NEW c, Moment(c, m), NextDay(c).year >= c.year
    PROVE  Moment(NextDay(c), m)
BY DayFollows DEF Moment

LEMMA HourGoesOn ==
    ASSUME NEW m \in BOOLEAN, NEW c, Moment(c, m), Value(c, "hour") < 23
    PROVE  Moment([c EXCEPT !.hour = HourReg(Bcd(Value(c, "hour") + 1), m)], m)
<1> DEFINE h == Value(c, "hour") + 1
           r == HourReg(Bcd(h), m)
           n == [c EXCEPT !.hour = r]
<1>1. h \in 0..23 /\ h \in 0..99
    BY HourNow DEF Moment, Shown, Value
<1>2. r \in Registers /\ Hour24(r) = Bcd(h) /\ Num(Bcd(h)) = h
    BY <1>1, HourStored, HourReadBack, BcdRead
<1>3. r = HourReg(Bcd(Num(Hour24(r))), m)
    BY <1>2
<1> HIDE DEF r, h
<1>4. n \in Shown /\ n.hour = r /\ n.year = c.year /\ n.month = c.month /\ n.day = c.day /\ n.wday = c.wday
    BY <1>2 DEF Moment, Shown
<1> HIDE DEF n
<1>5. Exists(n)
    BY <1>4 DEF Moment, Exists
<1>6. Weekday(n) = Weekday(c)
    BY <1>4 DEF Weekday
<1>7. Moment(n, m)
    BY <1>3, <1>4, <1>5, <1>6 DEF Moment
<1> QED
    BY <1>7 DEF n, r, h

-----------------------------------------------------------------------------
(* The calendar, the texts and the clock count as above.                    *)

LEMMA CalendarNumbers ==
    /\ \A n : Calendar!Bcd(n) = Bcd(n) /\ Calendar!Num(n) = Num(n)
    /\ \A v : Calendar!Hour24(v) = Hour24(v)
    /\ \A v, m : Calendar!HourReg(v, m) = HourReg(v, m)
    /\ \A y, m : Calendar!DaysOf(y, m) = DaysOf(y, m)
    /\ \A c, f : Calendar!Value(c, f) = Value(c, f)
<1>1. \A n : Calendar!Bcd(n) = Bcd(n) /\ Calendar!Num(n) = Num(n)
    BY DEF Calendar!Bcd, Bcd, Calendar!Num, Num
<1>2. Calendar!PM = PM /\ Calendar!Noon = Noon
    BY <1>1 DEF Calendar!PM, PM, Calendar!Noon, Noon
<1>3. \A v : Calendar!Hour24(v) = Hour24(v)
    BY <1>1, <1>2, Zenon DEF Calendar!Hour24, Hour24
<1>4. \A v, m : Calendar!HourReg(v, m) = HourReg(v, m)
    BY <1>1, <1>2, Zenon DEF Calendar!HourReg, HourReg
<1>5. \A y, m : Calendar!DaysOf(y, m) = DaysOf(y, m)
    BY Zenon DEF Calendar!DaysOf, DaysOf, Calendar!Leap, Leap, Calendar!DaysInMonth, DaysInMonth
<1>6. \A c, f : Calendar!Value(c, f) = Value(c, f)
    BY <1>1, <1>3, Zenon DEF Calendar!Value, Value
<1> QED
    BY <1>1, <1>3, <1>4, <1>5, <1>6, Zenon

LEMMA CalendarDays ==
    ASSUME NEW c
    PROVE  Calendar!Weekday(c) = Weekday(c) /\ Calendar!NextDay(c) = NextDay(c)
<1>1. Calendar!DaysBefore = DaysBefore
    BY Zenon DEF Calendar!DaysBefore, DaysBefore, Calendar!DaysInMonth, DaysInMonth
<1>2. Calendar!Weekday(c) = Weekday(c)
    BY <1>1, CalendarNumbers DEF Calendar!Weekday, Weekday, Calendar!Within, Within, Calendar!AtLeastOne,
                                 AtLeastOne,
                           Calendar!Leap, Leap
<1>3. Calendar!NextDay(c) = NextDay(c)
    BY CalendarNumbers, Zenon DEF Calendar!NextDay, NextDay
<1> QED
    BY <1>2, <1>3

LEMMA ReadingsNumbers ==
    /\ \A n : Readings!Bcd(n) = Bcd(n) /\ Readings!Num(n) = Num(n)
    /\ \A v : Readings!Hour24(v) = Hour24(v)
    /\ \A v, m : Readings!HourReg(v, m) = HourReg(v, m)
    /\ \A y, m : Readings!DaysOf(y, m) = DaysOf(y, m)
    /\ \A c, f : Readings!Value(c, f) = Value(c, f)
<1>1. \A n : Readings!Bcd(n) = Bcd(n) /\ Readings!Num(n) = Num(n)
    BY DEF Readings!Bcd, Bcd, Readings!Num, Num
<1>2. Readings!PM = PM /\ Readings!Noon = Noon
    BY <1>1 DEF Readings!PM, PM, Readings!Noon, Noon
<1>3. \A v : Readings!Hour24(v) = Hour24(v)
    BY <1>1, <1>2, Zenon DEF Readings!Hour24, Hour24
<1>4. \A v, m : Readings!HourReg(v, m) = HourReg(v, m)
    BY <1>1, <1>2, Zenon DEF Readings!HourReg, HourReg
<1>5. \A y, m : Readings!DaysOf(y, m) = DaysOf(y, m)
    BY Zenon DEF Readings!DaysOf, DaysOf, Readings!Leap, Leap, Readings!DaysInMonth, DaysInMonth
<1>6. \A c, f : Readings!Value(c, f) = Value(c, f)
    BY <1>1, <1>3, Zenon DEF Readings!Value, Value
<1> QED
    BY <1>1, <1>3, <1>4, <1>5, <1>6, Zenon

LEMMA ReadingsDays ==
    ASSUME NEW c
    PROVE  Readings!Weekday(c) = Weekday(c) /\ Readings!NextDay(c) = NextDay(c)
<1>1. Readings!DaysBefore = DaysBefore
    BY Zenon DEF Readings!DaysBefore, DaysBefore, Readings!DaysInMonth, DaysInMonth
<1>2. Readings!Weekday(c) = Weekday(c)
    BY <1>1, ReadingsNumbers DEF Readings!Weekday, Weekday, Readings!Within, Within, Readings!AtLeastOne,
                                 AtLeastOne,
                           Readings!Leap, Leap
<1>3. Readings!NextDay(c) = NextDay(c)
    BY ReadingsNumbers, Zenon DEF Readings!NextDay, NextDay
<1> QED
    BY <1>2, <1>3

LEMMA ReadingsTexts ==
    ASSUME NEW c, NEW m, NEW p
    PROVE  /\ Readings!Text(c) = Text(c) /\ Readings!Read(c, m) = Read(c, m)
           /\ Readings!Accepted(c, p) <=> Accepted(c, p)
<1>1. Readings!Text(c) = Text(c)
    BY ReadingsNumbers, Zenon DEF Readings!Text, Text
<1>2. Readings!Read(c, m) = Read(c, m)
    BY ReadingsNumbers, ReadingsDays, Zenon DEF Readings!Read, Read
<1>3. \A mo : Readings!DayLimit(mo, p) = DayLimit(mo, p)
    BY ReadingsNumbers, Zenon DEF Readings!DayLimit, DayLimit, Readings!DaysInMonth, DaysInMonth
<1>4. Readings!Accepted(c, p) <=> Accepted(c, p)
    BY <1>3, ReadingsNumbers, Zenon DEF Readings!Accepted, Accepted
<1> QED
    BY <1>1, <1>2, <1>4

LEMMA ReadingsDigits ==
    /\ \A c, m, s, d : Readings!Adjust(c, m, s, d) = Adjust(c, m, s, d)
    /\ \A c, f : Readings!Most(c, f) = Most(c, f)
    /\ \A f : Readings!Least(f) = Least(f)
    /\ \A s : Readings!Component(s) = Component(s) /\ Readings!High(s) = High(s)
    /\ Readings!Components = Components /\ Readings!Deltas = Deltas
<1>1. /\ \A s : Readings!Component(s) = Component(s) /\ Readings!High(s) = High(s)
      /\ Readings!Components = Components /\ Readings!Deltas = Deltas /\ Readings!Far = Far
      /\ \A f : Readings!Least(f) = Least(f)
    BY Zenon DEF Readings!Component, Component, Readings!Components, Components, Readings!High, High,
                 Readings!Deltas, Deltas,
                 Readings!Far, Far, Readings!Least, Least
<1>2. \A c, f : Readings!Most(c, f) = Most(c, f)
    BY ReadingsNumbers, Zenon DEF Readings!Most, Most
<1>3. \A n, d : Readings!Stride(n, d) = Stride(n, d)
    BY <1>1, Zenon DEF Readings!Stride, Stride
<1>4. \A n, low, high : Readings!WrapDown(n, low, high) = WrapDown(n, low, high)
      /\ Readings!WrapUp(n, low) = WrapUp(n, low)
    BY Zenon DEF Readings!WrapDown, WrapDown, Readings!WrapUp, WrapUp
<1>5. ASSUME NEW n, NEW min, NEW max, NEW h, NEW d
      PROVE  Readings!Turned(n, min, max, h, d) = Turned(n, min, max, h, d)
    BY <1>3, <1>4 DEF Readings!Turned, Turned
<1>6. \A c, f, n, m : Readings!Stored(c, f, n, m) = Stored(c, f, n, m)
    BY ReadingsNumbers, Zenon DEF Readings!Stored, Stored
<1>7. ASSUME NEW c, NEW m, NEW s, NEW d
      PROVE  Readings!Adjust(c, m, s, d) = Adjust(c, m, s, d)
    BY <1>1, <1>2, <1>5, <1>6, ReadingsNumbers, Zenon DEF Readings!Adjust, Adjust
<1> QED
    BY <1>1, <1>2, <1>7, Zenon

LEMMA ClockNumbers ==
    /\ \A n : Clock!Bcd(n) = Bcd(n) /\ Clock!Num(n) = Num(n)
    /\ \A v : Clock!Hour24(v) = Hour24(v)
    /\ \A v, m : Clock!HourReg(v, m) = HourReg(v, m)
    /\ \A y, m : Clock!DaysOf(y, m) = DaysOf(y, m)
    /\ \A c, f : Clock!Value(c, f) = Value(c, f)
<1>1. \A n : Clock!Bcd(n) = Bcd(n) /\ Clock!Num(n) = Num(n)
    BY DEF Clock!Bcd, Bcd, Clock!Num, Num
<1>2. Clock!PM = PM /\ Clock!Noon = Noon
    BY <1>1 DEF Clock!PM, PM, Clock!Noon, Noon
<1>3. \A v : Clock!Hour24(v) = Hour24(v)
    BY <1>1, <1>2, Zenon DEF Clock!Hour24, Hour24
<1>4. \A v, m : Clock!HourReg(v, m) = HourReg(v, m)
    BY <1>1, <1>2, Zenon DEF Clock!HourReg, HourReg
<1>5. \A y, m : Clock!DaysOf(y, m) = DaysOf(y, m)
    BY Zenon DEF Clock!DaysOf, DaysOf, Clock!Leap, Leap, Clock!DaysInMonth, DaysInMonth
<1>6. \A c, f : Clock!Value(c, f) = Value(c, f)
    BY <1>1, <1>3, Zenon DEF Clock!Value, Value
<1> QED
    BY <1>1, <1>3, <1>4, <1>5, <1>6, Zenon

LEMMA ClockDays ==
    ASSUME NEW c
    PROVE  Clock!Weekday(c) = Weekday(c) /\ Clock!NextDay(c) = NextDay(c)
<1>1. Clock!DaysBefore = DaysBefore
    BY Zenon DEF Clock!DaysBefore, DaysBefore, Clock!DaysInMonth, DaysInMonth
<1>2. Clock!Weekday(c) = Weekday(c)
    BY <1>1, ClockNumbers DEF Clock!Weekday, Weekday, Clock!Within, Within, Clock!AtLeastOne, AtLeastOne,
                           Clock!Leap, Leap
<1>3. Clock!NextDay(c) = NextDay(c)
    BY ClockNumbers, Zenon DEF Clock!NextDay, NextDay
<1> QED
    BY <1>2, <1>3

LEMMA ClockTexts ==
    ASSUME NEW c, NEW m, NEW p
    PROVE  /\ Clock!Text(c) = Text(c) /\ Clock!Read(c, m) = Read(c, m)
           /\ Clock!Accepted(c, p) <=> Accepted(c, p)
<1>1. Clock!Text(c) = Text(c)
    BY ClockNumbers, Zenon DEF Clock!Text, Text
<1>2. Clock!Read(c, m) = Read(c, m)
    BY ClockNumbers, ClockDays, Zenon DEF Clock!Read, Read
<1>3. \A mo : Clock!DayLimit(mo, p) = DayLimit(mo, p)
    BY ClockNumbers, Zenon DEF Clock!DayLimit, DayLimit, Clock!DaysInMonth, DaysInMonth
<1>4. Clock!Accepted(c, p) <=> Accepted(c, p)
    BY <1>3, ClockNumbers, Zenon DEF Clock!Accepted, Accepted
<1> QED
    BY <1>1, <1>2, <1>4

LEMMA ClockDigits ==
    /\ \A c, m, s, d : Clock!Adjust(c, m, s, d) = Adjust(c, m, s, d)
    /\ \A c, f : Clock!Most(c, f) = Most(c, f)
    /\ \A f : Clock!Least(f) = Least(f)
    /\ \A s : Clock!Component(s) = Component(s) /\ Clock!High(s) = High(s)
    /\ Clock!Components = Components /\ Clock!Deltas = Deltas
<1>1. /\ \A s : Clock!Component(s) = Component(s) /\ Clock!High(s) = High(s)
      /\ Clock!Components = Components /\ Clock!Deltas = Deltas /\ Clock!Far = Far
      /\ \A f : Clock!Least(f) = Least(f)
    BY Zenon DEF Clock!Component, Component, Clock!Components, Components, Clock!High, High, Clock!Deltas, Deltas,
                 Clock!Far, Far, Clock!Least, Least
<1>2. \A c, f : Clock!Most(c, f) = Most(c, f)
    BY ClockNumbers, Zenon DEF Clock!Most, Most
<1>3. \A n, d : Clock!Stride(n, d) = Stride(n, d)
    BY <1>1, Zenon DEF Clock!Stride, Stride
<1>4. \A n, low, high : Clock!WrapDown(n, low, high) = WrapDown(n, low, high)
      /\ Clock!WrapUp(n, low) = WrapUp(n, low)
    BY Zenon DEF Clock!WrapDown, WrapDown, Clock!WrapUp, WrapUp
<1>5. ASSUME NEW n, NEW min, NEW max, NEW h, NEW d
      PROVE  Clock!Turned(n, min, max, h, d) = Turned(n, min, max, h, d)
    BY <1>3, <1>4 DEF Clock!Turned, Turned
<1>6. \A c, f, n, m : Clock!Stored(c, f, n, m) = Stored(c, f, n, m)
    BY ClockNumbers, Zenon DEF Clock!Stored, Stored
<1>7. ASSUME NEW c, NEW m, NEW s, NEW d
      PROVE  Clock!Adjust(c, m, s, d) = Adjust(c, m, s, d)
    BY <1>1, <1>2, <1>5, <1>6, ClockNumbers, Zenon DEF Clock!Adjust, Adjust
<1> QED
    BY <1>1, <1>2, <1>7, Zenon

-----------------------------------------------------------------------------
(* The calendar's days, and the hours and texts of some of them.            *)

LEMMA FirstDay ==
    ASSUME NEW y \in 0..99, NEW m \in BOOLEAN, NEW c,
           c = [year |-> Bcd(y), month |-> 1, day |-> 1, hour |-> 0,
                wday |-> (6 + y * 365 + (y + 3) \div 4) % 7, minute |-> Bcd(34), second |-> 9]
    PROVE  Moment(c, m)
<1>1. /\ c.year = Bcd(y) /\ c.month = Bcd(1) /\ c.day = Bcd(1) /\ c.hour = 0
      /\ c.minute = Bcd(34) /\ c.second = Bcd(9)
      /\ c.wday = (6 + y * 365 + (y + 3) \div 4) % 7 /\ c.wday \in Int
    BY DEF Bcd
<1>2. HourReg(Bcd(0), m) = 0 /\ Bcd(Num(Hour24(0))) = Bcd(0)
    BY DEF HourReg, Hour24, Bcd, Num, Noon, PM
<1>3. c \in Shown
    <2>1. /\ c.year \in Bcds(0, 99) /\ c.month \in Bcds(1, 12) /\ c.day \in Bcds(1, 99)
          /\ c.minute \in Bcds(0, 59) /\ c.second \in Bcds(0, 59)
        BY <1>1, BcdIn
    <2>2. c.hour \in Registers
        BY <1>1, <1>2, HourStored
    <2> QED
        BY <1>1, <2>1, <2>2 DEF Shown
<1>4. Exists(c)
    BY <1>1, BcdRead, MonthDays DEF Exists, DaysOf
<1>5. Weekday(c) = DayNumber(y, 1, 1) % 7
    <2>1. PICK one \in 1..12 : one = 1 /\ one \in 1..99
        OBVIOUS
    <2>2. c.year = Bcd(y) /\ c.month = Bcd(one) /\ c.day = Bcd(one)
        BY <1>1, <2>1
    <2>3. Weekday(c) = DayNumber(y, one, one) % 7
        BY <2>1, <2>2, WeekdayIs, Zenon
    <2> QED
        BY <2>1, <2>3, Zenon
<1>6. DayNumber(y, 1, 1) = 6 + y * 365 + (y + 3) \div 4
    BY MonthsBefore DEF DayNumber
<1> QED
    BY <1>1, <1>2, <1>3, <1>4, <1>5, <1>6 DEF Moment

LEMMA CalendarBegins ==
    ASSUME Calendar!Init
    PROVE  Moment(dt, CalendarOf.Hours24)
<1>1. CalendarOf.FirstYear \in 0..99 /\ CalendarOf.Hours24 \in BOOLEAN
    BY PartsAssumption DEF Calendar!CalendarAssumption
<1>2. dt = [year |-> Bcd(CalendarOf.FirstYear), month |-> 1, day |-> 1, hour |-> 0,
            wday |-> (6 + CalendarOf.FirstYear * 365 + (CalendarOf.FirstYear + 3) \div 4) % 7,
            minute |-> Bcd(34), second |-> 9]
    BY CalendarNumbers DEF Calendar!Init
<1> QED
    BY <1>1, <1>2, FirstDay

LEMMA CalendarKept ==
    ASSUME Moment(dt, CalendarOf.Hours24), [Calendar!Next]_(Calendar!vars)
    PROVE  Moment(dt, CalendarOf.Hours24)'
<1>1. CalendarOf.Hours24 \in BOOLEAN /\ CalendarOf.Hours24' = CalendarOf.Hours24
    BY PartsAssumption DEF Calendar!CalendarAssumption
<1>2. CASE Calendar!Tomorrow
    <2>1. dt' = NextDay(dt) /\ dt'.year >= dt.year
        BY <1>2, CalendarDays DEF Calendar!Tomorrow
    <2> QED
        BY <1>1, <2>1, DayGoesOn
<1>3. CASE Calendar!Later
    <2>1. /\ dt' = [dt EXCEPT !.hour = HourReg(Bcd(Value(dt, "hour") + 1), CalendarOf.Hours24)]
          /\ Value(dt, "hour") < 23
        BY <1>3, CalendarNumbers DEF Calendar!Later
    <2> QED
        BY <1>1, <2>1, HourGoesOn
<1>4. CASE UNCHANGED Calendar!vars
    BY <1>1, <1>4 DEF Calendar!vars
<1> QED
    BY <1>2, <1>3, <1>4 DEF Calendar!Next

(* rtc.c, for any years of the hundred: the weekday that the program finds  *)
(* for a day is that of the day before it, and one.                         *)
THEOREM WeekdaysGoOn == Calendar!Init /\ [][Calendar!Next]_(Calendar!vars) => []Calendar!WeekdaysFollow
<1>1. Moment(dt, CalendarOf.Hours24) => Calendar!WeekdaysFollow
    BY CalendarDays DEF Moment, Calendar!WeekdaysFollow
<1> QED
    BY <1>1, CalendarBegins, CalendarKept, PTL

LEMMA ReadingsBegin ==
    ASSUME Readings!Init
    PROVE  Moment(dt, ReadingsOf.Hours24)
<1>1. ReadingsOf.FirstYear \in 0..99 /\ ReadingsOf.Hours24 \in BOOLEAN
    BY PartsAssumption DEF Readings!CalendarAssumption
<1>2. dt = [year |-> Bcd(ReadingsOf.FirstYear), month |-> 1, day |-> 1, hour |-> 0,
            wday |-> (6 + ReadingsOf.FirstYear * 365 + (ReadingsOf.FirstYear + 3) \div 4) % 7,
            minute |-> Bcd(34), second |-> 9]
    BY ReadingsNumbers DEF Readings!Init
<1> QED
    BY <1>1, <1>2, FirstDay

LEMMA ReadingsKept ==
    ASSUME Moment(dt, ReadingsOf.Hours24), [Readings!Next]_(Readings!vars)
    PROVE  Moment(dt, ReadingsOf.Hours24)'
<1>1. ReadingsOf.Hours24 \in BOOLEAN /\ ReadingsOf.Hours24' = ReadingsOf.Hours24
    BY PartsAssumption DEF Readings!CalendarAssumption
<1>2. CASE Readings!Tomorrow
    <2>1. dt' = NextDay(dt) /\ dt'.year >= dt.year
        BY <1>2, ReadingsDays DEF Readings!Tomorrow
    <2> QED
        BY <1>1, <2>1, DayGoesOn
<1>3. CASE Readings!Later
    <2>1. /\ dt' = [dt EXCEPT !.hour = HourReg(Bcd(Value(dt, "hour") + 1), ReadingsOf.Hours24)]
          /\ Value(dt, "hour") < 23
        BY <1>3, ReadingsNumbers DEF Readings!Later
    <2> QED
        BY <1>1, <2>1, HourGoesOn
<1>4. CASE UNCHANGED Readings!vars
    BY <1>1, <1>4 DEF Readings!vars
<1> QED
    BY <1>2, <1>3, <1>4 DEF Readings!Next

LEMMA ReadingsFit ==
    ASSUME Moment(dt, ReadingsOf.Hours24)
    PROVE  Readings!TextsReadBack /\ Readings!DigitsStayInRange /\ Readings!LowDigitsReturn
<1> DEFINE m == ReadingsOf.Hours24
<1>1. m \in BOOLEAN
    BY PartsAssumption DEF Readings!CalendarAssumption
<1>2. dt \in Shown /\ Exists(dt) /\ dt.hour = HourReg(Bcd(Num(Hour24(dt.hour))), m)
    BY DEF Moment
<1>3. Readings!TextsReadBack
    <2>1. Read(Text(dt), m) = dt /\ (Accepted(Text(dt), past) \/ dt.month >= Bcd(10))
        BY <1>1, TextBack, Zenon
    <2> QED
        BY <2>1, ReadingsTexts, ReadingsNumbers, Zenon DEF Readings!TextsReadBack
<1>4. Readings!DigitsStayInRange
    <2>1. ASSUME NEW s \in 0..11, NEW delta \in Deltas
          PROVE  LET new == Readings!Adjust(dt, m, s, delta)
                     c   == Readings!Component(s)
                 IN  /\ Readings!Value(new, c) \in Readings!Least(c)..Readings!Most(dt, c)
                     /\ \A o \in {Readings!Components[k] : k \in 1..6} \ {c} : new[o] = dt[o]
        <3> DEFINE new == Adjust(dt, m, s, delta)
                   c   == Component(s)
        <3>1. /\ Value(new, c) \in Least(c)..Most(dt, c)
              /\ \A o \in {Components[k] : k \in 1..6} \ {c} : new[o] = dt[o]
            BY <1>1, <1>2, AdjustedIn, FieldsAre, Zenon
        <3>2. /\ Readings!Adjust(dt, m, s, delta) = new /\ Readings!Component(s) = c
              /\ Readings!Value(new, c) = Value(new, c) /\ Readings!Least(c) = Least(c)
              /\ Readings!Most(dt, c) = Most(dt, c) /\ Readings!Components = Components
            BY ReadingsDigits, ReadingsNumbers, Zenon
        <3> QED
            BY <3>1, <3>2, Zenon
    <2>2. Readings!Deltas = Deltas
        BY ReadingsDigits
    <2> QED
        BY <2>1, <2>2, Zenon DEF Readings!DigitsStayInRange
<1>5. Readings!LowDigitsReturn
    <2> SUFFICES ASSUME NEW s \in 0..11, ~High(s)
                 PROVE  Adjust(Adjust(dt, m, s, -1), m, s, 1) = dt
        BY ReadingsDigits DEF Readings!LowDigitsReturn
    <2> QED
        BY <1>1, <1>2, LowReturns, Zenon
<1> QED
    BY <1>3, <1>4, <1>5

(* rtc.c, shell.c, for any years and either mode: a time that is told in a  *)
(* text is read back, though it may be refused in the last three months;    *)
(* digits that are turned make a number of their component, the others are  *)
(* as they were, and a low digit turned down is turned up again.            *)
THEOREM TextsAndDigits ==
    Readings!Init /\ [][Readings!Next]_(Readings!vars) =>
        [](Readings!TextsReadBack /\ Readings!DigitsStayInRange /\ Readings!LowDigitsReturn)
BY ReadingsBegin, ReadingsKept, ReadingsFit, PTL

-----------------------------------------------------------------------------
(* The clock's time: what the editor turns and what the shell sets.         *)

LEMMA DigitsAre == Clock!Digits = {-1} \cup Bcds(0, 99)
BY ClockNumbers, Zenon DEF Clock!Digits, Bcds

LEMMA DigitsIn ==
    ASSUME NEW d \in Clock!Digits, NEW low \in 0..1, NEW high \in 0..99, d >= low, d <= Bcd(high)
    PROVE  d \in Bcds(low, high)
<1>1. d # -1
    OBVIOUS
<1>2. PICK n \in 0..99 : d = Bcd(n)
    BY <1>1, DigitsAre, Zenon DEF Bcds
<1>3. n <= high /\ n >= low
    BY <1>2, BcdOrder, Named
<1> QED
    BY <1>2, <1>3 DEF Bcds

LEMMA DigitsNamed ==
    ASSUME NEW d \in Clock!Digits
    PROVE  /\ d >= 1 /\ d <= 18 => d \in Bcds(1, 12)
           /\ d >= 1 => d \in Bcds(1, 99)
           /\ d >= 0 /\ d <= 35 => d \in Bcds(0, 23)
           /\ d >= 0 /\ d <= 89 => d \in Bcds(0, 59)
<1>1. ASSUME d >= 1, d <= 18 PROVE d \in Bcds(1, 12)
    BY <1>1, DigitsIn, Named
<1>2. ASSUME d >= 1 PROVE d \in Bcds(1, 99)
    <2>1. PICK n \in 0..99 : d = Bcd(n)
        BY <1>2, DigitsAre DEF Bcds
    <2>2. n # 0
        BY <1>2, <2>1, Named
    <2> QED
        BY <2>1, <2>2 DEF Bcds
<1>3. ASSUME d >= 0, d <= 35 PROVE d \in Bcds(0, 23)
    BY <1>3, DigitsIn, Named
<1>4. ASSUME d >= 0, d <= 89 PROVE d \in Bcds(0, 59)
    BY <1>4, DigitsIn, Named
<1> QED
    BY <1>1, <1>2, <1>3, <1>4

(* A text that is accepted tells a date and a time; how many days its month *)
(* may have depends on what follows days_in_month.                          *)
LEMMA AcceptedTells ==
    ASSUME NEW t \in Clock!TextRec, NEW p, Accepted(t, p)
    PROVE  t \in NumberTexts /\ \E y, mo, d, h : Tells(t, y, mo, d, h)
<1>1. /\ t.month \in Clock!Digits /\ t.day \in Clock!Digits /\ t.hour \in Clock!Digits
      /\ t.minute \in Clock!Digits /\ t.second \in Clock!Digits
      /\ t.year \in {-1} \cup Clock!Years
      /\ t = [year |-> t.year, month |-> t.month, day |-> t.day,
              hour |-> t.hour, minute |-> t.minute, second |-> t.second]
    BY DEF Clock!TextRec
<1>2. PICK y \in 0..99 : t.year = 32 * 256 + Bcd(y)
    <2>1. t.year \in 32 * 256 .. 32 * 256 + 153
        BY Named DEF Accepted
    <2>2. t.year \in Clock!Years
        BY <1>1, <2>1
    <2>3. PICK c \in 0..99 : t.year \in {Clock!Int16(256 * Clock!Bcd(c) + Clock!Bcd(n)) : n \in 0..99}
        BY <2>2 DEF Clock!Years
    <2>4. PICK n \in 0..99 : t.year = Clock!Int16(256 * Clock!Bcd(c) + Clock!Bcd(n))
        BY <2>3
    <2>5. t.year = Clock!Int16(256 * Bcd(c) + Bcd(n))
        BY <2>4, ClockNumbers
    <2>6. PICK a \in 0..153, b \in 0..153 : Bcd(c) = a /\ Bcd(n) = b
        BY BcdRead
    <2>7. t.year = 32 * 256 + b
        BY <2>1, <2>5, <2>6 DEF Clock!Int16
    <2> QED
        BY <2>6, <2>7
<1>3. t.month \in Bcds(1, 12)
    <2>1. t.month >= 1 /\ t.month <= 18
        BY Named DEF Accepted
    <2> QED
        BY <1>1, <2>1, DigitsNamed
<1>4. PICK mo \in 1..12 : t.month = Bcd(mo)
    BY <1>3 DEF Bcds
<1>6. t.day \in Bcds(1, 99)
    <2>1. t.day >= 1
        BY DEF Accepted
    <2> QED
        BY <1>1, <2>1, DigitsNamed
<1>7. t.hour \in Bcds(0, 23) /\ t.minute \in Bcds(0, 59) /\ t.second \in Bcds(0, 59)
    <2>1. /\ t.hour >= 0 /\ t.hour <= 35 /\ t.minute >= 0 /\ t.minute <= 89
          /\ t.second >= 0 /\ t.second <= 89
        BY Named DEF Accepted
    <2> QED
        BY <1>1, <2>1, DigitsNamed
<1>8. PICK d \in 1..99, h \in 0..23 : t.day = Bcd(d) /\ t.hour = Bcd(h)
    BY <1>6, <1>7 DEF Bcds
<1>9. t \in NumberTexts
    <2>1. \A v \in Bcds(0, 99) \cup Bcds(0, 59) \cup Bcds(0, 23) \cup Bcds(1, 99) \cup Bcds(1, 12) : v \in Int
        BY BcdInt DEF Bcds
    <2>2. t.year \in Int
        BY <1>2, BcdInt
    <2> QED
        BY <1>1, <1>3, <1>6, <1>7, <2>1, <2>2 DEF NumberTexts
<1>10. Tells(t, y, mo, d, h)
    BY <1>2, <1>4, <1>7, <1>8 DEF Tells
<1> QED
    BY <1>9, <1>10

LEMMA TimesTell ==
    ASSUME NEW t \in Clock!TimeRec
    PROVE  t \in NumberTexts /\ \E y, mo, d, h : Tells(t, y, mo, d, h)
<1>1. /\ t.year \in {256 * Bcd(20) + Bcd(y) : y \in 0..99} /\ t.month \in Bcds(1, 12)
      /\ t.day \in Bcds(1, 99) /\ t.hour \in Bcds(0, 23)
      /\ t.minute \in Bcds(0, 59) /\ t.second \in Bcds(0, 59)
      /\ t = [year |-> t.year, month |-> t.month, day |-> t.day,
              hour |-> t.hour, minute |-> t.minute, second |-> t.second]
    BY ClockNumbers DEF Clock!TimeRec, Bcds
<1>2. PICK y \in 0..99 : t.year = 32 * 256 + Bcd(y)
    BY <1>1, Named
<1>3. PICK mo \in 1..12 : t.month = Bcd(mo)
    BY <1>1 DEF Bcds
<1>4. PICK d \in 1..99, h \in 0..23 : t.day = Bcd(d) /\ t.hour = Bcd(h)
    BY <1>1 DEF Bcds
<1>5. t \in NumberTexts
    <2>1. \A v \in Bcds(0, 59) \cup Bcds(0, 23) \cup Bcds(1, 99) \cup Bcds(1, 12) : v \in Int
        BY BcdInt DEF Bcds
    <2>2. t.year \in Int
        BY <1>2, BcdInt
    <2> QED
        BY <1>1, <2>1, <2>2 DEF NumberTexts
<1>6. Tells(t, y, mo, d, h)
    BY <1>1, <1>2, <1>3, <1>4 DEF Tells
<1> QED
    BY <1>5, <1>6

LEMMA ReadTells ==
    ASSUME NEW m \in BOOLEAN, NEW t \in NumberTexts, \E y, mo, d, h : Tells(t, y, mo, d, h)
    PROVE  Clock!Read(t, m) \in Shown /\ Clock!Read(t, m).wday = Weekday(Clock!Read(t, m))
<1>1. PICK y, mo, d, h : Tells(t, y, mo, d, h)
    OBVIOUS
<1>2. Read(t, m) \in Shown /\ Read(t, m).wday = Weekday(Read(t, m))
    BY <1>1, ReadIsShown, Zenon
<1> QED
    BY <1>2, ClockTexts, Zenon

LEMMA SameDay ==
    ASSUME NEW c, NEW e, c.year = e.year, c.month = e.month, c.day = e.day
    PROVE  Weekday(c) = Weekday(e)
BY DEF Weekday

LEMMA WithWeekday ==
    ASSUME NEW c \in Shown
    PROVE  LET w == [c EXCEPT !.wday = Weekday(c)]
           IN  w \in Shown /\ w.wday = Weekday(w)
<1> DEFINE w == [c EXCEPT !.wday = Weekday(c)]
<1>1. Weekday(c) \in Int
    <2>1. /\ c.year \in Bcds(0, 99) /\ c.month \in Bcds(1, 12) /\ c.day \in Bcds(1, 99)
        BY DEF Shown
    <2>2. PICK y \in 0..99 : c.year = Bcd(y)
        BY <2>1 DEF Bcds
    <2>3. PICK m \in 1..12 : c.month = Bcd(m)
        BY <2>1 DEF Bcds
    <2>4. PICK d \in 1..99 : c.day = Bcd(d)
        BY <2>1 DEF Bcds
    <2>5. Weekday(c) = DayNumber(y, m, d) % 7
        BY <2>2, <2>3, <2>4, WeekdayIs
    <2>6. DayNumber(y, m, d) \in Nat
        BY NumbersFollow
    <2> HIDE DEF DayNumber
    <2> QED
        BY <2>5, <2>6
<1>2. w \in Shown /\ w.wday = Weekday(c) /\ w.year = c.year /\ w.month = c.month /\ w.day = c.day
    BY <1>1 DEF Shown
<1>3. Weekday(w) = Weekday(c)
    BY <1>2, SameDay
<1> QED
    BY <1>2, <1>3

LEMMA Carried ==
    ASSUME NEW f \in Bcds(0, 59)
    PROVE  Clock!Carry(f) \in Bcds(0, 59)
<1>1. PICK n \in 0..59 : f = Bcd(n)
    BY DEF Bcds
<1>2. Clock!Carry(f) = IF n = 59 THEN Bcd(0) ELSE Bcd(n + 1)
    <2>1. Clock!Carry(f) = IF f = Bcd(59) THEN 0 ELSE Bcd(Num(f) + 1)
        BY ClockNumbers, Zenon DEF Clock!Carry
    <2>2. PICK last \in 0..99 : last = 59
        OBVIOUS
    <2>3. n \in 0..99
        OBVIOUS
    <2>4. Num(f) = n
        BY <1>1, <2>3, BcdRead
    <2>5. Bcd(n) = Bcd(last) <=> n = last
        BY <2>3, BcdOrder, Zenon
    <2> QED
        BY <1>1, <2>1, <2>2, <2>4, <2>5, Named
<1>3. CASE n = 59
    BY <1>2, <1>3, BcdIn
<1>4. CASE n # 59
    <2>1. n + 1 \in 0..59
        BY <1>4
    <2> QED
        BY <1>2, <1>4, <2>1 DEF Bcds
<1> QED
    BY <1>3, <1>4

(* A second later: the time is one that can be shown, and a weekday that    *)
(* fits goes on fitting.                                                    *)
LEMMA SecondGoesOn ==
    ASSUME h24 \in BOOLEAN, NEW c \in Shown, Exists(c), Clock!NextSecond(c).year >= c.year
    PROVE  /\ Clock!NextSecond(c) \in Shown
           /\ c.wday = Weekday(c) => Clock!NextSecond(c).wday = Weekday(Clock!NextSecond(c))
<1> DEFINE s == c.second = Bcd(59)
           m == s /\ c.minute = Bcd(59)
           r == HourReg(Bcd((Value(c, "hour") + 1) % 24), h24)
           time == [c EXCEPT !.second = Clock!Carry(@), !.minute = IF s THEN Clock!Carry(@) ELSE @,
                             !.hour = IF m THEN r ELSE @]
           last == m /\ Hour24(c.hour) = Bcd(23)
<1>1. Clock!NextSecond(c) = IF last THEN NextDay(time) ELSE time
    BY ClockNumbers, ClockDays, Zenon DEF Clock!NextSecond
<1>2. r \in Registers
    <2>1. Value(c, "hour") \in 0..23
        BY HourNow DEF Value, Shown
    <2>2. PICK h \in 0..23 : h = (Value(c, "hour") + 1) % 24
        BY <2>1
    <2> QED
        BY <2>2, HourStored
<1>3. Clock!Carry(c.second) \in Bcds(0, 59) /\ Clock!Carry(c.minute) \in Bcds(0, 59)
    BY Carried DEF Shown
<1> HIDE DEF r
<1>4. /\ time \in Shown /\ time.wday = c.wday
      /\ time.year = c.year /\ time.month = c.month /\ time.day = c.day
    <2>1. PICK a \in Bcds(0, 59) : a = Clock!Carry(c.second)
        BY <1>3
    <2>2. PICK b \in Bcds(0, 59) : b = IF s THEN Clock!Carry(c.minute) ELSE c.minute
        BY <1>3 DEF Shown
    <2>3. PICK g \in Registers : g = IF m THEN r ELSE c.hour
        BY <1>2 DEF Shown
    <2>4. time = [c EXCEPT !.second = a, !.minute = b, !.hour = g]
        BY <2>1, <2>2, <2>3, Zenon
    <2> HIDE DEF time
    <2> QED
        BY <2>4 DEF Shown
<1> HIDE DEF time
<1>5. Exists(time) /\ Weekday(time) = Weekday(c)
    BY <1>4, SameDay DEF Exists
<1>6. CASE last
    <2>1. NextDay(time).year >= time.year
        BY <1>1, <1>4, <1>6
    <2> QED
        BY <1>1, <1>4, <1>5, <1>6, <2>1, DayFollows
<1>7. CASE ~last
    BY <1>1, <1>4, <1>5, <1>7
<1> QED
    BY <1>6, <1>7

(* The clock and the editor show times, and the weekday of what the program *)
(* has written fits.                                                        *)
ClockInv ==
    /\ chip \in Shown /\ seen \in Shown /\ h24 \in BOOLEAN
    /\ wrote => chip.wday = Weekday(chip)

LEMMA ZeroShown == Clock!Zero \in Shown
<1> DEFINE z == Clock!Zero
<1>1. /\ z.year = Bcd(0) /\ z.month = Bcd(1) /\ z.day = Bcd(1) /\ z.wday = 0
      /\ z.hour = 0 /\ z.minute = Bcd(0) /\ z.second = Bcd(0)
    BY DEF Clock!Zero, Bcd
<1>2. /\ z.year \in Bcds(0, 99) /\ z.month \in Bcds(1, 12) /\ z.day \in Bcds(1, 99)
      /\ z.minute \in Bcds(0, 59) /\ z.second \in Bcds(0, 59)
    BY <1>1, BcdIn
<1>3. z.hour \in Registers
    <2>1. PICK h \in 0..23 : HourReg(Bcd(h), TRUE) = 0
        BY DEF HourReg, Bcd, Noon
    <2> QED
        BY <1>1, <2>1, HourStored
<1> QED
    BY <1>1, <1>2, <1>3 DEF Shown, Clock!Zero

LEMMA ClockBegins == ASSUME Clock!Init PROVE ClockInv
<1>1. h24 \in BOOLEAN /\ ~wrote /\ seen \in Shown
    BY ZeroShown, Zenon DEF Clock!Init
<1>3. PICK t \in ClockOf.Times : chip = Clock!Read(t, h24)
    BY DEF Clock!Init
<1>4. t \in Clock!TimeRec
    BY <1>3, PartsAssumption DEF Clock!ClockAssumption
<1>5. chip \in Shown
    BY <1>1, <1>3, <1>4, TimesTell, ReadTells, Zenon
<1> QED
    BY <1>1, <1>5, Zenon DEF ClockInv

LEMMA ClockTurned ==
    ASSUME NEW c \in Shown, NEW s \in 0..11, NEW delta \in Clock!Deltas
    PROVE  LET new == Clock!TimeTurned(c, s, delta)
           IN  new \in Shown /\ new.wday = Weekday(new)
<1> DEFINE new == Adjust(c, TRUE, s, delta)
<1>1. new \in Shown
    BY ClockDigits, AdjustedIn, Zenon
<1>2. Clock!TimeTurned(c, s, delta) = [new EXCEPT !.wday = Weekday(new)]
    BY ClockDigits, ClockDays, Zenon DEF Clock!TimeTurned
<1> HIDE DEF new
<1> QED
    BY <1>1, <1>2, WithWeekday, Zenon

LEMMA ClockSet ==
    ASSUME NEW t \in ClockOf.Texts, Clock!Accepted(t, clockPast), NEW m \in BOOLEAN
    PROVE  LET new == Clock!ReadInMode(t, m)
           IN  new \in Shown /\ new.wday = Weekday(new)
<1>1. t \in Clock!TextRec
    BY PartsAssumption DEF Clock!ClockAssumption
<1>2. Accepted(t, clockPast)
    BY ClockTexts, Zenon
<1>4. t \in NumberTexts /\ \E y, mo, d, h : Tells(t, y, mo, d, h)
    BY <1>1, <1>2, AcceptedTells, Zenon
<1> QED
    BY <1>4, ReadTells, Zenon DEF Clock!ReadInMode

LEMMA ClockKept ==
    ASSUME ClockInv, [Clock!Next]_(Clock!vars)
    PROVE  ClockInv'
<1>1. CASE Clock!Tick
    <2>1. Exists(chip) /\ Clock!NextSecond(chip).year >= chip.year /\ chip' = Clock!NextSecond(chip)
        BY <1>1, ClockNumbers, Zenon DEF Clock!Tick, Exists
    <2>2. UNCHANGED <<seen, h24, wrote>>
        BY <1>1, Zenon DEF Clock!Tick
    <2>3. chip' \in Shown /\ (chip.wday = Weekday(chip) => chip'.wday = Weekday(chip'))
        BY <2>1, SecondGoesOn, Zenon DEF ClockInv
    <2> QED
        BY <2>2, <2>3, Zenon DEF ClockInv
<1>2. CASE Clock!Open
    <2>1. UNCHANGED <<chip, seen, wrote>> /\ (h24' = h24 \/ h24')
        BY <1>2, Zenon DEF Clock!Open
    <2>2. h24' \in BOOLEAN
        BY <1>2, Zenon DEF Clock!Open, ClockInv
    <2> QED
        BY <2>1, <2>2, Zenon DEF ClockInv
<1>3. CASE Clock!Reset
    <2>1. UNCHANGED seen
        BY <1>3, Zenon DEF Clock!Reset
    <2>2. UNCHANGED <<chip, h24, wrote>> \/ (chip' = Clock!Zero /\ ~wrote' /\ h24' \in BOOLEAN)
        BY <1>3, Zenon DEF Clock!Reset
    <2>3. CASE UNCHANGED <<chip, h24, wrote>>
        BY <2>1, <2>3, Zenon DEF ClockInv
    <2>4. CASE chip' = Clock!Zero /\ ~wrote' /\ h24' \in BOOLEAN
        BY <2>1, <2>4, ZeroShown, Zenon DEF ClockInv
    <2> QED
        BY <2>2, <2>3, <2>4
<1>4. CASE Clock!First \/ Clock!Look
    <2>1. UNCHANGED <<chip, h24, wrote>> /\ (seen' = chip \/ seen' = seen)
        BY <1>4, Zenon DEF Clock!First, Clock!Look, Clock!clock
    <2> QED
        BY <2>1, Zenon DEF ClockInv
<1>5. CASE Clock!NoKey \/ Clock!Move \/ Clock!Leave \/ UNCHANGED Clock!vars
    <2>1. UNCHANGED <<chip, h24, wrote, seen>>
        BY <1>5, Zenon DEF Clock!NoKey, Clock!Move, Clock!Leave, Clock!clock, Clock!vars
    <2> QED
        BY <2>1, Zenon DEF ClockInv
<1>6. CASE Clock!Turn
    <2>1. sel \in 0..11
        BY <1>6, PartsAssumption DEF Clock!Turn, Clock!ClockAssumption
    <2>2. PICK delta \in Clock!Deltas : seen' = Clock!TimeTurned(seen, sel, delta)
        BY <1>6, Zenon DEF Clock!Turn
    <2>3. UNCHANGED h24 /\ (chip' = seen' \/ UNCHANGED <<chip, wrote>>)
        BY <1>6, Zenon DEF Clock!Turn
    <2>4. seen' \in Shown /\ seen'.wday = Weekday(seen')
        BY <2>1, <2>2, ClockTurned, Zenon DEF ClockInv
    <2>5. CASE chip' = seen'
        BY <2>3, <2>4, <2>5, Zenon DEF ClockInv
    <2>6. CASE UNCHANGED <<chip, wrote>>
        BY <2>3, <2>4, <2>6, Zenon DEF ClockInv
    <2> QED
        BY <2>3, <2>5, <2>6
<1>7. CASE Clock!ShellSet
    <2>1. UNCHANGED seen
        BY <1>7, Zenon DEF Clock!ShellSet
    <2>2. CASE UNCHANGED Clock!clock
        BY <2>1, <2>2, Zenon DEF ClockInv, Clock!clock
    <2>3. CASE chip' = Clock!Zero /\ h24' \in BOOLEAN /\ ~wrote'
        BY <2>1, <2>3, ZeroShown, Zenon DEF ClockInv
    <2>4. ASSUME NEW t \in ClockOf.Texts, h24' = (lost \/ h24),
                 chip' = IF Clock!Accepted(t, clockPast) THEN Clock!ReadInMode(t, h24')
                         ELSE IF lost THEN Clock!Zero ELSE chip,
                 wrote' = (Clock!Accepted(t, clockPast) \/ (wrote /\ ~lost))
          PROVE  ClockInv'
        <3>1. h24' \in BOOLEAN
            BY <2>4, Zenon DEF ClockInv
        <3>2. CASE Clock!Accepted(t, clockPast)
            <4>1. chip' \in Shown /\ chip'.wday = Weekday(chip')
                BY <2>4, <3>1, <3>2, ClockSet, Zenon
            <4> QED
                BY <2>1, <3>1, <4>1, Zenon DEF ClockInv
        <3>3. CASE ~Clock!Accepted(t, clockPast)
            BY <2>1, <2>4, <3>1, <3>3, ZeroShown, Zenon DEF ClockInv
        <3> QED
            BY <3>2, <3>3
    <2> QED
        BY <1>7, <2>2, <2>3, <2>4, Zenon DEF Clock!ShellSet
<1> QED
    BY <1>1, <1>2, <1>3, <1>4, <1>5, <1>6, <1>7, Zenon DEF Clock!Next

(* ui_settings.c, rtc.c, shell.c, for any times, texts and failures and     *)
(* whatever follows days_in_month: the weekday of a time that the editor or *)
(* the shell has written is its date's, however the clock goes on and       *)
(* whichever of them writes next.                                           *)
THEOREM WrittenFits == Clock!Init /\ [][Clock!Next]_(Clock!vars) => []Clock!WeekdayFits
<1>1. ClockInv => Clock!WeekdayFits
    BY ClockDays, Zenon DEF ClockInv, Clock!WeekdayFits
<1> QED
    BY <1>1, ClockBegins, ClockKept, PTL

LEMMA TextTold ==
    ASSUME NEW t \in Clock!TextRec, NEW p, Accepted(t, p), NEW m \in BOOLEAN
    PROVE  Text(Read(t, m)) = t /\ (m \/ Read(t, m).hour % PM < Noon)
<1>1. /\ t.hour \in Clock!Digits
      /\ t = [year |-> t.year, month |-> t.month, day |-> t.day,
              hour |-> t.hour, minute |-> t.minute, second |-> t.second]
    BY DEF Clock!TextRec
<1>2. t.hour \in Bcds(0, 23)
    <2>1. t.hour >= 0 /\ t.hour <= 35
        BY Named DEF Accepted
    <2> QED
        BY <1>1, <2>1, DigitsNamed
<1>3. PICK h \in 0..23 : t.hour = Bcd(h)
    BY <1>2 DEF Bcds
<1>4. Hour24(HourReg(t.hour, m)) = t.hour /\ (m \/ HourReg(t.hour, m) % PM < Noon)
    BY <1>3, HourReadBack
<1>5. Bcd(20) * 256 + (t.year % 256) = t.year
    BY Named DEF Accepted
<1> DEFINE r == Read(t, m)
<1>6. /\ r.year = t.year % 256 /\ r.month = t.month /\ r.day = t.day
      /\ r.hour = HourReg(t.hour, m) /\ r.minute = t.minute /\ r.second = t.second
    BY TextFields
<1> HIDE DEF r
<1>7. Text(r) = [year |-> t.year, month |-> t.month, day |-> t.day,
                 hour |-> t.hour, minute |-> t.minute, second |-> t.second]
    BY <1>4, <1>5, <1>6, Zenon DEF Text
<1> QED
    BY <1>1, <1>4, <1>6, <1>7, Zenon DEF r

SetInv == sets \in Nat /\ h24 \in BOOLEAN /\ lost \in BOOLEAN

LEMMA SetKept == ASSUME SetInv, [Clock!Next]_(Clock!vars) PROVE SetInv'
<1>1. sets' \in Nat
    BY DEF SetInv, Clock!Next, Clock!Tick, Clock!Open, Clock!Reset, Clock!First, Clock!Look,
           Clock!NoKey, Clock!Move, Clock!Turn, Clock!Leave, Clock!ShellSet, Clock!clock, Clock!vars
<1>2. CASE Clock!ShellSet
    <2>1. lost' \in BOOLEAN
        BY <1>2, Zenon DEF Clock!ShellSet, SetInv, Clock!clock
    <2>2. h24' \in BOOLEAN
        BY <1>2, Zenon DEF Clock!ShellSet, SetInv, Clock!clock
    <2> QED
        BY <1>1, <2>1, <2>2, Zenon DEF SetInv
<1>3. CASE Clock!Open
    BY <1>1, <1>3, Zenon DEF Clock!Open, SetInv
<1>4. CASE Clock!Reset
    BY <1>1, <1>4, Zenon DEF Clock!Reset, SetInv, Clock!Fails
<1>5. CASE UNCHANGED <<h24, lost>>
    BY <1>1, <1>5, Zenon DEF SetInv
<1>6. Clock!Tick \/ Clock!First \/ Clock!Look \/ Clock!NoKey \/ Clock!Move \/ Clock!Turn \/ Clock!Leave
      \/ UNCHANGED Clock!vars => UNCHANGED <<h24, lost>>
    BY Zenon DEF Clock!Tick, Clock!First, Clock!Look, Clock!NoKey, Clock!Move, Clock!Turn,
                 Clock!Leave, Clock!clock, Clock!vars
<1> QED
    BY <1>2, <1>3, <1>4, <1>5, <1>6, Zenon DEF Clock!Next

LEMMA Told ==
    ASSUME SetInv, [Clock!Next]_(Clock!vars) PROVE Clock!SetIsToldStep
<1> SUFFICES ASSUME sets' > sets, wrote', chip' # chip
             PROVE  /\ \E t \in ClockOf.Texts : Clock!Text(chip') = t
                    /\ h24' \/ chip'.hour % Clock!PM < Clock!Noon
    BY DEF Clock!SetIsToldStep
<1>1. Clock!ShellSet
    <2>1. \/ Clock!Tick \/ Clock!Open \/ Clock!Reset \/ Clock!First \/ Clock!Look \/ Clock!NoKey
          \/ Clock!Move \/ Clock!Turn \/ Clock!Leave \/ UNCHANGED Clock!vars
          => sets' = sets
        BY Zenon DEF Clock!Tick, Clock!Open, Clock!Reset, Clock!First, Clock!Look, Clock!NoKey,
                     Clock!Move, Clock!Turn, Clock!Leave, Clock!vars
    <2>2. sets' # sets
        BY DEF SetInv
    <2> QED
        BY <2>1, <2>2, Zenon DEF Clock!Next
<1>2. PICK t \in ClockOf.Texts : Clock!Accepted(t, clockPast) /\ chip' = Clock!Read(t, h24')
    BY <1>1 DEF Clock!ShellSet, Clock!clock, Clock!ReadInMode
<1>3. h24' \in BOOLEAN
    BY SetKept DEF SetInv
<1>4. t \in Clock!TextRec
    BY PartsAssumption DEF Clock!ClockAssumption
<1>5. Accepted(t, clockPast) /\ chip' = Read(t, h24')
    BY <1>2, ClockTexts, Zenon
<1>6. Text(chip') = t /\ (h24' \/ chip'.hour % PM < Noon)
    BY <1>3, <1>4, <1>5, TextTold, Zenon
<1>7. Clock!Text(chip') = Text(chip') /\ Clock!PM = PM /\ Clock!Noon = Noon
    BY ClockTexts, ClockNumbers, Zenon DEF Clock!PM, PM, Clock!Noon, Noon
<1> QED
    BY <1>6, <1>7, Zenon

(* shell.c, rtc.c, for any texts and failures: the time that the shell has  *)
(* set is told as it was asked for, in the mode the clock is in.            *)
THEOREM SetAsTold == Clock!Init /\ [][Clock!Next]_(Clock!vars) => [][Clock!SetIsToldStep]_(Clock!vars)
<1>1. Clock!Init => SetInv
    BY DEF Clock!Init, SetInv
<1>2. SetInv /\ [Clock!Next]_(Clock!vars) => SetInv'
    BY SetKept
<1>3. SetInv /\ [Clock!Next]_(Clock!vars) => [Clock!SetIsToldStep]_(Clock!vars)
    BY Told
<1> QED
    BY <1>1, <1>2, <1>3, PTL

(* The clock has power when its mode was set, and then keeps it.            *)
ModeInv == clockAt \in {"first", "wait", "loop", "idle"} => h24 /\ ~lost

LEMMA ModeKept == ASSUME ModeInv, [Clock!Next]_(Clock!vars) PROVE ModeInv'
<1>1. CASE Clock!Open
    BY <1>1, Zenon DEF Clock!Open, Clock!Fails, ModeInv
<1>2. CASE Clock!Reset
    BY <1>2, Zenon DEF Clock!Reset, Clock!Fails, ModeInv
<1>3. CASE Clock!First
    BY <1>3, Zenon DEF Clock!First, Clock!Fails, Clock!clock, ModeInv
<1>4. CASE Clock!ShellSet
    <2>1. UNCHANGED <<h24, lost>> \/ lost \/ (lost' = FALSE /\ h24' = (lost \/ h24))
        BY <1>4, Zenon DEF Clock!ShellSet, Clock!clock
    <2>2. clockAt' = clockAt
        BY <1>4, Zenon DEF Clock!ShellSet
    <2> QED
        BY <2>1, <2>2, Zenon DEF ModeInv
<1>5. CASE Clock!Look \/ Clock!NoKey \/ Clock!Move
    BY <1>5, Zenon DEF Clock!Look, Clock!NoKey, Clock!Move, Clock!clock, ModeInv
<1>6. CASE Clock!Turn \/ Clock!Leave \/ Clock!Tick \/ UNCHANGED Clock!vars
    BY <1>6, Zenon DEF Clock!Turn, Clock!Leave, Clock!Tick, Clock!Fails, Clock!clock, Clock!vars, ModeInv
<1> QED
    BY <1>1, <1>2, <1>3, <1>4, <1>5, <1>6, Zenon DEF Clock!Next

(* ui_settings.c, rtc.c: while the editor shows a time and turns digits the *)
(* clock is in 24-hour mode, whatever the shell does between its frames.    *)
THEOREM EditorsMode == Clock!Init /\ [][Clock!Next]_(Clock!vars) => []Clock!EditorIn24
<1>1. Clock!Init => ModeInv
    BY Zenon DEF Clock!Init, ModeInv
<1>2. ModeInv /\ [Clock!Next]_(Clock!vars) => ModeInv'
    BY ModeKept
<1>3. ModeInv => Clock!EditorIn24
    BY Zenon DEF ModeInv, Clock!EditorIn24
<1> QED
    BY <1>1, <1>2, <1>3, PTL

-----------------------------------------------------------------------------
(* The parts together: the part that runs is never left, and takes its own  *)
(* steps only.                                                              *)

LEMMA OneRuns == [MenuNext]_all => UNCHANGED on
BY Zenon DEF MenuNext, SettingsStep, KeypadStep, WordsStep, WavStep, VgmTuneStep, CalendarStep,
             ReadingsStep, ClockStep, Rest, all

LEMMA WavRuns ==
    /\ [MenuNext]_all => ((on = "wav")' <=> on = "wav")
    /\ MenuInit /\ on = "wav" => Wav!Init
    /\ on = "wav" /\ [MenuNext]_all => [Wav!Next]_(Wav!vars)
<1>1. MenuInit /\ on = "wav" => Wav!Init
    BY Zenon DEF MenuInit
<1>2. ASSUME on = "wav", [MenuNext]_all PROVE [Wav!Next]_(Wav!vars)
    <2>1. CASE UNCHANGED all
        BY <2>1, Zenon DEF all, wavVars, Wav!vars
    <2>2. CASE MenuNext
        BY <1>2, <2>2 DEF MenuNext, SettingsStep, KeypadStep, WordsStep, WavStep, VgmTuneStep,
                          CalendarStep, ReadingsStep, ClockStep
    <2> QED
        BY <1>2, <2>1, <2>2
<1> QED
    BY <1>1, <1>2, OneRuns, Zenon

(* The wave player, for any ring, songs, seeks and failing reads, if a      *)
(* frame and a read play no more than half of the ring: the half that is    *)
(* played was filled since it was last played, and none is filled while it  *)
(* is; seeks stay in the sound; none is played before its format is known.  *)
THEOREM RingKeepsUp == Timely => (MenuSpec => []NothingPlayedTwice)
<1>1. ASSUME Timely PROVE MenuSpec => []NothingPlayedTwice
    <2>1. Wav!Init /\ [][Wav!Next]_(Wav!vars) => [](Wav!NothingPlayedTwice /\ Wav!NotWhileItPlays)
        BY <1>1, PlayedOnce, PartsAssumption
    <2>2. Wav!Init /\ [][Wav!Next]_(Wav!vars) => [](Wav!SeeksStayInSound /\ Wav!FormatFirst)
        BY SeeksAndFormats, PartsAssumption
    <2>3. Wav!NothingPlayedTwice /\ Wav!NotWhileItPlays /\ Wav!SeeksStayInSound /\ Wav!FormatFirst
          => NothingPlayedTwice
        BY Zenon DEF NothingPlayedTwice
    <2>4. ~(on = "wav") => NothingPlayedTwice
        BY Zenon DEF NothingPlayedTwice
    <2> QED
        BY <2>1, <2>2, <2>3, <2>4, WavRuns, PTL DEF MenuSpec
<1> QED
    BY <1>1

LEMMA KeypadRuns ==
    /\ MenuInit => Keypad!Init
    /\ [MenuNext]_all => [Keypad!Next]_(Keypad!vars)
<1>1. MenuInit => Keypad!Init
    BY Zenon DEF MenuInit
<1>2. UNCHANGED keypadVars => UNCHANGED Keypad!vars
    BY Zenon DEF keypadVars, Keypad!vars, Keypad!masks
<1>3. ASSUME UNCHANGED all PROVE UNCHANGED Keypad!vars
    BY <1>3, <1>2, Zenon DEF all
<1>4. ASSUME KeypadStep PROVE Keypad!Next
    BY <1>4, Zenon DEF KeypadStep
<1>5. ASSUME MenuNext, ~KeypadStep PROVE UNCHANGED keypadVars
    <2>1. ~(on = "keypad")
        BY <1>5 DEF MenuNext, SettingsStep, WordsStep, WavStep, VgmTuneStep, CalendarStep,
                    ReadingsStep, ClockStep
    <2> QED
        BY <1>5, <2>1, Zenon DEF MenuNext, SettingsStep, WordsStep, WavStep, VgmTuneStep,
                                 CalendarStep, ReadingsStep, ClockStep, Rest
<1> QED
    BY <1>1, <1>2, <1>3, <1>4, <1>5, Zenon

(* input.c, for any number of keys, repeat times and ticks the main loop is *)
(* late: a key that stays down is not reported again before the shorter of  *)
(* its repeat times, and one that was struck is reported.                   *)
THEOREM HeardInTime == MenuSpec => KeysHeardInTime
<1>1. Keypad!Init /\ [][Keypad!Next]_(Keypad!vars) =>
         [][Keypad!PacedStep /\ Keypad!HeardStep]_(Keypad!vars)
    BY KeysAreHeard, PartsAssumption DEF Keypad!Spec
<1>2. [Keypad!PacedStep /\ Keypad!HeardStep]_(Keypad!vars)
      => (on = "keypad" => Keypad!PacedStep /\ Keypad!HeardStep)
    BY DEF Keypad!vars, Keypad!PacedStep, Keypad!HeardStep
<1>3. (on = "keypad" => Keypad!PacedStep /\ Keypad!HeardStep) =>
         [on = "keypad" => Keypad!PacedStep /\ Keypad!HeardStep]_all
    OBVIOUS
<1> QED
    BY <1>1, <1>2, <1>3, KeypadRuns, PTL DEF MenuSpec, KeysHeardInTime

LEMMA CalendarRuns ==
    /\ [MenuNext]_all => ((on = "calendar")' <=> on = "calendar")
    /\ MenuInit /\ on = "calendar" => Calendar!Init
    /\ on = "calendar" /\ [MenuNext]_all => [Calendar!Next]_(Calendar!vars)
<1>1. MenuInit /\ on = "calendar" => Calendar!Init
    BY DEF MenuInit
<1>2. ASSUME on = "calendar", [MenuNext]_all PROVE [Calendar!Next]_(Calendar!vars)
    <2>1. CASE UNCHANGED all
        BY <2>1, Zenon DEF all, calendarVars, Calendar!vars
    <2>2. CASE MenuNext
        BY <1>2, <2>2 DEF MenuNext, SettingsStep, KeypadStep, WordsStep, WavStep, VgmTuneStep,
                          CalendarStep, ReadingsStep, ClockStep
    <2> QED
        BY <1>2, <2>1, <2>2
<1> QED
    BY <1>1, <1>2, OneRuns, Zenon

LEMMA ReadingsRuns ==
    /\ [MenuNext]_all => ((on = "texts")' <=> on = "texts")
    /\ MenuInit /\ on = "texts" => Readings!Init
    /\ on = "texts" /\ [MenuNext]_all => [Readings!Next]_(Readings!vars)
<1>1. MenuInit /\ on = "texts" => Readings!Init
    BY DEF MenuInit
<1>2. ASSUME on = "texts", [MenuNext]_all PROVE [Readings!Next]_(Readings!vars)
    <2>1. CASE UNCHANGED all
        BY <2>1, Zenon DEF all, calendarVars, Readings!vars
    <2>2. CASE MenuNext
        BY <1>2, <2>2 DEF MenuNext, SettingsStep, KeypadStep, WordsStep, WavStep, VgmTuneStep,
                          CalendarStep, ReadingsStep, ClockStep
    <2> QED
        BY <1>2, <2>1, <2>2
<1> QED
    BY <1>1, <1>2, OneRuns, Zenon

LEMMA ClockRuns ==
    /\ [MenuNext]_all => ((on = "clock")' <=> on = "clock")
    /\ MenuInit /\ on = "clock" => Clock!Init
    /\ on = "clock" /\ [MenuNext]_all => [Clock!Next]_(Clock!vars)
<1>1. MenuInit /\ on = "clock" => Clock!Init
    BY DEF MenuInit
<1>2. ASSUME on = "clock", [MenuNext]_all PROVE [Clock!Next]_(Clock!vars)
    <2>1. CASE UNCHANGED all
        BY <2>1, Zenon DEF all, clockVars, Clock!vars
    <2>2. CASE MenuNext
        BY <1>2, <2>2 DEF MenuNext, SettingsStep, KeypadStep, WordsStep, WavStep, VgmTuneStep,
                          CalendarStep, ReadingsStep, ClockStep
    <2> QED
        BY <1>2, <2>1, <2>2
<1> QED
    BY <1>1, <1>2, OneRuns, Zenon

(* rtc.c, ui_settings.c and shell.c, for any years and modes, texts and     *)
(* failures, and whatever follows days_in_month: the weekdays follow on,    *)
(* texts are read back as the time they tell, digits that are turned make   *)
(* times, and what the editor or the shell has written keeps its date's     *)
(* weekday, the clock being in the editor's mode.                           *)
THEOREM TimesAreRight == MenuSpec => []TimesFit
<1>1. Calendar!Init /\ [][Calendar!Next]_(Calendar!vars) => []Calendar!WeekdaysFollow
    BY WeekdaysGoOn
<1>2. Readings!Init /\ [][Readings!Next]_(Readings!vars) =>
          [](Readings!TextsReadBack /\ Readings!DigitsStayInRange /\ Readings!LowDigitsReturn)
    BY TextsAndDigits
<1>3. Clock!Init /\ [][Clock!Next]_(Clock!vars) => []Clock!WeekdayFits
    BY WrittenFits
<1>4. Clock!Init /\ [][Clock!Next]_(Clock!vars) => []Clock!EditorIn24
    BY EditorsMode
<1>5. /\ on = "calendar" => Calendar!WeekdaysFollow
      /\ on = "texts" => Readings!TextsReadBack /\ Readings!DigitsStayInRange /\ Readings!LowDigitsReturn
      /\ on = "clock" => Clock!WeekdayFits
      /\ on = "clock" => Clock!EditorIn24
      => TimesFit
    BY Zenon DEF TimesFit
<1> QED
    BY <1>1, <1>2, <1>3, <1>4, <1>5, CalendarRuns, ReadingsRuns, ClockRuns, PTL DEF MenuSpec

(* A time the shell has set is the one the clock tells, beside the editor   *)
(* and whatever fails.                                                      *)
THEOREM ToldAsSet == MenuSpec => SetIsTold
<1>1. Clock!Init /\ [][Clock!Next]_(Clock!vars) => [][Clock!SetIsToldStep]_(Clock!vars)
    BY SetAsTold
<1>2. [Clock!SetIsToldStep]_(Clock!vars) => Clock!SetIsToldStep
    BY Zenon DEF Clock!vars, Clock!SetIsToldStep
<1>3. (on = "clock" => Clock!SetIsToldStep) => [on = "clock" => Clock!SetIsToldStep]_all
    OBVIOUS
<1>4. [MenuNext]_all /\ ~(on = "clock") => [on = "clock" => Clock!SetIsToldStep]_all
    OBVIOUS
<1> QED
    BY <1>1, <1>2, <1>3, <1>4, ClockRuns, PTL DEF MenuSpec, SetIsTold
=============================================================================
