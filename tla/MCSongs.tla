------------------------------ MODULE MCSongs -------------------------------
(* Songs for instances of WavPlay and VgmPlay.                               *)
EXTENDS Naturals, Sequences

(* A .wav song's chunks in their order; units are seconds of its format.     *)
Song(chunks, format, rate, channels, bits, length) ==
    [chunks |-> chunks, format |-> format, rate |-> rate, channels |-> channels,
     bits |-> bits, length |-> length]

(* Commands of a .vgm song, with their cells.                                *)
Sleep(samples, cells) == [op |-> "wait", n |-> samples, size |-> cells]
Plain(op, cells)      == [op |-> op, size |-> cells]
Block(cells)          == [op |-> "data", size |-> cells + 1]
Rate(stream)          == [op |-> "frequency", size |-> 3, stream |-> stream]
StartFast(block, at)  == [op |-> "start", size |-> 3, block |-> block, data |-> at]
StartAt(inside)       == [op |-> "play", size |-> 4, inside |-> inside]

FirstCommand == 15

(* One behind the other, from the first one's place on.                      *)
Laid(commands) ==
    LET place[i \in 1..Len(commands) + 1] ==
            IF i = 1 THEN FirstCommand ELSE place[i - 1] + commands[i - 1].size
    IN  [a \in {place[i] : i \in DOMAIN commands} |->
            commands[CHOOSE i \in DOMAIN commands : place[i] = a]]

(* Commands across the end of a bank, waits that are over when they begin.   *)
Notes ==
    Laid(<<Plain("drive", 2), Sleep(735, 1), Plain("drive", 3), Sleep(882, 1), Sleep(0, 3),
           Plain("drive", 2), Plain("drive", 3), Sleep(2, 1), Plain("drive", 3),
           Plain("unknown", 1), Sleep(300, 3), Plain("end", 1)>>)

(* Three blocks of samples, the last where it is low; the loop is behind     *)
(* them.                                                                     *)
Samples ==
    Laid(<<Block(4), Block(2), Rate(0), StartFast(2, 20), Sleep(735, 1), StartFast(1, 15),
           Plain("drive", 2), Sleep(900, 2), Block(4), Sleep(100, 1), Plain("stop", 1),
           StartFast(3, 37), Sleep(800, 1), Plain("drive", 2), StartAt(TRUE), StartAt(FALSE),
           Sleep(60, 1), Plain("end", 1)>>)

Vgm(commands, loop, chips) == [commands |-> commands, loop |-> loop, chips |-> chips]

VgmSongs ==
    {Vgm(Notes, l, {c}) : l \in {0, 18, 34}, c \in {"sn76489", "dmg", "ws"}}
    \cup {Vgm(Samples, l, {"ws"}) : l \in {43, 44}}
    \cup {Vgm(Laid(<<Plain("end", 1)>>), 0, c) : c \in {{"dmg", "ws"}, {}}}
=============================================================================
