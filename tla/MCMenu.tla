------------------------------- MODULE MCMenu --------------------------------
(*****************************************************************************)
(* The values of Menu's parameters for TLC.                                  *)
(*****************************************************************************)
EXTENDS Menu, MCSongs

(* The shell's line: words, blanks, quotes and backslashes.                  *)
Characters == {"e", "l", "c", "_", "q", "'", "bsl"}
FullText   == {<<"a", "b">>}

(* From a list, the user picks the language that is set, and a repeat time.  *)
LastOf(s)  == IF s = "language" THEN {0} ELSE {37}
Changed    == {"file_hide_icons", "cart_mcu_spi_speed", "repeat_delay"}

(* Chunks in any order, of the formats that are played by DMA, by interrupt  *)
(* and not at all; units are seconds of them.                                *)
Orders == {<<"fmt", "data">>, <<"list", "fmt", "list", "data">>, <<"data", "fmt">>,
           <<"list", "data", "fmt">>}
Cut    == {Song(c, 1, 1, 1, 8, 0) : c \in {<<>>, <<"list">>, <<"data">>}}
Songs  == Cut \cup {Song(c, f, r, n, b, l) :
            c \in Orders, f \in {1, 3}, r \in {1, 70000}, n \in {1, 2, 3}, b \in {8, 16},
            l \in {0, 3, 21}}

(* Midnights of a leap February and of a year; texts of both halves of a day. *)
Moment(y, m, d, h, mi, s) ==
    LET bcd(n) == 16 * (n \div 10) + (n % 10)
    IN  [year |-> bcd(20) * 256 + bcd(y), month |-> bcd(m), day |-> bcd(d),
         hour |-> bcd(h), minute |-> bcd(mi), second |-> bcd(s)]
Edges == {Moment(24, 2, 28, 23, 59, 58), Moment(27, 12, 31, 23, 59, 59)}
Asked == {Moment(26, 9, 5, 13, 7, 0), Moment(28, 2, 29, 12, 0, 9)}

(* What each part is given.                                                  *)
TheKeypad == [Loop |-> 2, Extra |-> {}, Clear |-> 1, Wrap |-> 6, First |-> 2, Again |-> 2,
              Race |-> TRUE, MaxLag |-> 3]
TheWords == [Typed |-> Characters, LineLen |-> 3, Past |-> 1, CatSize |-> 2, Texts |-> FullText]
TheWav == [Files |-> Songs, Half |-> 4, Start |-> 2, Frame |-> 2, Card |-> 1, Word |-> 256,
           CanSeek |-> TRUE, CanFail |-> TRUE]
TheVgm == [Songs |-> VgmSongs, Header |-> FirstCommand, Bank |-> 32, Para |-> 2, High |-> 8,
           HighEnd |-> 15, Low |-> 2, MaxBlocks |-> 16, MaxStreams |-> 1, MaxTicks |-> 2]
Century == [FirstYear |-> 0, LastYear |-> 99, PastEnd |-> {0}, Hours24 |-> TRUE]
LeapYear == [FirstYear |-> 23, LastYear |-> 25, PastEnd |-> {0, 49}, Hours24 |-> FALSE]
TheClock == [Times |-> Edges, Texts |-> Asked, PastEnd |-> {49}, Sels |-> {3, 5, 7},
             MaxKeys |-> 1, MaxTicks |-> 1, MaxSets |-> 1, CanFail |-> TRUE]

(* What the theorems suppose of the wave player holds here.                  *)
ASSUME TheoremsApply == Timely
=============================================================================
