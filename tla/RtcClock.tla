------------------------------ MODULE RtcClock ------------------------------
(***************************************************************************)
(* The clock's editor, the shell's date command, and the clock they share. *)
(* The editor's task gives way in idle_until_vblank only; there the shell  *)
(* may run a command, and the clock ticks at any time.                     *)
(*                                                                         *)
(* Faults: the clock's power may have been lost; every transaction with    *)
(* the MCU may fail.                                                       *)
(***************************************************************************)
EXTENDS RtcTime

CONSTANTS
    Times,      \* times the clock may show at first
    Texts,      \* what the shell is asked to set
    PastEnd,    \* what may follow days_in_month
    Sels,       \* digits the cursor is looked at on
    MaxKeys, MaxTicks, MaxSets,
    CanFail

(* What extract_bcd_value makes of the digits of a text; times.             *)
Digits  == {-1} \cup {Bcd(n) : n \in 0..99}
Int16(n) == IF n < 32768 THEN n ELSE n - 65536
Years   == UNION {{Int16(256 * Bcd(c) + Bcd(n)) : n \in 0..99} : c \in 0..99}
TextRec == [year : {-1} \cup Years, month : Digits, day : Digits,
            hour : Digits, minute : Digits, second : Digits]
TimeRec == [year : {256 * Bcd(20) + Bcd(y) : y \in 0..99}, month : {Bcd(m) : m \in 1..12},
            day : {Bcd(d) : d \in 1..31}, hour : {Bcd(h) : h \in 0..23},
            minute : {Bcd(m) : m \in 0..59}, second : {Bcd(s) : s \in 0..59}]

ClockAssumption ==
    /\ {MaxKeys, MaxTicks, MaxSets} \subseteq Nat /\ CanFail \in BOOLEAN /\ Sels \subseteq 0..11
    /\ Texts \subseteq TextRec /\ Times \subseteq TimeRec

VARIABLES
    chip,       \* what the clock shows
    h24,        \* its status: 24-hour mode
    lost,       \* its status: power lost
    at,         \* where the editor is
    seen,       \* current_rtc_data
    sel,        \* sel_value
    keys, ticks, sets,
    past,       \* what follows days_in_month
    wrote       \* the program has written the time

vars == <<chip, h24, lost, at, seen, sel, keys, ticks, sets, past, wrote>>
clock == <<chip, h24, lost, wrote>>

Zero == [year |-> 0, month |-> 1, day |-> 1, wday |-> 0, hour |-> 0, minute |-> 0, second |-> 0]
Fails == CanFail /\ at' = "failed"

-----------------------------------------------------------------------------
(* The clock's hardware.                                                    *)
Carry(f) == IF f = Bcd(59) THEN 0 ELSE Bcd(Num(f) + 1)
NextSecond(c) ==
    LET s == c.second = Bcd(59)
        m == s /\ c.minute = Bcd(59)
        hour == Bcd((Value(c, "hour") + 1) % 24)
        time == [c EXCEPT !.second = Carry(@), !.minute = IF s THEN Carry(@) ELSE @,
                          !.hour = IF m THEN HourReg(hour, h24) ELSE @]
    IN  IF m /\ Hour24(c.hour) = Bcd(23) THEN NextDay(time) ELSE time

(* Not modelled: the end of 2099, and what becomes of 31 February.          *)
Tick ==
    /\ NextSecond(chip).year >= chip.year /\ Num(chip.day) <= DaysOf(Num(chip.year), Num(chip.month))
    /\ ticks < MaxTicks /\ ticks' = ticks + 1 /\ ~lost
    /\ chip' = NextSecond(chip)
    /\ UNCHANGED <<h24, lost, at, seen, sel, keys, sets, past, wrote>>

-----------------------------------------------------------------------------
(* The status is read, and 24-hour mode set: of the hour nothing is said.   *)
Open ==
    /\ at = "open"
    /\ \/ lost /\ at' = "reset" /\ UNCHANGED h24
       \/ ~lost /\ at' = "first" /\ h24' = TRUE
       \/ Fails /\ UNCHANGED h24
    /\ UNCHANGED <<chip, lost, seen, sel, keys, ticks, sets, past, wrote>>

(* After idle_until_vblank: the clock is reset, and its mode set.           *)
Reset ==
    /\ at = "reset"
    /\ \/ Fails /\ UNCHANGED <<chip, h24, lost, wrote>>
       \/ /\ chip' = Zero /\ lost' = FALSE /\ wrote' = FALSE
          /\ \/ h24' = TRUE /\ at' = "wait"
             \/ h24' = FALSE /\ Fails
    /\ UNCHANGED <<seen, sel, keys, ticks, sets, past>>

(* The time is read, for the first time after having given way a hundred    *)
(* times if the clock was reset.                                            *)
First ==
    /\ at \in {"first", "wait"}
    /\ \/ at' = "loop" /\ seen' = chip
       \/ Fails /\ UNCHANGED seen
    /\ UNCHANGED <<clock, sel, keys, ticks, sets, past>>

(* It is read in each turn; a failure leaves the one that was read before.  *)
Look ==
    /\ at = "loop" /\ at' = "idle"
    /\ \/ seen' = chip
       \/ CanFail /\ UNCHANGED seen
    /\ UNCHANGED <<clock, sel, keys, ticks, sets, past>>

Right(s)     == IF s < 11 THEN s + 1 ELSE 0
RightPair(s) == IF s < 10 THEN s + 2 ELSE s % 2
Left(s)      == IF s > 0 THEN s - 1 ELSE 11
LeftPair(s)  == IF s > 1 THEN s - 2 ELSE (s % 2) + 10

(* After a frame: the keys.  What was read may be older than the frame.     *)
NoKey == at = "idle" /\ at' = "loop" /\ UNCHANGED <<clock, seen, sel, keys, ticks, sets, past>>
Move ==
    /\ at = "idle" /\ at' = "loop"
    /\ sel' \in {Right(sel), RightPair(sel), Left(sel), LeftPair(sel)}
    /\ UNCHANGED <<clock, seen, keys, ticks, sets, past>>

(* Mutant: the weekday stays.                                               *)
TimeTurnedOnly(c, s, delta) == Adjust(c, TRUE, s, delta)
TimeTurned(c, s, delta) ==
    LET new == Adjust(c, TRUE, s, delta) IN [new EXCEPT !.wday = Weekday(new)]
Turn ==
    /\ at = "idle" /\ keys < MaxKeys /\ keys' = keys + 1 /\ sel \in Sels
    /\ \E delta \in Deltas : seen' = TimeTurned(seen, sel, delta)
    /\ \/ at' = "loop" /\ chip' = seen' /\ wrote' = TRUE
       \/ Fails /\ UNCHANGED <<chip, wrote>>
    /\ UNCHANGED <<h24, lost, sel, ticks, sets, past>>
Leave == at = "idle" /\ at' = "left" /\ UNCHANGED <<clock, seen, sel, keys, ticks, sets, past>>

-----------------------------------------------------------------------------
(* Mutant: as in 24-hour mode, always.                                      *)
ReadInMode24(text, mode) == Read(text, TRUE)
ReadInMode(text, mode)   == Read(text, mode)

(* shell_date_set, while the editor gives way or has been left.             *)
ShellSet ==
    /\ at \in {"reset", "wait", "idle", "left", "failed"}
    /\ sets < MaxSets /\ sets' = sets + 1
    /\ \/ CanFail /\ UNCHANGED clock
       \/ CanFail /\ lost /\ lost' = FALSE /\ chip' = Zero /\ h24' \in BOOLEAN /\ wrote' = FALSE
       \/ /\ lost' = FALSE /\ h24' = (lost \/ h24)
          /\ \E text \in Texts :
               /\ chip' = IF Accepted(text, past) THEN ReadInMode(text, h24') ELSE IF lost THEN Zero ELSE chip
               /\ wrote' = (Accepted(text, past) \/ (wrote /\ ~lost))
    /\ UNCHANGED <<at, seen, sel, keys, ticks, past>>

Init ==
    /\ past \in [Bcd(10)..Bcd(12) -> PastEnd]
    /\ h24 \in BOOLEAN /\ lost \in BOOLEAN /\ wrote = FALSE
    /\ chip \in {Read(t, h24) : t \in Times}
    /\ at = "open" /\ seen = Zero /\ sel = 0 /\ keys = 0 /\ ticks = 0 /\ sets = 0

Next ==
    \/ Tick \/ Open \/ Reset \/ First \/ Look
    \/ NoKey \/ Move \/ Turn \/ Leave \/ ShellSet

Spec == Init /\ [][Next]_vars

-----------------------------------------------------------------------------
IsTime(c) ==
    /\ c.month \in {Bcd(m) : m \in 1..12} /\ c.day \in {Bcd(d) : d \in 1..31}
    /\ c.year \in {Bcd(y) : y \in 0..99} /\ Value(c, "hour") \in 0..23
    /\ {c.minute, c.second} \subseteq {Bcd(s) : s \in 0..59}

(* The clock always shows a time, and the cursor is on a digit.             *)
TypeOK ==
    /\ IsTime(chip) /\ IsTime(seen) /\ sel \in 0..11 /\ past \in [Bcd(10)..Bcd(12) -> PastEnd]
    /\ at \in {"open", "reset", "wait", "first", "loop", "idle", "left", "failed"}
    /\ {h24, lost, wrote} \subseteq BOOLEAN

(* What the program has written has the date's weekday, from then on.       *)
WeekdayFits ==
    wrote /\ Num(chip.day) <= DaysOf(Num(chip.year), Num(chip.month)) => chip.wday = Weekday(chip)

(* The editor writes hours of 24-hour mode: the clock is in it, whatever    *)
(* the shell has done meanwhile.                                            *)
EditorIn24 == at \in {"first", "wait", "loop", "idle"} => h24

(* A time the shell has set is the one that it tells, and a clock in        *)
(* 12-hour mode is given an hour of that mode.                              *)
SetIsToldStep ==
    (sets' > sets /\ wrote' /\ chip' # chip) =>
        /\ \E t \in Texts : Text(chip') = t
        /\ h24' \/ chip'.hour % PM < Noon

SetIsTold == [][SetIsToldStep]_vars
=============================================================================
