------------------------------ MODULE RtcTime -------------------------------
(***************************************************************************)
(* The date and time of the cartridge's clock, all of it in BCD: texts,    *)
(* weekdays, and the digits the editor turns.                              *)
(*                                                                         *)
(* A text is a record of the numbers read from it by extract_bcd_value, -1 *)
(* where there are no digits.                                              *)
(***************************************************************************)
EXTENDS Integers, Sequences

Bcd(n) == 16 * (n \div 10) + (n % 10)                  \* wsx_int_to_bcd8
Num(b) == 10 * (b \div 16) + (b % 16)                  \* wsx_bcd8_to_int
Noon   == Bcd(12)
PM     == 128

DateTimes == [year : 0..255, month : 0..255, day : 0..255, wday : 0..6,
              hour : 0..255, minute : 0..255, second : 0..255]

(* The hour's register, in 12- and in 24-hour mode.                         *)
Hour24(v) == LET h == v % PM IN IF h < Noon /\ v >= PM THEN Bcd(Num(h) + 12) ELSE h
HourReg(v, h24) == IF v >= Noon THEN (IF h24 THEN v ELSE Bcd(Num(v) - 12)) + PM ELSE v

DaysInMonth == <<31, 28, 31, 30, 31, 30, 31, 31, 30, 31, 30, 31>>
Leap(y) == y % 4 = 0

DaysBefore[month \in 1..12] ==
    IF month = 1 THEN 0 ELSE DaysBefore[month - 1] + DaysInMonth[month - 1]

Within(n, low, high) == IF n < low THEN low ELSE IF n > high THEN high ELSE n
AtLeastOne(n) == IF n < 1 THEN 1 ELSE n

(* rtc_correct_day_of_week: 1 January 2000 is a Saturday.                   *)
Weekday(dt) ==
    LET y == IF Num(dt.year) > 99 THEN 99 ELSE Num(dt.year)
        m == Within(Num(dt.month), 1, 12)
        d == AtLeastOne(Num(dt.day))
    IN  (365 * y + (y + 3) \div 4 + DaysBefore[m] + (IF m > 2 /\ Leap(y) THEN 1 ELSE 0) + d - 1 + 6) % 7

(* rtc_datetime_to_string.                                                  *)
Text(dt) == [year |-> Bcd(20) * 256 + dt.year, month |-> dt.month, day |-> dt.day,
             hour |-> Hour24(dt.hour), minute |-> dt.minute, second |-> dt.second]

(* The array of days is indexed with a month in BCD; past[m] is what is     *)
(* found behind its end.                                                    *)
DayLimit(month, past) ==
    IF month = 2 THEN Bcd(29) ELSE IF month <= 12 THEN Bcd(DaysInMonth[month]) ELSE past[month]

Accepted(text, past) ==
    /\ text.year \in Bcd(20) * 256 .. Bcd(20) * 256 + Bcd(99)
    /\ text.month \in 1..Bcd(12)
    /\ text.day \in 1..DayLimit(text.month, past)
    /\ text.hour \in 0..Bcd(23) /\ text.minute \in 0..Bcd(59) /\ text.second \in 0..Bcd(59)

(* rtc_string_to_datetime, of a text it accepts.                            *)
Read(text, h24) ==
    LET dt == [year |-> text.year % 256, month |-> text.month, day |-> text.day, wday |-> 0,
               hour |-> HourReg(text.hour, h24), minute |-> text.minute, second |-> text.second]
    IN  [dt EXCEPT !.wday = Weekday(dt)]

-----------------------------------------------------------------------------
Components == <<"year", "month", "day", "hour", "minute", "second">>
Component(sel) == Components[sel \div 2 + 1]
High(sel) == sel % 2 = 0

Value(dt, c) == Num(IF c = "hour" THEN Hour24(dt.hour) ELSE dt[c])
Least(c) == IF c \in {"month", "day"} THEN 1 ELSE 0
DaysOf(y, m) == IF m = 2 /\ Leap(y) THEN 29 ELSE IF m \in 1..12 THEN DaysInMonth[m] ELSE 31

(* The day after, as the clock counts.                                      *)
NextDay(dt) ==
    LET day == Num(dt.day) < DaysOf(Num(dt.year), Num(dt.month))
        month == dt.month # Bcd(12)
    IN  [dt EXCEPT !.wday = (@ + 1) % 7,
                   !.day = IF day THEN Bcd(Num(@) + 1) ELSE 1,
                   !.month = IF day THEN @ ELSE IF month THEN Bcd(Num(@) + 1) ELSE 1,
                   !.year = IF day \/ month THEN @ ELSE IF @ = Bcd(99) THEN 0 ELSE Bcd(Num(@) + 1)]

Most(dt, c) ==
    CASE c = "year"  -> 99
      [] c = "month" -> 12
      [] c = "day"   -> DaysOf(Num(dt.year), Num(dt.month))
      [] c = "hour"  -> 23
      [] OTHER       -> 59

Far == 999
Deltas == {-Far, -1, 1, Far}

(* How far a low digit goes: to 0 or 9, and on by ten from there.           *)
Stride(old, delta) ==
    CASE delta = -Far -> IF old % 10 > 0 THEN -(old % 10) ELSE -10
      [] delta = Far  -> IF old % 10 < 9 THEN 9 - (old % 10) ELSE 10
      [] OTHER        -> delta

(* A high digit that is turned past an end keeps the low one, if it may.    *)
WrapDown(old, min, max) ==
    LET w == (max - (max % 10)) + (old % 10)
        v == IF w > max THEN w - 10 ELSE w
    IN  IF v = old THEN max ELSE v
WrapUp(old, min) ==
    LET v == IF old % 10 < min THEN min ELSE old % 10
    IN  IF v = old THEN min ELSE v

Turned(old, min, max, high, delta) ==
    LET new == old + (IF high THEN 10 * delta ELSE Stride(old, delta))
    IN  IF new \in min..max THEN new
        ELSE IF new < min THEN (IF high THEN WrapDown(old, min, max) ELSE max)
        ELSE IF high THEN WrapUp(old, min) ELSE min

Stored(dt, c, n, h24) ==
    IF c = "hour" THEN [dt EXCEPT !.hour = HourReg(Bcd(n), h24)] ELSE [dt EXCEPT ![c] = Bcd(n)]

(* rtc_adjust_component.  A high digit that goes all the way is stored at   *)
(* once, the hour's in a local variable.                                    *)
Adjust(dt, h24, sel, delta) ==
    LET c == Component(sel)
        min == Least(c)
        max == Most(dt, c)
    IN  IF High(sel) /\ delta \in {-Far, Far}
        THEN IF c = "hour" THEN dt ELSE Stored(dt, c, IF delta = Far THEN max ELSE min, h24)
        ELSE Stored(dt, c, Turned(Value(dt, c), min, max, High(sel), delta), h24)
=============================================================================
