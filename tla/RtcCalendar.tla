---------------------------- MODULE RtcCalendar -----------------------------
(***************************************************************************)
(* All the days of the clock's hundred years, one after the other, and all *)
(* the hours of a day: the weekdays, the texts and the editor's digits.    *)
(***************************************************************************)
EXTENDS RtcTime

CONSTANTS
    FirstYear, LastYear,
    PastEnd,      \* what may follow days_in_month in memory, in BCD
    Hours24       \* whether the clock is in 24-hour mode

CalendarAssumption ==
    /\ LastYear \in 0..99 /\ FirstYear \in 0..LastYear
    /\ PastEnd \subseteq 0..255 /\ Hours24 \in BOOLEAN

VARIABLES
    dt,           \* a date and time that exists
    past          \* what follows days_in_month

vars == <<dt, past>>

(* Midnight of the next day; the weekday follows on.                        *)
Tomorrow ==
    /\ Value(dt, "hour") = 0
    /\ dt' = NextDay(dt) /\ dt'.year \in dt.year..Bcd(LastYear)
    /\ UNCHANGED past

(* An hour later on the same day.                                           *)
Later ==
    /\ Value(dt, "hour") < 23 /\ dt.day = 1
    /\ dt' = [dt EXCEPT !.hour = HourReg(Bcd(Value(dt, "hour") + 1), Hours24)]
    /\ UNCHANGED past

Init ==
    /\ past \in [Bcd(10)..Bcd(12) -> PastEnd]
    /\ dt = [year |-> Bcd(FirstYear), month |-> 1, day |-> 1, hour |-> 0,
             wday |-> (6 + FirstYear * 365 + (FirstYear + 3) \div 4) % 7, minute |-> Bcd(34), second |-> 9]

Next == Tomorrow \/ Later

Spec == Init /\ [][Next]_vars

-----------------------------------------------------------------------------
(* The weekday the program computes is the one that follows on, day by day. *)
WeekdaysFollow == Weekday(dt) = dt.wday

(* A text that the clock's time is told in, and that is read again, is the  *)
(* same time; but in the last three months it may be refused.               *)
TextsReadBack ==
    /\ Accepted(Text(dt), past) \/ dt.month >= Bcd(10)
    /\ Read(Text(dt), Hours24) = dt

(* Digits turned in a time that exists make a number of their component:    *)
(* the others are as they were.                                             *)
DigitsStayInRange ==
    \A sel \in 0..11, delta \in Deltas :
        LET new == Adjust(dt, Hours24, sel, delta)
            c == Component(sel)
        IN  /\ Value(new, c) \in Least(c)..Most(dt, c)
            /\ \A o \in {Components[k] : k \in 1..6} \ {c} : new[o] = dt[o]

(* A digit turned down is turned up again by the other key, except where a  *)
(* high digit has run into an end.                                          *)
LowDigitsReturn ==
    \A sel \in {s \in 0..11 : ~High(s)} :
        Adjust(Adjust(dt, Hours24, sel, -1), Hours24, sel, 1) = dt

(* changelog.md:42: the shell's date command sets the time, in any month.   *)
DatesAreAccepted == Accepted(Text(dt), past)

(* changelog.md:9: no known issues of the editor remain.  The keys that go  *)
(* all the way do so in each high digit.                                    *)
FarKeysGoFar ==
    \A sel \in {s \in 0..11 : High(s)} :
        Value(Adjust(dt, Hours24, sel, Far), Component(sel)) = Most(dt, Component(sel))

(* changelog.md:9: a time that is edited still exists.                      *)
DatesExist ==
    \A sel \in 0..11, delta \in Deltas :
        LET new == Adjust(dt, Hours24, sel, delta)
        IN  Num(new.day) <= DaysOf(Num(new.year), Num(new.month))
=============================================================================
