-------------------------------- MODULE Menu ---------------------------------
(*****************************************************************************)
(* What the menu does besides files, one part at a time: the keypad, the     *)
(* shell's line, the settings, the players of .wav and .vgm songs, the       *)
(* calendar and its texts, the clock's editor beside the shell. Keypad,      *)
(* line and settings rest at their start, the other parts have no state      *)
(* before they run.                                                          *)
(*****************************************************************************)
EXTENDS Settings, Integers

(* The parameters of each part but the first, as a record.                   *)
CONSTANTS KeypadOf, WordsOf, WavOf, VgmOf, CalendarOf, ReadingsOf, ClockOf

VARIABLES
    on,  \* the part that runs
    \* Input
    pc, mode, keys, repressed, released, copy, held, pressed, next, tick,
    lag, down, struck, quiet,
    \* ShellCommand
    line, pos, phase, at, off, quote, bad, typed, out,
    \* WavPlay
    wavAt, wavFile, chunk, kind, fmt, irq, tell, begin, play, fresh, wavNext,
    wavKeys,
    \* VgmPlay
    vgmPc, song, color, bank, vgmPos, seg, vgmOff, timer, vgmPlace, blocks,
    memory, dma, outside, lineIrq, result,
    \* RtcCalendar
    dt, past,
    \* RtcClock
    chip, h24, lost, clockAt, seen, sel, clockKeys, ticks, sets, clockPast,
    wrote

Keypad == INSTANCE Input WITH
    Loop <- KeypadOf.Loop, Extra <- KeypadOf.Extra, Clear <- KeypadOf.Clear,
    Wrap <- KeypadOf.Wrap, First <- KeypadOf.First, Again <- KeypadOf.Again,
    Race <- KeypadOf.Race, MaxLag <- KeypadOf.MaxLag
Words == INSTANCE ShellCommand WITH
    Typed <- WordsOf.Typed, LineLen <- WordsOf.LineLen,
    Past <- WordsOf.Past, CatSize <- WordsOf.CatSize, Texts <- WordsOf.Texts
Wav == INSTANCE WavPlay WITH
    at <- wavAt, file <- wavFile, next <- wavNext, keys <- wavKeys,
    Files <- WavOf.Files, Half <- WavOf.Half, Start <- WavOf.Start,
    Frame <- WavOf.Frame, Card <- WavOf.Card, Word <- WavOf.Word,
    CanSeek <- WavOf.CanSeek, CanFail <- WavOf.CanFail
VgmTune == INSTANCE VgmPlay WITH
    pc <- vgmPc, pos <- vgmPos, off <- vgmOff, place <- vgmPlace,
    Songs <- VgmOf.Songs, Header <- VgmOf.Header, Bank <- VgmOf.Bank,
    Para <- VgmOf.Para, High <- VgmOf.High, HighEnd <- VgmOf.HighEnd,
    Low <- VgmOf.Low, MaxBlocks <- VgmOf.MaxBlocks,
    MaxStreams <- VgmOf.MaxStreams, MaxTicks <- VgmOf.MaxTicks
Calendar == INSTANCE RtcCalendar WITH
    FirstYear <- CalendarOf.FirstYear, LastYear <- CalendarOf.LastYear,
    PastEnd <- CalendarOf.PastEnd, Hours24 <- CalendarOf.Hours24
Readings == INSTANCE RtcCalendar WITH
    FirstYear <- ReadingsOf.FirstYear, LastYear <- ReadingsOf.LastYear,
    PastEnd <- ReadingsOf.PastEnd, Hours24 <- ReadingsOf.Hours24
Clock == INSTANCE RtcClock WITH
    at <- clockAt, keys <- clockKeys, past <- clockPast,
    Times <- ClockOf.Times, Texts <- ClockOf.Texts,
    PastEnd <- ClockOf.PastEnd, Sels <- ClockOf.Sels,
    MaxKeys <- ClockOf.MaxKeys, MaxTicks <- ClockOf.MaxTicks,
    MaxSets <- ClockOf.MaxSets, CanFail <- ClockOf.CanFail

keypadVars == <<pc, mode, keys, repressed, released, copy, held, pressed,
                next, tick, lag, down, struck, quiet>>
wordsVars == <<line, pos, phase, at, off, quote, bad, typed, out>>
wavVars == <<wavAt, wavFile, chunk, kind, fmt, irq, tell, begin, play, fresh,
             wavNext, wavKeys>>
vgmtuneVars == <<vgmPc, song, color, bank, vgmPos, seg, vgmOff, timer,
                 vgmPlace, blocks, memory, dma, outside, lineIrq, result>>
calendarVars == <<dt, past>>
clockVars == <<chip, h24, lost, clockAt, seen, sel, clockKeys, ticks, sets,
               clockPast, wrote>>

all == <<on, vars, keypadVars, wordsVars, wavVars, vgmtuneVars, calendarVars,
             clockVars>>

(* What does not run keeps its state.                                        *)
Rest ==
    /\ UNCHANGED on
    /\ IF on = "settings" THEN TRUE ELSE UNCHANGED vars
    /\ IF on = "keypad" THEN TRUE ELSE UNCHANGED keypadVars
    /\ IF on = "line" THEN TRUE ELSE UNCHANGED wordsVars
    /\ IF on = "wav" THEN TRUE ELSE UNCHANGED wavVars
    /\ IF on = "vgm" THEN TRUE ELSE UNCHANGED vgmtuneVars
    /\ IF on \in {"calendar", "texts"} THEN TRUE ELSE UNCHANGED calendarVars
    /\ IF on = "clock" THEN TRUE ELSE UNCHANGED clockVars

Parts == {"settings", "keypad", "line", "wav", "vgm", "calendar", "texts",
          "clock"}

WavRests ==
    /\ wavAt = 0 /\ wavFile = 0 /\ chunk = 0 /\ kind = 0 /\ fmt = 0
    /\ irq = 0 /\ tell = 0 /\ begin = 0 /\ play = 0 /\ fresh = 0
    /\ wavNext = 0 /\ wavKeys = 0

VgmTuneRests ==
    /\ vgmPc = 0 /\ song = 0 /\ color = 0 /\ bank = 0 /\ vgmPos = 0
    /\ seg = 0 /\ vgmOff = 0 /\ timer = 0 /\ vgmPlace = 0 /\ blocks = 0
    /\ memory = 0 /\ dma = 0 /\ outside = 0 /\ lineIrq = 0 /\ result = 0

CalendarRests ==
    /\ dt = 0 /\ past = 0

ClockRests ==
    /\ chip = 0 /\ h24 = 0 /\ lost = 0 /\ clockAt = 0 /\ seen = 0
    /\ sel = 0 /\ clockKeys = 0 /\ ticks = 0 /\ sets = 0 /\ clockPast = 0
    /\ wrote = 0

MenuInit ==
    /\ on \in Parts
    /\ Init
    /\ Keypad!Init
    /\ Words!Init
    /\ IF on = "wav" THEN Wav!Init ELSE WavRests
    /\ IF on = "vgm" THEN VgmTune!Init ELSE VgmTuneRests
    /\ CASE on = "calendar" -> Calendar!Init
         [] on = "texts" -> Readings!Init
         [] OTHER -> CalendarRests
    /\ IF on = "clock" THEN Clock!Init ELSE ClockRests

SettingsStep == on = "settings" /\ Next /\ Rest
KeypadStep == on = "keypad" /\ Keypad!Next /\ Rest
WordsStep == on = "line" /\ Words!Next /\ Rest
WavStep == on = "wav" /\ Wav!Next /\ Rest
VgmTuneStep == on = "vgm" /\ VgmTune!Next /\ Rest
CalendarStep == on = "calendar" /\ Calendar!Next /\ Rest
ReadingsStep == on = "texts" /\ Readings!Next /\ Rest
ClockStep == on = "clock" /\ Clock!Next /\ Rest

MenuNext ==
    \/ SettingsStep \/ KeypadStep \/ WordsStep \/ WavStep \/ VgmTuneStep
    \/ CalendarStep \/ ReadingsStep \/ ClockStep

MenuSpec == MenuInit /\ [][MenuNext]_all

-----------------------------------------------------------------------------
(* The parts' assumptions on their parameters.                               *)
ASSUME PartsAssumption ==
    /\ Keypad!KeyAssumption /\ Keypad!TimeAssumption /\ Keypad!BoundAssumption
    /\ Words!LineAssumption /\ EditedAssumption /\ Wav!WavAssumption /\ VgmTune!VgmAssumption
    /\ Calendar!CalendarAssumption /\ Readings!CalendarAssumption /\ Clock!ClockAssumption

(* What is played in a frame and during a read is half of the ring at most. *)
Timely == WavOf.Frame + WavOf.Card <= WavOf.Half

(* The variables of all parts keep to their types; each category of the      *)
(* settings leads back to the entry it was entered by, all the way up.       *)
TypesOK ==
    CASE on = "settings" -> TypeOK /\ WayBack
      [] on = "keypad" -> Keypad!TypeOK
      [] on = "line" -> Words!TypeOK
      [] on = "wav" -> Wav!TypeOK
      [] on = "vgm" -> VgmTune!TypeOK
      [] on = "clock" -> Clock!TypeOK
      [] OTHER -> TRUE

(* input.c: a key that stays down is reported again no sooner than the       *)
(* shorter of its repeat times, and one that was struck before the masks     *)
(* were copied is reported, whatever other keys do and however late the main *)
(* loop is.                                                                  *)
KeysHeardInTime == [][on = "keypad" => (Keypad!PacedStep /\ Keypad!HeardStep)]_all

(* tokenizer.c: the line is split in place, and a command gets the words     *)
(* that were typed.                                                          *)
CommandGetsWords == on = "line" => Words!CommandGetsWords

(* ui_wavplay.c: a half of the ring that was played is not played again      *)
(* before it is filled, nor filled while it is played; seeks stay within the *)
(* sound; no sound is played before its format is known.                     *)
NothingPlayedTwice ==
    on = "wav" => (/\ Wav!NothingPlayedTwice /\ Wav!NotWhileItPlays
                   /\ Wav!SeeksStayInSound /\ Wav!FormatFirst)

(* ui_vgmplay.c and vgm/core.c: commands are read where they begin, across   *)
(* banks and loops; a stream plays the samples it was asked for, to its end; *)
(* the timer is not set to a time that is over; no interrupt stays on.       *)
TunesInPlace ==
    on = "vgm" => (/\ VgmTune!AtCommands /\ VgmTune!StreamsPlayTheirBlock
                   /\ VgmTune!SleepsShort /\ VgmTune!NothingLeftOn
                   /\ VgmTune!FlagsInBounds)

(* rtc.c, of every day of a century: the weekday follows on from 1 January   *)
(* 2000.  Of every day and hour around a leap year: a text is read back as   *)
(* the time it tells, and digits that are turned make times.  What the       *)
(* editor or the shell has written has its date's weekday from then on, and  *)
(* the editor writes its hours to a clock in 24-hour mode.                   *)
TimesFit ==
    /\ on = "calendar" => Calendar!WeekdaysFollow
    /\ on = "texts" => (/\ Readings!TextsReadBack /\ Readings!DigitsStayInRange
                        /\ Readings!LowDigitsReturn)
    /\ on = "clock" => (Clock!WeekdayFits /\ Clock!EditorIn24)

(* A time the shell has set is the one the clock tells.                      *)
SetIsTold == [][on = "clock" => Clock!SetIsToldStep]_all
=============================================================================
