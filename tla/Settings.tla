------------------------------ MODULE Settings ------------------------------
(***************************************************************************)
(* The settings: their tree of categories, the menu that walks it and      *)
(* changes them, and CONFIG.INI, written when the menu is left and read    *)
(* when the console starts.                                                *)
(*                                                                         *)
(* Faults: any call to the card may fail, power may go at any step.        *)
(*                                                                         *)
(* Abstracted: what a setting does; the color, of which there are two; the *)
(* values of settings that a run does not change.                          *)
(***************************************************************************)
EXTENDS Selector, SequencesExt, TLC

CONSTANTS
    Rows,     \* entries on a page
    Edited,   \* the settings the user changes in this run
    Picked(_), \* the values the user picks for a setting from a list
    CanFail   \* whether calls to the card fail and power goes

(* setting_t: the key of its line, its type, its range, its default.        *)
Flag(key)              == [key |-> key, type |-> "flag", min |-> 0, max |-> 1, init |-> 0]
Choice(key, max, init) == [key |-> key, type |-> "choice", min |-> 0, max |-> max, init |-> init]
List(key, min, max, init) == [key |-> key, type |-> "list", min |-> min, max |-> max, init |-> init]
Color(key)             == [key |-> key, type |-> "color", min |-> 0, max |-> 1, init |-> 0]
Action                 == [key |-> "", type |-> "action", min |-> 0, max |-> 0, init |-> 0]

FileSettings ==
    [file_view |-> Choice("FileView", 1, 0), file_sort_order |-> Choice("FileSort", 6, 1),
     scroll_long_names |-> Flag("TextReaderFont"), file_show_saves |-> Flag("FileShowSave"),
     file_show_hidden |-> Flag("FileShowHidden"), file_hide_icons |-> Flag("FileHideIcons")]
ScreenSettings == [display_orientation |-> List("DispOrient", 0, 2, 0)]
LanguageSettings == [language |-> List("Language", 0, 6, 0)]
ProgramSettings ==
    [program_fast_sram |-> Flag("ProgFastSRAM"), program_verify_saves |-> Flag("ProgVerifySave"),
     program_fx_bios |-> Flag("ProgFxCmptBios"), cart_mcu_spi_speed |-> Choice("CartMcuSpiSpeed", 2, 2),
     cart_set_rtc_time |-> Action, factory_reset |-> Action]
ThemeSettings ==
    [theme_dark_mode |-> Flag("ThemeDarkMode"), theme_accent_color |-> Color("ThemeAccentColor"),
     txtview_font_size |-> Flag("TextReaderFont")]
ControlSettings ==
    [repeat_delay |-> List("JoyRepeatFirst", 9, 37, 18),
     repeat_next_delay |-> List("JoyRepeatNext", 5, 36, 5)]
InfoSettings == [about |-> Action, about_cartridge |-> Action]

Setting == FileSettings @@ ScreenSettings @@ LanguageSettings @@ ProgramSettings
           @@ ThemeSettings @@ ControlSettings @@ InfoSettings

(* setting_category_t: the entries of each category, in their order.        *)
Entries ==
    [root |-> <<"interface", "controls", "system", "sys_info", "language">>,
     interface |-> <<"display_orientation", "theme", "file">>,
     theme |-> <<"theme_dark_mode", "theme_accent_color", "txtview_font_size">>,
     file |-> <<"file_view", "file_sort_order", "scroll_long_names",
                "file_show_saves", "file_show_hidden", "file_hide_icons">>,
     controls |-> <<"repeat_delay", "repeat_next_delay">>,
     system |-> <<"program_verify_saves", "cart_set_rtc_time", "sys_advanced">>,
     sys_advanced |-> <<"program_fast_sram", "cart_mcu_spi_speed", "program_fx_bios", "factory_reset">>,
     sys_info |-> <<"about_cartridge", "about">>]
Categories == DOMAIN Entries
Parent(c) == CHOOSE p \in Categories : \E i \in DOMAIN Entries[p] : Entries[p][i] = c

Names == {s \in DOMAIN Setting : Setting[s].type # "action"}

EditedAssumption == Edited \subseteq Names /\ Rows \in Nat \ {0} /\ CanFail \in BOOLEAN

VARIABLES
    place,    \* "off", "boot", "first": no CONFIG.INI, "files", "menu", "saving",
              \* "failed": an error is shown
    value,    \* settings
    cat,      \* the category on the screen
    offset,   \* the cursor
    stack,    \* offset_category_stack
    written,  \* the lines written since CONFIG.INI was truncated
    file,     \* CONFIG.INI: a sequence of lines, or NoFile
    wanted,   \* the settings when they were last saved
    saved     \* whether they were, without an error

vars == <<place, value, cat, offset, stack, written, file, wanted, saved>>

NoFile  == <<[key |-> "none", value |-> 0]>>
Default == [s \in Names |-> Setting[s].init]
Here    == Entries[cat][offset + 1]

-----------------------------------------------------------------------------
(* Mutant: the last value of the range is dropped, too.                     *)
AppliedLess(v, l) ==
    [s \in Names |-> IF Setting[s].key # l.key THEN v[s]
                     ELSE IF Setting[s].type \in {"choice", "list"} /\ l.value >= Setting[s].max THEN v[s]
                     ELSE l.value]

(* settings_load: each line sets every setting with its key, in whatever    *)
(* category; values above the range are dropped.                            *)
Applied(v, l) ==
    [s \in Names |-> IF Setting[s].key # l.key THEN v[s]
                     ELSE IF Setting[s].type \in {"choice", "list"} /\ l.value > Setting[s].max THEN v[s]
                     ELSE l.value]

Load ==
    /\ place = "boot"
    /\ IF file = NoFile
       THEN place' = "first" /\ value' = Default
       ELSE \E n \in (IF CanFail THEN 0..Len(file) ELSE {Len(file)}) :
              /\ value' = FoldLeft(Applied, Default, SubSeq(file, 1, n))
              /\ place' = IF n = Len(file) THEN "files" ELSE "failed"
    /\ UNCHANGED <<cat, offset, stack, written, file, wanted, saved>>

(* main: without CONFIG.INI, a language is chosen and saved.                *)
FirstStart ==
    /\ place = "first"
    /\ \E l \in Picked("language") : value' = [value EXCEPT !["language"] = l]
    /\ place' = "saving" /\ written' = <<>>
    /\ file' = <<>> /\ wanted' = value' /\ saved' = FALSE
    /\ UNCHANGED <<cat, offset, stack>>

CloseDialog == place = "failed" /\ place' = "files" /\ UNCHANGED <<value, cat, offset, stack, written, file, wanted, saved>>

(* ui_settings.                                                             *)
OpenMenu ==
    /\ place = "files" /\ place' = "menu"
    /\ cat' = "root" /\ offset' = 0 /\ stack' = <<>>
    /\ UNCHANGED <<value, written, file, wanted, saved>>

Move ==
    /\ place = "menu"
    /\ \E o \in Moved(offset, Len(Entries[cat]), Rows) : offset' = o
    /\ UNCHANGED <<place, value, cat, stack, written, file, wanted, saved>>

(* Mutant: the cursor is reset before it is remembered.                     *)
EnterReset ==
    /\ place = "menu" /\ Here \in Categories
    /\ cat' = Here /\ stack' = Append(stack, 0) /\ offset' = 0
    /\ UNCHANGED <<place, value, written, file, wanted, saved>>

Enter ==
    /\ place = "menu" /\ Here \in Categories
    /\ cat' = Here /\ stack' = Append(stack, offset) /\ offset' = 0
    /\ UNCHANGED <<place, value, written, file, wanted, saved>>

Leave ==
    /\ place = "menu" /\ cat # "root"
    /\ cat' = Parent(cat)
    /\ offset' = Last(stack) /\ stack' = Front(stack)
    /\ UNCHANGED <<place, value, written, file, wanted, saved>>

Edits(type) == place = "menu" /\ Here \in Edited /\ Setting[Here].type = type

Toggle ==
    /\ Edits("flag")
    /\ value' = [value EXCEPT ![Here] = 1 - @]
    /\ UNCHANGED <<place, cat, offset, stack, written, file, wanted, saved>>

Step ==
    /\ Edits("choice")
    /\ value' = [value EXCEPT ![Here] = IF @ + 1 > Setting[Here].max THEN Setting[Here].min ELSE @ + 1]
    /\ UNCHANGED <<place, cat, offset, stack, written, file, wanted, saved>>

(* ui_settings_selector, and the color picker: any value, or the old one.   *)
Pick ==
    /\ Edits("list") \/ Edits("color")
    /\ \E v \in Picked(Here) : value' = [value EXCEPT ![Here] = v]
    /\ UNCHANGED <<place, cat, offset, stack, written, file, wanted, saved>>

(* setting_factory_reset_action, when the dialog is answered with yes.      *)
FactoryReset ==
    /\ place = "menu" /\ Here = "factory_reset"
    /\ place' = "boot" /\ value' = Default
    /\ \/ file' = NoFile /\ wanted' = Default /\ saved' = FALSE
       \/ CanFail /\ UNCHANGED <<file, wanted, saved>>
    /\ UNCHANGED <<cat, offset, stack, written>>

-----------------------------------------------------------------------------
(* settings_save: the file is truncated, then written line by line in the   *)
(* order of the tree, and has its new length only when it is closed.        *)
Order[c \in Categories] ==
    FlattenSeq([i \in DOMAIN Entries[c] |->
        IF Entries[c][i] \in Categories THEN Order[Entries[c][i]]
        ELSE IF Entries[c][i] \in Names THEN <<Entries[c][i]>> ELSE <<>>])

(* Mutant: a choice is written counted from one.                            *)
LineFromOne(s) ==
    [key |-> Setting[s].key,
     value |-> value[s] + IF Setting[s].type = "choice" THEN 1 ELSE 0]

Line(s) == [key |-> Setting[s].key, value |-> value[s]]

Exit ==
    /\ place = "menu"
    /\ \/ place' = "saving" /\ file' = <<>> /\ written' = <<>> /\ wanted' = value /\ saved' = FALSE
       \/ CanFail /\ place' = "failed" /\ UNCHANGED <<file, written, wanted, saved>>
    /\ UNCHANGED <<value, cat, offset, stack>>

Write ==
    /\ place = "saving" /\ Len(written) < Len(Order["root"])
    /\ \/ written' = Append(written, Line(Order["root"][Len(written) + 1])) /\ UNCHANGED <<place, file>>
       \/ CanFail /\ file' = written /\ place' = "failed" /\ UNCHANGED written
    /\ UNCHANGED <<value, cat, offset, stack, wanted, saved>>

Close ==
    /\ place = "saving" /\ Len(written) = Len(Order["root"])
    /\ \/ place' = "files" /\ file' = written /\ saved' = TRUE
       \/ CanFail /\ place' = "failed" /\ UNCHANGED <<file, saved>>
    /\ UNCHANGED <<value, cat, offset, stack, written, wanted>>

PowerOff ==
    /\ place # "off" /\ place' = "off"
    /\ place = "files" \/ CanFail
    /\ written' = <<>>
    /\ UNCHANGED <<value, cat, offset, stack, file, wanted, saved>>

PowerOn ==
    /\ place = "off" /\ place' = "boot"
    /\ value' = Default /\ written' = <<>>
    /\ UNCHANGED <<cat, offset, stack, file, wanted, saved>>

Init ==
    /\ place = "off" /\ value = Default /\ cat = "root" /\ offset = 0 /\ stack = <<>>
    /\ written = <<>> /\ file = NoFile /\ wanted = Default /\ saved = FALSE

Next ==
    \/ Load \/ FirstStart \/ CloseDialog \/ OpenMenu \/ Move \/ Enter \/ Leave
    \/ Toggle \/ Step \/ Pick \/ FactoryReset
    \/ Exit \/ Write \/ Close \/ PowerOff \/ PowerOn

Spec == Init /\ [][Next]_vars

-----------------------------------------------------------------------------
TypeOK ==
    /\ place \in {"off", "boot", "first", "menu", "saving", "files", "failed"}
    /\ \A s \in Names : value[s] \in Setting[s].min..Setting[s].max
    /\ cat \in Categories /\ offset < Len(Entries[cat])
    /\ Len(stack) <= 4 /\ Len(written) <= Len(Order["root"])

(* Leaving a category leads back to the entry it was entered by, all the    *)
(* way up, whatever happened below.                                         *)
WayBack ==
    place = "menu" =>
      /\ (cat = "root") <=> (stack = <<>>)
      /\ stack # <<>> => Entries[Parent(cat)][Last(stack) + 1] = cat
      /\ Len(stack) = 2 => Entries["root"][stack[1] + 1] = Parent(cat)

(* Settings that were saved without an error are those of the next start.   *)
SettingsReturn ==
    [][place = "boot" /\ place' = "files" /\ saved => value' = wanted]_vars

(* A save that fails or is cut off loses settings but mixes none up: at the *)
(* next start each has the value it had when the menu was left, or its      *)
(* default.                                                                 *)
CutSaveOnlyLoses ==
    [][place = "boot" /\ place' \in {"files", "failed"} =>
         \A s \in Names : value'[s] \in {wanted[s], Setting[s].init}]_vars

(* lang/en.po:118: the reader's font option "Selects the font used when     *)
(* reading text files", and is no other option's value.                     *)
ReaderFontReturns ==
    [][place = "boot" /\ place' = "files" /\ saved =>
         value'["txtview_font_size"] = wanted["txtview_font_size"]]_vars

(* lang/en.po:342, "This option will erase all settings!".                  *)
ResetErases == [][place = "menu" /\ place' = "boot" => file' = NoFile]_vars
=============================================================================
