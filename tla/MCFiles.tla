------------------------------- MODULE MCFiles -------------------------------
(*****************************************************************************)
(* The values of Files' parameters for TLC.                                  *)
(*****************************************************************************)
EXTENDS Files, MCFileBrowser

File(d, n) == [dir |-> d, name |-> n, date |-> n \div 2, time |-> n % 2, size |-> 3 - n]
SomeFiles == {File(FALSE, 0), File(FALSE, 1), File(FALSE, 2), File(TRUE, 1)}
TwoFiles  == {File(FALSE, 0), File(FALSE, 1)}

(* Short directories with every order of few names, some of them equal.      *)
Shorts == UNION {[1..n -> SomeFiles] : n \in {0, 3, 5}} \cup UNION {[1..n -> TwoFiles] : n \in {6, 7, 8}}
AllModes == {"name_asc", "name_desc", "size_asc", "size_desc", "date_asc", "filesystem"}

(* WonderWitch components shorter than a bank, of a bank, and longer.        *)
Component(kind, length) == [kind |-> kind, length |-> length]
Components == {Component("bios", 4), Component("bios", 3), Component("os", 3),
               Component("os", 2), Component("os", 5)}

(* A table of OSes of which each is longer than the one before; banks of     *)
(* each of them, and of none.                                                *)
Known(name, cells) == [name |-> name, cells |-> cells]
KnownOses == <<Known("clean", <<"a">>), Known("first", <<"b", "a">>),
               Known("second", <<"b", "b", "a">>), Known("third", <<"b", "b", "b", "a">>)>>
TheBios   == <<"a", "a", "b", "b">>
KnownBios == <<Known("bios", TheBios)>>
AllBanks  == [1..4 -> {"a", "b"}]

NoCommand  == {}
ListOnly   == {"list"}
AnyScreen  == {"list", "open", "options", "delete", "erase", "unreadable"}
SomeOrders == {"cd", "change", "upload"}
AllOrders  == {"cd", "change", "upload", "launch", "ask"}

(* What each part is given.                                                  *)
TheShell == [Kind |-> SmallKind, Order |-> SmallOrder, StartCard |-> SmallCard, Memory |-> 3,
             CanFail |-> FALSE, ShowSaves |-> TRUE, ShellAt |-> ListOnly,
             Commands |-> SomeOrders]
TheRemote == [Kind |-> TinyKind, Order |-> TinyOrder, StartCard |-> TinyCard, Memory |-> 4,
              CanFail |-> TRUE, ShowSaves |-> TRUE, ShellAt |-> AnyScreen,
              Commands |-> AllOrders]
TheSort == [Directories |-> Shorts, Modes |-> AllModes, Threshold |-> 3, Ranges |-> 1]
TheImage == [Bank |-> 4, NewSize |-> 12, Images |-> {0, 7, 8, 9, 12},
             Flashes |-> {0, 4, 8, 12}, Offered |-> Components, Free |-> 11, CanFail |-> TRUE]
TheExtract == [Bank |-> 4, Table |-> KnownOses, BiosTable |-> KnownBios, Contents |-> AllBanks,
               BiosBank |-> TheBios, Short |-> TRUE, Free |-> 6, CanFail |-> TRUE]

-----------------------------------------------------------------------------
(* What the theorems about these parts ask of them.                          *)
ASSUME TheoremsApply ==
    /\ ShellAsks /\ NoRam0 /\ ShellStays /\ Shell!ShellAsks /\ Shell!NoRam0
    /\ Sort!Bounds([n \in 0..1 |-> IF n = 0 THEN 8 ELSE 3])
=============================================================================
