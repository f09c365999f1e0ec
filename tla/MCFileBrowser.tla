---------------------------- MODULE MCFileBrowser -----------------------------
(***************************************************************************)
(* Cards: one with directories in a directory, one with a .fx program and  *)
(* the directory of its saves.                                             *)
(***************************************************************************)
EXTENDS FileBrowser

MCOrder == <<"sub", "ram0", "game", "game.sram", "game.rtc", "prog", "pic", "text">>
MCKind ==
    [n \in ToSet(MCOrder) |->
        CASE n \in {"sub", "ram0"} -> "dir"
          [] n = "game" -> "rom"
          [] n = "prog" -> "fx"
          [] n = "pic" -> "bmp"
          [] n \in {"game.sram", "game.rtc"} -> "save"
          [] OTHER -> "text"]

TreeCard == {<<"pic">>, <<"sub">>, <<"game">>, <<"game.sram">>, <<"game.rtc">>,
             <<"sub", "sub">>, <<"sub", "prog">>, <<"sub", "game">>}
FxCard == {<<"prog">>, <<"ram0">>}
SmallOrder == <<"sub", "game", "game.sram", "game.rtc">>
SmallKind == [n \in ToSet(SmallOrder) |-> MCKind[n]]
SmallCard == {<<"sub">>, <<"game">>, <<"sub", "game">>}
TinyOrder == <<"sub", "game">>
TinyKind == [n \in ToSet(TinyOrder) |-> MCKind[n]]
TinyCard == {<<"sub">>, <<"game">>}
=============================================================================
