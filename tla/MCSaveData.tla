----------------------------- MODULE MCSaveData -----------------------------
(* Instances of SaveData for TLC: gameA and gameB with battery-backed saves, *)
(* gameN without any, and gameF, a FreyaOS image with flash and SRAM.        *)
EXTENDS SaveData, TLC

CONSTANTS gameA, gameB, gameN, gameF

SramAndNone   == {gameA, gameN}
SramNoneNeeds == gameA :> {"SRAM"} @@ gameN :> {}
TwoGames      == {gameA, gameB}
SharedNeeds   == gameA :> {"SRAM"} @@ gameB :> {"SRAM"}
OneGame       == {gameA}
OneSram       == gameA :> {"SRAM"}
OneEeprom     == gameA :> {"EEPROM"}
BothNeeds     == gameA :> {"SRAM", "EEPROM"}
FreyaGames    == {gameF}
FreyaNeeds    == gameF :> {"FLASH", "SRAM"}

(* Bound: nothing is explored behind an event after which the properties    *)
(* of the run claim nothing.                                                *)
Unbroken == holes = {}
=============================================================================
