# swanshell in TLA+

swanshell is the firmware shell of the nileswan cartridge for the WonderSwan: it
boots from the cartridge, browses a FAT storage card, copies a game's save data
into the cartridge's memory, starts the game, and stores the save data again at
the next boot. It also plays media, receives programs over USB, keeps settings and
a clock, and sets the cartridge's microcontroller (MCU) up. It is single-threaded C,
with interrupt handlers, one coroutine (the USB shell), a second program (the
bootstub) that replaces it in memory to start a game, and a power switch that may
be used at any moment. Its hard behaviour is what survives that switch, what an
interrupt does between two reads, and what the shell changes while a menu waits.

Paths below are relative to the repository.

## 1. Inventory

| component | state it keeps | operations | what is hard | correct when | module |
|---|---|---|---|---|---|
| Save data lifecycle (`src/menu/launch/launch.c`, `src/menu/util/file.c`) | SAVE.INI and save files on the card; the save ID in the MCU and in the IPC area; the media SRAM, EEPROM, FLASH (PSRAM) | `launch_restore_save_data`, `launch_backup_save_data`, `preallocate_file` | power loss at any step, failing card and MCU, a dead battery, dialogs that may be declined, memory shared with the file selector | no save is lost without a message, no game's data reach another game's file, a game sees the save it left | `SaveData`, `SaveVault`; proofs: `SaveDataProofs` |
| AthenaOS and `.fx` launch (`launch_athena.c`) | a ROM image with a file system, the OS version in SRAM, SAVE.INI, the save ID | build the image, store `/ram0` back | order of SAVE.INI, ID and version; 16-bit segments; partial copies | as above, per file; files do not overlap; the chosen file runs | `AthenaSave`, `AthenaRom`; proofs: `CartridgeProofs`, `AthenaRomProofs` |
| Cartridge MCU and status (`src/menu/cart/`) | firmware and its footer, MCU mode, status bits, orientation | `mcu_reset`, `cart_irq_update`, `cart_status_update` | power loss in an update, acknowledged interrupts, failing readouts | an incomplete firmware is not started; the layout turns after two readouts | `McuUpdate`, `CartStatus`; proofs: `CartridgeProofs` |
| Main loop (`main.c`) | tick counter | `idle_until_vblank`, boot, `factory_reset` | runs the shell inside waiting dialogs; a slow loop skips ticks | a removed card is noticed | `CartStatus`, `SaveData`, `Settings` |
| Input (`src/menu/util/input.c`, `plugin/ui_hid.c`) | key masks shared with an interrupt handler, repeat timers | `vblank_input_update`, `input_update`, `ui_hidctrl` | interrupt between copy and reset, 8-bit timers | a press is reported once, a held key again and again | `Input`; proofs: `MenuProofs` |
| Tasks and remote shell (`src/menu/util/task/`, `src/menu/shell/`) | a coroutine's stack, the command line | `task_resume`, `task_yield`, the tokenizer, commands | re-entrance through dialogs; a line split in place over older ones | a command gets the words that were typed | `ShellCommand`, `FileBrowser` |
| XMODEM (`xmodem.c`) | block index, last block, PSRAM offset | `xmodem_send`, `xmodem_recv_to_psram` | timeouts, repeated and damaged blocks, full memory | what is received is what was sent | `XModem`, `FileTransfer`; proofs: `XModemProofs` |
| File selector and sorting (`ui_file_selector*.c`) | entries and an index in cartridge SRAM, depth, cursors of directories above | scan, sort, enter, leave, open | bounded stack, a comparator that is no order, calls that fail after the depth changed, the shell's `cd` | the list is the current directory's, in order | `FileBrowser`, `QSort`; proofs: `FileBrowserProofs`, `FilesProofs` |
| List navigation, dialogs (`ui_selector.c`, `ui_popup_list.c`, `ui_popup_dialog.c`) | offset, page | keys | wrap-around, last page | the cursor is in the list | `Selector`, `FileBrowser` |
| File operations (`ui_fileops.c`, `ui_file_selector_options.c`) | files | delete a file or its saves | what is deleted is named by a relative path | only what was asked about is deleted | `FileBrowser`; proofs: `FileBrowserProofs` |
| Settings (`settings.c`, `settings_tree.c`, `src/menu/util/ini.c`) | the tree, the values, CONFIG.INI | load, save, the menu, first start, factory reset | power loss and failing calls while the file is rewritten | what was saved returns; a cut only loses | `Settings` |
| Real-time clock (`cart/rtc.c`, `ui_rtc_clock.c`) | BCD date and time, 12/24-hour mode | read, set, parse, turn digits | BCD arithmetic, leap years, two writers | weekdays and texts are right, what is set is told | `RtcTime`, `RtcCalendar`, `RtcClock`; proofs: `MenuProofs` |
| WAV player (`plugin/ui_wavplay.c`) | a ring of two halves the DMA or an interrupt plays | find chunks, refill, seek | reader against player, unsigned arithmetic | nothing is played twice or while it is filled | `WavPlay`; proofs: `MenuProofs` |
| VGM player (`plugin/ui_vgmplay.c`, `plugin/vgm/`) | place in the song, samples in RAM, a timer | interpret commands in an interrupt | banks, 16-bit pointers, waits that are over | it reads commands, streams play their block | `VgmPlay` |
| WonderWitch tools (`ww/`) | ROM images and `.flash` files | replace and create images, extract OS and BIOS | failing and full cards, positions in two files | components lie where they are looked for | `WwImage`, `WwExtract`; proofs: `FilesProofs` |
| Other launchers (`launch_bfb.c`, `launch_com.c`, `launch_plugin.c`, `launch.s`) | none that survives | jump to a program | start without SAVE.INI of their own | leave save data alone | in `SaveData` |
| Asset heap (`src/menu/util/asset_heap.c`) | first free bank and offset | allocate | exhaustion | no overlap | a constant of `XModem` |
| Bootstub (`src/bootstub/`) | place in the file and its cluster chain, a sector of the FAT, bank and offset | load the program or move it, patch, jump | fragmented files read ahead, failing reads that are repeated, a move onto itself | every byte of the file is at its place | `Bootstub`; one step in `SaveData`; proofs: `BootstubProofs` |
| Text and bitmap viewers, drawing, fonts, language, SHA-1, inflate | little | | | | none |

How they interact: `main` starts the MCU (`mcu_reset`), loads the settings, runs
`launch_backup_save_data` once, then `ui_file_selector` for ever. The selector calls
`launch_restore_save_data` and then `launch_rom_via_bootstub`, which never returns, or
a player, viewer or tool, which does. Every wait of every dialog and list calls
`idle_until_vblank`, which polls the MCU (`cart_irq_update`, `cart_status_update`) and
resumes the shell's task; the shell calls the same launch functions, and changes the
same card, directory and clock. Boot, game, soft reset and power switch form the outer
loop.

`PROJECT.json` lists each hazard at its line.

## 2. Plan

Written, in this order: `SaveData` with `SaveVault` and their proofs; `XModem` with
`FileTransfer` and `XModemProofs`; then the parts of section 5, one module each, and the
modules that run them (section 6).

Left, the most valuable first: a full card and files longer than their medium in
`SaveData`; theorems about the settings, the shell's words and the VGM player;
the DMG driver's line interrupt in `VgmPlay`.

## 3. The save data modules

### `SaveData.tla`

One action per step of the two functions, split wherever power may be lost with a
different outcome, that is at each change of the card, the MCU or a medium.

| variable | in the code |
|---|---|
| `pc`, `cur`, `todo`, `chunk`, `result` | program counter, ROM (`meta`), media still to handle, progress of the copy loop, `int16_t result` |
| `outer` | the launch whose dialog is on the screen while the shell runs another one |
| `ini` | `/NILESWAN/SAVE.INI`: game ID and entries; absent, empty (created, not yet written) or complete |
| `size`, `data` | the `.sram`/`.eeprom`/`.flash` files beside the ROM |
| `mcu`, `ipc` | save ID and target bits in the MCU; save ID at the end of the IPC area (`NILE_IPC_SAVE_ID`) |
| `store` | cartridge SRAM, EEPROM, PSRAM |
| `latest`, `told`, `holes` | history only, never read by an action of the firmware |

`Backup` (`BackupOpenIni` ... `BackupClearSaveId`) is `launch_backup_save_data`
as `main` calls it; `Restore` (`RestoreSetSaveId` ... `RestoreWriteIni`) is
`launch_restore_save_data` with `preallocate_file`; `AbortLaunch`, `AcceptLaunch`
are the two ways out of the dialogs behind it; `RemoteLaunch`, `RemoteReturns` are
`shell_launch_file` run by such a dialog; `BootstubLoad` is the bootstub's copy to
PSRAM. `GameWrite`, `OtherWrite`, `SoftReset` and `PowerCycle` are the world.
`EnterMenu` includes the directory listing, which the file selector keeps in
cartridge SRAM from its second bank on, over whatever save is still there.

Data abstractions: a medium and a file are `Chunks` chunks; a chunk is its writer
and a version; a path is the game's name. A save file written by `f_write` is on
the card at once but for its last chunk, which is in FatFs's sector buffer until
`f_close`; a file's new length is on the card after `f_close`.
A full card, files longer than their medium and the verify option are left out.

`holes` records the four events after which the code, as it is, no longer protects
saves: a return to the selector with SAVE.INI alive (`lingering`), a dropped
`f_close` error (`close`), a power cut after SAVE.INI is removed and before the
error is shown (`cut`), and a failed remote launch inside a dialog (`remote`). The
properties that must hold say `holes = {}` or name the holes they exclude; each
hole the code can fall into without any power cut has a run of its own that
exhibits the violation. Nothing else is excused.

### `SaveVault.tla`

The promise to the player without any of the machinery: `home` (the save on the
card), `live` (as the game left it), `excused` (lost, and the player knows), `open`
(the selector is open). The card only ever changes towards `live` (`Store`), and
the selector opens only when every save is `Kept` or excused (`Open`).
`SaveData!ImplementsVault` is `Vault!Spec` under the mapping `home <- Prepared`
(what the next launch would give the game), `live <- latest`, `excused <- told`.

### Properties

| property | says |
|---|---|
| `TypeOK` | the type invariant |
| `FilesOwn` | a save file holds only its own game's data, as long as no SAVE.INI lingered and no remote launch failed inside a dialog |
| `NoSilentLoss` | in the selector every save is what the game left, or the user has been told |
| `SaveIdVouches` | at boot, an ID that matches SAVE.INI means the medium holds what the game left, or what the file holds already: no half-copied restore is ever stored |
| `GameSeesItsSave` | a game prepared without an error runs on the save it last left, in every medium |
| `RestoreKeepsFiles` | no step of a restore, failing or not, changes what a save file holds |
| `ImplementsVault` | the refinement above |
| `ComesToRest` (`SaveRests` in `MCProgress`) | once nobody resets the console, backup and restore end, whatever fails |

## 4. The file transfer modules

### `XModem.tla`

`xmodem_send` and `xmodem_recv_to_psram` over the USB serial line. Each normally
talks to a program on a computer; here each is the other's peer, so that what one
assumes of its peer is what the other does.

| variable | in the code |
|---|---|
| `sres`, `rres` | `result`, with "idle" before the call and "run" in the loop; "full" between the last block's acknowledgement and the CAN |
| `sent`, `fresh`, `avail` | `xmodem_idx` without its wrap-around, `new_data_requested`, `data_available` |
| `length` | the blocks the callback finds in the file (a read error ends it there) |
| `psram` | the blocks stored so far; its length is `offset` and `bank` in blocks, and one more is the receiver's `xmodem_idx` |
| `soh`, `eot`, `silence` | `received_soh`, `eot_step`, `timeout_ticks` |
| `line`, `toR`, `toS` | the cable and the bytes on their way |

`SenderHears` is one turn of the sender's loop, `ReceiverHears`, `ReceiverSilence`
and `ReceiverFull` are the turns of the receiver's. Block n of the file is the
number n, and `Expected` compares indices modulo `IdxMod` as the code compares
bytes. Damage is what the code can tell apart: a bad header, bad data, a block whose
end is missing, a control byte that is no control byte any more. Writes may time
out, in the middle of a block too; reads may fail; the cable may be pulled and put
back; both sides may be cancelled. `Slow` lets the receiver's timeout expire while
an answer is on its way, so that requests pile up.

Not here: a message losing single bytes in its middle, damage that turns one control
byte into another or deceives the check sum, and the correction of the size after
a transfer (`xmodem.c:260-269`).

### `FileTransfer.tla`

The promise: blocks arrive in order and once (`Deliver`), the receiver is done only
with all of them, the sender only after the receiver, each may give up at any time,
and a read error shortens the file (`CutShort`). `XModem!ImplementsTransfer` maps
`taken <- psram` and the results to "busy", "done", "failed".

### Properties

| property | says |
|---|---|
| `TypeOK` | the type invariant |
| `InOrder` | PSRAM holds a prefix of the file |
| `OkIsComplete` | the receiver succeeds only with all blocks, the sender only if the receiver did |
| `ImplementsTransfer` | the refinement |
| `Completes` | if both loops run and single bytes are not lost, both succeed |
| `Resynchronizes` | after a block of the wrong index the receiver gets one it can use, or gives up; violated |

## 5. The other parts, one module each

A module holds one part of the firmware: its state, one action per handler or step, its
faults, and the properties it is to have. Each says at its head what it abstracts.

| module | one action for | state and code | what can go wrong in it |
|---|---|---|---|
| `AthenaSave` | each step of launch, program and backup that a loss of power can separate | `ini` SAVE.INI, `mcu` the save ID, `version` the OS version in SRAM, `present`, `sram` the directory and contents there, `dir` the `/ram0` files on the card | power at any step, card, MCU, battery; the directory listing lies over the contents |
| `AthenaRom` | a file found, placed, read bank by bank, finished | `segment` in 16 bits, `rom`, `ram` the directories, `written` which file each segment holds, `exec` the index to execute | limits, sizes that do not end at a segment or a sector, names in use, failing reads |
| `McuUpdate` | each call to the MCU or the card in `mcu_reset` and `cart_status_init` | `footer`, `blob` what the MCU's flash holds, `bin` MCU.BIN | any call fails, power between any two, MCU.BIN replaced |
| `Bootstub` | `main` up to the loop, a half of a bank, each turn and each lookup of `cluster_read`, a stretch of the move, the patch | `at` bank and offset, `ptr`, `cluster`, `run` of the file being read, `window` the FAT's sector and what is really in it, `psram` which byte of the file is where | failing reads that change the window, short chains, clusters in any order, sizes that end anywhere |
| `CartStatus` | `idle_until_vblank`, `cart_tf_removed_handler`, the list's look at the orientation, the settings | `irqs` the latched interrupts, `staged` and `shown` orientation | a loop that skips ticks, failing calls, a card and a console that move |
| `Input` | the interrupt; the copy, the decision and the reset of `input_update`; the waits; controller mode | the masks `keys`, `repressed`, `released`, the timers modulo `Wrap` | the interrupt between any two, a loop that is late by more than half a turn of a timer |
| `ShellCommand` | a character, each step of the tokenizer, a command | `line` the buffer with what older lines left, `typed` what the user meant | quotes, backslashes, words that touch, the end of the buffer |
| `Selector`, `FileBrowser` | each key in the list, the menus and the dialogs; each command of the shell that changes card, directory or list | `card`, `cwd`, `list` as it was read and where, `depth`, `memory` of cursors (`path_depth`), `screen` | calls that fail, a shell that works while any screen waits |
| `Settings` | each key in the menu, each line written, each start | `values`, `file` CONFIG.INI line by line, `path` of categories and offsets | calls that fail, power between any two lines |
| `QSort` | a partition's median, scans and swaps, the insertion sort's turns | `a` the index, `stack` the ranges still to be sorted | equal files, comparators that are no order |
| `RtcTime`, `RtcCalendar` | a day and an hour | a BCD time; texts are what `extract_bcd_value` reads | leap years, 12-hour mode, the digits turned |
| `RtcClock` | the editor's keys and looks, the shell's `date`, a second | `chip`, `h24` the clock's registers, `seen` the editor's copy | seconds and commands between a look and a write, lost power, failing calls |
| `WavPlay` | a chunk, a check of the format, a fill, a key, a frame of playing | `play` what the ring holds and where it is played, `tell` the file's position, `next` the half to fill | chunks in any order, failing reads, seeks |
| `VgmPlay` | each command of the song, the interrupt's return | `bank`, `pos`, `seg`, `off` the place, `memory`, `blocks`, `dma` the samples, `timer` | banks, loops, memory that fills up, waits that are over |
| `WwImage`, `WwExtract` | each seek, read and write of a tool | `image`, `flash` cell by cell, `ram` the footer's buffer; `context` the digest, `fbin` what was extracted | failing and full cards, files of odd sizes |

## 6. How the parts are run together

The firmware has one thread, and most parts run to their end before another begins; where
they do not (interrupts, the shell's task, a loss of power), the interleaving is inside
one module. So the modules that TLC runs put parts side by side: `on` says which part
runs, `Rest` that the others keep their state, and each part's specification takes its
own steps only. Parts share no variables but those the code shares, which are in one
module already. A part that does not run rests at one state, so the states of a
run are the sum of its parts'.

`Cartridge`, `Files` and `Menu` are such compositions over any parameters: what a part
needs is the field of a record (`RomOf.Bank`, `StubOf.Programs`, ...), the theorems of
section 9 hold for all of them, and `MCCartridge`, `MCFiles` and `MCMenu` only give them
values. `PartsAssumption` is the conjunction of the parts' own assumptions. Where a part
has a module of theorems, the instance is of that module, so that its theorems are the
composition's too.

| module | parts and instances |
|---|---|
| `MCSaveData` | games and what they need, for `SaveData` |
| `MCFileBrowser` | cards, kinds of files and their order, for `FileBrowser` |
| `MCSongs` | `.wav` and `.vgm` songs |
| `Cartridge`, values in `MCCartridge` | `AthenaSave` with a failing card and battery, and once more with a failing MCU; `AthenaRom`; `McuUpdate`; `Bootstub`; `CartStatus` |
| `Files`, values in `MCFiles` | `FileBrowser` alone with failing calls, with the shell's commands while the list is shown, and with any command at any time; `QSort`; `WwImage`; `WwExtract` |
| `Menu`, values in `MCMenu` | `Settings`, `Input`, `ShellCommand`, `WavPlay`, `VgmPlay`, `RtcCalendar` for all days and for texts, `RtcClock` |
| `MCProgress` | `SaveData`, `XModem`, `Input`, `CartStatus`, `WavPlay`, `VgmPlay`, with fairness |

A property of such a module is the conjunction of what the parts promise, under the
condition that the part runs.

## 7. Runs

| run | instance | shows |
|---|---|---|
| `save_faults` | SRAM game and game without saves, every fault, `MaxVer` 1 | `TypeOK`, `NoSilentLoss`, `SaveIdVouches`, `ImplementsVault` |
| `save_shared` | two SRAM games, failing battery and MCU | `FilesOwn`, `RestoreKeepsFiles` |
| `save_freya` | FreyaOS image (FLASH and SRAM), failing battery, MCU, close | `GameSeesItsSave`, `ImplementsVault` |
| `xmodem_safe` | up to 3 blocks, room for 3, every kind of fault, three faults, `Slow` | `TypeOK`, `InOrder`, `OkIsComplete`, `ImplementsTransfer` |
| `cartridge` | `MCCartridge`: two programs of two files; 9 kinds of files for an image of 42 segments; two firmwares in two chunks, any call fails; programs of one to four banks of 8 sectors, on FATs of every width and clusters laid out in four ways, two failing reads; a period of 4 ticks, a loop late by 2 | a program's files hold what it left there (`FilesOwn`) and are on the card or missed with a message (`NoSilentLoss`); `FilesIntact`, `ImageInPlace`, `JumpsIntoFirmware`, `TurnsUpSteady` |
| `files` | `MCFiles`: a tree of three levels, failing calls; directories of up to 8 files; images of 2 to 3 banks; all contents of a bank | `ListIsCurrent`, `ChangesOnlyMeant`, `CursorReturns`, `ListSorted`, `ComponentInPlace`, `ExtractedIsWhole` |
| `menu` | `MCMenu`: two keys, repeated every 2 ticks, a counter that turns at 6 and a loop late by 3, interrupts at any step; lines of 3 characters; a flag, a choice and a list with cuts and failures; songs of every format; a hundred years | `KeysHeardInTime`, `CommandGetsWords`, `SettingsReturn`, `CutSaveOnlyLoses`, `NothingPlayedTwice`, `TunesInPlace`, `TimesFit`, `SetIsTold` |
| `progress` | `MCProgress`, under fairness | `SaveRests`, `Completes`, `HeldKeyHeard`, `RemovalIsNoticed`, `SongEnds` |
| `save_declined` | no fault at all | violates `FilesHoldOwnSaves` |
| `save_remote` | a failing card, two games | violates `GamesGetTheirSaves` |
| `xmodem_lost_ack` | up to 2 blocks, one damaged answer, `LiveSpec` | violates `Resynchronizes` |
| `browser_delete` | one `cd` of the shell while the menu asks | violates `DeletesWhatWasAsked` |

Bounds of the save data runs. Two chunks are enough for "copied, half copied, not
copied" and for a file that is absent, empty, short or complete; one or two games for
"own data" and "another's data"; `MaxVer` bounds the versions a game writes (with 0 a
game's data differ from fill bytes and from junk, with 1 two versions of its own data
differ too). The constraint `Unbroken` cuts behind an entry of `holes`, where the
properties of those runs claim nothing.

Bounds of the transfer. `IdxMod` is 2: the worst width, at which every block but the last
two shares its index with an earlier one. `MaxFaults` bounds the faults: two can overlap
(an acknowledgement lost, its repetition damaged) and a third still follow; `MaxQueue`
bounds the requests that pile up before the sender starts, and three suffice for the
sender to run ahead of the receiver by repetitions of two blocks. In `xmodem_safe` the
longest file fills the memory (`Capacity` 3) and the shorter ones do not.

Bounds of the other parts. Sizes are scaled so that each boundary occurs: an image of
banks of 16 bytes and segments of 2 has files that end inside a segment, a sector, a
bank, at the limit and behind it; a bank of a song has 32 cells and a command lies across
its end; the timers turn at 6 ticks and the loop may be late by 3. `MaxTrouble`,
`MaxFaults`, `MaxMoves`, `MaxKeys`, `MaxTicks` and `MaxSets` bound how often the world
interferes: two, where one fault can hide another. Three components with a file each
of two and one of three banks let a position cross from one bank into another, and a card
with room for 11 cells is full when an image of 12 is made. The
century of `RtcCalendar` is the clock's own.

Deadlock is checked for the save data. Elsewhere CHECK_DEADLOCK is FALSE, since parts
end: a transfer is over, a sender whose receiver has stopped waits for ever
(`xmodem.c:103-109`), a sort is done, a song has ended.

### Fairness

`MCProgress!Fairness` asks weak fairness of the steps the firmware takes by itself
(`SaveData!Firmware`), of both loops of a transfer and the receiver's clock, of the
display's interrupt, of the main loop between two interrupts, of the card's wait, and of
the reader of a song; strong fairness only of `FramePlays`, that in every frame something
of the song is played while it is left, as `Frame` samples are what DMA or interrupt
take in the time between two frames. Users, games, cards and hosts owe nothing.
`SaveRests` begins when nobody resets the console any more; `Completes` when both loops
run, and the timeout expires only when nothing is under way, which is how a line of
millisecond delays meets a timeout of one to four seconds; `RemovalIsNoticed` is of a
loop that keeps up with the display (`MaxLag` 0): one that takes two ticks a turn passes
over the poll for ever, which is the mutant that breaks it. `XModem!LiveSpec` is used by
`xmodem_lost_ack` alone.

## 8. Divergences met while modelling

Four have a run, which `PROJECT.json` explains under "findings":

- `save_declined`: the battery dialog comes after SAVE.INI and the save ID have
  been written (`ui_file_selector.c:324-335`). Answering No leaves both; the
  listing overwrites SRAM, and the next boot stores the listing as the game's save.
- `save_remote`: a remote launch that fails inside a dialog has replaced ID, media
  and SAVE.INI of the launch the dialog belongs to, which then goes on.
- `xmodem_lost_ack`: a second request makes the sender repeat block n, of which the
  acknowledgement is lost. The receiver, waiting for n + 1, answers nothing and asks
  again after a timeout; the sender repeats n; each repetition resets
  `timeout_ticks` (`xmodem.c:184`), so neither gives up.
- `browser_delete`: popup list and dialog drop what `idle_until_vblank` returns, so a
  `cd` of the shell makes the menu delete a file of the same name elsewhere.

The others were found by TLC in instances of the modules as given here: the formula is in
the module, and the constants decide whether the case occurs. The runs above choose
theirs so that it does not, or except it in the property where it says so.

| formula | module, constants | what the code does | what is said of it |
|---|---|---|---|
| `SramIsBatteryBacked` | `SaveData`, FLASH and SRAM, no faults | after a power-off, the FLASH entry's ID is gone and the backup stops before the intact SRAM (`launch.c:502`) | SRAM is battery backed (`src/docs/content/witch/`) |
| `LossIsReported` | `SaveData`, `Faults = {"close"}` | the `f_close` that writes a save's last sector is not checked (`launch.c:534`) | "Could not store save data!" (`src/lang/en.po:317`) |
| `FilesOwn` | `AthenaSave`, `CutAt = {"run", "jump"}` | the save ID is set before the old OS version is cleared: power lost between makes the next boot store the directory listing in the program's files (`launch_athena.c:616`) | "If OS version is not set, assume ram0 was not initialized" (`launch_athena.c:188`) |
| `FilesOwn` | `AthenaSave`, `Faults = {"open"}` | an error opening SAVE.INI at boot leaves it and the ID in place (`launch.c:452`) | "If the .ini file doesn't exist, skip." (`launch.c:449`) |
| `OsKept` | `AthenaRom`, a file shorter than its header claims | sectors claimed move `file_segment` past AthenaOS, where the free size wraps (`launch_athena.c:443`) | "the 640 KiB limit" (`src/docs/content/witch/fx.md:31`) |
| `ChosenRuns` | `AthenaRom`, `SkipChosen = TRUE` | `file_exec_idx` is set before it is known that the file is added (`launch_athena.c:336`) | `src/docs/content/witch/fx.md:39` |
| `JumpsIntoWhole` | `McuUpdate`, `CutAt = {"chunk"}` | the footer that says the firmware is complete is written before it: power lost between leaves a partial firmware that is started at every boot (`mcu.c:105`) | "Compare MCU footer with MCU.BIN copy" (`mcu.c:80`) |
| `ImageAlwaysInPlace` | `Bootstub`, 12-bit FAT | a failing read may change the window but keeps its label; a 12-bit entry across two sectors whose second read failed is looked up again in that window (`cluster_read.c:63`) | "Storage I/O error" (`src/src/bootstub/main.c:73`) |
| `TurnsAreSteady` | `CartStatus`, `Failing = TRUE` | a readout that fails turns an upright screen at once (`status.c:135`) | "Require at least two readouts" (`status.c:120`) |
| `ReturnReboots` | `CartStatus`, `MaxMoves = 2` | a card taken out and put back between two polls is waited for for ever (`irq.c:75`) | `src/docs/content/user/changelog.md:105` |
| `ClearExitsHid` | `Input`, `Clear` above `Loop` | `input_update` never holds the Clear key, so it does not end controller mode (`input.c:115`) | `ui_hid.c:64` |
| `StaysInLine` | `ShellCommand`, a backslash | a backslash at the end of the line takes the tokenizer into an older line (`tokenizer.c:44`) | `tokenizer.h:31` |
| `EchoRepeats` | `ShellCommand` | `echo a b` prints `ab ` (`shell.c:547`) | "Echo text" (`shell.c:87`) |
| `FlagsAreNoPaths` | `ShellCommand`, a dash | `ls -ls` lists the path `s` (`shell.c:368`) | `changelog.md:8` |
| `CatPrintsFile` | `ShellCommand`, `Texts` not empty | `cat` prints the rest of its buffer (`shell.c:342`) | `shell.c:83` |
| `ReaderFontReturns` | `Settings`, `Edited = {"scroll_long_names"}` | two settings share a key (`settings_tree.c:151`) | `src/lang/en.po:118` |
| `ResetErases` | `Settings`, `CanFail = TRUE` | a factory reset does not look at whether its files were removed (`main.c:97`) | `src/lang/en.po:342` |
| `ListShowsDirectory` | `FileBrowser`, a card with a `.fx` program | a launch that fails has changed the directory, the list is kept (`ui_file_selector.c:353`) | `src/docs/content/user/introduction.md:16` |
| `MemoryInBounds` | `FileBrowser`, `Memory = MaxDepth` | entering a directory as deep as `path_depth` is long writes behind it (`ui_file_selector.c:314`) | the guarded read (`ui_file_selector.c:286`) |
| `ListIntact` | `FileBrowser`, `Commands = {"launch"}` | a transfer that fails has overwritten the list (`shell.c:226`) | `introduction.md:16` |
| `TaskNotReentered` | `FileBrowser`, `Commands = {"ask"}` | a dialog inside the shell's task resumes that task (`shell.c:174`) | `task.h:71` |
| `SortedByDate` | `QSort`, `Modes = {"date_asc"}` | the comparator never says less (`ui_file_selector.c:59`) | `src/docs/content/user/settings.md:18` |
| `FilesystemKept` | `QSort`, more than `Threshold` files | what is equal is shuffled (`ui_file_selector.c:126`) | "Filesystem" (`src/lang/en.po:75`) |
| `StackHolds` | `QSort`, `Ranges = 6`, 575 files in order | a seventh range is pushed (`ui_file_selector_qsort.c:50`) | `ui_file_selector_qsort.c:47` |
| `NoFormatIsTold` | `WavPlay`, a file without a data chunk | its end is read for ever (`ui_wavplay.c:112`) | "fmt chunk not found" (`ui_wavplay.c:120`) |
| `AtCommands` | `VgmPlay`, blocks without a loop point, or more samples than fit | each pass adds the blocks again; the block that does not fit is not passed over, its samples are read as commands, and the value that says "finished" becomes a wait (`core.c:239`, `core.c:259`, `core.c:399`) | "can't add this much PCM data" (`core.c:258`) |
| `StreamsPlayTheirBlock` | `VgmPlay`, the low samples filled to the end | the next block goes over the first one's, at 0x8000 again (`core.c:246`) | the same |
| `FlagsInBounds` | `VgmPlay`, a stream other than the first | flags are written behind their array (`core.c:288`) | `VGM_MAX_STREAMS` (`vgm.h:38`) |
| `NothingLeftEver` | `VgmPlay` | a song refused after `vgm_init_dmg` leaves the line interrupt on, with a state that is gone (`ui_vgmplay.c:146`) | the other way out (`ui_vgmplay.c:169`) |
| `HandlerReturns` | `VgmPlay`, a loop of waits no longer than `MaxTicks` + 1 | the interrupt's handler never returns (`ui_vgmplay.c:52`) | none |
| `DatesAreAccepted` | `RtcCalendar`, `PastEnd = {3}` | the table of days is indexed with a BCD month (`rtc.c:98`) | `changelog.md:42` |
| `FarKeysGoFar` | `RtcCalendar` | Y1 and Y3 leave the hour as it is (`rtc.c:180`) | `changelog.md:9` |
| `DatesExist` | `RtcCalendar` | a month that is changed leaves a day it does not have (`ui_rtc_clock.c:227`) | `changelog.md:9` |
| `CreationEnds`, `ExtractionEnds` | `WwImage`, `WwExtract`, `Free` less than is needed | on a full card the copying loops never end (`image.c:296`, `extract.c:165`) | `image.c:391` |
| `ImageHasItsSize` | `WwImage`, `Free` one cell less than `NewSize`, a BIOS shorter than a bank | `f_lseek` ends at the end of a full card without an error, and a BIOS shorter than a bank is written before that: an image that is too short is reported as made (`image.c:392`) | `image.c:391` |
| `BiosIsReplaced` | `WwImage`, `Images = {9}` | in an image that is no multiple of 64 KB the BIOS is written in the wrong order (`image.c:286`) | `src/docs/content/witch/image.md:50` |
| `ImageIsNew` | `WwImage`, `Flashes = {0, 8}` | a `.flash` file left alone is launched in the new image's stead (`image.c:377`) | `image.md:52` |
| `NoneFound` | `WwImage` | leaving the menu says that no file was found (`image.c:201`) | `src/lang/en.po:406` |

## 9. Proofs

### `SaveDataProofs`

`SaveDataProofs.tla`, checked by tlapm with SMT, Zenon and PTL, for every set of
games, every `Needs`, any number of chunks and versions and any faults:

- `TypeSafety`: `Spec => []TypeOK`.
- `SavesKeepTheirOwner`: `Spec => []FilesOwn`.
- `LaunchKeepsFiles`: `Spec => RestoreKeepsFiles`.

They rest on the named assumptions of `SaveData.tla` only. `FilesOwn` is not
inductive: that a backup copies only the game's own data depends on the save ID
having vouched for the medium since the moment it was set. The invariant `IInv`
adds, while no SAVE.INI lingers and no remote launch failed:

- `Vouched`: whatever medium a SAVE.INI on the card names, if the save ID matches and no
  restore is at work on it, it holds only that game's chunks or fill bytes;
- `BackupInv`: a backup works from SAVE.INI, and on a medium whose ID matched;
- `RestoreInv`: a restore has set the ID of its game, and the media it is done with
  hold that game's data;
- `LaunchInv`: in the file selector and inside a restore no SAVE.INI is alive; from the
  dialogs to the game, one that is alive is the launched game's.

The step lemmas go action by action; `Prepared` and `GrowFile` have lemmas of their
own. `LaunchKeepsFiles` needs the type invariant and the bound of a file's length.

The first part of the module thus says whose data a medium or a file holds; the second
says which data, under the same assumptions:

- `GamesRunOnTheirSaves`: `Spec => []GameSeesItsSave`.
- `NoSaveLostSilently`: `Spec => []NoSilentLoss`.
- `SaveIdsVouch`: `Spec => []SaveIdVouches`.
- `Refinement`: `Spec => ImplementsVault`.

None of the three invariants is inductive: they speak of the file selector, the boot and
the game, and what holds there depends on every chunk copied on the way. `VInv` says
what each step in between has achieved so far:

- `SeesInv` (no remote launch failed inside another): a launch leaves every medium it is
  done with `Restored`, the one it is at up to the chunk it copies next; a launch without
  an error reaches the game with all of them restored (`LoadInv`, `StartInv`);
- `SafeInv` (from here on, no event in `holes`): a save is `Safe`, on the card or known to
  be lost, or it is `Entrusted`: SAVE.INI leaves it to a medium while the game runs and
  until the backup has copied it;
- `IniInv`: a SAVE.INI lists media whose files have the full length, belongs to the launch
  that wrote it, and is written only by a launch without an error;
- `LoadedInv`: until the game starts, a medium that the next boot would back up holds what
  its file gives already, so power lost between ID and game costs nothing;
- `HeldInv`: every medium whose save ID the next backup would accept holds what its game
  left, or what the file gives, and then that is safe;
- `CopyInv`: the backup has copied the chunks it has passed, and reports an error when it
  leaves a medium out.

`SafeStep` and `HeldStep` are the two lemmas that matter: the first says that the backup
empties what is entrusted only as fast as it copies, the second that nothing but the game
itself writes to a medium from the moment its ID vouches for it. The refinement maps
`home` and `live` to `Home` and `Live`; there is one lemma per action of `SaveVault`
(`LeaveStep`, `OpenStep`, `AcceptStep`, `PlayStep`, `StoreStep`, `EraseStep`), and
`VaultStep` sends every step of `SaveData` to one of them, to a stutter, or, when it adds
to `holes`, to `Break`.

### `XModemProofs`

For every file size, capacity, timeout count, number of faults and index width from
two values up (`IndexAssumption`: with one value a repeated block could not be told
from the next, and the proof needs just that):

- `TypeSafety`: `Spec => []TypeOK`.
- `BlocksArriveInOrder`: `Spec => []InOrder`.
- `SuccessIsComplete`: `Spec => []OkIsComplete`.
- `Refinement`: `Spec => ImplementsTransfer`.

The invariant `IInv` says why the protocol needs no more than one index bit:

- `WindowInv`: the sender is at the receiver's last block or at the one after it;
- `BlocksOK`: what is on the line is a copy of one of these two, the older before
  the newer, and the end of the file only behind everything;
- `AcksOK`: one acknowledgement at most is on its way, and while one is, the sender is
  still at the block it acknowledges, or the receiver is done;
- `SenderInv`, `ReceiverInv`: what the sender's flags say about its position, and that
  the receiver has seen an end only of a file it has all of.

`RequestIsDue` and `ExpectedIsNext` are the two lemmas that matter: the sender moves
on only when the receiver has everything sent, and a block whose index fits is the
next block. `Neighbours` is the arithmetic behind the second. The lemmas `BlocksTail`
to `AcksDamage` say what reading, writing and damaging a message does to the line.

### `CartridgeProofs`

`AthenaSave`, for any programs, file names, versions and number of faults:

- `TypeSafety`: `Spec => []TypeOK`, whatever fails and wherever power is cut.
- `FilesKeepTheirOwner`: `Guarded => (Spec => []FilesOwn)`. `Guarded` says that SAVE.INI
  opens; that power is not lost in the two steps (`id`, `jump`) from the new SAVE.INI to
  the cleared OS version (section 8 tells what happens otherwise); and that the MCU
  answers, or else that one of its commands is all that fails and power is not lost
  between removing SAVE.INI and clearing the ID (`clear`). `TheoremsApply` in
  `MCCartridge` lets TLC check that the parameters of both parts of the run, the one
  with the card and the battery and the one with the MCU, are `Guarded`.
- `FilesAreKept`: `Guarded => (Spec => []NoSilentLoss)`.

A boot takes what is in SRAM for a program's files if three signs match (`Matches`):
SAVE.INI, the save ID, and the OS version. `MatchInv` says that they match only from the
start of AthenaOS until the files are stored, and that the data are the program's own
then; `LaunchInv` that what is launched is what they name; `IdInv` that, until something
fails, the MCU has no ID that outlives its SAVE.INI, so that the first command that fails
cannot leave an old ID beside a new SAVE.INI. `KeepInv` says where the last
program's files are at every step: on the card once the backup has removed SAVE.INI; in
SRAM as long as the three signs match; and in both as far as a backup has come. Where
the signs of a program's SAVE.INI do not match, the next backup shows an error.

`McuUpdate`, for any firmwares, any number of chunks and any steps at which calls fail or
power is lost:

- `FooterVouches`: `Mcu!Spec => [](Mcu!TypeOK /\ FooterInv)`, the footer in the MCU's flash
  stands for all of its firmware, unless the update that wrote it has not ended.
- `JumpsWhereItShould`: `Mcu!Spec => []Mcu!JumpsIntoFirmware`.
- `FailureIsShown`: `Mcu!Spec => []Mcu!FailureIsTold`, with `ToldInv`: what has failed is
  remembered in `result` until `cart_status_init`, which tells of it.

`UpdateInv` adds what an update has done so far, chunk by chunk.

`CartStatus`, for any period, ticks and lag, also with failing calls:

- `VerticalTakesTwo`: `Cart!Spec => Cart!TurnsUpSteady`: a toggle is staged by the
  last readout, and in automatic mode only.

The composition, for any parameters its `PartsAssumption` allows: `RomFilesIntact` (of
`FilesIntact`, with the hypotheses of `ImageIntact` and `ChosenIsRun` below),
`StartedWhole` (`ImageInPlace`), `UpdatedOrTold` (`JumpsIntoFirmware`) and `TurnsAfterTwo`
(`TurnsUpSteady`): the properties of the run `cartridge`. One argument carries each part's
theorem over: `OneRuns` says that the part that runs is never left, and `RomRuns`,
`StubRuns`, `McuRuns` and `CartRuns` that it begins in its own initial states and that each
step of the composition is one of its own or none.

### `AthenaRomProofs`

For any layout of directory, files and OS (`LayoutAssumption`, `SectorAssumption`: the
boundaries are multiples of a sector, a bank is a multiple of it, as in
`launch_athena.c:35-45`), any limits, any files and any failing read:

- `TypeCorrect`: `Spec => []TypeOK`, whatever headers claim: both limits hold, and
  `file_segment` stays within 16 bits.
- `ImageIntact`: `HonestHeaders => (Spec => [](FilesIntact /\ OsKept))`. `HonestHeaders`
  says that a header counts the sectors of its file; section 8 tells what one that does
  not leads to.
- `ChosenIsRun`: `~SkipChosen => (Spec => []ChosenRuns)`.

`FilesIntact` speaks of the image that is started. `ImageInv` says at every step that
each finished entry's file is whole and ends before `Limit`, where the file that is being
read starts (`Kept`), that this one is whole as far as it has been read, that what is left
of it is its size less that (`ReadInv`), and that `segment` is at a sector between files
and never behind the OS. `RoundUp`, `Turn` and the halves of a bank are the arithmetic:
no turn of the loop reads across a bank, and the sectors that are claimed are no fewer
than the segments that are read, and no more than fit.

`ChosenInv` says where the chosen file's index comes from: it is in the directory at
`file_exec_idx`, or it is the one that is being added, which then becomes the next.

### `MenuProofs`

The wave player, for any sizes of ring, file and word, any files, seeks and failing reads,
and `Timely`: what is played in a frame and during a read together (`Frame + Card`) fits
into one half of the ring. The code has no such test; it depends on the card and the sample
rate.

- `PlayerTypes`: `Timely => []TypeOK`.
- `PlayedOnce`: `Timely => [](NothingPlayedTwice /\ NotWhileItPlays)`.
- `SeeksAndFormats`: `[](SeeksStayInSound /\ FormatFirst)`, without `Timely`.

`RingInv` says how far the sound may be ahead of the program: the half not to be filled
next is fresh, and when the sound has entered it, it is less than a frame and a read from
its start, so it cannot have left it before the other is full. `PlayedOn` is the
arithmetic of the ring. `SoundInv` is why a seek needs no more than `Clamp`, however the
unsigned comparison wraps; `FormatInv` names the chunk the format came from.

The keypad, for any keys, a tick counter that turns anywhere, a main loop late by any
number of ticks and an interrupt between any two of its steps; each repeat time is less
than half a turn of the counter (`TimeAssumption`; the code counts in 8 bits, and the
settings offer at most 37 ticks):

- `KeysAreHeard`: `[][PacedStep /\ HeardStep]_vars`, a key that stays down is not reported
  again before the shorter of its repeat times, one that was struck is.

`TimerInv` ties a key's timer to how long it has been quiet: it is due at one of the two
times, counted from its last report, as long as the shorter has not passed; `TickOn` and
`NotYet` are that under the counter's wrap-around, where "due" is a comparison of half a
turn. `MaskInv` and `CopyInv` say what the three masks mean before and after they are
copied: what the interrupt adds between copy and reset is not taken for a key that was
seen.

The calendar, for any years of the hundred, either mode and whatever follows
`days_in_month` in memory:

- `WeekdaysGoOn`: `[]WeekdaysFollow`, the formula of `rtc_correct_day_of_week` counts on
  from day to day. `DayNumber` is that formula before the remainder, `NumbersFollow` that
  the next day's is one more, over the ends of months, leap Februaries and years.
- `TextsAndDigits`: `[](TextsReadBack /\ DigitsStayInRange /\ LowDigitsReturn)`.

The days before a month are a recursive function, but of twelve values: `DaysBeforeIs`
shows that the table of these satisfies its definition, so no induction is needed.
`Moment` is the invariant: a date that exists, in BCD, with an hour as its register holds
it in this mode and the weekday of its date.

The clock, for any times, texts, failures and shell commands, and however often:

- `WrittenFits`: `[]WeekdayFits`, what the editor or the shell wrote has its date's weekday.
- `SetAsTold`: `[][SetIsToldStep]_vars`, what the shell set is told as it was asked for.
- `EditorsMode`: `[]EditorIn24`.

`ClockInv` holds of both the chip and the editor's copy of it, since either may be written
to the other; it lets a day be any two digits (`Shown`), because both may write days that no
month has (`DayLimit`, and `DatesExist` in section 8); so the theorems suppose nothing of
what follows `days_in_month`. `ModeInv` says where in the editor the chip is in
24-hour mode.

The composition: `RingKeepsUp` (`Timely => (MenuSpec => []NothingPlayedTwice)`),
`HeardInTime` (`KeysHeardInTime`), `TimesAreRight` (`TimesFit`) and `ToldAsSet`
(`SetIsTold`) state four properties of the run `menu` for any parameters; `Timely` is
assumed as `TheoremsApply` in `MCMenu`. `OneRuns`, `WavRuns`, `KeypadRuns`, ...
carry the parts' theorems over as in `CartridgeProofs`. The lemmas `CalendarNumbers` to
`ClockDigits` say that the three instances count with the operators of `RtcTime`.

### `FileBrowserProofs`

For any card, names, page length, depth of `path_depth` and setting of hidden saves,
whatever calls to the card fail:

- `PathMemoryHolds`: `MaxDepth + 1 < Memory => (Spec => []MemoryInBounds)`, with any
  command of the shell on any screen. A card may be deeper; section 8 tells what happens
  then. The theorem says that nothing else can.
- `ListIsTrue`: `ShellAsks /\ NoRam0 => (Spec => []ListShowsDirectory)`.
- `DeletesWhatItAsked`: `ShellAsks /\ NoRam0 => (Spec => DeletesWhatWasAsked)`.
- `CursorComesBack`: `ShellStays /\ NoRam0 => (Spec => [][CursorOnLeft]_vars)`.

`ShellAsks` says that the shell's commands come while the list is on the screen, and that
no transfer of a `launch` is cut short; `NoRam0` that no directory is called as the one
that a failed `.fx` launch changes to; `ShellStays` that the shell moreover neither
changes the directory nor removes or makes one. Section 8 (`browser_delete`,
`ListShowsDirectory`, `ListIntact`) shows that the first two are needed. The third is:
`cd` leads to directories whose cursor was never kept. Uploads and failing launches are
allowed.

- `PathInv` gives paths their type, and says that `path_depth_pos` is a depth whenever a
  screen that writes to `path_depth` is on.
- `CurrentInv` says that the list is the directory's not only on the screen of the list
  but also behind menus, dialogs and programs, unless a scan is due with `reinit_dirs`;
  only so is the list that is shown again without a scan the right one.
- `CursorInv` says that `path_depth` leads: for each directory above the current one, its
  list has the next one at the kept cursor (`Led`), and after a directory was left, the
  cursor that the scan takes points to it. `LedUp` and `LedDown` say that going up and down
  keeps that, `LedStays` that nothing that happens in the current directory changes the
  lists above it, `CardBelow` that deleting and uploading happen there only.

`TypeOK` of this module is not proved: that a list has a length, which the cursor is held
to, is what `SelectSeq` yields, by induction.

### `BootstubProofs`

For any sizes of a sector, a bank, a cluster and a program, and any places of the patch:

- `UploadedInPlace`: `Spec => [](prog.source = "psram" => ImageAlwaysInPlace)`.
- `StartedInPlace`: `Spec => [](ImageInPlace /\ OnlyAcrossMixed /\ ErrorsToldRight)`, for
  programs on the card too: three widths of a FAT entry, clusters in any order, and any
  number of failing reads. `StartedWhole` of `CartridgeProofs` is the same of the composition.

For the move, `Moving` says that the two addresses stay the same distance apart, that what
is behind them is at its new place and what is before them still at its old one; `PadStep`
needs that a stretch is written behind everything that is left to move. The patch asks for
a program of a bank at least (`ProgramAssumption`): Freya images have 512 KiB
(`launch.c:215`), AthenaOS's 1 MiB (`launch_athena.c:282`).

For the reading, `ImageInPlace` speaks of the end only. `CardInv` says at every step

- `Progress`: how far the loop is, and that a read never asks for more than is left of the
  half bank, whatever the sectors held;
- `WindowInv`: with 16- and 32-bit entries, the FAT sector that the current cluster's entry
  is in is whole whenever it is in the window: a failed read keeps the old label, and the
  next lookup is of the same cluster, so it reads again. With 12-bit entries, which may lie
  in two sectors, this fails; `mixed` remembers it;
- `PlaceInv`: which cluster of the chain the current one is, on a boundary that of the byte
  before; while it looks ahead, that the clusters passed form a `Row` on the card;
- `LabelInv`: the window never claims to hold a sector of the file that has not been
  reached, so a spoilt buffer is never copied;
- `Loaded`: every byte before `ptr` is at its place.

`CardAssumption` says that the file system is sound: the FAT ends before the data (which
`OneSector` and `FatBeforeData` need: the window serves both), and a chain's clusters exist
and are not repeated. It may be too short for the file: that is "Internal error".
`RowSectors` is the arithmetic behind the read-ahead: in a row of clusters, sector
numbers of the file and of the card grow together. `OneQuotient` and `Divided` are the
lemmas about division all of it rests on.

### `FilesProofs`

The sort, for any directories of any size, any order and any threshold:

- `ScansStayInRange`: `SortRules /\ Sort!Spec => []Sort!StaysInRange`. The two scans check
  no bound; the median leaves a stop for each of them, even by date, where the comparator
  is no order (`MedianLast`).
- `SortTypes`: the index stays a permutation of the directory's positions.
- `SortsFiles`: in every order but those by date, the list is sorted when the sort is done.
- `StackIsEnough`: no range is pushed beyond the stack, if `StackSuffices`.

`PlaceInv` says that the pending ranges lie in the array apart from each other, and where
`i` and `j` are at each step. `Arranged` says that whatever is in no pending range, and any
two files of different ranges, are in order already: so nothing is left to do when the last
range is popped. `PartsInv` and `InsertInv` are what the scans and the insertions have done
so far. `StackSuffices` asks for bounds that are added up from range to range
(`Sort!Bounds(r)`): the smaller part is sorted first, so `r[n]` files need no more than the
ranges that are left. With 7 files to a final range and 6 ranges these are 574 files; with
575 section 8 shows the seventh range.

`WwImage`, for a bank, files and components of any size, a card that is full anywhere and
any failing call (`ImageInv`): a component is copied as far as `imagePos` has come
(`Copied`), and what is done lies where the loader looks for it, the footer of an image of
full size included (`Placed`); in an image that is made only its allocation changes its
length (`CreateInv`). That an image is reported as made has its full size could not be
proved, because it is not so: see `ImageHasItsSize` in section 8.

`WwExtract`, for any sorted tables and any banks (`ExtractInv`): `DigestInv` says that the
digest that is resumed from the entry before is that of the same beginning, which needs
tables that are sorted (`TablesAreSorted`); `CopyInv` how much of the component is in
`/fbin`.

The composition: `ListIsSorted`, `ListStaysCurrent`, `CursorIsBack`, `ComponentIsThere`,
`AllIsExtracted` and `NoOtherChange` state the properties of the run `files` for any
parameters. `ListStaysCurrent`, `CursorIsBack` and `NoOtherChange` take the
hypotheses of `FileBrowserProofs` (`ShellAsks`, `NoRam0`, `ShellStays`), `ListIsSorted`
takes `StackSuffices`; that they are true of the run's values (the last by bounds of 8 and
3 files) is assumed as `TheoremsApply` in `MCFiles`, which TLC evaluates.

### Only model-checked

- `TypesOK` of the three compositions. The types of `FileBrowser` and `Settings` among
  them speak of lists that a filter or a fold makes, see below; the other parts' types are
  proved where a proof needs them.
- `CommandGetsWords` of `ShellCommand`, `SettingsReturn` and `CutSaveOnlyLoses` of
  `Settings`: the words of a line and the lines of CONFIG.INI are what a fold or another
  recursive definition computes, and what it computes of every input takes induction over
  data.
- `TunesInPlace` of `VgmPlay`: it holds of songs of some shapes only (section 8), so a
  theorem would be about the shapes.
- Liveness under fairness (`SaveRests`, `Completes`, `HeldKeyHeard`, `RemovalIsNoticed`,
  `SongEnds`): fairness and ENABLED are out of the prover's reach.

## 10. Not modelled

- The bootstub's set-up of screen and ports, and the jump. `pad_image_in_memory` leaves
  the direction flag set; that the library's `memcpy` clears it, as every string loop of
  the repository does, is assumed.
- Text and bitmap viewers, drawing, fonts, language, SHA-1 and inflate: pure functions
  of their input, or output only; gzip'd songs, which inflate reads.
- In `launch.c`: the option that verifies saves, the overdump dialog, a full card, a
  save file longer than its medium, and when the battery status becomes valid.
- `launch_bfb.c`, `launch_com.c` and `launch_plugin.c` beyond their effect on save data;
  the launchers keep no state.
- The asset heap, of which `XModem` knows the bank where a download begins.
- The DMG driver's line interrupt and all sound registers: `VgmPlay` follows the place
  in the song, its memory and its timer.
- The serial line's speed and the MCU's own program; single lost bytes inside a block
  of a transfer, and the correction of a received file's size.
- In the WonderWitch tools: moving a file to `/fbin`.
