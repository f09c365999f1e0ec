-------------------------- MODULE FileBrowserProofs --------------------------
(***************************************************************************)
(* Proofs about FileBrowser, for any card, names, depth and page, whatever *)
(* calls fail: where the cursor of each directory is kept, path_depth, is  *)
(* written within its bounds; as long as the shell works while the list is *)
(* on the screen, the list is that of the current directory and what is    *)
(* deleted is what was asked about; and on the way up the cursor returns.  *)
(***************************************************************************)
EXTENDS FileBrowser, SequenceTheorems, TLAPS

(* The paths of a card, and where the menu and the shell may be.            *)
Path == {p \in Seq(DOMAIN Kind) : Len(p) <= MaxDepth}

PathInv ==
    /\ card \subseteq Path /\ cwd \in Path
    /\ screen \in Screens
    /\ screen \notin {"scan", "crashed"} => pos \in 0..MaxDepth

LEMMA Paths ==
    /\ MaxDepth \in Nat /\ Memory \in Nat \ {0} /\ StartCard \subseteq Path /\ <<>> \in Path
    /\ \A p \in Path : p \in Seq(DOMAIN Kind) /\ Len(p) \in 0..MaxDepth
<1>1. MaxDepth \in Nat /\ Memory \in Nat \ {0} /\ StartCard \subseteq Path
    BY BrowserAssumption DEF Path
<1>2. <<>> \in Seq(DOMAIN Kind) /\ Len(<<>>) = 0
    OBVIOUS
<1> QED
    BY <1>1, <1>2 DEF Path

(* What is behind a name in a path, whatever the name is.                   *)
LEMMA Longer ==
    ASSUME NEW p \in Seq(DOMAIN Kind), NEW n
    PROVE  /\ Len(Append(p, n)) = Len(p) + 1 /\ Append(p, n) # <<>>
           /\ Append(p, n)[Len(p) + 1] = n /\ Last(Append(p, n)) = n
           /\ \A i \in 1..Len(p) : Append(p, n)[i] = p[i]
<1> DEFINE S == DOMAIN Kind \cup {n}
<1>1. p \in Seq(S)
    BY SeqMonotonic
<1>2. n \in S
    OBVIOUS
<1> HIDE DEF S
<1>3. /\ Append(p, n) # <<>> /\ Len(Append(p, n)) = Len(p) + 1
      /\ \A i \in 1..Len(p) : Append(p, n)[i] = p[i]
      /\ Append(p, n)[Len(p) + 1] = n
    BY <1>1, <1>2, AppendProperties
<1> QED
    BY <1>3 DEF Last

LEMMA Shorter ==
    ASSUME NEW p \in Seq(DOMAIN Kind), p # <<>>
    PROVE  /\ Front(p) \in Seq(DOMAIN Kind) /\ Len(Front(p)) = Len(p) - 1 /\ Len(p) \in Nat \ {0}
           /\ \A i \in 1..(Len(p) - 1) : Front(p)[i] = p[i]
           /\ Last(p) = p[Len(p)]
<1>1. Len(p) \in Nat \ {0}
    OBVIOUS
<1>2. \A i \in 1..(Len(p) - 1) : p[i] \in DOMAIN Kind
    <2> SUFFICES ASSUME NEW i \in 1..(Len(p) - 1) PROVE p[i] \in DOMAIN Kind
        OBVIOUS
    <2>1. i \in 1..Len(p)
        BY <1>1
    <2> QED
        BY <2>1, ElementOfSeq
<1> DEFINE n == Len(p) - 1
<1>3. n \in Nat
    BY <1>1
<1>4. \A i \in 1..n : p[i] \in DOMAIN Kind
    BY <1>2
<1> HIDE DEF n
<1>5. /\ SubSeq(p, 1, n) \in Seq(DOMAIN Kind)
      /\ Len(SubSeq(p, 1, n)) = IF 1 <= n THEN n - 1 + 1 ELSE 0
      /\ \A i \in 1..(n - 1 + 1) : SubSeq(p, 1, n)[i] = p[1 + i - 1]
    BY <1>3, <1>4, SubSeqProperties
<1>6. n - 1 + 1 = n /\ \A i \in 1..n : 1 + i - 1 = i
    BY <1>3
<1>7. Len(SubSeq(p, 1, n)) = n /\ \A i \in 1..n : SubSeq(p, 1, n)[i] = p[i]
    BY <1>3, <1>5, <1>6
<1>8. Front(p) = SubSeq(p, 1, n)
    BY DEF Front, n
<1> QED
    BY <1>1, <1>5, <1>7, <1>8 DEF Last, n

LEMMA UpPath == ASSUME NEW p \in Path PROVE Up(p) \in Path
<1>1. CASE p = <<>>
    BY <1>1 DEF Up
<1>2. CASE p # <<>>
    <2>1. Front(p) \in Seq(DOMAIN Kind) /\ Len(Front(p)) = Len(p) - 1 /\ Len(p) \in Nat
        BY <1>2, Shorter DEF Path
    <2>2. Len(p) <= MaxDepth /\ MaxDepth \in Nat
        BY Paths DEF Path
    <2> QED
        BY <1>2, <2>1, <2>2 DEF Up, Path
<1> QED
    BY <1>1, <1>2

LEMMA NewPath ==
    ASSUME NEW p \in Path, NEW n \in DOMAIN Kind, Len(p) < MaxDepth PROVE Append(p, n) \in Path
<1>1. p \in Seq(DOMAIN Kind) /\ Len(p) \in Nat /\ MaxDepth \in Nat
    BY Paths DEF Path
<1>2. Append(p, n) \in Seq(DOMAIN Kind) /\ Len(Append(p, n)) = Len(p) + 1
    BY <1>1, AppendProperties
<1> QED
    BY <1>1, <1>2 DEF Path

(* A directory is changed to where it is, or not at all.                    *)
LEMMA Changed ==
    ASSUME PathInv, NEW p, ChDir(p)
    PROVE  cwd' \in Path /\ (cwd' = cwd \/ (cwd' = p /\ p \in Directories))
BY Paths DEF ChDir, PathInv, Directories

-----------------------------------------------------------------------------
(* The card and the directory keep their types.                             *)
LEMMA CardStep ==
    ASSUME PathInv, [Next]_vars PROVE card' \subseteq Path
<1>1. CASE Delete
    <2>1. card' \subseteq card
        BY <1>1 DEF Delete
    <2> QED
        BY <2>1 DEF PathInv
<1>2. CASE Erase
    <2>1. card' \subseteq card
        BY <1>2 DEF Erase
    <2> QED
        BY <2>1 DEF PathInv
<1>3. CASE ShellRemove
    <2>1. card' \subseteq card
        BY <1>3 DEF ShellRemove
    <2> QED
        BY <2>1 DEF PathInv
<1>4. CASE ShellMakeDir \/ ShellUpload
    <2>1. PICK n \in DOMAIN Kind : Len(cwd) < MaxDepth /\ card' = card \cup {Append(cwd, n)}
        BY <1>4 DEF ShellMakeDir, ShellUpload
    <2>2. Append(cwd, n) \in Path
        BY <2>1, NewPath DEF PathInv
    <2> QED
        BY <2>1, <2>2 DEF PathInv
<1>5. ASSUME Scan \/ LeaveUnreadable \/ Move \/ Enter \/ Back \/ Open \/ Close \/ Start \/ Choose \/ No
             \/ ShellCd \/ ShellLaunchCut \/ ShellLaunchAsks \/ TaskDialog \/ Restart \/ UNCHANGED vars
      PROVE  card' = card
    BY <1>5 DEF Scan, LeaveUnreadable, Move, Enter, Back, Open, Close, Start, Choose, No,
         ShellCd, ShellLaunchCut, ShellLaunchAsks, TaskDialog, Restart, vars
<1> QED
    BY <1>1, <1>2, <1>3, <1>4, <1>5 DEF Next, PathInv

LEMMA CwdStep ==
    ASSUME PathInv, [Next]_vars PROVE cwd' \in Path
<1>1. CASE LeaveUnreadable \/ Enter \/ Back
    BY <1>1, Changed DEF LeaveUnreadable, Enter, Back
<1>2. CASE Open
    <2>1. cwd' = cwd \/ ChDir(Append(cwd, "ram0"))
        BY <1>2 DEF Open
    <2> QED
        BY <2>1, Changed DEF PathInv
<1>3. CASE ShellCd
    BY <1>3, Paths DEF ShellCd, Directories, PathInv
<1>4. CASE Restart
    BY <1>4, Paths DEF Restart
<1>5. ASSUME Scan \/ Move \/ Close \/ Start \/ Choose \/ No \/ Delete \/ Erase
             \/ ShellRemove \/ ShellMakeDir \/ ShellUpload \/ ShellLaunchCut \/ ShellLaunchAsks
             \/ TaskDialog \/ UNCHANGED vars
      PROVE  cwd' = cwd
    BY <1>5 DEF Scan, Move, Close, Start, Choose, No, Delete, Erase, ShellRemove, ShellMakeDir,
         ShellUpload, ShellLaunchCut, ShellLaunchAsks, TaskDialog, vars
<1> QED
    BY <1>1, <1>2, <1>3, <1>4, <1>5 DEF Next, PathInv

(* How deep the menu is, is told by the last scan.                          *)
LEMMA ScreenStep ==
    ASSUME PathInv, [Next]_vars
    PROVE  screen' \in Screens /\ (screen' \notin {"scan", "crashed"} => pos' \in 0..MaxDepth)
<1>1. CASE Scan
    BY <1>1, Paths DEF Scan, PathInv, Depth, Screens
<1>2. CASE LeaveUnreadable \/ Enter \/ Back \/ Close \/ No \/ Delete \/ Erase \/ Restart
    BY <1>2 DEF LeaveUnreadable, Enter, Back, Close, No, Delete, Erase, Restart, Screens
<1>3. CASE Move \/ Open \/ Start
    BY <1>3 DEF Move, Open, Start, Listed, Screens, PathInv
<1>4. CASE Choose
    BY <1>4 DEF Choose, InPopup, Screens, PathInv
<1>5. CASE ShellCd \/ ShellRemove \/ ShellMakeDir \/ ShellUpload
    <2>1. pos' = pos /\ screen' \in {screen, "scan"}
        BY <1>5 DEF ShellCd, ShellRemove, ShellMakeDir, ShellUpload, Refresh
    <2> QED
        BY <2>1 DEF PathInv, Screens
<1>6. CASE ShellLaunchCut \/ ShellLaunchAsks \/ TaskDialog
    BY <1>6 DEF ShellLaunchCut, ShellLaunchAsks, TaskDialog, Screens, PathInv
<1>7. CASE UNCHANGED vars
    BY <1>7 DEF vars, PathInv
<1> QED
    BY <1>1, <1>2, <1>3, <1>4, <1>5, <1>6, <1>7 DEF Next

LEMMA PathInit == Init => PathInv
BY Paths DEF Init, PathInv, Screens

LEMMA PathStep == PathInv /\ [Next]_vars => PathInv'
<1> SUFFICES ASSUME PathInv, [Next]_vars PROVE PathInv'
    OBVIOUS
<1> QED
    BY CardStep, CwdStep, ScreenStep DEF PathInv

(* path_depth is written by Remember, and one level below by Enter.         *)
LEMMA RememberHolds ==
    ASSUME MaxDepth + 1 < Memory, pos \in 0..MaxDepth, ~outside, NEW o, Remember(o)
    PROVE  ~outside'
<1>1. ~(pos >= Memory)
    BY Paths
<1>2. outside' = (outside \/ pos >= Memory)
    BY DEF Remember
<1> QED
    BY <1>1, <1>2, Zenon

LEMMA OutsideStep ==
    ASSUME MaxDepth + 1 < Memory, PathInv, ~outside, [Next]_vars PROVE ~outside'
<1>1. CASE Enter
    <2>1. pos \in 0..MaxDepth
        BY <1>1 DEF Enter, Listed, PathInv
    <2>2. outside' = (outside \/ pos + 1 >= Memory)
        BY <1>1, Zenon DEF Enter
    <2>3. ~(pos + 1 >= Memory)
        BY <2>1, Paths
    <2> QED
        BY <2>2, <2>3, Zenon
<1>2. CASE Open \/ Start
    <2>1. pos \in 0..MaxDepth /\ \E o : Remember(o)
        BY <1>2 DEF Open, Start, Listed, PathInv
    <2> QED
        BY <2>1, RememberHolds
<1>3. CASE ShellCd \/ ShellRemove \/ ShellMakeDir \/ ShellUpload
    <2>1. Refresh
        BY <1>3 DEF ShellCd, ShellRemove, ShellMakeDir, ShellUpload
    <2>2. CASE screen = "list"
        BY <2>1, <2>2, RememberHolds DEF Refresh, PathInv
    <2>3. CASE screen # "list"
        BY <2>1, <2>3 DEF Refresh
    <2> QED
        BY <2>2, <2>3
<1>4. CASE TaskDialog
    <2>1. pos \in 0..MaxDepth /\ (outside' = outside \/ Remember(offset))
        BY <1>4 DEF TaskDialog, PathInv
    <2> QED
        BY <2>1, RememberHolds
<1>5. CASE Restart
    BY <1>5 DEF Restart
<1>6. ASSUME Scan \/ LeaveUnreadable \/ Move \/ Back \/ Close \/ Choose \/ No \/ Delete \/ Erase
             \/ ShellLaunchCut \/ ShellLaunchAsks \/ UNCHANGED vars
      PROVE  outside' = outside
    BY <1>6 DEF Scan, LeaveUnreadable, Move, Back, Close, Choose, No, Delete, Erase, ShellLaunchCut,
         ShellLaunchAsks, vars
<1> QED
    BY <1>1, <1>2, <1>3, <1>4, <1>5, <1>6 DEF Next

(* ui_file_selector.c:314: the level that path_depth is written at is one   *)
(* it has, whatever the shell does at any time, if a path is shorter.       *)
THEOREM PathMemoryHolds ==
    ASSUME MaxDepth + 1 < Memory PROVE Spec => []MemoryInBounds
<1>1. Init => PathInv /\ ~outside
    BY PathInit DEF Init
<1>2. PathInv /\ ~outside /\ [Next]_vars => PathInv' /\ ~outside'
    BY PathStep, OutsideStep
<1>3. ~outside => MemoryInBounds
    BY DEF MemoryInBounds
<1> QED
    BY <1>1, <1>2, <1>3, PTL DEF Spec
-----------------------------------------------------------------------------
(* The shell works while the list is on the screen, and no transfer of it   *)
(* ends without asking for a new list.                                      *)
ShellAsks == ShellAt \subseteq {"list"} /\ "launch" \notin Commands

(* No directory has the name of the one a .fx launch changes to, and the    *)
(* shell makes none.                                                        *)
NoRam0 ==
    /\ \A p \in StartCard : p # <<>> /\ Last(p) = "ram0" => ~IsDir("ram0")
    /\ "change" \in Commands /\ "ram0" \in DOMAIN Kind => Kind["ram0"] # "dir"

RamInv == \A p \in card : p # <<>> /\ Last(p) = "ram0" => ~IsDir("ram0")

(* The list as it would be read now; where the one that is kept is that.    *)
ListNow == [dir |-> cwd, names |-> Names(cwd)]

Current ==
    \/ screen \in {"list", "options", "delete", "erase"}
    \/ screen \in {"open", "scan"} /\ ~dirs

CurrentInv ==
    /\ Current => list = ListNow
    /\ screen = "unreadable" => dirs

LEMMA SameList == ASSUME card' = card, cwd' = cwd PROVE ListNow' = ListNow
BY DEF ListNow, Names

LEMMA RamStep ==
    ASSUME PathInv, NoRam0, RamInv, [Next]_vars PROVE RamInv'
<1>1. \A n \in DOMAIN Kind : IsDir(n) = (Kind[n] = "dir")
    BY DEF IsDir, Extended
<1>2. CASE ShellMakeDir \/ ShellUpload
    <2>1. PICK n \in DOMAIN Kind :
             /\ card' = card \cup {Append(cwd, n)}
             /\ Kind[n] # "dir" \/ "change" \in Commands
        BY <1>2 DEF ShellMakeDir, ShellUpload, Given
    <2>2. Last(Append(cwd, n)) = n
        BY Longer DEF PathInv, Path
    <2>3. n = "ram0" => ~IsDir("ram0")
        BY <1>1, <2>1 DEF NoRam0
    <2> QED
        BY <2>1, <2>2, <2>3 DEF RamInv
<1>3. ASSUME ~(ShellMakeDir \/ ShellUpload) PROVE card' \subseteq card
    BY <1>3 DEF Next, Scan, LeaveUnreadable, Move, Enter, Back, Open, Close, Start, Choose, No, Delete,
         Erase, ShellRemove, ShellCd, ShellLaunchCut, ShellLaunchAsks, TaskDialog, Restart, vars
<1> QED
    BY <1>2, <1>3 DEF RamInv

LEMMA LaunchStays ==
    ASSUME PathInv, RamInv, ChDir(Append(cwd, "ram0")) PROVE cwd' = cwd
<1>1. Append(cwd, "ram0") # <<>> /\ Last(Append(cwd, "ram0")) = "ram0"
    BY Longer DEF PathInv, Path
<1>2. Append(cwd, "ram0") \notin Directories
    BY <1>1 DEF RamInv, Directories
<1> QED
    BY <1>2 DEF ChDir

(* A command of the shell leaves the list to be read again.                 *)
LEMMA ShellReads ==
    ASSUME ShellAsks, [Next]_vars,
           ShellCd \/ ShellRemove \/ ShellMakeDir \/ ShellUpload \/ ShellLaunchCut
           \/ ShellLaunchAsks \/ TaskDialog \/ Restart
    PROVE  (screen' = "scan" /\ dirs' = TRUE) \/ screen' \in {"task", "crashed"}
<1>1. CASE ShellCd \/ ShellRemove \/ ShellMakeDir \/ ShellUpload
    <2>1. screen = "list" /\ Refresh
        BY <1>1 DEF ShellCd, ShellRemove, ShellMakeDir, ShellUpload, Given, ShellAsks
    <2> QED
        BY <2>1 DEF Refresh
<1>2. CASE ShellLaunchCut
    BY <1>2 DEF ShellLaunchCut, Given, ShellAsks
<1>3. CASE ShellLaunchAsks \/ TaskDialog \/ Restart
    BY <1>3 DEF ShellLaunchAsks, TaskDialog, Restart
<1> QED
    BY <1>1, <1>2, <1>3

LEMMA CurrentStep ==
    ASSUME ShellAsks, PathInv, RamInv, CurrentInv, [Next]_vars PROVE CurrentInv'
<1>1. CASE Scan
    <2>1. card' = card /\ cwd' = cwd /\ ListNow' = ListNow /\ screen = "scan"
        BY <1>1, SameList DEF Scan
    <2>2. CASE ~dirs /\ screen' = "list" /\ list' = list
        BY <2>1, <2>2 DEF CurrentInv, Current
    <2>3. CASE screen' = "list" /\ list' = [dir |-> cwd, names |-> Names(cwd)]
        BY <2>1, <2>3 DEF CurrentInv, ListNow
    <2>4. CASE dirs /\ screen' = "unreadable" /\ dirs' = dirs
        BY <2>4 DEF CurrentInv, Current
    <2> QED
        BY <1>1, <2>2, <2>3, <2>4 DEF Scan
<1>2. CASE LeaveUnreadable
    BY <1>2 DEF LeaveUnreadable, InError, CurrentInv, Current
<1>3. CASE Enter \/ Back \/ No \/ Delete \/ Erase
    BY <1>3 DEF Enter, Back, No, Delete, Erase, CurrentInv, Current
<1>4. CASE Open
    <2>1. card' = card /\ list' = list /\ screen = "list" /\ screen' = "open"
        BY <1>4 DEF Open, Listed
    <2>2. cwd' = cwd
        BY <1>4, LaunchStays DEF Open
    <2> QED
        BY <2>1, <2>2, SameList DEF CurrentInv, Current
<1>5. CASE Move \/ Start
    <2>1. card' = card /\ cwd' = cwd /\ list' = list /\ screen = "list" /\ screen' \in {"list", "options"}
        BY <1>5 DEF Move, Start, Listed
    <2> QED
        BY <2>1, SameList DEF CurrentInv, Current
<1>6. CASE Close
    <2>1. card' = card /\ cwd' = cwd /\ list' = list /\ dirs' = dirs /\ screen = "open" /\ screen' = "scan"
        BY <1>6 DEF Close
    <2> QED
        BY <2>1, SameList DEF CurrentInv, Current
<1>7. CASE Choose
    <2>1. card' = card /\ cwd' = cwd /\ list' = list /\ screen = "options"
          /\ screen' \in {"scan", "delete", "erase"}
        BY <1>7 DEF Choose, InPopup
    <2> QED
        BY <2>1, SameList DEF CurrentInv, Current
<1>8. CASE ShellCd \/ ShellRemove \/ ShellMakeDir \/ ShellUpload \/ ShellLaunchCut
           \/ ShellLaunchAsks \/ TaskDialog \/ Restart
    <2>1. (screen' = "scan" /\ dirs' = TRUE) \/ screen' \in {"task", "crashed"}
        BY <1>8, ShellReads
    <2> QED
        BY <2>1 DEF CurrentInv, Current
<1>9. CASE UNCHANGED vars
    <2>1. card' = card /\ cwd' = cwd /\ list' = list /\ screen' = screen /\ dirs' = dirs
        BY <1>9 DEF vars
    <2> QED
        BY <2>1, SameList DEF CurrentInv, Current
<1> QED
    BY <1>1, <1>2, <1>3, <1>4, <1>5, <1>6, <1>7, <1>8, <1>9 DEF Next

LEMMA CurrentInit == Init => CurrentInv
BY DEF Init, CurrentInv, Current

(* introduction.md:16: whatever is entered, left, opened, deleted or fails, *)
(* and whatever the shell does to the card and the directory meanwhile, the *)
(* list on the screen is that of the directory as it is now.                *)
THEOREM ListIsTrue ==
    ASSUME ShellAsks, NoRam0 PROVE Spec => []ListShowsDirectory
<1>1. Init => PathInv /\ RamInv /\ CurrentInv
    BY PathInit, CurrentInit DEF Init, NoRam0, RamInv
<1>2. PathInv /\ RamInv /\ CurrentInv /\ [Next]_vars => PathInv' /\ RamInv' /\ CurrentInv'
    BY PathStep, RamStep, CurrentStep
<1>3. CurrentInv => ListShowsDirectory
    BY DEF CurrentInv, Current, ListShowsDirectory, ListNow
<1> QED
    BY <1>1, <1>2, <1>3, PTL DEF Spec

(* What a step of a dialog takes from the card is what was asked about.     *)
LEMMA AskedHolds ==
    ASSUME ShellAsks, CurrentInv, [Next]_vars PROVE AskedStep
<1> SUFFICES ASSUME InDialog, screen' = "scan" PROVE (card \ card') \subseteq Asked
    BY DEF AskedStep
<1>1. screen \in {"delete", "erase"} /\ list.dir = cwd
    BY DEF InDialog, CurrentInv, Current, ListNow
<1>2. CASE Delete
    <2>1. screen = "delete" /\ (card \ card') \subseteq {Append(cwd, picked)}
        BY <1>2 DEF Delete
    <2> QED
        BY <1>1, <2>1 DEF Asked
<1>3. CASE Erase
    <2>1. screen = "erase"
        BY <1>3 DEF Erase
    <2> DEFINE k == Len(Saves(picked))
    <2>2. PICK n \in 0..k : card' = card \ {Append(cwd, Saves(picked)[i]) : i \in 1..n}
        <3>1. k \in Nat
            BY DEF Saves
        <3> QED
            BY <1>3, <3>1 DEF Erase
    <2>3. 1..n \subseteq DOMAIN Saves(picked)
        BY DEF Saves
    <2>4. (card \ card') \subseteq {Append(cwd, Saves(picked)[i]) : i \in 1..n}
        BY <2>2
    <2> QED
        BY <1>1, <2>1, <2>3, <2>4 DEF Asked
<1>4. ASSUME Scan \/ LeaveUnreadable \/ Move \/ Enter \/ Back \/ Open \/ Close \/ Start \/ Choose \/ No
             \/ ShellCd \/ ShellLaunchCut \/ ShellLaunchAsks \/ TaskDialog \/ Restart \/ UNCHANGED vars
      PROVE  card' = card
    BY <1>4 DEF Scan, LeaveUnreadable, Move, Enter, Back, Open, Close, Start, Choose, No,
         ShellCd, ShellLaunchCut, ShellLaunchAsks, TaskDialog, Restart, vars
<1>5. CASE ShellRemove \/ ShellMakeDir \/ ShellUpload
    BY <1>1, <1>5 DEF ShellRemove, ShellMakeDir, ShellUpload, Given, ShellAsks
<1> QED
    BY <1>2, <1>3, <1>4, <1>5 DEF Next

(* What the menu deletes is the file its question names, in the directory   *)
(* the list was read from, or the saves of that file, and nothing else.     *)
THEOREM DeletesWhatItAsked ==
    ASSUME ShellAsks, NoRam0 PROVE Spec => DeletesWhatWasAsked
<1>1. Init => PathInv /\ RamInv /\ CurrentInv
    BY PathInit, CurrentInit DEF Init, NoRam0, RamInv
<1>2. PathInv /\ RamInv /\ CurrentInv /\ [Next]_vars => PathInv' /\ RamInv' /\ CurrentInv'
    BY PathStep, RamStep, CurrentStep
<1>3. CurrentInv /\ [Next]_vars => [AskedStep]_vars
    BY AskedHolds
<1> QED
    BY <1>1, <1>2, <1>3, PTL DEF Spec, DeletesWhatWasAsked
-----------------------------------------------------------------------------
(* How the menu came to the directory: in the list of each directory above, *)
(* path_depth points to the next one, as far as it has room.                *)
Prefix(p, d) == [i \in 1..d |-> p[i]]

NamesIn(c, p) == InOrder({n \in DOMAIN Kind : Append(p, n) \in c /\ Shown(n)})

Points(c, m, p, d, n) == NamesIn(c, p)[m[d] + 1] = n

Led(c, m, p) == \A d \in 0..(Memory - 1) : d < Len(p) => Points(c, m, Prefix(p, d), d, p[d + 1])

LEMMA PrefixOf ==
    ASSUME NEW p \in Seq(DOMAIN Kind), NEW d \in 0..Len(p)
    PROVE  /\ Prefix(p, d) \in Seq(DOMAIN Kind) /\ Len(Prefix(p, d)) = d
           /\ Prefix(p, Len(p)) = p
<1>1. Len(p) \in Nat /\ p \in [1..Len(p) -> DOMAIN Kind]
    BY LenProperties
<1>2. d \in Nat /\ 1..d \subseteq 1..Len(p)
    BY <1>1
<1>3. Prefix(p, d) \in [1..d -> DOMAIN Kind]
    BY <1>1, <1>2 DEF Prefix
<1>4. Prefix(p, d) \in Seq(DOMAIN Kind)
    BY <1>2, <1>3, SeqDef
<1>5. Len(Prefix(p, d)) = d
    BY <1>2, <1>3, <1>4
<1>6. Prefix(p, Len(p)) = p
    BY <1>1 DEF Prefix
<1> QED
    BY <1>4, <1>5, <1>6

(* A list depends on the paths one longer than its directory only.          *)
LEMMA SameNames ==
    ASSUME NEW c, NEW e, NEW p, \A n \in DOMAIN Kind : Append(p, n) \in e <=> Append(p, n) \in c
    PROVE  NamesIn(e, p) = NamesIn(c, p)
<1>1. {n \in DOMAIN Kind : Append(p, n) \in e /\ Shown(n)} = {n \in DOMAIN Kind : Append(p, n) \in c /\ Shown(n)}
    OBVIOUS
<1> QED
    BY <1>1 DEF NamesIn

(* What changes in the directory itself, and below, changes no way to it.   *)
LEMMA LedStays ==
    ASSUME NEW p \in Seq(DOMAIN Kind), NEW c, NEW e, NEW m, NEW o, Led(c, m, p), Memory \in Nat,
           \A q \in Seq(DOMAIN Kind), n \in DOMAIN Kind :
               Len(q) < Len(p) => (Append(q, n) \in e <=> Append(q, n) \in c),
           \A d \in 0..(Memory - 1) : d < Len(p) => o[d] = m[d]
    PROVE  Led(e, o, p)
<1> SUFFICES ASSUME NEW d \in 0..(Memory - 1), d < Len(p) PROVE Points(e, o, Prefix(p, d), d, p[d + 1])
    BY DEF Led
<1>1. d \in 0..Len(p)
    OBVIOUS
<1>2. Prefix(p, d) \in Seq(DOMAIN Kind) /\ Len(Prefix(p, d)) = d
    BY <1>1, PrefixOf
<1>3. NamesIn(e, Prefix(p, d)) = NamesIn(c, Prefix(p, d))
    BY <1>2, SameNames
<1>4. Points(c, m, Prefix(p, d), d, p[d + 1])
    BY DEF Led
<1> QED
    BY <1>3, <1>4 DEF Points

LEMMA LedUp ==
    ASSUME NEW p \in Seq(DOMAIN Kind), p # <<>>, NEW c, NEW m, Led(c, m, p), Memory \in Nat
    PROVE  /\ Led(c, m, Front(p))
           /\ Len(Front(p)) < Memory => Points(c, m, Front(p), Len(Front(p)), Last(p))
<1>1. /\ Front(p) \in Seq(DOMAIN Kind) /\ Len(Front(p)) = Len(p) - 1 /\ Len(p) \in Nat \ {0}
      /\ \A i \in 1..(Len(p) - 1) : Front(p)[i] = p[i]
      /\ Last(p) = p[Len(p)]
    BY Shorter
<1>2. ASSUME NEW d \in 0..(Len(p) - 1) PROVE Prefix(Front(p), d) = Prefix(p, d)
    <2>1. \A i \in 1..d : Front(p)[i] = p[i]
        BY <1>1
    <2> QED
        BY <2>1 DEF Prefix
<1>3. Led(c, m, Front(p))
    <2> SUFFICES ASSUME NEW d \in 0..(Memory - 1), d < Len(Front(p))
                 PROVE  Points(c, m, Prefix(Front(p), d), d, Front(p)[d + 1])
        BY DEF Led
    <2>1. d \in 0..(Len(p) - 1) /\ d < Len(p) /\ d + 1 \in 1..(Len(p) - 1)
        BY <1>1
    <2>2. Points(c, m, Prefix(p, d), d, p[d + 1])
        BY <2>1 DEF Led
    <2> QED
        BY <1>1, <1>2, <2>1, <2>2
<1>4. ASSUME Len(Front(p)) < Memory PROVE Points(c, m, Front(p), Len(Front(p)), Last(p))
    <2> DEFINE d == Len(p) - 1
    <2>1. d \in 0..(Memory - 1) /\ d < Len(p) /\ d + 1 = Len(p) /\ d \in 0..(Len(p) - 1)
        BY <1>1, <1>4
    <2>2. Points(c, m, Prefix(p, d), d, p[d + 1])
        BY <2>1 DEF Led
    <2>3. Prefix(Front(p), Len(Front(p))) = Front(p)
        <3>1. Len(Front(p)) \in 0..Len(Front(p))
            BY <1>1
        <3> QED
            BY <1>1, <3>1, PrefixOf
    <2>4. Prefix(p, d) = Front(p) /\ d = Len(Front(p))
        BY <1>1, <1>2, <2>1, <2>3
    <2> HIDE DEF d
    <2> QED
        BY <1>1, <2>1, <2>2, <2>4
<1> QED
    BY <1>3, <1>4

LEMMA LedDown ==
    ASSUME NEW p \in Seq(DOMAIN Kind), NEW n, NEW c, NEW m, Led(c, m, p), Memory \in Nat,
           Len(p) < Memory => Points(c, m, p, Len(p), n)
    PROVE  Led(c, m, Append(p, n))
<1>1. /\ Len(Append(p, n)) = Len(p) + 1 /\ Append(p, n)[Len(p) + 1] = n /\ Len(p) \in Nat
      /\ \A i \in 1..Len(p) : Append(p, n)[i] = p[i]
    BY Longer
<1> SUFFICES ASSUME NEW d \in 0..(Memory - 1), d < Len(Append(p, n))
             PROVE  Points(c, m, Prefix(Append(p, n), d), d, Append(p, n)[d + 1])
    BY DEF Led
<1>2. d \in 0..Len(p)
    BY <1>1
<1>3. Prefix(Append(p, n), d) = Prefix(p, d)
    <2>1. \A i \in 1..d : Append(p, n)[i] = p[i]
        BY <1>1, <1>2
    <2> QED
        BY <2>1 DEF Prefix
<1>4. CASE d = Len(p)
    <2>1. Prefix(p, d) = p
        BY <1>2, <1>4, PrefixOf
    <2>2. Points(c, m, p, d, n)
        BY <1>4
    <2> QED
        BY <1>1, <1>3, <1>4, <2>1, <2>2
<1>5. CASE d < Len(p)
    <2>1. Points(c, m, Prefix(p, d), d, p[d + 1])
        BY <1>5 DEF Led
    <2>2. Append(p, n)[d + 1] = p[d + 1]
        <3>1. d + 1 \in 1..Len(p)
            BY <1>1, <1>5
        <3> QED
            BY <1>1, <3>1
    <2> QED
        BY <1>3, <2>1, <2>2
<1> QED
    BY <1>1, <1>2, <1>4, <1>5
-----------------------------------------------------------------------------
(* The shell neither changes the directory nor removes or makes any.        *)
ShellStays == ShellAsks /\ {"cd", "change"} \cap Commands = {}

Within == {"list", "open", "options", "delete", "erase", "task"}

CursorInv ==
    /\ DOMAIN memory = 0..(Memory - 1)
    /\ screen \in Within => pos = Len(cwd)
    /\ screen \in Within \ {"list"} => left = Nothing
    /\ screen = "scan" /\ left # Nothing =>
         dirs /\ (Len(cwd) < Memory => Points(card, memory, cwd, Len(cwd), left))
    /\ Led(card, memory, cwd)

(* In what a step may change of the card, it keeps the way to the directory.*)
LEMMA CardBelow ==
    ASSUME ShellStays, PathInv, [Next]_vars,
           NEW q \in Seq(DOMAIN Kind), NEW n \in DOMAIN Kind, Len(q) < Len(cwd)
    PROVE  Append(q, n) \in card' <=> Append(q, n) \in card
<1>1. Len(cwd) \in Nat /\ Len(q) \in Nat /\ cwd \in Seq(DOMAIN Kind)
    BY Paths DEF PathInv
<1>2. \A f : Append(cwd, f) # Append(q, n)
    <2> SUFFICES ASSUME NEW f PROVE Len(Append(cwd, f)) # Len(Append(q, n))
        OBVIOUS
    <2>1. Len(Append(cwd, f)) = Len(cwd) + 1 /\ Len(Append(q, n)) = Len(q) + 1
        BY <1>1, Longer
    <2> QED
        BY <1>1, <2>1
<1>3. CASE Delete
    BY <1>2, <1>3 DEF Delete
<1>4. CASE Erase
    <2>1. PICK k : card' = card \ {Append(cwd, Saves(picked)[i]) : i \in 1..k}
        BY <1>4 DEF Erase
    <2> QED
        BY <1>2, <2>1
<1>5. CASE ShellRemove \/ ShellMakeDir
    BY <1>5 DEF ShellRemove, ShellMakeDir, Given, ShellStays
<1>6. CASE ShellUpload
    BY <1>2, <1>6 DEF ShellUpload
<1>7. ASSUME Scan \/ LeaveUnreadable \/ Move \/ Enter \/ Back \/ Open \/ Close \/ Start \/ Choose \/ No
             \/ ShellCd \/ ShellLaunchCut \/ ShellLaunchAsks \/ TaskDialog \/ Restart \/ UNCHANGED vars
      PROVE  card' = card
    BY <1>7 DEF Scan, LeaveUnreadable, Move, Enter, Back, Open, Close, Start, Choose, No,
         ShellCd, ShellLaunchCut, ShellLaunchAsks, TaskDialog, Restart, vars
<1> QED
    BY <1>3, <1>4, <1>5, <1>6, <1>7 DEF Next

(* A step that stays where it is and remembers no cursor but of this level. *)
LEMMA LedHere ==
    ASSUME ShellStays, PathInv, CursorInv, [Next]_vars, cwd' = cwd,
           \A d \in 0..(Memory - 1) : d < Len(cwd) => memory'[d] = memory[d]
    PROVE  Led(card', memory', cwd')
<1>1. cwd \in Seq(DOMAIN Kind) /\ Memory \in Nat
    BY Paths DEF PathInv
<1>2. \A q \in Seq(DOMAIN Kind), n \in DOMAIN Kind :
        Len(q) < Len(cwd) => (Append(q, n) \in card' <=> Append(q, n) \in card)
    BY CardBelow
<1>3. Led(card, memory, cwd)
    BY DEF CursorInv
<1>4. Led(card', memory', cwd)
    BY <1>1, <1>2, <1>3, LedStays
<1> QED
    BY <1>4

LEMMA RememberHere ==
    ASSUME PathInv, CursorInv, pos = Len(cwd), NEW o, Remember(o)
    PROVE  /\ DOMAIN memory' = 0..(Memory - 1)
           /\ \A d \in 0..(Memory - 1) : d < Len(cwd) => memory'[d] = memory[d]
<1>1. Len(cwd) \in Nat /\ Memory \in Nat
    BY Paths DEF PathInv
<1>2. memory' = IF pos < Memory THEN [memory EXCEPT ![pos] = o] ELSE memory
    BY DEF Remember
<1> QED
    BY <1>1, <1>2 DEF CursorInv

(* On the way up, the cursor of the directory above points to the one left. *)
LEMMA UpStep ==
    ASSUME PathInv, CursorInv, ChDir(Up(cwd)), card' = card, memory' = memory, screen' = "scan", dirs',
           left' = IF cwd' # cwd THEN Last(cwd) ELSE Nothing
    PROVE  CursorInv'
<1>1. cwd \in Seq(DOMAIN Kind) /\ Memory \in Nat
    BY Paths DEF PathInv
<1>2. CASE cwd' = cwd
    BY <1>2 DEF CursorInv, Within
<1>3. CASE cwd' # cwd
    <2>1. cwd # <<>> /\ cwd' = Front(cwd) /\ left' = Last(cwd)
        BY <1>3 DEF ChDir, Up
    <2>2. Led(card, memory, Front(cwd))
          /\ (Len(Front(cwd)) < Memory => Points(card, memory, Front(cwd), Len(Front(cwd)), Last(cwd)))
        BY <1>1, <2>1, LedUp DEF CursorInv
    <2> QED
        BY <2>1, <2>2 DEF CursorInv, Within
<1> QED
    BY <1>2, <1>3

(* On the way down, the cursor that is kept points to where it goes.        *)
LEMMA DownStep ==
    ASSUME PathInv, CurrentInv, CursorInv, Enter PROVE CursorInv'
<1>1. cwd \in Seq(DOMAIN Kind) /\ Memory \in Nat /\ Len(cwd) \in Nat
    BY Paths DEF PathInv
<1>2. /\ card' = card /\ screen' = "scan" /\ left' = Nothing /\ screen = "list" /\ pos = Len(cwd)
      /\ memory' = [d \in 0..(Memory - 1) |-> IF d = pos THEN Cursor ELSE IF d = pos + 1 THEN 0 ELSE memory[d]]
      /\ ChDir(Append(cwd, Here))
    BY DEF Enter, Listed, CursorInv, Within
<1>3. \A d \in 0..(Memory - 1) : d < Len(cwd) => memory'[d] = memory[d]
    BY <1>1, <1>2
<1>4. Led(card, memory', cwd)
    BY <1>1, <1>3, LedStays DEF CursorInv
<1>5. Len(cwd) < Memory => Points(card, memory', cwd, Len(cwd), Here)
    <2> SUFFICES ASSUME Len(cwd) < Memory PROVE Points(card, memory', cwd, Len(cwd), Here)
        OBVIOUS
    <2>1. Len(cwd) \in 0..(Memory - 1)
        BY <1>1
    <2>2. memory'[Len(cwd)] = Cursor
        BY <1>2, <2>1
    <2>3. list.names = NamesIn(card, cwd)
        BY <1>2 DEF CurrentInv, Current, ListNow, Names, NamesIn
    <2> QED
        BY <2>2, <2>3 DEF Points, Here
<1>6. Led(card, memory', Append(cwd, Here))
    BY <1>1, <1>4, <1>5, LedDown
<1>7. cwd' = cwd \/ cwd' = Append(cwd, Here)
    BY <1>2 DEF ChDir
<1>8. Led(card', memory', cwd')
    BY <1>2, <1>4, <1>6, <1>7
<1>9. DOMAIN memory' = 0..(Memory - 1)
    BY <1>2
<1> QED
    BY <1>2, <1>8, <1>9 DEF CursorInv, Within

LEMMA CursorStep ==
    ASSUME ShellStays, PathInv, RamInv, CurrentInv, CursorInv, [Next]_vars PROVE CursorInv'
<1> USE DEF Within
<1>1. CASE Scan
    <2>1. cwd' = cwd /\ memory' = memory /\ pos' = Len(cwd) /\ screen' \in {"list", "unreadable"}
        BY <1>1 DEF Scan, Depth
    <2>2. Led(card', memory', cwd')
        BY <2>1, LedHere
    <2> QED
        BY <2>1, <2>2 DEF CursorInv
<1>2. CASE LeaveUnreadable
    BY <1>2, UpStep DEF LeaveUnreadable, InError, CurrentInv
<1>3. CASE Back
    BY <1>3, UpStep DEF Back
<1>4. CASE Enter
    BY <1>4, DownStep
<1>5. CASE Open \/ Start
    <2>1. /\ screen = "list" /\ pos' = pos /\ left' = Nothing /\ screen' \in {"open", "options"}
          /\ \E o : Remember(o)
        BY <1>5 DEF Open, Start, Listed
    <2>2. cwd' = cwd
        BY <1>5, LaunchStays DEF Open, Start
    <2>3. /\ DOMAIN memory' = 0..(Memory - 1)
          /\ \A d \in 0..(Memory - 1) : d < Len(cwd) => memory'[d] = memory[d]
        BY <2>1, RememberHere DEF CursorInv
    <2>4. Led(card', memory', cwd')
        BY <2>2, <2>3, LedHere
    <2> QED
        BY <2>1, <2>2, <2>3, <2>4 DEF CursorInv
<1>6. CASE Move \/ Close \/ Choose \/ No \/ Delete \/ Erase
    <2>1. /\ cwd' = cwd /\ memory' = memory /\ pos' = pos
          /\ (screen = "list" /\ screen' = "list") \/ (screen \in Within \ {"list"} /\ left' = left)
        BY <1>6 DEF Move, Listed, Close, Choose, InPopup, No, Delete, Erase, InDialog
    <2>2. screen' \in Within \cup {"scan"}
        BY <1>6 DEF Move, Listed, Close, Choose, No, Delete, Erase
    <2>3. Led(card', memory', cwd')
        BY <2>1, LedHere
    <2> QED
        BY <2>1, <2>2, <2>3 DEF CursorInv
<1>7. CASE ShellUpload
    <2>1. screen = "list" /\ screen' = "scan" /\ left' = Nothing /\ cwd' = cwd /\ Remember(offset)
        BY <1>7 DEF ShellUpload, Given, ShellStays, ShellAsks, Refresh
    <2>2. /\ DOMAIN memory' = 0..(Memory - 1)
          /\ \A d \in 0..(Memory - 1) : d < Len(cwd) => memory'[d] = memory[d]
        BY <2>1, RememberHere DEF CursorInv
    <2>3. Led(card', memory', cwd')
        BY <2>1, <2>2, LedHere
    <2> QED
        BY <2>1, <2>2, <2>3 DEF CursorInv
<1>8. CASE ShellCd \/ ShellRemove \/ ShellMakeDir \/ ShellLaunchCut
    BY <1>8 DEF ShellCd, ShellRemove, ShellMakeDir, ShellLaunchCut, Given, ShellStays, ShellAsks
<1>9. CASE ShellLaunchAsks
    <2>1. cwd' = cwd /\ memory' = memory /\ pos' = pos /\ screen = "list" /\ screen' = "task" /\ left' = Nothing
        BY <1>9 DEF ShellLaunchAsks
    <2>2. Led(card', memory', cwd')
        BY <2>1, LedHere
    <2> QED
        BY <2>1, <2>2 DEF CursorInv
<1>10. CASE TaskDialog
    <2>1. /\ cwd' = cwd /\ screen = "task" /\ left' = left /\ screen' \in {"crashed", "scan"}
          /\ memory' = memory \/ Remember(offset)
        BY <1>10 DEF TaskDialog
    <2>2. /\ DOMAIN memory' = 0..(Memory - 1)
          /\ \A d \in 0..(Memory - 1) : d < Len(cwd) => memory'[d] = memory[d]
        BY <2>1, RememberHere DEF CursorInv
    <2>3. Led(card', memory', cwd')
        BY <2>1, <2>2, LedHere
    <2> QED
        BY <2>1, <2>2, <2>3 DEF CursorInv
<1>11. CASE Restart
    <2>1. /\ cwd' = <<>> /\ screen' = "scan" /\ left' = Nothing /\ memory' = [d \in 0..(Memory - 1) |-> 0]
        BY <1>11 DEF Restart
    <2>2. Led(card', memory', cwd')
        BY <2>1 DEF Led
    <2> QED
        BY <2>1, <2>2 DEF CursorInv
<1>12. CASE UNCHANGED vars
    BY <1>12 DEF vars, CursorInv
<1> QED
    BY <1>1, <1>2, <1>3, <1>4, <1>5, <1>6, <1>7, <1>8, <1>9, <1>10, <1>11, <1>12 DEF Next

LEMMA CursorInit == Init => CursorInv
<1> SUFFICES ASSUME Init PROVE CursorInv
    OBVIOUS
<1>1. cwd = <<>> /\ screen = "scan" /\ left = Nothing /\ memory = [d \in 0..(Memory - 1) |-> 0]
    BY DEF Init
<1>2. Led(card, memory, cwd)
    BY <1>1 DEF Led
<1> QED
    BY <1>1, <1>2 DEF CursorInv, Within

(* The list that is read after a directory was left starts at the entry of  *)
(* that directory.                                                          *)
LEMMA CursorHolds ==
    ASSUME PathInv, CursorInv, [Next]_vars PROVE CursorOnLeft
<1> SUFFICES ASSUME screen = "scan", screen' = "list", left # Nothing, pos' < Memory
             PROVE  list'.names[offset' + 1] = left
    BY DEF CursorOnLeft
<1>1. dirs /\ (Len(cwd) < Memory => Points(card, memory, cwd, Len(cwd), left))
    BY DEF CursorInv
<1>2. Scan
    <2>1. \/ Scan \/ screen # "scan" \/ screen' # "list" \/ screen' = screen
        BY DEF Next, LeaveUnreadable, InError, Move, Enter, Back, Open, Close, Start, Choose, InPopup,
             No, Delete, Erase, InDialog, Listed, ShellCd, ShellRemove, ShellMakeDir, ShellUpload, Refresh,
             ShellLaunchCut, ShellLaunchAsks, TaskDialog, Restart, vars
    <2> QED
        BY <2>1
<1>3. /\ pos' = Len(cwd) /\ list' = [dir |-> cwd, names |-> Names(cwd)]
      /\ offset' = IF pos' >= Memory THEN 0 ELSE memory[pos']
    BY <1>1, <1>2 DEF Scan, Depth
<1>4. offset' = memory[Len(cwd)]
    <2>1. Len(cwd) \in Nat /\ Memory \in Nat
        BY Paths DEF PathInv
    <2> QED
        BY <1>3, <2>1
<1> QED
    BY <1>1, <1>3, <1>4 DEF Points, NamesIn, Names

(* ui_file_selector.c:286, 314: however deep the user went, whatever was    *)
(* opened, deleted or uploaded there, and whatever failed, each directory   *)
(* that is left has the cursor in the one above, as far as path_depth goes. *)
THEOREM CursorComesBack ==
    ASSUME ShellStays, NoRam0 PROVE Spec => [][CursorOnLeft]_vars
<1>1. Init => PathInv /\ RamInv /\ CurrentInv /\ CursorInv
    BY PathInit, CurrentInit, CursorInit DEF Init, NoRam0, RamInv
<1>2. PathInv /\ RamInv /\ CurrentInv /\ CursorInv /\ [Next]_vars
      => PathInv' /\ RamInv' /\ CurrentInv' /\ CursorInv'
    BY PathStep, RamStep, CurrentStep, CursorStep DEF ShellStays
<1>3. PathInv /\ CursorInv /\ [Next]_vars => [CursorOnLeft]_vars
    BY CursorHolds
<1> QED
    BY <1>1, <1>2, <1>3, PTL DEF Spec
==============================================================================
