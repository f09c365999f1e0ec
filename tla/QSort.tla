-------------------------------- MODULE QSort --------------------------------
(***************************************************************************)
(* The sort of the file list: a quicksort that keeps the ranges it has yet *)
(* to sort on a stack of its own, and the comparators it is given.         *)
(*                                                                         *)
(* Abstracted: the files themselves, which stay where they are while their *)
(* indices are sorted; the banks both are in.                              *)
(***************************************************************************)
EXTENDS Integers, Sequences, FiniteSets, Functions

CONSTANTS
    Directories, \* sequences of files
    Modes,       \* the orders that are set
    Threshold,   \* T: ranges up to this length are sorted by insertion
    Ranges       \* STACKSIZE / 2

FileRec == [dir : BOOLEAN, name : Int, date : Int, time : Int, size : Int]

QSortAssumption ==
    /\ Threshold \in Nat /\ Threshold >= 3 /\ Ranges \in Nat
    /\ \A d \in Directories : d \in Seq(FileRec)

VARIABLES
    mode,   \* settings.file_sort
    dir,    \* the directory
    a,      \* FILE_SELECTOR_INDEXES: positions in dir
    base, limit, \* the range that is sorted
    i, j,   \* positions in it
    stack,  \* ranges to be sorted, <<base, limit>>
    at      \* "range", "up", "down", "insert", "done", "outside" the range

vars == <<mode, dir, a, base, limit, i, j, stack, at>>

-----------------------------------------------------------------------------
COMPARE(x, y) == IF x = y THEN 0 ELSE IF x < y THEN -1 ELSE 1

(* COMPARE(...) || COMPARE(...), in C.                                      *)
Or(x, y) == IF x # 0 \/ y # 0 THEN 1 ELSE 0

(* Mutant: directories are not set apart.                                   *)
ComparePlain(x, y) ==
    CASE mode = "name_asc"  -> COMPARE(x.name, y.name)
      [] mode = "name_desc" -> COMPARE(y.name, x.name)
      [] OTHER -> 0

(* compare_filenames.                                                       *)
Compare(x, y) ==
    IF x.dir # y.dir THEN (IF x.dir THEN -1 ELSE 1)
    ELSE CASE mode = "name_asc"  -> COMPARE(x.name, y.name)
           [] mode = "name_desc" -> COMPARE(y.name, x.name)
           [] mode = "date_asc"  -> Or(COMPARE(x.date, y.date), COMPARE(x.time, y.time))
           [] mode = "date_desc" -> Or(COMPARE(y.date, x.date), COMPARE(y.time, x.time))
           [] mode = "size_asc"  -> COMPARE(x.size, y.size)
           [] mode = "size_desc" -> COMPARE(y.size, x.size)
           [] OTHER -> 0

(* qsort_compare.                                                           *)
Cmp(b, x, y) == Compare(dir[b[x] + 1], dir[b[y] + 1])

Swap(b, x, y) == [b EXCEPT ![x] = b[y], ![y] = b[x]]
SwapIf(p, b, x, y) == IF p THEN Swap(b, x, y) ELSE b

(* The middle goes first, then the median of it, the second and the last:   *)
(* the second is no greater and the last no less, so both stop a scan.      *)
Middle(b, s, l) == Swap(b, s, (l - s) \div 2 + s)
Median(b, s, l) ==
    LET b1 == Middle(b, s, l)
        b2 == SwapIf(Cmp(b1, s + 1, l - 1) > 0, b1, s + 1, l - 1)
        b3 == SwapIf(Cmp(b2, s, l - 1) > 0, b2, s, l - 1)
    IN  SwapIf(Cmp(b3, s + 1, s) > 0, b3, s + 1, s)

-----------------------------------------------------------------------------
Partition ==
    /\ at = "range" /\ limit - base > Threshold
    /\ a' = Median(a, base, limit)
    /\ i' = base + 1 /\ j' = limit - 1 /\ at' = "up"
    /\ UNCHANGED <<mode, dir, base, limit, stack>>

(* i moves right to what is not below the pivot.                            *)
Up ==
    /\ at = "up"
    /\ LET stops == {k \in i + 1..limit - 1 : Cmp(a, k, base) >= 0}
       IN  IF stops = {} THEN at' = "outside" /\ i' = limit
           ELSE at' = "down" /\ i' = CHOOSE k \in stops : \A m \in stops : k <= m
    /\ UNCHANGED <<mode, dir, a, base, limit, j, stack>>

(* j moves left to what is not above it; both are swapped unless they have  *)
(* passed each other.                                                       *)
Down ==
    /\ at = "down"
    /\ LET stops == {k \in base..j - 1 : Cmp(a, k, base) <= 0}
           k     == CHOOSE k \in stops : \A m \in stops : m <= k
       IN  IF stops = {} THEN at' = "outside" /\ UNCHANGED <<a, j>>
           ELSE /\ j' = k
                /\ IF i > k THEN at' = "split" /\ UNCHANGED a
                   ELSE at' = "up" /\ a' = Swap(a, i, k)
    /\ UNCHANGED <<mode, dir, base, limit, i, stack>>

(* The pivot goes between the parts, the larger one onto the stack.         *)
Split ==
    /\ at = "split"
    /\ a' = Swap(a, base, j) /\ at' = "range"
    /\ IF j - base > limit - i
       THEN stack' = Append(stack, <<base, j>>) /\ base' = i /\ UNCHANGED limit
       ELSE stack' = Append(stack, <<i, limit>>) /\ limit' = j /\ UNCHANGED base
    /\ UNCHANGED <<mode, dir, i, j>>

Insertion ==
    /\ at = "range" /\ limit - base <= Threshold
    /\ j' = base /\ i' = base + 1 /\ at' = "insert"
    /\ UNCHANGED <<mode, dir, a, base, limit, stack>>

Insert ==
    /\ at = "insert" /\ i < limit
    /\ IF Cmp(a, j, j + 1) > 0
       THEN /\ a' = Swap(a, j, j + 1)
            /\ IF j = base THEN j' = i /\ i' = i + 1 ELSE j' = j - 1 /\ UNCHANGED i
       ELSE j' = i /\ i' = i + 1 /\ UNCHANGED a
    /\ UNCHANGED <<mode, dir, base, limit, stack, at>>

Pop ==
    /\ at = "insert" /\ i >= limit /\ stack # <<>>
    /\ base' = stack[Len(stack)][1] /\ limit' = stack[Len(stack)][2]
    /\ stack' = SubSeq(stack, 1, Len(stack) - 1) /\ at' = "range"
    /\ UNCHANGED <<mode, dir, a, i, j>>

Finish ==
    /\ at = "insert" /\ i >= limit /\ stack = <<>>
    /\ at' = "done"
    /\ UNCHANGED <<mode, dir, a, base, limit, i, j, stack>>

Init ==
    /\ mode \in Modes /\ dir \in Directories
    /\ a = [k \in 0..Len(dir) - 1 |-> k]
    /\ base = 0 /\ limit = Len(dir) /\ i = 0 /\ j = 0
    /\ stack = <<>> /\ at = "range"

Next == Partition \/ Up \/ Down \/ Split \/ Insertion \/ Insert \/ Pop \/ Finish

Spec == Init /\ [][Next]_vars /\ WF_vars(Next)

-----------------------------------------------------------------------------
TypeOK ==
    /\ mode \in Modes /\ dir \in Directories
    /\ IsInjective(a) /\ DOMAIN a = 0..Len(dir) - 1 /\ \A k \in DOMAIN a : a[k] \in DOMAIN a
    /\ 0 <= base /\ limit <= Len(dir)

File(k) == dir[a[k] + 1]

(* What an order means: directories first, then by name, by date and time,  *)
(* or by size.                                                              *)
Before(x, y) ==
    \/ x.dir /\ ~y.dir
    \/ /\ x.dir = y.dir
       /\ mode = "name_asc"  => x.name <= y.name
       /\ mode = "name_desc" => y.name <= x.name
       /\ mode = "date_asc"  => x.date < y.date \/ (x.date = y.date /\ x.time <= y.time)
       /\ mode = "date_desc" => y.date < x.date \/ (x.date = y.date /\ y.time <= x.time)
       /\ mode = "size_asc"  => x.size <= y.size
       /\ mode = "size_desc" => y.size <= x.size

Sorted == at = "done" => \A k, m \in DOMAIN a : k < m => Before(File(k), File(m))

(* settings.md:18, "by date".                                               *)
SortedByDate == mode \in {"date_asc", "date_desc"} => Sorted

(* lang/en.po:75: the order "Filesystem" is that of the file system.        *)
FilesystemKept == at = "done" /\ mode = "filesystem" =>
    \A k, m \in DOMAIN a : k < m /\ File(k).dir = File(m).dir => a[k] < a[m]

(* No scan leaves its range.                                                *)
StaysInRange == at # "outside"

(* Whatever is not in one range that is still to be sorted is in order.     *)
Pending == {<<base, limit>>} \cup {stack[k] : k \in DOMAIN stack}

PartsInOrder ==
    at = "range" =>
        \A k, m \in DOMAIN a :
            \/ k >= m \/ Before(File(k), File(m))
            \/ \E r \in Pending : r[1] <= k /\ m < r[2]

(* ui_file_selector_qsort.c:47: the stack's use is logarithmic, and its     *)
(* STACKSIZE is enough.                                                     *)
StackHolds == Len(stack) <= Ranges

(* r bounds the size of a range by the number of those on the stack: a range *)
(* loses its pivot and its larger part, and with the stack full it is short  *)
(* enough to be sorted by insertion.  With T 7 and STACKSIZE 12, directories *)
(* of up to 574 files are so bounded, of the 1524 that a list may have.      *)
Bounds(r) ==
    /\ r \in [0..Ranges -> Nat] /\ r[Ranges] <= Threshold
    /\ \A n \in 0..(Ranges - 1) : r[n] <= 2 * r[n + 1] + 2
    /\ \A d \in Directories : Len(d) <= r[0]

(* The sort ends.                                                           *)
Ends == <>(at = "done")
=============================================================================
