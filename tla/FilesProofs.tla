----------------------------- MODULE FilesProofs ------------------------------
(*****************************************************************************)
(* Theorems about the files of the card: the sort, the component of a        *)
(* WonderWitch image and what is extracted from one; and, with those of      *)
(* FileBrowserProofs, about all of it in Files.                              *)
(*                                                                           *)
(* FullInv and StackInv, ImageInv and ExtractInv are what each tool keeps;   *)
(* the last part puts them together.                                         *)
(*****************************************************************************)
EXTENDS Files, FiniteSetTheorems, TLAPS

(* What a directory holds.                                                  *)
FilesAreFiles == \A d \in SortOf.Directories : d \in Seq(Sort!FileRec)

(* All orders but those by date, whose comparator is none.                  *)
Ordering == mode \notin {"date_asc", "date_desc"}

-----------------------------------------------------------------------------
(* The comparator *)

LEMMA CompareType ==
    ASSUME NEW x \in Sort!FileRec, NEW y \in Sort!FileRec
    PROVE  Sort!Compare(x, y) \in {-1, 0, 1}
BY DEF Sort!Compare, Sort!COMPARE, Sort!Or, Sort!FileRec

(* Whatever the order: nothing is less than what it is not greater than.    *)
LEMMA CompareTurned ==
    ASSUME NEW x \in Sort!FileRec, NEW y \in Sort!FileRec
    PROVE  Sort!Compare(x, x) = 0 /\ (Sort!Compare(x, y) <= 0 => Sort!Compare(y, x) >= 0)
BY DEF Sort!Compare, Sort!COMPARE, Sort!Or, Sort!FileRec

(* The order means what its comparator says.                                *)
LEMMA CompareMeans ==
    ASSUME Ordering, NEW x \in Sort!FileRec, NEW y \in Sort!FileRec
    PROVE  /\ Sort!Compare(x, y) <= 0 <=> Sort!Before(x, y)
           /\ Sort!Compare(x, y) >= 0 <=> Sort!Before(y, x)
           /\ Sort!Compare(x, y) > 0 <=> ~Sort!Before(x, y)
BY DEF Sort!Compare, Sort!COMPARE, Sort!Before, Ordering, Sort!FileRec

LEMMA BeforeTotal ==
    ASSUME Ordering, NEW x \in Sort!FileRec, NEW y \in Sort!FileRec
    PROVE  Sort!Before(x, x) /\ (Sort!Before(x, y) \/ Sort!Before(y, x))
BY DEF Sort!Before, Ordering, Sort!FileRec

LEMMA BeforeOn ==
    ASSUME Ordering, NEW x \in Sort!FileRec, NEW y \in Sort!FileRec, NEW z \in Sort!FileRec, Sort!Before(x, y), Sort!Before(y, z)
    PROVE  Sort!Before(x, z)
BY DEF Sort!Before, Ordering, Sort!FileRec

(* The median of three, in any order: the last is not less than the pivot.  *)
LEMMA MedianLast ==
    ASSUME NEW x \in Sort!FileRec, NEW y \in Sort!FileRec, NEW z \in Sort!FileRec,
           Sort!Compare(y, z) <= 0 \/ Sort!Compare(z, y) > 0,
           NEW u \in {x, z}, NEW v \in {x, z}, 
           Sort!Compare(x, z) > 0 => u = z /\ v = x, 
           ~(Sort!Compare(x, z) > 0) => u = x /\ v = z,
           Sort!Compare(y, u) > 0
    PROVE  Sort!Compare(v, y) >= 0
BY DEF Sort!Compare, Sort!COMPARE, Sort!Or, Sort!FileRec

-----------------------------------------------------------------------------
(* The invariant *)

Dom == 0..(Len(dir) - 1)
At(b, k) == dir[b[k] + 1]

(* c is b with the range from l to h, without h, rearranged.                *)
Inside(b, c, l, h) ==
    \A k \in Dom : \/ k \notin l..(h - 1) /\ c[k] = b[k]
                   \/ k \in l..(h - 1) /\ \E m \in l..(h - 1) : c[k] = b[m]

(* What is in no range that is still to be sorted is in order.              *)
OutOfPlace(k, m, l, h, s) ==
    \/ l <= k /\ m < h
    \/ \E q \in DOMAIN s : s[q][1] <= k /\ m < s[q][2]
Arranged(b, l, h, s) ==
    \A k, m \in Dom : k < m => Sort!Before(At(b, k), At(b, m)) \/ OutOfPlace(k, m, l, h, s)

ArrayInv ==
    /\ dir \in SortOf.Directories
    /\ a \in [Dom -> Dom] /\ IsInjective(a)

Apart(r, s) == r[2] <= s[1] \/ s[2] <= r[1]

(* The ranges lie in the array, apart from each other.                      *)
RangesInv ==
    /\ at \in {"range", "up", "down", "split", "insert", "done"}
    /\ base \in 0..Len(dir) /\ limit \in 0..Len(dir) /\ base <= limit /\ {i, j} \subseteq Int
    /\ stack \in Seq((0..Len(dir)) \X (0..Len(dir)))
    /\ \A q \in DOMAIN stack : stack[q][1] <= stack[q][2] /\ Apart(<<base, limit>>, stack[q])
    /\ \A p, q \in DOMAIN stack : p < q => Apart(stack[p], stack[q])

(* From j on nothing is less than the pivot, so i stops at j or before it;  *)
(* and j stops at the pivot.                                                *)
ScanInv ==
    /\ at \in {"up", "down", "split"} => base < i /\ i < limit /\ limit - base > SortOf.Threshold
    /\ at = "up" => i <= j /\ j < limit /\ i < limit - 1
    /\ at = "down" => i <= j + 1 /\ base < j /\ j < limit /\ Sort!Cmp(a, i, base) >= 0
    /\ at \in {"up", "down"} => \A k \in j..(limit - 1) : Sort!Cmp(a, k, base) >= 0
    /\ at = "split" => base <= j /\ j < i
    /\ at = "insert" => base <= j /\ j < i /\ (i <= limit \/ i = base + 1)

(* Before i nothing is greater than the pivot, and behind j nothing less.   *)
PartsInv ==
    /\ at = "up" => \A k \in (base + 1)..i : Sort!Before(At(a, k), At(a, base))
    /\ at \in {"down", "split"} => \A k \in (base + 1)..(i - 1) : Sort!Before(At(a, k), At(a, base))
    /\ at = "split" => \A k \in (j + 1)..(limit - 1) : Sort!Before(At(a, base), At(a, k))

(* Up to i all are in order but for the one that is being inserted, which   *)
(* is at j + 1 and before what is behind it.                                *)
InsertInv ==
    at = "insert" =>
        /\ i >= limit => j = i - 1
        /\ \A k, m \in base..i : k < m /\ m < limit /\ (k = j + 1 \/ m # j + 1) => Sort!Before(At(a, k), At(a, m))

SortInv == Arranged(a, base, limit, stack) /\ PartsInv /\ InsertInv /\ Sort!Sorted

-----------------------------------------------------------------------------
(* Swaps *)

LEMMA AtType ==
    ASSUME FilesAreFiles, dir \in SortOf.Directories, NEW b \in [Dom -> Dom], NEW k \in Dom
    PROVE  At(b, k) \in Sort!FileRec
<1>1. dir \in Seq(Sort!FileRec) /\ Len(dir) \in Nat
    BY DEF FilesAreFiles
<1>2. b[k] \in 0..(Len(dir) - 1)
    BY DEF Dom
<1>3. b[k] + 1 \in 1..Len(dir)
    BY <1>1, <1>2
<1> QED
    BY <1>1, <1>3 DEF At

LEMMA SwapIs ==
    ASSUME NEW b \in [Dom -> Dom], NEW x \in Dom, NEW y \in Dom
    PROVE  /\ Sort!Swap(b, x, y) \in [Dom -> Dom]
           /\ \A k \in Dom : Sort!Swap(b, x, y)[k] = IF k = x THEN b[y] ELSE IF k = y THEN b[x] ELSE b[k]
BY DEF Sort!Swap

LEMMA SwapInjective ==
    ASSUME NEW b \in [Dom -> Dom], NEW x \in Dom, NEW y \in Dom, IsInjective(b)
    PROVE  IsInjective(Sort!Swap(b, x, y))
<1>1. \A k \in Dom : Sort!Swap(b, x, y)[k] = IF k = x THEN b[y] ELSE IF k = y THEN b[x] ELSE b[k]
    BY DEF Sort!Swap
<1>2. DOMAIN Sort!Swap(b, x, y) = Dom /\ DOMAIN b = Dom
    BY DEF Sort!Swap
<1> QED
    BY <1>1, <1>2 DEF IsInjective

(* The same of the files that are swapped.                                  *)
LEMMA SwapAt ==
    ASSUME NEW b \in [Dom -> Dom], NEW x \in Dom, NEW y \in Dom
    PROVE  /\ At(Sort!Swap(b, x, y), x) = At(b, y) /\ At(Sort!Swap(b, x, y), y) = At(b, x)
           /\ \A k \in Dom : k # x /\ k # y => At(Sort!Swap(b, x, y), k) = At(b, k)
<1>1. \A k \in Dom : Sort!Swap(b, x, y)[k] = IF k = x THEN b[y] ELSE IF k = y THEN b[x] ELSE b[k]
    BY DEF Sort!Swap
<1>2. Sort!Swap(b, x, y)[x] = b[y] /\ Sort!Swap(b, x, y)[y] = b[x]
    BY <1>1
<1> QED
    BY <1>1, <1>2 DEF At

LEMMA SwapInside ==
    ASSUME NEW b \in [Dom -> Dom], NEW l \in Int, NEW h \in Int, NEW x \in Dom, NEW y \in Dom,
           x \in l..(h - 1), y \in l..(h - 1)
    PROVE  Inside(b, Sort!Swap(b, x, y), l, h)
<1> SUFFICES ASSUME NEW k \in Dom
             PROVE  \/ k \notin l..(h - 1) /\ Sort!Swap(b, x, y)[k] = b[k]
                    \/ k \in l..(h - 1) /\ \E m \in l..(h - 1) : Sort!Swap(b, x, y)[k] = b[m]
    BY DEF Inside
<1>1. Sort!Swap(b, x, y)[k] = IF k = x THEN b[y] ELSE IF k = y THEN b[x] ELSE b[k]
    BY SwapIs
<1> QED
    BY <1>1

LEMMA InsideOn ==
    ASSUME NEW b, NEW c, NEW d, NEW l \in Nat, NEW h \in 0..Len(dir), Len(dir) \in Nat,
           Inside(b, c, l, h), Inside(c, d, l, h)
    PROVE  Inside(b, d, l, h)
<1> SUFFICES ASSUME NEW k \in Dom
             PROVE  \/ k \notin l..(h - 1) /\ d[k] = b[k]
                    \/ k \in l..(h - 1) /\ \E m \in l..(h - 1) : d[k] = b[m]
    BY DEF Inside
<1>1. CASE k \notin l..(h - 1)
    BY <1>1 DEF Inside
<1>2. CASE k \in l..(h - 1)
    <2>1. PICK m \in l..(h - 1) : d[k] = c[m]
        BY <1>2 DEF Inside
    <2>2. m \in Dom
        BY DEF Dom
    <2>3. PICK n \in l..(h - 1) : c[m] = b[n]
        BY <2>2 DEF Inside
    <2> QED
        BY <1>2, <2>1, <2>3
<1> QED
    BY <1>1, <1>2

(* What is rearranged in a range keeps the order to what is outside.        *)
LEMMA InsideInOrder ==
    ASSUME NEW b \in [Dom -> Dom], NEW c \in [Dom -> Dom], NEW l \in Nat, NEW h \in 0..Len(dir), l <= h,
           Len(dir) \in Nat, NEW s \in Seq((0..Len(dir)) \X (0..Len(dir))),
           \A q \in DOMAIN s : Apart(<<l, h>>, s[q]),
           Inside(b, c, l, h), Arranged(b, l, h, s)
    PROVE  Arranged(c, l, h, s)
<1> SUFFICES ASSUME NEW k \in Dom, NEW m \in Dom, k < m, ~OutOfPlace(k, m, l, h, s)
             PROVE  Sort!Before(At(c, k), At(c, m))
    BY DEF Arranged
<1>1. \A q \in DOMAIN s : /\ s[q][1] \in Nat /\ s[q][2] \in Nat /\ (h <= s[q][1] \/ s[q][2] <= l)
                          /\ ~(s[q][1] <= k /\ m < s[q][2])
    BY DEF Apart, OutOfPlace
<1>2. ~(l <= k /\ m < h) /\ k \in Nat /\ m \in Nat
    BY DEF OutOfPlace, Dom
<1>3. CASE k \in l..(h - 1)
    <2>1. PICK n \in l..(h - 1) : c[k] = b[n]
        BY <1>3 DEF Inside
    <2>2. n \in Dom /\ c[m] = b[m] /\ n < m /\ m >= h
        BY <1>2, <1>3 DEF Inside, Dom
    <2>3. ~OutOfPlace(n, m, l, h, s)
        <3>1. ASSUME NEW q \in DOMAIN s PROVE ~(s[q][1] <= n /\ m < s[q][2])
            <4>1. s[q][1] \in Nat /\ s[q][2] \in Nat /\ (h <= s[q][1] \/ s[q][2] <= l)
                BY <1>1
            <4> QED
                BY <1>2, <2>2, <4>1
        <3> QED
            BY <1>2, <2>2, <3>1 DEF OutOfPlace
    <2>4. Sort!Before(At(b, n), At(b, m))
        BY <2>2, <2>3 DEF Arranged
    <2> QED
        BY <2>1, <2>2, <2>4 DEF At
<1>4. CASE m \in l..(h - 1)
    <2>1. PICK n \in l..(h - 1) : c[m] = b[n]
        BY <1>4 DEF Inside
    <2>2. n \in Dom /\ c[k] = b[k] /\ k < n /\ k < l
        BY <1>2, <1>4 DEF Inside, Dom
    <2>3. ~OutOfPlace(k, n, l, h, s)
        <3>1. ASSUME NEW q \in DOMAIN s PROVE ~(s[q][1] <= k /\ n < s[q][2])
            <4>1. s[q][1] \in Nat /\ s[q][2] \in Nat /\ (h <= s[q][1] \/ s[q][2] <= l)
                BY <1>1
            <4> QED
                BY <1>2, <2>2, <4>1
        <3> QED
            BY <1>2, <2>2, <3>1 DEF OutOfPlace
    <2>4. Sort!Before(At(b, k), At(b, n))
        BY <2>2, <2>3 DEF Arranged
    <2> QED
        BY <2>1, <2>2, <2>4 DEF At
<1>5. CASE k \notin l..(h - 1) /\ m \notin l..(h - 1)
    <2>1. c[k] = b[k] /\ c[m] = b[m]
        BY <1>5 DEF Inside
    <2>2. Sort!Before(At(b, k), At(b, m))
        BY DEF Arranged
    <2> QED
        BY <2>1, <2>2 DEF At
<1> QED
    BY <1>3, <1>4, <1>5

-----------------------------------------------------------------------------
(* The median of three *)

LEMMA MedianFacts ==
    ASSUME FilesAreFiles, ArrayInv, NEW s \in Nat, NEW l \in 0..Len(dir), l - s > 3
    PROVE  LET c == Sort!Median(a, s, l)
           IN  /\ c \in [Dom -> Dom] /\ IsInjective(c) /\ Inside(a, c, s, l)
               /\ Sort!Cmp(c, l - 1, s) >= 0
               /\ Ordering => Sort!Before(At(c, s + 1), At(c, s))
<1>1. Len(dir) \in Nat /\ dir \in SortOf.Directories /\ a \in [Dom -> Dom] /\ IsInjective(a)
    BY DEF ArrayInv, FilesAreFiles
<1> DEFINE mid == (l - s) \div 2 + s
           b1 == Sort!Middle(a, s, l)
           b2 == Sort!SwapIf(Sort!Cmp(b1, s + 1, l - 1) > 0, b1, s + 1, l - 1)
           b3 == Sort!SwapIf(Sort!Cmp(b2, s, l - 1) > 0, b2, s, l - 1)
           c  == Sort!SwapIf(Sort!Cmp(b3, s + 1, s) > 0, b3, s + 1, s)
           Good(b) == b \in [Dom -> Dom] /\ IsInjective(b) /\ Inside(a, b, s, l)
<1>2. (l - s) \div 2 \in 0..(l - s - 1)
    <2>1. l - s \in Nat \ {0}
        BY <1>1
    <2> QED
        BY <2>1
<1>3. mid \in s..(l - 1) /\ s \in s..(l - 1) /\ s + 1 \in s..(l - 1) /\ l - 1 \in s..(l - 1)
    BY <1>1, <1>2
<1>4. mid \in Dom /\ s \in Dom /\ s + 1 \in Dom /\ l - 1 \in Dom /\ s # s + 1 /\ s # l - 1 /\ s + 1 # l - 1
    BY <1>1, <1>3 DEF Dom
<1> HIDE DEF mid
<1>5. ASSUME NEW b, Good(b), NEW x \in s..(l - 1), NEW y \in s..(l - 1), x \in Dom, y \in Dom
      PROVE  Good(Sort!Swap(b, x, y))
    <2>1. Inside(b, Sort!Swap(b, x, y), s, l)
        BY <1>1, <1>5, SwapInside
    <2>2. Inside(a, Sort!Swap(b, x, y), s, l)
        BY <1>1, <1>5, <2>1, InsideOn
    <2> QED
        BY <1>5, <2>2, SwapIs, SwapInjective
<1>6. Inside(a, a, s, l)
    BY DEF Inside
<1>7. Good(b1)
    BY <1>1, <1>3, <1>4, <1>5, <1>6 DEF Sort!Middle, mid
<1>8. Good(b2)
    BY <1>3, <1>4, <1>5, <1>7 DEF Sort!SwapIf
<1>9. Good(b3)
    BY <1>3, <1>4, <1>5, <1>8 DEF Sort!SwapIf
<1>10. Good(c)
    BY <1>3, <1>4, <1>5, <1>9 DEF Sort!SwapIf
<1> DEFINE x == At(b1, s)
           y == At(b2, s + 1)
           z == At(b2, l - 1)
           u == At(b3, s)
           v == At(b3, l - 1)
<1>11. At(b2, s) = x
    <2>1. CASE Sort!Cmp(b1, s + 1, l - 1) > 0
        BY <1>4, <1>7, <2>1, SwapAt DEF Sort!SwapIf
    <2>2. CASE ~(Sort!Cmp(b1, s + 1, l - 1) > 0)
        BY <2>2 DEF Sort!SwapIf
    <2> QED
        BY <2>1, <2>2
<1>12. Sort!Compare(y, z) <= 0 \/ Sort!Compare(z, y) > 0
    <2>1. CASE Sort!Cmp(b1, s + 1, l - 1) > 0
        <3>1. y = At(b1, l - 1) /\ z = At(b1, s + 1)
            BY <1>4, <1>7, <2>1, SwapAt DEF Sort!SwapIf
        <3> QED
            BY <2>1, <3>1 DEF Sort!Cmp, At
    <2>2. CASE ~(Sort!Cmp(b1, s + 1, l - 1) > 0)
        <3>1. b2 = b1
            BY <2>2 DEF Sort!SwapIf
        <3>2. At(b1, s + 1) \in Sort!FileRec /\ At(b1, l - 1) \in Sort!FileRec
            BY <1>1, <1>4, <1>7, AtType
        <3>3. Sort!Cmp(b1, s + 1, l - 1) \in {-1, 0, 1}
            BY <3>2, CompareType DEF Sort!Cmp, At
        <3> QED
            BY <2>2, <3>1, <3>3 DEF Sort!Cmp, At
    <2> QED
        BY <2>1, <2>2
<1>13. /\ At(b3, s + 1) = y
       /\ Sort!Compare(x, z) > 0 => u = z /\ v = x
       /\ ~(Sort!Compare(x, z) > 0) => u = x /\ v = z
    <2>1. Sort!Cmp(b2, s, l - 1) = Sort!Compare(x, z)
        BY <1>11 DEF Sort!Cmp, At
    <2>2. CASE Sort!Compare(x, z) > 0
        BY <1>4, <1>8, <1>11, <2>1, <2>2, SwapAt DEF Sort!SwapIf
    <2>3. CASE ~(Sort!Compare(x, z) > 0)
        BY <1>11, <2>1, <2>3 DEF Sort!SwapIf
    <2> QED
        BY <2>2, <2>3
<1>14. x \in Sort!FileRec /\ y \in Sort!FileRec /\ z \in Sort!FileRec /\ u \in Sort!FileRec /\ v \in Sort!FileRec
    BY <1>1, <1>4, <1>7, <1>8, <1>9, AtType
<1>15. Sort!Cmp(b3, s + 1, s) = Sort!Compare(y, u)
    BY <1>13 DEF Sort!Cmp, At
<1>16. Sort!Cmp(c, l - 1, s) = Sort!Compare(At(c, l - 1), At(c, s))
    BY DEF Sort!Cmp, At
<1>17. CASE Sort!Compare(y, u) > 0
    <2>1. c = Sort!Swap(b3, s + 1, s)
        BY <1>15, <1>17 DEF Sort!SwapIf
    <2>2. At(c, s + 1) = u /\ At(c, s) = y /\ At(c, l - 1) = v
        BY <1>4, <1>9, <1>13, <2>1, SwapAt
    <2> HIDE DEF c, b1, b2, b3, x, y, z, u, v
    <2>3. Sort!Compare(v, y) >= 0
        BY <1>12, <1>13, <1>14, <1>17, MedianLast
    <2>4. Ordering => Sort!Before(u, y)
        BY <1>14, <1>17, CompareMeans, BeforeTotal
    <2> QED
        BY <1>10, <1>16, <2>2, <2>3, <2>4 DEF Sort!Median, c, b1, b2, b3
<1>18. CASE ~(Sort!Compare(y, u) > 0)
    <2>1. c = b3
        BY <1>15, <1>18 DEF Sort!SwapIf
    <2>2. At(c, s + 1) = y /\ At(c, s) = u /\ At(c, l - 1) = v
        BY <1>13, <2>1
    <2> HIDE DEF c, b1, b2, b3, x, y, z, u, v
    <2>3. Sort!Compare(v, u) >= 0
        <3>1. Sort!Compare(x, z) \in {-1, 0, 1} /\ (Sort!Compare(x, z) <= 0 => Sort!Compare(z, x) >= 0)
            BY <1>14, CompareType, CompareTurned
        <3> QED
            BY <1>13, <3>1
    <2>4. Ordering => Sort!Before(y, u)
        <3>1. Sort!Compare(y, u) \in {-1, 0, 1}
            BY <1>14, CompareType
        <3> QED
            BY <1>14, <1>18, <3>1, CompareMeans
    <2> QED
        BY <1>10, <1>16, <2>2, <2>3, <2>4 DEF Sort!Median, c, b1, b2, b3
<1> QED
    BY <1>17, <1>18

-----------------------------------------------------------------------------
(* Scans *)

LEMMA LeastIs ==
    ASSUME NEW S \in SUBSET Nat, S # {}
    PROVE  LET k == CHOOSE k \in S : \A m \in S : k <= m
           IN  k \in S /\ \A m \in S : k <= m
<1> DEFINE T == {0..k : k \in S}
<1>1. T \subseteq FiniteSubsetsOf(Nat) /\ T # {}
    <2>1. ASSUME NEW k \in S PROVE 0..k \in SUBSET Nat /\ IsFiniteSet(0..k)
        BY FS_Interval
    <2> QED
        BY <2>1 DEF FiniteSubsetsOf
<1>2. PICK u \in T : \A v \in T : ~(<<v, u>> \in StrictSubsetOrdering(Nat))
    BY <1>1, FS_StrictSubsetOrderingWellFounded, WFMin
<1>3. PICK k \in S : u = 0..k
    BY <1>2
<1>4. ASSUME NEW m \in S, m < k PROVE FALSE
    <2>1. 0..m \in SUBSET Nat /\ 0..k \in SUBSET Nat /\ 0..m \subseteq 0..k /\ 0..m # 0..k
        <3>1. k \in 0..k /\ k \notin 0..m
            BY <1>4
        <3> QED
            BY <1>4, <3>1
    <2>2. <<0..m, 0..k>> \in StrictSubsetOrdering(Nat)
        BY <2>1 DEF StrictSubsetOrdering
    <2> QED
        BY <1>2, <1>3, <2>2
<1>5. \A m \in S : k <= m
    BY <1>4
<1> QED
    BY <1>5

LEMMA GreatestIs ==
    ASSUME NEW h \in Nat, NEW S \in SUBSET (0..h), S # {}
    PROVE  LET k == CHOOSE k \in S : \A m \in S : m <= k
           IN  k \in S /\ \A m \in S : m <= k
<1> DEFINE T == {h - m : m \in S}
<1>1. T \in SUBSET Nat /\ T # {}
    <2>1. \A m \in S : h - m \in Nat
        OBVIOUS
    <2> QED
        BY <2>1
<1>2. PICK n \in T : \A m \in T : n <= m
    <2> HIDE DEF T
    <2> QED
        BY <1>1, LeastIs
<1>3. PICK k \in S : n = h - k
    BY <1>2
<1>4. \A m \in S : m <= k
    BY <1>2, <1>3
<1> QED
    BY <1>4

-----------------------------------------------------------------------------
(* The invariant holds at first *)

SortRules == Sort!QSortAssumption /\ FilesAreFiles
PlaceInv == SortRules /\ ArrayInv /\ RangesInv /\ ScanInv

LEMMA LenType ==
    ASSUME FilesAreFiles, dir \in SortOf.Directories
    PROVE  Len(dir) \in Nat
BY DEF FilesAreFiles

LEMMA InitPlace ==
    ASSUME SortRules, Sort!Init
    PROVE  PlaceInv
<1>1. Len(dir) \in Nat
    BY LenType DEF SortRules, Sort!Init
<1>2. a \in [Dom -> Dom] /\ IsInjective(a)
    BY DEF Sort!Init, Dom, IsInjective
<1>3. ArrayInv
    BY <1>2 DEF ArrayInv, Sort!Init
<1>4. RangesInv
    BY <1>1 DEF RangesInv, Sort!Init
<1>5. ScanInv
    BY DEF ScanInv, Sort!Init
<1> QED
    BY <1>3, <1>4, <1>5 DEF PlaceInv

LEMMA InitSort ==
    ASSUME SortRules, Sort!Init
    PROVE  SortInv
<1>1. Len(dir) \in Nat
    BY LenType DEF SortRules, Sort!Init
<1>2. Arranged(a, base, limit, stack)
    BY <1>1 DEF Arranged, OutOfPlace, Dom, Sort!Init
<1> QED
    BY <1>2 DEF SortInv, PartsInv, InsertInv, Sort!Sorted, Sort!Init

-----------------------------------------------------------------------------
(* The ranges and the scans, in any order *)

LEMMA PartitionPlace ==
    ASSUME PlaceInv, Sort!Partition
    PROVE  PlaceInv'
<1>1. /\ SortOf.Threshold \in Nat /\ SortOf.Threshold >= 3 /\ Len(dir) \in Nat /\ FilesAreFiles
      /\ base \in Nat /\ limit \in 0..Len(dir) /\ limit - base > 3 /\ limit - base > SortOf.Threshold
    BY LenType DEF PlaceInv, SortRules, Sort!QSortAssumption, ArrayInv, RangesInv, Sort!Partition
<1>2. /\ a' \in [Dom -> Dom] /\ IsInjective(a') /\ Sort!Cmp(a', limit - 1, base) >= 0
    BY <1>1, MedianFacts DEF PlaceInv, Sort!Partition
<1>3. ArrayInv'
    BY <1>2 DEF PlaceInv, ArrayInv, Sort!Partition, Dom
<1>4. RangesInv'
    BY <1>1 DEF PlaceInv, RangesInv, Sort!Partition, Apart
<1>5. ScanInv'
    <2>1. Sort!Cmp(a, limit - 1, base)' >= 0
        BY <1>2 DEF Sort!Partition, Sort!Cmp, Sort!Compare
    <2>2. \A k \in j'..(limit' - 1) : k = limit' - 1
        BY <1>1 DEF Sort!Partition
    <2> QED
        BY <1>1, <2>1, <2>2 DEF Sort!Partition, ScanInv
<1> QED
    BY <1>3, <1>4, <1>5 DEF PlaceInv, SortRules

LEMMA UpPlace ==
    ASSUME PlaceInv, Sort!Up
    PROVE  PlaceInv' /\ at' = "down"
<1> DEFINE stops == {k \in (i + 1)..(limit - 1) : Sort!Cmp(a, k, base) >= 0}
<1>1. /\ Len(dir) \in Nat /\ base \in Nat /\ limit \in 0..Len(dir) /\ i \in Nat /\ j \in Nat
      /\ base < i /\ i <= j /\ j < limit /\ i < limit - 1 /\ at = "up" /\ limit - base > SortOf.Threshold
    BY LenType DEF PlaceInv, SortRules, ArrayInv, RangesInv, ScanInv, Sort!Up
<1>2. stops \in SUBSET Nat /\ stops # {} /\ \E k \in stops : k <= j + 1
    <2>1. CASE i < j
        <3>1. j \in stops
            BY <1>1, <2>1 DEF PlaceInv, ScanInv
        <3> QED
            BY <1>1, <3>1
    <2>2. CASE i = j
        <3>1. j + 1 \in stops
            BY <1>1, <2>2 DEF PlaceInv, ScanInv
        <3> QED
            BY <1>1, <3>1
    <2> QED
        BY <1>1, <2>1, <2>2
<1>3. at' = "down" /\ i' = CHOOSE k \in stops : \A m \in stops : k <= m
    BY <1>2 DEF Sort!Up
<1>4. i' \in stops /\ \A m \in stops : i' <= m
    <2> HIDE DEF stops
    <2> QED
        BY <1>2, <1>3, LeastIs
<1>5. i' \in (i + 1)..(limit - 1) /\ i' <= j + 1 /\ Sort!Cmp(a, i', base) >= 0
    BY <1>1, <1>2, <1>4
<1>6. ArrayInv'
    BY DEF PlaceInv, ArrayInv, Sort!Up, Dom
<1>7. RangesInv'
    BY <1>3, <1>5 DEF PlaceInv, RangesInv, Sort!Up, Apart
<1>8. ScanInv'
    <2>1. Sort!Cmp(a, i, base)' >= 0
        BY <1>5 DEF Sort!Up, Sort!Cmp, Sort!Compare
    <2>2. \A k \in (j..(limit - 1))' : Sort!Cmp(a', k, base') >= 0
        BY <1>1 DEF PlaceInv, ScanInv, Sort!Up
    <2>3. (\A k \in j..(limit - 1) : Sort!Cmp(a, k, base) >= 0)'
        BY <2>2, SMTT(20) DEF Sort!Up, Sort!Cmp, Sort!Compare
    <2>4. UNCHANGED <<base, limit, j>> /\ i' \in Int /\ base < i' /\ i' <= limit - 1
        BY <1>1, <1>5 DEF Sort!Up
    <2> QED
        BY <1>1, <1>3, <1>5, <2>1, <2>3, <2>4 DEF ScanInv
<1> QED
    BY <1>3, <1>6, <1>7, <1>8 DEF PlaceInv, SortRules

LEMMA DownPlace ==
    ASSUME PlaceInv, Sort!Down
    PROVE  /\ PlaceInv' /\ at' \in {"up", "split"}
           /\ j' \in base..(j - 1) /\ Sort!Cmp(a, j', base) <= 0
           /\ \A m \in (j' + 1)..(j - 1) : ~(Sort!Cmp(a, m, base) <= 0)
           /\ IF i > j' THEN at' = "split" /\ a' = a ELSE at' = "up" /\ a' = Sort!Swap(a, i, j')
<1> DEFINE stops == {k \in base..(j - 1) : Sort!Cmp(a, k, base) <= 0}
           k == CHOOSE k \in stops : \A m \in stops : m <= k
<1>1. /\ Len(dir) \in Nat /\ base \in Nat /\ limit \in 0..Len(dir) /\ i \in Nat /\ j \in Nat
      /\ base < i /\ i <= j + 1 /\ base < j /\ j < limit /\ i < limit /\ at = "down"
      /\ a \in [Dom -> Dom] /\ IsInjective(a) /\ limit - base > SortOf.Threshold
      /\ Sort!Cmp(a, i, base) >= 0 /\ \A m \in j..(limit - 1) : Sort!Cmp(a, m, base) >= 0
    <2>1. at = "down" /\ Len(dir) \in Nat /\ a \in [Dom -> Dom] /\ IsInjective(a)
        BY LenType DEF PlaceInv, SortRules, ArrayInv, Sort!Down
    <2>2. base \in 0..Len(dir) /\ limit \in 0..Len(dir) /\ i \in Int /\ j \in Int
        BY DEF PlaceInv, RangesInv
    <2>3. /\ base < i /\ i <= j + 1 /\ base < j /\ j < limit /\ i < limit /\ limit - base > SortOf.Threshold
          /\ Sort!Cmp(a, i, base) >= 0 /\ \A m \in j..(limit - 1) : Sort!Cmp(a, m, base) >= 0
        BY <2>1 DEF PlaceInv, ScanInv
    <2> QED
        BY <2>1, <2>2, <2>3
<1>2. \A m \in base..(limit - 1) : m \in Dom /\ At(a, m) \in Sort!FileRec
    BY <1>1, AtType DEF Dom, PlaceInv, SortRules, ArrayInv
<1>3. base \in stops
    <2>1. Sort!Cmp(a, base, base) = 0
        BY <1>1, <1>2, CompareTurned DEF Sort!Cmp, At
    <2> QED
        BY <1>1, <2>1
<1>4. k \in stops /\ \A m \in stops : m <= k
    <2>1. stops \in SUBSET (0..j)
        BY <1>1
    <2> HIDE DEF stops
    <2> QED
        BY <1>1, <1>3, <2>1, GreatestIs
<1>5. k \in base..(j - 1) /\ Sort!Cmp(a, k, base) <= 0
    BY <1>4
<1>6. \A m \in (k + 1)..(j - 1) : ~(Sort!Cmp(a, m, base) <= 0)
    BY <1>1, <1>4, <1>5
<1>7. j' = k /\ IF i > k THEN at' = "split" /\ a' = a ELSE at' = "up" /\ a' = Sort!Swap(a, i, k)
    BY <1>3 DEF Sort!Down
<1> HIDE DEF k, stops
<1>8. mode' = mode /\ dir' = dir /\ base' = base /\ limit' = limit /\ i' = i /\ stack' = stack
    BY DEF Sort!Down
<1>9. CASE i > k
    <2>1. ArrayInv'
        BY <1>7, <1>8, <1>9 DEF PlaceInv, ArrayInv, Dom
    <2>2. RangesInv'
        BY <1>5, <1>7, <1>8, <1>9 DEF PlaceInv, RangesInv, Apart
    <2>3. ScanInv'
        BY <1>1, <1>5, <1>7, <1>8, <1>9 DEF PlaceInv, ScanInv
    <2> QED
        BY <1>5, <1>6, <1>7, <1>8, <1>9, <2>1, <2>2, <2>3 DEF PlaceInv, SortRules
<1>10. CASE ~(i > k)
    <2>1. a' = Sort!Swap(a, i, k) /\ at' = "up" /\ i \in Dom /\ k \in Dom /\ k < limit /\ i <= k /\ base \in Dom /\ base # i /\ base # k
        BY <1>1, <1>2, <1>5, <1>7, <1>10
    <2>2. ArrayInv'
        BY <1>1, <1>8, <2>1, SwapIs, SwapInjective DEF PlaceInv, ArrayInv, Dom
    <2>3. RangesInv'
        BY <1>5, <1>7, <1>8, <2>1 DEF PlaceInv, RangesInv, Apart
    <2>4. ASSUME NEW m \in k..(limit - 1) PROVE Sort!Cmp(a', m, base) >= 0
        <3>1. At(a', base) = At(a, base)
            BY <1>1, <2>1, SwapAt
        <3>2. Sort!Cmp(a', m, base) = Sort!Compare(At(a', m), At(a, base))
            BY <3>1 DEF Sort!Cmp, At
        <3>3. CASE m = k
            <4>1. At(a', m) = At(a, i)
                BY <1>1, <2>1, <3>3, SwapAt
            <4> QED
                BY <1>1, <3>2, <4>1 DEF Sort!Cmp, At
        <3>4. CASE m # k /\ m \in (k + 1)..(j - 1)
            <4>1. m # i /\ m \in Dom /\ m \in base..(limit - 1) /\ base \in base..(limit - 1)
                BY <1>1, <1>2, <1>5, <2>1, <3>4
            <4>2. At(a', m) = At(a, m)
                BY <1>1, <2>1, <3>4, <4>1, SwapAt
            <4>3. Sort!Compare(At(a, m), At(a, base)) \in {-1, 0, 1}
                BY <1>2, <4>1, CompareType
            <4>4. ~(Sort!Compare(At(a, m), At(a, base)) <= 0)
                BY <1>6, <3>4 DEF Sort!Cmp, At
            <4> QED
                BY <3>2, <4>2, <4>3, <4>4
        <3>5. CASE m # k /\ m \in j..(limit - 1)
            <4>1. m # i /\ m \in Dom
                BY <1>1, <1>2, <1>5, <2>1, <3>5
            <4>2. At(a', m) = At(a, m)
                BY <1>1, <2>1, <3>5, <4>1, SwapAt
            <4> QED
                BY <1>1, <3>2, <3>5, <4>2 DEF Sort!Cmp, At
        <3> QED
            BY <1>1, <1>5, <3>3, <3>4, <3>5
    <2>5. (\A m \in j..(limit - 1) : Sort!Cmp(a, m, base) >= 0)'
        BY <1>7, <1>8, <2>4 DEF Sort!Cmp, Sort!Compare
    <2>6. ScanInv'
        BY <1>1, <1>5, <1>7, <1>8, <2>1, <2>5 DEF ScanInv
    <2> QED
        BY <1>5, <1>6, <1>7, <1>8, <1>10, <2>1, <2>2, <2>3, <2>6 DEF PlaceInv, SortRules
<1> QED
    BY <1>9, <1>10

LEMMA SplitPlace ==
    ASSUME PlaceInv, Sort!Split
    PROVE  /\ PlaceInv' /\ base \in Dom /\ j \in Dom /\ stack' \in Seq((0..Len(dir)) \X (0..Len(dir)))
           /\ Len(stack') = Len(stack) + 1 /\ \A q \in 1..Len(stack) : stack'[q] = stack[q]
           /\ \/ stack'[Len(stack) + 1] = <<base, j>> /\ base' = i /\ limit' = limit /\ limit - i < j - base
              \/ stack'[Len(stack) + 1] = <<i, limit>> /\ base' = base /\ limit' = j /\ j - base <= limit - i
<1>1. at = "split" /\ Len(dir) \in Nat /\ a \in [Dom -> Dom] /\ IsInjective(a)
    BY LenType DEF PlaceInv, SortRules, ArrayInv, Sort!Split
<1>2. /\ base \in 0..Len(dir) /\ limit \in 0..Len(dir) /\ i \in Int /\ j \in Int
      /\ stack \in Seq((0..Len(dir)) \X (0..Len(dir))) /\ Len(stack) \in Nat /\ DOMAIN stack = 1..Len(stack)
    BY DEF PlaceInv, RangesInv
<1>3. base <= j /\ j < i /\ i < limit /\ base \in Dom /\ j \in Dom /\ i \in 0..Len(dir) /\ j \in 0..Len(dir)
    <2>1. base <= j /\ j < i /\ i < limit
        BY <1>1 DEF PlaceInv, ScanInv
    <2> QED
        BY <1>1, <1>2, <2>1 DEF Dom
<1>4. a' = Sort!Swap(a, base, j) /\ at' = "range" /\ mode' = mode /\ dir' = dir /\ i' = i /\ j' = j
    BY DEF Sort!Split
<1>5. ArrayInv'
    BY <1>1, <1>3, <1>4, SwapIs, SwapInjective DEF PlaceInv, ArrayInv, Dom
<1>6. ScanInv'
    BY <1>4 DEF ScanInv
<1>7. \A q \in 1..Len(stack) :
        /\ stack[q] \in (0..Len(dir)) \X (0..Len(dir)) /\ stack[q][1] \in Nat /\ stack[q][2] \in Nat
        /\ stack[q][1] <= stack[q][2] /\ (limit <= stack[q][1] \/ stack[q][2] <= base)
    BY <1>2 DEF PlaceInv, RangesInv, Apart
<1>8. \A p, q \in 1..Len(stack) : p < q => Apart(stack[p], stack[q])
    BY <1>2 DEF PlaceInv, RangesInv
<1>9. ASSUME NEW l \in 0..Len(dir), NEW h \in 0..Len(dir), NEW m \in 0..Len(dir), NEW n \in 0..Len(dir),
             stack' = Append(stack, <<m, n>>), base' = l, limit' = h,
             base <= l, l <= h, h <= limit, base <= m, m <= n, n <= limit, h <= m \/ n <= l
      PROVE  /\ RangesInv' /\ stack' \in Seq((0..Len(dir)) \X (0..Len(dir)))
             /\ Len(stack') = Len(stack) + 1 /\ \A q \in 1..Len(stack) : stack'[q] = stack[q]
             /\ stack'[Len(stack) + 1] = <<m, n>>
    <2>1. /\ stack' \in Seq((0..Len(dir)) \X (0..Len(dir))) /\ DOMAIN stack' = 1..(Len(stack) + 1)
          /\ Len(stack') = Len(stack) + 1
          /\ \A q \in 1..Len(stack) : stack'[q] = stack[q]
          /\ stack'[Len(stack) + 1] = <<m, n>>
        BY <1>2, <1>9
    <2>2. ASSUME NEW q \in DOMAIN stack' PROVE stack'[q][1] <= stack'[q][2] /\ Apart(<<l, h>>, stack'[q])
        <3>1. CASE q = Len(stack) + 1
            BY <1>9, <2>1, <3>1 DEF Apart
        <3>2. CASE q \in 1..Len(stack)
            BY <1>2, <1>7, <1>9, <2>1, <3>2, SMTT(20) DEF Apart
        <3> QED
            BY <1>2, <2>1, <3>1, <3>2
    <2>3. ASSUME NEW p \in DOMAIN stack', NEW q \in DOMAIN stack', p < q PROVE Apart(stack'[p], stack'[q])
        <3>1. CASE q = Len(stack) + 1
            <4>1. p \in 1..Len(stack)
                BY <1>2, <2>1, <2>3, <3>1
            <4> QED
                BY <1>2, <1>7, <1>9, <2>1, <3>1, <4>1 DEF Apart
        <3>2. CASE q \in 1..Len(stack)
            <4>1. p \in 1..Len(stack)
                BY <1>2, <2>1, <2>3, <3>2
            <4> QED
                BY <1>8, <2>1, <2>3, <3>2, <4>1
        <3> QED
            BY <1>2, <2>1, <3>1, <3>2
    <2>4. \A q \in DOMAIN stack' : Apart(<<base', limit'>>, stack'[q])
        BY <1>9, <2>2
    <2> QED
        BY <1>2, <1>3, <1>4, <1>9, <2>1, <2>2, <2>3, <2>4 DEF RangesInv, Apart
<1>10. CASE j - base > limit - i
    <2>1. stack' = Append(stack, <<base, j>>) /\ base' = i /\ limit' = limit
        BY <1>10 DEF Sort!Split
    <2>2. /\ RangesInv' /\ stack' \in Seq((0..Len(dir)) \X (0..Len(dir)))
          /\ Len(stack') = Len(stack) + 1 /\ \A q \in 1..Len(stack) : stack'[q] = stack[q]
          /\ stack'[Len(stack) + 1] = <<base, j>>
        BY <1>2, <1>3, <1>9, <2>1
    <2> QED
        BY <1>2, <1>3, <1>4, <1>5, <1>6, <1>10, <2>1, <2>2 DEF PlaceInv, SortRules
<1>11. CASE ~(j - base > limit - i)
    <2>1. stack' = Append(stack, <<i, limit>>) /\ base' = base /\ limit' = j
        BY <1>11 DEF Sort!Split
    <2>2. /\ RangesInv' /\ stack' \in Seq((0..Len(dir)) \X (0..Len(dir)))
          /\ Len(stack') = Len(stack) + 1 /\ \A q \in 1..Len(stack) : stack'[q] = stack[q]
          /\ stack'[Len(stack) + 1] = <<i, limit>>
        BY <1>2, <1>3, <1>9, <2>1, SMTT(20)
    <2> QED
        BY <1>2, <1>3, <1>4, <1>5, <1>6, <1>11, <2>1, <2>2 DEF PlaceInv, SortRules
<1> QED
    BY <1>10, <1>11

LEMMA InsertionPlace ==
    ASSUME PlaceInv, Sort!Insertion \/ Sort!Finish \/ UNCHANGED Sort!vars
    PROVE  PlaceInv'
<1>1. UNCHANGED <<mode, dir, a, base, limit, stack>> /\ base \in Int /\ limit \in Int /\ i \in Int /\ j \in Int
    BY DEF PlaceInv, RangesInv, Sort!Insertion, Sort!Finish, Sort!vars
<1>2. ArrayInv'
    BY <1>1 DEF PlaceInv, ArrayInv, Dom
<1>3. RangesInv' /\ ScanInv'
    <2>1. CASE Sort!Insertion
        <3>1. at' = "insert" /\ i' = base + 1 /\ j' = base
            BY <2>1 DEF Sort!Insertion
        <3>2. ScanInv'
            BY <1>1, <3>1 DEF ScanInv
        <3> QED
            BY <1>1, <3>1, <3>2 DEF PlaceInv, RangesInv, Apart
    <2>2. CASE Sort!Finish
        <3>1. at' = "done" /\ i' = i /\ j' = j
            BY <2>2 DEF Sort!Finish
        <3>2. ScanInv'
            BY <1>1, <3>1 DEF ScanInv
        <3> QED
            BY <1>1, <3>1, <3>2 DEF PlaceInv, RangesInv, Apart
    <2>3. CASE UNCHANGED Sort!vars
        <3>1. at' = at /\ i' = i /\ j' = j
            BY <2>3 DEF Sort!vars
        <3>2. ScanInv'
            BY <1>1, <3>1 DEF PlaceInv, ScanInv, Sort!Cmp, Sort!Compare
        <3> QED
            BY <1>1, <3>1, <3>2 DEF PlaceInv, RangesInv, Apart
    <2> QED
        BY <2>1, <2>2, <2>3
<1> QED
    BY <1>1, <1>2, <1>3 DEF PlaceInv, SortRules

LEMMA InsertPlace ==
    ASSUME PlaceInv, Sort!Insert
    PROVE  /\ PlaceInv' /\ j \in Dom /\ j + 1 \in Dom /\ i \in Nat
           /\ base <= j /\ j < i /\ i < limit
<1>1. /\ Len(dir) \in Nat /\ a \in [Dom -> Dom] /\ IsInjective(a) /\ base \in Nat /\ limit \in 0..Len(dir)
      /\ i \in Int /\ j \in Int
    BY LenType DEF PlaceInv, SortRules, ArrayInv, RangesInv
<1>2. at = "insert" /\ at' = "insert" /\ i < limit /\ UNCHANGED <<mode, dir, base, limit, stack>>
    BY DEF Sort!Insert
<1>3. base <= j /\ j < i /\ j \in Dom /\ j + 1 \in Dom /\ i \in Nat
    BY <1>1, <1>2 DEF PlaceInv, ScanInv, Dom
<1>4. /\ a' = a \/ a' = Sort!Swap(a, j, j + 1)
      /\ \/ j' = i /\ i' = i + 1
         \/ j # base /\ j' = j - 1 /\ i' = i
    BY DEF Sort!Insert
<1>5. ArrayInv'
    BY <1>1, <1>2, <1>3, <1>4, SwapIs, SwapInjective DEF PlaceInv, ArrayInv, Dom
<1>6. RangesInv'
    BY <1>1, <1>2, <1>4 DEF PlaceInv, RangesInv, Apart
<1>7. ScanInv'
    BY <1>1, <1>2, <1>3, <1>4 DEF ScanInv
<1> QED
    BY <1>2, <1>3, <1>5, <1>6, <1>7 DEF PlaceInv, SortRules

LEMMA PopPlace ==
    ASSUME PlaceInv, Sort!Pop
    PROVE  /\ PlaceInv' /\ Len(stack) \in Nat \ {0} /\ Len(stack') = Len(stack) - 1
           /\ \A q \in 1..(Len(stack) - 1) : stack'[q] = stack[q]
           /\ \A q \in 1..Len(stack) : stack[q] \in (0..Len(dir)) \X (0..Len(dir))
<1>1. /\ Len(dir) \in Nat /\ stack \in Seq((0..Len(dir)) \X (0..Len(dir)))
      /\ i \in Int /\ j \in Int
    BY LenType DEF PlaceInv, SortRules, ArrayInv, RangesInv
<1> DEFINE n == Len(stack)
<1>2. n \in Nat \ {0} /\ DOMAIN stack = 1..n /\ \A q \in 1..n : stack[q] \in (0..Len(dir)) \X (0..Len(dir))
    BY <1>1 DEF Sort!Pop
<1>3. /\ base' = stack[n][1] /\ limit' = stack[n][2] /\ stack' = SubSeq(stack, 1, n - 1) /\ at' = "range"
      /\ UNCHANGED <<mode, dir, a, i, j>>
    BY DEF Sort!Pop
<1>4. /\ stack' \in Seq((0..Len(dir)) \X (0..Len(dir))) /\ Len(stack') = n - 1 /\ DOMAIN stack' = 1..(n - 1)
      /\ \A q \in 1..(n - 1) : stack'[q] = stack[q]
    BY <1>1, <1>2, <1>3
<1>5. n \in 1..n /\ \A q \in 1..(n - 1) : q \in 1..n /\ q < n
    BY <1>2
<1>6. /\ \A q \in 1..n : stack[q][1] <= stack[q][2] /\ Apart(<<base, limit>>, stack[q])
      /\ \A p, q \in 1..n : p < q => Apart(stack[p], stack[q])
    BY <1>2 DEF PlaceInv, RangesInv
<1>7. ArrayInv'
    BY <1>3 DEF PlaceInv, ArrayInv, Dom
<1>8. RangesInv'
    <2>1. base' \in 0..Len(dir) /\ limit' \in 0..Len(dir) /\ base' <= limit'
        BY <1>2, <1>3, <1>5, <1>6
    <2>2. \A q \in 1..(n - 1) : stack'[q][1] <= stack'[q][2] /\ Apart(<<base', limit'>>, stack'[q])
        <3>1. ASSUME NEW q \in 1..(n - 1) PROVE stack'[q][1] <= stack'[q][2] /\ Apart(stack[q], stack[n])
            BY <1>4, <1>5, <1>6
        <3> QED
            BY <1>3, <1>4, <3>1 DEF Apart
    <2>3. \A p, q \in 1..(n - 1) : p < q => Apart(stack'[p], stack'[q])
        BY <1>4, <1>5, <1>6
    <2> QED
        BY <1>1, <1>3, <1>4, <2>1, <2>2, <2>3 DEF RangesInv, Apart
<1>9. ScanInv'
    BY <1>3 DEF ScanInv
<1> QED
    BY <1>2, <1>3, <1>4, <1>7, <1>8, <1>9 DEF PlaceInv, SortRules

LEMMA PlaceStep ==
    ASSUME PlaceInv, [Sort!Next]_(Sort!vars)
    PROVE  PlaceInv'
BY PartitionPlace, UpPlace, DownPlace, SplitPlace, InsertionPlace, InsertPlace, PopPlace DEF Sort!Next

LEMMA AlwaysPlace == SortRules /\ Sort!Spec => []PlaceInv
<1>1. SortRules /\ Sort!Init => PlaceInv
    BY InitPlace
<1>2. PlaceInv /\ [Sort!Next]_(Sort!vars) => PlaceInv'
    BY PlaceStep
<1> QED
    BY <1>1, <1>2, PTL DEF Sort!Spec

(* No comparator, not even one that is no order, lets a scan leave its     *)
(* range: the median leaves a stop for each of them (qsort.c: the two while *)
(* loops check no bound).                                                   *)
THEOREM ScansStayInRange == SortRules /\ Sort!Spec => []Sort!StaysInRange
<1>1. PlaceInv => Sort!StaysInRange
    BY DEF PlaceInv, RangesInv, Sort!StaysInRange
<1> QED
    BY <1>1, AlwaysPlace, PTL

(* The indices stay a permutation of the directory's positions.             *)
THEOREM SortTypes == SortRules /\ Sort!Spec => []Sort!TypeOK
<1>1. mode \in SortOf.Modes /\ [Sort!Next]_(Sort!vars) => (mode \in SortOf.Modes)'
    BY DEF Sort!Next, Sort!Partition, Sort!Up, Sort!Down, Sort!Split, Sort!Insertion, Sort!Insert, Sort!Pop, Sort!Finish, Sort!vars
<1>2. Sort!Init => mode \in SortOf.Modes
    BY DEF Sort!Init
<1>3. PlaceInv /\ mode \in SortOf.Modes => Sort!TypeOK
    <2>1. IsInjective(a) => Sort!IsInjective(a)
        BY Zenon DEF IsInjective, Sort!IsInjective
    <2> QED
        BY <2>1 DEF PlaceInv, ArrayInv, RangesInv, Sort!TypeOK, Dom
<1> QED
    BY <1>1, <1>2, <1>3, AlwaysPlace, PTL DEF Sort!Spec

-----------------------------------------------------------------------------
(* The order *)

LEMMA Between ==
    ASSUME NEW m \in Int, NEW k \in Int, NEW n \in Int
    PROVE  k \in (m + 1)..(n - 1) <=> m < k /\ k < n
OBVIOUS

FullInv == PlaceInv /\ Ordering /\ SortInv

LEMMA InOrderKept ==
    ASSUME mode' = mode, dir' = dir, Arranged(a', base', limit', stack')
    PROVE  Arranged(a, base, limit, stack)'
BY DEF Arranged, OutOfPlace, Sort!Before, At, Dom

LEMMA OrderingKept ==
    ASSUME Ordering, [Sort!Next]_(Sort!vars)
    PROVE  Ordering' /\ mode' = mode /\ dir' = dir
BY DEF Ordering, Sort!Next, Sort!Partition, Sort!Up, Sort!Down, Sort!Split, Sort!Insertion, Sort!Insert, Sort!Pop, Sort!Finish, Sort!vars

(* The facts that every step starts from.                                   *)
LEMMA FullFacts ==
    ASSUME FullInv
    PROVE  /\ Len(dir) \in Nat /\ a \in [Dom -> Dom] /\ base \in Nat /\ limit \in 0..Len(dir) /\ base <= limit
           /\ stack \in Seq((0..Len(dir)) \X (0..Len(dir)))
           /\ \A q \in DOMAIN stack : Apart(<<base, limit>>, stack[q])
           /\ \A k \in Dom : At(a, k) \in Sort!FileRec
           /\ \A k \in base..(limit - 1) : k \in Dom
<1>1. Len(dir) \in Nat /\ a \in [Dom -> Dom] /\ base \in Nat /\ limit \in 0..Len(dir) /\ base <= limit
    BY LenType DEF FullInv, PlaceInv, SortRules, ArrayInv, RangesInv
<1>2. \A k \in Dom : At(a, k) \in Sort!FileRec
    BY <1>1, AtType DEF FullInv, PlaceInv, SortRules, ArrayInv
<1>3. \A k \in base..(limit - 1) : k \in Dom
    BY <1>1 DEF Dom
<1>4. /\ stack \in Seq((0..Len(dir)) \X (0..Len(dir)))
      /\ \A q \in DOMAIN stack : Apart(<<base, limit>>, stack[q])
    BY DEF FullInv, PlaceInv, RangesInv
<1> QED
    BY <1>1, <1>2, <1>3, <1>4

LEMMA PartitionSort ==
    ASSUME FullInv, Sort!Partition
    PROVE  SortInv'
<1>1. /\ Len(dir) \in Nat /\ a \in [Dom -> Dom] /\ base \in Nat /\ limit \in 0..Len(dir) /\ base <= limit
      /\ stack \in Seq((0..Len(dir)) \X (0..Len(dir)))
      /\ \A q \in DOMAIN stack : Apart(<<base, limit>>, stack[q])
    BY FullFacts
<1>2. limit - base > 3
    BY <1>1 DEF FullInv, PlaceInv, SortRules, Sort!QSortAssumption, Sort!Partition
<1>3. /\ a' \in [Dom -> Dom] /\ Inside(a, a', base, limit) /\ Sort!Before(At(a', base + 1), At(a', base))
    BY <1>1, <1>2, MedianFacts DEF FullInv, PlaceInv, SortRules, Sort!Partition
<1>4. Arranged(a', base, limit, stack)
    BY <1>1, <1>3, InsideInOrder DEF FullInv, SortInv
<1>5. Arranged(a, base, limit, stack)'
    BY <1>4, InOrderKept DEF Sort!Partition
<1>6. PartsInv'
    <2>1. Sort!Before(At(a, base + 1), At(a, base))'
        BY <1>3 DEF Sort!Partition, Sort!Before, At
    <2>2. \A k \in ((base + 1)..i)' : k = base' + 1
        BY <1>1 DEF Sort!Partition
    <2>3. (\A k \in (base + 1)..i : Sort!Before(At(a, k), At(a, base)))'
        BY <2>1, <2>2
    <2> QED
        BY <2>3 DEF PartsInv, Sort!Partition
<1> QED
    BY <1>5, <1>6 DEF Sort!Partition, SortInv, InsertInv, Sort!Sorted

LEMMA UpSort ==
    ASSUME FullInv, Sort!Up
    PROVE  SortInv'
<1> DEFINE stops == {k \in (i + 1)..(limit - 1) : Sort!Cmp(a, k, base) >= 0}
<1>1. /\ Len(dir) \in Nat /\ a \in [Dom -> Dom] /\ base \in Nat /\ limit \in 0..Len(dir) /\ base <= limit
      /\ \A k \in Dom : At(a, k) \in Sort!FileRec
      /\ \A k \in base..(limit - 1) : k \in Dom
    BY FullFacts
<1>2. at = "up" /\ at' = "down"
    BY UpPlace DEF FullInv, Sort!Up
<1>3. base < i /\ i < limit /\ i \in Int
    BY <1>2 DEF FullInv, PlaceInv, ScanInv, RangesInv
<1>4. UNCHANGED <<mode, dir, a, base, limit, stack>> /\ i' = CHOOSE k \in stops : \A m \in stops : k <= m
    BY <1>2 DEF Sort!Up
<1>5. stops # {}
    BY <1>2 DEF Sort!Up
<1>6. i' \in stops /\ \A m \in stops : i' <= m
    <2>1. stops \in SUBSET Nat
        BY <1>1, <1>3
    <2> HIDE DEF stops
    <2> QED
        BY <1>4, <1>5, <2>1, LeastIs
<1>10. i' \in Int /\ i' <= limit - 1
    BY <1>1, <1>3, <1>6
<1>7. ASSUME NEW k \in Int, base < k, k < i' PROVE Sort!Before(At(a, k), At(a, base))
    <2>1. CASE k <= i
        BY <1>1, <1>2, <1>3, <1>6, <1>7, <2>1 DEF FullInv, SortInv, PartsInv
    <2>2. CASE k > i
        <3>7. k <= limit - 1
            BY <1>1, <1>7, <1>10
        <3>1. k \in (i + 1)..(limit - 1) /\ k \notin stops
            <4>1. k \notin stops
                BY <1>6, <1>7, <1>10
            <4> QED
                BY <1>1, <1>3, <2>2, <3>7, <4>1
        <3>5. k \in Dom /\ base \in Dom
            <4>1. k \in base..(limit - 1) /\ base \in base..(limit - 1)
                BY <1>1, <1>3, <3>1
            <4> QED
                BY <1>1, <4>1
        <3>2. Sort!Compare(At(a, k), At(a, base)) \in {-1, 0, 1}
            BY <1>1, <3>5, CompareType
        <3>3. ~(Sort!Compare(At(a, k), At(a, base)) >= 0)
            BY <3>1 DEF Sort!Cmp, At
        <3>4. Sort!Compare(At(a, k), At(a, base)) <= 0
            BY <3>2, <3>3
        <3> QED
            BY <1>1, <3>4, <3>5, CompareMeans DEF FullInv
    <2> QED
        BY <1>1, <1>3, <1>6, <1>7, <2>1, <2>2
<1>8. PartsInv'
    <2>1. (\A k \in (base + 1)..(i - 1) : Sort!Before(At(a, k), At(a, base)))'
        <3>1. \A k \in ((base + 1)..(i - 1))' : k \in Int /\ base < k /\ k < i'
            BY <1>1, <1>4, <1>10
        <3> QED
            BY <1>4, <1>7, <3>1 DEF Sort!Before, At
    <2> QED
        BY <1>2, <2>1 DEF PartsInv
<1>9. Arranged(a, base, limit, stack)'
    BY <1>4, InOrderKept DEF FullInv, SortInv
<1> QED
    BY <1>2, <1>8, <1>9 DEF SortInv, InsertInv, Sort!Sorted

LEMMA DownSort ==
    ASSUME FullInv, Sort!Down
    PROVE  SortInv'
<1>1. /\ Len(dir) \in Nat /\ a \in [Dom -> Dom] /\ base \in Nat /\ limit \in 0..Len(dir) /\ base <= limit
      /\ stack \in Seq((0..Len(dir)) \X (0..Len(dir)))
      /\ \A q \in DOMAIN stack : Apart(<<base, limit>>, stack[q])
      /\ \A k \in Dom : At(a, k) \in Sort!FileRec
      /\ \A k \in base..(limit - 1) : k \in Dom
    BY FullFacts
<1>2. at = "down" /\ UNCHANGED <<mode, dir, base, limit, stack, i>>
    BY DEF Sort!Down
<1>3. /\ base < i /\ i < limit /\ i \in Int /\ j \in Int /\ i <= j + 1 /\ base < j /\ j < limit
      /\ \A k \in j..(limit - 1) : Sort!Cmp(a, k, base) >= 0
    BY <1>2 DEF FullInv, PlaceInv, ScanInv, RangesInv
<1>4. /\ at' \in {"up", "split"}
      /\ j' \in base..(j - 1) /\ Sort!Cmp(a, j', base) <= 0
      /\ \A m \in (j' + 1)..(j - 1) : ~(Sort!Cmp(a, m, base) <= 0)
      /\ IF i > j' THEN at' = "split" /\ a' = a ELSE at' = "up" /\ a' = Sort!Swap(a, i, j')
    BY DownPlace DEF FullInv
<1>5. \A k \in (base + 1)..(i - 1) : Sort!Before(At(a, k), At(a, base))
    BY <1>2 DEF FullInv, SortInv, PartsInv
<1>6. Arranged(a, base, limit, stack)
    BY DEF FullInv, SortInv
<1>9. j' \in Int /\ base <= j' /\ j' < j
    BY <1>1, <1>3, <1>4
<1>7. CASE i > j'
    <2>1. ASSUME NEW k \in Int, j' < k, k < limit PROVE Sort!Before(At(a, base), At(a, k))
        <3>1. k \in Dom /\ base \in Dom
            <4>2. k \in base..(limit - 1) /\ base \in base..(limit - 1)
                BY <1>1, <1>9, <2>1
            <4> QED
                BY <1>1, <4>2
        <3>2. Sort!Compare(At(a, k), At(a, base)) \in {-1, 0, 1}
            BY <1>1, <3>1, CompareType
        <3>3. Sort!Compare(At(a, k), At(a, base)) >= 0
            <4>1. CASE k < j
                <5>1. k \in (j' + 1)..(j - 1)
                    BY <1>3, <1>9, <2>1, <4>1, Between
                <5>2. ~(Sort!Cmp(a, k, base) <= 0)
                    BY <1>4, <5>1
                <5> QED
                    BY <3>2, <5>2 DEF Sort!Cmp, At
            <4>2. CASE k >= j
                BY <1>1, <1>3, <2>1, <4>2 DEF Sort!Cmp, At
            <4> QED
                BY <1>3, <1>4, <2>1, <4>1, <4>2
        <3> QED
            BY <1>1, <3>1, <3>3, CompareMeans DEF FullInv
    <2>2. /\ (\A k \in (j + 1)..(limit - 1) : Sort!Before(At(a, base), At(a, k)))'
          /\ (\A k \in (base + 1)..(i - 1) : Sort!Before(At(a, k), At(a, base)))'
        <3>1. \A k \in ((j + 1)..(limit - 1))' : k \in Int /\ j' < k /\ k < limit
            <4> SUFFICES ASSUME NEW k \in (j' + 1)..(limit - 1)
                         PROVE  k \in Int /\ j' < k /\ k < limit
                BY <1>2
            <4>1. k \in Int /\ limit \in Int
                BY <1>1
            <4> QED
                BY <1>9, <4>1, Between
        <3>2. (\A k \in (j + 1)..(limit - 1) : Sort!Before(At(a, base), At(a, k)))'
            BY <1>2, <1>4, <1>7, <2>1, <3>1 DEF Sort!Before, At
        <3>3. (\A k \in (base + 1)..(i - 1) : Sort!Before(At(a, k), At(a, base)))'
            BY <1>2, <1>4, <1>5, <1>7 DEF Sort!Before, At
        <3> QED
            BY <3>2, <3>3
    <2>3. PartsInv'
        BY <1>4, <1>7, <2>2 DEF PartsInv
    <2>4. Arranged(a, base, limit, stack)'
        BY <1>2, <1>4, <1>6, <1>7, InOrderKept
    <2> QED
        BY <1>4, <1>7, <2>3, <2>4 DEF SortInv, InsertInv, Sort!Sorted
<1>8. CASE ~(i > j')
    <2>1. /\ a' = Sort!Swap(a, i, j') /\ at' = "up" /\ i \in Dom /\ j' \in Dom /\ base \in Dom /\ base # i /\ base # j'
          /\ i \in base..(limit - 1) /\ j' \in base..(limit - 1)
        BY <1>1, <1>3, <1>4, <1>8
    <2>2. a' \in [Dom -> Dom] /\ Inside(a, a', base, limit)
        <3>1. a' \in [Dom -> Dom]
            BY <1>1, <2>1, SwapIs
        <3>2. base \in Int /\ limit \in Int
            BY <1>1
        <3>3. Inside(a, Sort!Swap(a, i, j'), base, limit)
            BY <1>1, <2>1, <3>2, SwapInside
        <3> QED
            BY <2>1, <3>1, <3>3
    <2>3. Arranged(a', base, limit, stack)
        BY <1>1, <1>6, <2>2, InsideInOrder
    <2>4. Arranged(a, base, limit, stack)'
        BY <1>2, <2>3, InOrderKept
    <2>5. ASSUME NEW k \in (base + 1)..i PROVE Sort!Before(At(a', k), At(a', base))
        <3>1. At(a', base) = At(a, base)
            BY <1>1, <2>1, SwapAt
        <3>2. CASE k = i
            <4>1. At(a', k) = At(a, j')
                BY <1>1, <2>1, <3>2, SwapAt
            <4>2. Sort!Before(At(a, j'), At(a, base))
                BY <1>1, <1>4, <2>1, CompareMeans DEF FullInv, Sort!Cmp, At
            <4> QED
                BY <3>1, <4>1, <4>2
        <3>3. CASE k < i
            <4>1. k \in Dom /\ k # i /\ k # j' /\ k \in (base + 1)..(i - 1)
                BY <1>1, <1>3, <1>4, <1>8, <2>5, <3>3
            <4>2. At(Sort!Swap(a, i, j'), k) = At(a, k)
                <5>1. Sort!Swap(a, i, j')[k] = a[k]
                    BY <1>1, <2>1, <4>1, SwapIs
                <5> QED
                    BY <5>1 DEF At
            <4> QED
                BY <2>1, <4>2, <1>5, <3>1, <4>1, <4>2
        <3> QED
            BY <1>3, <2>5, <3>2, <3>3
    <2>6. (\A k \in (base + 1)..i : Sort!Before(At(a, k), At(a, base)))'
        BY <1>2, <2>5 DEF Sort!Before, At
    <2>7. PartsInv'
        BY <2>1, <2>6 DEF PartsInv
    <2> QED
        BY <2>1, <2>4, <2>7 DEF SortInv, InsertInv, Sort!Sorted
<1> QED
    BY <1>7, <1>8

(* Behind the pivot's place nothing is less, before it nothing is greater.  *)
LEMMA SplitSort ==
    ASSUME FullInv, Sort!Split
    PROVE  SortInv'
<1>1. /\ Len(dir) \in Nat /\ a \in [Dom -> Dom] /\ base \in Nat /\ limit \in 0..Len(dir) /\ base <= limit
      /\ stack \in Seq((0..Len(dir)) \X (0..Len(dir)))
      /\ \A q \in DOMAIN stack : Apart(<<base, limit>>, stack[q])
      /\ \A k \in Dom : At(a, k) \in Sort!FileRec
      /\ \A k \in base..(limit - 1) : k \in Dom
    BY FullFacts
<1>2. /\ at = "split" /\ at' = "range" /\ a' = Sort!Swap(a, base, j) /\ UNCHANGED <<mode, dir>>
    BY DEF Sort!Split
<1>3. base <= j /\ j < i /\ i < limit /\ i \in Int /\ j \in Int
    BY <1>2 DEF FullInv, PlaceInv, ScanInv, RangesInv
<1>4. /\ base \in Dom /\ j \in Dom /\ base \in base..(limit - 1) /\ j \in base..(limit - 1)
      /\ stack' \in Seq((0..Len(dir)) \X (0..Len(dir)))
      /\ Len(stack') = Len(stack) + 1 /\ \A q \in 1..Len(stack) : stack'[q] = stack[q]
      /\ \/ stack'[Len(stack) + 1] = <<base, j>> /\ base' = i /\ limit' = limit
         \/ stack'[Len(stack) + 1] = <<i, limit>> /\ base' = base /\ limit' = j
    BY <1>1, <1>3, SplitPlace DEF FullInv
<1>5. a' \in [Dom -> Dom] /\ Inside(a, a', base, limit)
    <2>1. base \in Int /\ limit \in Int
        BY <1>1
    <2> QED
        BY <1>1, <1>2, <1>4, <2>1, SwapIs, SwapInside
<1>6. Arranged(a', base, limit, stack)
    BY <1>1, <1>5, InsideInOrder DEF FullInv, SortInv
<1> DEFINE pivot == At(a, base)
<1>7. At(a', j) = pivot /\ At(a', base) = At(a, j) /\ pivot \in Sort!FileRec /\ Sort!Before(pivot, pivot)
    BY <1>1, <1>2, <1>4, SwapAt, BeforeTotal, SMTT(20) DEF FullInv
<1>8. \A k \in Dom : At(a', k) \in Sort!FileRec
    BY <1>2, <1>5, AtType DEF FullInv, PlaceInv, SortRules, ArrayInv
<1>9. /\ \A k \in (base + 1)..(i - 1) : Sort!Before(At(a, k), pivot)
      /\ \A k \in (j + 1)..(limit - 1) : Sort!Before(pivot, At(a, k))
    BY <1>2 DEF FullInv, SortInv, PartsInv
<1> HIDE DEF pivot
<1>10. ASSUME NEW k \in base..(i - 1) PROVE Sort!Before(At(a', k), pivot)
    <2>1. CASE k = j
        BY <1>7, <2>1
    <2>2. CASE k # j /\ k = base
        <3>1. j \in (base + 1)..(i - 1)
            BY <1>1, <1>3, <2>2
        <3> QED
            BY <1>7, <1>9, <2>2, <3>1
    <2>3. CASE k # j /\ k # base
        <3>1. k \in (base + 1)..(i - 1) /\ k \in base..(limit - 1)
            BY <1>1, <1>3, <2>3
        <3>2. At(a', k) = At(a, k)
            BY <1>1, <1>2, <1>4, <2>3, <3>1, SwapAt, ZenonT(40)
        <3> QED
            BY <1>9, <3>1, <3>2
    <2> QED
        BY <2>1, <2>2, <2>3
<1>11. ASSUME NEW k \in j..(limit - 1) PROVE Sort!Before(pivot, At(a', k))
    <2>1. CASE k = j
        BY <1>7, <2>1
    <2>2. CASE k # j
        <3>1. k \in (j + 1)..(limit - 1) /\ k \in base..(limit - 1) /\ k # base
            BY <1>1, <1>3, <2>2
        <3>2. At(a', k) = At(a, k)
            BY <1>1, <1>2, <1>4, <2>2, <3>1, SwapAt, ZenonT(40)
        <3> QED
            BY <1>9, <3>1, <3>2
    <2> QED
        BY <2>1, <2>2
<1>12. Arranged(a', base', limit', stack')
    <2> SUFFICES ASSUME NEW k \in Dom, NEW m \in Dom, k < m, ~OutOfPlace(k, m, base', limit', stack')
                 PROVE  Sort!Before(At(a', k), At(a', m))
        BY DEF Arranged
    <2>1. Len(stack) \in Nat /\ DOMAIN stack = 1..Len(stack) /\ DOMAIN stack' = 1..(Len(stack) + 1)
        BY <1>1, <1>4
    <2>2. \A q \in 1..Len(stack) : ~(stack[q][1] <= k /\ m < stack[q][2])
        <3>1. \A q \in DOMAIN stack' : ~(stack'[q][1] <= k /\ m < stack'[q][2])
            BY DEF OutOfPlace
        <3>2. \A q \in 1..Len(stack) : q \in DOMAIN stack' /\ stack'[q] = stack[q]
            BY <1>4, <2>1
        <3> QED
            BY <3>1, <3>2
    <2>3. Len(stack) + 1 \in DOMAIN stack'
        BY <2>1
    <2>4. ~(base <= k /\ m < j) /\ ~(i <= k /\ m < limit)
        <3>1. CASE stack'[Len(stack) + 1] = <<base, j>> /\ base' = i /\ limit' = limit
            BY <2>3, <3>1 DEF OutOfPlace
        <3>2. CASE stack'[Len(stack) + 1] = <<i, limit>> /\ base' = base /\ limit' = j
            BY <2>3, <3>2 DEF OutOfPlace
        <3> QED
            BY <1>4, <3>1, <3>2
    <2>5. CASE ~(base <= k /\ m < limit)
        <3>1. ~OutOfPlace(k, m, base, limit, stack)
            BY <2>1, <2>2, <2>5 DEF OutOfPlace
        <3> QED
            BY <1>6, <3>1 DEF Arranged
    <2>6. CASE base <= k /\ m < limit
        <3>1. k \in Int /\ m \in Int
            BY DEF Dom
        <3>2. k \in base..(i - 1) /\ m \in j..(limit - 1)
            BY <1>1, <1>3, <2>4, <2>6, <3>1
        <3>3. Sort!Before(At(a', k), pivot) /\ Sort!Before(pivot, At(a', m))
            BY <1>10, <1>11, <3>2
        <3> QED
            BY <1>7, <1>8, <3>3, BeforeOn DEF FullInv
    <2> QED
        BY <2>5, <2>6
<1>13. Arranged(a, base, limit, stack)'
    BY <1>2, <1>12, InOrderKept
<1> QED
    BY <1>2, <1>13 DEF SortInv, PartsInv, InsertInv, Sort!Sorted

LEMMA InsertionSort ==
    ASSUME FullInv, Sort!Insertion \/ UNCHANGED Sort!vars
    PROVE  SortInv'
<1>1. UNCHANGED <<mode, dir, a, base, limit, stack>>
    BY DEF Sort!Insertion, Sort!vars
<1>2. Arranged(a, base, limit, stack)'
    BY <1>1, InOrderKept DEF FullInv, SortInv
<1>3. CASE Sort!Insertion
    <2>1. at' = "insert" /\ i' = base + 1 /\ j' = base
        BY <1>3 DEF Sort!Insertion
    <2>2. base \in Nat /\ limit \in Int
        BY FullFacts
    <2>3. InsertInv'
        BY <1>1, <2>1, <2>2 DEF InsertInv
    <2> QED
        BY <1>2, <2>1, <2>3 DEF SortInv, PartsInv, Sort!Sorted
<1>4. CASE UNCHANGED Sort!vars
    <2>1. at' = at /\ i' = i /\ j' = j
        BY <1>4 DEF Sort!vars
    <2>2. PartsInv' /\ InsertInv' /\ Sort!Sorted'
        BY <1>1, <2>1, SMTT(20) DEF FullInv, SortInv, PartsInv, InsertInv, Sort!Sorted, Sort!Before, At, Sort!File
    <2> QED
        BY <1>2, <2>2 DEF SortInv
<1> QED
    BY <1>3, <1>4

(* Nothing below the new limit of the insertion is out of order.            *)
RangeSorted == \A k, m \in base..(limit - 1) : k < m => Sort!Before(At(a, k), At(a, m))

LEMMA InsertedAll ==
    ASSUME FullInv, at = "insert", i >= limit
    PROVE  RangeSorted
<1>1. base \in Nat /\ limit \in Int /\ i \in Int /\ j \in Int
    BY FullFacts DEF FullInv, PlaceInv, RangesInv
<1>2. /\ j = i - 1
      /\ \A k, m \in base..i : k < m /\ m < limit /\ (k = j + 1 \/ m # j + 1) => Sort!Before(At(a, k), At(a, m))
    BY DEF FullInv, SortInv, InsertInv
<1> SUFFICES ASSUME NEW k \in base..(limit - 1), NEW m \in base..(limit - 1), k < m
             PROVE  Sort!Before(At(a, k), At(a, m))
    BY DEF RangeSorted
<1>3. k \in base..i /\ m \in base..i /\ m < limit /\ m # j + 1
    BY <1>1, <1>2
<1> QED
    BY <1>2, <1>3

LEMMA PopSort ==
    ASSUME FullInv, Sort!Pop
    PROVE  SortInv'
<1>1. /\ base \in Nat /\ limit \in Int /\ stack \in Seq((0..Len(dir)) \X (0..Len(dir))) /\ Len(dir) \in Nat
      /\ Arranged(a, base, limit, stack)
    BY FullFacts DEF FullInv, SortInv
<1>2. /\ base' = stack[Len(stack)][1] /\ limit' = stack[Len(stack)][2] /\ at' = "range"
      /\ UNCHANGED <<mode, dir, a>> /\ stack' = SubSeq(stack, 1, Len(stack) - 1)
    BY DEF Sort!Pop
<1>3. /\ Len(stack) \in Nat \ {0} /\ Len(stack') = Len(stack) - 1
      /\ \A q \in 1..(Len(stack) - 1) : stack'[q] = stack[q]
    BY PopPlace DEF FullInv
<1>4. RangeSorted
    BY InsertedAll DEF FullInv, Sort!Pop
<1>5. Arranged(a', base', limit', stack')
    <2> SUFFICES ASSUME NEW k \in Dom, NEW m \in Dom, k < m, ~OutOfPlace(k, m, base', limit', stack')
                 PROVE  Sort!Before(At(a', k), At(a', m))
        BY DEF Arranged
    <2>1. DOMAIN stack = 1..Len(stack) /\ DOMAIN stack' = 1..(Len(stack) - 1)
        BY <1>1, <1>2, <1>3
    <2>2. \A q \in 1..(Len(stack) - 1) : ~(stack[q][1] <= k /\ m < stack[q][2])
        BY <1>3, <2>1 DEF OutOfPlace
    <2>3. ~(stack[Len(stack)][1] <= k /\ m < stack[Len(stack)][2])
        BY <1>2 DEF OutOfPlace
    <2>4. \A q \in 1..Len(stack) : q \in 1..(Len(stack) - 1) \/ q = Len(stack)
        BY <1>3
    <2>5. CASE ~(base <= k /\ m < limit)
        <3>1. ~OutOfPlace(k, m, base, limit, stack)
            BY <2>1, <2>2, <2>3, <2>4, <2>5 DEF OutOfPlace
        <3> QED
            BY <1>1, <1>2, <3>1 DEF Arranged
    <2>6. CASE base <= k /\ m < limit
        <3>1. k \in base..(limit - 1) /\ m \in base..(limit - 1)
            BY <1>1, <2>6 DEF Dom
        <3> QED
            BY <1>2, <1>4, <3>1 DEF RangeSorted
    <2> QED
        BY <2>5, <2>6
<1>6. Arranged(a, base, limit, stack)'
    BY <1>2, <1>5, InOrderKept
<1> QED
    BY <1>2, <1>6 DEF SortInv, PartsInv, InsertInv, Sort!Sorted

LEMMA FinishSort ==
    ASSUME FullInv, Sort!Finish
    PROVE  SortInv'
<1>1. /\ base \in Nat /\ limit \in Int /\ a \in [Dom -> Dom]
      /\ Arranged(a, base, limit, stack)
    BY FullFacts DEF FullInv, SortInv
<1>2. at' = "done" /\ UNCHANGED <<mode, dir, a, base, limit, stack>> /\ stack = <<>>
    BY DEF Sort!Finish
<1>3. RangeSorted
    BY InsertedAll DEF FullInv, Sort!Finish
<1>4. ASSUME NEW k \in Dom, NEW m \in Dom, k < m PROVE Sort!Before(At(a, k), At(a, m))
    <2>1. CASE base <= k /\ m < limit
        <3>1. k \in base..(limit - 1) /\ m \in base..(limit - 1)
            BY <1>1, <1>4, <2>1 DEF Dom
        <3> QED
            BY <1>3, <1>4, <3>1 DEF RangeSorted
    <2>2. CASE ~(base <= k /\ m < limit)
        <3>1. ~OutOfPlace(k, m, base, limit, stack)
            BY <1>2, <2>2 DEF OutOfPlace
        <3> QED
            BY <1>1, <1>4, <3>1 DEF Arranged
    <2> QED
        BY <2>1, <2>2
<1>5. Sort!Sorted'
    <2>1. DOMAIN a' = Dom
        BY <1>1, <1>2
    <2> QED
        BY <1>2, <1>4, <2>1 DEF Sort!Sorted, Sort!File, At, Sort!Before
<1>6. Arranged(a, base, limit, stack)'
    BY <1>1, <1>2, InOrderKept
<1> QED
    BY <1>2, <1>5, <1>6 DEF SortInv, PartsInv, InsertInv

(* One step of an insertion.                                                *)
LEMMA InsertSort ==
    ASSUME FullInv, Sort!Insert
    PROVE  SortInv'
<1>1. /\ Len(dir) \in Nat /\ a \in [Dom -> Dom] /\ base \in Nat /\ limit \in 0..Len(dir) /\ base <= limit
      /\ stack \in Seq((0..Len(dir)) \X (0..Len(dir)))
      /\ \A q \in DOMAIN stack : Apart(<<base, limit>>, stack[q])
      /\ \A k \in Dom : At(a, k) \in Sort!FileRec
      /\ \A k \in base..(limit - 1) : k \in Dom
    BY FullFacts
<1>2. /\ at = "insert" /\ at' = "insert" /\ UNCHANGED <<mode, dir, base, limit, stack>>
    BY DEF Sort!Insert
<1>3. /\ j \in Dom /\ j + 1 \in Dom /\ i \in Nat /\ j \in Int /\ base <= j /\ j < i /\ i < limit
    BY InsertPlace DEF FullInv, Dom
<1>4. \A k, m \in base..i : k < m /\ (k = j + 1 \/ m # j + 1) => Sort!Before(At(a, k), At(a, m))
    <2>1. \A m \in base..i : m < limit
        BY <1>1, <1>3
    <2> QED
        BY <1>2, <2>1 DEF FullInv, SortInv, InsertInv
<1>5. \A k \in base..i : k \in Dom /\ At(a, k) \in Sort!FileRec
    <2>1. \A k \in base..i : k \in base..(limit - 1)
        BY <1>1, <1>3
    <2> QED
        BY <1>1, <2>1
<1>6. j \in base..i /\ j + 1 \in base..i
    BY <1>1, <1>3
<1>7. Arranged(a, base, limit, stack)
    BY DEF FullInv, SortInv
<1> DEFINE Greater == Sort!Cmp(a, j, j + 1) > 0
<1>8. IF Greater THEN Sort!Before(At(a, j + 1), At(a, j)) ELSE Sort!Before(At(a, j), At(a, j + 1))
    <2>1. At(a, j) \in Sort!FileRec /\ At(a, j + 1) \in Sort!FileRec
        BY <1>1, <1>3
    <2> QED
        BY <2>1, CompareMeans, BeforeTotal DEF FullInv, Sort!Cmp, At
<1>9. CASE Greater
    <2>1. a' = Sort!Swap(a, j, j + 1) /\ (\/ j = base /\ j' = i /\ i' = i + 1
                                          \/ j # base /\ j' = j - 1 /\ i' = i)
        BY <1>9 DEF Sort!Insert
    <2>2. /\ At(a', j) = At(a, j + 1) /\ At(a', j + 1) = At(a, j)
          /\ \A k \in base..i : k # j /\ k # j + 1 => At(a', k) = At(a, k)
        BY <1>1, <1>3, <1>5, <2>1, SwapAt, SMTT(20)
    <2>3. Arranged(a', base, limit, stack)
        <3>1. base \in Int /\ limit \in Int /\ j \in base..(limit - 1) /\ j + 1 \in base..(limit - 1)
            BY <1>1, <1>3
        <3>2. a' \in [Dom -> Dom] /\ Inside(a, a', base, limit)
            BY <1>1, <1>3, <2>1, <3>1, SwapIs, SwapInside
        <3> QED
            BY <1>1, <1>7, <3>2, InsideInOrder
    <2>4. ASSUME NEW k \in base..i, NEW m \in base..i, k < m, k = j \/ m # j
          PROVE  Sort!Before(At(a', k), At(a', m))
        <3>1. k \in Int /\ m \in Int
            BY <1>1
        <3>2. CASE k = j
            <4>1. CASE m = j + 1
                BY <1>8, <1>9, <2>2, <3>2, <4>1
            <4>2. CASE m # j + 1
                <5>1. j + 1 < m /\ m # j
                    BY <1>3, <2>4, <3>1, <3>2, <4>2
                <5>2. Sort!Before(At(a, j + 1), At(a, m))
                    BY <1>4, <1>6, <5>1
                <5> QED
                    BY <2>2, <3>2, <4>2, <5>1, <5>2
            <4> QED
                BY <4>1, <4>2
        <3>3. CASE k # j /\ k = j + 1
            <4>1. j < m /\ m # j + 1 /\ m # j
                BY <1>3, <2>4, <3>1, <3>3
            <4>2. Sort!Before(At(a, j), At(a, m))
                BY <1>4, <1>6, <4>1
            <4> QED
                BY <2>2, <3>3, <4>1, <4>2
        <3>4. CASE k # j /\ k # j + 1
            <4>1. m # j
                BY <2>4, <3>4
            <4>2. CASE m = j + 1
                <5>1. k < j /\ j # j + 1
                    BY <1>3, <2>4, <3>1, <3>4, <4>2
                <5>2. Sort!Before(At(a, k), At(a, j))
                    BY <1>4, <1>6, <5>1
                <5> QED
                    BY <2>2, <3>4, <4>2, <5>2
            <4>3. CASE m # j + 1
                BY <1>4, <2>2, <2>4, <3>4, <4>1, <4>3
            <4> QED
                BY <4>2, <4>3
        <3> QED
            BY <3>2, <3>3, <3>4
    <2>5. ASSUME NEW k \in base..i', NEW m \in base..i', k < m, m < limit, k = j' + 1 \/ m # j' + 1
          PROVE  Sort!Before(At(a', k), At(a', m))
        <3>1. CASE j = base /\ j' = i /\ i' = i + 1
            <4>1. k \in base..i /\ m \in base..i /\ (k = j \/ m # j)
                BY <1>1, <1>3, <2>5, <3>1
            <4> QED
                BY <2>4, <2>5, <4>1
        <3>2. CASE j # base /\ j' = j - 1 /\ i' = i
            <4>1. k \in base..i /\ m \in base..i /\ (k = j \/ m # j)
                BY <1>1, <1>3, <2>5, <3>2
            <4> QED
                BY <2>4, <2>5, <4>1
        <3> QED
            BY <2>1, <3>1, <3>2
    <2>6. i' >= limit' => j' = i' - 1
        BY <1>1, <1>2, <1>3, <2>1
    <2>7. InsertInv'
        BY <1>2, <2>5, <2>6 DEF InsertInv, Sort!Before, At
    <2>8. Arranged(a, base, limit, stack)'
        BY <1>2, <2>3, InOrderKept
    <2> QED
        BY <1>2, <2>7, <2>8 DEF SortInv, PartsInv, Sort!Sorted
<1>10. CASE ~Greater
    <2>1. a' = a /\ j' = i /\ i' = i + 1
        BY <1>10 DEF Sort!Insert
    <2>2. ASSUME NEW k \in base..i, NEW m \in base..i, k < m PROVE Sort!Before(At(a, k), At(a, m))
        <3>1. CASE k = j + 1 \/ m # j + 1
            BY <1>4, <2>2, <3>1
        <3>2. CASE m = j + 1 /\ k = j
            BY <1>8, <1>10, <3>2
        <3>3. CASE m = j + 1 /\ k # j
            <4>1. k < j /\ j # j + 1
                BY <1>1, <1>3, <2>2, <3>3
            <4>2. Sort!Before(At(a, k), At(a, j)) /\ Sort!Before(At(a, j), At(a, j + 1))
                BY <1>4, <1>6, <1>8, <1>10, <4>1
            <4> QED
                BY <1>5, <1>6, <3>3, <4>2, BeforeOn DEF FullInv
        <3> QED
            BY <3>1, <3>2, <3>3
    <2>3. ASSUME NEW k \in base..i', NEW m \in base..i', k < m, m < limit, k = j' + 1 \/ m # j' + 1
          PROVE  Sort!Before(At(a, k), At(a, m))
        <3>1. k \in base..i /\ m \in base..i
            BY <1>1, <1>3, <2>1, <2>3
        <3> QED
            BY <2>2, <2>3, <3>1
    <2>4. j' = i' - 1
        BY <1>3, <2>1
    <2>5. InsertInv'
        BY <1>2, <2>1, <2>3, <2>4 DEF InsertInv, Sort!Before, At
    <2>6. Arranged(a, base, limit, stack)'
        BY <1>2, <1>7, <2>1, InOrderKept
    <2> QED
        BY <1>2, <2>5, <2>6 DEF SortInv, PartsInv, Sort!Sorted
<1> QED
    BY <1>9, <1>10

LEMMA FullStep ==
    ASSUME FullInv, [Sort!Next]_(Sort!vars)
    PROVE  FullInv'
<1>1. PlaceInv' /\ Ordering'
    BY PlaceStep, OrderingKept DEF FullInv
<1>2. SortInv'
    BY PartitionSort, UpSort, DownSort, SplitSort, InsertionSort, InsertSort, PopSort, FinishSort DEF Sort!Next
<1> QED
    BY <1>1, <1>2 DEF FullInv

LEMMA FullMeans == FullInv => Sort!Sorted /\ Sort!PartsInOrder
<1> SUFFICES ASSUME FullInv PROVE Sort!Sorted /\ Sort!PartsInOrder
    OBVIOUS
<1>1. Sort!Sorted
    BY DEF FullInv, SortInv
<1>2. DOMAIN a = Dom /\ Arranged(a, base, limit, stack)
    BY FullFacts DEF FullInv, SortInv
<1>3. ASSUME NEW k \in Dom, NEW m \in Dom, k < m, OutOfPlace(k, m, base, limit, stack)
      PROVE  \E r \in Sort!Pending : r[1] <= k /\ m < r[2]
    <2>1. CASE base <= k /\ m < limit
        <3>1. <<base, limit>> \in Sort!Pending
            BY DEF Sort!Pending
        <3> QED
            BY <2>1, <3>1
    <2>2. CASE \E q \in DOMAIN stack : stack[q][1] <= k /\ m < stack[q][2]
        <3>1. PICK q \in DOMAIN stack : stack[q][1] <= k /\ m < stack[q][2]
            BY <2>2
        <3>2. stack[q] \in Sort!Pending
            BY DEF Sort!Pending
        <3> QED
            BY <3>1, <3>2
    <2> QED
        BY <1>3, <2>1, <2>2 DEF OutOfPlace
<1>4. \A k, m \in Dom : k >= m \/ k < m
    BY FullFacts DEF Dom
<1>5. Sort!PartsInOrder
    BY <1>2, <1>3, <1>4 DEF Sort!PartsInOrder, Arranged, Sort!File, At
<1> QED
    BY <1>1, <1>5

LEMMA FullKept ==
    ASSUME Ordering => FullInv, [Sort!Next]_(Sort!vars)
    PROVE  (Ordering => FullInv)'
<1>1. ASSUME Ordering' PROVE Ordering
    BY <1>1 DEF Ordering, Sort!Next, Sort!Partition, Sort!Up, Sort!Down, Sort!Split, Sort!Insertion, Sort!Insert, Sort!Pop, Sort!Finish, Sort!vars
<1> QED
    BY <1>1, FullStep

(* The mode is set before the sort and does not change in it.               *)
THEOREM SortsFiles == SortRules /\ Sort!Spec => [](Ordering => Sort!Sorted /\ Sort!PartsInOrder)
<1>1. SortRules /\ Sort!Init => (Ordering => FullInv)
    BY InitPlace, InitSort DEF FullInv
<1>2. (Ordering => FullInv) /\ [Sort!Next]_(Sort!vars) => (Ordering => FullInv)'
    BY FullKept
<1> QED
    BY <1>1, <1>2, FullMeans, PTL DEF Sort!Spec

-----------------------------------------------------------------------------
(* The stack *)

StackSuffices == \E r : Sort!Bounds(r)

Fits(r) ==
    /\ Len(stack) <= SortOf.Ranges /\ limit - base <= r[Len(stack)]
    /\ \A q \in 1..Len(stack) : stack[q][2] - stack[q][1] <= r[q - 1]

StackInv == PlaceInv /\ \E r : Sort!Bounds(r) /\ Fits(r)

LEMMA SplitFits ==
    ASSUME NEW r, Sort!Bounds(r), PlaceInv, Fits(r), Sort!Split
    PROVE  Fits(r)'
<1> DEFINE n == Len(stack)
<1>1. /\ base \in Nat /\ limit \in Nat /\ i \in Int /\ j \in Int /\ n \in Nat
      /\ base <= j /\ j < i /\ i < limit /\ limit - base > SortOf.Threshold
    BY DEF PlaceInv, RangesInv, ScanInv, Sort!Split
<1>2. n \in 0..SortOf.Ranges /\ SortOf.Ranges \in Nat /\ SortOf.Threshold \in Nat /\ r[n] \in Nat /\ limit - base <= r[n]
    BY <1>1 DEF Sort!Bounds, Fits, PlaceInv, SortRules, Sort!QSortAssumption
<1>3. n # SortOf.Ranges
    BY <1>1, <1>2 DEF Sort!Bounds
<1>4. n \in 0..(SortOf.Ranges - 1) /\ n + 1 \in 0..SortOf.Ranges /\ r[n + 1] \in Nat /\ r[n] <= 2 * r[n + 1] + 2
    BY <1>2, <1>3 DEF Sort!Bounds
<1>5. /\ Len(stack') = n + 1 /\ \A q \in 1..n : stack'[q] = stack[q]
      /\ \/ stack'[n + 1] = <<base, j>> /\ base' = i /\ limit' = limit /\ limit - i < j - base
         \/ stack'[n + 1] = <<i, limit>> /\ base' = base /\ limit' = j /\ j - base <= limit - i
    BY SplitPlace
<1>6. limit' - base' <= r[n + 1] /\ stack'[n + 1][2] - stack'[n + 1][1] <= r[n]
    <2>1. CASE stack'[n + 1] = <<base, j>> /\ base' = i /\ limit' = limit /\ limit - i < j - base
        BY <1>1, <1>2, <1>4, <2>1, SMTT(20)
    <2>2. CASE stack'[n + 1] = <<i, limit>> /\ base' = base /\ limit' = j /\ j - base <= limit - i
        BY <1>1, <1>2, <1>4, <2>2, SMTT(20)
    <2> QED
        BY <1>5, <2>1, <2>2
<1>7. ASSUME NEW q \in 1..(n + 1) PROVE stack'[q][2] - stack'[q][1] <= r[q - 1]
    <2>1. CASE q = n + 1
        BY <1>1, <1>6, <2>1
    <2>2. CASE q \in 1..n
        BY <1>5, <2>2 DEF Fits
    <2> QED
        BY <1>1, <2>1, <2>2
<1>8. n + 1 <= SortOf.Ranges
    BY <1>4
<1> HIDE DEF n
<1> QED
    BY <1>5, <1>6, <1>7, <1>8 DEF Fits

LEMMA PopFits ==
    ASSUME NEW r, Sort!Bounds(r), PlaceInv, Fits(r), Sort!Pop
    PROVE  Fits(r)'
<1> DEFINE n == Len(stack)
<1>1. /\ n \in Nat \ {0} /\ Len(stack') = n - 1 /\ \A q \in 1..(n - 1) : stack'[q] = stack[q]
      /\ base' = stack[n][1] /\ limit' = stack[n][2]
    BY PopPlace DEF Sort!Pop
<1>2. \A q \in 1..n : stack[q][2] - stack[q][1] <= r[q - 1]
    BY DEF Fits
<1>3. n \in 1..n /\ n <= SortOf.Ranges /\ SortOf.Ranges \in Nat
    BY <1>1 DEF Fits, PlaceInv, SortRules, Sort!QSortAssumption
<1>4. limit' - base' <= r[n - 1]
    BY <1>1, <1>2, <1>3
<1>5. \A q \in 1..(n - 1) : stack'[q][2] - stack'[q][1] <= r[q - 1]
    BY <1>1, <1>2
<1>6. n - 1 <= SortOf.Ranges
    BY <1>1, <1>3
<1> QED
    BY <1>1, <1>4, <1>5, <1>6 DEF Fits

LEMMA StackStep ==
    ASSUME StackInv, [Sort!Next]_(Sort!vars)
    PROVE  StackInv'
<1>1. PlaceInv'
    BY PlaceStep DEF StackInv
<1>2. PICK r : Sort!Bounds(r) /\ Fits(r)
    BY DEF StackInv
<1> SUFFICES Fits(r)'
    BY <1>1, <1>2 DEF StackInv, Sort!Bounds
<1>3. CASE Sort!Split
    BY <1>2, <1>3, SplitFits DEF StackInv
<1>4. CASE Sort!Pop
    BY <1>2, <1>4, PopFits DEF StackInv
<1>5. CASE Sort!Partition \/ Sort!Up \/ Sort!Down \/ Sort!Insertion \/ Sort!Insert \/ Sort!Finish \/ UNCHANGED Sort!vars
    <2>1. UNCHANGED <<base, limit, stack>>
        BY <1>5 DEF Sort!Partition, Sort!Up, Sort!Down, Sort!Insertion, Sort!Insert, Sort!Finish, Sort!vars
    <2> QED
        BY <1>2, <2>1 DEF Fits
<1> QED
    BY <1>3, <1>4, <1>5 DEF Sort!Next

LEMMA InitStack ==
    ASSUME StackSuffices, SortRules, Sort!Init
    PROVE  StackInv
<1>1. PlaceInv
    BY InitPlace
<1>2. PICK r : Sort!Bounds(r)
    BY DEF StackSuffices
<1>3. Len(stack) = 0 /\ base = 0 /\ limit = Len(dir) /\ Len(dir) <= r[0] /\ Len(dir) \in Nat
    BY <1>2, LenType DEF Sort!Init, Sort!Bounds, SortRules
<1>4. Fits(r)
    BY <1>3 DEF Fits, SortRules, Sort!QSortAssumption
<1> QED
    BY <1>1, <1>2, <1>4 DEF StackInv

(* The stack holds every range, if a directory has no more files than the  *)
(* bound allows: 574 with T 7 and 6 ranges.                                 *)
THEOREM StackIsEnough == StackSuffices /\ SortRules /\ Sort!Spec => []Sort!StackHolds
<1>1. StackSuffices /\ SortRules /\ Sort!Init => StackInv
    BY InitStack
<1>2. StackInv /\ [Sort!Next]_(Sort!vars) => StackInv'
    BY StackStep
<1>3. StackInv => Sort!StackHolds
    BY DEF StackInv, Fits, Sort!StackHolds
<1> QED
    BY <1>1, <1>2, <1>3, PTL DEF Sort!Spec

-----------------------------------------------------------------------------
(* The component of an image *)

Cells == {"old", "raw", "foot", "bios", "os"} \X Nat

Working == {"load", "open", "seek", "write", "foot", "next"}

(* Where the component starts in a file of n cells.                         *)
From(n) == n - (IF Image!IsOs THEN 2 * ImageOf.Bank ELSE ImageOf.Bank)

(* The cells of ram that the component came into, in the places that are    *)
(* theirs, up to one: but the last of an OS, which its footer takes.        *)
Copied(f, n, k) ==
    /\ From(n) \in Nat /\ From(n) + k <= Len(f)
    /\ \A c \in 0..(k - 1) : f[From(n) + c + 1] = ram[(From(n) + c) % ImageOf.Bank]

Placed(f, n) ==
    /\ From(n) \in Nat /\ From(n) + Image!Written <= Len(f)
    /\ \A c \in 0..(Image!Written - 1) :
         (Image!IsOs => c # ImageOf.Bank - 1) => f[From(n) + c + 1] = ram[(From(n) + c) % ImageOf.Bank]
    /\ Image!IsOs => n - ImageOf.Bank \in 1..Len(f) /\ f[n - ImageOf.Bank] = <<"foot", Image!Written>>

FileKinds ==
    /\ image \in Seq(Cells) /\ flash \in Seq(Cells) /\ ram \in [0..(ImageOf.Bank - 1) -> Cells]
    /\ free \in Nat /\ imagePos \in Nat /\ size \in Nat

Phases ==
    /\ op \in {"replace", "create"} /\ target \in {"image", "flash"} /\ said \in BOOLEAN
    /\ part \in ImageOf.Offered \cup {Image!Nothing} /\ osChosen \in ImageOf.Offered \cup {Image!Nothing}
    /\ imageAt \in {"select", "select os", "name", "allocate", "done"} \cup Working
    /\ result \in {"none", "ok", "error", "invalid"} /\ (result = "none" <=> imageAt # "done")

ImageTypes == FileKinds /\ Phases

(* Before the work.                                                         *)
ChosenInv ==
    /\ imageAt = "select" => target = "image" /\ part = Image!Nothing
    /\ imageAt \in {"select os", "name", "allocate"} => op = "create" /\ part.kind = "bios" /\ target = "image"
    /\ imageAt \in {"name", "allocate"} => osChosen.kind = "os"
    /\ imageAt = "allocate" => image = <<>>

(* In an image that is made, nothing but its allocation changes its size.   *)
CreateInv ==
    imageAt \in Working /\ op = "create" =>
        /\ target = "image" /\ size = ImageOf.NewSize /\ osChosen.kind = "os"
        /\ Len(image) <= ImageOf.NewSize /\ (Len(image) = ImageOf.NewSize \/ free = 0)
        /\ Image!IsOs => Len(image) > ImageOf.NewSize - ImageOf.Bank

WorkInv ==
    /\ imageAt \in Working => part \in ImageOf.Offered
    /\ imageAt = "load" /\ op = "replace" => target = "image"
    /\ imageAt \in Working \ {"load"} => \A y \in 0..(Image!Written - 1) : ram[y] = <<part.kind, y>>
    /\ imageAt \in Working \ {"load", "open"} => size >= 2 * ImageOf.Bank /\ (op = "replace" => size = Len(Image!File))
    /\ imageAt = "write" =>
         \/ imagePos < Image!Base /\ imagePos = Len(Image!File) /\ free = 0
         \/ imagePos - Image!Base \in 0..Image!Written /\ Copied(Image!File, size, imagePos - Image!Base)
    /\ imageAt = "foot" => Image!IsOs /\ Copied(Image!File, size, Image!Written)
    /\ imageAt = "next" => Placed(Image!File, size)
    /\ imageAt \in Working /\ op = "replace" /\ target = "flash" => Placed(image, Len(image))

DoneInv ==
    Image!Done => /\ \A y \in 0..(Image!Written - 1) : ram[y] = <<part.kind, y>>
                  /\ part \in ImageOf.Offered
                  /\ op = "replace" => Placed(image, Len(image)) /\ (flash # <<>> => Placed(flash, Len(flash)))
                  /\ op = "create" => /\ Placed(image, ImageOf.NewSize) /\ Len(image) <= ImageOf.NewSize
                                      /\ Len(image) > ImageOf.NewSize - ImageOf.Bank

ImageInv == ImageTypes /\ ChosenInv /\ CreateInv /\ WorkInv /\ DoneInv

LEMMA ImageRules ==
    ASSUME Image!WwAssumption
    PROVE  /\ ImageOf.Bank \in Nat /\ ImageOf.Bank >= 2 /\ ImageOf.NewSize \in Nat /\ ImageOf.NewSize % ImageOf.Bank = 0 /\ ImageOf.NewSize >= 2 * ImageOf.Bank
           /\ ImageOf.Images \subseteq Nat /\ ImageOf.Flashes \subseteq Nat /\ ImageOf.Free \in Nat
           /\ \A c \in ImageOf.Offered : c.kind \in {"bios", "os"} /\ c.length \in Nat \ {0} /\ c # Image!Nothing
BY DEF Image!WwAssumption, Image!Nothing

(* The files, the one of them that is open, and the bank of the cartridge.  *)
LEMMA Kinds ==
    ASSUME ImageTypes
    PROVE  /\ image \in Seq(Cells) /\ flash \in Seq(Cells) /\ ram \in [0..(ImageOf.Bank - 1) -> Cells]
           /\ Len(image) \in Nat /\ Len(flash) \in Nat /\ <<>> \in Seq(Cells)
           /\ Image!File \in Seq(Cells) /\ Len(Image!File) \in Nat
           /\ free \in Nat /\ imagePos \in Nat /\ size \in Nat
<1>1. image \in Seq(Cells) /\ flash \in Seq(Cells) /\ ram \in [0..(ImageOf.Bank - 1) -> Cells]
    BY DEF ImageTypes, FileKinds, Phases
<1>2. Image!File \in Seq(Cells)
    BY <1>1 DEF Image!File
<1>3. Len(image) \in Nat /\ Len(flash) \in Nat
    BY <1>1
<1>4. <<>> \in Seq(Cells)
    OBVIOUS
<1>5. Len(Image!File) \in Nat
    BY <1>2
<1>6. free \in Nat /\ imagePos \in Nat /\ size \in Nat
    BY DEF ImageTypes, FileKinds, Phases
<1> QED
    BY <1>1, <1>2, <1>3, <1>4, <1>5, <1>6

LEMMA WrittenType ==
    ASSUME Image!WwAssumption, part \in ImageOf.Offered
    PROVE  Image!Written \in 1..ImageOf.Bank /\ Image!Base = From(size)
BY ImageRules DEF Image!Written, Image!Base, From

LEMMA OldType == ASSUME NEW n \in Nat PROVE Image!Old(n) \in Seq(Cells) /\ Len(Image!Old(n)) = n
BY DEF Image!Old, Cells

LEMMA ImageInit == ASSUME Image!WwAssumption, Image!Init PROVE ImageInv
<1>1. image \in Seq(Cells) /\ flash \in Seq(Cells)
    BY ImageRules, OldType DEF Image!Init
<1>2. ram \in [0..(ImageOf.Bank - 1) -> Cells]
    BY ImageRules DEF Image!Init, Cells
<1>3. ImageTypes
    BY <1>1, <1>2, ImageRules DEF Image!Init, ImageTypes, FileKinds, Phases
<1> QED
    BY <1>3 DEF Image!Init, ImageInv, ChosenInv, CreateInv, WorkInv, DoneInv, Image!Done, Working

(* The steps before the work, and its first.                                *)
LEMMA ChoosingSteps ==
    ASSUME Image!WwAssumption, ImageInv, Image!Select \/ Image!SelectOs \/ Image!Overwrite \/ Image!Fails PROVE ImageInv'
<1> USE DEF ImageInv, Working
<1>1. CASE Image!Select
    <2>1. ImageTypes' /\ ChosenInv'
        BY <1>1, ImageRules DEF Image!Select, Image!Ends, ImageTypes, FileKinds, Phases, ChosenInv
    <2>2. CreateInv' /\ WorkInv'
        BY <1>1, ImageRules DEF Image!Select, Image!Ends, ImageTypes, FileKinds, Phases, ChosenInv, CreateInv, WorkInv
    <2>3. DoneInv'
        BY <1>1 DEF Image!Select, Image!Ends, ChosenInv, DoneInv, Image!Done
    <2> QED
        BY <2>1, <2>2, <2>3
<1>2. CASE Image!SelectOs
    <2>1. ImageTypes' /\ ChosenInv'
        BY <1>2, ImageRules DEF Image!SelectOs, Image!Ends, ImageTypes, FileKinds, Phases, ChosenInv
    <2>2. CreateInv' /\ WorkInv'
        BY <1>2 DEF Image!SelectOs, Image!Ends, CreateInv, WorkInv
    <2>3. DoneInv'
        BY <1>2 DEF Image!SelectOs, Image!Ends, ChosenInv, DoneInv, Image!Done
    <2> QED
        BY <2>1, <2>2, <2>3
<1>3. CASE Image!Overwrite
    <2>1. ImageTypes' /\ ChosenInv'
        <3>1. Len(image) \in Nat /\ Len(flash) \in Nat /\ <<>> \in Seq(Cells)
            BY Kinds
        <3>2. free' \in Nat /\ image' \in Seq(Cells) /\ flash' \in Seq(Cells)
            <4>1. free \in Nat /\ image \in Seq(Cells) /\ flash \in Seq(Cells)
                BY Kinds
            <4>2. \/ image' = <<>> /\ flash' = <<>> /\ free' = free + Len(image) + Len(flash)
                  \/ UNCHANGED <<image, flash, free>>
                BY <1>3, Zenon DEF Image!Overwrite
            <4>3. free + Len(image) + Len(flash) \in Nat
                BY <3>1, <4>1
            <4>4. CASE image' = <<>> /\ flash' = <<>> /\ free' = free + Len(image) + Len(flash)
                BY <3>1, <4>3, <4>4, Zenon
            <4>5. CASE UNCHANGED <<image, flash, free>>
                BY <4>1, <4>5, Zenon
            <4> QED
                BY <4>2, <4>4, <4>5, Zenon
        <3> QED
            BY <1>3, <3>2 DEF Image!Overwrite, Image!Ends, ImageTypes, FileKinds, Phases, ChosenInv
    <2>2. CreateInv' /\ WorkInv'
        BY <1>3 DEF Image!Overwrite, Image!Ends, CreateInv, WorkInv
    <2>3. DoneInv'
        BY <1>3 DEF Image!Overwrite, Image!Ends, ChosenInv, DoneInv, Image!Done
    <2> QED
        BY <2>1, <2>2, <2>3
<1>4. CASE Image!Fails
    BY <1>4 DEF Image!Fails, Image!Ends, ImageTypes, FileKinds, Phases, ChosenInv, CreateInv, WorkInv, DoneInv, Image!Done
<1> QED
    BY <1>1, <1>2, <1>3, <1>4

LEMMA AllocateStep == ASSUME Image!WwAssumption, ImageInv, Image!Allocate PROVE ImageInv'
<1> USE DEF ImageInv, Working
<1>1. \A n \in Nat : LET s == [y \in 1..n |-> <<"raw", 0>>] IN s \in Seq(Cells) /\ Len(s) = n
    BY DEF Cells
<1>2. op = "create" /\ part.kind = "bios" /\ target = "image" /\ osChosen.kind = "os" /\ part \in ImageOf.Offered
    BY DEF Image!Allocate, ChosenInv, ImageTypes, FileKinds, Phases, Image!Nothing
<1>3. CASE imageAt' = "load"
    <2>1. PICK n \in {ImageOf.NewSize, Image!SmallerOf(ImageOf.NewSize, free)} :
              n <= free /\ image' = [y \in 1..n |-> <<"raw", 0>>] /\ free' = free - n /\ UNCHANGED result
        BY <1>3 DEF Image!Allocate, Image!Ends
    <2>2. n \in Nat /\ n <= ImageOf.NewSize /\ free \in Nat /\ (n = ImageOf.NewSize \/ n = free)
        <3>1. n = ImageOf.NewSize \/ n = Image!SmallerOf(ImageOf.NewSize, free)
            BY <2>1
        <3>2. free \in Nat /\ ImageOf.NewSize \in Nat
            BY ImageRules DEF ImageTypes, FileKinds, Phases
        <3> QED
            BY <2>1, <3>1, <3>2 DEF Image!SmallerOf
    <2>3. image' \in Seq(Cells) /\ Len(image') = n /\ free' \in Nat
        BY <1>1, <2>1, <2>2
    <2>4. ImageTypes' /\ ChosenInv'
        BY <1>2, <1>3, <2>1, <2>2, <2>3, ImageRules DEF Image!Allocate, ImageTypes, FileKinds, Phases, ChosenInv
    <2>5. CreateInv'
        BY <1>2, <1>3, <2>1, <2>2, <2>3 DEF Image!Allocate, CreateInv, Image!IsOs
    <2>6. WorkInv' /\ DoneInv'
        BY <1>2, <1>3 DEF Image!Allocate, WorkInv, DoneInv, Image!Done
    <2> QED
        BY <2>4, <2>5, <2>6
<1>4. CASE imageAt' = "done"
    <2>1. result' = "error" /\ UNCHANGED <<image, free>>
        BY <1>4 DEF Image!Allocate, Image!Ends
    <2> QED
        BY <1>4, <2>1, ImageRules DEF Image!Allocate, ImageTypes, FileKinds, Phases, ChosenInv, CreateInv, WorkInv, DoneInv, Image!Done
<1> QED
    BY <1>3, <1>4 DEF Image!Allocate, Image!Ends

LEMMA LoadStep == ASSUME Image!WwAssumption, ImageInv, Image!Load PROVE ImageInv'
<1> USE DEF ImageInv, Working
<1>1. part \in ImageOf.Offered /\ Image!Written \in 1..ImageOf.Bank /\ ImageOf.Bank \in Nat /\ part.kind \in {"bios", "os"}
    BY ImageRules, WrittenType DEF Image!Load, WorkInv
<1>2. CASE imageAt' = "open"
    <2>1. ram' = [y \in 0..ImageOf.Bank - 1 |-> IF y < Image!Written THEN <<part.kind, y>> ELSE ram[y]] /\ UNCHANGED result
        BY <1>2 DEF Image!Load, Image!Ends
    <2>2. ram' \in [0..(ImageOf.Bank - 1) -> Cells] /\ \A y \in 0..(Image!Written - 1) : ram'[y] = <<part.kind, y>>
        <3> HIDE DEF Working, ImageInv
        <3>1. \A y \in 0..(ImageOf.Bank - 1) : <<part.kind, y>> \in Cells /\ ram[y] \in Cells
            <4>1. \A y \in 0..(ImageOf.Bank - 1) : ram[y] \in Cells
                BY Kinds DEF ImageInv
            <4>2. \A y \in 0..(ImageOf.Bank - 1) : <<part.kind, y>> \in Cells
                BY <1>1 DEF Cells
            <4> QED
                BY <4>1, <4>2
        <3>2. ASSUME NEW y \in 0..(Image!Written - 1) PROVE ram'[y] = <<part.kind, y>>
            BY <1>1, <2>1
        <3> QED
            BY <1>1, <2>1, <3>1, <3>2
    <2>3. ImageTypes' /\ ChosenInv' /\ CreateInv' /\ DoneInv'
        BY <1>2, <2>1, <2>2 DEF Image!Load, ImageTypes, FileKinds, Phases, ChosenInv, CreateInv, DoneInv, Image!Done, Image!IsOs
    <2>4. WorkInv'
        BY <1>1, <1>2, <2>2 DEF Image!Load, WorkInv, Image!Written
    <2> QED
        BY <2>3, <2>4
<1>3. CASE imageAt' = "done"
    BY <1>3 DEF Image!Load, Image!Ends, ImageTypes, FileKinds, Phases, ChosenInv, CreateInv, WorkInv, DoneInv, Image!Done
<1> QED
    BY <1>2, <1>3 DEF Image!Load, Image!Ends

LEMMA FromType ==
    ASSUME Image!WwAssumption, NEW n \in Nat, n >= 2 * ImageOf.Bank
    PROVE  From(n) \in Nat /\ From(n) + ImageOf.Bank <= n /\ From(n) <= n /\ (Image!IsOs => From(n) + ImageOf.Bank = n - ImageOf.Bank)
BY ImageRules DEF From

LEMMA OpenStep == ASSUME Image!WwAssumption, ImageInv, Image!Open PROVE ImageInv'
<1> USE DEF ImageInv, Working
<1>1. Image!File \in Seq(Cells) /\ Len(Image!File) \in Nat /\ part \in ImageOf.Offered /\ size \in Nat /\ ImageOf.NewSize \in Nat /\ ImageOf.NewSize >= 2 * ImageOf.Bank
    BY Kinds, ImageRules DEF Image!Open, WorkInv, ImageTypes, FileKinds, Phases
<1>2. /\ imagePos' = 0 /\ UNCHANGED <<op, osChosen, part, image, flash, target, ram, free, said>>
      /\ size' = IF op = "replace" THEN Len(Image!File) ELSE size
      /\ UNCHANGED <<Image!File, Image!IsOs, Image!Written>>
    BY DEF Image!Open, Image!File, Image!IsOs, Image!Written
<1>3. size' \in Nat
    BY <1>1, <1>2
<1>4. \/ Image!File = <<>> /\ imageAt' = "done" /\ result' = (IF target = "flash" THEN "ok" ELSE "error")
      \/ imageAt' = "done" /\ result' = "invalid"
      \/ size' >= 2 * ImageOf.Bank /\ imageAt' = "seek" /\ result' = result
    <2>1. size' \in Nat /\ 2 * ImageOf.Bank \in Nat
        BY <1>3, ImageRules
    <2> QED
        BY <2>1 DEF Image!Open, Image!Ends
<1>5. ImageTypes' /\ ChosenInv'
    <2>1. imageAt' \in {"done", "seek"} /\ result' \in {"none", "ok", "error", "invalid"} /\ (result' = "none" <=> imageAt' # "done")
        BY <1>4 DEF Image!Open, ImageTypes, Phases
    <2>2. FileKinds'
        BY <1>2, <1>3 DEF ImageTypes, FileKinds
    <2> QED
        BY <1>2, <2>1, <2>2 DEF Image!Open, ImageTypes, Phases, ChosenInv
<1>6. CreateInv'
    BY <1>2, <1>4 DEF Image!Open, CreateInv
<1>7. WorkInv'
    <2>1. imageAt' # "done" => size' >= 2 * ImageOf.Bank /\ (op = "replace" => size' = Len(Image!File)')
        BY <1>2, <1>4
    <2>2. op' = "replace" /\ target' = "flash" => Placed(image, Len(image))'
        BY <1>2 DEF Image!Open, WorkInv, Placed, From
    <2> QED
        BY <1>2, <1>4, <2>1, <2>2 DEF Image!Open, WorkInv
<1>8. DoneInv'
    <2> SUFFICES ASSUME Image!Done' PROVE DoneInv'
        BY DEF DoneInv
    <2>1. Image!File = <<>> /\ target = "flash"
        BY <1>4 DEF Image!Done, Image!Open, ImageTypes, FileKinds, Phases
    <2>2. op = "replace" /\ flash = <<>>
        BY <2>1 DEF CreateInv, Image!Open, Image!File, ImageTypes, Phases
    <2> QED
        BY <1>1, <1>2, <2>1, <2>2 DEF DoneInv, WorkInv, Image!Open, Placed, From
<1> QED
    BY <1>5, <1>6, <1>7, <1>8

(* The seek goes no further than the file, whose size does not change.      *)
LEMMA SeekStays ==
    ASSUME Image!WwAssumption, ImageInv, Image!Seek
    PROVE  /\ UNCHANGED <<image, flash, free>>
           /\ imagePos' = Image!Base \/ (imagePos' < Image!Base /\ imagePos' = Len(Image!File) /\ free = 0)
           /\ imagePos' \in Nat /\ Image!Base \in Nat /\ Image!Base = From(size) /\ imagePos' <= Len(Image!File)
<1> USE DEF ImageInv, Working
<1>1. /\ Len(Image!File) \in Nat /\ free \in Nat /\ size \in Nat /\ part \in ImageOf.Offered
      /\ size >= 2 * ImageOf.Bank /\ (op = "replace" => size = Len(Image!File))
    BY Kinds DEF Image!Seek, WorkInv, ImageTypes, FileKinds, Phases
<1>2. Image!Base = From(size) /\ Image!Base \in Nat /\ Image!Base <= size
    BY <1>1, FromType DEF Image!Base, From
<1>3. Image!Base <= Len(Image!File) \/ free = 0
    BY <1>1, <1>2 DEF Image!Seek, CreateInv, Image!File, ImageTypes, FileKinds, Phases
<1>4. Image!SmallerOf(Image!Base, Len(Image!File) + free) \in Nat /\ Image!SmallerOf(Image!Base, Len(Image!File) + free) <= Len(Image!File)
    BY <1>1, <1>2, <1>3 DEF Image!SmallerOf
<1>5. UNCHANGED <<image, flash, free>> /\ imagePos' = Image!SmallerOf(Image!Base, Len(Image!File) + free)
    BY <1>1, <1>4 DEF Image!Seek, Image!SeekTo
<1>6. imagePos' = Image!Base \/ (imagePos' < Image!Base /\ imagePos' = Len(Image!File) /\ free = 0)
    BY <1>1, <1>2, <1>3, <1>5 DEF Image!SmallerOf
<1> QED
    BY <1>2, <1>4, <1>5, <1>6

LEMMA SeekStep == ASSUME Image!WwAssumption, ImageInv, Image!Seek PROVE ImageInv'
<1> USE DEF ImageInv, Working
<1>1. /\ UNCHANGED <<image, flash, free, op, osChosen, part, target, size, ram, said, result>> /\ imageAt' = "write" /\ imageAt = "seek"
      /\ UNCHANGED <<Image!File, Image!Base, Image!IsOs, Image!Written>>
    BY SeekStays DEF Image!Seek, Image!File, Image!Base, Image!IsOs, Image!Written
<1>2. /\ imagePos' = Image!Base \/ (imagePos' < Image!Base /\ imagePos' = Len(Image!File) /\ free = 0)
      /\ imagePos' \in Nat /\ Image!Base \in Nat /\ Image!Base = From(size) /\ imagePos' <= Len(Image!File)
    BY SeekStays
<1>3. ImageTypes' /\ ChosenInv' /\ CreateInv' /\ DoneInv'
    BY <1>1, <1>2 DEF ImageTypes, FileKinds, Phases, ChosenInv, CreateInv, DoneInv, Image!Done
<1>4. Image!Written \in 1..ImageOf.Bank /\ ImageOf.Bank \in Nat /\ Len(Image!File) \in Nat
    BY <1>1, WrittenType, ImageRules, Kinds DEF WorkInv
<1>5. (imagePos' < Image!Base /\ imagePos' = Len(Image!File) /\ free = 0) \/ (imagePos' - Image!Base \in 0..Image!Written /\ Copied(Image!File, size, imagePos' - Image!Base))
    <2>1. CASE imagePos' = Image!Base
        BY <1>2, <1>4, <2>1 DEF Copied
    <2> QED
        BY <1>2, <2>1
<1>6. WorkInv'
    <2>1. op' = "replace" /\ target' = "flash" => Placed(image, Len(image))'
        BY <1>1 DEF WorkInv, Placed, From
    <2>2. (\/ imagePos < Image!Base /\ imagePos = Len(Image!File) /\ free = 0
           \/ imagePos - Image!Base \in 0..Image!Written /\ Copied(Image!File, size, imagePos - Image!Base))'
        BY <1>1, <1>5 DEF Copied, From
    <2> QED
        BY <1>1, <2>1, <2>2 DEF WorkInv
<1> QED
    BY <1>3, <1>6

(* A cell of a file is written.                                             *)
LEMMA PutCell ==
    ASSUME NEW f \in Seq(Cells), NEW k \in 1..Len(f), NEW c \in Cells
    PROVE  LET g == [f EXCEPT ![k] = c]
           IN  /\ g \in Seq(Cells) /\ Len(g) = Len(f) /\ g[k] = c
               /\ \A y \in 1..Len(f) : y # k => g[y] = f[y]
<1> DEFINE g == [f EXCEPT ![k] = c]
<1>1. g \in Seq(Cells) /\ Len(g) = Len(f)
    BY ExceptSeq
<1>2. g[k] = c /\ \A y \in 1..Len(f) : y # k => g[y] = f[y]
    OBVIOUS
<1> QED
    BY <1>1, <1>2

(* What one cell of the open file means for both files.                     *)
LEMMA PutFile ==
    ASSUME FileKinds, target \in {"image", "flash"}, NEW k \in 1..Len(Image!File), NEW c \in Cells,
           Image!Put([Image!File EXCEPT ![k] = c]), target' = target
    PROVE  /\ image' \in Seq(Cells) /\ flash' \in Seq(Cells)
           /\ Len(image') = Len(image) /\ Len(flash') = Len(flash)
           /\ Len(Image!File') = Len(Image!File) /\ Image!File'[k] = c
           /\ \A y \in 1..Len(Image!File) : y # k => Image!File'[y] = Image!File[y]
           /\ target = "flash" => image' = image
           /\ target = "image" => flash' = flash
           /\ \A y \in 1..Len(image) : image'[y] # image[y] => y = k
<1> DEFINE g == [Image!File EXCEPT ![k] = c]
<1>1. image \in Seq(Cells) /\ flash \in Seq(Cells)
    BY DEF FileKinds
<1>2. Image!File \in Seq(Cells)
    BY <1>1 DEF Image!File
<1>3. g \in Seq(Cells) /\ Len(g) = Len(Image!File) /\ g[k] = c /\ \A y \in 1..Len(Image!File) : y # k => g[y] = Image!File[y]
    BY <1>2, PutCell
<1>4. Image!File' = g /\ (target = "flash" => image' = image /\ Image!File = flash /\ flash' = g)
      /\ (target = "image" => flash' = flash /\ Image!File = image /\ image' = g)
    BY Zenon DEF Image!Put, Image!File
<1> HIDE DEF g
<1>5. CASE target = "image"
    <2>1. Image!File' = g /\ Image!File = image /\ image' = g /\ flash' = flash /\ target # "flash"
        BY <1>4, <1>5
    <2>2. \A y \in 1..Len(image) : image'[y] # image[y] => y = k
        BY <1>3, <2>1, Zenon
    <2> QED
        BY <1>1, <1>3, <2>1, <2>2, Zenon
<1>6. CASE target = "flash"
    <2>1. Image!File' = g /\ Image!File = flash /\ flash' = g /\ image' = image /\ target # "image"
        BY <1>4, <1>6
    <2> QED
        BY <1>1, <1>3, <2>1, Zenon
<1> QED
    BY <1>5, <1>6

LEMMA Remains == ASSUME NEW n \in Nat \ {0}, NEW x \in Nat PROVE x % n \in 0..(n - 1)
OBVIOUS

(* A step of the copy: one more cell, or all are copied, or the card is     *)
(* full and nothing happens.                                                *)
LEMMA WriteCases ==
    ASSUME Image!WwAssumption, ImageInv, Image!Write
    PROVE  \/ imageAt' = "write" /\ UNCHANGED <<image, flash, imagePos, free>>
           \/ /\ imageAt' = (IF Image!IsOs THEN "foot" ELSE "next") /\ UNCHANGED <<image, flash, imagePos, free>>
              /\ Copied(Image!File, size, Image!Written)
           \/ /\ imageAt' = "write" /\ imagePos' = imagePos + 1 /\ free' = free
              /\ Copied(Image!File, size, imagePos - Image!Base) /\ imagePos - Image!Base \in 0..(Image!Written - 1)
              /\ imagePos + 1 \in 1..Len(Image!File) /\ Image!Put([Image!File EXCEPT ![imagePos + 1] = ram[imagePos % ImageOf.Bank]])
<1> USE DEF ImageInv, Working
<1>1. /\ Image!Written \in 1..ImageOf.Bank /\ Image!Base = From(size) /\ ImageOf.Bank \in Nat \ {0} /\ Len(Image!File) \in Nat /\ imagePos \in Nat
      /\ From(size) \in Nat /\ size \in Nat /\ size >= 2 * ImageOf.Bank /\ From(size) + ImageOf.Bank <= size
    BY WrittenType, ImageRules, Kinds, FromType DEF WorkInv, Image!Write
<1>2. CASE imagePos < Image!Base /\ imagePos = Len(Image!File) /\ free = 0
    BY <1>1, <1>2 DEF Image!Write, Image!WriteCell
<1>3. CASE imagePos - Image!Base \in 0..Image!Written /\ Copied(Image!File, size, imagePos - Image!Base)
    <2>1. imagePos - Image!Base <= Image!Written /\ imagePos <= Len(Image!File)
        BY <1>1, <1>3 DEF Copied
    <2>2. CASE imagePos >= Image!Base + Image!Written
        <3>1. imagePos - Image!Base = Image!Written
            BY <1>1, <1>3, <2>2
        <3> QED
            BY <1>3, <2>2, <3>1 DEF Image!Write
    <2>3. CASE imagePos < Image!Base + Image!Written
        <3>1. ~(imagePos >= Image!Base + Image!Written) /\ imagePos - Image!Base \in 0..(Image!Written - 1)
            BY <1>1, <1>3, <2>3
        <3>2. imageAt' = "write" /\ Image!WriteCell(ram[imagePos % ImageOf.Bank])
            BY <3>1 DEF Image!Write
        <3>3. CASE imagePos < Len(Image!File)
            <4>1. imagePos + 1 \in 1..Len(Image!File) /\ imagePos # Len(Image!File)
                BY <1>1, <3>3
            <4> QED
                BY <1>3, <3>1, <3>2, <4>1 DEF Image!WriteCell
        <3>4. CASE imagePos = Len(Image!File)
            <4>1. free = 0
                <5>1. imagePos < size
                    BY <1>1, <2>3
                <5> QED
                    BY <1>1, <3>4, <5>1 DEF WorkInv, CreateInv, Image!Write, ImageTypes, Phases, Image!File
            <4>2. ~(free > 0) /\ ~(imagePos < Len(Image!File))
                BY <1>1, <3>4, <4>1
            <4> QED
                BY <3>2, <4>2 DEF Image!WriteCell
        <3> QED
            BY <1>1, <2>1, <3>3, <3>4
    <2> QED
        BY <1>1, <2>2, <2>3
<1> QED
    BY <1>2, <1>3 DEF WorkInv, Image!Write

LEMMA WriteStep == ASSUME Image!WwAssumption, ImageInv, Image!Write PROVE ImageInv'
<1> USE DEF ImageInv, Working
<1>1. /\ imageAt = "write" /\ UNCHANGED <<op, osChosen, part, target, size, ram, said, result>>
      /\ UNCHANGED <<Image!Base, Image!IsOs, Image!Written>> /\ From(size)' = From(size)
    BY DEF Image!Write, Image!Base, Image!IsOs, Image!Written, From
<1>2. /\ Image!Written \in 1..ImageOf.Bank /\ Image!Base = From(size) /\ ImageOf.Bank \in Nat \ {0} /\ imagePos \in Nat
      /\ From(size) \in Nat /\ size \in Nat /\ size >= 2 * ImageOf.Bank /\ From(size) + ImageOf.Bank <= size
    BY <1>1, WrittenType, ImageRules, Kinds, FromType DEF WorkInv
<1>3. CASE imageAt' = "write" /\ UNCHANGED <<image, flash, imagePos, free>>
    BY <1>1, <1>3, SMTT(20) DEF ImageTypes, FileKinds, Phases, ChosenInv, CreateInv, WorkInv, DoneInv, Image!Done, Copied, Placed, From, Image!File
<1>4. CASE /\ imageAt' = (IF Image!IsOs THEN "foot" ELSE "next") /\ UNCHANGED <<image, flash, imagePos, free>>
           /\ Copied(Image!File, size, Image!Written)
    <2>1. Image!File' = Image!File
        BY <1>1, <1>4 DEF Image!File
    <2>2. ImageTypes' /\ ChosenInv' /\ CreateInv' /\ DoneInv'
        BY <1>1, <1>4 DEF ImageTypes, FileKinds, Phases, ChosenInv, CreateInv, DoneInv, Image!Done
    <2>3. ~Image!IsOs => Placed(Image!File, size)
        BY <1>4 DEF Copied, Placed
    <2>4. (Placed(Image!File, size)' <=> Placed(Image!File, size)) /\ (Copied(Image!File, size, Image!Written)' <=> Copied(Image!File, size, Image!Written))
          /\ (Placed(image, Len(image))' <=> Placed(image, Len(image)))
        BY <1>1, <1>4, <2>1 DEF Placed, Copied, From
    <2>5. WorkInv'
        BY <1>1, <1>4, <2>1, <2>3, <2>4 DEF WorkInv
    <2> QED
        BY <2>2, <2>5
<1>5. CASE /\ imageAt' = "write" /\ imagePos' = imagePos + 1 /\ free' = free
           /\ Copied(Image!File, size, imagePos - Image!Base) /\ imagePos - Image!Base \in 0..(Image!Written - 1)
           /\ imagePos + 1 \in 1..Len(Image!File) /\ Image!Put([Image!File EXCEPT ![imagePos + 1] = ram[imagePos % ImageOf.Bank]])
    <2>1. imagePos % ImageOf.Bank \in 0..(ImageOf.Bank - 1) /\ ram[imagePos % ImageOf.Bank] \in Cells
        <3>1. ImageTypes /\ imagePos \in Nat /\ ImageOf.Bank \in Nat \ {0}
            BY <1>2
        <3> HIDE DEF ImageInv
        <3>2. imagePos % ImageOf.Bank \in 0..(ImageOf.Bank - 1)
            BY <3>1, Remains
        <3> QED
            BY <3>1, <3>2, Kinds
    <2>2. /\ image' \in Seq(Cells) /\ flash' \in Seq(Cells)
          /\ Len(image') = Len(image) /\ Len(flash') = Len(flash)
          /\ Len(Image!File') = Len(Image!File) /\ Image!File'[imagePos + 1] = ram[imagePos % ImageOf.Bank]
          /\ \A y \in 1..Len(Image!File) : y # imagePos + 1 => Image!File'[y] = Image!File[y]
          /\ target = "flash" => image' = image
          /\ target = "image" => flash' = flash
        <3>1. FileKinds /\ target \in {"image", "flash"} /\ target' = target
            BY <1>1 DEF ImageTypes, Phases
        <3> HIDE DEF ImageInv
        <3> QED
            BY <1>5, <2>1, <3>1, PutFile
    <2>3. ImageTypes' /\ ChosenInv' /\ CreateInv' /\ DoneInv'
        BY <1>1, <1>2, <1>5, <2>2 DEF ImageTypes, FileKinds, Phases, ChosenInv, CreateInv, DoneInv, Image!Done
    <2>4. imagePos' - Image!Base \in 0..Image!Written /\ Copied(Image!File', size, imagePos' - Image!Base)
        <3>1. imagePos' - Image!Base \in 0..Image!Written /\ From(size) + (imagePos' - Image!Base) <= Len(Image!File')
            <4> DEFINE b == Image!Base
                       w == Image!Written
            <4>1. b \in Nat /\ b = From(size) /\ imagePos \in Nat /\ imagePos' = imagePos + 1 /\ w \in Nat
                BY <1>2, <1>5
            <4>2. imagePos - b \in 0..(w - 1) /\ imagePos + 1 \in 1..Len(Image!File) /\ Len(Image!File') = Len(Image!File) /\ Len(Image!File) \in Nat
                BY <1>5, <2>2, Kinds
            <4> HIDE DEF b, w, ImageInv
            <4>3. imagePos' - b \in 0..w /\ From(size) + (imagePos' - b) <= Len(Image!File')
                BY <4>1, <4>2
            <4> QED
                BY <4>3 DEF b, w
        <3>2. ASSUME NEW c \in 0..(imagePos' - Image!Base - 1)
              PROVE  Image!File'[From(size) + c + 1] = ram[(From(size) + c) % ImageOf.Bank]
            <4>1. CASE c = imagePos - Image!Base
                <5>1. From(size) + c = imagePos
                    BY <1>2, <4>1
                <5>2. Image!File'[imagePos + 1] = ram[imagePos % ImageOf.Bank]
                    BY <2>2
                <5> HIDE DEF ImageInv, Cells, Working
                <5> QED
                    BY <5>1, <5>2, Zenon
            <4>2. CASE c # imagePos - Image!Base
                <5>1. c \in 0..(imagePos - Image!Base - 1) /\ From(size) + c + 1 \in 1..Len(Image!File) /\ From(size) + c + 1 # imagePos + 1
                    <6>1. Len(Image!File) \in Nat /\ imagePos < Len(Image!File) /\ imagePos \in Nat /\ Image!Base \in Nat
                        BY <1>2, <1>5, Kinds
                    <6>2. c \in Nat /\ c <= imagePos - Image!Base
                        BY <1>5, <6>1
                    <6>3. From(size) = Image!Base
                        BY <1>2
                    <6>4. c < imagePos - Image!Base
                        BY <4>2, <6>1, <6>2
                    <6>5. c \in 0..imagePos - Image!Base - 1
                        BY <6>1, <6>2, <6>4
                    <6>6. Image!Base + c + 1 \in 1..Len(Image!File) /\ Image!Base + c + 1 # imagePos + 1
                        BY <6>1, <6>2, <6>4
                    <6> QED
                        BY <6>3, <6>5, <6>6
                <5> QED
                    BY <1>5, <2>2, <5>1 DEF Copied
            <4> QED
                BY <4>1, <4>2
        <3> QED
            BY <1>2, <3>1, <3>2 DEF Copied
    <2>5. WorkInv'
        <3>1. Copied(Image!File, size, imagePos - Image!Base)' <=> Copied(Image!File', size, imagePos' - Image!Base)
            BY <1>1 DEF Copied, From
        <3>2. op = "replace" => size = Len(Image!File')
            BY <1>1, <2>2 DEF WorkInv
        <3>3. op' = "replace" /\ target' = "flash" => Placed(image, Len(image))'
            BY <1>1, <2>2 DEF WorkInv, Placed, From
        <3> QED
            BY <1>1, <1>5, <2>4, <3>1, <3>2, <3>3 DEF WorkInv
    <2> QED
        BY <2>3, <2>5
<1> QED
    BY <1>3, <1>4, <1>5, WriteCases

LEMMA FootStep == ASSUME Image!WwAssumption, ImageInv, Image!Foot PROVE ImageInv'
<1> USE DEF ImageInv, Working
<1> DEFINE k == size - ImageOf.Bank
<1>1. /\ imageAt = "foot" /\ imageAt' = "next" /\ UNCHANGED <<op, osChosen, part, target, size, ram, free, said, result>>
      /\ UNCHANGED <<Image!Base, Image!IsOs, Image!Written>> /\ From(size)' = From(size) /\ Image!IsOs /\ imagePos' = k
      /\ Image!Put([Image!File EXCEPT ![k] = <<"foot", Image!Written>>]) /\ k <= Len(Image!File) /\ Copied(Image!File, size, Image!Written)
    BY DEF Image!Foot, Image!Base, Image!IsOs, Image!Written, From, WorkInv
<1>2. /\ Image!Written \in 1..ImageOf.Bank /\ ImageOf.Bank \in Nat \ {0} /\ Len(Image!File) \in Nat
      /\ From(size) \in Nat /\ size \in Nat /\ size >= 2 * ImageOf.Bank /\ From(size) + ImageOf.Bank = k
    BY <1>1, WrittenType, ImageRules, Kinds, FromType DEF WorkInv
<1>3. k \in 1..Len(Image!File) /\ k \in Nat
    BY <1>1, <1>2
<1>4. <<"foot", Image!Written>> \in Cells
    BY <1>2 DEF Cells
<1>5. FileKinds /\ target \in {"image", "flash"} /\ target' = target
    BY <1>1 DEF ImageTypes, Phases
<1> HIDE DEF k
<1>6. /\ image' \in Seq(Cells) /\ flash' \in Seq(Cells)
      /\ Len(image') = Len(image) /\ Len(flash') = Len(flash)
      /\ Len(Image!File') = Len(Image!File) /\ Image!File'[k] = <<"foot", Image!Written>>
      /\ \A y \in 1..Len(Image!File) : y # k => Image!File'[y] = Image!File[y]
      /\ target = "flash" => image' = image
      /\ target = "image" => flash' = flash
    <2> HIDE DEF ImageInv
    <2> QED
        BY <1>1, <1>3, <1>4, <1>5, PutFile
<1>7. ImageTypes' /\ ChosenInv' /\ CreateInv' /\ DoneInv'
    BY <1>1, <1>3, <1>6 DEF ImageTypes, FileKinds, Phases, ChosenInv, CreateInv, DoneInv, Image!Done
<1>8. Placed(Image!File', size)
    <2>1. From(size) + Image!Written <= Len(Image!File')
        BY <1>1, <1>6 DEF Copied
    <2>2. ASSUME NEW c \in 0..(Image!Written - 1), c # ImageOf.Bank - 1
          PROVE  Image!File'[From(size) + c + 1] = ram[(From(size) + c) % ImageOf.Bank]
        <3>1. From(size) + c + 1 # k /\ From(size) + c + 1 \in 1..Len(Image!File)
            <4>1. /\ ImageOf.Bank \in Nat /\ Image!Written \in Nat /\ From(size) \in Nat /\ Len(Image!File) \in Nat
                  /\ From(size) + ImageOf.Bank = k
                BY <1>2
            <4>2. From(size) + Image!Written <= Len(Image!File)
                BY <1>1 DEF Copied
            <4> HIDE DEF ImageInv
            <4> QED
                BY <2>2, <4>1, <4>2
        <3> QED
            BY <1>1, <1>6, <3>1 DEF Copied
    <2>3. k = size - ImageOf.Bank
        BY DEF k
    <2> QED
        BY <1>1, <1>2, <1>3, <1>6, <2>1, <2>2, <2>3 DEF Placed
<1>9. WorkInv'
    <2>1. Placed(Image!File, size)' <=> Placed(Image!File', size)
        BY <1>1 DEF Placed, From
    <2>2. op = "replace" => size = Len(Image!File')
        BY <1>1, <1>6 DEF WorkInv
    <2>3. op' = "replace" /\ target' = "flash" => Placed(image, Len(image))'
        BY <1>1, <1>6 DEF WorkInv, Placed, From
    <2> QED
        BY <1>1, <1>8, <2>1, <2>2, <2>3 DEF WorkInv
<1> QED
    BY <1>7, <1>9

LEMMA NextFileStep == ASSUME Image!WwAssumption, ImageInv, Image!NextFile PROVE ImageInv'
<1> USE DEF ImageInv, Working
<1>1. /\ imageAt = "next" /\ UNCHANGED <<op, osChosen, image, flash, size, imagePos, ram, free, said>>
      /\ Placed(Image!File, size) /\ size >= 2 * ImageOf.Bank /\ part \in ImageOf.Offered /\ target \in {"image", "flash"}
      /\ \A y \in 0..(Image!Written - 1) : ram[y] = <<part.kind, y>>
    BY DEF Image!NextFile, WorkInv, ImageTypes, Phases
<1>2. FileKinds'
    BY <1>1 DEF ImageTypes, FileKinds
<1>3. CASE op = "replace" /\ target = "image" /\ target' = "flash" /\ imageAt' = "open" /\ UNCHANGED <<part, result>>
    <2>1. size = Len(image)
        BY <1>1, <1>3 DEF WorkInv, Image!File
    <2>2. Placed(image, Len(image))'
        BY <1>1, <1>3, <2>1 DEF Placed, From, Image!File, Image!IsOs, Image!Written
    <2> QED
        BY <1>1, <1>2, <1>3, <2>2 DEF ImageTypes, Phases, ChosenInv, CreateInv, WorkInv, DoneInv, Image!Done, Image!Written
<1>4. CASE op = "replace" /\ target = "flash" /\ Image!Ends("ok") /\ UNCHANGED <<part, target>>
    <2>1. size = Len(flash) /\ Placed(image, Len(image))
        BY <1>1, <1>4 DEF WorkInv, Image!File
    <2>2. Placed(image, Len(image))' /\ Placed(flash, Len(flash))'
        BY <1>1, <1>4, <2>1 DEF Placed, From, Image!File, Image!IsOs, Image!Written
    <2>3. DoneInv'
        BY <1>1, <1>4, <2>2 DEF DoneInv, Image!Written
    <2> QED
        BY <1>1, <1>2, <1>4, <2>3 DEF Image!Ends, ImageTypes, Phases, ChosenInv, CreateInv, WorkInv
<1>5. CASE op = "create" /\ ~Image!IsOs /\ part' = osChosen /\ imageAt' = "load" /\ UNCHANGED <<target, result>>
    <2>1. target = "image" /\ size = ImageOf.NewSize /\ osChosen.kind = "os" /\ osChosen \in ImageOf.Offered
        BY <1>1, <1>5 DEF CreateInv, ImageTypes, Phases, Image!Nothing
    <2>2. Len(image) > ImageOf.NewSize - ImageOf.Bank
        <3>1. Image!Written \in 1..ImageOf.Bank /\ Len(image) \in Nat /\ ImageOf.NewSize \in Nat /\ ImageOf.Bank \in Nat
            BY <1>1, WrittenType, ImageRules, Kinds
        <3>2. ImageOf.NewSize - ImageOf.Bank + Image!Written <= Len(image)
            BY <1>1, <1>5, <2>1 DEF Placed, From, Image!File
        <3> QED
            BY <3>1, <3>2
    <2> QED
        BY <1>1, <1>2, <1>5, <2>1, <2>2 DEF ImageTypes, Phases, ChosenInv, CreateInv, WorkInv, DoneInv, Image!Done
<1>6. CASE op = "create" /\ Image!IsOs /\ Image!Ends("ok") /\ UNCHANGED <<part, target>>
    <2>1. target = "image" /\ size = ImageOf.NewSize /\ Len(image) <= ImageOf.NewSize /\ Len(image) > ImageOf.NewSize - ImageOf.Bank
        BY <1>1, <1>6 DEF CreateInv
    <2>2. Placed(image, ImageOf.NewSize)'
        BY <1>1, <1>6, <2>1 DEF Placed, From, Image!File, Image!IsOs, Image!Written
    <2>3. DoneInv'
        BY <1>1, <1>6, <2>1, <2>2 DEF DoneInv, Image!Written
    <2> QED
        BY <1>1, <1>2, <1>6, <2>3 DEF Image!Ends, ImageTypes, Phases, ChosenInv, CreateInv, WorkInv
<1> QED
    BY <1>3, <1>4, <1>5, <1>6 DEF Image!NextFile

LEMMA ImageStepKept == ASSUME Image!WwAssumption, ImageInv, [Image!Next]_(Image!vars) PROVE ImageInv'
<1>1. CASE UNCHANGED Image!vars
    <2>1. UNCHANGED <<Image!Base, Image!File, Image!IsOs, Image!Written, Image!Done, Copied(Image!File, size, imagePos - Image!Base), Copied(Image!File, size, Image!Written)>>
        BY <1>1 DEF Image!vars, Image!Base, Image!File, Image!IsOs, Image!Written, Image!Done, Copied, From
    <2>2. UNCHANGED <<Placed(Image!File, size), Placed(image, Len(image)), Placed(flash, Len(flash)), Placed(image, ImageOf.NewSize)>>
        BY <1>1 DEF Image!vars, Placed, From, Image!File, Image!IsOs, Image!Written
    <2>3. ImageTypes' /\ ChosenInv' /\ CreateInv'
        BY <1>1, <2>1, ZenonT(40) DEF Image!vars, ImageInv, ImageTypes, FileKinds, Phases, ChosenInv, CreateInv
    <2>4. WorkInv'
        BY <1>1, <2>1, <2>2 DEF Image!vars, ImageInv, WorkInv
    <2>5. DoneInv'
        BY <1>1, <2>1, <2>2 DEF Image!vars, ImageInv, DoneInv
    <2> QED
        BY <2>3, <2>4, <2>5 DEF ImageInv
<1> QED
    BY <1>1, ChoosingSteps, AllocateStep, LoadStep, OpenStep, SeekStep, WriteStep, FootStep, NextFileStep
    DEF Image!Next, Image!Steps

-----------------------------------------------------------------------------
LEMMA Multiple ==
    ASSUME NEW n \in Nat \ {0}, NEW x \in Nat, x % n = 0
    PROVE  x \div n \in Nat /\ x = n * (x \div n)
OBVIOUS

(* A smaller factor makes a multiple smaller by n at least.                 *)
LEMMA TimesMono ==
    ASSUME NEW n \in Nat \ {0}, NEW x \in Int, NEW y \in Int, x < y
    PROVE  n * x + n <= n * y
OBVIOUS

(* In a file of whole banks, the component starts at the start of one.      *)
LEMMA InBank ==
    ASSUME NEW n \in Nat \ {0}, NEW x \in Nat, x % n = 0, NEW k \in {1, 2}, NEW c \in 0..(n - 1), x >= k * n
    PROVE  (x - k * n + c) % n = c
<1> DEFINE q == x \div n
           b == x - k * n + c
           d == b \div n
           m == b % n
<1>1. q \in Nat /\ x = n * q
    BY Multiple
<1>2. n * (q - k) = x - k * n /\ q - k \in Int
    <2>1. k = 1 \/ k = 2
        OBVIOUS
    <2> QED
        BY <1>1, <2>1
<1>3. b \in Nat
    OBVIOUS
<1>4. d \in Nat /\ m \in 0..(n - 1) /\ b = n * d + m
    BY <1>3
<1> HIDE DEF q, d, m
<1>5. n * d + m = n * (q - k) + c /\ n * d \in Int /\ n * (q - k) \in Int
    BY <1>2, <1>4
<1>6. ~(d < q - k)
    BY <1>2, <1>4, <1>5, TimesMono
<1>7. ~(q - k < d)
    BY <1>2, <1>4, <1>5, TimesMono
<1>8. d = q - k
    BY <1>2, <1>4, <1>6, <1>7
<1> QED
    BY <1>4, <1>5, <1>8 DEF m

LEMMA HoldsIt ==
    ASSUME Image!WwAssumption, part \in ImageOf.Offered, NEW f \in Seq(Cells), Len(f) % ImageOf.Bank = 0, Placed(f, Len(f)),
           \A y \in 0..(Image!Written - 1) : ram[y] = <<part.kind, y>>
    PROVE  Image!Holds(f, part)
<1> DEFINE k == IF Image!IsOs THEN 2 ELSE 1
           b == Len(f) - k * ImageOf.Bank
<1>1. /\ ImageOf.Bank \in Nat \ {0} /\ ImageOf.Bank >= 2 /\ part.length \in Nat /\ Image!Written \in 1..ImageOf.Bank /\ Len(f) \in Nat
      /\ (part.kind = "os" <=> Image!IsOs)
    BY ImageRules, WrittenType DEF Image!IsOs
<1>2. From(Len(f)) = b /\ b \in Nat /\ Len(f) >= k * ImageOf.Bank /\ k \in {1, 2}
    BY <1>1 DEF From, Placed
<1>3. b = Len(f) - (IF part.kind = "os" THEN 2 * ImageOf.Bank ELSE ImageOf.Bank)
    BY <1>1
<1> HIDE DEF b, k
<1>4. ASSUME NEW y \in 0..(Image!SmallerOf(part.length, IF part.kind = "os" THEN ImageOf.Bank - 1 ELSE ImageOf.Bank) - 1)
      PROVE  f[b + y + 1] = <<part.kind, y>>
    <2>1. y \in 0..(Image!Written - 1) /\ (Image!IsOs => y # ImageOf.Bank - 1) /\ y \in 0..(ImageOf.Bank - 1)
        BY <1>1 DEF Image!SmallerOf, Image!Written
    <2>2. (b + y) % ImageOf.Bank = y
        BY <1>1, <1>2, <2>1, InBank, ZenonT(40) DEF b
    <2>3. f[b + y + 1] = ram[(b + y) % ImageOf.Bank]
        BY <1>2, <2>1 DEF Placed
    <2> QED
        BY <2>1, <2>2, <2>3
<1>5. b >= 0
    BY <1>2
<1> HIDE DEF Cells
<1> QED
    BY <1>3, <1>4, <1>5, Zenon DEF Image!Holds

LEMMA ImageMeans == ASSUME Image!WwAssumption, ImageInv PROVE Image!ComponentInPlace /\ Image!FootTellsLength
<1>1. image \in Seq(Cells) /\ flash \in Seq(Cells) /\ Len(image) \in Nat /\ op \in {"replace", "create"}
    BY Kinds DEF ImageInv, ImageTypes, Phases
<1>2. ASSUME Image!Done, Len(image) % ImageOf.Bank = 0, Len(flash) % ImageOf.Bank = 0
      PROVE  Image!Holds(image, part) /\ (op = "replace" /\ flash # <<>> => Image!Holds(flash, part))
    <2>1. part \in ImageOf.Offered /\ \A y \in 0..(Image!Written - 1) : ram[y] = <<part.kind, y>>
        BY <1>2 DEF ImageInv, DoneInv
    <2>2. CASE op = "replace"
        BY <1>1, <1>2, <2>1, <2>2, HoldsIt DEF ImageInv, DoneInv
    <2>3. CASE op = "create"
        <3>1. Placed(image, ImageOf.NewSize) /\ Len(image) <= ImageOf.NewSize /\ Len(image) > ImageOf.NewSize - ImageOf.Bank
            BY <1>2, <2>3 DEF ImageInv, DoneInv
        <3> DEFINE p == Len(image) \div ImageOf.Bank
                   q == ImageOf.NewSize \div ImageOf.Bank
        <3>2. /\ ImageOf.Bank \in Nat \ {0} /\ p \in Nat /\ q \in Nat /\ Len(image) = ImageOf.Bank * p
              /\ ImageOf.NewSize = ImageOf.Bank * q /\ ImageOf.NewSize \in Nat
            <4>1. ImageOf.Bank \in Nat \ {0} /\ ImageOf.NewSize \in Nat /\ ImageOf.NewSize % ImageOf.Bank = 0
                BY ImageRules
            <4>2. p \in Nat /\ Len(image) = ImageOf.Bank * p
                BY <1>1, <1>2, <4>1, Multiple
            <4>3. q \in Nat /\ ImageOf.NewSize = ImageOf.Bank * q
                BY <4>1, Multiple
            <4> QED
                BY <4>1, <4>2, <4>3
        <3> HIDE DEF p, q
        <3>3. ~(p < q)
            BY <3>1, <3>2, TimesMono
        <3>4. ~(q < p)
            BY <3>1, <3>2, TimesMono
        <3>5. Len(image) = ImageOf.NewSize
            BY <3>2, <3>3, <3>4
        <3> QED
            BY <1>1, <1>2, <2>1, <2>3, <3>1, <3>5, HoldsIt
    <2> QED
        BY <1>1, <2>2, <2>3
<1>3. Image!FootTellsLength
    BY <1>1 DEF Image!FootTellsLength, ImageInv, DoneInv, Placed
<1> QED
    BY <1>2, <1>3 DEF Image!ComponentInPlace

(* A step writes to the component's bank only.                              *)
LEMMA KeptHolds == ASSUME Image!WwAssumption, ImageInv, [Image!Next]_(Image!vars) PROVE Image!KeptStep
<1> USE DEF Working
<1>1. FileKinds /\ target \in {"image", "flash"} /\ Len(image) \in Nat
    BY Kinds DEF ImageInv, ImageTypes, Phases
<1>2. CASE Image!Write
    <2>1. /\ Image!Written \in 1..ImageOf.Bank /\ Image!Base = From(size) /\ ImageOf.Bank \in Nat \ {0} /\ imagePos \in Nat
          /\ From(size) \in Nat /\ size \in Nat /\ size >= 2 * ImageOf.Bank
        BY <1>2, WrittenType, ImageRules, Kinds, FromType DEF Image!Write, ImageInv, WorkInv
    <2>2. CASE UNCHANGED <<image, flash, imagePos, free>>
        BY <2>2 DEF Image!KeptStep
    <2>3. CASE /\ imagePos - Image!Base \in 0..(Image!Written - 1)
               /\ imagePos + 1 \in 1..Len(Image!File) /\ Image!Put([Image!File EXCEPT ![imagePos + 1] = ram[imagePos % ImageOf.Bank]])
        <3>1. ram[imagePos % ImageOf.Bank] \in Cells /\ target' = target
            BY <1>1, <1>2, <2>1, SMTT(20) DEF FileKinds, Image!Write
        <3>2. \A y \in 1..Len(image) : image'[y] # image[y] => y = imagePos + 1
            BY <1>1, <2>3, <3>1, PutFile
        <3>3. imagePos + 1 \in Image!Base + 1..Image!Base + ImageOf.Bank
            BY <2>1, <2>3
        <3> QED
            BY <2>1, <3>2, <3>3 DEF Image!KeptStep
    <2> QED
        BY <1>2, <2>2, <2>3, WriteCases
<1>3. CASE Image!Foot
    <2>1. /\ ImageOf.Bank \in Nat \ {0} /\ size \in Nat /\ size >= 2 * ImageOf.Bank /\ Image!IsOs /\ part \in ImageOf.Offered /\ target' = target
          /\ Image!Put([Image!File EXCEPT ![size - ImageOf.Bank] = <<"foot", Image!Written>>]) /\ size - ImageOf.Bank <= Len(Image!File) /\ Len(Image!File) \in Nat
        BY <1>1, <1>3, ImageRules, Kinds DEF Image!Foot, ImageInv, WorkInv, FileKinds
    <2>2. <<"foot", Image!Written>> \in Cells
        <3>1. Image!Written \in Nat
            BY <2>1, WrittenType
        <3> QED
            BY <3>1 DEF Cells
    <2>3. size - ImageOf.Bank \in 1..Len(Image!File) /\ size - ImageOf.Bank \in Image!Base + 1..Image!Base + ImageOf.Bank
        BY <2>1 DEF Image!Base
    <2>4. \A y \in 1..Len(image) : image'[y] # image[y] => y = size - ImageOf.Bank
        BY <1>1, <2>1, <2>2, <2>3, PutFile
    <2> QED
        BY <2>1, <2>3, <2>4 DEF Image!KeptStep
<1>4. CASE Image!Overwrite
    BY <1>4 DEF Image!Overwrite, Image!KeptStep
<1>5. CASE Image!Allocate
    <2>1. Len(image) = 0
        BY <1>5 DEF Image!Allocate, ImageInv, ChosenInv
    <2> QED
        BY <2>1 DEF Image!KeptStep
<1>6. CASE Image!Seek
    BY <1>6, SeekStays DEF Image!KeptStep
<1>7. CASE Image!Select \/ Image!SelectOs \/ Image!Load \/ Image!Open \/ Image!NextFile \/ Image!Fails \/ UNCHANGED Image!vars
    <2>1. image' = image
        BY <1>7 DEF Image!Select, Image!SelectOs, Image!Load, Image!Open, Image!NextFile, Image!Fails, Image!vars
    <2> QED
        BY <2>1 DEF Image!KeptStep
<1> QED
    BY <1>2, <1>3, <1>4, <1>5, <1>6, <1>7 DEF Image!Next, Image!Steps

-----------------------------------------------------------------------------
(* What is extracted *)

(* image.md:53: what the tables and the banks are.                          *)
ExtractRules == Extract!TablesAreSorted /\ Extract!BanksAreWhole

Beginning(s, n) == SubSeq(s, 1, n)

(* No entry before the one that is compared is the beginning of the bank.   *)
NoneBefore(n) == \A e \in DOMAIN Extract!Hashes : e < n => ~Extract!Prefix(Extract!Hashes[e].cells, Extract!Contained)

DigestInv ==
    extractAt = "digest" =>
        /\ found = 0 /\ extractPos \in 0..Extract!Size(entry) /\ context = Beginning(Extract!Contained, extractPos)
        /\ NoneBefore(entry)

CopyInv ==
    extractAt = "copy" =>
        /\ found \in DOMAIN Extract!Hashes /\ Extract!Prefix(Extract!Hashes[found].cells, Extract!Contained)
        /\ Len(out) \in 0..Extract!Size(found) /\ extractLeft = Extract!Size(found) - Len(out)
        /\ out = Beginning(Extract!Contained, Len(out))
        /\ extractPos = Len(out) \/ extractFree = 0

FbinInv ==
    /\ DOMAIN fbin = {"os", "bios"}
    /\ fbin["os"] # <<>> => \E e \in DOMAIN ExtractOf.Table : fbin["os"] = <<ExtractOf.Table[e].name, ExtractOf.Table[e].cells>>
    /\ fbin["bios"] # <<>> => \E e \in DOMAIN ExtractOf.BiosTable : fbin["bios"] = <<ExtractOf.BiosTable[e].name, ExtractOf.BiosTable[e].cells>>

ExtractInv ==
    /\ Extract!TypeOK /\ os \in ExtractOf.Contents
    /\ extractAt = "begin" => (extractPos = 0 /\ context = <<>> /\ found = 0 /\ entry = 1)
    /\ DigestInv /\ Extract!KnownIsFound /\ CopyInv
    /\ extractAt # "done" => extractResult = "none"
    /\ extractResult # "error" => FbinInv

LEMMA OneMore ==
    ASSUME NEW S, NEW s \in Seq(S), NEW n \in Nat, n < Len(s)
    PROVE  Append(Beginning(s, n), s[n + 1]) = Beginning(s, n + 1) /\ Len(Beginning(s, n)) = n
<1>1. n + 1 \in 1..Len(s) /\ 1 \in 1..Len(s) /\ n + 1 \in 1..(n + 1) /\ n + 1 \in 1..Len(s) /\ (n + 1) - 1 = n
    OBVIOUS
<1>2. SubSeq(s, 1, n + 1) = SubSeq(s, 1, n) \o <<s[n + 1]>>
    <2>1. n + 1 \in 1..Len(s)
        BY <1>1
    <2>2. SubSeq(s, 1, n + 1) = SubSeq(s, 1, (n + 1) - 1) \o <<s[n + 1]>>
        BY <1>1, SubSeqRecursiveSecond
    <2> QED
        BY <1>1, <2>2
<1>3. \A y \in 1..n : s[y] \in S
    OBVIOUS
<1>4. SubSeq(s, 1, n) \in Seq(S) /\ Len(SubSeq(s, 1, n)) = n
    BY <1>3, SubSeqProperties
<1>5. Append(SubSeq(s, 1, n), s[n + 1]) = SubSeq(s, 1, n) \o <<s[n + 1]>>
    BY <1>4, AppendIsConcat
<1> QED
    BY <1>2, <1>4, <1>5 DEF Beginning

LEMMA Beginnings ==
    ASSUME NEW S, NEW s \in Seq(S), NEW n \in 0..Len(s)
    PROVE  Beginning(s, n) \in Seq(S) /\ Len(Beginning(s, n)) = n
<1>1. \A y \in 1..n : s[y] \in S
    OBVIOUS
<1> QED
    BY <1>1, SubSeqProperties DEF Beginning

LEMMA Tables ==
    ASSUME ExtractRules, os \in ExtractOf.Contents, extractPart \in {"os", "bios"}
    PROVE  /\ Extract!Contained \in Seq({Extract!Contained[y] : y \in DOMAIN Extract!Contained}) /\ Len(Extract!Contained) = ExtractOf.Bank
           /\ ExtractOf.Bank \in Nat /\ ExtractOf.Free \in Nat
           /\ Len(Extract!Hashes) \in Nat \ {0} /\ DOMAIN Extract!Hashes = 1..Len(Extract!Hashes)
           /\ \A e \in DOMAIN Extract!Hashes : Extract!Size(e) \in 1..ExtractOf.Bank
           /\ \A e, f \in DOMAIN Extract!Hashes : e < f => Extract!Size(e) <= Extract!Size(f)
<1>1. Extract!Contained \in ExtractOf.Contents \cup {ExtractOf.BiosBank} /\ Extract!Hashes \in {ExtractOf.Table, ExtractOf.BiosTable}
    BY DEF Extract!Contained, Extract!Hashes
<1>2. Extract!Hashes # <<>> /\ Extract!Hashes \in Seq({Extract!Hashes[y] : y \in DOMAIN Extract!Hashes})
    BY <1>1 DEF ExtractRules, Extract!TablesAreSorted
<1>3. Len(Extract!Hashes) \in Nat \ {0} /\ DOMAIN Extract!Hashes = 1..Len(Extract!Hashes)
    BY <1>2
<1> QED
    BY <1>1, <1>3 DEF ExtractRules, Extract!TablesAreSorted, Extract!BanksAreWhole, Extract!Size

LEMMA ExtractInit == ASSUME ExtractRules, Extract!Init PROVE ExtractInv
<1>1. DOMAIN Extract!Hashes = 1..Len(Extract!Hashes) /\ Len(Extract!Hashes) \in Nat \ {0} /\ ExtractOf.Bank \in Nat /\ ExtractOf.Free \in Nat
    BY Tables DEF Extract!Init
<1> QED
    BY <1>1 DEF Extract!Init, ExtractInv, Extract!TypeOK, DigestInv, Extract!KnownIsFound, CopyInv, FbinInv

LEMMA DigestStep == ASSUME ExtractRules, ExtractInv, Extract!Digest PROVE ExtractInv'
<1> USE DEF ExtractInv
<1>1. /\ Extract!Contained \in Seq({Extract!Contained[y] : y \in DOMAIN Extract!Contained}) /\ Len(Extract!Contained) = ExtractOf.Bank
      /\ ExtractOf.Bank \in Nat /\ entry \in DOMAIN Extract!Hashes /\ Extract!Size(entry) \in 1..ExtractOf.Bank
    BY Tables DEF Extract!TypeOK
<1>2. extractPos \in Nat /\ extractPos < Extract!Size(entry) /\ extractPos < Len(Extract!Contained) /\ context = Beginning(Extract!Contained, extractPos)
    BY <1>1 DEF Extract!Digest, DigestInv
<1>3. Extract!Cell(extractPos) = Extract!Contained[extractPos + 1]
    BY <1>2 DEF Extract!Cell
<1>4. context' = Beginning(Extract!Contained, extractPos + 1)
    BY <1>1, <1>2, <1>3, OneMore DEF Extract!Digest
<1>5. UNCHANGED <<Extract!Hashes, Extract!Contained>>
    BY DEF Extract!Digest, Extract!Hashes, Extract!Contained
<1>6. Extract!TypeOK'
    BY <1>1, <1>2, <1>5 DEF Extract!Digest, Extract!TypeOK
<1>7. DigestInv'
    BY <1>1, <1>2, <1>4, <1>5 DEF Extract!Digest, DigestInv, NoneBefore, Extract!Size
<1> QED
    BY <1>6, <1>7 DEF Extract!Digest, Extract!KnownIsFound, CopyInv, FbinInv

LEMMA CompareStep == ASSUME ExtractRules, ExtractInv, Extract!Compare PROVE ExtractInv'
<1> USE DEF ExtractInv
<1>1. /\ Extract!Contained \in Seq({Extract!Contained[y] : y \in DOMAIN Extract!Contained}) /\ Len(Extract!Contained) = ExtractOf.Bank
      /\ ExtractOf.Bank \in Nat /\ entry \in DOMAIN Extract!Hashes /\ Extract!Size(entry) \in 1..ExtractOf.Bank
      /\ Len(Extract!Hashes) \in Nat \ {0} /\ DOMAIN Extract!Hashes = 1..Len(Extract!Hashes)
      /\ \A e, f \in DOMAIN Extract!Hashes : e < f => Extract!Size(e) <= Extract!Size(f)
      /\ \A e \in DOMAIN Extract!Hashes : Extract!Size(e) \in 1..ExtractOf.Bank
    BY Tables DEF Extract!TypeOK
<1>2. extractPos = Extract!Size(entry) /\ context = Beginning(Extract!Contained, Extract!Size(entry)) /\ found = 0 /\ NoneBefore(entry)
    BY <1>1 DEF Extract!Compare, DigestInv
<1>3. context = Extract!Hashes[entry].cells <=> Extract!Prefix(Extract!Hashes[entry].cells, Extract!Contained)
    BY <1>1, <1>2 DEF Extract!Prefix, Extract!Size, Beginning
<1>4. UNCHANGED <<Extract!Hashes, Extract!Contained>>
    BY DEF Extract!Compare, Extract!Hashes, Extract!Contained
<1>5. Extract!TypeOK'
    BY <1>1, <1>4 DEF Extract!Compare, Extract!TypeOK
<1>6. CASE context = Extract!Hashes[entry].cells
    BY <1>1, <1>3, <1>4, <1>5, <1>6 DEF Extract!Compare, DigestInv, Extract!KnownIsFound, CopyInv, FbinInv
<1>7. CASE context # Extract!Hashes[entry].cells
    <2>1. NoneBefore(entry + 1)
        BY <1>1, <1>2, <1>3, <1>7 DEF NoneBefore
    <2>2. Extract!KnownIsFound'
        BY <1>1, <1>2, <1>4, <1>7, <2>1 DEF Extract!Compare, Extract!KnownIsFound, NoneBefore
    <2>3. DigestInv'
        <3> SUFFICES ASSUME extractAt' = "digest" PROVE DigestInv'
            BY DEF DigestInv
        <3>1. entry' = entry + 1 /\ entry + 1 \in DOMAIN Extract!Hashes /\ extractPos' = extractPos /\ context' = context /\ found' = found
            BY <1>1, <1>7 DEF Extract!Compare
        <3>2. Extract!Size(entry)' = Extract!Size(entry + 1)
            BY <1>4, <3>1 DEF Extract!Size
        <3>3. Extract!Size(entry) <= Extract!Size(entry + 1)
            BY <1>1, <3>1
        <3>4. NoneBefore(entry)'
            BY <1>4, <2>1, <3>1 DEF NoneBefore
        <3> QED
            BY <1>1, <1>2, <1>4, <3>1, <3>2, <3>3, <3>4 DEF DigestInv
    <2> QED
        BY <1>5, <1>7, <2>2, <2>3 DEF Extract!Compare, CopyInv, FbinInv
<1> QED
    BY <1>6, <1>7

LEMMA FoundStep == ASSUME ExtractRules, ExtractInv, Extract!Found PROVE ExtractInv'
<1> USE DEF ExtractInv
<1>1. /\ Extract!Contained \in Seq({Extract!Contained[y] : y \in DOMAIN Extract!Contained}) /\ Len(Extract!Contained) = ExtractOf.Bank
      /\ ExtractOf.Bank \in Nat
      /\ Len(Extract!Hashes) \in Nat \ {0} /\ DOMAIN Extract!Hashes = 1..Len(Extract!Hashes)
      /\ \A e \in DOMAIN Extract!Hashes : Extract!Size(e) \in 1..ExtractOf.Bank
    BY Tables DEF Extract!TypeOK
<1>2. UNCHANGED <<Extract!Hashes, Extract!Contained>>
    BY DEF Extract!Found, Extract!Hashes, Extract!Contained
<1>3. found \in 0..Len(Extract!Hashes) /\ (found # 0 => found \in DOMAIN Extract!Hashes /\ Extract!Prefix(Extract!Hashes[found].cells, Extract!Contained))
    BY <1>1 DEF Extract!TypeOK, Extract!KnownIsFound, Extract!Found
<1>4. Extract!TypeOK'
    BY <1>1, <1>2, <1>3 DEF Extract!Found, Extract!TypeOK
<1>5. CopyInv'
    <2> SUFFICES ASSUME found # 0 PROVE CopyInv'
        BY DEF CopyInv, Extract!Found
    <2>1. out' = <<>> /\ Len(out') = 0 /\ extractPos' = 0 /\ extractLeft' = Extract!Size(found) /\ found' = found
        BY DEF Extract!Found
    <2>2. out' = Beginning(Extract!Contained, 0)
        BY <2>1, SubSeqEmpty DEF Beginning
    <2>3. Extract!Size(found)' = Extract!Size(found) /\ Extract!Size(found) \in 1..ExtractOf.Bank
        BY <1>1, <1>2, <1>3, <2>1 DEF Extract!Size
    <2> QED
        BY <1>1, <1>2, <1>3, <2>1, <2>2, <2>3 DEF CopyInv
<1> QED
    BY <1>4, <1>5 DEF Extract!Found, Extract!KnownIsFound, DigestInv, FbinInv

LEMMA CopyStep == ASSUME ExtractRules, ExtractInv, Extract!Copy PROVE ExtractInv'
<1> USE DEF ExtractInv
<1>1. /\ Extract!Contained \in Seq({Extract!Contained[y] : y \in DOMAIN Extract!Contained}) /\ Len(Extract!Contained) = ExtractOf.Bank
      /\ ExtractOf.Bank \in Nat /\ ExtractOf.Free \in Nat /\ found \in DOMAIN Extract!Hashes
      /\ \A e \in DOMAIN Extract!Hashes : Extract!Size(e) \in 1..ExtractOf.Bank
    BY Tables DEF Extract!TypeOK, CopyInv, Extract!Copy
<1>2. UNCHANGED <<Extract!Hashes, Extract!Contained>> /\ Extract!Size(found)' = Extract!Size(found)
    BY DEF Extract!Copy, Extract!Hashes, Extract!Contained, Extract!Size
<1> DEFINE n == Len(out)
<1>3. n \in Nat /\ extractLeft = Extract!Size(found) - n /\ n < Extract!Size(found) /\ Extract!Size(found) <= ExtractOf.Bank /\ out = Beginning(Extract!Contained, n)
    BY <1>1 DEF CopyInv, Extract!Copy
<1>4. Extract!TypeOK'
    <2>1. Extract!TypeOK /\ ExtractOf.Bank \in Nat /\ ExtractOf.Free \in Nat /\ Len(Extract!Contained) = ExtractOf.Bank
        BY <1>1
    <2> HIDE DEF ExtractInv
    <2>2. extractLeft' \in 0..ExtractOf.Bank /\ extractFree' \in 0..ExtractOf.Free
        BY <2>1, SMTT(20) DEF Extract!Copy, Extract!TypeOK
    <2>3. extractPos' \in 0..ExtractOf.Bank
        BY <2>1 DEF Extract!Copy, Extract!TypeOK
    <2>4. UNCHANGED <<extractAt, extractPart, entry, found, extractResult, Extract!Hashes>>
        BY <1>2 DEF Extract!Copy
    <2> QED
        BY <2>1, <2>2, <2>3, <2>4 DEF Extract!TypeOK
<1>5. CASE extractFree > 0
    <2>1. extractPos = n /\ Extract!Cell(extractPos) = Extract!Contained[n + 1]
        BY <1>1, <1>3, <1>5 DEF CopyInv, Extract!Copy, Extract!Cell
    <2>2. out' = Append(Beginning(Extract!Contained, n), Extract!Contained[n + 1])
        BY <1>3, <1>5, <2>1 DEF Extract!Copy
    <2>3. out' = Beginning(Extract!Contained, n + 1) /\ Len(out') = n + 1
        <3>1. n + 1 \in 0..Len(Extract!Contained) /\ n < Len(Extract!Contained)
            BY <1>1, <1>3
        <3>2. out' = Beginning(Extract!Contained, n + 1)
            BY <1>1, <1>3, <2>2, <3>1, OneMore
        <3> QED
            BY <1>1, <3>1, <3>2, Beginnings
    <2>4. extractLeft' = extractLeft - 1 /\ extractPos' = n + 1
        BY <1>1, <1>3, <1>5, <2>1 DEF Extract!Copy
    <2> HIDE DEF n
    <2>5. CopyInv'
        <3>1. /\ UNCHANGED <<extractAt, found, Extract!Hashes, Extract!Contained>> /\ Extract!Size(found)' = Extract!Size(found)
              /\ Extract!Size(found) \in Nat /\ Extract!Prefix(Extract!Hashes[found].cells, Extract!Contained)
            BY <1>1, <1>2 DEF CopyInv, Extract!Copy
        <3> HIDE DEF ExtractInv
        <3>2. Len(out') \in 0..Extract!Size(found) /\ extractLeft' = Extract!Size(found) - Len(out') /\ extractPos' = Len(out')
            BY <1>3, <2>3, <2>4, <3>1
        <3>3. out' = Beginning(Extract!Contained, Len(out'))
            BY <2>3
        <3>4. Extract!Prefix(Extract!Hashes[found].cells, Extract!Contained)' /\ found' \in DOMAIN Extract!Hashes'
            BY <1>1, <3>1 DEF Extract!Prefix
        <3> QED
            BY <3>1, <3>2, <3>3, <3>4 DEF CopyInv
    <2> QED
        BY <1>4, <2>5 DEF Extract!Copy, Extract!KnownIsFound, DigestInv, FbinInv
<1>6. CASE ~(extractFree > 0)
    <2>1. extractFree = 0 /\ out' = out /\ extractLeft' = extractLeft /\ extractFree' = 0
        BY <1>1, <1>6 DEF Extract!Copy, Extract!TypeOK
    <2>2. CopyInv'
        BY <1>1, <1>2, <2>1 DEF CopyInv, Extract!Copy
    <2> QED
        BY <1>4, <2>2 DEF Extract!Copy, Extract!KnownIsFound, DigestInv, FbinInv
<1> QED
    BY <1>5, <1>6

LEMMA CloseStep == ASSUME ExtractRules, ExtractInv, Extract!Close PROVE ExtractInv'
<1> USE DEF ExtractInv
<1>1. /\ ExtractOf.Bank \in Nat /\ found \in DOMAIN Extract!Hashes
      /\ \A e \in DOMAIN Extract!Hashes : Extract!Size(e) \in 1..ExtractOf.Bank
    BY Tables DEF Extract!TypeOK, CopyInv, Extract!Close
<1>2. out = Extract!Hashes[found].cells
    <2>1. Len(out) = Extract!Size(found) /\ out = Beginning(Extract!Contained, Extract!Size(found))
        BY <1>1 DEF CopyInv, Extract!Close
    <2> QED
        BY <2>1 DEF CopyInv, Extract!Close, Extract!Prefix, Extract!Size, Beginning
<1>3. Extract!TypeOK'
    BY DEF Extract!Close, Extract!TypeOK, Extract!Hashes
<1>4. FbinInv'
    BY <1>1, <1>2 DEF Extract!Close, FbinInv, Extract!Hashes, Extract!TypeOK
<1> QED
    BY <1>3, <1>4 DEF Extract!Close, Extract!KnownIsFound, DigestInv, CopyInv

LEMMA OtherSteps ==
    ASSUME ExtractRules, ExtractInv, Extract!Begin \/ Extract!NextPart \/ Extract!Fails \/ UNCHANGED Extract!vars PROVE ExtractInv'
<1> USE DEF ExtractInv
<1>1. CASE Extract!Begin
    <2>1. UNCHANGED <<Extract!Hashes, Extract!Contained>>
        BY <1>1 DEF Extract!Begin, Extract!Hashes, Extract!Contained
    <2>2. Extract!TypeOK'
        BY <1>1, <2>1 DEF Extract!Begin, Extract!Ends, Extract!TypeOK
    <2>3. /\ Len(Extract!Hashes) \in Nat /\ DOMAIN Extract!Hashes = 1..Len(Extract!Hashes) /\ entry \in DOMAIN Extract!Hashes
          /\ \A e \in DOMAIN Extract!Hashes : Extract!Size(e) \in 1..ExtractOf.Bank /\ ExtractOf.Bank \in Nat
        BY Tables DEF Extract!TypeOK
    <2>4. DigestInv'
        <3>1. Beginning(Extract!Contained, 0) = <<>>
            BY SubSeqEmpty DEF Beginning
        <3>2. Extract!Size(entry)' = Extract!Size(entry)
            BY <1>1, <2>1 DEF Extract!Begin, Extract!Size
        <3>3. \A e \in DOMAIN Extract!Hashes : ~(e < 1)
            BY <2>3
        <3> QED
            BY <1>1, <2>1, <2>3, <3>1, <3>2, <3>3 DEF Extract!Begin, Extract!Ends, DigestInv, NoneBefore
    <2> QED
        BY <1>1, <2>2, <2>4 DEF Extract!Begin, Extract!Ends, Extract!KnownIsFound, CopyInv, FbinInv
<1>2. CASE Extract!NextPart /\ extractPart = "bios"
    <2>1. Extract!TypeOK'
        BY <1>2 DEF Extract!NextPart, Extract!TypeOK, Extract!Ends, Extract!Hashes
    <2> QED
        BY <1>2, <2>1 DEF Extract!NextPart, Extract!Ends, Extract!KnownIsFound, CopyInv, DigestInv, FbinInv
<1>3. CASE Extract!NextPart /\ extractPart = "os"
    <2>1. /\ extractPart' = "bios" /\ extractAt' = "digest" /\ os' = os /\ entry' = 1 /\ extractPos' = 0
          /\ context' = <<>> /\ found' = 0 /\ UNCHANGED <<out, extractLeft, fbin, extractFree, extractResult>>
        BY <1>3 DEF Extract!NextPart
    <2>2. /\ Len(ExtractOf.BiosTable) \in Nat \ {0} /\ DOMAIN ExtractOf.BiosTable = 1..Len(ExtractOf.BiosTable) /\ ExtractOf.Bank \in Nat
          /\ \A e \in DOMAIN ExtractOf.BiosTable : Len(ExtractOf.BiosTable[e].cells) \in 1..ExtractOf.Bank
        BY DEF ExtractRules, Extract!TablesAreSorted, Extract!BanksAreWhole
    <2>3. Extract!Hashes' = ExtractOf.BiosTable
        BY <2>1 DEF Extract!Hashes
    <2>4. Extract!TypeOK'
        BY <2>1, <2>2, <2>3 DEF Extract!TypeOK
    <2>5. DigestInv'
        <3>1. context' = Beginning(Extract!Contained, 0)'
            BY <2>1, SubSeqEmpty DEF Beginning, Extract!Contained
        <3>2. Extract!Size(entry)' \in 1..ExtractOf.Bank
            BY <2>1, <2>2, <2>3 DEF Extract!Size
        <3>3. \A e \in DOMAIN ExtractOf.BiosTable : ~(e < 1)
            BY <2>2
        <3> QED
            BY <2>1, <2>2, <2>3, <3>1, <3>2, <3>3 DEF DigestInv, NoneBefore
    <2> QED
        BY <1>3, <2>1, <2>4, <2>5 DEF Extract!KnownIsFound, CopyInv, FbinInv, Extract!NextPart
<1>4. CASE Extract!Fails
    <2>1. Extract!TypeOK'
        BY <1>4 DEF Extract!Fails, Extract!TypeOK, Extract!Ends, Extract!Hashes
    <2> QED
        BY <1>4, <2>1 DEF Extract!Fails, Extract!Ends, Extract!KnownIsFound, CopyInv, DigestInv
<1>5. CASE UNCHANGED Extract!vars
    BY <1>5 DEF Extract!vars, Extract!TypeOK, Extract!KnownIsFound, CopyInv, DigestInv, FbinInv, Extract!Hashes, Extract!Contained, Extract!Size, NoneBefore
<1> QED
    BY <1>1, <1>2, <1>3, <1>4, <1>5 DEF Extract!TypeOK, Extract!NextPart

LEMMA ExtractStepKept == ASSUME ExtractRules, ExtractInv, [Extract!Next]_(Extract!vars) PROVE ExtractInv'
BY DigestStep, CompareStep, FoundStep, CopyStep, CloseStep, OtherSteps DEF Extract!Next, Extract!Steps

-----------------------------------------------------------------------------
(* The parts together: the part that runs is never left, and takes its own  *)
(* steps only.                                                              *)

LEMMA OneRuns == [FilesNext]_all => UNCHANGED on
BY Zenon DEF FilesNext, MenuStep, ShellStep, RemoteStep, SortStep, ImageStep, ExtractStep, Rest, all

LEMMA MenuRuns ==
    /\ [FilesNext]_all => ((on = "menu")' <=> on = "menu")
    /\ FilesInit /\ on = "menu" => Init
    /\ on = "menu" /\ [FilesNext]_all => [Next]_vars
<1>1. FilesInit /\ on = "menu" => Init
    BY DEF FilesInit
<1>2. ASSUME on = "menu", [FilesNext]_all PROVE [Next]_vars
    <2>1. CASE UNCHANGED all
        BY <2>1, Zenon DEF all
    <2>2. CASE FilesNext
        BY <1>2, <2>2 DEF FilesNext, MenuStep, ShellStep, RemoteStep, SortStep, ImageStep, ExtractStep
    <2> QED
        BY <1>2, <2>1, <2>2
<1> QED
    BY <1>1, <1>2, OneRuns, Zenon

LEMMA ShellRuns ==
    /\ [FilesNext]_all => ((on = "shell")' <=> on = "shell")
    /\ FilesInit /\ on = "shell" => Shell!Init
    /\ on = "shell" /\ [FilesNext]_all => [Shell!Next]_(Shell!vars)
<1>1. FilesInit /\ on = "shell" => Shell!Init
    BY DEF FilesInit
<1>2. ASSUME on = "shell", [FilesNext]_all PROVE [Shell!Next]_(Shell!vars)
    <2>1. CASE UNCHANGED all
        BY <2>1, Zenon DEF all, vars, Shell!vars
    <2>2. CASE FilesNext
        BY <1>2, <2>2 DEF FilesNext, MenuStep, ShellStep, RemoteStep, SortStep, ImageStep, ExtractStep
    <2> QED
        BY <1>2, <2>1, <2>2
<1> QED
    BY <1>1, <1>2, OneRuns, Zenon

LEMMA SortRuns ==
    /\ [FilesNext]_all => ((on = "sort")' <=> on = "sort")
    /\ FilesInit /\ on = "sort" => Sort!Init
    /\ on = "sort" /\ [FilesNext]_all => [Sort!Next]_(Sort!vars)
<1>1. FilesInit /\ on = "sort" => Sort!Init
    BY Zenon DEF FilesInit
<1>2. ASSUME on = "sort", [FilesNext]_all PROVE [Sort!Next]_(Sort!vars)
    <2>1. CASE UNCHANGED all
        BY <2>1, Zenon DEF all, sortVars, Sort!vars
    <2>2. CASE FilesNext
        BY <1>2, <2>2 DEF FilesNext, MenuStep, ShellStep, RemoteStep, SortStep, ImageStep, ExtractStep
    <2> QED
        BY <1>2, <2>1, <2>2
<1> QED
    BY <1>1, <1>2, OneRuns, Zenon

LEMMA ImageRuns ==
    /\ [FilesNext]_all => ((on = "image")' <=> on = "image")
    /\ FilesInit /\ on = "image" => Image!Init
    /\ on = "image" /\ [FilesNext]_all => [Image!Next]_(Image!vars)
<1>1. FilesInit /\ on = "image" => Image!Init
    BY Zenon DEF FilesInit
<1>2. ASSUME on = "image", [FilesNext]_all PROVE [Image!Next]_(Image!vars)
    <2>1. CASE UNCHANGED all
        BY <2>1, Zenon DEF all, imageVars, Image!vars
    <2>2. CASE FilesNext
        BY <1>2, <2>2 DEF FilesNext, MenuStep, ShellStep, RemoteStep, SortStep, ImageStep, ExtractStep
    <2> QED
        BY <1>2, <2>1, <2>2
<1> QED
    BY <1>1, <1>2, OneRuns, Zenon

LEMMA ExtractRuns ==
    /\ [FilesNext]_all => ((on = "extract")' <=> on = "extract")
    /\ FilesInit /\ on = "extract" => Extract!Init
    /\ on = "extract" /\ [FilesNext]_all => [Extract!Next]_(Extract!vars)
<1>1. FilesInit /\ on = "extract" => Extract!Init
    BY Zenon DEF FilesInit
<1>2. ASSUME on = "extract", [FilesNext]_all PROVE [Extract!Next]_(Extract!vars)
    <2>1. CASE UNCHANGED all
        BY <2>1, Zenon DEF all, extractVars, Extract!vars
    <2>2. CASE FilesNext
        BY <1>2, <2>2 DEF FilesNext, MenuStep, ShellStep, RemoteStep, SortStep, ImageStep, ExtractStep
    <2> QED
        BY <1>2, <2>1, <2>2
<1> QED
    BY <1>1, <1>2, OneRuns, Zenon

(* ui_file_selector_qsort.c, for any directory within the stack's bound, any *)
(* order and any T: the list that is shown is in the order of its comparator *)
(* and no scan leaves its range, not even by date.                           *)
THEOREM ListIsSorted == ASSUME StackSuffices PROVE FilesSpec => []ListSorted
<1> DEFINE I == StackInv /\ (Ordering => FullInv)
<1>1. SortRules
    BY PartsAssumption DEF SortRules, FilesAreFiles, Sort!QSortAssumption
<1>2. Sort!Init => I
    BY <1>1, InitStack, InitPlace, InitSort DEF FullInv
<1>3. I /\ [Sort!Next]_(Sort!vars) => I'
    BY StackStep, FullKept
<1>4. I => ListSorted
    <2>1. ASSUME I PROVE Sort!StaysInRange /\ Sort!StackHolds
        BY <2>1 DEF StackInv, Fits, PlaceInv, RangesInv, Sort!StaysInRange, Sort!StackHolds
    <2>2. mode \in Ordered => Ordering
        BY DEF Ordered, Ordering
    <2> QED
        BY <2>1, <2>2, FullMeans DEF ListSorted
<1>5. ~(on = "sort") => ListSorted
    BY DEF ListSorted
<1> HIDE DEF I
<1> QED
    BY <1>2, <1>3, <1>4, <1>5, SortRuns, PTL DEF FilesSpec

(* introduction.md:16, with two shells: one that does nothing and one that  *)
(* works while the list is shown.                                           *)
THEOREM ListStaysCurrent ==
    ASSUME ShellAsks, NoRam0, Shell!ShellAsks, Shell!NoRam0
    PROVE  FilesSpec => []ListIsCurrent
<1>1. Spec => []ListShowsDirectory
    BY ListIsTrue
<1>2. Shell!Spec => []Shell!ListShowsDirectory
    BY Shell!ListIsTrue, PartsAssumption
<1>3. FilesSpec => [](on = "menu" => ListShowsDirectory)
    BY <1>1, MenuRuns, PTL DEF FilesSpec, Spec
<1>4. FilesSpec => [](on = "shell" => Shell!ListShowsDirectory)
    BY <1>2, ShellRuns, PTL DEF FilesSpec, Shell!Spec
<1>5. (on = "menu" => ListShowsDirectory) /\ (on = "shell" => Shell!ListShowsDirectory) => ListIsCurrent
    BY DEF ListIsCurrent
<1> QED
    BY <1>3, <1>4, <1>5, PTL

(* path_depth, without a shell that changes the directory.                  *)
THEOREM CursorIsBack == ASSUME ShellStays, NoRam0 PROVE FilesSpec => CursorReturns
<1>1. Spec => [][CursorOnLeft]_vars
    BY CursorComesBack
<1>2. FilesSpec => [][on = "menu" => CursorOnLeft]_all
    <2>1. UNCHANGED vars => (on = "menu" => CursorOnLeft)
        BY DEF vars, CursorOnLeft
    <2> QED
        BY <1>1, <2>1, MenuRuns, PTL DEF FilesSpec, Spec
<1> QED
    BY <1>2 DEF CursorReturns

(* image.c:345, for a bank, files and components of any size, wherever the  *)
(* card refuses a call or is full: a component that was written, in place   *)
(* or in an image that was made, is where programs look for it and the      *)
(* footer of the image gives its length.                                    *)
THEOREM ComponentIsThere == FilesSpec => []ComponentInPlace
<1>1. Image!WwAssumption
    BY PartsAssumption
<1>2. Image!Init => ImageInv
    BY <1>1, ImageInit
<1>3. ImageInv /\ [Image!Next]_(Image!vars) => ImageInv'
    BY <1>1, ImageStepKept
<1>4. ImageInv => ComponentInPlace
    BY <1>1, ImageMeans DEF ComponentInPlace
<1>5. ~(on = "image") => ComponentInPlace
    BY DEF ComponentInPlace
<1> QED
    BY <1>2, <1>3, <1>4, <1>5, ImageRuns, PTL DEF FilesSpec

(* bios_os.c and image.md:53, for any table that is sorted and any banks: a  *)
(* known OS or BIOS is found though the comparison resumes the digest of the *)
(* entry before, and /fbin then has all of it.                               *)
THEOREM AllIsExtracted == FilesSpec => []ExtractedIsWhole
<1>1. ExtractRules
    BY PartsAssumption DEF ExtractRules
<1>2. Extract!Init => ExtractInv
    BY <1>1, ExtractInit
<1>3. ExtractInv /\ [Extract!Next]_(Extract!vars) => ExtractInv'
    BY <1>1, ExtractStepKept
<1>4. ExtractInv => ExtractedIsWhole
    BY DEF ExtractedIsWhole, ExtractInv, FbinInv, Extract!ExtractedIsWhole
<1>5. ~(on = "extract") => ExtractedIsWhole
    BY DEF ExtractedIsWhole
<1> QED
    BY <1>2, <1>3, <1>4, <1>5, ExtractRuns, PTL DEF FilesSpec

(* The menu deletes what it asked about, with and without the shell, and a   *)
(* tool writes to the bank it replaces only: three parts, one property.      *)
THEOREM NoOtherChange ==
    ASSUME ShellAsks, NoRam0, Shell!ShellAsks, Shell!NoRam0
    PROVE  FilesSpec => ChangesOnlyMeant
<1>1. Spec => [][AskedStep]_vars
    BY DeletesWhatItAsked DEF DeletesWhatWasAsked
<1>2. Shell!Spec => [][Shell!AskedStep]_(Shell!vars)
    BY Shell!DeletesWhatItAsked, PartsAssumption DEF Shell!DeletesWhatWasAsked
<1>3. FilesSpec => [][on = "menu" => AskedStep]_all
    <2>1. UNCHANGED vars => (on = "menu" => AskedStep)
        BY DEF vars, AskedStep
    <2> QED
        BY <1>1, <2>1, MenuRuns, PTL DEF FilesSpec, Spec
<1>4. FilesSpec => [][on = "shell" => Shell!AskedStep]_all
    <2>1. UNCHANGED Shell!vars => (on = "shell" => Shell!AskedStep)
        BY DEF Shell!vars, Shell!AskedStep
    <2> QED
        BY <1>2, <2>1, ShellRuns, PTL DEF FilesSpec, Shell!Spec
<1>5. FilesSpec => [][on = "image" => Image!KeptStep]_all
    <2>1. Image!WwAssumption
        BY PartsAssumption
    <2>2. Image!Init => ImageInv
        BY <2>1, ImageInit
    <2>3. ImageInv /\ [Image!Next]_(Image!vars) => ImageInv' /\ Image!KeptStep
        BY <2>1, ImageStepKept, KeptHolds
    <2> QED
        BY <2>2, <2>3, ImageRuns, PTL DEF FilesSpec
<1>6. FilesSpec => [][(on = "menu" => AskedStep) /\ (on = "shell" => Shell!AskedStep) /\ (on = "image" => Image!KeptStep)]_all
    BY <1>3, <1>4, <1>5, PTL
<1> QED
    BY <1>6, PTL DEF ChangesOnlyMeant
=============================================================================
