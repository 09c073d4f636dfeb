------------------------------- MODULE Arrays -------------------------------
(***************************************************************************)
(* qsort and bsearch (stdlib.c), lfind and lsearch (search.c), one         *)
(* comparison at a time.  An array is a function on 0 .. its size - 1; the *)
(* width of an item plays no part.  The recursion of qsort is a stack of   *)
(* the ranges that are still to be sorted.                                 *)
(***************************************************************************)
EXTENDS Integers, Sequences, FiniteSets

CONSTANTS
  Items,      \* what an array may hold and be searched for
  MaxCount,   \* how long an array may be: a bound
  Rank(_)     \* what the comparison function compares

ASSUME ArraysAssumption ==
  /\ MaxCount \in Nat
  /\ \A x \in Items : Rank(x) \in Int

VARIABLES
  fn,      \* the function that is called, or "none"
  done,    \* whether it has returned
  arr,     \* the array
  count,   \* how many items of it are in use
  key,     \* what is searched
  ranges,  \* qsort: the first index and the count of each range to sort
  i, hi,   \* the loop variable i or min, and max
  right,   \* qsort: right_side
  ret,     \* the result: an index, or NULL
  old      \* history: the array and the count at the call

arrayVars == <<fn, done, arr, count, key, ranges, i, hi, right, ret, old>>

NULL == 0 - 1

Comp(x, y) == Rank(x) - Rank(y)
Sorted(a, n) == \A j, k \in 0 .. n - 1 : j < k => Comp(a[j], a[k]) <= 0

\* The caller of lsearch has room for one item more; bsearch is for sorted
\* arrays.
ArraysInit ==
  /\ fn \in {"qsort", "bsearch", "lfind", "lsearch"} /\ done = FALSE
  /\ count \in 0 .. MaxCount
  /\ arr \in [0 .. count -> Items]
  /\ key \in Items
  /\ fn = "bsearch" => Sorted(arr, count)
  /\ ranges = IF fn = "qsort" THEN << <<0, count>> >> ELSE <<>>
  /\ i = 0 /\ hi = count /\ right = 0
  /\ ret = NULL
  /\ old = [arr |-> arr, count |-> count]

ArraysIdle ==
  /\ fn = "none" /\ done = TRUE
  /\ count = 0 /\ arr = << >> /\ key = NULL /\ ranges = <<>>
  /\ i = 0 /\ hi = 0 /\ right = 0 /\ ret = NULL
  /\ old = [arr |-> arr, count |-> count]

Running(f) == fn = f /\ ~done
Returns(r) == done' = TRUE /\ ret' = r /\ UNCHANGED fn
-----------------------------------------------------------------------------
(***************************************************************************)
(* qsort.  The ranges are sorted in the order of the recursive calls: the  *)
(* last of the sequence is the call that runs, and i, right are its loop.  *)
(***************************************************************************)
Top == ranges[Len(ranges)]
Rest == SubSeq(ranges, 1, Len(ranges) - 1)
Pivot == Top[1] + Top[2] - 1

Swap(a, m, n) == [a EXCEPT ![m] = a[n], ![n] = a[m]]

\* The innermost call goes on with the range s, or returns to the next.
Enter(s) ==
  /\ ranges' = s
  /\ i' = IF s = <<>> THEN 0 ELSE s[Len(s)][1]
  /\ right' = IF s = <<>> THEN 0 ELSE s[Len(s)][1]

\* A range of one item, or of none, is sorted.
SortShort ==
  /\ Running("qsort") /\ ranges # <<>> /\ Top[2] <= 1
  /\ Enter(Rest)
  /\ UNCHANGED <<fn, done, arr, count, key, hi, ret, old>>

\* One turn of the partition: a smaller item goes to the left.
SortCompare ==
  /\ Running("qsort") /\ ranges # <<>> /\ Top[2] > 1 /\ i < Pivot
  /\ i' = i + 1
  /\ IF Comp(arr[i], arr[Pivot]) < 0
     THEN arr' = Swap(arr, i, right) /\ right' = right + 1
     ELSE UNCHANGED <<arr, right>>
  /\ UNCHANGED <<fn, done, count, key, ranges, hi, ret, old>>

\* A mutation: the pivot stays where it was.
SortSplitNoPivot ==
  /\ Running("qsort") /\ ranges # <<>> /\ Top[2] > 1 /\ i = Pivot
  /\ LET left == right - Top[1]
     IN  Enter(Rest \o << <<right + 1, Top[2] - left - 1>>, <<Top[1], left>> >>)
  /\ UNCHANGED <<fn, done, arr, count, key, hi, ret, old>>

\* The pivot goes between the two sides, which are sorted then, left first.
SortSplit ==
  /\ Running("qsort") /\ ranges # <<>> /\ Top[2] > 1 /\ i = Pivot
  /\ arr' = Swap(arr, right, Pivot)
  /\ LET left == right - Top[1]
     IN  Enter(Rest \o << <<right + 1, Top[2] - left - 1>>, <<Top[1], left>> >>)
  /\ UNCHANGED <<fn, done, count, key, hi, ret, old>>

SortReturn ==
  /\ Running("qsort") /\ ranges = <<>>
  /\ Returns(NULL)
  /\ UNCHANGED <<arr, count, key, ranges, i, hi, right, old>>
-----------------------------------------------------------------------------
(***************************************************************************)
(* bsearch: the item is in i .. hi - 1, min and max in the code.           *)
(***************************************************************************)
Mid == ((hi - i) \div 2) + i

\* A mutation: max is moved one below the item that was too large.
BsearchLeftShort ==
  /\ Running("bsearch") /\ i < hi /\ Comp(arr[Mid], key) > 0
  /\ hi' = IF Mid > i THEN Mid - 1 ELSE Mid
  /\ UNCHANGED <<fn, done, arr, count, key, ranges, i, right, ret, old>>

BsearchLeft ==
  /\ Running("bsearch") /\ i < hi /\ Comp(arr[Mid], key) > 0
  /\ hi' = Mid
  /\ UNCHANGED <<fn, done, arr, count, key, ranges, i, right, ret, old>>

BsearchRight ==
  /\ Running("bsearch") /\ i < hi /\ Comp(arr[Mid], key) < 0
  /\ i' = Mid + 1
  /\ UNCHANGED <<fn, done, arr, count, key, ranges, hi, right, ret, old>>

BsearchFound ==
  /\ Running("bsearch") /\ i < hi /\ Comp(arr[Mid], key) = 0
  /\ Returns(Mid)
  /\ UNCHANGED <<arr, count, key, ranges, i, hi, right, old>>

BsearchFails ==
  /\ Running("bsearch") /\ i >= hi
  /\ Returns(NULL)
  /\ UNCHANGED <<arr, count, key, ranges, i, hi, right, old>>
-----------------------------------------------------------------------------
(***************************************************************************)
(* lfind, and lsearch, which calls it and enters what it has not found.    *)
(***************************************************************************)
Linear == Running("lfind") \/ Running("lsearch")

LfindNext ==
  /\ Linear /\ i < count /\ Comp(key, arr[i]) # 0
  /\ i' = i + 1
  /\ UNCHANGED <<fn, done, arr, count, key, ranges, hi, right, ret, old>>

LfindFound ==
  /\ Linear /\ i < count /\ Comp(key, arr[i]) = 0
  /\ Returns(i)
  /\ UNCHANGED <<arr, count, key, ranges, i, hi, right, old>>

LfindFails ==
  /\ Running("lfind") /\ i >= count
  /\ Returns(NULL)
  /\ UNCHANGED <<arr, count, key, ranges, i, hi, right, old>>

LsearchEnters ==
  /\ Running("lsearch") /\ i >= count
  /\ arr' = [arr EXCEPT ![count] = key]
  /\ count' = count + 1
  /\ Returns(count)
  /\ UNCHANGED <<key, ranges, i, hi, right, old>>

ArraysNext ==
  \/ SortShort \/ SortCompare \/ SortSplit \/ SortReturn
  \/ BsearchLeft \/ BsearchRight \/ BsearchFound \/ BsearchFails
  \/ LfindNext \/ LfindFound \/ LfindFails \/ LsearchEnters

\* A call by itself.
ArraysSpec == ArraysInit /\ [][ArraysNext]_arrayVars
-----------------------------------------------------------------------------
Times(x, a, n) == Cardinality({k \in 0 .. n - 1 : a[k] = x})

\* qsort leaves the items that were there, each as often as it was, in order,
\* and what lies behind them as it was: with ties, with the pivot already in
\* place, and with sides of no items.
QsortSorts ==
  fn = "qsort" /\ done =>
    /\ Sorted(arr, count)
    /\ \A x \in Items : Times(x, arr, count) = Times(x, old.arr, count)
    /\ arr[count] = old.arr[count]

Matches(k) == Comp(arr[k], key) = 0

\* A search finds an item if and only if there is one, whatever the length of
\* the array and wherever it is; lfind finds the first.  lsearch enters the
\* key behind the last item if it was not there, and nothing else changes.
SearchFinds ==
  fn \in {"bsearch", "lfind", "lsearch"} /\ done =>
    /\ ret = NULL => \A k \in 0 .. count - 1 : ~Matches(k)
    /\ ret # NULL => ret \in 0 .. count - 1 /\ Matches(ret)
    /\ fn # "bsearch" /\ ret # NULL => \A k \in 0 .. ret - 1 : ~Matches(k)
    /\ fn = "lsearch" => ret # NULL
    /\ IF fn = "lsearch" /\ ret = old.count
       THEN count = old.count + 1 /\ arr = [old.arr EXCEPT ![old.count] = key]
       ELSE count = old.count /\ arr = old.arr
=============================================================================
