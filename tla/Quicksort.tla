------------------------------- MODULE Quicksort ----------------------------
(***************************************************************************)
(* table.sort (ltablib.c).  A step is one comparison and what follows it   *)
(* up to the next one, because a comparison may call a Lua function, which *)
(* may answer as it likes: `order' says whether the answers are those of   *)
(* an order or arbitrary.  `stack' holds the calls of auxsort that wait.   *)
(***************************************************************************)
EXTENDS Integers, Sequences, SequencesExt, FiniteSets

CONSTANTS
    Arrays,      \* what is sorted with an order: sequences of integers
    AnyArray,    \* a sequence, sorted with arbitrary answers
    RANLIMIT,    \* arrays larger than this may use randomized pivots
    Imbalance    \* 128 in the code

\* RANLIMIT is 100 in the code.  Below 4, choosePivot would divide by zero.
SortConstants ==
    /\ RANLIMIT \in Nat /\ RANLIMIT >= 4 /\ Imbalance \in Nat \ {0}
    /\ AnyArray \in Seq(Int) /\ \A s \in Arrays : s \in Seq(Int)

VARIABLES
    order,             \* "less" or "any"
    arr,               \* the array
    given,             \* the array as it was given
    pc,                \* what the next comparison is for; "done" and "error" at the end
    lo, up, random,    \* the interval, and is rnd not zero?
    mid, pivot,        \* the index of the pivot, and the pivot: p and P in the code
    ileft, jright,     \* the indices of partition: i and j in the code
    stack

sortVars == <<order, arr, given, pc, lo, up, random, mid, pivot, ileft, jright, stack>>

\* sort_comp: what a comparison of x and y may say
sort_comp(x, y) == IF order = "less" THEN {x < y} ELSE BOOLEAN

\* set2 for two elements on the stack: t[m] and t[n] change places.
set2(t, m, n) == [t EXCEPT ![m] = t[n], ![n] = t[m]]

\* The interval that auxsort works on when it begins, or when its call of itself returns.
\* A partition that was too imbalanced gets a new randomization, which may be zero.
Begin(l, u, rnd, waiting) ==
    /\ lo' = l /\ up' = u /\ random' = rnd /\ stack' = waiting
    /\ pc' = IF l < u THEN "ends" ELSE "return"
Return ==
    IF stack = <<>> THEN pc' = "done" /\ UNCHANGED <<lo, up, random, stack>>
    ELSE LET top == Head(stack)
             again == (top.up - top.lo) \div Imbalance > top.n
         IN  \E rnd \in IF again THEN BOOLEAN ELSE {top.random} :
                Begin(top.lo, top.up, rnd, Tail(stack))

\* The places of a pivot: the middle, or one in the two middle quarters
choosePivot(l, u, rnd) ==
    LET r4 == (u - l) \div 4
    IN  IF u - l < RANLIMIT \/ ~rnd THEN {(l + u) \div 2} ELSE l + r4..l + 3 * r4 - 1

SortInit ==
    /\ order \in {"less", "any"}
    /\ arr \in IF order = "less" THEN Arrays ELSE {AnyArray}
    /\ given = arr /\ lo = 1 /\ up = Len(arr) /\ random = FALSE /\ stack = <<>>
    /\ pc = IF up > 1 THEN "ends" ELSE "done"
    /\ mid = 0 /\ pivot = 0 /\ ileft = 0 /\ jright = 0

\* Order the first and the last element.
OrderEnds ==
    /\ pc = "ends"
    /\ \E less \in sort_comp(arr[up], arr[lo]) : arr' = IF less THEN set2(arr, lo, up) ELSE arr
    /\ IF up - lo = 1 THEN Return /\ UNCHANGED mid
       ELSE /\ mid' \in choosePivot(lo, up, random) /\ pc' = "lower"
            /\ UNCHANGED <<lo, up, random, stack>>
    /\ UNCHANGED <<order, given, pivot, ileft, jright>>

\* The three elements are ordered: the pivot goes before the last one.
Partition(t) ==
    IF up - lo = 2 THEN arr' = t /\ Return /\ UNCHANGED <<pivot, ileft, jright>>
    ELSE /\ arr' = set2(t, mid, up - 1) /\ pivot' = t[mid]
         /\ ileft' = lo /\ jright' = up - 1 /\ pc' = "up"
         /\ UNCHANGED <<lo, up, random, stack>>

OrderLower ==
    /\ pc = "lower"
    /\ \E less \in sort_comp(arr[mid], arr[lo]) :
          IF less THEN Partition(set2(arr, mid, lo))
          ELSE pc' = "upper" /\ UNCHANGED <<arr, lo, up, random, pivot, ileft, jright, stack>>
    /\ UNCHANGED <<order, given, mid>>

OrderUpper ==
    /\ pc = "upper"
    /\ \E less \in sort_comp(arr[up], arr[mid]) :
          Partition(IF less THEN set2(arr, mid, up) ELSE arr)
    /\ UNCHANGED <<order, given, mid>>

PastEnd(k) == k = up                                         \* variant
\* Was the pivot itself less than the pivot?
PastPivot(k) == k = up - 1

\* Repeat ++i while a[i] < P; i is `ileft'.
ScanUp ==
    /\ pc = "up" /\ ileft' = ileft + 1
    /\ \E less \in sort_comp(arr[ileft'], pivot) :
          pc' = IF ~less THEN "down" ELSE IF PastPivot(ileft') THEN "error" ELSE "up"
    /\ UNCHANGED <<order, arr, given, lo, up, random, mid, pivot, jright, stack>>

\* The partition is done with the pivot at `ileft': auxsort calls itself for the smaller side.
Recurse ==
    LET lower == [lo |-> lo, up |-> ileft - 1, n |-> ileft - lo, random |-> random]
        upper == [lo |-> ileft + 1, up |-> up, n |-> up - ileft, random |-> random]
        small == IF lower.n < upper.n THEN lower ELSE upper
        large == IF lower.n < upper.n THEN upper ELSE lower
    IN  Begin(small.lo, small.up, random, <<[large EXCEPT !.n = small.n]>> \o stack)

\* Repeat --j while P < a[j]; then exchange a[i] and a[j], or end the partition.  j is `jright'.
ScanDown ==
    /\ pc = "down" /\ jright' = jright - 1
    /\ \E less \in sort_comp(pivot, arr[jright']) :
          IF less THEN /\ pc' = IF jright' < ileft THEN "error" ELSE "down"
                       /\ UNCHANGED <<arr, lo, up, random, stack>>
          ELSE IF jright' < ileft
               THEN arr' = [arr EXCEPT ![up - 1] = arr[ileft], ![ileft] = pivot] /\ Recurse
          ELSE arr' = set2(arr, ileft, jright') /\ pc' = "up" /\ UNCHANGED <<lo, up, random, stack>>
    /\ UNCHANGED <<order, given, mid, pivot, ileft>>

\* A call of auxsort returns to the one that waits for it.
ReturnToCaller ==
    /\ pc = "return" /\ Return
    /\ UNCHANGED <<order, arr, given, mid, pivot, ileft, jright>>

SortNext == OrderEnds \/ OrderLower \/ OrderUpper \/ ScanUp \/ ScanDown \/ ReturnToCaller

SortSpec == SortInit /\ [][SortNext]_sortVars

-----------------------------------------------------------------------------
\* Whatever the comparisons answer, the sort stays inside its interval, the array always
\* has the elements that were given, also when a comparison raises an error, and each call
\* of auxsort has less than half of the elements of the one that made it, so that the depth of
\* the recursion is logarithmic; with an order, the sort makes no error and ends with a
\* sorted array (ltablib.c auxsort, partition).
SortIsRight ==
    /\ pc \in {"up", "down"} => lo <= ileft /\ ileft < up /\ lo <= jright /\ jright < up
    /\ \A v \in ToSet(given) : Cardinality({k \in DOMAIN arr : arr[k] = v})
                                 = Cardinality({k \in DOMAIN given : given[k] = v})
    /\ \A k \in DOMAIN stack :
          2 * stack[k].n < IF k = Len(stack) THEN Len(arr) ELSE stack[k + 1].n
    /\ order = "less" =>
         /\ pc # "error"
         /\ pc = "done" => \A k \in 1..Len(arr) - 1 : arr[k] <= arr[k + 1]

=============================================================================
