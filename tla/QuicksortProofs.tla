--------------------------- MODULE QuicksortProofs --------------------------
(***************************************************************************)
(* Proof about Quicksort: any sequence, any answers of the comparisons.    *)
(*                                                                         *)
(* An interval that is still to be sorted is either the current one or one *)
(* of those that wait in the stack.  They are apart, and two elements that *)
(* are not in one of them together are in order already.                   *)
(***************************************************************************)
EXTENDS Quicksort, FiniteSetTheorems, TLAPS

Call == [lo : Int, up : Int, n : Nat, random : BOOLEAN]

TypeOK ==
    /\ order \in {"less", "any"} /\ arr \in Seq(Int) /\ given \in Seq(Int)
    /\ pc \in {"ends", "lower", "upper", "up", "down", "return", "done", "error"}
    /\ lo \in Int /\ up \in Int /\ random \in BOOLEAN
    /\ mid \in Int /\ pivot \in Int /\ ileft \in Int /\ jright \in Int
    /\ stack \in Seq(Call)

-----------------------------------------------------------------------------
(* The intervals, of an array of N elements.                               *)

Apart(l, u, m, v) == u < m \/ v < l

\* How many elements the call has that waits at k, or the running one at 0.
Elements(s, k, N) == IF k = Len(s) THEN N ELSE s[k + 1].n

Waiting(s, N) ==
    /\ \A k \in DOMAIN s :
          /\ 1 <= s[k].lo /\ s[k].lo <= s[k].up /\ s[k].up <= N
          /\ s[k].up - s[k].lo < Elements(s, k, N) /\ 2 * s[k].n < Elements(s, k, N)
    /\ \A k, m \in DOMAIN s : k < m => Apart(s[k].lo, s[k].up, s[m].lo, s[m].up)

Current(l, u, s, N) ==
    /\ 1 <= l /\ l <= u /\ u <= N /\ u - l < Elements(s, 0, N)
    /\ \A k \in DOMAIN s : Apart(l, u, s[k].lo, s[k].up)

\* Order: of two elements that are not both in one interval.
Together(s, x, y) == \E k \in DOMAIN s : s[k].lo <= x /\ y <= s[k].up
Sorted(t, s) ==
    \A x, y \in DOMAIN t : x < y => t[x] <= t[y] \/ Together(s, x, y)
SortedBut(t, l, u, s) ==
    \A x, y \in DOMAIN t : x < y => t[x] <= t[y] \/ (l <= x /\ y <= u) \/ Together(s, x, y)

-----------------------------------------------------------------------------
(* The inductive invariant.                                                *)

Active == pc \notin {"done", "error"}
Count(t, v) == Cardinality({k \in DOMAIN t : t[k] = v})

Intervals ==
    /\ Waiting(stack, Len(arr)) /\ (Active => Current(lo, up, stack, Len(arr)))
    /\ pc = "done" => stack = <<>>

Indices ==
    /\ pc = "ends" => lo < up
    /\ pc = "return" => lo = up
    /\ pc \in {"lower", "upper"} => lo < mid /\ mid < up
    /\ pc \in {"up", "down"} => /\ lo + 3 <= up /\ arr[up - 1] = pivot
                               /\ lo < jright /\ jright <= up - 1
    /\ pc = "up" => lo <= ileft /\ ileft <= up - 2
    /\ pc = "down" => lo < ileft /\ ileft <= up - 1

\* What partition says in its comments.
Divided ==
    /\ pc = "lower" => arr[lo] <= arr[up]
    /\ pc = "upper" => arr[lo] <= arr[mid] /\ arr[lo] <= arr[up]
    /\ pc = "up" => \A x \in lo..ileft : arr[x] <= pivot
    /\ pc = "down" => arr[ileft] >= pivot /\ \A x \in lo..ileft - 1 : arr[x] <= pivot
    /\ pc \in {"up", "down"} => \A x \in jright..up : arr[x] >= pivot

Ordered ==
    order = "less" =>
        /\ pc # "error" /\ Divided
        /\ IF Active THEN SortedBut(arr, lo, up, stack) ELSE Sorted(arr, stack)

Inv == /\ TypeOK /\ Intervals /\ Indices /\ Ordered
       /\ \A v : Count(arr, v) = Count(given, v)

-----------------------------------------------------------------------------
(* Exchanges.                                                              *)

LEMMA SeqFacts ==
    ASSUME NEW S, NEW s \in Seq(S)
    PROVE  /\ Len(s) \in Nat /\ DOMAIN s = 1..Len(s) /\ \A k \in 1..Len(s) : s[k] \in S
  OBVIOUS

LEMMA CallFacts ==
    ASSUME NEW s \in Seq(Call)
    PROVE  /\ Len(s) \in Nat /\ DOMAIN s = 1..Len(s)
           /\ \A k \in DOMAIN s : /\ s[k].lo \in Int /\ s[k].up \in Int /\ s[k].n \in Nat
                                  /\ s[k].random \in BOOLEAN
  <1>1. \A k \in DOMAIN s : s[k] \in Call
    BY SeqFacts
  <1> QED
    BY <1>1, SeqFacts DEF Call

LEMMA Exchanged ==
    ASSUME NEW t \in Seq(Int), NEW m \in 1..Len(t), NEW n \in 1..Len(t)
    PROVE  /\ set2(t, m, n) \in Seq(Int) /\ Len(set2(t, m, n)) = Len(t)
           /\ DOMAIN set2(t, m, n) = 1..Len(t)
           /\ set2(t, m, n)[m] = t[n] /\ set2(t, m, n)[n] = t[m]
           /\ \A k \in 1..Len(t) : k # m /\ k # n => set2(t, m, n)[k] = t[k]
  BY DEF set2

LEMMA ExchangeCounts ==
    ASSUME NEW t \in Seq(Int), NEW m \in 1..Len(t), NEW n \in 1..Len(t), NEW v
    PROVE  Count(set2(t, m, n), v) = Count(t, v)
  <1> DEFINE w == set2(t, m, n)
             A == {k \in DOMAIN t : t[k] = v}
             B == {k \in DOMAIN w : w[k] = v}
             f == [k \in A |-> IF k = m THEN n ELSE IF k = n THEN m ELSE k]
  <1>1. /\ DOMAIN w = 1..Len(t) /\ DOMAIN t = 1..Len(t) /\ w[m] = t[n] /\ w[n] = t[m]
        /\ \A k \in 1..Len(t) : k # m /\ k # n => w[k] = t[k]
    BY Exchanged
  <1> HIDE DEF w
  <1>2. f \in Bijection(A, B)
    <2>1. f \in [A -> B]
      BY <1>1
    <2>2. \A x, y \in A : f[x] = f[y] => x = y
      BY <1>1
    <2>3. \A y \in B : \E x \in A : f[x] = y
      <3> SUFFICES ASSUME NEW y \in B
                   PROVE  \E x \in A : f[x] = y
        OBVIOUS
      <3>1. CASE y = m
        <4>1. n \in A /\ f[n] = m
          BY <1>1, <3>1
        <4> QED
          BY <3>1, <4>1
      <3>2. CASE y = n
        <4>1. m \in A /\ f[m] = n
          BY <1>1, <3>2
        <4> QED
          BY <3>2, <4>1
      <3>3. CASE y # m /\ y # n
        <4>1. y \in A /\ f[y] = y
          BY <1>1, <3>3
        <4> QED
          BY <4>1
      <3> QED
        BY <3>1, <3>2, <3>3
    <2> QED
      BY <2>1, <2>2, <2>3 DEF Bijection, Injection, Surjection, IsInjective
  <1>3. IsFiniteSet(A)
    <2>1. IsFiniteSet(1..Len(t)) /\ A \subseteq 1..Len(t)
      BY <1>1, FS_Interval
    <2> QED
      BY <2>1, FS_Subset
  <1> QED
    BY <1>2, <1>3, FS_Bijection DEF ExistsBijection, Count, w

\* The interval is apart from the others, and whatever is outside is in order with all of it.
LEMMA ExchangeSorted ==
    ASSUME NEW s \in Seq(Call), NEW t \in Seq(Int), NEW l \in Int, NEW u \in Int,
           Current(l, u, s, Len(t)), SortedBut(t, l, u, s), NEW m \in l..u, NEW n \in l..u
    PROVE  SortedBut(set2(t, m, n), l, u, s)
  <1> DEFINE w == set2(t, m, n)
  <1>1. /\ m \in 1..Len(t) /\ n \in 1..Len(t) /\ DOMAIN t = 1..Len(t) /\ Len(t) \in Nat
        /\ \A k \in 1..Len(t) : t[k] \in Int
    BY SeqFacts DEF Current
  <1>2. /\ DOMAIN w = 1..Len(t) /\ w[m] = t[n] /\ w[n] = t[m]
        /\ \A k \in 1..Len(t) : k # m /\ k # n => w[k] = t[k]
    BY <1>1, Exchanged
  <1> HIDE DEF w
  <1> SUFFICES ASSUME NEW x \in 1..Len(t), NEW y \in 1..Len(t), x < y,
                      ~(l <= x /\ y <= u), ~Together(s, x, y)
               PROVE  w[x] <= w[y]
    BY <1>2 DEF SortedBut, w
  <1>3. \A k \in DOMAIN s : s[k].lo \in Int /\ s[k].up \in Int /\ Apart(l, u, s[k].lo, s[k].up)
    BY CallFacts DEF Current
  <1>4. \A z \in l..u : ~(l <= x /\ x <= u) => (x < l /\ ~Together(s, x, z)) \/ u < x
    BY <1>3 DEF Apart, Together
  <1>5. \A z \in l..u : ~(l <= y /\ y <= u) => (u < y /\ ~Together(s, z, y)) \/ y < l
    BY <1>3 DEF Apart, Together
  <1>6. PICK x0 \in 1..Len(t) : w[x] = t[x0] /\ (x0 = x \/ (x \in l..u /\ x0 \in l..u))
    BY <1>1, <1>2
  <1>7. PICK y0 \in 1..Len(t) : w[y] = t[y0] /\ (y0 = y \/ (y \in l..u /\ y0 \in l..u))
    BY <1>1, <1>2
  <1>8. x0 < y0 /\ ~(l <= x0 /\ y0 <= u) /\ ~Together(s, x0, y0)
    <2>1. CASE x \in l..u
      <3>1. ~(l <= y /\ y <= u) /\ y0 = y
        BY <1>7, <2>1
      <3>2. x0 \in l..u
        BY <1>6, <2>1
      <3> QED
        BY <1>5, <2>1, <3>1, <3>2
    <2>2. CASE x \notin l..u
      <3>1. x0 = x
        BY <1>6, <2>2
      <3>2. CASE y \in l..u
        <4>1. y0 \in l..u
          BY <1>7, <3>2
        <4> QED
          BY <1>4, <2>2, <3>1, <3>2, <4>1
      <3>3. CASE y \notin l..u
        BY <1>7, <3>1, <3>3
      <3> QED
        BY <3>2, <3>3
    <2> QED
      BY <2>1, <2>2
  <1> QED
    BY <1>1, <1>6, <1>7, <1>8 DEF SortedBut

LEMMA WholeSorted ==
    ASSUME NEW s, NEW t \in Seq(Int), NEW l \in Int, NEW u \in Int, SortedBut(t, l, u, s),
           \A x, y \in DOMAIN t : l <= x /\ x < y /\ y <= u => t[x] <= t[y]
    PROVE  Sorted(t, s)
  BY DEF Sorted, SortedBut

-----------------------------------------------------------------------------
(* Calls and returns.                                                      *)

LEMMA Pushed ==
    ASSUME NEW s \in Seq(Call), NEW c \in Call
    PROVE  /\ <<c>> \o s \in Seq(Call) /\ Len(<<c>> \o s) = Len(s) + 1
           /\ DOMAIN (<<c>> \o s) = 1..Len(s) + 1 /\ (<<c>> \o s)[1] = c
           /\ \A k \in 1..Len(s) : (<<c>> \o s)[k + 1] = s[k]
           /\ \A k \in 2..Len(s) + 1 : k - 1 \in 1..Len(s) /\ (<<c>> \o s)[k] = s[k - 1]
  OBVIOUS

LEMMA Popped ==
    ASSUME NEW s \in Seq(Call), s # <<>>
    PROVE  /\ Head(s) = s[1] /\ Head(s) \in Call /\ Tail(s) \in Seq(Call) /\ Len(s) \in Nat \ {0}
           /\ DOMAIN Tail(s) = 1..Len(s) - 1 /\ Len(Tail(s)) = Len(s) - 1
           /\ \A k \in 1..Len(s) - 1 : Tail(s)[k] = s[k + 1]
  OBVIOUS

\* A call returns: the one that waited goes on with the interval it has left.
LEMMA Return_ ==
    ASSUME NEW s \in Seq(Call), s # <<>>, NEW t \in Seq(Int), Waiting(s, Len(t))
    PROVE  /\ Waiting(Tail(s), Len(t))
           /\ Current(Head(s).lo, Head(s).up, Tail(s), Len(t))
           /\ Sorted(t, s) => SortedBut(t, Head(s).lo, Head(s).up, Tail(s))
  <1> DEFINE r == Tail(s)
  <1>1. /\ Head(s) = s[1] /\ DOMAIN r = 1..Len(s) - 1 /\ Len(r) = Len(s) - 1
        /\ \A k \in 1..Len(s) - 1 : r[k] = s[k + 1]
        /\ Len(s) \in Nat \ {0} /\ DOMAIN s = 1..Len(s) /\ 1 \in DOMAIN s
        /\ \A k \in DOMAIN r : k + 1 \in DOMAIN s /\ 1 < k + 1
    BY Popped, CallFacts
  <1> HIDE DEF r
  <1>2. \A k \in DOMAIN r : Elements(r, k, Len(t)) = Elements(s, k + 1, Len(t))
    BY <1>1 DEF Elements
  <1>3. Elements(r, 0, Len(t)) = Elements(s, 1, Len(t))
    BY <1>1 DEF Elements
  <1>4. Waiting(r, Len(t))
    <2>1. \A k \in DOMAIN r :
             /\ 1 <= r[k].lo /\ r[k].lo <= r[k].up /\ r[k].up <= Len(t)
             /\ r[k].up - r[k].lo < Elements(r, k, Len(t)) /\ 2 * r[k].n < Elements(r, k, Len(t))
      BY <1>1, <1>2 DEF Waiting
    <2>2. \A k, m \in DOMAIN r : k < m => Apart(r[k].lo, r[k].up, r[m].lo, r[m].up)
      <3> SUFFICES ASSUME NEW k \in 1..Len(s) - 1, NEW m \in 1..Len(s) - 1, k < m
                   PROVE  Apart(r[k].lo, r[k].up, r[m].lo, r[m].up)
        BY <1>1
      <3>1. k + 1 \in DOMAIN s /\ m + 1 \in DOMAIN s /\ k + 1 < m + 1
        BY <1>1
      <3> QED
        BY <1>1, <3>1 DEF Waiting
    <2> QED
      BY <2>1, <2>2 DEF Waiting
  <1>5. Current(Head(s).lo, Head(s).up, r, Len(t))
    BY <1>1, <1>3 DEF Waiting, Current
  <1>6. ASSUME Sorted(t, s)
        PROVE  SortedBut(t, Head(s).lo, Head(s).up, r)
    <2>1. \A x, y : Together(s, x, y) => (s[1].lo <= x /\ y <= s[1].up) \/ Together(r, x, y)
      <3> SUFFICES ASSUME NEW x, NEW y, Together(s, x, y)
                   PROVE  (s[1].lo <= x /\ y <= s[1].up) \/ Together(r, x, y)
        OBVIOUS
      <3>1. PICK k \in DOMAIN s : s[k].lo <= x /\ y <= s[k].up
        BY DEF Together
      <3>2. CASE k # 1
        <4>1. k - 1 \in DOMAIN r /\ r[k - 1] = s[k]
          BY <1>1, <3>2
        <4> QED
          BY <3>1, <4>1 DEF Together
      <3> QED
        BY <3>1, <3>2
    <2> QED
      BY <1>1, <1>6, <2>1 DEF Sorted, SortedBut
  <1> QED
    BY <1>4, <1>5, <1>6 DEF r

\* The interval is divided: the part between l and v is next, the one between m and w waits.
\* The call that waits has one of them, with the number of elements of the other, the
\* smaller one.
LEMMA Call_ ==
    ASSUME NEW s \in Seq(Call), NEW t \in Seq(Int), NEW l \in Int, NEW u \in Int,
           Waiting(s, Len(t)), Current(l, u, s, Len(t)),
           NEW c \in Call, NEW v \in Int, NEW w \in Int,
           l <= v, v <= w, w <= u, l <= c.lo, c.lo <= c.up, c.up <= u,
           Apart(v, w, c.lo, c.up), c.n = w - v + 1, c.n <= c.up - c.lo + 1,
           c.n + (c.up - c.lo + 1) = u - l
    PROVE  Waiting(<<c>> \o s, Len(t)) /\ Current(v, w, <<c>> \o s, Len(t))
  <1> DEFINE r == <<c>> \o s
             N == Len(t)
  <1>1. /\ r \in Seq(Call) /\ Len(r) = Len(s) + 1 /\ DOMAIN r = 1..Len(s) + 1 /\ r[1] = c
        /\ \A k \in 2..Len(s) + 1 : k - 1 \in 1..Len(s) /\ r[k] = s[k - 1]
        /\ \A k \in 1..Len(s) : r[k + 1] = s[k]
    BY Pushed
  <1>2. /\ Len(s) \in Nat /\ DOMAIN s = 1..Len(s) /\ N \in Nat
        /\ \A k \in DOMAIN s : s[k].lo \in Int /\ s[k].up \in Int /\ s[k].n \in Nat
    BY CallFacts
  <1>3. c.lo \in Int /\ c.up \in Int /\ c.n \in Nat
    BY DEF Call
  <1> HIDE DEF r
  <1>4. /\ Elements(r, 0, N) = c.n /\ Elements(r, 1, N) = Elements(s, 0, N)
        /\ \A k \in 2..Len(s) + 1 : Elements(r, k, N) = Elements(s, k - 1, N)
    BY <1>1, <1>2 DEF Elements
  <1>5. /\ 1 <= l /\ l <= u /\ u <= N /\ u - l < Elements(s, 0, N)
        /\ \A k \in DOMAIN s : Apart(l, u, s[k].lo, s[k].up)
    BY DEF Current
  <1>6. Elements(s, 0, N) \in Int
    <2>1. CASE Len(s) = 0
      BY <1>2, <2>1 DEF Elements
    <2>2. CASE Len(s) # 0
      <3>1. 1 \in DOMAIN s
        BY <1>2, <2>2
      <3> QED
        BY <1>2, <2>2, <3>1 DEF Elements
    <2> QED
      BY <2>1, <2>2
  <1>7. /\ c.up - c.lo < Elements(r, 1, N) /\ 2 * c.n < Elements(r, 1, N)
        /\ 1 <= c.lo /\ c.up <= N /\ w - v < Elements(r, 0, N)
    <2> DEFINE e == Elements(s, 0, N)
    <2>1. e \in Int /\ u - l < e /\ 1 <= l /\ u <= N /\ N \in Int
      BY <1>2, <1>5, <1>6
    <2> HIDE DEF e, N
    <2>2. c.up - c.lo < e /\ 2 * c.n < e /\ 1 <= c.lo /\ c.up <= N /\ w - v < c.n
      BY <1>3, <2>1
    <2> QED
      BY <1>4, <2>2 DEF e
  <1>8. \A k \in 1..Len(s) : /\ Apart(c.lo, c.up, s[k].lo, s[k].up)
                             /\ Apart(v, w, s[k].lo, s[k].up)
    <2> SUFFICES ASSUME NEW k \in 1..Len(s)
                 PROVE  /\ Apart(c.lo, c.up, s[k].lo, s[k].up)
                        /\ Apart(v, w, s[k].lo, s[k].up)
      OBVIOUS
    <2>1. /\ s[k].lo \in Int /\ s[k].up \in Int
          /\ u < s[k].lo \/ s[k].up < l
      BY <1>2, <1>5 DEF Apart
    <2>2. \A x, y \in Int : l <= x /\ y <= u => Apart(x, y, s[k].lo, s[k].up)
      BY <2>1 DEF Apart
    <2>3. l <= c.lo /\ c.up <= u /\ w <= u /\ l <= v
      OBVIOUS
    <2> QED
      BY <1>3, <2>2, <2>3
  <1>9. \A k \in DOMAIN r : /\ 1 <= r[k].lo /\ r[k].lo <= r[k].up /\ r[k].up <= N
                            /\ r[k].up - r[k].lo < Elements(r, k, N)
                            /\ 2 * r[k].n < Elements(r, k, N)
    <2> SUFFICES ASSUME NEW k \in 1..Len(s) + 1
                 PROVE  /\ 1 <= r[k].lo /\ r[k].lo <= r[k].up /\ r[k].up <= N
                        /\ r[k].up - r[k].lo < Elements(r, k, N)
                        /\ 2 * r[k].n < Elements(r, k, N)
      BY <1>1
    <2>1. CASE k = 1
      BY <1>1, <1>7, <2>1
    <2>2. CASE k # 1
      <3>1. k \in 2..Len(s) + 1
        BY <1>2, <2>2
      <3> QED
        BY <1>1, <1>2, <1>4, <3>1 DEF Waiting
    <2> QED
      BY <2>1, <2>2
  <1>10. \A k, m \in DOMAIN r : k < m => Apart(r[k].lo, r[k].up, r[m].lo, r[m].up)
    <2> SUFFICES ASSUME NEW k \in 1..Len(s) + 1, NEW m \in 1..Len(s) + 1, k < m
                 PROVE  Apart(r[k].lo, r[k].up, r[m].lo, r[m].up)
      BY <1>1
    <2>1. m \in 2..Len(s) + 1 /\ r[m] = s[m - 1] /\ m - 1 \in 1..Len(s)
      BY <1>1, <1>2
    <2>2. CASE k = 1
      BY <1>1, <1>8, <2>1, <2>2
    <2>3. CASE k # 1
      <3>1. k \in 2..Len(s) + 1
        BY <1>2, <2>3
      <3>2. r[k] = s[k - 1] /\ k - 1 \in 1..Len(s) /\ k - 1 < m - 1
        BY <1>1, <3>1
      <3> QED
        BY <1>2, <2>1, <3>2 DEF Waiting
    <2> QED
      BY <2>2, <2>3
  <1>11. \A k \in DOMAIN r : Apart(v, w, r[k].lo, r[k].up)
    <2> SUFFICES ASSUME NEW k \in 1..Len(s) + 1
                 PROVE  Apart(v, w, r[k].lo, r[k].up)
      BY <1>1
    <2>1. CASE k = 1
      BY <1>1, <2>1
    <2>2. CASE k # 1
      <3>1. k \in 2..Len(s) + 1
        BY <1>2, <2>2
      <3> QED
        BY <1>1, <1>8, <3>1
    <2> QED
      BY <2>1, <2>2
  <1>12. Waiting(r, N)
    BY <1>9, <1>10 DEF Waiting
  <1>13. Current(v, w, r, N)
    BY <1>2, <1>5, <1>7, <1>11 DEF Current
  <1> QED
    BY <1>12, <1>13 DEF r

-----------------------------------------------------------------------------
(* Between two comparisons.                                                *)

\* What is true in any state, of the array and the intervals.
LEMMA Facts ==
    ASSUME Inv
    PROVE  /\ arr \in Seq(Int) /\ stack \in Seq(Call)
           /\ Len(arr) \in Nat /\ DOMAIN arr = 1..Len(arr)
           /\ \A k \in 1..Len(arr) : arr[k] \in Int
           /\ lo \in Int /\ up \in Int /\ random \in BOOLEAN
           /\ mid \in Int /\ pivot \in Int /\ ileft \in Int /\ jright \in Int
           /\ Active => /\ Current(lo, up, stack, Len(arr)) /\ 1 <= lo /\ lo <= up /\ up <= Len(arr)
                        /\ lo..up \subseteq 1..Len(arr)
  BY SeqFacts DEF Inv, TypeOK, Intervals, Current

\* The elements of the interval change places.
Permuted(t) ==
    /\ t \in Seq(Int) /\ Len(t) = Len(arr) /\ \A v : Count(t, v) = Count(arr, v)
    /\ SortedBut(arr, lo, up, stack) => SortedBut(t, lo, up, stack)

LEMMA PermutedOnce ==
    ASSUME Inv, Active, NEW m \in lo..up, NEW n \in lo..up
    PROVE  Permuted(arr) /\ Permuted(set2(arr, m, n))
  <1>1. m \in 1..Len(arr) /\ n \in 1..Len(arr)
    BY Facts
  <1>2. Permuted(arr)
    BY Facts DEF Permuted
  <1>3. set2(arr, m, n) \in Seq(Int) /\ Len(set2(arr, m, n)) = Len(arr)
    BY <1>1, Facts, Exchanged
  <1>4. \A v : Count(set2(arr, m, n), v) = Count(arr, v)
    BY <1>1, Facts, ExchangeCounts
  <1>5. SortedBut(arr, lo, up, stack) => SortedBut(set2(arr, m, n), lo, up, stack)
    BY Facts, ExchangeSorted
  <1> QED
    BY <1>2, <1>3, <1>4, <1>5 DEF Permuted

LEMMA PermutedTwice ==
    ASSUME Inv, Active, NEW t, Permuted(t), NEW m \in lo..up, NEW n \in lo..up
    PROVE  Permuted(set2(t, m, n))
  <1>1. t \in Seq(Int) /\ Len(t) = Len(arr) /\ m \in 1..Len(t) /\ n \in 1..Len(t)
    BY Facts DEF Permuted
  <1>2. set2(t, m, n) \in Seq(Int) /\ Len(set2(t, m, n)) = Len(arr)
    BY <1>1, Exchanged
  <1>3. \A v : Count(set2(t, m, n), v) = Count(arr, v)
    BY <1>1, ExchangeCounts DEF Permuted
  <1>4. SortedBut(arr, lo, up, stack) => SortedBut(set2(t, m, n), lo, up, stack)
    BY <1>1, Facts, ExchangeSorted DEF Permuted
  <1> QED
    BY <1>2, <1>3, <1>4 DEF Permuted

\* A step within the interval.
LEMMA StaysInside ==
    ASSUME Inv, Active, Permuted(arr'), UNCHANGED <<order, given, lo, up, random, stack>>,
           pc' \in {"ends", "lower", "upper", "up", "down"},
           mid' \in Int, pivot' \in Int, ileft' \in Int, jright' \in Int, Indices',
           order = "less" => Divided'
    PROVE  Inv'
  <1>1. TypeOK'
    BY DEF Inv, TypeOK, Permuted
  <1>2. Active' /\ Len(arr') = Len(arr) /\ pc' # "error" /\ pc' # "done"
    BY DEF Active, Permuted
  <1>3. Intervals'
    BY <1>2 DEF Inv, Intervals
  <1>4. Ordered'
    BY <1>2 DEF Inv, Ordered, Permuted
  <1>5. \A v : Count(arr', v) = Count(given', v)
    BY DEF Inv, Permuted
  <1> QED
    BY <1>1, <1>3, <1>4, <1>5 DEF Inv

\* The interval is sorted, and the call returns.
LEMMA Returns ==
    ASSUME Inv, Active, Permuted(arr'), UNCHANGED <<order, given>>, Return,
           mid' \in Int, pivot' \in Int, ileft' \in Int, jright' \in Int,
           order = "less" =>
               \A x, y \in lo..up : x < y => arr'[x] <= arr'[y]
    PROVE  Inv'
  <1>1. /\ stack \in Seq(Call) /\ arr' \in Seq(Int) /\ Len(arr') = Len(arr)
        /\ Waiting(stack, Len(arr)) /\ \A v : Count(arr', v) = Count(given', v)
        /\ lo \in Int /\ up \in Int
    BY Facts DEF Inv, Intervals, Permuted
  <1>2. order = "less" => Sorted(arr', stack)
    <2> SUFFICES ASSUME order = "less"
                 PROVE  Sorted(arr', stack)
      OBVIOUS
    <2>1. SortedBut(arr', lo, up, stack)
      BY DEF Inv, Ordered, Permuted
    <2>2. \A x, y \in DOMAIN arr' : lo <= x /\ x < y /\ y <= up => arr'[x] <= arr'[y]
      BY <1>1, SeqFacts
    <2> QED
      BY <1>1, <2>1, <2>2, WholeSorted
  <1>3. CASE stack = <<>>
    <2>1. pc' = "done" /\ UNCHANGED <<lo, up, random, stack>>
      BY <1>3 DEF Return
    <2>2. TypeOK'
      BY <1>1, <2>1 DEF Inv, TypeOK
    <2>3. Intervals' /\ Indices' /\ Divided' /\ ~Active'
      BY <1>1, <1>3, <2>1 DEF Intervals, Indices, Divided, Active
    <2>4. Ordered'
      BY <1>2, <2>1, <2>3 DEF Ordered
    <2> QED
      BY <1>1, <2>2, <2>3, <2>4 DEF Inv
  <1>4. CASE stack # <<>>
    <2> DEFINE c == Head(stack)
    <2>1. PICK rnd : rnd \in BOOLEAN \cup {c.random} /\ Begin(c.lo, c.up, rnd, Tail(stack))
      BY <1>4 DEF Return
    <2>2. /\ lo' = c.lo /\ up' = c.up /\ random' = rnd /\ stack' = Tail(stack)
          /\ pc' = IF c.lo < c.up THEN "ends" ELSE "return"
      BY <2>1 DEF Begin
    <2>3. /\ c \in Call /\ c.lo \in Int /\ c.up \in Int /\ rnd \in BOOLEAN
          /\ Tail(stack) \in Seq(Call)
      BY <1>1, <1>4, <2>1, Popped DEF Call
    <2>4. /\ Waiting(Tail(stack), Len(arr')) /\ Current(c.lo, c.up, Tail(stack), Len(arr'))
          /\ Sorted(arr', stack) => SortedBut(arr', c.lo, c.up, Tail(stack))
      BY <1>1, <1>4, Return_
    <2> HIDE DEF c
    <2>5. TypeOK'
      BY <1>1, <2>2, <2>3 DEF Inv, TypeOK
    <2>6. Active' /\ pc' \in {"ends", "return"} /\ c.lo <= c.up
      BY <2>2, <2>4 DEF Active, Current
    <2>7. Intervals'
      BY <2>2, <2>4, <2>6 DEF Intervals
    <2>8. Indices' /\ Divided'
      BY <2>2, <2>3, <2>6 DEF Indices, Divided
    <2>9. Ordered'
      BY <1>2, <2>2, <2>4, <2>6, <2>8 DEF Ordered
    <2> QED
      BY <1>1, <2>5, <2>7, <2>8, <2>9 DEF Inv
  <1> QED
    BY <1>3, <1>4

-----------------------------------------------------------------------------
(* The steps.                                                              *)

LEMMA Compared ==
    ASSUME Inv, NEW x \in Int, NEW y \in Int, NEW less \in sort_comp(x, y)
    PROVE  less \in BOOLEAN /\ (order = "less" => (less => x < y) /\ (~less => y <= x))
  <1>1. CASE order = "less"
    <2>1. less = (x < y) /\ (x < y) \in BOOLEAN
      BY <1>1 DEF sort_comp
    <2>2. less <=> x < y
      BY <2>1
    <2>3. less \in BOOLEAN
      BY <2>1
    <2>4. ~(x < y) => y <= x
      OBVIOUS
    <2> QED
      BY <2>2, <2>3, <2>4
  <1>2. CASE order # "less"
    BY <1>2 DEF sort_comp
  <1> QED
    BY <1>1, <1>2

\* A place between the two ends.
LEMMA Between ==
    ASSUME SortConstants, NEW l \in Int, NEW u \in Int, l + 2 <= u, NEW rnd,
           NEW q \in choosePivot(l, u, rnd)
    PROVE  q \in Int /\ l < q /\ q < u
  <1>1. CASE u - l < RANLIMIT \/ ~rnd
    <2>1. q = (l + u) \div 2
      BY <1>1 DEF choosePivot
    <2> QED
      BY <2>1
  <1>2. CASE ~(u - l < RANLIMIT \/ ~rnd)
    <2> DEFINE r == (u - l) \div 4
    <2>1. u - l \in Int /\ u - l >= 4
      BY <1>2 DEF SortConstants
    <2>2. r \in Int /\ 1 <= r /\ 4 * r <= u - l
      BY <2>1
    <2>3. q \in l + r..l + 3 * r - 1
      BY <1>2 DEF choosePivot
    <2> HIDE DEF r
    <2> QED
      BY <2>2, <2>3
  <1> QED
    BY <1>1, <1>2

LEMMA OrderEndsInv ==
    ASSUME SortConstants, Inv, OrderEnds
    PROVE  Inv'
  <1>1. /\ pc = "ends" /\ Active /\ lo < up /\ UNCHANGED <<order, given, pivot, ileft, jright>>
        /\ pivot' \in Int /\ ileft' \in Int /\ jright' \in Int
    BY Facts DEF OrderEnds, Active, Inv, Indices
  <1>2. /\ lo \in 1..Len(arr) /\ up \in 1..Len(arr) /\ lo \in lo..up /\ up \in lo..up
        /\ arr[lo] \in Int /\ arr[up] \in Int
    BY <1>1, Facts
  <1>3. PICK less \in sort_comp(arr[up], arr[lo]) : arr' = IF less THEN set2(arr, lo, up) ELSE arr
    BY DEF OrderEnds
  <1>4. Permuted(arr')
    BY <1>1, <1>2, <1>3, PermutedOnce
  <1>5. order = "less" => arr'[lo] <= arr'[up]
    <2> SUFFICES ASSUME order = "less"
                 PROVE  arr'[lo] <= arr'[up]
      OBVIOUS
    <2>1. (less => arr[up] < arr[lo]) /\ (~less => arr[lo] <= arr[up])
      BY <1>2, <1>3, Compared
    <2>2. set2(arr, lo, up)[lo] = arr[up] /\ set2(arr, lo, up)[up] = arr[lo]
      BY <1>2, Facts, Exchanged
    <2>3. arr[up] < arr[lo] => arr[up] <= arr[lo]
      BY <1>2
    <2>4. CASE less
      BY <1>3, <2>1, <2>2, <2>3, <2>4
    <2>5. CASE ~less
      BY <1>3, <2>1, <2>5
    <2> QED
      BY <2>4, <2>5
  <1>6. CASE up - lo = 1
    <2>1. Return /\ UNCHANGED mid
      BY <1>6 DEF OrderEnds
    <2>2. mid' \in Int
      BY <2>1, Facts
    <2>3. order = "less" => \A x, y \in lo..up : x < y => arr'[x] <= arr'[y]
      <3>1. \A x, y \in lo..up : x < y => x = lo /\ y = up
        BY <1>6, Facts
      <3> QED
        BY <1>5, <3>1
    <2> QED
      BY <1>1, <1>4, <2>1, <2>2, <2>3, Returns
  <1>7. CASE up - lo # 1
    <2>1. /\ mid' \in choosePivot(lo, up, random) /\ pc' = "lower"
          /\ UNCHANGED <<lo, up, random, stack>>
      BY <1>7 DEF OrderEnds
    <2>2. mid' \in Int /\ lo < mid' /\ mid' < up
      <3>1. lo + 2 <= up
        BY <1>1, <1>7, Facts
      <3> QED
        BY <2>1, <3>1, Facts, Between
    <2>3. Indices' /\ (order = "less" => Divided')
      BY <1>5, <2>1, <2>2 DEF Indices, Divided
    <2> QED
      BY <1>1, <1>4, <2>1, <2>2, <2>3, StaysInside
  <1> QED
    BY <1>6, <1>7

\* The first, the last and the chosen element are in order in t.
LEMMA PartitionInv ==
    ASSUME Inv, Active, lo < mid, mid < up, UNCHANGED <<order, given, mid>>,
           NEW t, Permuted(t), Partition(t),
           order = "less" => t[lo] <= t[mid] /\ t[mid] <= t[up]
    PROVE  Inv'
  <1>0. /\ lo \in Int /\ up \in Int /\ mid \in Int /\ Len(arr) \in Nat
        /\ 1 <= lo /\ lo <= up /\ up <= Len(arr)
    BY Facts
  <1>1. /\ lo \in 1..Len(arr) /\ up \in 1..Len(arr) /\ mid \in 1..Len(arr) /\ mid \in lo..up
        /\ up - 1 \in 1..Len(arr) /\ up - 1 \in lo..up /\ Len(t) = Len(arr) /\ t \in Seq(Int)
        /\ \A x \in 1..Len(t) : t[x] \in Int
    <2>1. Len(t) = Len(arr) /\ t \in Seq(Int) /\ \A x \in 1..Len(t) : t[x] \in Int
      BY SeqFacts DEF Permuted
    <2> QED
      BY <1>0, <2>1
  <1>2. CASE up - lo = 2
    <2>1. arr' = t /\ Return /\ UNCHANGED <<pivot, ileft, jright>>
      BY <1>2 DEF Partition
    <2>2. mid' \in Int /\ pivot' \in Int /\ ileft' \in Int /\ jright' \in Int
      BY <2>1, Facts
    <2>3. order = "less" => \A x, y \in lo..up : x < y => arr'[x] <= arr'[y]
      <3>1. \A x \in lo..up : x = lo \/ x = mid \/ x = up
        BY <1>0, <1>2
      <3>2. lo < mid /\ mid < up /\ t[lo] \in Int /\ t[mid] \in Int /\ t[up] \in Int
        BY <1>1
      <3>3. lo \in Int /\ up \in Int /\ mid \in Int
        BY Facts
      <3> QED
        BY <2>1, <3>1, <3>2, <3>3
    <2> QED
      BY <2>1, <2>2, <2>3, Returns
  <1>3. CASE up - lo # 2
    <2>1. /\ arr' = set2(t, mid, up - 1) /\ pivot' = t[mid]
          /\ ileft' = lo /\ jright' = up - 1 /\ pc' = "up"
          /\ UNCHANGED <<lo, up, random, stack>>
      BY <1>3 DEF Partition
    <2>2. Permuted(arr')
      BY <1>1, <2>1, PermutedTwice
    <2>3. /\ arr'[up - 1] = t[mid]
          /\ mid # lo => arr'[lo] = t[lo]
          /\ mid # up => arr'[up] = t[up]
      <3>1. lo # up - 1 /\ up # up - 1
        BY <1>0, <1>3
      <3> QED
        <4> DEFINE q == up - 1
                   w == set2(t, mid, q)
        <4>0. mid \in 1..Len(t) /\ q \in 1..Len(t) /\ t \in Seq(Int) /\ Len(t) = Len(arr)
          BY <1>1
        <4>2. arr' = w
          BY <2>1
        <4> HIDE DEF q
        <4>1. /\ w[q] = t[mid]
              /\ \A k \in 1..Len(t) : k # mid /\ k # q => w[k] = t[k]
          BY <4>0, Exchanged
        <4> HIDE DEF w
        <4>3. lo # q /\ up # q
          BY <3>1 DEF q
        <4>4. arr'[q] = t[mid] /\ (mid # lo => arr'[lo] = t[lo]) /\ (mid # up => arr'[up] = t[up])
          BY <1>1, <4>1, <4>2, <4>3
        <4> QED
          BY <4>4 DEF q
    <2>4. /\ mid # lo /\ mid # up /\ lo + 3 <= up /\ lo < up - 1
          /\ lo <= lo /\ lo <= up - 2 /\ up - 1 <= up - 1
      BY <1>0, <1>3
    <2>5. Indices'
      <3>1. arr'[up' - 1] = pivot' /\ lo' = lo /\ up' = up /\ ileft' = lo /\ jright' = up - 1
        BY <2>1, <2>3
      <3> QED
        BY ONLY <2>1, <2>4, <3>1 DEF Indices
    <2>6. order = "less" => Divided'
      <3>1. \A x \in lo..lo : x = lo
        BY <1>0
      <3>2. \A x \in up - 1..up : x = up - 1 \/ x = up
        BY <1>0
      <3>3. t[mid] <= t[mid]
        BY <1>1
      <3> QED
        BY <2>1, <2>3, <2>4, <3>1, <3>2, <3>3 DEF Divided
    <2>7. mid' \in Int /\ pivot' \in Int /\ ileft' \in Int /\ jright' \in Int
      BY <1>1, <2>1, Facts
    <2> QED
      BY <2>1, <2>2, <2>5, <2>6, <2>7, StaysInside
  <1> QED
    BY <1>2, <1>3

LEMMA OrderLowerInv ==
    ASSUME Inv, OrderLower
    PROVE  Inv'
  <1>1. /\ pc = "lower" /\ Active /\ lo < mid /\ mid < up /\ UNCHANGED <<order, given, mid>>
        /\ order = "less" => arr[lo] <= arr[up]
    BY DEF OrderLower, Active, Inv, Indices, Ordered, Divided
  <1>2. /\ lo \in 1..Len(arr) /\ up \in 1..Len(arr) /\ mid \in 1..Len(arr)
        /\ lo \in lo..up /\ mid \in lo..up
        /\ arr[lo] \in Int /\ arr[up] \in Int /\ arr[mid] \in Int
    BY <1>1, Facts
  <1>3. PICK less \in sort_comp(arr[mid], arr[lo]) :
           IF less THEN Partition(set2(arr, mid, lo))
           ELSE pc' = "upper" /\ UNCHANGED <<arr, lo, up, random, pivot, ileft, jright, stack>>
    BY DEF OrderLower
  <1>4. order = "less" => (less => arr[mid] < arr[lo]) /\ (~less => arr[lo] <= arr[mid])
    BY <1>2, <1>3, Compared
  <1>5. CASE less
    <2>1. Permuted(set2(arr, mid, lo)) /\ Partition(set2(arr, mid, lo))
      BY <1>1, <1>2, <1>3, <1>5, PermutedOnce
    <2>2. /\ set2(arr, mid, lo)[mid] = arr[lo] /\ set2(arr, mid, lo)[lo] = arr[mid]
          /\ set2(arr, mid, lo)[up] = arr[up]
      <3>1. up # mid /\ up # lo
        BY <1>1, Facts
      <3> QED
        BY <1>2, <3>1, Facts, Exchanged
    <2>3. order = "less" => /\ set2(arr, mid, lo)[lo] <= set2(arr, mid, lo)[mid]
                            /\ set2(arr, mid, lo)[mid] <= set2(arr, mid, lo)[up]
      <3>1. arr[mid] < arr[lo] => arr[mid] <= arr[lo]
        BY <1>2
      <3> QED
        BY <1>1, <1>4, <1>5, <2>2, <3>1
    <2> QED
      BY <1>1, <2>1, <2>3, PartitionInv
  <1>6. CASE ~less
    <2>1. pc' = "upper" /\ UNCHANGED <<arr, lo, up, random, pivot, ileft, jright, stack>>
      BY <1>3, <1>6
    <2>2. Permuted(arr') /\ mid' \in Int /\ pivot' \in Int /\ ileft' \in Int /\ jright' \in Int
      BY <1>1, <1>2, <2>1, PermutedOnce, Facts
    <2>3. Indices'
      BY <1>1, <2>1 DEF Indices
    <2>4. order = "less" => Divided'
      <3> SUFFICES ASSUME order = "less"
                   PROVE  Divided'
        OBVIOUS
      <3>1. arr[lo] <= arr[mid] /\ arr[lo] <= arr[up]
        BY <1>1, <1>4, <1>6
      <3> QED
        BY <1>1, <2>1, <3>1 DEF Divided
    <2> QED
      BY <1>1, <2>1, <2>2, <2>3, <2>4, StaysInside
  <1> QED
    BY <1>2, <1>3, <1>5, <1>6, Compared

LEMMA OrderUpperInv ==
    ASSUME Inv, OrderUpper
    PROVE  Inv'
  <1>1. /\ pc = "upper" /\ Active /\ lo < mid /\ mid < up /\ UNCHANGED <<order, given, mid>>
        /\ order = "less" => arr[lo] <= arr[mid] /\ arr[lo] <= arr[up]
    BY DEF OrderUpper, Active, Inv, Indices, Ordered, Divided
  <1>2. /\ lo \in 1..Len(arr) /\ up \in 1..Len(arr) /\ mid \in 1..Len(arr)
        /\ up \in lo..up /\ mid \in lo..up
        /\ arr[lo] \in Int /\ arr[up] \in Int /\ arr[mid] \in Int
    BY <1>1, Facts
  <1> DEFINE t(less) == IF less THEN set2(arr, mid, up) ELSE arr
  <1>3. PICK less \in sort_comp(arr[up], arr[mid]) : Partition(t(less))
    BY DEF OrderUpper
  <1>4. /\ less \in BOOLEAN
        /\ order = "less" => (less => arr[up] < arr[mid]) /\ (~less => arr[mid] <= arr[up])
    BY <1>2, <1>3, Compared
  <1>5. Permuted(t(less))
    BY <1>1, <1>2, PermutedOnce
  <1>6. order = "less" => t(less)[lo] <= t(less)[mid] /\ t(less)[mid] <= t(less)[up]
    <2>1. lo # mid /\ lo # up
      BY <1>1, Facts
    <2>2. /\ set2(arr, mid, up)[mid] = arr[up] /\ set2(arr, mid, up)[up] = arr[mid]
          /\ set2(arr, mid, up)[lo] = arr[lo]
      BY <1>2, <2>1, Facts, Exchanged
    <2>3. arr[up] < arr[mid] => arr[up] <= arr[mid]
      BY <1>2
    <2>4. CASE less
      BY <1>1, <1>4, <2>2, <2>3, <2>4
    <2>5. CASE ~less
      BY <1>1, <1>4, <2>5
    <2> QED
      BY <2>4, <2>5
  <1> HIDE DEF t
  <1> QED
    BY <1>1, <1>3, <1>5, <1>6, PartitionInv

LEMMA ScanUpInv ==
    ASSUME Inv, ScanUp
    PROVE  Inv'
  <1>1. /\ pc = "up" /\ Active /\ ileft' = ileft + 1
        /\ UNCHANGED <<order, arr, given, lo, up, random, mid, pivot, jright, stack>>
        /\ lo + 3 <= up /\ arr[up - 1] = pivot /\ lo < jright /\ jright <= up - 1
        /\ lo <= ileft /\ ileft <= up - 2
    BY DEF ScanUp, Active, Inv, Indices
  <1>2. /\ ileft' \in 1..Len(arr) /\ arr[ileft'] \in Int
        /\ lo < ileft' /\ ileft' <= up - 1 /\ ileft' \in Int
        /\ mid' \in Int /\ pivot' \in Int /\ jright' \in Int /\ lo \in lo..up
    <2>1. /\ lo \in Int /\ up \in Int /\ ileft \in Int /\ Len(arr) \in Nat
          /\ 1 <= lo /\ lo <= up /\ up <= Len(arr) /\ \A k \in 1..Len(arr) : arr[k] \in Int
      BY <1>1, Facts
    <2>2. /\ ileft' \in 1..Len(arr) /\ lo < ileft' /\ ileft' <= up - 1
          /\ ileft' \in Int /\ lo \in lo..up
      BY <1>1, <2>1
    <2>3. mid' \in Int /\ pivot' \in Int /\ jright' \in Int
      BY <1>1, Facts
    <2> QED
      BY <2>1, <2>2, <2>3
  <1>3. PICK less \in sort_comp(arr[ileft'], pivot) :
           pc' = IF ~less THEN "down" ELSE IF PastPivot(ileft') THEN "error" ELSE "up"
    BY DEF ScanUp
  <1>4. /\ less \in BOOLEAN
        /\ order = "less" => (less => arr[ileft'] < pivot) /\ (~less => pivot <= arr[ileft'])
    BY <1>2, <1>3, Facts, Compared
  <1>5. Permuted(arr')
    BY <1>1, <1>2, PermutedOnce
  <1>6. order = "less" => /\ \A x \in lo..ileft : arr[x] <= pivot
                          /\ \A x \in jright..up : arr[x] >= pivot
    BY <1>1 DEF Inv, Ordered, Divided
  <1>7. CASE pc' = "error"
    <2>1. less /\ ileft' = up - 1
      BY <1>3, <1>7 DEF PastPivot
    <2>2. order # "less"
      <3>1. arr[ileft'] = pivot
        BY <1>1, <2>1
      <3>2. ~(pivot < pivot)
        BY Facts
      <3> QED
        BY <1>4, <2>1, <3>1, <3>2
    <2>3. TypeOK' /\ Intervals' /\ Indices'
      BY <1>1, <1>2, <1>7 DEF Inv, TypeOK, Intervals, Active, Indices
    <2> QED
      BY <1>1, <2>2, <2>3 DEF Inv, Ordered
  <1>8. CASE pc' = "up"
    <2>1. less /\ ileft' <= up - 2
      <3>1. less /\ ileft' # up - 1
        BY <1>3, <1>8 DEF PastPivot
      <3>2. up \in Int
        BY Facts
      <3> QED
        BY <1>2, <3>1, <3>2
    <2>2. Indices'
      BY <1>1, <1>2, <1>8, <2>1 DEF Indices
    <2>3. order = "less" => Divided'
      <3> SUFFICES ASSUME order = "less"
                   PROVE  Divided'
        OBVIOUS
      <3>1. arr[ileft'] <= pivot
        <4>1. arr[ileft'] < pivot
          BY <1>4, <2>1
        <4> QED
          BY <1>2, <4>1, Facts
      <3>2. \A x \in lo..ileft' : x \in lo..ileft \/ x = ileft'
        BY <1>1, Facts
      <3>3. \A x \in lo..ileft' : arr[x] <= pivot
        BY <1>6, <3>1, <3>2
      <3> QED
        BY <1>1, <1>6, <1>8, <3>3 DEF Divided
    <2> QED
      BY <1>1, <1>2, <1>5, <1>8, <2>2, <2>3, StaysInside
  <1>9. CASE pc' = "down"
    <2>1. ~less
      BY <1>3, <1>9
    <2>2. Indices'
      BY <1>1, <1>2, <1>9 DEF Indices
    <2>3. order = "less" => Divided'
      <3> SUFFICES ASSUME order = "less"
                   PROVE  Divided'
        OBVIOUS
      <3>1. arr[ileft'] >= pivot
        <4>1. pivot <= arr[ileft']
          BY <1>4, <2>1
        <4> QED
          BY <1>2, <4>1, Facts
      <3>2. \A x \in lo..ileft' - 1 : x \in lo..ileft
        BY <1>1, Facts
      <3>3. \A x \in lo..ileft' - 1 : arr[x] <= pivot
        BY <1>6, <3>2
      <3> QED
        BY <1>1, <1>6, <1>9, <3>1, <3>3 DEF Divided
    <2> QED
      BY <1>1, <1>2, <1>5, <1>9, <2>2, <2>3, StaysInside
  <1> QED
    BY <1>3, <1>4, <1>7, <1>8, <1>9

\* The pivot is at `ileft': what is below it is not greater, and what is above it not less.
LEMMA RecurseInv ==
    ASSUME Inv, Active, Permuted(arr'), Recurse, UNCHANGED <<order, given>>,
           mid' \in Int, pivot' \in Int, ileft' \in Int, jright' \in Int, lo < ileft, ileft < up,
           order = "less" => /\ \A x \in lo..ileft - 1 : arr'[x] <= arr'[ileft]
                             /\ \A x \in ileft + 1..up : arr'[ileft] <= arr'[x]
    PROVE  Inv'
  <1> DEFINE lower == [lo |-> lo, up |-> ileft - 1, n |-> ileft - lo, random |-> random]
             upper == [lo |-> ileft + 1, up |-> up, n |-> up - ileft, random |-> random]
             small == IF lower.n < upper.n THEN lower ELSE upper
             large == IF lower.n < upper.n THEN upper ELSE lower
             c == [large EXCEPT !.n = small.n]
  <1>1. /\ lo \in Int /\ up \in Int /\ ileft \in Int /\ random \in BOOLEAN /\ stack \in Seq(Call)
        /\ arr' \in Seq(Int) /\ Len(arr') = Len(arr) /\ Len(arr) \in Nat
        /\ Waiting(stack, Len(arr')) /\ Current(lo, up, stack, Len(arr'))
        /\ \A v : Count(arr', v) = Count(given', v)
    BY Facts DEF Inv, Intervals, Permuted
  <1>2. /\ lo' = small.lo /\ up' = small.up /\ random' = random /\ stack' = <<c>> \o stack
        /\ pc' = IF small.lo < small.up THEN "ends" ELSE "return"
    BY DEF Recurse, Begin
  <1>3. /\ lower.lo = lo /\ lower.up = ileft - 1 /\ lower.n = ileft - lo
        /\ upper.lo = ileft + 1 /\ upper.up = up /\ upper.n = up - ileft
        /\ lower.random = random /\ upper.random = random
    OBVIOUS
  <1>4. /\ c.lo = large.lo /\ c.up = large.up /\ c.n = small.n /\ c.random = random
        /\ c \in [lo : {large.lo}, up : {large.up}, n : {small.n}, random : {random}]
    OBVIOUS
  <1>5. \/ /\ c.lo = ileft + 1 /\ c.up = up /\ c.n = ileft - lo /\ ileft - lo < up - ileft
           /\ small.lo = lo /\ small.up = ileft - 1
        \/ /\ c.lo = lo /\ c.up = ileft - 1 /\ c.n = up - ileft /\ up - ileft <= ileft - lo
           /\ small.lo = ileft + 1 /\ small.up = up
    BY <1>1, <1>3, <1>4
  <1>6. c \in Call
    BY <1>1, <1>4, <1>5 DEF Call
  <1>7. small.lo \in Int /\ small.up \in Int
    BY <1>1, <1>5
  <1> DEFINE v == small.lo
             w == small.up
  <1> HIDE DEF c, small, large, lower, upper
  <1>8. /\ lo <= v /\ v <= w /\ w <= up /\ lo <= c.lo /\ c.lo <= c.up /\ c.up <= up
        /\ Apart(v, w, c.lo, c.up) /\ c.n = w - v + 1 /\ c.n <= c.up - c.lo + 1
        /\ c.n + (c.up - c.lo + 1) = up - lo
    <2>1. CASE /\ c.lo = ileft + 1 /\ c.up = up /\ c.n = ileft - lo /\ ileft - lo < up - ileft
               /\ small.lo = lo /\ small.up = ileft - 1
      BY <1>1, <2>1 DEF Apart
    <2>2. CASE /\ c.lo = lo /\ c.up = ileft - 1 /\ c.n = up - ileft /\ up - ileft <= ileft - lo
               /\ small.lo = ileft + 1 /\ small.up = up
      BY <1>1, <2>2 DEF Apart
    <2> QED
      BY <1>5, <2>1, <2>2
  <1>9. /\ Waiting(<<c>> \o stack, Len(arr')) /\ Current(v, w, <<c>> \o stack, Len(arr'))
    <2> HIDE DEF v, w
    <2>1. v \in Int /\ w \in Int
      BY <1>7 DEF v, w
    <2> QED
      BY <1>1, <1>6, <1>8, <2>1, Call_
  <1>10. order = "less" => SortedBut(arr', v, w, <<c>> \o stack)
    <2> SUFFICES ASSUME order = "less", NEW x \in DOMAIN arr', NEW y \in DOMAIN arr', x < y
                 PROVE  \/ arr'[x] <= arr'[y] \/ (v <= x /\ y <= w)
                        \/ Together(<<c>> \o stack, x, y)
      BY DEF SortedBut
    <2>1. /\ x \in 1..Len(arr') /\ y \in 1..Len(arr') /\ x \in Int /\ y \in Int
          /\ arr'[x] \in Int /\ arr'[y] \in Int
      BY <1>1, SeqFacts
    <2>2. \/ arr'[x] <= arr'[y] \/ (lo <= x /\ y <= up) \/ Together(stack, x, y)
      BY DEF Inv, Ordered, Permuted, SortedBut
    <2>3. /\ \A k \in DOMAIN stack : k + 1 \in DOMAIN (<<c>> \o stack)
                                     /\ (<<c>> \o stack)[k + 1] = stack[k]
          /\ 1 \in DOMAIN (<<c>> \o stack) /\ (<<c>> \o stack)[1] = c
      <3>1. /\ Len(stack) \in Nat /\ DOMAIN stack = 1..Len(stack)
            /\ DOMAIN (<<c>> \o stack) = 1..Len(stack) + 1 /\ (<<c>> \o stack)[1] = c
            /\ \A k \in 1..Len(stack) : (<<c>> \o stack)[k + 1] = stack[k]
        BY <1>1, <1>6, Pushed, CallFacts
      <3> DEFINE r == <<c>> \o stack
      <3> HIDE DEF r
      <3>2. \A k \in 1..Len(stack) : k + 1 \in 1..Len(stack) + 1
        BY <3>1
      <3>3. 1 \in 1..Len(stack) + 1
        BY <3>1
      <3> QED
        BY <3>1, <3>2, <3>3
    <2>4. CASE Together(stack, x, y)
      BY <2>3, <2>4 DEF Together
    <2>5. CASE lo <= x /\ y <= up
      <3>1. CASE (x < ileft /\ y < ileft) \/ (ileft < x /\ ileft < y)
        <4>1. (v <= x /\ y <= w) \/ (c.lo <= x /\ y <= c.up)
          <5>1. (lo <= x /\ y <= ileft - 1) \/ (ileft + 1 <= x /\ y <= up)
            BY <1>1, <2>1, <2>5, <3>1
          <5> QED
            BY <1>5, <5>1
        <4> QED
          BY <2>3, <4>1 DEF Together
      <3>2. CASE x <= ileft /\ ileft <= y
        <4>1. arr'[ileft] \in Int
          <5>1. ileft \in 1..Len(arr')
            BY <1>1, <2>1, <3>2
          <5> QED
            BY <1>1, <5>1, SeqFacts
        <4>2. arr'[x] <= arr'[ileft]
          <5>1. x = ileft \/ x \in lo..ileft - 1
            BY <1>1, <2>1, <2>5, <3>2
          <5>2. arr'[ileft] <= arr'[ileft]
            BY <4>1
          <5> QED
            BY <5>1, <5>2
        <4>3. arr'[ileft] <= arr'[y]
          <5>1. y = ileft \/ y \in ileft + 1..up
            BY <1>1, <2>1, <2>5, <3>2
          <5>2. arr'[ileft] <= arr'[ileft]
            BY <4>1
          <5> QED
            BY <5>1, <5>2
        <4> QED
          BY <2>1, <4>1, <4>2, <4>3
      <3> QED
        BY <1>1, <2>1, <3>1, <3>2
    <2> QED
      BY <2>2, <2>4, <2>5
  <1>11. /\ Active' /\ pc' \in {"ends", "return"}
         /\ pc' = "ends" => lo' < up'
         /\ pc' = "return" => lo' = up'
    <2>1. v < w \/ v = w
      BY <1>7, <1>8
    <2> QED
      BY <1>2, <2>1 DEF Active
  <1>12. TypeOK'
    <2>1. <<c>> \o stack \in Seq(Call)
      BY <1>1, <1>6, Pushed
    <2> QED
      BY <1>1, <1>2, <1>7, <1>11, <2>1 DEF Inv, TypeOK
  <1>13. Intervals'
    BY <1>2, <1>9, <1>11 DEF Intervals
  <1>14. Indices' /\ Divided'
    <2>1. pc' \notin {"lower", "upper", "up", "down"}
      BY <1>11
    <2> QED
      BY <1>11, <2>1 DEF Indices, Divided
  <1>15. Ordered'
    <2>1. pc' # "error" /\ Active'
      BY <1>11
    <2>2. order' = "less" => SortedBut(arr', lo', up', stack')
      BY <1>2, <1>10
    <2> QED
      BY <1>14, <2>1, <2>2 DEF Ordered
  <1> QED
    BY <1>1, <1>12, <1>13, <1>14, <1>15 DEF Inv

LEMMA ScanDownInv ==
    ASSUME Inv, ScanDown
    PROVE  Inv'
  <1>1. /\ pc = "down" /\ Active /\ jright' = jright - 1
        /\ UNCHANGED <<order, given, mid, pivot, ileft>>
        /\ lo + 3 <= up /\ arr[up - 1] = pivot /\ lo < jright /\ jright <= up - 1
        /\ lo < ileft /\ ileft <= up - 1
    BY DEF ScanDown, Active, Inv, Indices
  <1>2. /\ lo \in Int /\ up \in Int /\ ileft \in Int /\ jright \in Int
        /\ Len(arr) \in Nat /\ pivot \in Int
        /\ 1 <= lo /\ lo <= up /\ up <= Len(arr) /\ \A k \in 1..Len(arr) : arr[k] \in Int
        /\ arr \in Seq(Int)
    BY <1>1, Facts
  <1>3. /\ jright' \in Int /\ lo <= jright' /\ jright' <= up - 2
        /\ jright' \in 1..Len(arr) /\ jright' \in lo..up
        /\ ileft \in 1..Len(arr) /\ ileft \in lo..up /\ up - 1 \in 1..Len(arr) /\ up - 1 \in lo..up
        /\ ileft < up /\ jright' = jright - 1
    BY <1>1, <1>2
  <1>4. PICK less \in sort_comp(pivot, arr[jright']) :
           IF less THEN /\ pc' = IF jright' < ileft THEN "error" ELSE "down"
                        /\ UNCHANGED <<arr, lo, up, random, stack>>
           ELSE IF jright' < ileft
                THEN arr' = [arr EXCEPT ![up - 1] = arr[ileft], ![ileft] = pivot] /\ Recurse
           ELSE /\ arr' = set2(arr, ileft, jright') /\ pc' = "up"
                /\ UNCHANGED <<lo, up, random, stack>>
    BY DEF ScanDown
  <1>5. /\ less \in BOOLEAN
        /\ order = "less" => (less => pivot < arr[jright']) /\ (~less => arr[jright'] <= pivot)
    BY <1>2, <1>3, <1>4, Compared
  <1>6. order = "less" => /\ arr[ileft] >= pivot /\ \A x \in lo..ileft - 1 : arr[x] <= pivot
                          /\ \A x \in jright..up : arr[x] >= pivot
    BY <1>1 DEF Inv, Ordered, Divided
  <1>7. mid' \in Int /\ pivot' \in Int /\ ileft' \in Int
    BY <1>1, Facts
  <1>8. CASE less /\ jright' < ileft
    <2>1. pc' = "error" /\ UNCHANGED <<arr, lo, up, random, stack>>
      BY <1>4, <1>8
    <2>2. order # "less"
      <3>1. jright' \in lo..ileft - 1
        BY <1>2, <1>3, <1>8
      <3>2. arr[jright'] \in Int
        BY <1>2, <1>3
      <3>3. ~(pivot < arr[jright'] /\ arr[jright'] <= pivot)
        BY <1>2, <3>2
      <3> QED
        BY <1>5, <1>6, <1>8, <3>1, <3>3
    <2>3. TypeOK' /\ Intervals' /\ Indices'
      BY <1>1, <1>3, <1>7, <2>1 DEF Inv, TypeOK, Intervals, Active, Indices
    <2> QED
      BY <1>1, <2>1, <2>2, <2>3 DEF Inv, Ordered
  <1>9. CASE less /\ ~(jright' < ileft)
    <2>1. pc' = "down" /\ UNCHANGED <<arr, lo, up, random, stack>>
      BY <1>4, <1>9
    <2>2. Permuted(arr')
      BY <1>1, <1>3, <2>1, PermutedOnce
    <2>3. lo < jright' /\ jright' <= up - 1
      BY <1>1, <1>2, <1>3, <1>9
    <2>4. Indices'
      BY <1>1, <2>1, <2>3 DEF Indices
    <2>5. order = "less" => Divided'
      <3> SUFFICES ASSUME order = "less"
                   PROVE  Divided'
        OBVIOUS
      <3>1. arr[jright'] >= pivot
        <4>1. pivot < arr[jright'] /\ arr[jright'] \in Int
          BY <1>2, <1>3, <1>5, <1>9
        <4> QED
          BY <1>2, <4>1
      <3>2. \A x \in jright'..up : x \in jright..up \/ x = jright'
        BY <1>2, <1>3
      <3>3. \A x \in jright'..up : arr[x] >= pivot
        BY <1>6, <3>1, <3>2
      <3> QED
        BY <1>1, <1>6, <2>1, <3>3 DEF Divided
    <2> QED
      BY <1>1, <1>3, <1>7, <2>1, <2>2, <2>4, <2>5, StaysInside
  <1>10. CASE ~less /\ jright' < ileft
    <2>1. arr' = [arr EXCEPT ![up - 1] = arr[ileft], ![ileft] = pivot] /\ Recurse
      BY <1>4, <1>10
    <2>2. arr' = set2(arr, up - 1, ileft)
      BY <1>1, <2>1 DEF set2
    <2>3. Permuted(arr')
      BY <1>1, <1>3, <2>2, PermutedOnce
    <2>4. /\ arr'[ileft] = pivot /\ arr'[up - 1] = arr[ileft]
          /\ \A k \in 1..Len(arr) : k # ileft /\ k # up - 1 => arr'[k] = arr[k]
      <3> DEFINE q == up - 1
      <3>1. /\ q \in 1..Len(arr) /\ ileft \in 1..Len(arr)
            /\ arr' = set2(arr, q, ileft) /\ arr[q] = pivot
        BY <1>1, <1>3, <2>2
      <3> HIDE DEF q
      <3>2. /\ arr'[ileft] = arr[q] /\ arr'[q] = arr[ileft]
            /\ \A k \in 1..Len(arr) : k # ileft /\ k # q => arr'[k] = arr[k]
        <4>1. /\ set2(arr, q, ileft)[ileft] = arr[q] /\ set2(arr, q, ileft)[q] = arr[ileft]
              /\ \A k \in 1..Len(arr) : k # q /\ k # ileft => set2(arr, q, ileft)[k] = arr[k]
          BY <1>2, <3>1, Exchanged
        <4> QED
          BY <3>1, <4>1
      <3> QED
        BY <3>1, <3>2 DEF q
    <2>5. ASSUME order = "less"
          PROVE  /\ \A x \in lo..ileft - 1 : arr'[x] <= arr'[ileft]
                 /\ \A x \in ileft + 1..up : arr'[ileft] <= arr'[x]
      <3>1. \A x \in lo..ileft - 1 : x \in 1..Len(arr) /\ x # ileft /\ x # up - 1
        BY <1>1, <1>2
      <3>2. \A x \in ileft + 1..up : x \in 1..Len(arr) /\ x # ileft /\ x \in jright..up
        BY <1>2, <1>3, <1>10
      <3>3. \A x \in ileft + 1..up : arr[x] >= pivot /\ arr[x] \in Int
        BY <1>2, <1>6, <2>5, <3>2
      <3>4. \A x \in ileft + 1..up : arr'[x] >= pivot /\ arr'[x] \in Int
        <4>1. arr[ileft] >= pivot /\ arr[ileft] \in Int
          BY <1>2, <1>3, <1>6, <2>5
        <4> QED
          BY <2>4, <3>2, <3>3, <4>1
      <3>5. \A x \in ileft + 1..up : pivot <= arr'[x]
        BY <1>2, <3>4
      <3> QED
        BY <1>6, <2>4, <2>5, <3>1, <3>5
    <2> QED
      BY <1>1, <1>3, <1>7, <2>1, <2>3, <2>5, RecurseInv
  <1>11. CASE ~less /\ ~(jright' < ileft)
    <2>1. arr' = set2(arr, ileft, jright') /\ pc' = "up" /\ UNCHANGED <<lo, up, random, stack>>
      BY <1>4, <1>11
    <2>2. Permuted(arr')
      BY <1>1, <1>3, <2>1, PermutedOnce
    <2>3. lo < jright' /\ jright' <= up - 1 /\ lo <= ileft /\ ileft <= up - 2 /\ ileft <= jright'
      BY <1>1, <1>2, <1>3, <1>11
    <2>4. /\ arr'[ileft] = arr[jright'] /\ arr'[jright'] = arr[ileft]
          /\ \A k \in 1..Len(arr) : k # ileft /\ k # jright' => arr'[k] = arr[k]
      BY <1>2, <1>3, <2>1, Exchanged
    <2>5. Indices'
      <3>1. up - 1 # ileft /\ up - 1 # jright'
        BY <1>2, <1>3, <2>3
      <3>2. arr'[up - 1] = pivot
        BY <1>1, <1>3, <2>4, <3>1
      <3> QED
        BY <1>1, <2>1, <2>3, <3>2 DEF Indices
    <2>6. order = "less" => Divided'
      <3> SUFFICES ASSUME order = "less"
                   PROVE  Divided'
        OBVIOUS
      <3>1. arr[jright'] <= pivot /\ arr[ileft] >= pivot
        BY <1>5, <1>6, <1>11
      <3>2. \A x \in lo..ileft : \/ x = ileft
                                 \/ /\ x \in lo..ileft - 1 /\ x # ileft /\ x # jright'
                                    /\ x \in 1..Len(arr)
        BY <1>2, <1>3, <2>3
      <3>3. \A x \in lo..ileft : arr'[x] <= pivot
        BY <1>6, <2>4, <3>1, <3>2
      <3>4. \A x \in jright'..up : \/ x = jright'
                                  \/ /\ x \in jright..up /\ x # ileft /\ x # jright'
                                     /\ x \in 1..Len(arr)
        BY <1>2, <1>3, <2>3
      <3>5. \A x \in jright'..up : arr'[x] >= pivot
        BY <1>6, <2>4, <3>1, <3>4
      <3> QED
        BY <1>1, <2>1, <3>3, <3>5 DEF Divided
    <2> QED
      BY <1>1, <1>3, <1>7, <2>1, <2>2, <2>5, <2>6, StaysInside
  <1> QED
    BY <1>5, <1>8, <1>9, <1>10, <1>11

LEMMA ReturnToCallerInv ==
    ASSUME Inv, ReturnToCaller
    PROVE  Inv'
  <1>1. /\ pc = "return" /\ Active /\ lo = up /\ Return
        /\ UNCHANGED <<order, arr, given, mid, pivot, ileft, jright>>
    BY DEF ReturnToCaller, Active, Inv, Indices
  <1>2. /\ lo \in lo..up /\ lo \in Int
        /\ mid' \in Int /\ pivot' \in Int /\ ileft' \in Int /\ jright' \in Int
    BY <1>1, Facts
  <1>3. Permuted(arr')
    BY <1>1, <1>2, PermutedOnce
  <1>4. \A x, y \in lo..up : ~(x < y)
    BY <1>1, <1>2
  <1> QED
    BY <1>1, <1>2, <1>3, <1>4, Returns

-----------------------------------------------------------------------------
(* The theorem.                                                            *)

LEMMA InitInv ==
    ASSUME SortConstants, SortInit
    PROVE  Inv
  <1>1. /\ arr \in Seq(Int) /\ given = arr /\ lo = 1 /\ up = Len(arr) /\ stack = <<>>
        /\ order \in {"less", "any"} /\ random = FALSE
        /\ mid = 0 /\ pivot = 0 /\ ileft = 0 /\ jright = 0
        /\ Len(arr) \in Nat /\ DOMAIN arr = 1..Len(arr)
        /\ pc = IF Len(arr) > 1 THEN "ends" ELSE "done"
    BY DEF SortInit, SortConstants
  <1>2. TypeOK
    <2>1. <<>> \in Seq(Call)
      OBVIOUS
    <2>2. pc \in {"ends", "done"} /\ up \in Int
      BY <1>1
    <2>3. /\ lo \in Int /\ mid \in Int /\ pivot \in Int /\ ileft \in Int /\ jright \in Int
      BY <1>1
    <2>4. given \in Seq(Int)
      BY <1>1
    <2>5. stack \in Seq(Call)
      BY <1>1, <2>1
    <2>6. random \in BOOLEAN
      BY <1>1
    <2> QED
      BY <1>1, <2>2, <2>3, <2>4, <2>5, <2>6 DEF TypeOK
  <1>3. Waiting(stack, Len(arr)) /\ Elements(stack, 0, Len(arr)) = Len(arr)
    BY <1>1 DEF Waiting, Elements
  <1>4. pc = "ends" => lo < up /\ Current(lo, up, stack, Len(arr))
    BY <1>1, <1>3 DEF Current
  <1>5. Active => pc = "ends"
    BY <1>1 DEF Active
  <1>6. Intervals /\ Indices /\ Divided
    BY <1>1, <1>3, <1>4, <1>5 DEF Intervals, Indices, Divided
  <1>7. Ordered
    <2>1. \A x, y \in DOMAIN arr : x < y => lo <= x /\ y <= up /\ Len(arr) > 1
      BY <1>1
    <2>2. SortedBut(arr, lo, up, stack) /\ (~Active => Sorted(arr, stack))
      BY <1>1, <2>1 DEF SortedBut, Sorted, Active
    <2> QED
      BY <1>1, <1>6, <2>2 DEF Ordered
  <1> QED
    BY <1>1, <1>2, <1>6, <1>7 DEF Inv

LEMMA NextInv ==
    ASSUME SortConstants, Inv, [SortNext]_sortVars
    PROVE  Inv'
  <1>1. CASE UNCHANGED sortVars
    BY <1>1 DEF sortVars, Inv, TypeOK, Intervals, Indices, Ordered, Divided, Active, Count
  <1>2. CASE OrderEnds
    BY <1>2, OrderEndsInv
  <1>3. CASE OrderLower
    BY <1>3, OrderLowerInv
  <1>4. CASE OrderUpper
    BY <1>4, OrderUpperInv
  <1>5. CASE ScanUp
    BY <1>5, ScanUpInv
  <1>6. CASE ScanDown
    BY <1>6, ScanDownInv
  <1>7. CASE ReturnToCaller
    BY <1>7, ReturnToCallerInv
  <1> QED
    BY <1>1, <1>2, <1>3, <1>4, <1>5, <1>6, <1>7 DEF SortNext

LEMMA InvRight ==
    ASSUME Inv
    PROVE  SortIsRight
  <1>1. pc \in {"up", "down"} => lo <= ileft /\ ileft < up /\ lo <= jright /\ jright < up
    <2> SUFFICES ASSUME pc \in {"up", "down"}
                 PROVE  lo <= ileft /\ ileft < up /\ lo <= jright /\ jright < up
      OBVIOUS
    <2>1. lo \in Int /\ up \in Int /\ ileft \in Int /\ jright \in Int
      BY Facts
    <2>2. /\ lo < jright /\ jright <= up - 1
          /\ (lo <= ileft /\ ileft <= up - 2) \/ (lo < ileft /\ ileft <= up - 1)
      BY DEF Inv, Indices
    <2> QED
      BY <2>1, <2>2
  <1>2. \A v \in ToSet(given) : Cardinality({k \in DOMAIN arr : arr[k] = v})
                                  = Cardinality({k \in DOMAIN given : given[k] = v})
    BY DEF Inv, Count
  <1>3. \A k \in DOMAIN stack :
           2 * stack[k].n < IF k = Len(stack) THEN Len(arr) ELSE stack[k + 1].n
    BY DEF Inv, Intervals, Waiting, Elements
  <1>4. ASSUME order = "less", pc = "done"
        PROVE  \A k \in 1..Len(arr) - 1 : arr[k] <= arr[k + 1]
    <2> SUFFICES ASSUME NEW k \in 1..Len(arr) - 1
                 PROVE  arr[k] <= arr[k + 1]
      OBVIOUS
    <2>1. k \in DOMAIN arr /\ k + 1 \in DOMAIN arr /\ k < k + 1
      BY Facts
    <2>2. stack = <<>> /\ Sorted(arr, stack)
      BY <1>4 DEF Inv, Intervals, Ordered, Active
    <2> QED
      BY <2>1, <2>2 DEF Sorted, Together
  <1>5. order = "less" => pc # "error"
    BY DEF Inv, Ordered
  <1> QED
    BY <1>1, <1>2, <1>3, <1>4, <1>5 DEF SortIsRight

\* auxsort and partition of ltablib.c: any sequence is sorted by an order without an error,
\* and with any answers of the comparisons it is permuted, no index leaves the interval,
\* and the depth of the recursion is logarithmic.
THEOREM SortsRight ==
    ASSUME SortConstants
    PROVE  SortSpec => []SortIsRight
  <1>1. SortInit => Inv
    BY InitInv
  <1>2. Inv /\ [SortNext]_sortVars => Inv'
    BY NextInv
  <1>3. Inv => SortIsRight
    BY InvRight
  <1> QED
    BY <1>1, <1>2, <1>3, PTL DEF SortSpec

=============================================================================
