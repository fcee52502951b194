---------------------------- MODULE ClosingProofs ----------------------------
(***************************************************************************)
(* Proofs about TbcList and Closing: the distances in the stack always     *)
(* spell the list of pending variables, none of which outlives its scope,  *)
(* and they are closed as TbcScopes says.                                  *)
(***************************************************************************)
EXTENDS Closing, TLAPS

-----------------------------------------------------------------------------
(* Numbers.                                                                *)

LEMMA Quotient ==
    ASSUME NEW d \in Nat \ {0}
    PROVE  LET n == (d - 1) \div MAXDELTA
           IN  n \in Nat /\ n * MAXDELTA < d /\ d <= n * MAXDELTA + MAXDELTA
  BY ListAssumption

LEMMA Multiples ==
    ASSUME NEW n \in Nat, NEW k \in 1..n
    PROVE  k * MAXDELTA \in Nat \ {0} /\ k * MAXDELTA <= n * MAXDELTA
  BY ListAssumption

LEMMA Distinct ==
    ASSUME NEW n \in Nat, NEW m \in Nat, n * MAXDELTA = m * MAXDELTA
    PROVE  n = m
  BY ListAssumption

LEMMA FitsShort ==
    ASSUME NEW d \in 1..MAXDELTA
    PROVE  StoredDelta(d) = d
  BY ListAssumption DEF StoredDelta

LEMMA MaxOfTwo ==
    ASSUME NEW a \in Int, NEW b \in Int
    PROVE  Max({a, b}) \in {a, b} /\ a <= Max({a, b}) /\ b <= Max({a, b})
  <1>1. \E x \in {a, b} : \A y \in {a, b} : x >= y
    OBVIOUS
  <1> QED
    BY <1>1 DEF Max

LEMMA MinOfTwo ==
    ASSUME NEW a \in Int, NEW b \in Int
    PROVE  Min({a, b}) \in {a, b} /\ Min({a, b}) <= a /\ Min({a, b}) <= b
  <1>1. \E x \in {a, b} : \A y \in {a, b} : x <= y
    OBVIOUS
  <1> QED
    BY <1>1 DEF Min

-----------------------------------------------------------------------------
(* The inductive invariant, in named parts.                                *)

Ends == {"exit", "base"}
Frame == [kind : Kinds, func : Nat, noyield : BOOLEAN, phase : Phases, active : Nat,
          level : Nat, n : Nat, open : BOOLEAN, evaluated : Nat, closes : Nat,
          ypcall : BOOLEAN, recst : BOOLEAN, raised : BOOLEAN]

TypeOK ==
    /\ tbclist \in Nat /\ pending \in Seq(Nat)
    /\ coroutine \in BOOLEAN /\ frames \in Seq(Frame) /\ lost \in Nat
    /\ status \in {"running", "suspended", "failed", "ended"}

\* The list, with what ListMatches does not say: variables are declared at ever higher
\* slots, and every slot that is read has a distance.
Dummy(i) == (pending[i] - Below(i) - 1) \div MAXDELTA
Linked(i) ==
    /\ pending[i] \in DOMAIN delta
    /\ delta[pending[i]] = pending[i] - Below(i) - Dummy(i) * MAXDELTA
    /\ \A k \in 1..Dummy(i) : /\ Below(i) + k * MAXDELTA \in DOMAIN delta
                              /\ delta[Below(i) + k * MAXDELTA] = 0
ListOK ==
    /\ \A i \in DOMAIN pending : 0 < pending[i]
    /\ \A i, j \in DOMAIN pending : i < j => pending[i] < pending[j]
    /\ tbclist = Below(Len(pending) + 1)
    /\ \A q \in DOMAIN delta : q \in 1..tbclist
    /\ \A i \in DOMAIN pending : Linked(i)

LEMMA PendingFacts ==
    ASSUME TypeOK, ListOK
    PROVE  /\ Len(pending) \in Nat /\ DOMAIN pending = 1..Len(pending)
           /\ \A i \in DOMAIN pending : /\ pending[i] \in Nat /\ Below(i) \in Nat
                                        /\ Below(i) < pending[i] /\ pending[i] <= tbclist
           /\ tbclist = IF pending = <<>> THEN 0 ELSE pending[Len(pending)]
  <1>1. Len(pending) \in Nat /\ DOMAIN pending = 1..Len(pending)
    BY DEF TypeOK
  <1>2. \A i \in DOMAIN pending : pending[i] \in Nat
    BY <1>1 DEF TypeOK
  <1>3. \A i \in DOMAIN pending : Below(i) \in Nat /\ Below(i) < pending[i]
    <2> SUFFICES ASSUME NEW i \in DOMAIN pending
                 PROVE  Below(i) \in Nat /\ Below(i) < pending[i]
      OBVIOUS
    <2>1. CASE i = 1
      BY <2>1, <1>2 DEF Below, ListOK
    <2>2. CASE i # 1
      <3>1. i - 1 \in DOMAIN pending
        BY <1>1, <2>2
      <3> QED
        BY <1>1, <1>2, <2>2, <3>1 DEF Below, ListOK
    <2> QED
      BY <2>1, <2>2
  <1>4. tbclist = IF pending = <<>> THEN 0 ELSE pending[Len(pending)]
    BY <1>1 DEF ListOK, Below
  <1>5. \A i \in DOMAIN pending : pending[i] <= tbclist
    <2> SUFFICES ASSUME NEW i \in DOMAIN pending
                 PROVE  pending[i] <= tbclist
      OBVIOUS
    <2>1. pending # <<>> /\ Len(pending) \in DOMAIN pending
      BY <1>1
    <2>2. i = Len(pending) \/ i < Len(pending)
      BY <1>1
    <2> QED
      BY <1>2, <1>4, <2>1, <2>2 DEF ListOK
  <1> QED
    BY <1>1, <1>2, <1>3, <1>4, <1>5

\* The distances spell the list.
LEMMA SpellsList == ASSUME TypeOK, ListOK PROVE ListMatches
  BY PendingFacts DEF ListOK, ListMatches, Linked, Dummy

\* Where the dummies of a variable are: between it and the one below.
LEMMA DummyPlaces ==
    ASSUME TypeOK, ListOK, NEW i \in DOMAIN pending
    PROVE  /\ Dummy(i) \in Nat /\ Dummy(i) * MAXDELTA \in Nat
           /\ pending[i] - Below(i) - Dummy(i) * MAXDELTA \in 1..MAXDELTA
           /\ \A k \in 1..Dummy(i) : /\ k * MAXDELTA \in Nat \ {0}
                                     /\ k * MAXDELTA <= Dummy(i) * MAXDELTA
                                     /\ Below(i) + k * MAXDELTA < pending[i]
  <1> DEFINE d == pending[i] - Below(i)
             n == (d - 1) \div MAXDELTA
  <1>1. d \in Nat \ {0} /\ pending[i] \in Nat /\ Below(i) \in Nat /\ MAXDELTA \in Nat
    BY PendingFacts, ListAssumption
  <1>2. Dummy(i) = n
    BY DEF Dummy
  <1> HIDE DEF d
  <1>3. n \in Nat /\ n * MAXDELTA < d /\ d <= n * MAXDELTA + MAXDELTA
    BY <1>1, Quotient
  <1> HIDE DEF n
  <1> DEFINE m == n * MAXDELTA
  <1>4. m \in Nat
    BY <1>1, <1>3
  <1>5. \A k \in 1..n : k * MAXDELTA \in Nat \ {0} /\ k * MAXDELTA <= m
    BY <1>3, Multiples
  <1>6. m < d /\ d <= m + MAXDELTA
    BY <1>3
  <1> HIDE DEF m
  <1>7. d - m \in 1..MAXDELTA
    BY <1>1, <1>4, <1>6
  <1>8. \A k \in 1..n : Below(i) + k * MAXDELTA < pending[i]
    <2> SUFFICES ASSUME NEW k \in 1..n
                 PROVE  Below(i) + k * MAXDELTA < pending[i]
      OBVIOUS
    <2>1. k * MAXDELTA < d /\ k * MAXDELTA \in Nat
      BY <1>1, <1>4, <1>5, <1>6
    <2> QED
      BY <1>1, <2>1 DEF d
  <1> QED
    BY <1>2, <1>3, <1>4, <1>5, <1>7, <1>8 DEF d, m

\* The frames.  A call of os.exit or of coroutine.close never returns to the frames
\* below it, which are not `live' any more.
FrameOK(f) ==
    /\ f.func <= f.active /\ (f.raised => f.recst)
    /\ f.kind \in {"lua", "c"} => 0 < f.func /\ f.phase # "error" /\ ~f.recst
    /\ f.kind = "pcall" => f.active = f.func /\ f.phase \in {"call", "error"}
    /\ f.kind = "pcall" /\ f.phase = "error" => f.recst /\ f.level = f.func + 2
    /\ f.kind \in Ends => f.phase = "error" /\ f.level = 1
    /\ f.phase = "close" => f.func < f.level
    /\ f.phase = "return" => f.level = IF f.kind = "lua" THEN f.func + 1 ELSE f.func
Live(fs, i) == \A j \in DOMAIN fs : i < j => fs[j].kind \notin Ends
FrameSlots(f) == IF f.kind = "pcall" THEN f.func + 1 ELSE f.func
Ordered(fs) ==
    \A i, j \in DOMAIN fs :
        i < j /\ Live(fs, i) /\ fs[i].kind \notin Ends => FrameSlots(fs[i]) < fs[j].func

\* Where the variables in P are: never in the slots of a frame itself, and those above
\* a frame belong to it, to an error that it handles or to the frames above.
Placed(f, p) == p < f.func \/ FrameSlots(f) < p
Covered(fs, i, p) ==
    \/ p <= fs[i].active \/ fs[i].recst
    \/ i < Len(fs) /\ fs[i + 1].func < p
Scoped(fs, P) ==
    \A i \in DOMAIN fs : Live(fs, i) /\ fs[i].kind \notin Ends =>
        \A p \in P : Placed(fs[i], p) /\ Covered(fs, i, p)

FramesOK(fs) == \A i \in DOMAIN fs : FrameOK(fs[i])
First(fs) == fs # <<>> => fs[1].kind \in Ends \/ fs[1].func = 1
Shape(fs, P) == FramesOK(fs) /\ Ordered(fs) /\ Scoped(fs, P) /\ First(fs)

Pending == {pending[k] : k \in DOMAIN pending}

\* When everything is over, everything has been closed.
Over == frames = <<>> => status = "failed" \/ pending = <<>>

Inv == TypeOK /\ ListOK /\ Shape(frames, Pending) /\ Over

-----------------------------------------------------------------------------
(* A variable enters the list.                                             *)

LEMMA Declared ==
    ASSUME TypeOK, ListOK, NEW l \in Nat, tbclist < l, NewTbc(l), pending' = Append(pending, l)
    PROVE  ListOK' /\ tbclist' = l
  <1>0. PICK m \in Nat : m = Len(pending)
    BY PendingFacts
  <1> DEFINE n == Dummies(l - tbclist)
             dummies == {tbclist + k * MAXDELTA : k \in 1..n}
             gap == l - (tbclist + n * MAXDELTA)
  <1>1. tbclist \in Nat /\ MAXDELTA \in Nat \ {0} /\ m \in Nat /\ DOMAIN pending = 1..m
    BY <1>0, PendingFacts, ListAssumption DEF TypeOK
  <1>2. /\ n \in Nat /\ n * MAXDELTA \in Nat /\ tbclist + n * MAXDELTA < l
        /\ gap \in 1..MAXDELTA
    <2> DEFINE d == l - tbclist
               c == (d - 1) \div MAXDELTA
    <2>1. d \in Nat \ {0}
      BY <1>1
    <2> HIDE DEF d
    <2>2. c \in Nat /\ c * MAXDELTA < d /\ d <= c * MAXDELTA + MAXDELTA
      BY <2>1, Quotient
    <2>3. n = c
      BY DEF Dummies, d
    <2> HIDE DEF c, n
    <2> DEFINE a == c * MAXDELTA
    <2>4. a \in Nat /\ a < d /\ d <= a + MAXDELTA
      BY <1>1, <2>2
    <2> HIDE DEF a
    <2>5. tbclist + a < l /\ l - (tbclist + a) \in 1..MAXDELTA
      BY <1>1, <2>4 DEF d
    <2> QED
      BY <2>2, <2>3, <2>4, <2>5 DEF a
  <1>3. StoredDelta(gap) = gap
    BY <1>2, FitsShort
  <1>4. /\ tbclist' = l
        /\ delta' = [p \in DOMAIN delta \cup dummies \cup {l} |->
                        IF p = l THEN gap ELSE IF p \in dummies THEN 0 ELSE delta[p]]
    BY <1>3 DEF NewTbc
  <1> HIDE DEF gap
  <1>5. \A p \in dummies : p \in Nat /\ tbclist < p /\ p < l
    <2> SUFFICES ASSUME NEW k \in 1..n
                 PROVE  LET p == tbclist + k * MAXDELTA IN p \in Nat /\ tbclist < p /\ p < l
      OBVIOUS
    <2>1. k * MAXDELTA \in Nat \ {0} /\ k * MAXDELTA <= n * MAXDELTA
      BY <1>2, Multiples
    <2> QED
      BY <1>1, <1>2, <2>1
  <1> HIDE DEF dummies
  <1>6. /\ DOMAIN delta' = DOMAIN delta \cup dummies \cup {l}
        /\ delta'[l] = gap
        /\ \A p \in dummies : delta'[p] = 0
        /\ \A p \in DOMAIN delta : p <= tbclist => delta'[p] = delta[p]
    BY <1>1, <1>4, <1>5
  <1>7. /\ Len(pending') = m + 1 /\ DOMAIN pending' = 1..m + 1 /\ pending'[m + 1] = l
        /\ \A i \in 1..m : pending'[i] = pending[i]
    BY <1>0 DEF TypeOK
  <1>8. Below(m + 1)' = tbclist /\ \A i \in 1..m : Below(i)' = Below(i)
    <2>1. Below(m + 1)' = tbclist
      <3>1. CASE m = 0
        BY <1>0, <1>7, <3>1, PendingFacts DEF Below
      <3>2. CASE m # 0
        <4>1. PICK j \in Nat : j = m + 1 /\ j # 1 /\ j - 1 = m /\ m \in 1..m
          BY <1>1, <3>2
        <4>2. pending'[m] = tbclist
          BY <1>0, <1>7, <3>2, <4>1, PendingFacts
        <4>3. Below(j)' = pending'[j - 1]
          BY <4>1 DEF Below
        <4> QED
          BY <4>1, <4>2, <4>3
      <3> QED
        BY <3>1, <3>2
    <2>2. ASSUME NEW i \in 1..m
          PROVE  Below(i)' = Below(i)
      <3>1. i = 1 \/ i - 1 \in 1..m
        BY <1>1
      <3> QED
        BY <1>7, <3>1 DEF Below
    <2> QED
      BY <2>1, <2>2
  <1>9. \A i \in DOMAIN pending' : 0 < pending'[i]
    BY <1>1, <1>7 DEF ListOK
  <1>10. ASSUME NEW i \in DOMAIN pending', NEW j \in DOMAIN pending', i < j
         PROVE  pending'[i] < pending'[j]
    <2>1. i \in 1..m /\ pending'[i] = pending[i] /\ pending[i] \in Nat /\ pending[i] <= tbclist
      BY <1>1, <1>0, <1>7, <1>10, PendingFacts
    <2>2. CASE j = m + 1
      BY <1>1, <1>7, <2>1, <2>2
    <2>3. CASE j # m + 1
      BY <1>1, <1>7, <1>10, <2>1, <2>3 DEF ListOK
    <2> QED
      BY <2>2, <2>3
  <1>11. \A q \in DOMAIN delta' : q \in 1..l
    BY <1>1, <1>5, <1>6 DEF ListOK
  <1>12. ASSUME NEW i \in DOMAIN pending'
         PROVE  Linked(i)'
    <2>1. CASE i = m + 1
      <3>1. Dummy(i)' = n /\ Below(i)' = tbclist /\ pending'[i] = l
        <4>1. Below(i)' = tbclist /\ pending'[i] = l
          BY <1>7, <1>8, <2>1
        <4> QED
          BY <4>1 DEF Dummy, Dummies
      <3>2. \A k \in 1..n : tbclist + k * MAXDELTA \in dummies
        BY DEF dummies
      <3>3. delta'[l] = l - tbclist - n * MAXDELTA
        BY <1>1, <1>2, <1>6 DEF gap
      <3> HIDE DEF n
      <3> QED
        BY <1>6, <3>1, <3>2, <3>3 DEF Linked
    <2>2. CASE i # m + 1
      <3>1. i \in 1..m /\ i \in DOMAIN pending
        BY <1>1, <1>7, <2>2
      <3>2. pending'[i] = pending[i] /\ Below(i)' = Below(i)
        BY <1>7, <1>8, <3>1
      <3>3. Dummy(i)' = Dummy(i)
        BY <3>2 DEF Dummy
      <3>4. pending[i] \in Nat /\ pending[i] <= tbclist /\ Below(i) \in Nat
        BY <3>1, PendingFacts
      <3>5. \A k \in 1..Dummy(i) : /\ Below(i) + k * MAXDELTA <= tbclist
        BY <1>1, <3>1, <3>4, DummyPlaces
      <3>6. Linked(i)
        BY <3>1 DEF ListOK
      <3> QED
        BY <1>6, <3>2, <3>3, <3>4, <3>5, <3>6 DEF Linked
    <2> QED
      BY <2>1, <2>2
  <1>13. tbclist' = Below(Len(pending) + 1)'
    BY <1>1, <1>4, <1>7 DEF Below
  <1> QED
    BY <1>4, <1>9, <1>10, <1>11, <1>12, <1>13 DEF ListOK

-----------------------------------------------------------------------------
(* The newest variable leaves it.                                          *)

LEMMA Difference ==
    ASSUME NEW n \in Nat, NEW k \in Nat
    PROVE  /\ k < n => n - k \in 1..n /\ (n - k) * MAXDELTA = n * MAXDELTA - k * MAXDELTA
           /\ k >= n => k * MAXDELTA >= n * MAXDELTA
           /\ n <= n * MAXDELTA
  BY ListAssumption

LEMMA Skipped ==
    ASSUME TypeOK, ListOK, pending # <<>>
    PROVE  SkipDummies(tbclist - delta[tbclist]) = Below(Len(pending))
  <1> DEFINE m == Len(pending)
             n == Dummy(m)
             b == Below(m)
             p == b + n * MAXDELTA
             stops == {q \in {p - k * MAXDELTA : k \in 0..p} : q \notin DOMAIN delta \/ delta[q] # 0}
  <1>1. m \in DOMAIN pending /\ m \in Nat /\ DOMAIN pending = 1..m /\ tbclist = pending[m]
    BY PendingFacts
  <1>2. b \in Nat /\ n \in Nat /\ n * MAXDELTA \in Nat /\ p \in Nat
    BY <1>1, PendingFacts, DummyPlaces
  <1>3. tbclist - delta[tbclist] = p
    <2>1. delta[tbclist] = pending[m] - b - n * MAXDELTA
      BY <1>1 DEF ListOK, Linked
    <2> QED
      BY <1>1, <1>2, <2>1, PendingFacts
  <1>4. b \notin DOMAIN delta \/ delta[b] # 0
    <2>1. CASE m = 1
      BY <2>1 DEF Below, ListOK
    <2>2. CASE m # 1
      <3>1. m - 1 \in DOMAIN pending /\ b = pending[m - 1]
        BY <1>1, <2>2 DEF Below
      <3>2. delta[b] = b - Below(m - 1) - Dummy(m - 1) * MAXDELTA
        BY <3>1 DEF ListOK, Linked
      <3>3. delta[b] \in 1..MAXDELTA
        BY <3>1, <3>2, DummyPlaces
      <3> QED
        BY <3>3, ListAssumption
    <2> QED
      BY <2>1, <2>2
  <1>5. \A k \in 1..n : b + k * MAXDELTA \in DOMAIN delta /\ delta[b + k * MAXDELTA] = 0
    BY <1>1 DEF ListOK, Linked
  <1> HIDE DEF n, b, m
  <1> DEFINE a == n * MAXDELTA
  <1>6. b \in stops
    <2>1. n <= a
      BY <1>2, Difference
    <2>2. n \in 0..p
      BY <1>2, <2>1
    <2>3. b = p - n * MAXDELTA
      BY <1>2
    <2> QED
      BY <1>4, <2>2, <2>3
  <1>7. \A r \in stops : r \in Int /\ r <= b
    <2> SUFFICES ASSUME NEW k \in 0..p, LET r == p - k * MAXDELTA IN r \notin DOMAIN delta \/ delta[r] # 0
                 PROVE  p - k * MAXDELTA \in Int /\ p - k * MAXDELTA <= b
      OBVIOUS
    <2>1. k \in Nat /\ k * MAXDELTA \in Nat
      BY <1>2, ListAssumption
    <2>2. CASE k < n
      <3>1. n - k \in 1..n /\ (n - k) * MAXDELTA = n * MAXDELTA - k * MAXDELTA
        BY <1>2, <2>1, <2>2, Difference
      <3>2. p - k * MAXDELTA = b + (n - k) * MAXDELTA
        <4> DEFINE x == k * MAXDELTA
                   y == (n - k) * MAXDELTA
        <4>1. x \in Nat /\ a \in Nat /\ y = a - x /\ p = b + a
          BY <1>2, <2>1, <3>1
        <4> HIDE DEF x, y, a, p
        <4>2. p - x = b + y
          BY <1>2, <4>1
        <4> QED
          BY <4>2 DEF x, y
      <3> QED
        BY <1>5, <3>1, <3>2
    <2>3. CASE k >= n
      <3>1. k * MAXDELTA >= n * MAXDELTA
        BY <1>2, <2>1, <2>3, Difference
      <3> QED
        BY <1>2, <2>1, <3>1
    <2> QED
      BY <1>2, <2>1, <2>2, <2>3
  <1>8. SkipDummies(p) = CHOOSE q \in stops : \A r \in stops : r <= q
    BY DEF SkipDummies
  <1> HIDE DEF stops, p
  <1>9. SkipDummies(p) = b
    <2> DEFINE c == CHOOSE q \in stops : \A r \in stops : r <= q
    <2>1. c \in stops /\ \A r \in stops : r <= c
      BY <1>6, <1>7
    <2>2. SkipDummies(p) = c
      BY <1>8
    <2> HIDE DEF c
    <2>3. c \in Int /\ c <= b /\ b <= c
      BY <1>6, <1>7, <2>1
    <2> QED
      BY <1>2, <2>2, <2>3
  <1> QED
    BY <1>3, <1>9 DEF b, m

\* The last of distinct elements is removed.
LEMMA RemovedLast ==
    ASSUME TypeOK, ListOK, pending # <<>>
    PROVE  RemoveFirst(pending, tbclist) = SubSeq(pending, 1, Len(pending) - 1)
  <1> DEFINE m == Len(pending)
             I == {i \in 1..m : pending[i] = tbclist}
  <1>1. m \in 1..m /\ m \in Nat /\ DOMAIN pending = 1..m /\ tbclist = pending[m]
    BY PendingFacts
  <1>2. \A i \in 1..m : pending[i] = tbclist => i = m
    <2> SUFFICES ASSUME NEW i \in 1..m, pending[i] = tbclist
                 PROVE  i = m
      OBVIOUS
    <2>1. i < m => pending[i] < pending[m]
      BY <1>1 DEF ListOK
    <2>2. tbclist \in Nat /\ i <= m
      BY <1>1 DEF TypeOK
    <2>3. ~(pending[i] < pending[m])
      BY <1>1, <2>2
    <2>4. ~(i < m) /\ i \in Int
      BY <2>1, <2>3
    <2> HIDE DEF m
    <2> QED
      BY <1>1, <2>2, <2>4
  <1>3. I = {m}
    BY <1>1, <1>2
  <1>4. Min(I) = m
    BY <1>1, <1>3 DEF Min
  <1>5. SelectInSeq(pending, LAMBDA v : v = tbclist) = m
    BY <1>3, <1>4 DEF SelectInSeq
  <1>6. RemoveFirst(pending, tbclist) = RemoveAt(pending, m)
    BY <1>1, <1>5 DEF RemoveFirst
  <1>7. RemoveAt(pending, m) = SubSeq(pending, 1, m - 1) \o SubSeq(pending, m + 1, m)
    BY DEF RemoveAt
  <1>8. SubSeq(pending, m + 1, m) = <<>> /\ SubSeq(pending, 1, m - 1) \in Seq(Nat)
    BY <1>1 DEF TypeOK
  <1> QED
    BY <1>6, <1>7, <1>8

LEMMA Removed ==
    ASSUME TypeOK, ListOK, pending # <<>>, PopTbc, pending' = RemoveFirst(pending, tbclist)
    PROVE  /\ ListOK' /\ pending' = SubSeq(pending, 1, Len(pending) - 1)
           /\ tbclist = pending[Len(pending)] /\ tbclist' \in Nat /\ tbclist' < tbclist
  <1>0. PICK m \in Nat : m = Len(pending) /\ m \in DOMAIN pending /\ DOMAIN pending = 1..m
    <2>1. Len(pending) \in Nat /\ DOMAIN pending = 1..Len(pending) /\ Len(pending) # 0
      BY DEF TypeOK
    <2>2. Len(pending) \in DOMAIN pending
      BY <2>1
    <2> QED
      BY <2>1, <2>2
  <1>1. tbclist = pending[m] /\ Below(m) \in Nat /\ Below(m) < tbclist
    BY <1>0, PendingFacts
  <1>2. tbclist' = Below(m)
    BY <1>0, Skipped DEF PopTbc
  <1>3. delta' = [p \in {q \in DOMAIN delta : q <= tbclist'} |-> delta[p]]
    BY DEF PopTbc
  <1>4. pending' = SubSeq(pending, 1, Len(pending) - 1)
    BY RemovedLast
  <1>5. /\ Len(pending') = m - 1 /\ DOMAIN pending' = 1..m - 1
        /\ \A i \in 1..m - 1 : pending'[i] = pending[i]
    BY <1>0, <1>4 DEF TypeOK
  <1>6. \A i \in 1..m - 1 : i \in DOMAIN pending /\ pending[i] <= Below(m)
    <2> SUFFICES ASSUME NEW i \in 1..m - 1
                 PROVE  i \in DOMAIN pending /\ pending[i] <= Below(m)
      OBVIOUS
    <2>1. i \in DOMAIN pending /\ m - 1 \in DOMAIN pending /\ m # 1
      BY <1>0
    <2>2. Below(m) = pending[m - 1]
      BY <2>1 DEF Below
    <2>3. i = m - 1 \/ i < m - 1
      BY <1>0
    <2> QED
      BY <2>1, <2>2, <2>3, PendingFacts DEF ListOK
  <1>7. ASSUME NEW i \in 1..m - 1
        PROVE  Below(i)' = Below(i)
    <2>1. i = 1 \/ i - 1 \in 1..m - 1
      BY <1>0
    <2> QED
      BY <1>5, <2>1 DEF Below
  <1>8. \A i \in DOMAIN pending' : 0 < pending'[i]
    BY <1>5, <1>6 DEF ListOK
  <1>9. \A i, j \in DOMAIN pending' : i < j => pending'[i] < pending'[j]
    BY <1>5, <1>6 DEF ListOK
  <1>10. \A q \in DOMAIN delta' : q \in 1..tbclist'
    BY <1>1, <1>2, <1>3 DEF ListOK
  <1>11. ASSUME NEW i \in DOMAIN pending'
         PROVE  Linked(i)'
    <2>1. i \in 1..m - 1 /\ i \in DOMAIN pending /\ pending'[i] = pending[i] /\ Below(i)' = Below(i)
      BY <1>5, <1>6, <1>7
    <2>2. Dummy(i)' = Dummy(i)
      BY <2>1 DEF Dummy
    <2>3. pending[i] \in Nat /\ pending[i] <= tbclist'
      BY <1>2, <1>6, <2>1, PendingFacts
    <2>4. \A k \in 1..Dummy(i) : Below(i) + k * MAXDELTA <= tbclist'
      BY <1>1, <1>2, <2>1, <2>3, DummyPlaces, PendingFacts
    <2>5. Linked(i)
      BY <2>1 DEF ListOK
    <2> QED
      BY <1>3, <2>1, <2>2, <2>3, <2>4, <2>5 DEF Linked
  <1>12. tbclist' = Below(Len(pending) + 1)'
    <2>1. CASE m = 1
      BY <1>2, <1>5, <2>1 DEF Below
    <2>2. CASE m # 1
      <3>1. Below(m) = pending[m - 1] /\ m - 1 \in 1..m - 1 /\ m - 1 + 1 = m /\ m # 1
        BY <1>0, <2>2 DEF Below
      <3>2. Below(m)' = pending'[m - 1]
        BY <3>1 DEF Below
      <3>3. (Len(pending) + 1)' = m
        BY <1>5, <3>1
      <3>4. Below(Len(pending) + 1)' = Below(m)'
        BY <3>3 DEF Below
      <3> QED
        BY <1>2, <1>5, <3>1, <3>2, <3>4
    <2> QED
      BY <2>1, <2>2
  <1> QED
    BY <1>0, <1>1, <1>2, <1>4, <1>8, <1>9, <1>10, <1>11, <1>12 DEF ListOK

-----------------------------------------------------------------------------
(* Sequences.                                                              *)

LEMMA LastReplaced ==
    ASSUME NEW S, NEW s \in Seq(S), s # <<>>, NEW x \in S, NEW t, t = [s EXCEPT ![Len(s)] = x]
    PROVE  /\ t \in Seq(S) /\ t # <<>> /\ Len(t) = Len(s) /\ DOMAIN t = 1..Len(s)
           /\ t[Len(s)] = x /\ \A i \in 1..Len(s) - 1 : t[i] = s[i]
  <1>1. t \in Seq(S) /\ Len(t) = Len(s) /\ DOMAIN t = 1..Len(s)
    OBVIOUS
  <1>2. t[Len(s)] = x
    OBVIOUS
  <1>3. \A i \in 1..Len(s) - 1 : t[i] = s[i]
    OBVIOUS
  <1>4. t # <<>>
    BY <1>1
  <1> QED
    BY <1>1, <1>2, <1>3, <1>4

LEMMA Prefix ==
    ASSUME NEW S, NEW s \in Seq(S), NEW n \in 0..Len(s), NEW t, t = SubSeq(s, 1, n)
    PROVE  /\ t \in Seq(S) /\ Len(t) = n /\ DOMAIN t = 1..n
           /\ \A i \in 1..n : t[i] = s[i]
  <1>1. t \in Seq(S) /\ Len(t) = n /\ DOMAIN t = 1..n
    OBVIOUS
  <1>2. \A i \in 1..n : t[i] = s[i]
    OBVIOUS
  <1> QED
    BY <1>1, <1>2

LEMMA Extended ==
    ASSUME NEW S, NEW s \in Seq(S), NEW x \in S, NEW t, t = Append(s, x)
    PROVE  /\ t \in Seq(S) /\ Len(t) = Len(s) + 1 /\ DOMAIN t = 1..Len(s) + 1
           /\ t[Len(s) + 1] = x /\ \A i \in 1..Len(s) : t[i] = s[i]
  OBVIOUS

LEMMA SeqFacts ==
    ASSUME NEW S, NEW s \in Seq(S)
    PROVE  /\ Len(s) \in Nat /\ DOMAIN s = 1..Len(s) /\ \A i \in DOMAIN s : s[i] \in S
           /\ s # <<>> => Len(s) \in DOMAIN s /\ Len(s) # 0
  <1>1. Len(s) \in Nat /\ DOMAIN s = 1..Len(s) /\ \A i \in DOMAIN s : s[i] \in S
    OBVIOUS
  <1>2. s # <<>> => Len(s) # 0
    OBVIOUS
  <1> QED
    BY <1>1, <1>2

-----------------------------------------------------------------------------
(* What changes of the frames preserve their shape.                        *)

LEMMA FrameFacts ==
    ASSUME NEW f \in Frame
    PROVE  /\ f.func \in Nat /\ f.active \in Nat /\ f.level \in Nat /\ FrameSlots(f) \in Nat
           /\ f.func <= FrameSlots(f)
  BY DEF Frame, FrameSlots

\* The frames above one are left, and it goes on.
LEMMA ShapeTop ==
    ASSUME NEW fs \in Seq(Frame), NEW P \in SUBSET Nat, Shape(fs, P), NEW n \in 1..Len(fs),
           \A j \in n + 1..Len(fs) : fs[j].kind \notin Ends,
           NEW g \in Frame, NEW f, f = fs[n], g.func = f.func, g.kind = f.kind, FrameOK(g),
           g.kind \in Ends \/ g.recst \/ \A p \in P : p > f.func => p <= g.active,
           NEW t \in Seq(Frame), Len(t) = n, t[n] = g, \A i \in 1..n - 1 : t[i] = fs[i]
    PROVE  Shape(t, P)
  <1>1. DOMAIN t = 1..n /\ n \in Nat
    BY SeqFacts
  <1>2. Len(fs) \in Nat /\ DOMAIN fs = 1..Len(fs) /\ \A i \in 1..n : i \in DOMAIN fs
    BY SeqFacts
  <1>3. \A i \in 1..n : t[i].kind = fs[i].kind /\ t[i].func = fs[i].func
    <2> SUFFICES ASSUME NEW i \in 1..n
                 PROVE  t[i].kind = fs[i].kind /\ t[i].func = fs[i].func
      OBVIOUS
    <2>1. CASE i = n
      BY <1>1, <2>1
    <2>2. CASE i # n
      BY <1>1, <2>2
    <2> QED
      BY <2>1, <2>2
  <1>4. \A i \in 1..n : FrameSlots(t[i]) = FrameSlots(fs[i])
    BY <1>3 DEF FrameSlots
  <1>5. \A i \in 1..n : Live(t, i) => Live(fs, i)
    <2> SUFFICES ASSUME NEW i \in 1..n, Live(t, i), NEW j \in DOMAIN fs, i < j
                 PROVE  fs[j].kind \notin Ends
      BY DEF Live
    <2>1. j \in 1..n \/ j \in n + 1..Len(fs)
      BY <1>2
    <2> QED
      BY <1>1, <1>3, <2>1 DEF Live
  <1>6. FramesOK(t)
    <2> SUFFICES ASSUME NEW i \in 1..n
                 PROVE  FrameOK(t[i])
      BY <1>1 DEF FramesOK
    <2>1. CASE i = n
      BY <2>1
    <2>2. CASE i # n
      BY <1>1, <1>2, <2>2 DEF Shape, FramesOK
    <2> QED
      BY <2>1, <2>2
  <1>7. Ordered(t)
    BY <1>1, <1>2, <1>3, <1>4, <1>5 DEF Shape, Ordered
  <1>8. Scoped(t, P)
    <2> SUFFICES ASSUME NEW i \in 1..n, Live(t, i), t[i].kind \notin Ends, NEW p \in P
                 PROVE  Placed(t[i], p) /\ Covered(t, i, p)
      BY <1>1 DEF Scoped
    <2>1. Placed(fs[i], p) /\ Covered(fs, i, p)
      BY <1>2, <1>3, <1>5 DEF Shape, Scoped
    <2>2. Placed(t[i], p)
      BY <1>3, <1>4, <2>1 DEF Placed
    <2>3. CASE i = n
      <3>1. g.func \in Nat /\ g.active \in Nat /\ g.func <= g.active /\ f.func = g.func
        BY FrameFacts DEF FrameOK
      <3>2. t[i] = g /\ g.kind \notin Ends
        BY <1>1, <2>3
      <3>3. g.recst \/ p <= g.active
        BY <3>1, <3>2
      <3> QED
        BY <2>2, <3>2, <3>3 DEF Covered
    <2>4. CASE i # n
      <3>1. i \in 1..n - 1 /\ i + 1 \in 1..n
        BY <2>4
      <3> QED
        BY <1>1, <1>3, <2>1, <2>2, <3>1 DEF Covered
    <2> QED
      BY <2>3, <2>4
  <1>9. First(t)
    BY <1>1, <1>2, <1>3 DEF Shape, First
  <1> QED
    BY <1>6, <1>7, <1>8, <1>9 DEF Shape

\* The innermost frame goes on.
LEMMA ShapeSet ==
    ASSUME NEW fs \in Seq(Frame), fs # <<>>, NEW P \in SUBSET Nat, Shape(fs, P), NEW g \in Frame,
           NEW f, f = fs[Len(fs)], g.func = f.func, g.kind = f.kind, FrameOK(g),
           g.kind \in Ends \/ g.recst \/ \A p \in P : p > f.func => p <= g.active
    PROVE  Shape([fs EXCEPT ![Len(fs)] = g], P)
  <1> DEFINE t == [fs EXCEPT ![Len(fs)] = g]
             n == Len(fs)
  <1>1. t \in Seq(Frame) /\ Len(t) = n /\ t[n] = g /\ \A i \in 1..n - 1 : t[i] = fs[i]
    BY LastReplaced
  <1>2. n \in 1..Len(fs) /\ \A j \in n + 1..Len(fs) : fs[j].kind \notin Ends
    BY SeqFacts
  <1> HIDE DEF t
  <1>3. Shape(t, P)
    BY <1>1, <1>2, ShapeTop
  <1> QED
    BY <1>3 DEF t

\* A frame is pushed.
LEMMA ShapePush ==
    ASSUME NEW fs \in Seq(Frame), fs # <<>>, NEW P \in SUBSET Nat, Shape(fs, P), NEW h \in Frame, FrameOK(h),
           \/ h.kind \in Ends
           \/ /\ fs[Len(fs)].kind \in Ends \/ FrameSlots(fs[Len(fs)]) < h.func
              /\ \A p \in P : p < h.func
    PROVE  Shape(Append(fs, h), P)
  <1> DEFINE t == Append(fs, h)
  <1>0. PICK n \in Nat \ {0} : n = Len(fs)
    BY SeqFacts
  <1>1. /\ t \in Seq(Frame) /\ Len(t) = n + 1 /\ DOMAIN t = 1..n + 1
        /\ t[n + 1] = h /\ \A i \in 1..n : t[i] = fs[i]
    BY <1>0, Extended
  <1>2. DOMAIN fs = 1..n /\ (\A i \in 1..n : fs[i] \in Frame)
    BY <1>0, SeqFacts
  <1> HIDE DEF t
  <1>3. FramesOK(t)
    <2> SUFFICES ASSUME NEW i \in 1..n + 1
                 PROVE  FrameOK(t[i])
      BY <1>1 DEF FramesOK
    <2>1. CASE i = n + 1
      BY <1>1, <2>1
    <2>2. CASE i # n + 1
      BY <1>1, <1>2, <2>2 DEF Shape, FramesOK
    <2> QED
      BY <2>1, <2>2
  <1>4. \A i \in 1..n : Live(t, i) => Live(fs, i) /\ h.kind \notin Ends
    BY <1>1, <1>2 DEF Live
  <1>5. Ordered(t)
    <2> SUFFICES ASSUME NEW i \in 1..n + 1, NEW j \in 1..n + 1, i < j, Live(t, i), t[i].kind \notin Ends
                 PROVE  FrameSlots(t[i]) < t[j].func
      BY <1>1 DEF Ordered
    <2>1. i \in 1..n /\ t[i] = fs[i] /\ Live(fs, i) /\ h.kind \notin Ends
      BY <1>1, <1>4
    <2>2. CASE j = n + 1
      <3>1. i = n \/ (i < n /\ n \in 1..n)
        BY <2>1
      <3>2. CASE i = n
        BY <1>0, <1>1, <1>2, <2>1, <2>2, <3>2
      <3>3. CASE i < n /\ n \in 1..n
        <4>1. FrameSlots(fs[i]) < fs[n].func
          BY <1>2, <2>1, <3>3 DEF Shape, Ordered
        <4>2. fs[n].kind \notin Ends
          BY <1>2, <2>1, <3>3 DEF Live
        <4>3. FrameSlots(fs[n]) < h.func
          BY <1>0, <1>2, <2>1, <3>3, <4>2
        <4> QED
          BY <1>1, <1>2, <2>1, <2>2, <3>3, <4>1, <4>3, FrameFacts
      <3> QED
        BY <3>1, <3>2, <3>3
    <2>3. CASE j # n + 1
      BY <1>1, <1>2, <2>1, <2>3 DEF Shape, Ordered
    <2> QED
      BY <2>2, <2>3
  <1>6. Scoped(t, P)
    <2> SUFFICES ASSUME NEW i \in 1..n + 1, Live(t, i), t[i].kind \notin Ends, NEW p \in P
                 PROVE  Placed(t[i], p) /\ Covered(t, i, p)
      BY <1>1 DEF Scoped
    <2>1. CASE i = n + 1
      <3>1. p < h.func /\ h.func <= h.active
        BY <1>1, <2>1 DEF FrameOK
      <3> QED
        BY <1>1, <2>1, <3>1, FrameFacts DEF Placed, Covered
    <2>2. CASE i # n + 1
      <3>1. i \in 1..n /\ t[i] = fs[i] /\ Live(fs, i) /\ h.kind \notin Ends
        BY <1>1, <1>4, <2>2
      <3>2. Placed(fs[i], p) /\ Covered(fs, i, p)
        BY <1>1, <1>2, <3>1 DEF Shape, Scoped
      <3>3. CASE i < n
        <4>1. i + 1 \in 1..n
          BY <3>1, <3>3
        <4> QED
          BY <1>0, <1>1, <3>1, <3>2, <3>3, <4>1 DEF Covered
      <3>4. CASE i = n
        BY <1>0, <1>1, <3>1, <3>2, <3>4 DEF Covered
      <3> QED
        BY <3>1, <3>3, <3>4
    <2> QED
      BY <2>1, <2>2
  <1>7. First(t)
    BY <1>1 DEF Shape, First
  <1> QED
    BY <1>3, <1>5, <1>6, <1>7 DEF Shape, t

\* Frames are left.
LEMMA ShapeCut ==
    ASSUME NEW fs \in Seq(Frame), NEW P \in SUBSET Nat, Shape(fs, P), NEW n \in 0..Len(fs),
           \A j \in n + 1..Len(fs) : fs[j].kind \notin Ends,
           n # 0 => fs[n].kind \in Ends \/ fs[n].recst \/ \A p \in P : p <= fs[n].active
    PROVE  Shape(SubSeq(fs, 1, n), P)
  <1> DEFINE t == SubSeq(fs, 1, n)
  <1>1. /\ t \in Seq(Frame) /\ Len(t) = n /\ DOMAIN t = 1..n /\ \A i \in 1..n : t[i] = fs[i]
    BY Prefix
  <1> HIDE DEF t
  <1>2. CASE n = 0
    <2>1. DOMAIN t = {} /\ t = <<>>
      BY <1>1, <1>2
    <2>2. Shape(t, P)
      BY <2>1 DEF Shape, FramesOK, Ordered, Scoped, First
    <2> QED
      BY <2>2 DEF t
  <1>3. CASE n # 0
    <2>1. n \in 1..Len(fs) /\ n \in DOMAIN fs
      BY <1>3, SeqFacts
    <2> DEFINE f == fs[n]
    <2>2. f \in Frame /\ FrameOK(f)
      BY <2>1, SeqFacts DEF Shape, FramesOK
    <2>3. f.kind \in Ends \/ f.recst \/ \A p \in P : p > f.func => p <= f.active
      BY <1>3
    <2>4. t[n] = f /\ \A i \in 1..n - 1 : t[i] = fs[i]
      BY <1>1, <2>1
    <2> HIDE DEF f
    <2>5. f = fs[n]
      BY DEF f
    <2>6. Shape(t, P)
      BY <1>1, <2>1, <2>2, <2>3, <2>4, <2>5, ShapeTop
    <2> QED
      BY <2>6 DEF t
  <1> QED
    BY <1>2, <1>3

\* Variables are closed.
LEMMA ShapeFewer ==
    ASSUME NEW fs, NEW P, Shape(fs, P), NEW Q \in SUBSET P
    PROVE  Shape(fs, Q)
  BY DEF Shape, Scoped

\* The innermost function declares one.
LEMMA ShapeMore ==
    ASSUME NEW fs \in Seq(Frame), fs # <<>>, NEW P \in SUBSET Nat, Shape(fs, P), NEW l \in Nat,
           FrameSlots(fs[Len(fs)]) < l, l <= fs[Len(fs)].active
    PROVE  Shape(fs, P \cup {l})
  <1>0. PICK n \in Nat \ {0} : n = Len(fs)
    BY SeqFacts
  <1>1. DOMAIN fs = 1..n /\ \A i \in 1..n : fs[i] \in Frame
    BY <1>0, SeqFacts
  <1>2. fs[n].func < l
    BY <1>0, <1>1, FrameFacts
  <1>3. ASSUME NEW i \in 1..n, Live(fs, i), fs[i].kind \notin Ends
        PROVE  Placed(fs[i], l) /\ Covered(fs, i, l)
    <2>1. CASE i = n
      BY <1>0, <2>1 DEF Placed, Covered
    <2>2. CASE i # n
      <3>1. FrameSlots(fs[i]) < fs[n].func
        BY <1>1, <1>3, <2>2 DEF Shape, Ordered
      <3>2. FrameSlots(fs[i]) < l
        BY <1>1, <1>2, <3>1, FrameFacts
      <3>3. i + 1 \in 1..n /\ i < i + 1 /\ i < n
        BY <2>2
      <3>4. fs[i + 1].func < l
        <4>1. CASE i + 1 = n
          BY <1>2, <4>1
        <4>2. CASE i + 1 # n
          <5>1. Live(fs, i + 1) /\ fs[i + 1].kind \notin Ends
            BY <1>1, <1>3, <3>3 DEF Live
          <5>2. i + 1 < n
            BY <3>3, <4>2
          <5>3. FrameSlots(fs[i + 1]) < fs[n].func
            BY <1>1, <3>3, <5>1, <5>2 DEF Shape, Ordered
          <5> QED
            BY <1>1, <1>2, <3>3, <5>3, FrameFacts
        <4> QED
          BY <4>1, <4>2
      <3> QED
        BY <1>0, <3>2, <3>3, <3>4 DEF Placed, Covered
    <2> QED
      BY <2>1, <2>2
  <1> QED
    BY <1>1, <1>3 DEF Shape, Scoped

-----------------------------------------------------------------------------
(* Every step preserves the invariant.                                     *)

LEMMA PendingSet ==
    ASSUME TypeOK, ListOK
    PROVE  /\ Pending \in SUBSET Nat /\ \A p \in Pending : 0 < p /\ p <= tbclist
           /\ tbclist \in Nat /\ (tbclist = 0 <=> pending = <<>>)
  <1>1. tbclist \in Nat /\ tbclist = 0 => pending = <<>>
    <2> SUFFICES ASSUME tbclist = 0, pending # <<>>
                 PROVE  FALSE
      BY DEF TypeOK
    <2>1. Len(pending) \in DOMAIN pending
      BY SeqFacts DEF TypeOK
    <2> QED
      BY <2>1, PendingFacts
  <1>2. pending = <<>> => tbclist = 0
    BY PendingFacts
  <1> QED
    BY <1>1, <1>2, PendingFacts DEF Pending, TypeOK, ListOK

LEMMA Innermost ==
    ASSUME Inv, frames # <<>>
    PROVE  /\ F \in Frame /\ F = frames[Len(frames)] /\ FrameOK(F)
           /\ frames \in Seq(Frame) /\ Len(frames) \in Nat \ {0} /\ DOMAIN frames = 1..Len(frames)
           /\ F.kind \in Ends \/ F.recst \/ \A p \in Pending : p <= F.active
           /\ F.kind \in Ends \/ \A p \in Pending : Placed(F, p)
  <1>1. /\ frames \in Seq(Frame) /\ Len(frames) \in Nat \ {0} /\ DOMAIN frames = 1..Len(frames)
        /\ Len(frames) \in DOMAIN frames
    BY SeqFacts DEF Inv, TypeOK
  <1>2. F = frames[Len(frames)] /\ F \in Frame
    BY <1>1, SeqFacts DEF F
  <1>3. FrameOK(F)
    BY <1>1, <1>2 DEF Inv, Shape, FramesOK
  <1>4. Live(frames, Len(frames))
    BY <1>1 DEF Live
  <1>5. F.kind \in Ends \/ \A p \in Pending : Placed(F, p) /\ Covered(frames, Len(frames), p)
    BY <1>1, <1>2, <1>4 DEF Inv, Shape, Scoped
  <1> QED
    BY <1>1, <1>2, <1>3, <1>5 DEF Covered

\* The variables stay as they are.
LEMMA Same ==
    ASSUME Inv, UNCHANGED <<list, coroutine>>, frames' \in Seq(Frame), Shape(frames', Pending),
           lost' \in Nat, status' \in {"running", "suspended", "failed", "ended"},
           frames' = <<>> => status' = "failed" \/ pending = <<>>
    PROVE  Inv'
  <1>1. tbclist' = tbclist /\ delta' = delta /\ pending' = pending /\ coroutine' = coroutine
    BY DEF list
  <1>2. TypeOK'
    BY <1>1 DEF Inv, TypeOK
  <1>3. ListOK'
    BY <1>1 DEF Inv, ListOK, Linked, Dummy, Below
  <1>4. Pending' = Pending
    BY <1>1 DEF Pending
  <1>5. Over'
    BY <1>1 DEF Over
  <1> QED
    BY <1>2, <1>3, <1>4, <1>5 DEF Inv

\* The innermost function goes on, without leaving the scope of a variable.
LEMMA SameSet ==
    ASSUME Inv, frames # <<>>, NEW g \in Frame, g.func = F.func, g.kind = F.kind,
           g.active = F.active, F.recst => g.recst, FrameOK(g)
    PROVE  /\ SetF(g) \in Seq(Frame) /\ SetF(g) # <<>> /\ Shape(SetF(g), Pending)
           /\ Len(SetF(g)) = Len(frames) /\ SetF(g)[Len(frames)] = g
  <1>1. Pending \in SUBSET Nat
    BY PendingSet DEF Inv
  <1>2. g.kind \in Ends \/ g.recst \/ \A p \in Pending : p > F.func => p <= g.active
    BY Innermost
  <1>3. Shape([frames EXCEPT ![Len(frames)] = g], Pending)
    BY <1>1, <1>2, Innermost, ShapeSet DEF Inv
  <1>4. frames \in Seq(Frame)
    BY Innermost
  <1>5. /\ SetF(g) \in Seq(Frame) /\ SetF(g) # <<>> /\ Len(SetF(g)) = Len(frames)
        /\ SetF(g)[Len(frames)] = g
    BY <1>4, LastReplaced DEF SetF
  <1> QED
    BY <1>3, <1>5 DEF SetF

LEMMA NewFrameFacts ==
    ASSUME NEW kind \in {"lua", "c"}, NEW func \in Nat \ {0}, NEW noyield \in BOOLEAN
    PROVE  LET h == NewFrame(kind, func, noyield)
           IN  /\ h \in Frame /\ FrameOK(h)
               /\ h.func = func /\ h.active = func /\ h.kind = kind /\ h.phase = "run"
               /\ h.recst = FALSE /\ h.closes = 0
  BY DEF NewFrame, Frame, FrameOK, Kinds, Phases, Ends

LEMMA Constants ==
    /\ Size \in Nat \ {0} /\ MaxFrames \in Nat \ {0} /\ MaxLevel \in Nat
    /\ \A n \in Results : n \in Nat
    /\ \A open \in OpenReturns : open \in BOOLEAN
  BY ClosingAssumption

LEMMA RunsCode ==
    ASSUME Inv, InCode
    PROVE  /\ frames # <<>> /\ F.kind \in {"lua", "c"} /\ F.phase = "run" /\ F.recst = FALSE
           /\ status = "running"
           /\ F \in Frame /\ FrameOK(F) /\ FrameSlots(F) = F.func /\ F.func <= F.active
           /\ F.func \in Nat /\ F.active \in Nat
           /\ \A p \in Pending : p <= F.active
  <1>1. frames # <<>> /\ F.phase = "run" /\ status = "running"
    BY DEF InCode, Running
  <1>2. F \in Frame /\ FrameOK(F)
    BY <1>1, Innermost
  <1>3. F.kind \in {"lua", "c"}
    BY <1>1, <1>2 DEF FrameOK, Frame, Kinds, Ends
  <1>4. F.recst = FALSE
    BY <1>2, <1>3 DEF FrameOK, Frame
  <1>5. \A p \in Pending : p <= F.active
    BY <1>1, <1>3, <1>4, Innermost DEF Ends
  <1> QED
    BY <1>1, <1>2, <1>3, <1>4, <1>5, FrameFacts DEF FrameSlots, FrameOK

LEMMA ToCloseStep == ASSUME Inv, NEW l \in Int, ToClose(l) PROVE Inv'
  <1>1. InCode /\ frames # <<>>
    BY DEF ToClose, InCode, Running
  <1>2. /\ F \in Frame /\ FrameOK(F) /\ F.kind \in {"lua", "c"} /\ F.recst = FALSE
        /\ F.func \in Nat /\ F.active \in Nat /\ F.func <= F.active /\ F.phase = "run"
        /\ \A p \in Pending : p <= F.active
    BY <1>1, RunsCode
  <1>3. l \in Nat /\ F.active < l
    BY <1>2, Constants DEF ToClose
  <1>4. tbclist < l
    <2>1. tbclist = 0 \/ tbclist \in Pending
      BY PendingFacts, SeqFacts DEF Inv, TypeOK, Pending
    <2>2. tbclist \in Nat
      BY DEF Inv, TypeOK
    <2> QED
      BY <1>2, <1>3, <2>1, <2>2
  <1>5. NewTbc(l) /\ pending' = Append(pending, l)
    BY DEF ToClose
  <1>6. ListOK' /\ tbclist' = l
    BY <1>3, <1>4, <1>5, Declared DEF Inv
  <1> DEFINE g == [F EXCEPT !.active = l]
  <1>7. g \in Frame
    BY <1>2, <1>3 DEF Frame
  <1>8. /\ g.func = F.func /\ g.kind = F.kind /\ g.active = l /\ FrameSlots(g) = F.func
        /\ FrameOK(g)
    BY <1>2, <1>3 DEF Frame, FrameOK, FrameSlots, Ends
  <1>9. frames' = SetF(g) /\ UNCHANGED <<coroutine, lost, status>>
    BY DEF ToClose
  <1> HIDE DEF g
  <1> DEFINE t == [frames EXCEPT ![Len(frames)] = g]
  <1>10. frames \in Seq(Frame) /\ F = frames[Len(frames)]
    BY <1>1, Innermost
  <1>11. t \in Seq(Frame) /\ t # <<>> /\ Len(t) = Len(frames) /\ t[Len(t)] = g
    BY <1>1, <1>7, <1>10, LastReplaced
  <1>12. Pending \in SUBSET Nat
    BY PendingSet DEF Inv
  <1>13. \A p \in Pending : p <= g.active
    BY <1>2, <1>3, <1>8, <1>12
  <1>14. Shape(t, Pending)
    BY <1>1, <1>7, <1>8, <1>10, <1>12, <1>13, ShapeSet DEF Inv
  <1> HIDE DEF t
  <1>15. Shape(t, Pending \cup {l})
    <2>1. FrameSlots(t[Len(t)]) < l /\ l <= t[Len(t)].active
      BY <1>2, <1>3, <1>8, <1>11
    <2> QED
      BY <1>3, <1>11, <1>12, <1>14, <2>1, ShapeMore
  <1>16. Pending' = Pending \cup {l}
    <2>1. /\ DOMAIN pending = 1..Len(pending) /\ Len(pending) \in Nat
          /\ DOMAIN pending' = 1..Len(pending) + 1 /\ pending'[Len(pending) + 1] = l
          /\ \A i \in 1..Len(pending) : pending'[i] = pending[i]
      BY <1>3, <1>5 DEF Inv, TypeOK
    <2>2. \A i \in DOMAIN pending' : i \in DOMAIN pending \/ i = Len(pending) + 1
      BY <2>1
    <2>3. DOMAIN pending \subseteq DOMAIN pending' /\ Len(pending) + 1 \in DOMAIN pending'
      BY <2>1
    <2> QED
      BY <2>1, <2>2, <2>3 DEF Pending
  <1>17. frames' = t
    BY <1>9 DEF t, SetF
  <1>18. Shape(frames', Pending')
    BY <1>15, <1>16, <1>17
  <1>19. TypeOK'
    BY <1>3, <1>5, <1>6, <1>9, <1>11, <1>17 DEF Inv, TypeOK
  <1>20. Over'
    BY <1>11, <1>17 DEF Over
  <1> QED
    BY <1>6, <1>18, <1>19, <1>20 DEF Inv

LEMMA CallStep ==
    ASSUME Inv, NEW kind \in {"lua", "c"}, NEW noyield \in BOOLEAN, Call(kind, noyield)
    PROVE  Inv'
  <1>1. InCode /\ frames # <<>>
    BY DEF Call, InCode, Running
  <1>2. /\ F \in Frame /\ FrameOK(F) /\ F.kind \in {"lua", "c"} /\ F.recst = FALSE
        /\ F.func \in Nat /\ F.active \in Nat /\ F.func <= F.active
        /\ \A p \in Pending : p <= F.active
    BY <1>1, RunsCode
  <1> DEFINE g == [F EXCEPT !.phase = "call"]
             h == NewFrame(kind, F.active + 1, noyield)
  <1>3. g \in Frame
    BY <1>2 DEF Frame, Phases
  <1>4. /\ g.func = F.func /\ g.kind = F.kind /\ g.active = F.active /\ g.recst = F.recst
        /\ FrameOK(g) /\ FrameSlots(g) = F.func
    BY <1>2 DEF Frame, FrameOK, FrameSlots, Ends
  <1>5. h \in Frame /\ FrameOK(h) /\ h.func = F.active + 1
    <2> DEFINE a == F.active + 1
    <2>1. a \in Nat \ {0}
      BY <1>2
    <2> HIDE DEF a
    <2>2. h \in Frame
      BY <2>1 DEF NewFrame, Frame, Kinds, Phases, a
    <2>3. FrameOK(h) /\ h.func = a
      BY <2>1 DEF NewFrame, FrameOK, Ends, a
    <2> QED
      BY <2>2, <2>3 DEF a
  <1>6. frames' = Append(SetF(g), h) /\ UNCHANGED <<list, coroutine, lost, status>>
    BY DEF Call
  <1> HIDE DEF g, h
  <1>7. /\ SetF(g) \in Seq(Frame) /\ SetF(g) # <<>> /\ Shape(SetF(g), Pending)
        /\ Len(SetF(g)) = Len(frames) /\ SetF(g)[Len(frames)] = g
    BY <1>1, <1>3, <1>4, SameSet
  <1>8. /\ FrameSlots(SetF(g)[Len(SetF(g))]) < h.func /\ \A p \in Pending : p < h.func
        /\ Pending \in SUBSET Nat
    BY <1>2, <1>4, <1>5, <1>7, PendingSet DEF Inv
  <1>9. Shape(frames', Pending)
    BY <1>5, <1>6, <1>7, <1>8, ShapePush
  <1>10. frames' \in Seq(Frame) /\ frames' # <<>>
    BY <1>5, <1>6, <1>7, Extended
  <1>11. lost' \in Nat /\ status' \in {"running", "suspended", "failed", "ended"}
    BY <1>6 DEF Inv, TypeOK
  <1> QED
    BY <1>6, <1>9, <1>10, <1>11, Same

LEMMA PcallStep == ASSUME Inv, Pcall PROVE Inv'
  <1>1. InCode /\ frames # <<>>
    BY DEF Pcall, InCode, Running
  <1>2. /\ F \in Frame /\ FrameOK(F) /\ F.kind \in {"lua", "c"} /\ F.recst = FALSE
        /\ F.func \in Nat /\ F.active \in Nat /\ F.func <= F.active
        /\ \A p \in Pending : p <= F.active
    BY <1>1, RunsCode
  <1> DEFINE yield == Yieldable
             g == [F EXCEPT !.phase = "call"]
             r == [NewFrame("pcall", F.active + 1, FALSE) EXCEPT !.phase = "call", !.ypcall = yield]
             h == NewFrame("lua", r.func + 2, ~yield)
  <1>3. g \in Frame
    BY <1>2 DEF Frame, Phases
  <1>4. /\ g.func = F.func /\ g.kind = F.kind /\ g.active = F.active /\ g.recst = F.recst
        /\ FrameOK(g) /\ FrameSlots(g) = F.func
    BY <1>2 DEF Frame, FrameOK, FrameSlots, Ends
  <1>5. yield \in BOOLEAN
    BY DEF Yieldable, Inv, TypeOK
  <1> HIDE DEF yield
  <1>6. /\ r \in Frame /\ FrameOK(r) /\ r.func = F.active + 1 /\ r.kind = "pcall"
        /\ FrameSlots(r) = F.active + 2 /\ r.func \in Nat
    <2> DEFINE a == F.active + 1
    <2>1. a \in Nat /\ a + 1 = F.active + 2
      BY <1>2
    <2> HIDE DEF a
    <2>2. r.func = a /\ r.kind = "pcall" /\ r.active = a /\ r.phase = "call"
      BY DEF NewFrame, a
    <2>3. r \in Frame
      BY <1>5, <2>1 DEF NewFrame, Frame, Kinds, Phases, a
    <2>4. FrameOK(r)
      BY <2>1 DEF NewFrame, FrameOK, Ends, a
    <2> QED
      BY <2>1, <2>2, <2>3, <2>4 DEF FrameSlots, a
  <1> HIDE DEF r
  <1>7. h \in Frame /\ FrameOK(h) /\ h.func = F.active + 3
    <2>1. r.func + 2 \in Nat \ {0} /\ r.func + 2 = F.active + 3
      BY <1>2, <1>6
    <2>2. (~yield) \in BOOLEAN
      OBVIOUS
    <2> QED
      BY <2>1, <2>2, NewFrameFacts
  <1>8. frames' = SetF(g) \o <<r, h>> /\ UNCHANGED <<list, coroutine, lost, status>>
    BY DEF Pcall, yield, r
  <1> HIDE DEF g, h
  <1>9. /\ SetF(g) \in Seq(Frame) /\ SetF(g) # <<>> /\ Shape(SetF(g), Pending)
        /\ Len(SetF(g)) = Len(frames) /\ SetF(g)[Len(frames)] = g
    BY <1>1, <1>3, <1>4, SameSet
  <1> DEFINE t == Append(SetF(g), r)
  <1>10. t \in Seq(Frame) /\ t # <<>> /\ t[Len(t)] = r
    BY <1>6, <1>9, Extended
  <1>11. frames' = Append(t, h)
    BY <1>6, <1>7, <1>8, <1>9
  <1>12. /\ FrameSlots(SetF(g)[Len(SetF(g))]) < r.func /\ \A p \in Pending : p < r.func
         /\ Pending \in SUBSET Nat
    BY <1>2, <1>4, <1>6, <1>9, PendingSet DEF Inv
  <1>13. Shape(t, Pending)
    BY <1>6, <1>9, <1>12, ShapePush
  <1> HIDE DEF t
  <1>14. FrameSlots(t[Len(t)]) < h.func /\ \A p \in Pending : p < h.func
    BY <1>2, <1>6, <1>7, <1>10, <1>12
  <1>15. Shape(frames', Pending)
    BY <1>7, <1>10, <1>11, <1>12, <1>13, <1>14, ShapePush
  <1>16. frames' \in Seq(Frame) /\ frames' # <<>>
    BY <1>7, <1>10, <1>11, Extended
  <1>17. lost' \in Nat /\ status' \in {"running", "suspended", "failed", "ended"}
    BY <1>8 DEF Inv, TypeOK
  <1> QED
    BY <1>8, <1>15, <1>16, <1>17, Same

LEMMA LeaveBlockStep == ASSUME Inv, NEW l \in Int, LeaveBlock(l) PROVE Inv'
  <1>1. InCode /\ frames # <<>>
    BY DEF LeaveBlock, InCode, Running
  <1>2. /\ F \in Frame /\ FrameOK(F) /\ F.kind \in {"lua", "c"} /\ F.recst = FALSE
        /\ F.func \in Nat /\ F.active \in Nat /\ F.func <= F.active
    BY <1>1, RunsCode
  <1>3. l \in Nat /\ F.func < l
    BY <1>2 DEF LeaveBlock
  <1> DEFINE g == [F EXCEPT !.phase = "close", !.level = l]
  <1>4. g \in Frame
    BY <1>2, <1>3 DEF Frame, Phases
  <1>5. /\ g.func = F.func /\ g.kind = F.kind /\ g.active = F.active /\ g.recst = F.recst
        /\ FrameOK(g)
    BY <1>2, <1>3 DEF Frame, FrameOK, Ends
  <1>6. frames' = SetF(g) /\ UNCHANGED <<list, coroutine, lost, status>>
    BY DEF LeaveBlock
  <1> HIDE DEF g
  <1>7. SetF(g) \in Seq(Frame) /\ SetF(g) # <<>> /\ Shape(SetF(g), Pending)
    BY <1>1, <1>4, <1>5, SameSet
  <1>8. lost' \in Nat /\ status' \in {"running", "suspended", "failed", "ended"}
    BY <1>6 DEF Inv, TypeOK
  <1> QED
    BY <1>6, <1>7, <1>8, Same

LEMMA ReturnStep ==
    ASSUME Inv, NEW n \in Nat, NEW open \in BOOLEAN, Return(n, open)
    PROVE  Inv'
  <1>1. InCode /\ frames # <<>>
    BY DEF Return, InCode, Running
  <1>2. /\ F \in Frame /\ FrameOK(F) /\ F.kind \in {"lua", "c"} /\ F.recst = FALSE
        /\ F.func \in Nat /\ F.active \in Nat /\ F.func <= F.active
    BY <1>1, RunsCode
  <1> DEFINE level == IF F.kind = "lua" THEN F.func + 1 ELSE F.func
             g == [F EXCEPT !.phase = "return", !.n = n, !.evaluated = n,
                            !.open = open, !.level = level]
  <1>3. level \in Nat
    BY <1>2
  <1>4. g \in Frame
    BY <1>2, <1>3 DEF Frame, Phases
  <1>5. /\ g.func = F.func /\ g.kind = F.kind /\ g.active = F.active /\ g.recst = F.recst
        /\ FrameOK(g)
    BY <1>2, <1>3 DEF Frame, FrameOK, Ends
  <1>6. frames' = SetF(g) /\ UNCHANGED <<list, coroutine, lost, status>>
    BY DEF Return
  <1> HIDE DEF g
  <1>7. SetF(g) \in Seq(Frame) /\ SetF(g) # <<>> /\ Shape(SetF(g), Pending)
    BY <1>1, <1>4, <1>5, SameSet
  <1>8. lost' \in Nat /\ status' \in {"running", "suspended", "failed", "ended"}
    BY <1>6 DEF Inv, TypeOK
  <1> QED
    BY <1>6, <1>7, <1>8, Same

LEMMA ExitStep == ASSUME Inv, Exit PROVE Inv'
  <1>1. InCode /\ frames # <<>>
    BY DEF Exit, InCode, Running
  <1>2. /\ F \in Frame /\ FrameOK(F) /\ F.kind \in {"lua", "c"} /\ F.recst = FALSE
        /\ F.func \in Nat /\ F.active \in Nat
    BY <1>1, RunsCode
  <1> DEFINE g == [F EXCEPT !.phase = "call"]
             h == [NewFrame("exit", F.active + 1, FALSE) EXCEPT !.phase = "error", !.level = 1]
  <1>3. g \in Frame
    BY <1>2 DEF Frame, Phases
  <1>4. /\ g.func = F.func /\ g.kind = F.kind /\ g.active = F.active /\ g.recst = F.recst
        /\ FrameOK(g)
    BY <1>2 DEF Frame, FrameOK, Ends
  <1>5. h \in Frame /\ FrameOK(h) /\ h.kind \in Ends
    <2> DEFINE a == F.active + 1
    <2>1. a \in Nat
      BY <1>2
    <2> HIDE DEF a
    <2>2. h \in Frame
      BY <2>1 DEF NewFrame, Frame, Kinds, Phases, a
    <2>3. FrameOK(h) /\ h.kind \in Ends
      BY <2>1 DEF NewFrame, FrameOK, Ends, a
    <2> QED
      BY <2>2, <2>3
  <1>6. frames' = Append(SetF(g), h) /\ UNCHANGED <<list, coroutine, lost, status>>
    BY DEF Exit
  <1> HIDE DEF g, h
  <1>7. SetF(g) \in Seq(Frame) /\ SetF(g) # <<>> /\ Shape(SetF(g), Pending)
    BY <1>1, <1>3, <1>4, SameSet
  <1>8. Pending \in SUBSET Nat
    BY PendingSet DEF Inv
  <1>9. Shape(frames', Pending)
    BY <1>5, <1>6, <1>7, <1>8, ShapePush
  <1>10. frames' \in Seq(Frame) /\ frames' # <<>>
    BY <1>5, <1>6, <1>7, Extended
  <1>11. lost' \in Nat /\ status' \in {"running", "suspended", "failed", "ended"}
    BY <1>6 DEF Inv, TypeOK
  <1> QED
    BY <1>6, <1>9, <1>10, <1>11, Same

\* The closing method runs above its frame and above every variable that is left.
\* A variable that has to be closed is pending.
LEMMA SomePending ==
    ASSUME Inv, Running, F.phase \in ClosePhases, tbclist >= F.level
    PROVE  F.level \in Nat \ {0} /\ pending # <<>>
  <1>1. F \in Frame /\ FrameOK(F)
    BY Innermost DEF Running
  <1>2. F.func \in Nat /\ F.level \in Nat
    BY <1>1 DEF Frame
  <1>3. F.level # 0
    <2>1. CASE F.phase = "close"
      BY <1>1, <1>2, <2>1 DEF FrameOK
    <2>2. CASE F.phase = "return"
      <3>1. F.kind \in {"lua", "c"}
        BY <1>1, <2>2 DEF FrameOK, Frame, Kinds, Ends
      <3> QED
        BY <1>1, <1>2, <2>2, <3>1 DEF FrameOK
    <2>3. CASE F.phase = "error"
      BY <1>1, <1>2, <2>3 DEF FrameOK, Frame, Kinds, Ends
    <2> QED
      BY <2>1, <2>2, <2>3 DEF ClosePhases
  <1>4. tbclist \in Nat /\ (tbclist = 0 <=> pending = <<>>)
    BY PendingSet DEF Inv
  <1> QED
    BY <1>2, <1>3, <1>4

\* The closing method runs above its frame and above every variable that is left.
LEMMA MethodPlace ==
    ASSUME Inv, Running, F.phase \in ClosePhases, tbclist >= F.level
    PROVE  /\ MethodAt(F) \in Nat \ {0}
           /\ F.kind \in Ends \/ FrameSlots(F) < MethodAt(F)
           /\ \A p \in Pending : p < MethodAt(F)
  <1>1. /\ F \in Frame /\ FrameOK(F)
        /\ F.kind \in Ends \/ F.recst \/ \A p \in Pending : p <= F.active
    BY Innermost DEF Running
  <1>2. F.func \in Nat /\ F.active \in Nat /\ F.level \in Nat /\ F.n \in Nat
    BY <1>1 DEF Frame
  <1>3. /\ Pending \in SUBSET Nat /\ tbclist \in Nat
        /\ \A p \in Pending : p <= tbclist
    BY PendingSet DEF Inv
  <1>4. CASE F.phase = "return" \/ F.kind = "c"
    <2>1. F.kind \in {"lua", "c"} /\ F.recst = FALSE
      BY <1>1, <1>4 DEF FrameOK, Frame, Kinds, Ends, ClosePhases
    <2>2. MethodAt(F) \in Nat /\ F.active < MethodAt(F)
      <3> DEFINE a == F.active + 1 + F.n
                 c == CiTop(F)
      <3>1. a \in Nat /\ F.active < a /\ c \in Nat
        BY <1>2, Constants DEF CiTop
      <3>2. MethodAt(F) = Top(F) /\ Top(F) \in {a, Max({a, c})}
        BY <1>4 DEF MethodAt, Top
      <3> HIDE DEF a, c
      <3>3. Max({a, c}) \in {a, c} /\ a <= Max({a, c})
        BY <3>1, MaxOfTwo
      <3> QED
        BY <1>2, <3>1, <3>2, <3>3
    <2>3. FrameSlots(F) = F.func /\ F.func <= F.active
      BY <1>1, <2>1 DEF FrameOK, FrameSlots
    <2>4. \A p \in Pending : p <= F.active
      BY <1>1, <2>1 DEF Ends
    <2> QED
      BY <1>2, <1>3, <2>2, <2>3, <2>4
  <1>5. CASE ~(F.phase = "return" \/ F.kind = "c")
    <2>1. MethodAt(F) = tbclist + 2
      BY <1>5 DEF MethodAt
    <2>2. F.kind \in Ends \/ FrameSlots(F) < MethodAt(F)
      <3>1. CASE F.kind = "lua"
        <4>1. F.phase = "close" /\ FrameSlots(F) = F.func
          BY <1>1, <1>5, <3>1 DEF FrameOK, ClosePhases, FrameSlots
        <4>2. F.func < F.level
          BY <1>1, <4>1 DEF FrameOK
        <4> QED
          BY <1>2, <1>3, <2>1, <4>1, <4>2
      <3>2. CASE F.kind = "pcall"
        <4>1. F.level = F.func + 2 /\ FrameSlots(F) = F.func + 1
          BY <1>1, <1>5, <3>2 DEF FrameOK, ClosePhases, FrameSlots
        <4> QED
          BY <1>2, <1>3, <2>1, <4>1
      <3> QED
        BY <1>1, <1>5, <3>1, <3>2 DEF Frame, Kinds, Ends
    <2> QED
      BY <1>3, <2>1, <2>2
  <1> QED
    BY <1>4, <1>5

LEMMA CloseVariableStep == ASSUME Inv, CloseVariable PROVE Inv'
  <1>1. Running /\ F.phase \in ClosePhases /\ tbclist >= F.level
    BY DEF CloseVariable
  <1>2. PopTbc /\ pending' = RemoveFirst(pending, tbclist) /\ UNCHANGED <<coroutine, lost, status>>
    BY DEF CloseVariable, Popped
  <1>3. pending # <<>> /\ frames # <<>>
    BY <1>1, SomePending DEF Running
  <1>4. /\ ListOK' /\ pending' = SubSeq(pending, 1, Len(pending) - 1)
        /\ tbclist' \in Nat
    BY <1>2, <1>3, Removed DEF Inv
  <1>5. pending \in Seq(Nat) /\ Len(pending) - 1 \in 0..Len(pending)
    BY <1>3, SeqFacts DEF Inv, TypeOK
  <1>6. /\ pending' \in Seq(Nat) /\ DOMAIN pending' = 1..Len(pending) - 1
        /\ DOMAIN pending = 1..Len(pending)
        /\ \A i \in 1..Len(pending) - 1 : pending'[i] = pending[i]
    BY <1>4, <1>5, Prefix, SeqFacts
  <1>7. Pending' \in SUBSET Pending
    BY <1>5, <1>6 DEF Pending
  <1> DEFINE noyield == ~MethodYields(F)
             m == MethodAt(F)
             v == tbclist
             h == [NewFrame("lua", m, noyield) EXCEPT !.closes = v]
  <1>8. /\ m \in Nat \ {0} /\ (F.kind \in Ends \/ FrameSlots(F) < m)
        /\ \A p \in Pending : p < m
    BY <1>1, MethodPlace
  <1>9. v \in Nat
    BY DEF Inv, TypeOK
  <1>10. noyield \in BOOLEAN
    OBVIOUS
  <1>11. frames' = Append(frames, h)
    BY DEF CloseVariable
  <1> HIDE DEF m, noyield, v
  <1>12. h \in Frame /\ FrameOK(h) /\ h.func = m
    <2>1. h \in Frame
      BY <1>8, <1>9, <1>10 DEF NewFrame, Frame, Kinds, Phases
    <2>2. FrameOK(h) /\ h.func = m
      BY <1>8 DEF NewFrame, FrameOK, Ends
    <2> QED
      BY <2>1, <2>2
  <1> HIDE DEF h
  <1>13. frames \in Seq(Frame) /\ F = frames[Len(frames)] /\ Pending \in SUBSET Nat
    BY <1>3, Innermost, PendingSet DEF Inv
  <1>14. Shape(frames', Pending)
    BY <1>3, <1>8, <1>11, <1>12, <1>13, ShapePush DEF Inv
  <1>15. Shape(frames', Pending')
    BY <1>7, <1>14, ShapeFewer
  <1>16. frames' \in Seq(Frame) /\ frames' # <<>>
    BY <1>11, <1>12, <1>13, Extended
  <1>17. TypeOK'
    BY <1>2, <1>4, <1>6, <1>16 DEF Inv, TypeOK
  <1> QED
    BY <1>4, <1>15, <1>16, <1>17 DEF Inv, Over

LEMMA BlockLeftStep == ASSUME Inv, BlockLeft PROVE Inv'
  <1>1. frames # <<>> /\ F.phase = "close" /\ tbclist < F.level
    BY DEF BlockLeft, Running
  <1>2. F \in Frame /\ FrameOK(F) /\ F = frames[Len(frames)] /\ frames \in Seq(Frame)
    BY <1>1, Innermost
  <1>3. F.kind \in {"lua", "c"} /\ F.func \in Nat /\ F.level \in Nat /\ F.func < F.level
    BY <1>1, <1>2 DEF FrameOK, Frame, Kinds, Ends
  <1> DEFINE a == F.level - 1
             g == [F EXCEPT !.phase = "run", !.active = a, !.level = 0]
  <1>4. a \in Nat /\ F.func <= a
    BY <1>3
  <1>5. \A p \in Pending : p <= a
    BY <1>1, <1>3, PendingSet DEF Inv
  <1>6. frames' = SetF(g) /\ UNCHANGED <<list, coroutine, lost, status>>
    BY DEF BlockLeft
  <1> HIDE DEF a
  <1>7. g \in Frame
    BY <1>2, <1>4 DEF Frame, Phases
  <1>8. g.func = F.func /\ g.kind = F.kind /\ g.active = a /\ FrameOK(g)
    BY <1>2, <1>3, <1>4 DEF Frame, FrameOK, Ends
  <1> HIDE DEF g
  <1>9. Pending \in SUBSET Nat
    BY PendingSet DEF Inv
  <1>10. Shape([frames EXCEPT ![Len(frames)] = g], Pending)
    BY <1>1, <1>2, <1>5, <1>7, <1>8, <1>9, ShapeSet DEF Inv
  <1>11. frames' \in Seq(Frame) /\ frames' # <<>>
    BY <1>1, <1>2, <1>6, <1>7, LastReplaced DEF SetF
  <1>12. lost' \in Nat /\ status' \in {"running", "suspended", "failed", "ended"}
    BY <1>6 DEF Inv, TypeOK
  <1> QED
    BY <1>6, <1>10, <1>11, <1>12, Same DEF SetF

\* The innermost frame is left, when the variables above it have been closed.
LEMMA FrameLeft ==
    ASSUME Inv, frames # <<>>, F.kind \notin Ends, \A p \in Pending : p < F.func
    PROVE  /\ Front(frames) \in Seq(Frame) /\ Shape(Front(frames), Pending)
           /\ Front(frames) = <<>> => pending = <<>>
  <1>0. PICK n \in Nat \ {0} : n = Len(frames)
    BY Innermost
  <1>1. /\ F \in Frame /\ F = frames[n] /\ frames \in Seq(Frame) /\ DOMAIN frames = 1..n
        /\ F.func \in Nat
    BY <1>0, Innermost DEF Frame
  <1>2. Pending \in SUBSET Nat /\ \A p \in Pending : 0 < p
    BY PendingSet DEF Inv
  <1>3. Front(frames) = SubSeq(frames, 1, n - 1) /\ n - 1 \in 0..Len(frames)
    BY <1>0 DEF Front
  <1>4. \A j \in n - 1 + 1..Len(frames) : frames[j].kind \notin Ends
    BY <1>0, <1>1
  <1>5. n - 1 # 0 => \/ frames[n - 1].kind \in Ends \/ frames[n - 1].recst
                     \/ \A p \in Pending : p <= frames[n - 1].active
    <2> SUFFICES ASSUME n - 1 # 0, frames[n - 1].kind \notin Ends, NEW p \in Pending
                 PROVE  frames[n - 1].recst \/ p <= frames[n - 1].active
      OBVIOUS
    <2>1. n - 1 \in DOMAIN frames /\ n - 1 + 1 = n /\ n - 1 < Len(frames)
      BY <1>0, <1>1
    <2>2. Live(frames, n - 1)
      BY <1>0, <1>1 DEF Live
    <2>3. Covered(frames, n - 1, p)
      BY <2>1, <2>2 DEF Inv, Shape, Scoped
    <2>4. ~(F.func < p)
      BY <1>1, <1>2
    <2> QED
      BY <1>1, <2>1, <2>3, <2>4 DEF Covered
  <1>6. Shape(SubSeq(frames, 1, n - 1), Pending)
    BY <1>1, <1>2, <1>3, <1>4, <1>5, ShapeCut DEF Inv
  <1>7. Len(Front(frames)) = n - 1 /\ Front(frames) \in Seq(Frame)
    BY <1>1, <1>3, Prefix
  <1>8. ASSUME Front(frames) = <<>>
        PROVE  pending = <<>>
    <2>1. n = 1
      BY <1>7, <1>8
    <2>2. F.func = 1
      BY <1>1, <2>1 DEF Inv, Shape, First
    <2>3. Pending = {}
      BY <1>2, <2>2
    <2> QED
      BY <2>3, SeqFacts DEF Pending, Inv, TypeOK
  <1> QED
    BY <1>3, <1>6, <1>7, <1>8

LEMMA EmptyShape == \A P : Shape(<<>>, P) /\ <<>> \in Seq(Frame)
  BY DEF Shape, FramesOK, Ordered, Scoped, First

LEMMA ReturnedStep == ASSUME Inv, Returned PROVE Inv'
  <1>1. /\ frames # <<>> /\ F.phase \in {"return", "error"} /\ tbclist < F.level
        /\ status = "running"
    BY DEF Returned, Running
  <1>2. F \in Frame /\ FrameOK(F) /\ F.func \in Nat /\ F.level \in Nat
    BY <1>1, Innermost DEF Frame
  <1>3. tbclist \in Nat /\ Pending \in SUBSET Nat /\ \A p \in Pending : 0 < p /\ p <= tbclist
    BY PendingSet DEF Inv
  <1>4. /\ UNCHANGED <<list, coroutine>> /\ lost' = lost
        /\ status' = IF frames' = <<>> THEN "ended" ELSE status
    BY DEF Returned
  <1>5. lost' \in Nat /\ status' \in {"running", "suspended", "failed", "ended"}
    BY <1>4 DEF Inv, TypeOK
  <1>6. CASE F.kind \in Ends
    <2>1. frames' = <<>>
      BY <1>6 DEF Returned, Ends
    <2>2. F.level = 1
      BY <1>2, <1>6 DEF FrameOK
    <2>3. pending = <<>>
      BY <1>1, <1>3, <2>2, PendingSet DEF Inv
    <2> QED
      BY <1>4, <1>5, <2>1, <2>3, EmptyShape, Same
  <1>7. CASE F.kind \notin Ends
    <2>1. frames' = Front(frames)
      BY <1>7 DEF Returned, Ends
    <2>2. ASSUME NEW p \in Pending
          PROVE  p < F.func
      <3>1. Placed(F, p) /\ p < F.level /\ p \in Nat
        BY <1>1, <1>2, <1>3, <1>7, Innermost
      <3>2. CASE F.kind = "pcall"
        <4>1. F.level = F.func + 2 /\ FrameSlots(F) = F.func + 1
          BY <1>1, <1>2, <3>2 DEF FrameOK, FrameSlots
        <4> QED
          BY <1>2, <3>1, <4>1 DEF Placed
      <3>3. CASE F.kind # "pcall"
        <4>1. F.phase = "return" /\ FrameSlots(F) = F.func
          BY <1>1, <1>2, <1>7, <3>3 DEF FrameOK, FrameSlots, Frame, Kinds, Ends
        <4>2. F.level \in {F.func, F.func + 1}
          BY <1>2, <4>1 DEF FrameOK
        <4> QED
          BY <1>2, <3>1, <4>1, <4>2 DEF Placed
      <3> QED
        BY <3>2, <3>3
    <2> QED
      BY <1>1, <1>4, <1>5, <1>7, <2>1, <2>2, FrameLeft, Same
  <1> QED
    BY <1>6, <1>7

LEMMA GoOnStep == ASSUME Inv, GoOn PROVE Inv'
  <1>1. frames # <<>> /\ F.phase = "call" /\ ~F.recst /\ status = "running"
    BY DEF GoOn
  <1>2. /\ F \in Frame /\ FrameOK(F) /\ F.func \in Nat /\ F.active \in Nat
        /\ Len(frames) \in Nat \ {0}
    BY <1>1, Innermost DEF Frame
  <1>3. F.kind \notin Ends
    BY <1>1, <1>2 DEF FrameOK
  <1>4. /\ UNCHANGED <<list, coroutine>> /\ lost' = Min({lost, Len(frames) - 1})
        /\ status' = IF frames' = <<>> THEN "ended" ELSE status
    BY DEF GoOn
  <1>5. status' \in {"running", "suspended", "failed", "ended"}
    BY <1>1, <1>4
  <1>6. lost' \in Nat
    <2>1. lost \in Nat /\ Len(frames) - 1 \in Nat
      BY <1>2 DEF Inv, TypeOK
    <2> DEFINE a == Len(frames) - 1
    <2>2. lost' = Min({lost, a}) /\ lost \in Nat /\ a \in Nat
      BY <1>4, <2>1
    <2> HIDE DEF a
    <2>3. Min({lost, a}) \in {lost, a}
      BY <2>2, MinOfTwo
    <2> QED
      BY <2>2, <2>3
  <1>7. CASE F.kind = "pcall"
    <2>1. frames' = Front(frames)
      BY <1>7 DEF GoOn
    <2>2. F.active = F.func /\ FrameSlots(F) = F.func + 1
      BY <1>2, <1>7 DEF FrameOK, FrameSlots
    <2>3. ASSUME NEW p \in Pending
          PROVE  p < F.func
      <3>1. Placed(F, p) /\ p <= F.active /\ p \in Nat
        BY <1>1, <1>3, Innermost, PendingSet DEF Inv
      <3> QED
        BY <1>2, <2>2, <3>1 DEF Placed
    <2> QED
      BY <1>1, <1>3, <1>4, <1>5, <1>6, <2>1, <2>3, FrameLeft, Same
  <1>8. CASE F.kind # "pcall"
    <2> DEFINE g == [F EXCEPT !.phase = "run"]
    <2>1. g \in Frame
      BY <1>2 DEF Frame, Phases
    <2>2. /\ g.func = F.func /\ g.kind = F.kind /\ g.active = F.active /\ g.recst = F.recst
          /\ FrameOK(g)
      BY <1>2, <1>3, <1>8 DEF Frame, FrameOK, Ends
    <2>3. frames' = SetF(g)
      BY <1>8 DEF GoOn
    <2> HIDE DEF g
    <2>4. SetF(g) \in Seq(Frame) /\ SetF(g) # <<>> /\ Shape(SetF(g), Pending)
      BY <1>1, <2>1, <2>2, SameSet
    <2> QED
      BY <1>4, <1>5, <1>6, <2>3, <2>4, Same
  <1> QED
    BY <1>7, <1>8

LEMMA CountFacts ==
    ASSUME NEW f \in Frame
    PROVE  RepeatedCount(f) \in Nat
  <1> DEFINE b == f.active + 1
             a == b + f.n
             c == CiTop(f)
  <1>1. b \in Nat /\ f.n \in Nat /\ a \in Nat /\ c \in Nat /\ a >= b
    BY Constants DEF Frame, CiTop
  <1>2. Top(f) \in {a, Max({a, c})}
    BY DEF Top
  <1>3. RepeatedCount(f) \in {f.n, Top(f) - b}
    BY DEF RepeatedCount
  <1> HIDE DEF a, b, c
  <1>4. Max({a, c}) \in {a, c} /\ a <= Max({a, c})
    <2>1. a \in Int /\ c \in Int
      BY <1>1
    <2> QED
      BY <2>1, MaxOfTwo
  <1>5. Top(f) \in Nat /\ Top(f) >= a
    BY <1>1, <1>2, <1>4
  <1> QED
    BY <1>1, <1>3, <1>5

LEMMA UnrollStep == ASSUME Inv, Unroll PROVE Inv'
  <1>1. frames # <<>> /\ UNCHANGED <<list, coroutine>> /\ lost' = Len(frames) - 1 /\ status' = status
    BY DEF Unroll
  <1>2. /\ F \in Frame /\ FrameOK(F) /\ F.func \in Nat /\ F.active \in Nat
        /\ Len(frames) \in Nat \ {0}
    BY <1>1, Innermost DEF Frame
  <1>3. lost' \in Nat /\ status' \in {"running", "suspended", "failed", "ended"}
    BY <1>1, <1>2 DEF Inv, TypeOK
  <1> DEFINE n == RepeatedCount(F)
             g1 == [F EXCEPT !.n = n]
             l == F.func + 2
             g2 == [F EXCEPT !.phase = "error", !.level = l]
  <1>4. \/ F.phase = "close" /\ frames' = SetF(F)
        \/ F.phase = "return" /\ frames' = SetF(g1)
        \/ F.kind = "pcall" /\ F.recst /\ frames' = SetF(g2)
    BY DEF Unroll, Repeated, CloseAfterError
  <1>5. n \in Nat /\ l \in Nat
    BY <1>2, CountFacts
  <1>6. CASE F.phase = "close" /\ frames' = SetF(F)
    BY <1>1, <1>2, <1>3, <1>6, SameSet, Same
  <1>7. CASE F.phase = "return" /\ frames' = SetF(g1)
    <2> HIDE DEF n
    <2>1. g1 \in Frame
      BY <1>2, <1>5 DEF Frame
    <2>2. /\ g1.func = F.func /\ g1.kind = F.kind /\ g1.active = F.active
          /\ g1.recst = F.recst /\ FrameOK(g1)
      BY <1>2, <1>5 DEF Frame, FrameOK
    <2> HIDE DEF g1
    <2> QED
      BY <1>1, <1>3, <1>7, <2>1, <2>2, SameSet, Same
  <1>8. CASE F.kind = "pcall" /\ F.recst /\ frames' = SetF(g2)
    <2>1. g2 \in Frame
      BY <1>2, <1>5 DEF Frame, Phases
    <2>2. /\ g2.func = F.func /\ g2.kind = F.kind /\ g2.active = F.active
          /\ g2.recst = F.recst /\ FrameOK(g2)
      BY <1>2, <1>5, <1>8 DEF Frame, FrameOK, Ends
    <2> HIDE DEF g2
    <2> QED
      BY <1>1, <1>3, <1>8, <2>1, <2>2, SameSet, Same
  <1> QED
    BY <1>4, <1>6, <1>7, <1>8

LEMMA FailStep == ASSUME Inv, Fail PROVE Inv'
  <1>1. InCode /\ UNCHANGED <<list, coroutine>>
    BY DEF Fail
  <1>2. CASE Handlers = {}
    <2>1. status' = "failed" /\ frames' = <<>> /\ lost' = 0
      BY <1>2 DEF Fail
    <2> QED
      BY <1>1, <2>1, EmptyShape, Same
  <1>3. CASE Handlers # {}
    <2> DEFINE f(i) == [frames[i] EXCEPT !.recst = TRUE, !.raised = TRUE]
    <2>1. PICK i \in Handlers :
             /\ \A j \in Handlers : j <= i
             /\ frames' = Append(SubSeq(frames, 1, i - 1),
                                 IF f(i).kind = "pcall" /\ ~f(i).ypcall
                                 THEN CloseAfterError(f(i)) ELSE f(i))
             /\ lost' = IF f(i).ypcall THEN i ELSE lost
             /\ status' = status
      BY <1>3 DEF Fail
    <2>2. /\ frames \in Seq(Frame) /\ DOMAIN frames = 1..Len(frames) /\ Len(frames) \in Nat
          /\ i \in 1..Len(frames) /\ frames[i] \in Frame
      BY SeqFacts DEF Inv, TypeOK, Handlers
    <2>3. /\ frames[i].kind \in {"pcall", "exit", "base"} /\ FrameOK(frames[i])
          /\ frames[i].func \in Nat
      BY <2>2 DEF Inv, Shape, FramesOK, Handlers, Frame
    <2>4. \A j \in i + 1..Len(frames) : frames[j].kind \notin Ends
      BY <2>1, <2>2 DEF Handlers, Ends
    <2> DEFINE a == f(i)
               l == frames[i].func + 2
               b == [a EXCEPT !.phase = "error", !.level = l]
               g == IF a.kind = "pcall" /\ ~a.ypcall THEN b ELSE a
    <2>5. /\ a \in Frame /\ a.func = frames[i].func /\ a.kind = frames[i].kind /\ a.recst
          /\ FrameOK(a)
      <3>1. a \in Frame
        BY <2>2 DEF Frame
      <3>2. a.func = frames[i].func /\ a.kind = frames[i].kind /\ a.recst /\ FrameOK(a)
        BY <2>2, <2>3 DEF Frame, FrameOK
      <3> QED
        BY <3>1, <3>2
    <2>6. CloseAfterError(a) = b
      BY <2>5 DEF CloseAfterError
    <2>7. l \in Nat /\ l = a.func + 2
      BY <2>3, <2>5
    <2>8. frames' = Append(SubSeq(frames, 1, i - 1), g)
      BY <2>1, <2>6
    <2>9. lost' \in Nat /\ status' \in {"running", "suspended", "failed", "ended"}
      BY <2>1, <2>2 DEF Inv, TypeOK
    <2> HIDE DEF a, l
    <2>10. a.kind = "pcall" => b \in Frame /\ b.func = a.func /\ b.kind = a.kind /\ b.recst /\ FrameOK(b)
      <3> SUFFICES ASSUME a.kind = "pcall"
                   PROVE  b \in Frame /\ b.func = a.func /\ b.kind = a.kind /\ b.recst /\ FrameOK(b)
        OBVIOUS
      <3>1. b \in Frame
        BY <2>5, <2>7 DEF Frame, Phases
      <3>2. b.func = a.func /\ b.kind = a.kind /\ b.recst /\ FrameOK(b)
        BY <2>5, <2>7 DEF Frame, FrameOK, Ends
      <3> QED
        BY <3>1, <3>2
    <2>11. /\ g \in Frame /\ g.func = frames[i].func /\ g.kind = frames[i].kind /\ g.recst
           /\ FrameOK(g)
      <3> HIDE DEF b
      <3> QED
        BY <2>5, <2>10
    <2> HIDE DEF g
    <2>12. i - 1 \in 0..Len(frames)
      BY <2>2
    <2> DEFINE t == SubSeq(frames, 1, i - 1)
    <2>13. t \in Seq(Frame) /\ Len(t) = i - 1 /\ \A j \in 1..i - 1 : t[j] = frames[j]
      BY <2>2, <2>12, Prefix
    <2>14. frames' = Append(t, g)
      BY <2>8
    <2> HIDE DEF t
    <2>15. /\ frames' \in Seq(Frame) /\ Len(frames') = i /\ frames'[i] = g
           /\ \A j \in 1..i - 1 : frames'[j] = frames[j]
      BY <2>2, <2>11, <2>13, <2>14, Extended
    <2>16. Pending \in SUBSET Nat
      BY PendingSet DEF Inv
    <2>17. Shape(frames', Pending)
      BY <2>2, <2>4, <2>11, <2>15, <2>16, ShapeTop DEF Inv
    <2>18. frames' # <<>>
      BY <2>2, <2>15
    <2> QED
      BY <1>1, <2>9, <2>15, <2>17, <2>18, Same
  <1> QED
    BY <1>2, <1>3

LEMMA YieldStep == ASSUME Inv, Yield PROVE Inv'
  <1>1. frames # <<>> /\ UNCHANGED <<list, coroutine, frames>>
        /\ lost' = Len(frames) - 1 /\ status' = "suspended"
    BY DEF Yield, InCode, Running
  <1>2. lost' \in Nat
    BY <1>1, Innermost
  <1> QED
    BY <1>1, <1>2, Same DEF Inv, TypeOK

LEMMA ResumeStep == ASSUME Inv, Resume PROVE Inv'
  <1>1. UNCHANGED <<list, coroutine, frames, lost>> /\ status = "suspended" /\ status' = "running"
    BY DEF Resume
  <1>2. frames' = <<>> => pending = <<>>
    BY <1>1 DEF Inv, Over
  <1> QED
    BY <1>1, <1>2, Same DEF Inv, TypeOK

LEMMA ResetThreadStep == ASSUME Inv, ResetThread PROVE Inv'
  <1> DEFINE h == [NewFrame("base", 0, FALSE) EXCEPT !.phase = "error", !.level = 1]
  <1>1. h \in Frame
    BY DEF NewFrame, Frame, Kinds, Phases
  <1>2. FrameOK(h) /\ h.kind \in Ends
    BY DEF NewFrame, FrameOK, Ends
  <1>3. frames' = <<h>> /\ UNCHANGED <<list, coroutine>> /\ lost' = 0 /\ status' = "running"
    BY DEF ResetThread
  <1> HIDE DEF h
  <1>4. /\ frames' \in Seq(Frame) /\ frames' # <<>> /\ Len(frames') = 1 /\ DOMAIN frames' = {1}
        /\ frames'[1] = h
    BY <1>1, <1>3
  <1>5. Shape(frames', Pending)
    BY <1>2, <1>4 DEF Shape, FramesOK, Ordered, Scoped, First
  <1> QED
    BY <1>3, <1>4, <1>5, Same

LEMMA InitInv == ASSUME Init PROVE Inv
  <1>1. tbclist = 0 /\ pending = <<>> /\ delta = <<>> /\ coroutine \in BOOLEAN /\ lost = 0
        /\ status = "running"
    BY DEF Init, ListInit
  <1>2. ListOK
    BY <1>1 DEF ListOK, Below
  <1>3. Pending = {}
    BY <1>1 DEF Pending
  <1> DEFINE h == NewFrame("lua", 1, FALSE)
             r == [NewFrame("pcall", 1, FALSE) EXCEPT !.phase = "call"]
             q == NewFrame("lua", 3, TRUE)
  <1>4. h \in Frame /\ q \in Frame /\ r \in Frame
    BY DEF NewFrame, Frame, Kinds, Phases
  <1>5. /\ FrameOK(h) /\ FrameOK(q) /\ FrameOK(r) /\ h.func = 1 /\ r.func = 1 /\ q.func = 3
        /\ FrameSlots(r) = 2
    BY DEF NewFrame, FrameOK, FrameSlots, Ends
  <1>6. frames = <<h>> \/ frames = <<r, q>>
    BY DEF Init
  <1> HIDE DEF h, r, q
  <1>7. frames \in Seq(Frame) /\ frames # <<>>
    <2>1. <<h>> \in Seq(Frame) /\ <<h>> # <<>>
      BY <1>4
    <2>2. <<r, q>> \in Seq(Frame) /\ <<r, q>> # <<>>
      BY <1>4
    <2> QED
      BY <1>6, <2>1, <2>2
  <1>8. Shape(frames, {})
    <2>1. CASE frames = <<h>>
      BY <1>5, <2>1 DEF Shape, FramesOK, Ordered, Scoped, First
    <2>2. CASE frames = <<r, q>>
      <3>1. DOMAIN frames = {1, 2} /\ frames[1] = r /\ frames[2] = q
        BY <2>2
      <3> QED
        BY <1>5, <1>7, <3>1 DEF Shape, FramesOK, Ordered, Scoped, First
    <2> QED
      BY <1>6, <2>1, <2>2
  <1> QED
    BY <1>1, <1>2, <1>3, <1>7, <1>8 DEF Inv, TypeOK, Over

LEMMA NextInv == ASSUME Inv, [Next]_vars PROVE Inv'
  <1>1. CASE UNCHANGED vars
    <2>1. UNCHANGED <<list, coroutine, frames, lost, status>>
      BY <1>1 DEF vars
    <2> QED
      BY <2>1, Same DEF Inv, TypeOK, Over
  <1>2. ASSUME NEW l \in F.func + 1 .. F.func + Size, InCode, ToClose(l) \/ LeaveBlock(l)
        PROVE  Inv'
    BY <1>2, ToCloseStep, LeaveBlockStep
  <1>3. ASSUME NEW kind \in {"lua", "c"}, NEW noyield \in BOOLEAN, Call(kind, noyield)
        PROVE  Inv'
    BY <1>3, CallStep
  <1>4. ASSUME NEW n \in Results, NEW open \in OpenReturns, Return(n, open)
        PROVE  Inv'
    BY <1>4, Constants, ReturnStep
  <1> QED
    BY <1>1, <1>2, <1>3, <1>4, PcallStep, ExitStep, CloseVariableStep, BlockLeftStep,
       ReturnedStep, GoOnStep, UnrollStep, FailStep, YieldStep, ResumeStep, ResetThreadStep
    DEF Next

THEOREM Invariance == Spec => []Inv
  <1>1. Init => Inv
    BY InitInv
  <1>2. Inv /\ [Next]_vars => Inv'
    BY NextInv
  <1> QED
    BY <1>1, <1>2, PTL DEF Spec

-----------------------------------------------------------------------------
(* The safety properties.                                                  *)

\* TbcList: the distances in the stack, which poptbclist and luaF_newtbcupval keep as
\* unsigned shorts with dummies between them, always spell the pending variables.
THEOREM ListAlwaysMatches == Spec => []ListMatches
  <1>1. Inv => ListMatches
    BY SpellsList DEF Inv
  <1> QED
    BY <1>1, Invariance, PTL

\* finishpcallk: no step forgets the error of a pcall before it returns.
THEOREM ErrorsAreReported == Spec => []ErrorReported
  <1>1. Inv => ErrorReported
    BY DEF Inv, Shape, FramesOK, FrameOK, ErrorReported
  <1> QED
    BY <1>1, Invariance, PTL

LEMMA PendingInScope ==
    ASSUME Inv, status # "failed", NEW k \in DOMAIN pending
    PROVE  InScope(pending[k])
  <1> DEFINE l == pending[k]
  <1>1. l \in Pending /\ l \in Nat /\ 0 < l
    BY PendingSet DEF Inv, TypeOK, ListOK, Pending
  <1> HIDE DEF l
  <1>2. frames # <<>>
    BY DEF Inv, Over, TypeOK
  <1>3. frames \in Seq(Frame) /\ DOMAIN frames = 1..Len(frames) /\ Len(frames) \in Nat \ {0}
    BY <1>2, Innermost
  <1>4. CASE \E i \in DOMAIN frames : frames[i].kind \in {"exit", "base"}
    BY <1>4 DEF InScope
  <1>5. CASE \A i \in DOMAIN frames : frames[i].kind \notin Ends
    <2>1. ASSUME NEW i \in DOMAIN frames
          PROVE  Placed(frames[i], l) /\ Covered(frames, i, l)
      BY <1>1, <1>5 DEF Inv, Shape, Scoped, Live
    <2>2. \E i \in DOMAIN frames : frames[i].func < l
      <3>1. 1 \in DOMAIN frames /\ frames[1].func = 1
        BY <1>2, <1>3, <1>5 DEF Inv, Shape, First
      <3>2. Placed(frames[1], l) /\ frames[1] \in Frame
        BY <1>3, <2>1, <3>1
      <3> QED
        BY <1>1, <3>1, <3>2, FrameFacts DEF Placed
    <2>3. ASSUME NEW i \in DOMAIN frames, Owns(i, l)
          PROVE  frames[i].recst \/ l <= frames[i].active
      <3>1. ~(i < Len(frames) /\ frames[i + 1].func < l)
        BY <1>3, <2>3 DEF Owns
      <3> QED
        BY <2>1, <3>1 DEF Covered
    <2> QED
      BY <2>2, <2>3 DEF InScope, l
  <1> QED
    BY <1>4, <1>5 DEF Ends

\* luaF_close and its callers: however functions are left -- by a return, the end of a
\* block, an error or a yield in a closing method -- a variable that is still pending
\* belongs to a scope that nobody has left for good.
THEOREM NoneOutlivesScope == Spec => []NoneLeftBehind
  <1>1. Inv => NoneLeftBehind
    BY PendingInScope DEF NoneLeftBehind
  <1> QED
    BY <1>1, Invariance, PTL

-----------------------------------------------------------------------------
(* What a step does to the frames: some stay, with the variable that they  *)
(* close and the results that they have evaluated; those above end; and    *)
(* new ones close nothing, but for the one of CloseVariable.               *)

\* The results of a function that is not OP_RETURN with B = 0.
Good(f) ==
    /\ f.open => TRUE \in OpenReturns
    /\ f.phase = "return" /\ ~f.open => f.n = f.evaluated
Keeps(f, g) == g.closes = f.closes /\ (Good(f) => Good(g))
Fresh(f) == f.closes = 0 /\ Good(f)
Kept(fs, gs, n) ==
    /\ n <= Len(fs) /\ n <= Len(gs)
    /\ \A j \in 1..n : Keeps(fs[j], gs[j])
    /\ \A j \in n + 1..Len(gs) : Fresh(gs[j])
Steps == \E n \in Nat : Kept(frames, frames', n)

LEMMA KeptTop ==
    ASSUME NEW fs \in Seq(Frame), fs # <<>>, NEW g \in Frame, Keeps(fs[Len(fs)], g)
    PROVE  Kept(fs, [fs EXCEPT ![Len(fs)] = g], Len(fs))
  <1> DEFINE t == [fs EXCEPT ![Len(fs)] = g]
  <1>1. /\ Len(t) = Len(fs) /\ t[Len(fs)] = g /\ Len(fs) \in Nat
        /\ \A i \in 1..Len(fs) - 1 : t[i] = fs[i]
    BY LastReplaced
  <1> HIDE DEF t
  <1>2. ASSUME NEW j \in 1..Len(fs)
        PROVE  Keeps(fs[j], t[j])
    <2>1. CASE j = Len(fs)
      BY <1>1, <2>1
    <2>2. CASE j # Len(fs)
      <3>1. t[j] = fs[j]
        BY <1>1, <2>2
      <3> QED
        BY <3>1 DEF Keeps
    <2> QED
      BY <2>1, <2>2
  <1>3. \A j \in Len(fs) + 1..Len(t) : Fresh(t[j])
    BY <1>1
  <1>4. Kept(fs, t, Len(fs))
    BY <1>1, <1>2, <1>3 DEF Kept
  <1> QED
    BY <1>4 DEF t

LEMMA KeptMore ==
    ASSUME NEW fs \in Seq(Frame), NEW gs \in Seq(Frame), NEW n \in Nat, Kept(fs, gs, n),
           NEW h \in Frame, Fresh(h)
    PROVE  Kept(fs, Append(gs, h), n)
  <1> DEFINE t == Append(gs, h)
  <1>1. /\ Len(t) = Len(gs) + 1 /\ t[Len(gs) + 1] = h /\ Len(gs) \in Nat
        /\ \A i \in 1..Len(gs) : t[i] = gs[i]
    BY Extended
  <1> HIDE DEF t
  <1>2. ASSUME NEW j \in 1..n
        PROVE  Keeps(fs[j], t[j])
    BY <1>1 DEF Kept
  <1>3. ASSUME NEW j \in n + 1..Len(t)
        PROVE  Fresh(t[j])
    <2>1. j = Len(gs) + 1 \/ j \in n + 1..Len(gs)
      BY <1>1
    <2>2. CASE j \in n + 1..Len(gs)
      BY <1>1, <2>2 DEF Kept
    <2> QED
      BY <1>1, <2>1, <2>2
  <1> QED
    BY <1>1, <1>2, <1>3 DEF Kept, t

LEMMA KeptFront ==
    ASSUME NEW fs \in Seq(Frame), fs # <<>>
    PROVE  Kept(fs, Front(fs), Len(fs) - 1)
  <1> DEFINE t == Front(fs)
  <1>1. Len(fs) \in Nat \ {0}
    BY SeqFacts
  <1>2. t = SubSeq(fs, 1, Len(fs) - 1) /\ Len(fs) - 1 \in 0..Len(fs)
    BY <1>1 DEF Front
  <1> HIDE DEF t
  <1>3. Len(t) = Len(fs) - 1 /\ \A i \in 1..Len(fs) - 1 : t[i] = fs[i]
    <2> DEFINE n == Len(fs) - 1
    <2>1. t = SubSeq(fs, 1, n) /\ n \in 0..Len(fs)
      BY <1>2
    <2> HIDE DEF n
    <2>2. Len(t) = n /\ \A i \in 1..n : t[i] = fs[i]
      BY <2>1, Prefix
    <2> QED
      BY <2>2 DEF n
  <1> QED
    BY <1>1, <1>3 DEF Kept, Keeps, t

\* A step that changes the innermost frame, and may call a function.
LEMMA TopStep ==
    ASSUME Inv, frames # <<>>, NEW g \in Frame, Keeps(F, g), frames' = SetF(g)
    PROVE  Steps
  BY Innermost, KeptTop DEF SetF, Steps

LEMMA CallingStep ==
    ASSUME Inv, frames # <<>>, NEW g \in Frame, Keeps(F, g), NEW h \in Frame, Fresh(h),
           frames' = Append(SetF(g), h)
    PROVE  Steps
  <1>1. Kept(frames, SetF(g), Len(frames)) /\ Len(frames) \in Nat /\ SetF(g) \in Seq(Frame)
    BY Innermost, KeptTop, LastReplaced DEF SetF
  <1> QED
    BY <1>1, Innermost, KeptMore DEF Steps

LEMMA FrontStep ==
    ASSUME Inv, frames # <<>>, frames' = Front(frames)
    PROVE  Steps
  BY Innermost, KeptFront DEF Steps

LEMMA NoneStep ==
    ASSUME Inv, frames' = <<>>
    PROVE  Steps
  <1>1. Len(frames) \in Nat
    BY SeqFacts DEF Inv, TypeOK
  <1>2. Kept(frames, <<>>, 0)
    BY <1>1 DEF Kept
  <1> QED
    BY <1>2 DEF Steps

LEMMA SameStep ==
    ASSUME Inv, frames' = frames
    PROVE  Steps
  <1>1. Len(frames) \in Nat
    BY SeqFacts DEF Inv, TypeOK
  <1>2. Kept(frames, frames, Len(frames))
    BY <1>1 DEF Kept, Keeps
  <1> QED
    BY <1>1, <1>2 DEF Steps

LEMMA NewFresh ==
    ASSUME NEW kind, NEW func, NEW noyield
    PROVE  Fresh(NewFrame(kind, func, noyield))
  BY DEF Fresh, Good, NewFrame

LEMMA ToCloseSteps == ASSUME Inv, NEW l \in Int, ToClose(l) PROVE Steps
  <1> DEFINE g == [F EXCEPT !.active = l]
  <1>1. /\ frames # <<>> /\ F \in Frame /\ frames' = SetF(g) /\ F.active \in Nat /\ l \in Nat
    <2>1. InCode /\ frames' = SetF(g) /\ l \in F.active + 1 .. F.func + Size
      BY DEF ToClose
    <2>2. frames # <<>> /\ F \in Frame /\ F.active \in Nat
      BY <2>1, RunsCode
    <2> QED
      BY <2>1, <2>2
  <1>2. g \in Frame
    BY <1>1 DEF Frame
  <1>3. Keeps(F, g)
    BY <1>1 DEF Keeps, Good, Frame
  <1> QED
    BY <1>1, <1>2, <1>3, TopStep

LEMMA CallSteps ==
    ASSUME Inv, NEW kind \in {"lua", "c"}, NEW noyield \in BOOLEAN, Call(kind, noyield)
    PROVE  Steps
  <1> DEFINE g == [F EXCEPT !.phase = "call"]
             a == F.active + 1
             h == NewFrame(kind, a, noyield)
  <1>1. InCode /\ frames' = Append(SetF(g), h)
    BY DEF Call
  <1>2. frames # <<>> /\ F \in Frame /\ F.active \in Nat
    BY <1>1, RunsCode
  <1>3. g \in Frame
    BY <1>2 DEF Frame, Phases
  <1>4. Keeps(F, g)
    BY <1>2 DEF Keeps, Good, Frame
  <1>5. a \in Nat \ {0}
    BY <1>2
  <1> HIDE DEF a
  <1>6. h \in Frame /\ Fresh(h)
    BY <1>5, NewFrameFacts, NewFresh
  <1> QED
    BY <1>1, <1>2, <1>3, <1>4, <1>6, CallingStep

LEMMA PcallSteps == ASSUME Inv, Pcall PROVE Steps
  <1> DEFINE yield == Yieldable
             g == [F EXCEPT !.phase = "call"]
             a == F.active + 1
             r == [NewFrame("pcall", a, FALSE) EXCEPT !.phase = "call", !.ypcall = yield]
             h == NewFrame("lua", r.func + 2, ~yield)
  <1>1. InCode /\ frames' = SetF(g) \o <<r, h>>
    BY DEF Pcall
  <1>2. frames # <<>> /\ F \in Frame /\ F.active \in Nat
    BY <1>1, RunsCode
  <1>3. g \in Frame
    BY <1>2 DEF Frame, Phases
  <1>4. Keeps(F, g)
    BY <1>2 DEF Keeps, Good, Frame
  <1>5. a \in Nat \ {0} /\ yield \in BOOLEAN
    BY <1>2 DEF Yieldable, Inv, TypeOK
  <1> HIDE DEF a, yield
  <1>6. r \in Frame /\ r.func = a
    BY <1>5 DEF NewFrame, Frame, Kinds, Phases
  <1>7. Fresh(r)
    BY DEF Fresh, Good, NewFrame
  <1> HIDE DEF r
  <1>8. h \in Frame /\ Fresh(h)
    <2>1. r.func + 2 \in Nat \ {0} /\ (~yield) \in BOOLEAN
      BY <1>5, <1>6
    <2> QED
      BY <2>1, NewFrameFacts, NewFresh
  <1> HIDE DEF g, h
  <1>9. Kept(frames, SetF(g), Len(frames)) /\ Len(frames) \in Nat /\ SetF(g) \in Seq(Frame)
    BY <1>2, <1>3, <1>4, Innermost, KeptTop, LastReplaced DEF SetF
  <1> DEFINE t == SetF(g)
             u == Append(t, r)
  <1>10. frames \in Seq(Frame) /\ t \in Seq(Frame) /\ Kept(frames, t, Len(frames))
    BY <1>2, <1>9, Innermost
  <1>11. frames' = t \o <<r, h>>
    BY <1>1
  <1> HIDE DEF t
  <1>12. u \in Seq(Frame) /\ Kept(frames, u, Len(frames))
    BY <1>6, <1>7, <1>9, <1>10, KeptMore
  <1>13. frames' = Append(u, h)
    BY <1>6, <1>8, <1>10, <1>11
  <1> HIDE DEF u
  <1> QED
    BY <1>8, <1>9, <1>10, <1>12, <1>13, KeptMore DEF Steps

LEMMA LeaveBlockSteps == ASSUME Inv, NEW l \in Int, LeaveBlock(l) PROVE Steps
  <1> DEFINE g == [F EXCEPT !.phase = "close", !.level = l]
  <1>1. InCode /\ frames' = SetF(g) /\ l \in F.func + 1 .. F.active
    BY DEF LeaveBlock
  <1>2. frames # <<>> /\ F \in Frame /\ F.func \in Nat
    BY <1>1, RunsCode
  <1>3. l \in Nat
    BY <1>1, <1>2
  <1>4. g \in Frame
    BY <1>2, <1>3 DEF Frame, Phases
  <1>5. Keeps(F, g)
    BY <1>2 DEF Keeps, Good, Frame
  <1> QED
    BY <1>1, <1>2, <1>4, <1>5, TopStep

LEMMA ReturnSteps ==
    ASSUME Inv, NEW n \in Results, NEW open \in OpenReturns, Return(n, open)
    PROVE  Steps
  <1> DEFINE l == IF F.kind = "lua" THEN F.func + 1 ELSE F.func
             g == [F EXCEPT !.phase = "return", !.n = n, !.evaluated = n, !.open = open,
                            !.level = l]
  <1>1. InCode /\ frames' = SetF(g)
    BY DEF Return
  <1>2. frames # <<>> /\ F \in Frame /\ F.func \in Nat
    BY <1>1, RunsCode
  <1>3. l \in Nat /\ n \in Nat /\ open \in BOOLEAN
    BY <1>2, Constants
  <1> HIDE DEF l
  <1>4. g \in Frame
    BY <1>2, <1>3 DEF Frame, Phases
  <1>5. Keeps(F, g)
    BY <1>2, <1>3 DEF Keeps, Good, Frame
  <1> QED
    BY <1>1, <1>2, <1>4, <1>5, TopStep

LEMMA ExitSteps == ASSUME Inv, Exit PROVE Steps
  <1> DEFINE g == [F EXCEPT !.phase = "call"]
             a == F.active + 1
             h == [NewFrame("exit", a, FALSE) EXCEPT !.phase = "error", !.level = 1]
  <1>1. InCode /\ frames' = Append(SetF(g), h)
    BY DEF Exit
  <1>2. frames # <<>> /\ F \in Frame /\ F.active \in Nat
    BY <1>1, RunsCode
  <1>3. g \in Frame
    BY <1>2 DEF Frame, Phases
  <1>4. Keeps(F, g)
    BY <1>2 DEF Keeps, Good, Frame
  <1>5. a \in Nat
    BY <1>2
  <1> HIDE DEF a
  <1>6. h \in Frame
    BY <1>5 DEF NewFrame, Frame, Kinds, Phases
  <1>7. Fresh(h)
    BY DEF Fresh, Good, NewFrame
  <1> QED
    BY <1>1, <1>2, <1>3, <1>4, <1>6, <1>7, CallingStep

LEMMA BlockLeftSteps == ASSUME Inv, BlockLeft PROVE Steps
  <1> DEFINE l == F.level - 1
             g == [F EXCEPT !.phase = "run", !.active = l, !.level = 0]
  <1>1. frames # <<>> /\ F.phase = "close" /\ frames' = SetF(g)
    BY DEF BlockLeft, Running
  <1>2. F \in Frame /\ FrameOK(F) /\ F.func \in Nat /\ F.level \in Nat
    BY <1>1, Innermost DEF Frame
  <1>3. l \in Nat
    BY <1>1, <1>2 DEF FrameOK
  <1> HIDE DEF l
  <1>4. g \in Frame
    BY <1>2, <1>3 DEF Frame, Phases
  <1>5. Keeps(F, g)
    BY <1>2 DEF Keeps, Good, Frame
  <1> QED
    BY <1>1, <1>2, <1>4, <1>5, TopStep

LEMMA ReturnedSteps == ASSUME Inv, Returned PROVE Steps
  <1>1. frames # <<>> /\ (frames' = <<>> \/ frames' = Front(frames))
    BY DEF Returned, Running
  <1> QED
    BY <1>1, NoneStep, FrontStep

LEMMA GoOnSteps == ASSUME Inv, GoOn PROVE Steps
  <1> DEFINE g == [F EXCEPT !.phase = "run"]
  <1>1. frames # <<>> /\ (frames' = Front(frames) \/ frames' = SetF(g))
    BY DEF GoOn
  <1>2. F \in Frame
    BY <1>1, Innermost
  <1>3. g \in Frame
    BY <1>2 DEF Frame, Phases
  <1>4. Keeps(F, g)
    BY <1>2 DEF Keeps, Good, Frame
  <1> QED
    BY <1>1, <1>3, <1>4, FrontStep, TopStep

LEMMA UnrollSteps == ASSUME Inv, Unroll PROVE Steps
  <1> DEFINE n == RepeatedCount(F)
             g1 == [F EXCEPT !.n = n]
             l == F.func + 2
             g2 == [F EXCEPT !.phase = "error", !.level = l]
  <1>1. frames # <<>> /\ (frames' = SetF(F) \/ frames' = SetF(g1) \/ frames' = SetF(g2))
    BY DEF Unroll, Repeated, CloseAfterError
  <1>2. F \in Frame /\ F.func \in Nat /\ n \in Nat /\ l \in Nat
    BY <1>1, Innermost, CountFacts DEF Frame
  <1>3. ~F.open => n = F.n
    BY DEF RepeatedCount
  <1> HIDE DEF n, l
  <1>4. g1 \in Frame /\ g2 \in Frame
    BY <1>2 DEF Frame, Phases
  <1>5. Keeps(F, F) /\ Keeps(F, g2)
    BY <1>2 DEF Keeps, Good, Frame
  <1>6. Keeps(F, g1)
    BY <1>2, <1>3 DEF Keeps, Good, Frame
  <1> QED
    BY <1>1, <1>2, <1>4, <1>5, <1>6, TopStep

LEMMA FailSteps == ASSUME Inv, Fail PROVE Steps
  <1>1. CASE Handlers = {}
    BY <1>1, NoneStep DEF Fail
  <1>2. CASE Handlers # {}
    <2> DEFINE f(i) == [frames[i] EXCEPT !.recst = TRUE, !.raised = TRUE]
    <2>1. PICK i \in Handlers :
             frames' = Append(SubSeq(frames, 1, i - 1),
                              IF f(i).kind = "pcall" /\ ~f(i).ypcall
                              THEN CloseAfterError(f(i)) ELSE f(i))
      BY <1>2 DEF Fail
    <2>2. /\ frames \in Seq(Frame) /\ i \in 1..Len(frames) /\ Len(frames) \in Nat
          /\ frames[i] \in Frame
      BY SeqFacts DEF Inv, TypeOK, Handlers
    <2> DEFINE a == f(i)
               b == CloseAfterError(a)
               g == IF a.kind = "pcall" /\ ~a.ypcall THEN b ELSE a
    <2>3. a \in Frame
      BY <2>2 DEF Frame
    <2>4. Keeps(frames[i], a)
      BY <2>2 DEF Keeps, Good, Frame
    <2>5. Keeps(frames[i], b)
      BY <2>2 DEF Keeps, Good, Frame, CloseAfterError
    <2>6. b \in Frame
      <3> HIDE DEF a
      <3> DEFINE l == a.func + 2
      <3>1. l \in Nat
        BY <2>3 DEF Frame
      <3>2. b = [a EXCEPT !.phase = "error", !.level = l]
        BY DEF CloseAfterError
      <3> HIDE DEF b, l
      <3> QED
        BY <2>3, <3>1, <3>2 DEF Frame, Phases
    <2>7. frames' = Append(SubSeq(frames, 1, i - 1), g)
      BY <2>1
    <2> HIDE DEF a, b
    <2>8. g \in Frame /\ Keeps(frames[i], g)
      BY <2>3, <2>4, <2>5, <2>6
    <2> HIDE DEF g
    <2>9. i - 1 \in 0..Len(frames)
      BY <2>2
    <2> DEFINE t == SubSeq(frames, 1, i - 1)
    <2>10. t \in Seq(Frame) /\ Len(t) = i - 1 /\ \A j \in 1..i - 1 : t[j] = frames[j]
      BY <2>2, <2>9, Prefix
    <2>11. frames' = Append(t, g)
      BY <2>7
    <2> HIDE DEF t
    <2>12. Len(frames') = i /\ frames'[i] = g /\ \A j \in 1..i - 1 : frames'[j] = frames[j]
      BY <2>2, <2>8, <2>10, <2>11, Extended
    <2>13. ASSUME NEW j \in 1..i
           PROVE  Keeps(frames[j], frames'[j])
      <3>1. CASE j = i
        BY <2>8, <2>12, <3>1
      <3>2. CASE j # i
        <4>1. frames'[j] = frames[j]
          BY <2>2, <2>12, <3>2
        <4> QED
          BY <4>1 DEF Keeps
      <3> QED
        BY <3>1, <3>2
    <2> QED
      BY <2>2, <2>12, <2>13 DEF Steps, Kept
  <1> QED
    BY <1>1, <1>2

LEMMA ResetThreadSteps == ASSUME Inv, ResetThread PROVE Steps
  <1> DEFINE h == [NewFrame("base", 0, FALSE) EXCEPT !.phase = "error", !.level = 1]
  <1>1. frames' = <<h>>
    BY DEF ResetThread
  <1>2. Fresh(h)
    BY DEF Fresh, Good, NewFrame
  <1>3. Len(frames) \in Nat
    BY SeqFacts DEF Inv, TypeOK
  <1> HIDE DEF h
  <1>4. Kept(frames, <<h>>, 0)
    BY <1>2, <1>3 DEF Kept
  <1> QED
    BY <1>1, <1>4 DEF Steps

\* Every step but the turn of luaF_close's loop, which adds a frame that closes a
\* variable.
LEMMA NextSteps ==
    ASSUME Inv, [Next]_vars
    PROVE  CloseVariable \/ Steps
  <1>1. CASE UNCHANGED vars
    BY <1>1, SameStep DEF vars
  <1>2. ASSUME NEW l \in F.func + 1 .. F.func + Size, InCode, ToClose(l) \/ LeaveBlock(l)
        PROVE  Steps
    BY <1>2, ToCloseSteps, LeaveBlockSteps
  <1>3. ASSUME NEW kind \in {"lua", "c"}, NEW noyield \in BOOLEAN, Call(kind, noyield)
        PROVE  Steps
    BY <1>3, CallSteps
  <1>4. ASSUME NEW n \in Results, NEW open \in OpenReturns, Return(n, open)
        PROVE  Steps
    BY <1>4, ReturnSteps
  <1>5. CASE Yield \/ Resume
    BY <1>5, SameStep DEF Yield, Resume
  <1> QED
    BY <1>1, <1>2, <1>3, <1>4, <1>5, PcallSteps, ExitSteps, BlockLeftSteps, ReturnedSteps,
       GoOnSteps, UnrollSteps, FailSteps, ResetThreadSteps
    DEF Next

-----------------------------------------------------------------------------
(* The results of functions.                                               *)

AllGood == \A i \in DOMAIN frames : Good(frames[i])

LEMMA GoodNext ==
    ASSUME Inv, AllGood, [Next]_vars
    PROVE  AllGood'
  <1>1. Inv' /\ frames \in Seq(Frame) /\ frames' \in Seq(Frame)
    BY NextInv DEF Inv, TypeOK
  <1>2. /\ DOMAIN frames = 1..Len(frames) /\ DOMAIN frames' = 1..Len(frames')
        /\ Len(frames) \in Nat /\ Len(frames') \in Nat
    BY <1>1, SeqFacts
  <1>3. CASE Steps
    <2>1. PICK n \in Nat : Kept(frames, frames', n)
      BY <1>3 DEF Steps
    <2> SUFFICES ASSUME NEW j \in 1..Len(frames')
                 PROVE  Good(frames'[j])
      BY <1>2 DEF AllGood
    <2>2. CASE j <= n
      <3>1. j \in 1..n /\ j \in DOMAIN frames
        BY <1>2, <2>1, <2>2 DEF Kept
      <3> QED
        BY <2>1, <3>1 DEF Kept, Keeps, AllGood
    <2>3. CASE ~(j <= n)
      <3>1. j \in n + 1..Len(frames')
        BY <1>2, <2>3
      <3> QED
        BY <2>1, <3>1 DEF Kept, Fresh
    <2> QED
      BY <2>2, <2>3
  <1>4. CASE CloseVariable
    <2> DEFINE h == [NewFrame("lua", MethodAt(F), ~MethodYields(F)) EXCEPT !.closes = tbclist]
    <2>1. frames' = Append(frames, h)
      BY <1>4 DEF CloseVariable
    <2>2. Good(h)
      BY DEF Good, NewFrame
    <2> HIDE DEF h
    <2>3. Len(frames') = Len(frames) + 1 /\ frames'[Len(frames) + 1] = h
          /\ \A i \in 1..Len(frames) : frames'[i] = frames[i]
      BY <1>2, <2>1
    <2> SUFFICES ASSUME NEW j \in 1..Len(frames')
                 PROVE  Good(frames'[j])
      BY <1>2 DEF AllGood
    <2>4. j = Len(frames) + 1 \/ j \in DOMAIN frames
      BY <1>2, <2>3
    <2> QED
      BY <1>2, <2>2, <2>3, <2>4 DEF AllGood
  <1> QED
    BY <1>3, <1>4, NextSteps

LEMMA GoodInit == Init => AllGood
  <1> SUFFICES ASSUME Init
               PROVE  AllGood
    OBVIOUS
  <1> DEFINE h == NewFrame("lua", 1, FALSE)
             r == [NewFrame("pcall", 1, FALSE) EXCEPT !.phase = "call"]
             q == NewFrame("lua", 3, TRUE)
  <1>1. Good(h) /\ Good(r) /\ Good(q)
    BY DEF Good, NewFrame
  <1>2. frames = <<h>> \/ frames = <<r, q>>
    BY DEF Init
  <1> HIDE DEF h, r, q
  <1> QED
    BY <1>1, <1>2 DEF AllGood

\* OP_RETURN and the C functions: but for OP_RETURN with B = 0, a function whose closing
\* methods yield returns as many values as it had evaluated.
THEOREM ResultsKept ==
    ASSUME TRUE \notin OpenReturns
    PROVE  Spec => []ReturnsEvaluated
  <1>1. Init => Inv /\ AllGood
    BY InitInv, GoodInit
  <1>2. Inv /\ AllGood /\ [Next]_vars => (Inv /\ AllGood)'
    BY NextInv, GoodNext
  <1>3. Inv /\ AllGood => ReturnsEvaluated
    BY DEF AllGood, Good, ReturnsEvaluated
  <1> QED
    BY <1>1, <1>2, <1>3, PTL DEF Spec

-----------------------------------------------------------------------------
(* Closing implements TbcScopes.                                           *)

Closers(fs) == {j \in DOMAIN fs : fs[j].closes # 0}
Methods(fs) == [i \in Closers(fs) |-> fs[i].closes]

\* Calls end, the innermost first.
LEMMA KeptMethods ==
    ASSUME NEW fs \in Seq(Frame), NEW gs \in Seq(Frame), NEW n \in Nat, Kept(fs, gs, n)
    PROVE  /\ Closers(gs) = {j \in Closers(fs) : j <= n}
           /\ Methods(gs) = [d \in Closers(gs) |-> Methods(fs)[d]]
  <1>1. /\ DOMAIN fs = 1..Len(fs) /\ DOMAIN gs = 1..Len(gs) /\ n <= Len(fs) /\ n <= Len(gs)
        /\ Len(fs) \in Nat /\ Len(gs) \in Nat
    BY SeqFacts DEF Kept
  <1>2. \A j \in 1..n : gs[j].closes = fs[j].closes
    BY DEF Kept, Keeps
  <1>3. \A j \in n + 1..Len(gs) : gs[j].closes = 0
    BY DEF Kept, Fresh
  <1>4. \A j \in DOMAIN gs : j \in 1..n \/ j \in n + 1..Len(gs)
    BY <1>1
  <1>5. \A j \in DOMAIN fs : j <= n => j \in 1..n
    BY <1>1
  <1>6. \A j \in 1..n : j \in DOMAIN fs /\ j \in DOMAIN gs /\ j <= n
    BY <1>1
  <1>7. Closers(gs) = {j \in Closers(fs) : j <= n}
    BY <1>2, <1>3, <1>4, <1>5, <1>6 DEF Closers
  <1>8. \A d \in Closers(gs) : d \in Closers(fs) /\ gs[d].closes = fs[d].closes
    BY <1>2, <1>5, <1>7 DEF Closers
  <1> QED
    BY <1>7, <1>8 DEF Methods

LEMMA EndStep ==
    ASSUME Inv, Inv', Steps, UNCHANGED pending
    PROVE  Scopes!MethodsEnd
  <1>1. PICK n \in Nat : Kept(frames, frames', n)
    BY DEF Steps
  <1>2. frames \in Seq(Frame) /\ frames' \in Seq(Frame)
    BY DEF Inv, TypeOK
  <1> DEFINE m == Methods(frames)
             w == Methods(frames')
  <1>3. /\ Closers(frames') = {j \in Closers(frames) : j <= n}
        /\ w = [d \in Closers(frames') |-> m[d]]
    BY <1>1, <1>2, KeptMethods
  <1>4. DOMAIN m = Closers(frames) /\ DOMAIN w = Closers(frames')
    BY DEF Methods
  <1>5. \A j \in Closers(frames) : j \in Nat
    BY <1>2, SeqFacts DEF Closers
  <1> HIDE DEF m, w
  <1>6. /\ DOMAIN w \subseteq DOMAIN m
        /\ \A d \in DOMAIN w, c \in DOMAIN m : c < d => c \in DOMAIN w
        /\ w = [d \in DOMAIN w |-> m[d]]
    BY <1>3, <1>4, <1>5
  <1> QED
    BY <1>6 DEF Scopes!MethodsEnd, m, w, Methods, Closers

LEMMA DeclareStep ==
    ASSUME Inv, NEW l \in Int, ToClose(l)
    PROVE  Scopes!Declare
  <1> DEFINE g == [F EXCEPT !.active = l]
  <1>1. InCode /\ frames' = SetF(g) /\ pending' = Append(pending, l) /\ l \in F.active + 1 .. F.func + Size
    BY DEF ToClose
  <1>2. /\ frames # <<>> /\ F \in Frame /\ F.active \in Nat /\ F.func \in Nat
        /\ \A p \in Pending : p <= F.active
    BY <1>1, RunsCode
  <1>3. l \in Nat /\ F.active < l
    BY <1>1, <1>2, Constants
  <1>4. g \in Frame /\ g.closes = F.closes
    BY <1>2, <1>3 DEF Frame
  <1> HIDE DEF g
  <1>5. pending \in Seq(Nat) /\ Len(pending) \in Nat /\ DOMAIN pending = 1..Len(pending)
    BY SeqFacts DEF Inv, TypeOK
  <1>6. /\ Len(pending') = Len(pending) + 1 /\ pending'[Len(pending')] = l
        /\ pending = SubSeq(pending', 1, Len(pending))
    BY <1>1, <1>3, <1>5
  <1>7. \A i \in 1..Len(pending) : pending[i] < pending'[Len(pending')]
    <2>1. \A i \in 1..Len(pending) : pending[i] \in Pending /\ pending[i] \in Nat
      BY <1>5 DEF Pending
    <2> QED
      BY <1>2, <1>3, <1>6, <2>1
  <1>8. Methods(frames') = Methods(frames)
    <2>1. /\ frames' \in Seq(Frame) /\ Len(frames') = Len(frames) /\ frames'[Len(frames)] = g
          /\ \A i \in 1..Len(frames) - 1 : frames'[i] = frames[i]
          /\ frames \in Seq(Frame) /\ Len(frames) \in Nat \ {0}
      <3>1. /\ frames \in Seq(Frame) /\ Len(frames) \in Nat \ {0} /\ frames # <<>>
            /\ frames' = [frames EXCEPT ![Len(frames)] = g] /\ g \in Frame
        BY <1>1, <1>2, <1>4, Innermost DEF SetF
      <3> QED
        BY <3>1, LastReplaced
    <2>2. DOMAIN frames = 1..Len(frames) /\ DOMAIN frames' = 1..Len(frames)
      BY <2>1, SeqFacts
    <2>3. F = frames[Len(frames)]
      BY DEF F
    <2>4. \A i \in 1..Len(frames) : i = Len(frames) \/ i \in 1..Len(frames) - 1
      BY <2>1
    <2>5. \A i \in 1..Len(frames) : frames'[i].closes = frames[i].closes
      BY <1>4, <2>1, <2>3, <2>4
    <2>6. Closers(frames') = Closers(frames)
      BY <2>2, <2>5 DEF Closers
    <2>7. \A i \in Closers(frames) : frames'[i].closes = frames[i].closes
      BY <2>2, <2>5 DEF Closers
    <2> QED
      BY <2>6, <2>7 DEF Methods
  <1> QED
    BY <1>6, <1>7, <1>8 DEF Scopes!Declare, Methods, Closers

LEMMA CloseLastStep ==
    ASSUME Inv, CloseVariable
    PROVE  Scopes!CloseLast
  <1>1. Running /\ F.phase \in ClosePhases /\ tbclist >= F.level
    BY DEF CloseVariable
  <1>2. PopTbc /\ pending' = RemoveFirst(pending, tbclist)
    BY DEF CloseVariable, Popped
  <1>3. pending # <<>> /\ frames # <<>>
    BY <1>1, SomePending DEF Running
  <1>4. pending' = SubSeq(pending, 1, Len(pending) - 1) /\ tbclist = pending[Len(pending)]
    BY <1>2, <1>3, Removed DEF Inv
  <1>5. tbclist \in Nat /\ tbclist # 0
    BY <1>3, PendingSet DEF Inv
  <1> DEFINE h == [NewFrame("lua", MethodAt(F), ~MethodYields(F)) EXCEPT !.closes = tbclist]
  <1>6. frames' = Append(frames, h)
    BY DEF CloseVariable
  <1>7. h.closes = tbclist
    BY DEF NewFrame
  <1> HIDE DEF h
  <1>8. PICK n \in Nat \ {0} : n = Len(frames) + 1
    BY SeqFacts DEF Inv, TypeOK
  <1>9. /\ frames \in Seq(Frame) /\ DOMAIN frames = 1..n - 1 /\ DOMAIN frames' = 1..n
        /\ frames'[n] = h /\ \A i \in 1..n - 1 : frames'[i] = frames[i]
    BY <1>6, <1>8 DEF Inv, TypeOK
  <1>10. \A i \in 1..n : i = n \/ i \in 1..n - 1
    BY <1>8
  <1>11. \A i \in 1..n - 1 : i \in 1..n /\ i < n /\ i # n
    BY <1>8
  <1>12. Closers(frames') = Closers(frames) \cup {n}
    BY <1>5, <1>7, <1>8, <1>9, <1>10, <1>11 DEF Closers
  <1>13. \A d \in Closers(frames) : d < n /\ d # n /\ frames'[d].closes = frames[d].closes
    BY <1>9, <1>11 DEF Closers
  <1> DEFINE m == Methods(frames)
             w == Methods(frames')
  <1>14. DOMAIN m = Closers(frames) /\ DOMAIN w = Closers(frames')
    BY DEF Methods
  <1>15. w = [d \in Closers(frames) \cup {n} |-> IF d = n THEN pending[Len(pending)] ELSE m[d]]
    BY <1>4, <1>7, <1>9, <1>12, <1>13 DEF Methods
  <1> HIDE DEF m, w
  <1>16. /\ n \in DOMAIN w /\ \A d \in DOMAIN m : d < n
         /\ w = [d \in DOMAIN m \cup {n} |-> IF d = n THEN pending[Len(pending)] ELSE m[d]]
    BY <1>12, <1>13, <1>14, <1>15
  <1> QED
    BY <1>3, <1>4, <1>16 DEF Scopes!CloseLast, m, w, Methods, Closers

LEMMA ScopesInitStep == Init => Scopes!ScopesInit
  <1> SUFFICES ASSUME Init
               PROVE  Scopes!ScopesInit
    OBVIOUS
  <1>1. pending = <<>> /\ (frames = <<NewFrame("lua", 1, FALSE)>>
           \/ frames = <<[NewFrame("pcall", 1, FALSE) EXCEPT !.phase = "call"],
                         NewFrame("lua", 3, TRUE)>>)
    BY DEF Init, ListInit
  <1>2. \A i \in DOMAIN frames : frames[i].closes = 0
    BY <1>1 DEF NewFrame
  <1>3. Closers(frames) = {}
    BY <1>2 DEF Closers
  <1>4. Methods(frames) = <<>>
    BY <1>3 DEF Methods
  <1> QED
    BY <1>1, <1>4 DEF Scopes!ScopesInit, Methods, Closers

LEMMA ScopesNextStep ==
    ASSUME Inv, [Next]_vars
    PROVE  Scopes!Declare \/ Scopes!CloseLast \/ Scopes!MethodsEnd
  <1>1. Inv'
    BY NextInv
  <1>2. CASE \E l \in F.func + 1 .. F.func + Size : ToClose(l)
    BY <1>2, DeclareStep
  <1>3. CASE CloseVariable
    BY <1>3, CloseLastStep
  <1>4. CASE UNCHANGED pending
    BY <1>1, <1>3, <1>4, NextSteps, EndStep
  <1> QED
    BY <1>2, <1>3, <1>4 DEF Next, vars, list, LeaveBlock, Call, Return, Pcall, Exit, BlockLeft,
       Returned, GoOn, Unroll, Fail, Yield, Resume, ResetThread

\* luaF_close and its callers close the variables in the reverse order of their
\* declaration, each of them once, and whatever their methods do the calls of closing
\* methods end like calls do.
THEOREM ClosesInOrder == Spec => ImplementsScopes
  <1>1. Inv /\ [Next]_vars =>
           [Scopes!Declare \/ Scopes!CloseLast \/ Scopes!MethodsEnd]_(Scopes!svars)
    BY ScopesNextStep
  <1> QED
    BY <1>1, ScopesInitStep, Invariance, PTL DEF Spec, ImplementsScopes, Scopes!ScopesSpec

=============================================================================
