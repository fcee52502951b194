-------------------------------- MODULE Table -------------------------------
(***************************************************************************)
(* The tables of ltable.c: an array part with a hint for the length in its *)
(* limit, and a hash part, a vector of nodes with relative links in which  *)
(* a colliding node that is not in its main position makes room (Brent's   *)
(* variation).  A full hash part is rebuilt, and either allocation of that *)
(* may fail.  The collector turns the keys of empty nodes into dead keys.  *)
(* The table also remembers that it has no metamethod of a given name.     *)
(*                                                                         *)
(* Positions of nodes count from 0, as in the code; a key is an integer, a *)
(* string or another object, or a float, which is normalized.              *)
(***************************************************************************)
EXTENDS Integers, Sequences, FiniteSets, SequencesExt

CONSTANTS
    IntKeys, Strings, Objects,   \* the keys that are used
    Floats,       \* floats with an integral value: a function to IntKeys
    Value,
    Event,        \* the string that names a metamethod
    Nothing,      \* no value, no key, no traversal
    Start,        \* the key before the first one of a traversal
    MaxInteger,   \* LUA_MAXINTEGER
    MAXABITS,     \* bound: log2 of the size of an array part
    Instances     \* the keys that one table may get, with their hashes, and the
                  \* sizes that lua_createtable is asked for

VARIABLES
    inst,         \* the instance; luaS_hash, or the address, is its `hash'
    t,            \* the Table
    at, left      \* a traversal, see TableMap
vars == <<inst, t, at, left>>

Key == IntKeys \cup Strings \cup Objects
Collectable == Strings \cup Objects
Index == 1..MaxInteger
Normalize(k) == IF k \in DOMAIN Floats THEN Floats[k] ELSE k

ASSUME KeysAssumption ==
    /\ IntKeys \subseteq Index /\ Event \in Strings
    /\ \A f \in DOMAIN Floats : Floats[f] \in IntKeys
    /\ \A i \in Instances : i.keys \subseteq Key \cup DOMAIN Floats
    /\ Index \cap Collectable = {} /\ Strings \cap Objects = {}
    /\ Nothing \notin Index \cup Key \cup Value /\ Start \notin Key \cup {Nothing}
\* A hash is an unsigned integer; an array never has as many elements as there are integers.
ASSUME SizesAssumption ==
    /\ MaxInteger \in Nat \ {0} /\ MAXABITS \in Nat /\ 2^MAXABITS < MaxInteger
    /\ \A i \in Instances :
          /\ \A k \in Collectable : i.hash[k] \in Nat
          /\ i.asize \in 0..MaxInteger - 1 /\ i.hsize \in Nat

-----------------------------------------------------------------------------
(* Sizes.                                                                  *)

IsPow2(n) == n = 0 \/ \E i \in 0..n : n = 2^i
CeilLog2(n) == CHOOSE i \in 0..n : 2^i >= n /\ \A j \in 0..i - 1 : 2^j < n
MaxOf(S) == CHOOSE i \in S : \A j \in S : j <= i

\* luaH_realasize: the size of the array part, known from alimit.
LimitIsSize(tb) == tb.realasize \/ IsPow2(tb.alimit)
RealSize(tb) == IF LimitIsSize(tb) THEN tb.alimit ELSE 2^CeilLog2(tb.alimit)
SetLimitToSize(tb) == [tb EXCEPT !.alimit = RealSize(tb), !.realasize = TRUE]
IsPow2RealSize(tb) == ~tb.realasize \/ IsPow2(tb.alimit)

FreeNode == [key |-> Nothing, dead |-> FALSE, val |-> Nothing, next |-> 0]
Dummy == -1             \* lastfree of a table that uses the dummy node
NodeVector(n) ==
    IF n = 0 THEN [node |-> [i \in {0} |-> FreeNode], lastfree |-> Dummy]
    ELSE LET size == 2^CeilLog2(n)
         IN  [node |-> [i \in 0..size - 1 |-> FreeNode], lastfree |-> size]
WithNodes(tb, v) == [tb EXCEPT !.node = v.node, !.lastfree = v.lastfree]
SizeNode(tb) == Cardinality(DOMAIN tb.node)

NewTable == [array |-> <<>>, alimit |-> 0, realasize |-> TRUE, absent |-> TRUE,
             node |-> NodeVector(0).node, lastfree |-> Dummy]

-----------------------------------------------------------------------------
(* Search.                                                                 *)

MainPosition(tb, k) ==
    CASE k \in Index -> k % SizeNode(tb)
      [] k \in Strings -> inst.hash[k] % SizeNode(tb)
      [] OTHER -> LET n == SizeNode(tb) - 1 IN inst.hash[k] % (IF n % 2 = 0 THEN n + 1 ELSE n)

NoNode == -1
\* The node with key k, along the chain of its main position.
Find(tb, k, deadok) ==
    LET walk[i \in DOMAIN tb.node] ==
            LET n == tb.node[i] IN
            IF n.key = k /\ (n.dead => deadok) THEN i
            ELSE IF n.next = 0 THEN NoNode ELSE walk[i + n.next]
    IN  walk[MainPosition(tb, k)]

\* Where the value of a key is, with the limit that luaH_getint leaves.
InArray(tb, k) ==
    /\ k \in Index
    /\ k <= tb.alimit \/ (~LimitIsSize(tb) /\ (k = tb.alimit + 1 \/ k <= RealSize(tb)))
Touch(tb, k) == IF InArray(tb, k) /\ k > tb.alimit THEN [tb EXCEPT !.alimit = k] ELSE tb
Absent(tb, k) == ~InArray(tb, k) /\ Find(tb, k, FALSE) = NoNode
Get(tb, k) == IF InArray(tb, k) THEN tb.array[k]
              ELSE IF Absent(tb, k) THEN Nothing ELSE tb.node[Find(tb, k, FALSE)].val
Store(tb, k, v) == IF InArray(tb, k) THEN [Touch(tb, k) EXCEPT !.array[k] = v]
                   ELSE [tb EXCEPT !.node[Find(tb, k, FALSE)].val = v]

-----------------------------------------------------------------------------
(* Insertion: luaH_newkey, up to the point where it finds no free place.   *)

FreePositions(tb) == {i \in 0..tb.lastfree - 1 : tb.node[i].key = Nothing}
MustMove(tb, k) == tb.lastfree = Dummy \/ tb.node[MainPosition(tb, k)].val # Nothing
NoPlace(tb, k) == MustMove(tb, k) /\ FreePositions(tb) = {}
LinkNotCorrected(tb, f, mp) == tb.node[mp].next              \* variant
\* The link of the node at mp, seen from f.
LinkFrom(tb, f, mp) == IF tb.node[mp].next = 0 THEN 0 ELSE mp + tb.node[mp].next - f

SetNode(tb, mp, k, v) ==
    [tb EXCEPT !.node[mp] = [key |-> k, dead |-> FALSE, val |-> v, next |-> @.next]]

\* The colliding node is not in its main position: it goes to f.
MoveAway(tb, mp, f) ==
    LET home == MainPosition(tb, tb.node[mp].key)
        before[i \in DOMAIN tb.node] ==
            IF i + tb.node[i].next = mp THEN i ELSE before[i + tb.node[i].next]
        p == before[home]
    IN  [tb EXCEPT !.node[p].next = f - p,
                   !.node[f] = [tb.node[mp] EXCEPT !.next = LinkFrom(tb, f, mp)],
                   !.node[mp] = [@ EXCEPT !.next = 0, !.val = Nothing]]
\* The new node goes to f, behind the colliding one.
LinkBehind(tb, mp, f) == [tb EXCEPT !.node[f].next = LinkFrom(tb, f, mp),
                                    !.node[mp].next = f - mp]

Insert(tb, k, v) ==
    LET mp == MainPosition(tb, k)
        f == MaxOf(FreePositions(tb))
        fr == [tb EXCEPT !.lastfree = f]
    IN  IF v = Nothing THEN tb
        ELSE IF ~MustMove(tb, k) THEN SetNode(tb, mp, k, v)
        ELSE IF MainPosition(tb, tb.node[mp].key) # mp
        THEN SetNode(MoveAway(fr, mp, f), mp, k, v)
        ELSE SetNode(LinkBehind(fr, mp, f), f, k, v)

\* luaH_set where the table has room.  If it had none the code would rebuild a
\* table that is being rebuilt; the model loses the entry, and the map shows it.
SetInRoom(tb, k, v) ==
    IF ~Absent(tb, k) THEN Store(tb, k, v)
    ELSE IF v # Nothing /\ NoPlace(tb, k) THEN tb ELSE Insert(tb, k, v)

-----------------------------------------------------------------------------
(* Rebuilding: luaH_resize and rehash.                                     *)

\* What an allocation may do.
Outcomes == {"ok", "nohash", "noarray"}

\* Setting fields, one after the other; those without a value are passed over.
SetAll(tb, fields) ==
    LET after[j \in 0..Len(fields)] ==
            IF j = 0 THEN tb
            ELSE IF fields[j].val = Nothing THEN after[j - 1]
            ELSE SetInRoom(after[j - 1], fields[j].key, fields[j].val)
    IN  after[Len(fields)]
\* The elements of the vanishing slice go to the new hash part.
Vanishing(tb, na) ==
    [i \in 1..(RealSize(tb) - na) |-> [key |-> na + i, val |-> tb.array[na + i]]]
MoveSlice(tb, na) == SetAll([tb EXCEPT !.alimit = na], Vanishing(tb, na))
Reinsert(tb, old) == SetAll(tb, [i \in 1..Cardinality(DOMAIN old) |-> old[i - 1]])

Fails(na, nh, outcome) == (outcome = "nohash" /\ nh > 0) \/ (outcome = "noarray" /\ na > 0)
\* A failed allocation leaves the table as it was, but for its limit.  (The emergency
\* collection that precedes the failure, or the success, of an allocation is a visit of the
\* collector before the step; that it may be one between the two halves is left out.)
Resize(tb, na, nh, outcome) ==
    LET s == SetLimitToSize(tb)
        fresh == WithNodes(s, NodeVector(nh))
        n == IF na < s.alimit THEN MoveSlice(fresh, na) ELSE fresh
        a == [i \in 1..na |-> IF i <= s.alimit THEN s.array[i] ELSE Nothing]
    IN  IF Fails(na, nh, outcome) THEN s
        ELSE Reinsert([n EXCEPT !.array = a, !.alimit = na], tb.node)

\* rehash: the integer keys, with the new one, counted by slices.
IntegersIn(tb) == {i \in 1..RealSize(tb) : tb.array[i] # Nothing}
                  \cup {k \in Index : \E i \in DOMAIN tb.node :
                                         tb.node[i].key = k /\ tb.node[i].val # Nothing}
TotalUse(tb) == Cardinality({i \in 1..RealSize(tb) : tb.array[i] # Nothing})
                + Cardinality({i \in DOMAIN tb.node : tb.node[i].val # Nothing})
Candidates(ints) == {k \in ints : CeilLog2(k) <= MAXABITS}
Below(ints, i) == {k \in ints : k <= 2^i}
\* computesizes: the largest power of two more than half of which would be used.
OptimalSize(ints) ==
    LET good == {i \in 0..MAXABITS : Cardinality(ints) > 2^i \div 2
                                     /\ Cardinality(Below(ints, i)) > 2^i \div 2}
    IN  IF good = {} THEN 0 ELSE 2^MaxOf(good)
\* rehash, which luaH_newkey calls when getfreepos found nothing.
Rehash(tb, k) ==
    LET ints == Candidates(IntegersIn(tb) \cup ({k} \cap Index))
        na == OptimalSize(ints)
    IN  [na |-> na, nh |-> TotalUse(tb) + 1 - Cardinality({i \in ints : i <= na})]

\* A table that has no place for a new key is rebuilt first, and has then.
Rebuilds(tb, k, v) == Absent(tb, k) /\ v # Nothing /\ NoPlace(tb, k)
Exhausted(tb) == [tb EXCEPT !.lastfree = IF @ = Dummy THEN @ ELSE 0]

-----------------------------------------------------------------------------
(* The length: luaH_getn.                                                  *)

\* hash_search: from j, which is absent or present with j + 1 present.
HashSearch(tb, from) ==
    LET double[i \in Index] ==          \* i is present: the next interval
            LET j == IF i <= MaxInteger \div 2 THEN 2 * i ELSE MaxInteger IN
            IF Get(tb, j) = Nothing THEN <<i, j>>
            ELSE IF j = MaxInteger THEN <<j, j>> ELSE double[j]
        bisect[p \in Index \X Index] ==  \* p[1] is present and p[2] is absent
            LET m == (p[1] + p[2]) \div 2 IN
            IF p[2] - p[1] <= 1 THEN p[1]
            ELSE IF Get(tb, m) = Nothing THEN bisect[<<p[1], m>>] ELSE bisect[<<m, p[2]>>]
    IN  bisect[double[IF from = 0 THEN 1 ELSE from]]
BinSearch(a, from, to) ==
    LET bisect[p \in (0..Len(a)) \X (0..Len(a))] ==
            LET m == (p[1] + p[2]) \div 2 IN
            IF p[2] - p[1] <= 1 THEN p[1]
            ELSE IF a[m] = Nothing THEN bisect[<<p[1], m>>] ELSE bisect[<<m, p[2]>>]
    IN  bisect[<<from, to>>]

AnyLimit(tb, n) == IsPow2RealSize(tb)                        \* variant
\* Can limit - 1 = n be the hint, and the real size of the array still be known?
CanBeLimit(tb, n) == IsPow2RealSize(tb) /\ ~IsPow2(n)
NewLimit(tb, n) == [tb EXCEPT !.alimit = n, !.realasize = FALSE]
Found(n, tb) == [n |-> n, t |-> tb]
\* (1) t[limit] is empty: the boundary is before it.
BoundaryBefore(tb) ==
    LET limit == tb.alimit
        b == BinSearch(tb.array, 0, limit)
    IN  IF limit >= 2 /\ tb.array[limit - 1] # Nothing
        THEN Found(limit - 1, IF CanBeLimit(tb, limit - 1)
                              THEN NewLimit(tb, limit - 1) ELSE tb)
        ELSE Found(b, IF IsPow2RealSize(tb) /\ b > RealSize(tb) \div 2
                      THEN NewLimit(tb, b) ELSE tb)
\* (3) the last element of the array is present, or there is none.
BoundaryAfter(tb, limit) ==
    IF tb.lastfree = Dummy \/ Get(tb, limit + 1) = Nothing THEN Found(limit, tb)
    ELSE Found(HashSearch(tb, limit), Touch(tb, limit + 1))
GetN(tb) ==
    LET limit == tb.alimit
        size == RealSize(tb)
        b == BinSearch(tb.array, limit, size)
    IN  IF limit > 0 /\ tb.array[limit] = Nothing THEN BoundaryBefore(tb)
        ELSE IF LimitIsSize(tb) THEN BoundaryAfter(tb, limit)
        ELSE IF tb.array[limit + 1] = Nothing THEN Found(limit, tb)   \* (2)
        ELSE IF tb.array[size] = Nothing THEN Found(b, [tb EXCEPT !.alimit = b])
        ELSE BoundaryAfter(tb, size)

-----------------------------------------------------------------------------
(* The operations.                                                         *)

Fields(tb) == {k \in Key : Get(tb, k) # Nothing}
\* What an assignment does to a traversal, see TableMap.
Traversal(k, v) ==
    IF Get(t, k) = Nothing /\ v # Nothing THEN at' = Nothing /\ left' = {}
    ELSE at' = at /\ left' = IF v = Nothing THEN left \ {k} ELSE left

\* A field that exists is stored without a look at the absent metamethods
\* (luaV_finishfastset); otherwise they are forgotten, unless there is an error.
CacheKept(tb, k) == tb.absent                                \* variant
CacheAfter(tb, k) == tb.absent /\ Get(tb, k) # Nothing
Assign(key, v) ==
    LET k == Normalize(key) IN
    /\ ~Rebuilds(t, k, v)
    /\ t' = [SetInRoom(t, k, v) EXCEPT !.absent = CacheAfter(t, k)]
    /\ Traversal(k, v) /\ UNCHANGED inst
AssignNew(key, v, outcome) ==
    LET k == Normalize(key)
        s == Rehash(t, k)
        r == Resize(Exhausted(t), s.na, s.nh, outcome)
    IN  /\ Rebuilds(t, k, v) /\ UNCHANGED inst
        /\ IF Fails(s.na, s.nh, outcome) THEN t' = r /\ UNCHANGED <<at, left>>
           ELSE /\ t' = [SetInRoom(r, k, v) EXCEPT !.absent = CacheAfter(t, k)]
                /\ Traversal(k, v)

\* luaH_getint moves the hint of the array.
Read(k) == k \in Index /\ t' = Touch(t, k) /\ UNCHANGED <<inst, at, left>>
Length == t' = GetN(t).t /\ UNCHANGED <<inst, at, left>>
\* luaT_gettm, as called by fasttm.
GetMetamethod ==
    /\ ~t.absent
    /\ t' = [t EXCEPT !.absent = Get(t, Event) = Nothing]
    /\ UNCHANGED <<inst, at, left>>

\* The collector visits the table: empty nodes lose their keys (clearkey).
ClearKey(n) == [n EXCEPT !.dead = @ \/ (n.val = Nothing /\ n.key \in Collectable)]
ClearKeys ==
    /\ t' = [t EXCEPT !.node = [i \in DOMAIN @ |-> ClearKey(@[i])]]
    /\ UNCHANGED <<inst, at, left>>
\* It removes an entry of a weak table whose value or key is dying (clearbyvalues,
\* clearbykeys).
Vanish(k) ==
    LET i == Find(t, k, FALSE) IN
    /\ Get(t, k) # Nothing
    /\ t' = IF k \in 1..RealSize(t) THEN [t EXCEPT !.array[k] = Nothing]
            ELSE [t EXCEPT !.node[i].val = Nothing, !.node[i].dead = k \in Collectable]
    /\ left' = left \ {k} /\ UNCHANGED <<inst, at>>

BeginTraversal == at' = Start /\ left' = Fields(t) /\ UNCHANGED <<inst, t>>

\* findindex: positions of the array, then those of the nodes.
Known(tb, k) == Find(tb, k, TRUE)
FindIndex(tb, k) ==
    IF k = Start THEN 0
    ELSE IF k \in 1..RealSize(tb) THEN k ELSE Known(tb, k) + 1 + RealSize(tb)
NextPositions(tb, i) ==
    {j \in i + 1..RealSize(tb) : tb.array[j] # Nothing}
    \cup {RealSize(tb) + 1 + n : n \in {m \in DOMAIN tb.node :
              tb.node[m].val # Nothing /\ RealSize(tb) + m >= i}}
KeyAt(tb, j) == IF j <= RealSize(tb) THEN j ELSE tb.node[j - RealSize(tb) - 1].key
InvalidKey(tb, k) == k # Start /\ k \notin 1..RealSize(tb) /\ Known(tb, k) = NoNode

\* luaH_next.  A key that is visited twice goes back to `left'.
NextField ==
    /\ at # Nothing /\ UNCHANGED <<inst, t>>
    /\ LET js == NextPositions(t, FindIndex(t, at))
           k == KeyAt(t, CHOOSE j \in js : \A i \in js : j <= i)
       IN  IF InvalidKey(t, at) THEN at' = Start /\ left' = {Start}   \* an error
           ELSE IF js = {} THEN at' = Nothing /\ UNCHANGED left
           ELSE at' = k /\ left' = IF k \in left THEN left \ {k} ELSE left \cup {k}

Init ==
    /\ inst \in Instances
    /\ t = Resize(NewTable, inst.asize, inst.hsize, "ok")
    /\ at = Nothing /\ left = {}

Next ==
    \/ \E k \in inst.keys, v \in Value \cup {Nothing} :
          Assign(k, v) \/ \E outcome \in Outcomes : AssignNew(k, v, outcome)
    \/ \E k \in inst.keys \cap Key : Read(k) \/ Vanish(k)
    \/ Length \/ GetMetamethod \/ ClearKeys \/ BeginTraversal \/ NextField

Spec == Init /\ [][Next]_vars

-----------------------------------------------------------------------------
(* Properties.                                                             *)

\* Whatever order keys come in and wherever nodes are moved to, through rebuilds,
\* failed allocations and dead keys, every key finds its own value, and a traversal
\* visits every field that stays exactly once.
Map == INSTANCE TableMap WITH map <- [k \in Key |-> Get(t, k)]
ImplementsMap == Map!MapSpec

\* luaH_getn returns a border, although the limit of the array is only a hint, and
\* the real size of the array is never lost.
IsBorder(n) == /\ n = 0 \/ Get(t, n) # Nothing
               /\ n = MaxInteger \/ Get(t, n + 1) = Nothing
LengthIsBorder == IsBorder(GetN(t).n) /\ RealSize(t) = Len(t.array)

\* A metamethod that is remembered to be absent is absent.
AbsentIsAbsent == t.absent => Get(t, Event) = Nothing

-----------------------------------------------------------------------------
(* The inductive invariant, in parts: of nodes nd, and of a table tb.      *)

NodeRecord == [key : Key \cup {Nothing}, dead : BOOLEAN, val : Value \cup {Nothing}, next : Int]
Vectors == UNION {[0..n - 1 -> NodeRecord] : n \in Nat \ {0}}
TableTypes(tb) ==
    tb \in [array : Seq(Value \cup {Nothing}), alimit : Nat, realasize : BOOLEAN,
           absent : BOOLEAN, node : Vectors, lastfree : Int]

\* The nodes that a search from m meets.
Closed(nd, S) == \A i \in S : nd[i].next # 0 => i + nd[i].next \in S
Chain(nd, m) == {i \in DOMAIN nd : \A S \in SUBSET DOMAIN nd : m \in S /\ Closed(nd, S) => i \in S}

\* Links go from node to node; two never meet, nor do they form a cycle.
Falls(nd, rank) == \A i \in DOMAIN nd : nd[i].next # 0 => rank[i + nd[i].next] < rank[i]
Linked(nd) ==
    /\ \A i \in DOMAIN nd : nd[i].next # 0 =>
          i + nd[i].next \in DOMAIN nd /\ nd[i + nd[i].next].key # Nothing
    /\ \A i, j \in DOMAIN nd :
          nd[i].next # 0 /\ nd[j].next # 0 /\ i + nd[i].next = j + nd[j].next => i = j
    /\ \E rank \in [DOMAIN nd -> Nat] : Falls(nd, rank)
\* What a node without a key, or with a dead one, is like.  A live node comes before dead
\* ones with its key, and is alone with it otherwise.
Lively(nd) ==
    /\ \A i \in DOMAIN nd : nd[i].key = Nothing => nd[i] = FreeNode
    /\ \A i \in DOMAIN nd : nd[i].dead => nd[i].val = Nothing
    /\ \A i, j \in DOMAIN nd :
          nd[i].key # Nothing /\ nd[i].key = nd[j].key /\ ~nd[i].dead => j \in Chain(nd, i)
\* A search for a key begins with a node that is in its main position, and meets it.
Homed(tb) ==
    \A i \in DOMAIN tb.node : tb.node[i].key # Nothing =>
        LET m == MainPosition(tb, tb.node[i].key)
        IN  /\ tb.node[m].key # Nothing /\ MainPosition(tb, tb.node[m].key) = m
            /\ i \in Chain(tb.node, m)
\* lastfree: all positions before it are free
FreeBefore(tb) ==
    IF tb.lastfree = Dummy THEN tb.node = NodeVector(0).node
    ELSE /\ tb.lastfree \in 0..SizeNode(tb)
         /\ \A i \in DOMAIN tb.node : i >= tb.lastfree => tb.node[i].key # Nothing
HashInv(tb) == TableTypes(tb) /\ Linked(tb.node) /\ Lively(tb.node) /\ Homed(tb) /\ FreeBefore(tb)

\* The limit of the array tells its size, and a field is in one part, under its key.
SizeKnown(tb) ==
    /\ Len(tb.array) < MaxInteger /\ tb.alimit <= Len(tb.array)
    /\ IF tb.realasize THEN tb.alimit = Len(tb.array)
       ELSE 2 * tb.alimit > Len(tb.array) /\ \E i \in 0..Len(tb.array) : Len(tb.array) = 2^i
OnePart(tb) ==
    /\ \A i \in 1..Len(tb.array) : tb.array[i] # Nothing => i \in Key
    /\ \A i \in DOMAIN tb.node : tb.node[i].val # Nothing =>
          tb.node[i].key \notin 1..Len(tb.array)
TableInv(tb) == HashInv(tb) /\ SizeKnown(tb) /\ OnePart(tb)

\* A traversal has still to visit what is behind the key it is at.
Traversed ==
    IF at = Nothing THEN TRUE
    ELSE /\ at \in Key \cup {Start} /\ ~InvalidKey(t, at)
         /\ left = {KeyAt(t, j) : j \in NextPositions(t, FindIndex(t, at))}
Invariant == inst \in Instances /\ TableInv(t) /\ Traversed /\ AbsentIsAbsent

=============================================================================
