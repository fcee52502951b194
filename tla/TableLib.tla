------------------------------- MODULE TableLib -----------------------------
(***************************************************************************)
(* The operations of ltablib.c that move elements of lists: insert,        *)
(* remove, move, concat, pack and unpack.  A table is a function of all    *)
(* integers, of WIDTH bits, and Nil is its value where it has none.  `n'   *)
(* is its length, a border of it unless a metamethod says otherwise.       *)
(***************************************************************************)
EXTENDS Integers, Sequences, FiniteSetsExt, SequencesExt

CONSTANTS
    WIDTH, Nil,
    INT_MAX,    \* as of int, for the results of unpack
    LUAI_MAXSTACK

LUA_MAXINTEGER == 2^(WIDTH - 1) - 1
LUA_MININTEGER == -2^(WIDTH - 1)
lua_Integer == LUA_MININTEGER..LUA_MAXINTEGER

\* Arithmetic on lua_Integer and lua_Unsigned
Wrap(n) == ((n - LUA_MININTEGER) % 2^WIDTH) + LUA_MININTEGER
Unsigned(n) == n % 2^WIDTH

Done(t) == [err |-> "", table |-> t]
Wrong(msg) == [err |-> msg]

\* t[to] = t[from], for a sequence of pairs <<from, to>>
Assign(t, pairs) == FoldLeft(LAMBDA u, d : [u EXCEPT ![d[2]] = u[d[1]]], t, pairs)

\* With two arguments pos is the end of the list.
tinsert(t, n, args, pos, v) ==
    LET e == Wrap(n + 1)
        at == IF args = 2 THEN e ELSE pos
        up == [k \in 1..e - pos |-> <<e - k, e - k + 1>>]
    IN  IF args = 3 /\ Unsigned(pos - 1) >= Unsigned(e) THEN Wrong("position out of bounds")
        ELSE Done([Assign(t, IF args = 3 THEN up ELSE <<>>) EXCEPT ![at] = v])

\* The table, and the element that was removed
tremove(t, size, pos) ==
    LET down == [k \in 1..size - pos |-> <<pos + k, pos + k - 1>>]
        hole == IF pos < size THEN size ELSE pos
    IN  IF pos # size /\ Unsigned(pos - 1) > Unsigned(size) THEN Wrong("position out of bounds")
        ELSE [err |-> "", table |-> [Assign(t, down) EXCEPT ![hole] = Nil], res |-> t[pos]]

AlwaysUp(f, e, t, same) == TRUE                              \* variant
CanGoUp(f, e, t, same) == t > e \/ t <= f \/ ~same
\* Copies in increasing order whenever that overwrites nothing that is still to be copied.
tmove(t1, f, e, t, t2, same) ==
    LET n == Wrap(e - f + 1)
        nth(k) == IF CanGoUp(f, e, t, same) THEN k - 1 ELSE n - k
        copy(u, i) == [u EXCEPT ![Wrap(t + i)] = (IF same THEN u ELSE t1)[f + i]]
        dest == IF same THEN t1 ELSE t2
    IN  IF e < f THEN Done(dest)
        ELSE IF ~(f > 0 \/ e < Wrap(LUA_MAXINTEGER + f)) THEN Wrong("too many elements to move")
        ELSE IF t > Wrap(LUA_MAXINTEGER - n + 1) THEN Wrong("destination wrap around")
        ELSE Done(FoldLeft(copy, dest, [k \in 1..n |-> nth(k)]))

\* The texts of the fields i to last, with `sep' between them
RECURSIVE ConcatFrom(_, _, _, _)
ConcatFrom(t, sep, i, last) ==
    IF i > last THEN <<>>
    ELSE IF i = last THEN <<t[i]>>
    ELSE <<t[i], sep>> \o ConcatFrom(t, sep, i + 1, last)
tconcat(t, sep, i, last) ==
    LET res == ConcatFrom(t, sep, i, last)
    IN  IF \E k \in DOMAIN res : res[k] = Nil THEN Wrong("invalid value") ELSE Done(res)

\* A list, and its length as the field n
tpack(args) ==
    [fields |-> FoldRight(LAMBDA i, t : [t EXCEPT ![i] = args[i]],
                          [i \in DOMAIN args |-> i], [i \in lua_Integer |-> Nil]),
     n |-> Len(args)]

\* n is the number of elements minus 1, as an unsigned integer.
tunpack(t, i, e) ==
    LET n == Unsigned(e - i)
    IN  IF i > e THEN Done(<<>>)
        ELSE IF n >= INT_MAX \/ n + 1 > LUAI_MAXSTACK THEN Wrong("too many results to unpack")
        ELSE Done([k \in 1..n + 1 |-> t[i + k - 1]])

-----------------------------------------------------------------------------
(* What the operations promise, for every argument.                        *)

\* Values that no field below has
New == 2^WIDTH
Other == 2^WIDTH + 1
Sep == 2^WIDTH + 2

\* A list of length n and other fields, all different
Fields(n) == [k \in lua_Integer |-> IF k = n + 1 THEN Nil ELSE k]

\* insert makes room for the new element in a list that can grow.
Inserts(n, pos) ==
    LET t == Fields(n)
        res == tinsert(t, n, 3, pos, New)
    IN  IF pos \notin 1..n + 1 THEN res.err # ""
        ELSE /\ res = Done([k \in lua_Integer |-> CASE k \in pos + 1..n + 1 -> t[k - 1]
                                                     [] k = pos -> New
                                                     [] OTHER -> t[k]])
             /\ pos = n + 1 => res = tinsert(t, n, 2, 0, New)

\* A list of the largest length cannot: the place behind it is the smallest integer, no
\* element is moved, and the new one replaces what was at its place.
Overwrites(pos) ==
    LET n == LUA_MAXINTEGER
        t == Fields(n)
        res == tinsert(t, n, 3, pos, New)
    IN  /\ tinsert(t, n, 2, 0, New) = Done([t EXCEPT ![LUA_MININTEGER] = New])
        /\ IF pos \in 1..n \cup {LUA_MININTEGER} THEN res = Done([t EXCEPT ![pos] = New])
           ELSE res.err # ""

\* remove closes the gap, for every length.  The place behind the longest list is again
\* the smallest integer, from which it moves every field.
Removes(n, pos) ==
    LET t == Fields(n)
        res == tremove(t, n, pos)
        last == IF pos < n THEN n ELSE pos
    IN  IF pos \notin 1..n \cup {n, Wrap(n + 1)} THEN res.err # ""
        ELSE res = [err |-> "", res |-> t[pos],
                    table |-> [k \in lua_Integer |-> CASE k \in pos..last - 1 -> t[k + 1]
                                                       [] k = last -> Nil
                                                       [] OTHER -> t[k]]]

\* table.move copies as if all at once, or raises an error when a place would be beyond
\* the largest integer.
Moves(f, e, t, same) ==
    LET t1 == Fields(LUA_MAXINTEGER)
        t2 == [k \in lua_Integer |-> Other]
        dest == IF same THEN t1 ELSE t2
        res == tmove(t1, f, e, t, t2, same)
        n == e - f + 1
    IN  IF e < f THEN res = Done(dest)
        ELSE IF n > LUA_MAXINTEGER \/ t + n - 1 > LUA_MAXINTEGER THEN res.err # ""
        ELSE res = Done([k \in lua_Integer |->
                           IF k \in t..t + n - 1 THEN t1[f + (k - t)] ELSE dest[k]])

\* unpack and concat see the same fields, also up to the largest integer, and unpack
\* undoes pack.
Unpacks(i, e) ==
    LET t == Fields(LUA_MAXINTEGER)
        res == tunpack(t, i, e)
        joined == tconcat(t, Sep, i, e)
    IN  /\ i <= e => tconcat([t EXCEPT ![e] = Nil], Sep, i, e).err # ""
        /\ joined.table = FlattenSeq([k \in 1..e - i + 1 |->
                             IF k = e - i + 1 THEN <<t[e]>> ELSE <<t[i + k - 1], Sep>>])
        /\ IF e - i + 1 > Min({INT_MAX, LUAI_MAXSTACK}) THEN res.err # ""
           ELSE /\ res.table = [k \in 1..e - i + 1 |-> t[i + k - 1]]
                /\ LET packed == tpack(res.table)
                   IN  tunpack(packed.fields, 1, packed.n) = res

=============================================================================
