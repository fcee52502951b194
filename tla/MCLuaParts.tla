------------------------------ MODULE MCLuaParts ----------------------------
(***************************************************************************)
(* Sequential parts that share no state, side by side: tables, the string  *)
(* table, the binding of compiled modules, table.sort, line information,   *)
(* and operations that have no state of their own: on numbers, patterns,   *)
(* lists, source texts, UTF-8, packed values and precompiled chunks.  A    *)
(* behavior has the steps of one `part'; the others stay as they begin.    *)
(***************************************************************************)
EXTENDS Table, AotBinding, Quicksort, StringTable, LineInfo, TLC

CONSTANTS
    kA, kB, kObj, kFlt, anyValue,            \* keys and a value of tables
    memMsg, sC, sD,                          \* contents of strings: kA and kB too
    MaxProtos,                               \* bound: functions of a module
    BITS, NBM,                               \* widths of integers and mantissas
    LUA_MAXCAPTURES, MAXCCALLS,              \* patterns
    WIDTH, INT_MAX, LUAI_MAXSTACK,           \* lists
    PAYLOAD, SIZE_MAX,                       \* sizes in chunks
    CONT, MAXUNICODE, MAXINTEGER             \* sizes in texts

VARIABLES
    case,                                                    \* an operation
    part

tableVars == vars
allVars == <<tableVars, stringVars, bindingVars, sortVars, lineVars, case, part>>

-----------------------------------------------------------------------------
(* Instances of the constants.                                             *)

\* Keys with their hashes (the address, for objects) and sizes for lua_createtable.
KeyHash == (kA :> 1) @@ (kB :> 0) @@ (kObj :> 1)
Of(keys, asize, hsize) == [keys |-> keys, asize |-> asize, hsize |-> hsize, hash |-> KeyHash]
MCFloats == [k \in {kFlt} |-> 1]
MCInstances == {Of({1, 2, 3, 4}, 4, 1), Of({1, 2, 4, 7}, 0, 4), Of({kFlt, 2, kA, kObj}, 0, 0),
                Of({1, 2, 3, kA}, 0, 0), Of({3, kA, kB, kObj}, 0, 0)}

\* Contents that meet in one chain of a small table and part in a larger one.
ContentHash == (memMsg :> 0) @@ (kA :> 9) @@ (kB :> 12) @@ (sC :> 5) @@ (sD :> 11)

\* Every ordered tree of at most MaxProtos prototypes.
Parents(n) == {p \in [2..n -> 1..n] : \A i \in 2..n : p[i] < i}
Children(p, n, i) == SetToSortSeq({j \in 2..n : p[j] = i}, LAMBDA j, k : j < k)
MCTrees == UNION {{[i \in 1..n |-> Children(p, n, i)] : p \in Parents(n)} : n \in 1..MaxProtos}

\* Arrays to sort; the larger ones may get a random pivot.
MCArrays == UNION {[1..n -> 1..3] : n \in 0..5} \cup [1..8 -> 1..2]
MCAnyArray == [k \in 1..6 |-> k]

M == INSTANCE Numbers
ASSUME SortAssumption == SortConstants
P == INSTANCE PatternWays
T == INSTANCE TableLib WITH Nil <- Nothing
C == INSTANCE Chunks WITH LUA_SIGNATURE <- <<6, 1, 2>>
CTypes == [char |-> 1, short |-> 1, int |-> 2, long |-> 2, lua_Integer |-> 2, size_t |-> 2,
           float |-> 2, double |-> 4, lua_Number |-> 4]
\* A lua_Number has a bit for its sign and 7 for its magnitude, the last byte first, and a
\* float the first 3 of these, rounded to the nearest or even.
Bits(bytes) == FoldLeftDomain(LAMBDA r, i : r + bytes[i] * 4^(i - 1), 0, bytes)
BytesOf(u, size) == [i \in 1..size |-> (u \div 4^(i - 1)) % 4]
Rounded(mag) ==
    LET down == mag \div 16
    IN  IF mag % 16 > 8 \/ (mag % 16 = 8 /\ down % 2 = 1) THEN Min({down + 1, 7}) ELSE down
MCToFloat == [x \in [1..4 -> 0..3] |->
                LET u == Bits(x) IN BytesOf(Rounded(u % 128) + 8 * (u \div 128), 2)]
MCFromFloat == [f \in [1..2 -> 0..3] |->
                  LET u == Bits(f) IN BytesOf(16 * (u % 8) + 128 * (u \div 8), 4)]
ASSUME FloatAssumption == \A f \in DOMAIN MCFromFloat : MCToFloat[MCFromFloat[f]] = f
K == INSTANCE Packing WITH NB <- 2, SZINT <- 2, MAXINTSIZE <- 4, MAXALIGN <- 4, MAXSIZE <- 127,
                           sizeof <- CTypes, tofloat <- MCToFloat, fromfloat <- MCFromFloat,
                           nativelittle <- TRUE
L == INSTANCE Lexemes WITH Surrogates <- 26..31, FAIL <- Nothing, ERROR <- Start,
                           Reserved <- {<<"i", "f">>}

-----------------------------------------------------------------------------
(* Operations without a state: each is a case.                             *)

\* Numbers: a comparison, or a loop
Ints == {M!IntV(n) : n \in M!LUA_MININTEGER..M!LUA_MAXINTEGER}
Flts == {M!FltV(h) : h \in -(2^(BITS + 1))..2^(BITS + 1)}
        \cup {<<"flt", M!HUGE>>, <<"flt", -M!HUGE>>, M!NaN}
Nums == Ints \cup Flts
Steps == {n \in Ints : n[2] # 0}
NumberCases ==
    {<<"compare", l, r>> : l \in Nums, r \in Nums}
    \cup {<<"for", n, l, s>> : n \in Ints, l \in Nums, s \in Steps}

\* Patterns: any three items of those below, or a capture of two with an item after it
Subjects == {<<>>, <<"a">>, <<"a", "b">>, <<"a", "a", "b">>, <<"b", "a", "b", "a">>}
SomeItems == {P!Literal("a"), P!Class({"a"}, "?"), P!Class({"a"}, "*"),
              P!Class({"a", "b"}, "+"), P!Class({"a", "b"}, "-"), P!Balance("a", "b"),
              P!Frontier({"a"}), P!Back(1), P!Open, P!Close, P!Dollar, P!Malformed}
SomePatterns ==
    UNION {[1..n -> SomeItems] : n \in 0..3}
    \cup {<<P!Open>> \o two \o <<P!Close, i>> :
             two \in [1..2 -> SomeItems], i \in {P!Back(1), P!Dollar, P!Literal("b")}}
PatternCases == {<<"pattern", s, items>> : s \in Subjects, items \in SomePatterns}

\* Lists
ListCases == {<<"list", i, j, k>> : i \in T!lua_Integer, j \in T!lua_Integer, k \in T!lua_Integer}

\* Chunks: a function without others, and one with functions of two sources, how it is
\* dumped, and where its stream is cut
Fun(source, protos) ==
    [source |-> source, linedefined |-> 0, lastlinedefined |-> 9, numparams |-> 1,
     is_vararg |-> 0, maxstacksize |-> 2, code |-> <<5, 6>>,
     k |-> <<[tt |-> C!LUA_VTRUE, v |-> <<>>], [tt |-> C!LUA_VNUMINT, v |-> 3],
             [tt |-> C!LUA_VSHRSTR, v |-> <<7>>], [tt |-> C!LUA_VLNGSTR, v |-> <<>>]>>,
     upvalues |-> <<[instack |-> 1, idx |-> 0, kind |-> 0, name |-> <<<<5>>>>]>>,
     p |-> protos, lineinfo |-> <<1, 2>>, abslineinfo |-> <<[pc |-> 1, line |-> 21]>>,
     locvars |-> <<[varname |-> <<<<5, 5>>>>, startpc |-> 0, endpc |-> 2]>>]
Source1 == <<<<3>>>>
Source2 == <<<<2, 3>>>>
Funs == {Fun(Source1, <<>>),
         Fun(Source1, <<Fun(Source1, <<>>), Fun(Source2, <<Fun(Source2, <<>>)>>)>>)}
ChunkCases == {<<"chunk", g, strip, n>> : g \in Funs, strip \in BOOLEAN, n \in 0..200}
              \cup {<<"size", n>> : n \in 0..INT_MAX}

\* Formats: an option or two, or some with a maximum alignment or another order before them
Options == {<<"b">>, <<"B">>, <<"j">>, <<"J">>, <<"i", "1">>, <<"i", "3">>, <<"i", "4">>, <<"I">>,
            <<"I", "3">>, <<"f">>, <<"n">>, <<"d">>, <<"c", "0">>, <<"c", "2">>, <<"c">>, <<"s", "1">>,
            <<"s">>, <<"z">>, <<"x">>, <<"X">>, <<"<">>, <<">">>, <<"=">>, <<" ">>, <<"!">>,
            <<"!", "2">>, <<"!", "3">>, <<"i", "5">>, <<"i", "0">>, <<"y">>,
            <<"c", "1", "1", "9">>, <<"c", "1", "2", "9">>}
SomeOptions == {<<"b">>, <<"I">>, <<"i", "3">>, <<"i", "4">>, <<"f">>, <<"d">>, <<"c", "2">>, <<"s">>,
                <<"z">>, <<"x">>, <<"X">>, <<">">>}
Formats ==
    Options \cup {l \o r : l \in Options, r \in Options}
    \cup {l \o e \o r : l \in {<<"!">>, <<"!", "2">>, <<"!", "3">>, <<">">>},
                        e \in SomeOptions, r \in SomeOptions}
    \cup {<<"!">> \o l \o e \o r : l \in SomeOptions, e \in SomeOptions, r \in SomeOptions}
FormatCases == {<<"format", fmt>> : fmt \in Formats}
\* Arguments for an option, and for several
ArgsFor(opt) ==
    CASE opt.opt \in {"Kint", "Kuint"} -> {-8, -2, 1, 7}
      [] opt.opt \in {"Kfloat", "Knumber", "Kdouble"} -> {<<0, 0, 1, 2>>, <<1, 2, 3, 0>>, <<0, 2, 3, 1>>}
      [] OTHER -> {<<>>, <<1>>, <<3, 0>>, <<3, 1, 2, 1>>}
ArgsOf(opts) ==
    FoldLeft(LAMBDA all, opt : {Append(args, v) : args \in all, v \in ArgsFor(opt)}, {<<>>}, opts)

\* Texts: comments and long strings, lines, strings and their escapes, numerals, symbols
\* and words; texts to convert to a number; and strings of bytes
UpTo(n, set) == UNION {[1..k -> set] : k \in 0..n}
Texts ==
    UpTo(5, {"[", "]", "=", "\n", "a"}) \cup UpTo(5, {"\n", "\r", "-", "a", "="})
    \cup {<<"-", "-", "[">> \o s : s \in UpTo(4, {"[", "]", "=", "\n", "a"})}
    \cup {<<"\"">> \o s \o <<"\"", "'">> : s \in UpTo(4, {"\\", "\n", "\r", "z", " ", "\""})}
    \cup {<<"'", "\\">> \o s \o <<"'">> : s \in UpTo(4, {"1", "2", "a", "\\", "x", "f"})}
    \cup {<<"'", "\\", "u">> \o s \o <<"'">> : s \in UpTo(5, {"{", "}", "0", "1", "f"})}
    \cup UpTo(4, {"0", "x", "e", ".", "+", "p"}) \cup UpTo(4, {"1", "3", ".", "e", "a", "x"})
    \cup UpTo(3, {"<", ">", "=", "/", "~", ":", "."}) \cup UpTo(4, {"i", "f", "1", "_", " "})
Leading == {0, 5, 16, 17, 22, 24, 25, 26, 27, 28, 29, 30, 31}
ByteStrings == UpTo(2, 0..31) \cup [1..3 -> Leading] \cup [1..4 -> {5, 17, 24, 26, 29}]
TextCases ==
    {<<"text", s>> : s \in Texts} \cup {<<"bytes", s>> : s \in ByteStrings}
    \cup {<<"numeral", s>> : s \in UpTo(4, {" ", "-", "1", "3", "2", "0", "x", "n"})}

NoCase == <<"none">>
Cases == NumberCases \cup PatternCases \cup ListCases \cup ChunkCases \cup FormatCases \cup TextCases

\* Twice the value of a number, which is an integer.
Twice(v) == IF v[1] = "int" THEN 2 * v[2] ELSE v[2]

-----------------------------------------------------------------------------
PartsInit ==
    /\ part \in {"table", "strings", "module", "sort", "lines", "operation"}
    /\ Init /\ StringInit /\ BindingInit /\ SortInit /\ LineInit
    /\ part # "table" => inst = CHOOSE i \in Instances : TRUE
    /\ part # "module" => tree = CHOOSE r \in MCTrees : TRUE
    /\ part # "sort" => order = "any"
    /\ case \in IF part = "operation" THEN Cases ELSE {NoCase}

TableStep == part = "table" /\ Next /\ UNCHANGED <<stringVars, bindingVars, sortVars, lineVars>>
StringStep == part = "strings" /\ StringNext /\ UNCHANGED <<tableVars, bindingVars, sortVars, lineVars>>
ModuleStep == part = "module" /\ BindingNext /\ UNCHANGED <<tableVars, stringVars, sortVars, lineVars>>
SortStep == part = "sort" /\ SortNext /\ UNCHANGED <<tableVars, stringVars, bindingVars, lineVars>>
LineStep == part = "lines" /\ LineNext /\ UNCHANGED <<tableVars, stringVars, bindingVars, sortVars>>
Operate ==
    /\ case # NoCase /\ case' = NoCase
    /\ UNCHANGED <<tableVars, stringVars, bindingVars, sortVars, lineVars>>

PartsNext ==
    \/ TableStep /\ UNCHANGED <<case, part>>
    \/ StringStep /\ UNCHANGED <<case, part>>
    \/ ModuleStep /\ UNCHANGED <<case, part>>
    \/ SortStep /\ UNCHANGED <<case, part>>
    \/ LineStep /\ UNCHANGED <<case, part>>
    \/ Operate /\ UNCHANGED part

PartsSpec == PartsInit /\ [][PartsNext]_allVars

-----------------------------------------------------------------------------
(* Properties.                                                             *)

\* Integers and floats are compared by their mathematical values, although a float may
\* not represent an integer nor an integer a float (lvm.c LTintfloat and the others).
ComparesExactly(l, r) ==
    LET ordered == l # M!NaN /\ r # M!NaN
    IN  /\ M!LTnum(l, r) = (ordered /\ Twice(l) < Twice(r))
        /\ M!LEnum(l, r) = (ordered /\ Twice(l) <= Twice(r))
        /\ M!EQnum(l, r) = (ordered /\ Twice(l) = Twice(r))

\* A `for' loop over integers runs for the values from its first one that its limit, an
\* integer or a float, allows, and never wraps around (lvm.c forprep, forlimit).  With
\* a NaN as its limit, a loop that goes up does not run.
Allows(limit, step, n) ==
    limit # M!NaN /\ IF step > 0 THEN 2 * n <= Twice(limit) ELSE 2 * n >= Twice(limit)
CountsExactly(first, limit, step) ==
    LET nth(k) == first + (k - 1) * step
        runs == {k \in 1..2^BITS : nth(k) \in M!LUA_MININTEGER..M!LUA_MAXINTEGER
                                   /\ Allows(limit, step, nth(k))}
    IN  M!LoopValues(M!forprep(M!IntV(first), limit, M!IntV(step)), 2^BITS + 1)
          = [k \in 1..Cardinality(runs) |-> M!IntV(nth(k))]

\* Numbers are compared by their values, and loops over integers run for the values that
\* their limits allow.
NumbersAreExact ==
    [][/\ case[1] = "compare" => ComparesExactly(case[2], case[3])
       /\ case[1] = "for" /\ (case[3] = M!NaN => case[4][2] > 0)
            => CountsExactly(case[2][2], case[3], case[4][2])]_case

\* A pattern matches in the first way that its items allow, with the captures of that way,
\* however many others were tried before and undone; the functions of the library find the
\* first place with a match, and gmatch and gsub each match once (lstrlib.c match,
\* start_capture, end_capture, max_expand, str_find_aux, gmatch_aux, str_gsub).
PatternsMatch ==
    [][case[1] = "pattern" =>
         /\ \A s \in 0..Len(case[2]) : P!IsFirstWay(case[2], case[3], s)
         /\ P!FindsFirst(case[2], case[3])
         /\ P!EveryMatchOnce(case[2], case[3])]_case

\* table.move copies overlapping ranges as if all at once, or fails where a place would be
\* beyond the largest integer; unpack and concat see the fields up to it; insert and remove
\* move what is after their place, in lists of every length but one: insert wraps around at
\* the length LUA_MAXINTEGER, where it overwrites an element and moves none (ltablib.c
\* tmove, tinsert, tremove, tconcat, tunpack, tpack).
ListsAreKept ==
    [][case[1] = "list" =>
         /\ T!Moves(case[2], case[3], case[4], TRUE)
         /\ T!Moves(case[2], case[3], case[4], FALSE)
         /\ case[2] >= 0 => T!Removes(case[2], case[3])
         /\ case[2] \in 0..T!LUA_MAXINTEGER - 1 => T!Inserts(case[2], case[3])
         /\ case[2] = T!LUA_MAXINTEGER => T!Overwrites(case[3])
         /\ T!Unpacks(case[2], case[3])]_case

\* Loading what was dumped gives the same function, and loading a part of it is an error
\* (ldump.c luaU_dump; lundump.c luaU_undump; lzio.c luaZ_read).  Unpacking what was packed
\* gives the same values, with every size, byte order and alignment, except that a number
\* packed as a float of C (`f') is rounded to one (lstrlib.c str_pack, str_unpack,
\* str_packsize).
WrittenIsRead ==
    [][/\ case[1] = "chunk" => C!LoadUndoesDump(case[2], case[3], case[4])
       /\ case[1] = "size" => C!SizesAreKept(case[2], INT_MAX)
       /\ case[1] = "format" => K!PacksFormat(case[2], ArgsOf)
       /\ case = <<"format", <<" ">>>> => K!IntegersArePacked /\ K!Aligns]_case

\* The scanner finds the tokens of a text, their values and the lines where they end, also
\* when the parser looks ahead, when the line of the token before, `lastline', is already
\* that of the token looked at; strings are converted to numbers like numerals, whatever
\* the size of the number; the UTF-8 that escapes write is what the library reads; in any
\* bytes, len and codepoint find the characters up to the first malformed one, and codes
\* those that begin at its starts, passing over continuation bytes that no character
\* claims; in a text that is well formed offset finds the same ones (llex.c llex, luaX_next,
\* luaX_lookahead; lobject.c luaO_str2num, luaO_utf8esc; lutf8lib.c utf8_decode, utflen,
\* codepoint, utfchar, byteoffset, iter_aux).
TextIsRead ==
    [][/\ case[1] = "text" => L!ReadsText(case[2])
       /\ case[1] = "numeral" => L!ConvertsNumeral(case[2])
       /\ case[1] = "bytes" => /\ \A lax \in BOOLEAN :
                                     L!ReadsCharacters(case[2], lax) /\ L!VisitsCharacters(case[2], lax)
                               /\ L!EncodesAll]_case

=============================================================================
