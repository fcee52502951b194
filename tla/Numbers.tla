------------------------------ MODULE Numbers -------------------------------
(***************************************************************************)
(* The numbers of Lua and what lvm.c and lobject.c do with them.  Integers *)
(* have BITS bits and wrap around; floats are multiples of one half with   *)
(* a mantissa of NBM bits, so that most integers have no exact float, and  *)
(* results are rounded to the nearest float (to even).  A number is a      *)
(* tuple: <<"int", n>>, <<"flt", h>> for the float h / 2, or <<"nan">>.    *)
(* Negative zero is left out.                                              *)
(***************************************************************************)
EXTENDS Integers, Sequences, Bitwise

CONSTANTS
    BITS,         \* width of a lua_Integer
    NBM           \* width of the mantissa of a lua_Number

LUA_MAXINTEGER == 2^(BITS - 1) - 1
LUA_MININTEGER == -(2^(BITS - 1))
HUGE == 2^(BITS + 3)                  \* infinity, in halves

\* l_castU2S and l_castS2U.
Wrap(n) == ((n + 2^(BITS - 1)) % 2^BITS) - 2^(BITS - 1)
U(n) == n % 2^BITS

IntV(n) == <<"int", n>>
StrV(s) == <<"str", s>>
NilV == <<"nil">>
TrueV == <<"true">>
FalseV == <<"false">>
NaN == <<"nan">>
IsInt(v) == v[1] = "int"
IsFloat(v) == v[1] \in {"flt", "nan"}
IsNumber(v) == v[1] \in {"int", "flt", "nan"}

Abs(n) == IF n < 0 THEN -n ELSE n
\* C's division truncates.
CDiv(m, n) == IF (m < 0) = (n < 0) THEN Abs(m) \div Abs(n) ELSE -(Abs(m) \div Abs(n))
CMod(m, n) == m - n * CDiv(m, n)

\* The float nearest to h / 2.
Unit(h) == CHOOSE u \in {2^i : i \in 0..BITS + 4} :
              /\ Abs(h) < u * 2^NBM
              /\ u = 1 \/ Abs(h) >= (u \div 2) * 2^NBM
Nearest(h) ==
    LET u == Unit(h)
        down == (h \div u) * u
        twice == 2 * (h - down)
    IN  IF twice < u \/ (twice = u /\ (down \div u) % 2 = 0) THEN down ELSE down + u
FltV(h) == <<"flt", IF h >= HUGE THEN HUGE ELSE IF h <= -HUGE THEN -HUGE ELSE Nearest(h)>>

\* cast_num, and tonumberns: the float of a number.
ToNumber(v) == IF IsInt(v) THEN FltV(2 * v[2]) ELSE v

-----------------------------------------------------------------------------
(* Conversions to integers: the set of results, empty if there is none.    *)

Rounded(h, mode) ==
    IF h % 2 = 0 THEN {h \div 2}
    ELSE CASE mode = "eq" -> {}
           [] mode = "floor" -> {h \div 2}
           [] mode = "ceil" -> {(h \div 2) + 1}

luaV_flttointeger(f, mode) ==
    IF f = NaN THEN {}
    ELSE {n \in Rounded(f[2], mode) : LUA_MININTEGER <= n /\ n <= LUA_MAXINTEGER}

luaV_tointegerns(v, mode) ==
    CASE IsFloat(v) -> luaV_flttointeger(v, mode)
      [] IsInt(v) -> {v[2]}
      [] OTHER -> {}

The(s) == CHOOSE x \in s : TRUE

-----------------------------------------------------------------------------
(* Comparisons.                                                            *)

\* luai_numlt and luai_numle: false for NaN.
NumLT(f, g) == f # NaN /\ g # NaN /\ f[2] < g[2]
NumLE(f, g) == f # NaN /\ g # NaN /\ f[2] <= g[2]
Zero == <<"flt", 0>>

\* MAXINTFITSF is 2^NBM; the sum is unsigned.
l_intfitsf(i) == U(2^NBM + U(i)) <= 2 * 2^NBM
AlwaysFits(i) == TRUE                                        \* variant

Fits(i) == l_intfitsf(i)

LTintfloat(i, f) ==
    LET fi == luaV_flttointeger(f, "ceil")
    IN  CASE Fits(i) -> NumLT(ToNumber(IntV(i)), f)
          [] ~Fits(i) /\ fi # {} -> i < The(fi)
          [] OTHER -> NumLT(Zero, f)

LEintfloat(i, f) ==
    LET fi == luaV_flttointeger(f, "floor")
    IN  CASE Fits(i) -> NumLE(ToNumber(IntV(i)), f)
          [] ~Fits(i) /\ fi # {} -> i <= The(fi)
          [] OTHER -> NumLT(Zero, f)

LTfloatint(f, i) ==
    LET fi == luaV_flttointeger(f, "floor")
    IN  CASE Fits(i) -> NumLT(f, ToNumber(IntV(i)))
          [] ~Fits(i) /\ fi # {} -> The(fi) < i
          [] OTHER -> NumLT(f, Zero)

LEfloatint(f, i) ==
    LET fi == luaV_flttointeger(f, "ceil")
    IN  CASE Fits(i) -> NumLE(f, ToNumber(IntV(i)))
          [] ~Fits(i) /\ fi # {} -> The(fi) <= i
          [] OTHER -> NumLT(f, Zero)

LTnum(l, r) ==
    CASE IsInt(l) /\ IsInt(r) -> l[2] < r[2]
      [] IsInt(l) /\ IsFloat(r) -> LTintfloat(l[2], r)
      [] IsFloat(l) /\ IsFloat(r) -> NumLT(l, r)
      [] IsFloat(l) /\ IsInt(r) -> LTfloatint(l, r[2])

LEnum(l, r) ==
    CASE IsInt(l) /\ IsInt(r) -> l[2] <= r[2]
      [] IsInt(l) /\ IsFloat(r) -> LEintfloat(l[2], r)
      [] IsFloat(l) /\ IsFloat(r) -> NumLE(l, r)
      [] IsFloat(l) /\ IsInt(r) -> LEfloatint(l, r[2])

\* luaV_equalobj, for numbers.
EQnum(l, r) ==
    IF IsInt(l) = IsInt(r) THEN l = r /\ l # NaN
    ELSE luaV_tointegerns(l, "eq") \cap luaV_tointegerns(r, "eq") # {}

-----------------------------------------------------------------------------
(* Arithmetic.                                                             *)

luaV_idiv(m, n) ==
    IF n = -1 THEN Wrap(-m)
    ELSE CDiv(m, n) - (IF (m < 0) # (n < 0) /\ CMod(m, n) # 0 THEN 1 ELSE 0)

luaV_mod(m, n) ==
    LET r == CMod(m, n)
    IN  IF n = -1 THEN 0 ELSE IF r # 0 /\ (r < 0) # (n < 0) THEN r + n ELSE r

luaV_shiftl(x, y) ==
    CASE y <= -BITS \/ y >= BITS -> 0
      [] -BITS < y /\ y < 0 -> Wrap(U(x) \div 2^(-y))
      [] OTHER -> Wrap(U(x) * 2^y)

intarith(op, a, b) ==
    CASE op = "+" -> Wrap(a + b)
      [] op = "-" -> Wrap(a - b)
      [] op = "*" -> Wrap(a * b)
      [] op = "%" -> luaV_mod(a, b)
      [] op = "//" -> luaV_idiv(a, b)
      [] op = "&" -> Wrap(U(a) & U(b))
      [] op = "|" -> Wrap(U(a) | U(b))
      [] op = "xor" -> Wrap(U(a) ^^ U(b))
      [] op = "<<" -> luaV_shiftl(a, b)
      [] op = ">>" -> luaV_shiftl(a, -b)
      [] op = "unm" -> Wrap(-a)
      [] op = "bnot" -> Wrap(-a - 1)

\* Halves are kept by + and -; a quotient or product is rounded to halves.
FloorDiv(m, n) == IF n < 0 THEN (-m) \div (-n) ELSE m \div n
Infinite(a) == Abs(a) = HUGE
WithSign(a, b) == IF (a < 0) = (b < 0) THEN HUGE ELSE -HUGE

\* The operations where a or b is infinite.
infarith(op, a, b) ==
    LET sum(c) == IF Infinite(a) /\ Infinite(c) /\ a # c THEN NaN
                  ELSE FltV(IF Infinite(a) THEN a ELSE c)
    IN  CASE op = "+" -> sum(b)
          [] op = "-" -> sum(-b)
          [] op = "unm" -> FltV(-a)
          [] op = "*" -> IF 0 \in {a, b} THEN NaN ELSE FltV(WithSign(a, b))
          [] op = "%" -> IF Infinite(a) THEN NaN
                         ELSE FltV(IF a = 0 \/ (a < 0) = (b < 0) THEN a ELSE b)
          [] Infinite(a) -> IF Infinite(b) THEN NaN ELSE FltV(WithSign(a, b))
          [] op = "/" -> Zero
          [] op = "//" -> FltV(IF a # 0 /\ (a < 0) # (b < 0) THEN -2 ELSE 0)

numarith(op, f, g) ==
    IF f = NaN \/ g = NaN THEN NaN
    ELSE LET a == f[2]
             b == g[2]
         IN  CASE Infinite(a) \/ Infinite(b) -> infarith(op, a, b)
               [] op = "+" -> FltV(a + b)
               [] op = "-" -> FltV(a - b)
               [] op = "*" -> FltV((a * b) \div 2)
               [] op = "unm" -> FltV(-a)
               [] op = "%" /\ b = 0 -> NaN
               [] op \in {"/", "//"} /\ b = 0 -> IF a = 0 THEN NaN ELSE FltV(WithSign(a, b))
               [] op = "/" -> FltV(FloorDiv(2 * a, b))
               [] op = "//" -> FltV(2 * FloorDiv(a, b))
               [] op = "%" -> FltV(a - b * FloorDiv(a, b))

BitOps == {"&", "|", "xor", "<<", ">>", "bnot"}
FloatOps == {"/"}

\* luaO_rawarith: the set of results, empty if it fails.  Dividing an integer by
\* zero raises an error before there is a result.
luaO_rawarith(op, v, w) ==
    LET i == luaV_tointegerns(v, "eq")
        j == luaV_tointegerns(w, "eq")
    IN  CASE ~IsNumber(v) \/ ~IsNumber(w) -> {}
          [] op \in BitOps ->
                IF i # {} /\ j # {} THEN {IntV(intarith(op, The(i), The(j)))} ELSE {}
          [] op \notin BitOps \cup FloatOps /\ IsInt(v) /\ IsInt(w) ->
                {IntV(intarith(op, v[2], w[2]))}
          [] OTHER -> {numarith(op, ToNumber(v), ToNumber(w))}

DividesByZero(op, v, w) == op \in {"//", "%"} /\ IsInt(v) /\ w = IntV(0)

-----------------------------------------------------------------------------
(* The numerical loop.                                                     *)

\* forlimit: [skip, limit].  The code also accepts a string that is a numeral, which is no
\* value here: luaV_tointeger and tonumber only see numbers.
forlimit(init, lim, step) ==
    LET p == luaV_tointegerns(lim, IF step < 0 THEN "ceil" ELSE "floor")
        runs(limit) == [skip |-> IF step > 0 THEN init > limit ELSE init < limit,
                        limit |-> limit]
        never == [skip |-> TRUE, limit |-> 0]
    IN  CASE p # {} -> runs(The(p))
          [] p = {} /\ NumLT(Zero, lim) ->
                IF step < 0 THEN never ELSE runs(LUA_MAXINTEGER)
          [] OTHER -> IF step > 0 THEN never ELSE runs(LUA_MININTEGER)

\* The loop counter: how many times the loop is repeated after the first one.
LoopCount(init, limit, step) ==
    IF step > 0 THEN U(U(limit) - U(init)) \div U(step)
    ELSE U(U(init) - U(limit)) \div U(U(-(step + 1)) + 1)

\* forprep: the loop's state [skip, index, count or limit, step, isint]; an error
\* if the step is zero.
forprep(init, lim, step) ==
    IF IsInt(init) /\ IsInt(step)
    THEN LET l == forlimit(init[2], lim, step[2])
         IN  [skip |-> l.skip, index |-> init, step |-> step, isint |-> TRUE,
              rest |-> IF l.skip THEN init ELSE IntV(LoopCount(init[2], l.limit, step[2]))]
    ELSE LET i == ToNumber(init)
             n == ToNumber(lim)
             s == ToNumber(step)
         IN  [skip |-> IF NumLT(Zero, s) THEN NumLT(n, i) ELSE NumLT(i, n),
              index |-> i, step |-> s, isint |-> FALSE, rest |-> n]

\* OP_FORLOOP and floatforloop.
forloop(l) ==
    IF l.isint
    THEN IF l.rest[2] = 0 THEN [l EXCEPT !.skip = TRUE]
         ELSE [l EXCEPT !.rest = IntV(l.rest[2] - 1),
                        !.index = IntV(Wrap(l.index[2] + l.step[2]))]
    ELSE LET idx == numarith("+", l.index, l.step)
         IN  IF IF NumLT(Zero, l.step) THEN NumLE(idx, l.rest) ELSE NumLE(l.rest, idx)
             THEN [l EXCEPT !.index = idx] ELSE [l EXCEPT !.skip = TRUE]

\* The values of the control variable, at most max of them.
RECURSIVE LoopValues(_, _)
LoopValues(l, max) ==
    IF l.skip \/ max = 0 THEN <<>>
    ELSE <<l.index>> \o LoopValues(forloop(l), max - 1)

=============================================================================
