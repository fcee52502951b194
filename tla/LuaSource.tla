----------------------------- MODULE LuaSource ------------------------------
(***************************************************************************)
(* What a Lua program means, from its abstract syntax: the reference for   *)
(* the compiler and the interpreter.  Variables are locations; a scope is  *)
(* a sequence of names with their locations; there are no registers,       *)
(* upvalues or jumps.  Operands are read from left to right, the table and *)
(* the key of an assigned variable before the values, and assignments are  *)
(* done from right to left.                                                *)
(*                                                                         *)
(* A state r has the world, the locations and the functions.               *)
(***************************************************************************)
EXTENDS LuaValues

Raises(r) == [r EXCEPT !.w = Raise(@)]
NewLoc(r, v) == [r EXCEPT !.loc = Append(@, v)]
Bind(env, name, loc) == Append(env, [name |-> name, loc |-> loc])
Lookup(env, name) ==
    LET is == {i \in DOMAIN env : env[i].name = name} IN IF is = {} THEN 0 ELSE env[Max(is)].loc

\* Declares the names with the values that vs has for them, nil for the others.
RECURSIVE Declare(_, _, _, _)
Declare(r, env, names, vs) ==
    IF names = <<>> THEN [r |-> r, env |-> env]
    ELSE Declare(NewLoc(r, First(vs)), Bind(env, Head(names), Len(r.loc) + 1), Tail(names),
                 IF vs = <<>> THEN vs ELSE Tail(vs))

RECURSIVE Eval(_, _, _, _), EvalAll(_, _, _, _), Items(_, _, _, _, _, _), Call(_, _, _)
RECURSIVE Exec(_, _, _, _), From(_, _, _, _, _, _), While(_, _, _, _), NumFor(_, _, _, _, _)
RECURSIVE GenFor(_, _, _, _, _)

\* The values of an expression: several for calls and `...'.
Multiple(e) == e[1] \in {"call", "method", "vararg"}
One(r, v) == [r |-> r, vs |-> <<v>>]
World1(r, res) == One([r EXCEPT !.w = res.w], res.v)
Bool(b) == IF b THEN TrueV ELSE FalseV
Truth(r, res, positive) == One([r EXCEPT !.w = res.w], Bool(res.b = positive))

Eval1(r, env, va, e) == LET x == Eval(r, env, va, e) IN [r |-> x.r, v |-> First(x.vs)]

EvalAll(r, env, va, es) ==
    IF es = <<>> THEN [r |-> r, vs |-> <<>>]
    ELSE IF Len(es) = 1 /\ Multiple(es[1]) THEN Eval(r, env, va, es[1])
    ELSE LET x == Eval1(r, env, va, Head(es))
             rest == EvalAll(x.r, env, va, Tail(es))
         IN  [r |-> rest.r, vs |-> <<x.v>> \o rest.vs]

Arith(w, op, v1, v2) ==
    LET res == luaO_rawarith(op, v1, v2)
    IN  CASE DividesByZero(op, v1, v2) -> [w |-> Raise(w), v |-> NilV]
          [] ~DividesByZero(op, v1, v2) /\ res # {} -> [w |-> w, v |-> The(res)]
          [] OTHER -> luaT_trybinTM(w, op, v1, v2)

Binary(r, op, a, b) ==
    CASE op = "==" -> Truth(r, luaV_equalobj(r.w, a, b), TRUE)
      [] op = "~=" -> Truth(r, luaV_equalobj(r.w, a, b), FALSE)
      [] op \in {"<", "<="} -> Truth(r, Order(r.w, op, a, b), TRUE)
      [] op = ">" -> Truth(r, Order(r.w, "<", b, a), TRUE)
      [] op = ">=" -> Truth(r, Order(r.w, "<=", b, a), TRUE)
      [] OTHER -> World1(r, Arith(r.w, op, a, b))

\* A chain of concatenations is one operation on all its operands.
RECURSIVE Operands(_)
Operands(e) ==
    IF e[1] = "bin" THEN IF e[2] = ".." THEN <<e[3]>> \o Operands(e[4]) ELSE <<e>> ELSE <<e>>

EvalOperands(r, env, va, es) == EvalAll(r, env, va, [i \in DOMAIN es |-> <<"paren", es[i]>>])

Eval(r, env, va, e) ==
    LET k == e[1]
        x == Eval1(r, env, va, e[2])
        cat == EvalOperands(r, env, va, Operands(e))
        left == Eval1(r, env, va, e[3])
        right == Eval1(left.r, env, va, e[4])
        unary == Eval1(r, env, va, e[3])
        key == Eval1(x.r, env, va, e[3])
        args == EvalAll(x.r, env, va, e[3])
        self == Get(x.r.w, x.v, StrV(e[3]))
        margs == EvalAll([x.r EXCEPT !.w = self.w], env, va, e[4])
        tab == [r EXCEPT !.w = luaH_new(@)]
    IN  CASE k = "const" -> One(r, e[2])
          [] k = "vararg" -> [r |-> r, vs |-> va]
          [] k = "name" ->
                IF Lookup(env, e[2]) # 0 THEN One(r, r.loc[Lookup(env, e[2])])
                ELSE World1(r, Get(r.w, <<"tab", 1>>, StrV(e[2])))
          [] k = "paren" -> One(x.r, x.v)
          [] k = "index" -> World1(key.r, Get(key.r.w, x.v, key.v))
          [] k = "call" -> Call(args.r, x.v, args.vs)
          [] k = "method" -> Call(margs.r, self.v, <<x.v>> \o margs.vs)
          [] k = "function" ->
                One([r EXCEPT !.funs = Append(@, [env |-> env, params |-> e[2], dots |-> e[3],
                                                  body |-> e[4]])],
                    <<"fun", Len(r.funs) + 1>>)
          [] k = "table" ->
                One(Items(tab, env, va, e[2], <<"tab", Len(tab.w.tabs)>>, 0),
                    <<"tab", Len(tab.w.tabs)>>)
          [] k = "un" /\ e[2] = "not" -> One(unary.r, Bool(l_isfalse(unary.v)))
          [] k = "un" /\ e[2] = "len" -> World1(unary.r, luaV_objlen(unary.r.w, unary.v))
          [] k = "un" /\ e[2] \notin {"not", "len"} ->
                World1(unary.r, Arith(unary.r.w, e[2], unary.v,
                                      IF IsNumber(unary.v) THEN IntV(0) ELSE unary.v))
          [] k = "bin" /\ e[2] \in {"and", "or"} ->
                IF l_isfalse(left.v) = (e[2] = "and") THEN One(left.r, left.v)
                ELSE One(right.r, right.v)
          [] k = "bin" /\ e[2] = ".." -> World1(cat.r, luaV_concat(cat.r.w, cat.vs))
          [] OTHER -> Binary(right.r, e[2], left.v, right.v)

\* The items of a constructor, after n of the list.
RawSet(r, t, k, v) == [r EXCEPT !.w = Set(@, t, k, v)]
Items(r, env, va, is, t, n) ==
    LET i == Head(is)
        key == Eval1(r, env, va, i[2])
        val == Eval1(IF i[1] = "keyed" THEN key.r ELSE r, env, va, i[3])
        all == Eval(r, env, va, i[3])
        list(x, vs) == [x EXCEPT !.w.tabs[t[2]] =
                          FoldLeftDomain(LAMBDA h, j : luaH_set(h, IntV(n + j), vs[j]), @, vs)]
    IN  IF is = <<>> THEN r
        ELSE CASE i[1] = "keyed" -> Items(RawSet(val.r, t, key.v, val.v), env, va, Tail(is), t, n)
               [] i[1] = "item" /\ Len(is) = 1 -> list(all.r, all.vs)
               [] OTHER -> Items(list(val.r, <<val.v>>), env, va, Tail(is), t, n + 1)

-----------------------------------------------------------------------------
(* Statements.  The outcome `out' says how a statement ends: "next",       *)
(* "break", "goto" (with a label) or "return" (with values).               *)

Out(r, env, kind, label, vs) ==
    [r |-> r, env |-> env, out |-> IF r.w.err THEN "return" ELSE kind, label |-> label, vs |-> vs]
Normal(r, env) == Out(r, env, "next", "", <<>>)

\* Executes the block b from its i-th statement.  The scope had n0 names when the
\* block began, and labels before the position lo are not visible.
Declared(b, i) ==      \* names that the first i statements declare
    LET count(s) == CASE s[1] = "local" -> Len(s[2])
                      [] s[1] \in {"localfunction", "close"} -> 1
                      [] OTHER -> 0
    IN  FoldLeft(LAMBDA n, j : n + count(b[j]), 0, [j \in 1..i |-> j])
LabelAt(b, label, lo) ==
    {p \in DOMAIN b : p >= lo /\ b[p][1] = "label" /\ b[p][2] = label}

From(x, va, b, i, lo, n0) ==
    LET s == b[i]
        y == Exec(x.r, x.env, va, s)
        rest == From(y, va, b, i + 1, i + 1, n0)
        closed(r) == [r EXCEPT !.w = callclosemethod(@, y.r.loc[Len(y.r.loc)])]
        opened == s[1] = "close"
        z == IF opened THEN [rest EXCEPT !.r = closed(@)] ELSE y
        p == The(LabelAt(b, z.label, lo))
        known == n0 + Declared(b, p)
        env == IF Len(z.env) > known THEN SubSeq(z.env, 1, known) ELSE z.env
    IN  IF i > Len(b) \/ x.out # "next" THEN x
        ELSE CASE opened /\ ~CanClose(y.r.loc[Len(y.r.loc)]) -> Out(Raises(y.r), x.env, "return", "", <<>>)
               [] z.out = "next" /\ ~opened -> From(y, va, b, i + 1, lo, n0)
               [] z.out = "goto" /\ LabelAt(b, z.label, lo) # {} ->
                    From(Normal(z.r, env), va, b, p + 1, lo, n0)
               [] OTHER -> z

Block(r, env, va, b) ==
    [From(Normal(r, env), va, b, 1, 1, Len(env)) EXCEPT !.env = env]

\* Loops: what an iteration leaves to the loop.
Iteration(x) == IF x.out = "break" THEN [x EXCEPT !.out = "stop"] ELSE x

While(r, env, va, s) ==
    LET c == Eval1(r, env, va, s[2])
        x == Block(c.r, env, va, s[3])
    IN  CASE l_isfalse(c.v) \/ c.r.w.err -> Normal(c.r, env)
          [] ~(l_isfalse(c.v) \/ c.r.w.err) /\ x.out = "next" -> While(x.r, env, va, s)
          [] ~(l_isfalse(c.v) \/ c.r.w.err) /\ x.out = "break" -> Normal(x.r, env)
          [] OTHER -> x

\* The loop `repeat b until e' is `while true do b; <until e> end'.
RepeatBody(s) == Append(s[2], <<"until", s[3]>>)

NumFor(r, env, va, s, l) ==
    LET d == Declare(r, env, <<s[2]>>, <<l.index>>)
        x == Block(d.r, d.env, va, s[4])
    IN  IF l.skip THEN Normal(r, env)
        ELSE CASE x.out = "next" -> NumFor(x.r, env, va, s, forloop(l))
               [] x.out = "break" -> Normal(x.r, env)
               [] OTHER -> [x EXCEPT !.env = env]

\* st is the iterator, the state and the control variable.
GenFor(r, env, va, s, st) ==
    LET c == Call(r, st[1], <<st[2], st[3]>>)
        d == Declare(c.r, env, s[2], c.vs)
        x == Block(d.r, d.env, va, s[4])
    IN  IF First(c.vs) = NilV \/ c.r.w.err THEN Normal(c.r, env)
        ELSE CASE x.out = "next" -> GenFor(x.r, env, va, s, <<st[1], st[2], c.vs[1]>>)
               [] x.out = "break" -> Normal(x.r, env)
               [] OTHER -> [x EXCEPT !.env = env]

\* Assignment: the places, then the values, then the stores.
RECURSIVE Places(_, _, _, _), Stores(_, _, _)
Places(r, env, va, ts) ==
    LET t == Head(ts)
        x == Eval1(r, env, va, t[2])
        k == Eval1(x.r, env, va, t[3])
        here == CASE t[1] = "index" -> [r |-> k.r, p |-> <<x.v, k.v>>]
                  [] Lookup(env, t[2]) = 0 -> [r |-> r, p |-> <<<<"tab", 1>>, StrV(t[2])>>]
                  [] OTHER -> [r |-> r, p |-> <<IntV(Lookup(env, t[2]))>>]
        rest == Places(here.r, env, va, Tail(ts))
    IN  IF ts = <<>> THEN [r |-> r, ps |-> <<>>]
        ELSE [r |-> rest.r, ps |-> <<here.p>> \o rest.ps]
Stores(r, ps, vs) ==
    LET n == Len(ps)
        v == IF n <= Len(vs) THEN vs[n] ELSE NilV
        p == Last(ps)
    IN  IF ps = <<>> THEN r
        ELSE Stores(IF Len(p) = 1 THEN [r EXCEPT !.loc[p[1][2]] = v]
                    ELSE [r EXCEPT !.w = Set(@, p[1], p[2], v)], Front(ps), vs)

Exec(r, env, va, s) ==
    LET k == s[1]
        vs == EvalAll(r, env, va, s[3])
        d == Declare(vs.r, env, s[2], vs.vs)
        one == Eval1(r, env, va, s[2])
        all == Eval(r, env, va, s[2])
        places == Places(r, env, va, s[2])
        values == EvalAll(places.r, env, va, s[3])
        n == IF Len(s[3]) = 2 THEN Append(vs.vs, IntV(1)) ELSE vs.vs
        badloop == (\E j \in 1..3 : ~IsNumber(n[j])) \/ n[3] \in {IntV(0), Zero}
        c4 == IF Len(vs.vs) >= 4 THEN vs.vs[4] ELSE NilV
        st == [j \in 1..3 |-> IF j <= Len(vs.vs) THEN vs.vs[j] ELSE NilV]
        g == GenFor(vs.r, env, va, s, st)
        f == Eval1(Declare(r, env, <<s[2]>>, <<>>).r, Bind(env, s[2], Len(r.loc) + 1), va, s[3])
        ret == EvalAll(r, env, va, s[2])
        rb == Block(r, env, va, RepeatBody(s))
    IN  CASE k = "local" -> Normal(d.r, d.env)
          [] k = "close" -> LET x == Declare(one.r, env, <<s[3]>>, <<one.v>>) IN Normal(x.r, x.env)
          [] k = "localfunction" ->
                Normal([f.r EXCEPT !.loc[Len(r.loc) + 1] = f.v], Bind(env, s[2], Len(r.loc) + 1))
          [] k = "assign" -> Normal(Stores(values.r, places.ps, values.vs), env)
          [] k = "callstat" -> Normal(all.r, env)
          [] k = "do" -> [Block(r, env, va, s[2]) EXCEPT !.env = env]
          [] k = "while" -> While(r, env, va, s)
          [] k = "repeat" ->
                IF rb.out = "next" THEN Exec(rb.r, env, va, s)
                ELSE IF rb.out = "break" THEN Normal(rb.r, env) ELSE rb
          [] k = "until" -> IF l_isfalse(one.v) THEN Normal(one.r, env)
                            ELSE Out(one.r, env, "break", "", <<>>)
          [] k = "if" -> [Block(one.r, env, va, IF l_isfalse(one.v) THEN s[4] ELSE s[3])
                            EXCEPT !.env = env]
          [] k = "fornum" -> IF badloop THEN Out(Raises(vs.r), env, "return", "", <<>>)
                             ELSE NumFor(vs.r, env, va, s, forprep(n[1], n[2], n[3]))
          [] k = "forin" -> IF CanClose(c4) THEN [g EXCEPT !.r.w = callclosemethod(@, c4)]
                            ELSE Out(Raises(vs.r), env, "return", "", <<>>)
          [] k = "return" -> Out(ret.r, env, "return", "", ret.vs)
          [] k = "break" -> Out(r, env, "break", "", <<>>)
          [] k = "goto" -> Out(r, env, "goto", s[2], <<>>)
          [] OTHER -> Normal(r, env)

Call(r, fn, args) ==
    LET f == r.funs[fn[2]]
        d == Declare(r, f.env, f.params, args)
        extra == SubSeq(args, Len(f.params) + 1, Len(args))
        x == Block(d.r, d.env, IF f.dots THEN extra ELSE <<>>, f.body)
        ext == CallExternal(r.w, fn, args)
    IN  IF fn[1] = "fun" THEN [r |-> x.r, vs |-> IF x.out = "return" THEN x.vs ELSE <<>>]
        ELSE [r |-> [r EXCEPT !.w = ext.w], vs |-> ext.vs]

\* The meaning of the program b with the arguments args.
Meaning(b, w, args) ==
    Call([w |-> w, loc |-> <<>>,
          funs |-> <<[env |-> <<>>, params |-> <<>>, dots |-> TRUE, body |-> b]>>],
         <<"fun", 1>>, args)

-----------------------------------------------------------------------------
(* The tokens of a program, with only the parentheses that it needs.       *)

T(t) == <<[t |-> t, v |-> ""]>>
Name(x) == <<[t |-> "name", v |-> x]>>

Level(op) ==
    CASE op = "or" -> 1 [] op = "and" -> 2
      [] op \in {"<", ">", "<=", ">=", "~=", "=="} -> 3
      [] op = "|" -> 4 [] op = "xor" -> 5 [] op = "&" -> 6 [] op \in {"<<", ">>"} -> 7
      [] op = ".." -> 8 [] op \in {"+", "-"} -> 9 [] op \in {"*", "/", "//", "%"} -> 10
LevelOf(e) == CASE e[1] = "bin" -> Level(e[2]) [] e[1] = "un" -> 11 [] OTHER -> 13

RECURSIVE Toks(_), ListToks(_), NameToks(_), BlockToks(_), ItemToks(_)
Paren(e, need) == IF need THEN T("(") \o Toks(e) \o T(")") ELSE Toks(e)
Rest(s, sep, toks) == IF Len(s) > 1 THEN T(sep) \o toks ELSE <<>>
ListToks(es) == IF es = <<>> THEN <<>> ELSE Toks(Head(es)) \o Rest(es, ",", ListToks(Tail(es)))
NameToks(xs) == IF xs = <<>> THEN <<>> ELSE Name(Head(xs)) \o Rest(xs, ",", NameToks(Tail(xs)))
BodyToks(params, dots, b) ==
    T("(") \o NameToks(params)
      \o (IF dots /\ params # <<>> THEN T(",") ELSE <<>>) \o (IF dots THEN T("...") ELSE <<>>)
      \o T(")") \o BlockToks(b) \o T("end")
ItemToks(is) ==
    LET i == Head(is)
        key == IF i[1] = "keyed" THEN T("[") \o Toks(i[2]) \o T("]") \o T("=") ELSE <<>>
    IN  IF is = <<>> THEN <<>> ELSE key \o Toks(i[3]) \o Rest(is, ",", ItemToks(Tail(is)))

ConstToks(v) ==
    CASE v[1] = "int" -> <<[t |-> "int", v |-> v[2]]>>
      [] v[1] = "flt" -> <<[t |-> "flt", v |-> v]>>
      [] v[1] = "str" -> <<[t |-> "string", v |-> v[2]]>>
      [] OTHER -> T(v[1])

Toks(e) ==
    LET k == e[1]
        l == Level(e[2])
        right == e[2] = ".."
        sym == CASE e[2] = "unm" -> "-" [] e[2] = "bnot" -> "~" [] e[2] = "len" -> "#"
                 [] OTHER -> "not"
    IN  CASE k = "const" -> ConstToks(e[2])
          [] k = "vararg" -> T("...")
          [] k = "name" -> Name(e[2])
          [] k = "paren" -> T("(") \o Toks(e[2]) \o T(")")
          [] k = "index" -> IF e[3][1] = "const" /\ e[3][2][1] = "str"
                            THEN Toks(e[2]) \o T(".") \o Name(e[3][2][2])
                            ELSE Toks(e[2]) \o T("[") \o Toks(e[3]) \o T("]")
          [] k = "call" -> Toks(e[2]) \o T("(") \o ListToks(e[3]) \o T(")")
          [] k = "method" -> Toks(e[2]) \o T(":") \o Name(e[3]) \o T("(") \o ListToks(e[4]) \o T(")")
          [] k = "function" -> T("function") \o BodyToks(e[2], e[3], e[4])
          [] k = "table" -> T("{") \o ItemToks(e[2]) \o T("}")
          [] k = "un" -> T(sym) \o Paren(e[3], LevelOf(e[3]) < 11)
          [] k = "bin" ->
                Paren(e[3], LevelOf(e[3]) < l \/ (LevelOf(e[3]) = l /\ right))
                  \o T(IF e[2] = "xor" THEN "~" ELSE e[2])
                  \o Paren(e[4], LevelOf(e[4]) < l \/ (LevelOf(e[4]) = l /\ ~right))

StatToks(s) ==
    LET k == s[1]
    IN  CASE k = "local" -> T("local") \o NameToks(s[2])
                              \o (IF s[3] = <<>> THEN <<>> ELSE T("=") \o ListToks(s[3]))
          [] k = "close" -> T("local") \o Name(s[3]) \o T("<") \o Name("close") \o T(">")
                              \o T("=") \o Toks(s[2])
          [] k = "localfunction" ->
                T("local") \o T("function") \o Name(s[2]) \o BodyToks(s[3][2], s[3][3], s[3][4])
          [] k = "assign" -> ListToks(s[2]) \o T("=") \o ListToks(s[3])
          [] k = "callstat" -> Toks(s[2])
          [] k = "do" -> T("do") \o BlockToks(s[2]) \o T("end")
          [] k = "while" -> T("while") \o Toks(s[2]) \o T("do") \o BlockToks(s[3]) \o T("end")
          [] k = "repeat" -> T("repeat") \o BlockToks(s[2]) \o T("until") \o Toks(s[3])
          [] k = "if" -> T("if") \o Toks(s[2]) \o T("then") \o BlockToks(s[3])
                           \o (IF s[4] = <<>> THEN <<>> ELSE T("else") \o BlockToks(s[4])) \o T("end")
          [] k = "fornum" -> T("for") \o Name(s[2]) \o T("=") \o ListToks(s[3]) \o T("do")
                               \o BlockToks(s[4]) \o T("end")
          [] k = "forin" -> T("for") \o NameToks(s[2]) \o T("in") \o ListToks(s[3]) \o T("do")
                              \o BlockToks(s[4]) \o T("end")
          [] k = "return" -> T("return") \o ListToks(s[2])
          [] k = "break" -> T("break")
          [] k = "goto" -> T("goto") \o Name(s[2])
          [] OTHER -> T("::") \o Name(s[2]) \o T("::")
BlockToks(b) == IF b = <<>> THEN <<>> ELSE StatToks(Head(b)) \o Rest(b, ";", BlockToks(Tail(b)))
Source(b) == BlockToks(b) \o T("eos")

=============================================================================
