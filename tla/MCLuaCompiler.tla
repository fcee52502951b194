---------------------------- MODULE MCLuaCompiler ---------------------------
(***************************************************************************)
(* Programs made from a few shapes.  Each is written as tokens, compiled   *)
(* by the parser and the code generator, executed by the interpreter, and  *)
(* compared with its meaning.  A case is a shape and the parts it has.     *)
(***************************************************************************)
EXTENDS Parser, LuaVM, LuaSource

CONSTANTS
    Shapes,       \* the shapes of the programs
    MaxSteps      \* bound: how often a call or a loop returns to an instruction
VARIABLES case, done
vars == <<case, done>>

Num(n) == <<"const", IntV(n)>>
Flt(h) == <<"const", FltV(h)>>
Str(s) == <<"const", StrV(s)>>
N(x) == <<"name", x>>
CallOf(f, args) == <<"call", N(f), args>>
Fn(b) == <<"function", <<>>, FALSE, b>>
Bin(op, a, b) == <<"bin", op, a, b>>
Do(e) == <<"callstat", e>>
Field(t, s) == <<"index", t, Str(s)>>

\* The globals: external functions and an object.
Globals ==
    LET names == {"f", "z", "c", "it", "o"}
    IN  [vals |-> [k \in {StrV(s) : s \in names} |->
                     IF k = StrV("o") THEN <<"obj", 0>> ELSE <<"ext", k[2]>>],
         meta |-> NilV]
World == [log |-> <<>>, err |-> FALSE, calls |-> [c |-> 0, it |-> 0], tabs |-> <<Globals>>]
Args == <<IntV(8), IntV(9)>>

Leaf(l) ==
    CASE l = "1" -> Num(1) [] l = "-2" -> Num(-2) [] l = "20" -> Num(20) [] l = "21" -> Num(21)
      [] l = "2.0" -> Flt(4) [] l = "0.5" -> Flt(1)
      [] l = "nil" -> <<"const", NilV>> [] l = "true" -> <<"const", TrueV>>
      [] l = "s" -> Str("s")
      [] l = "x" -> N("x") [] l = "n" -> N("n") [] l = "o" -> N("o")
      [] l = "x.a" -> Field(N("x"), "a") [] l = "x[n]" -> <<"index", N("x"), N("n")>>
      [] l = "f()" -> CallOf("f", <<>>) [] l = "..." -> <<"vararg">>
      [] l = "not x" -> <<"un", "not", N("x")>> [] l = "-n" -> <<"un", "unm", N("n")>>
      [] l = "not n" -> <<"un", "not", N("n")>>

Prefix == << <<"local", <<"x", "n">>, <<N("o"), Num(3)>> >> >>

Tree(left, op1, op2, a, b, c) ==
    IF left THEN Bin(op2, Bin(op1, a, b), c) ELSE Bin(op1, a, Bin(op2, b, c))

InContext(ctx, e) ==
    CASE ctx = "return" -> << <<"return", <<e>> >> >>
      [] ctx = "local" -> << <<"local", <<"y", "w">>, <<Num(7), e>> >>, <<"return", <<N("w"), N("y")>> >> >>
      [] ctx = "if" -> << <<"if", e, <<Do(CallOf("f", <<Num(1)>>))>>, <<Do(CallOf("f", <<Num(2)>>))>> >> >>
      [] ctx = "not" -> << <<"return", << <<"un", "not", e>> >> >> >>
      [] ctx = "arg" -> << Do(CallOf("f", <<Num(7), e, <<"vararg">> >>)) >>
      [] ctx = "store" -> << <<"assign", <<Field(N("x"), "a")>>, <<e>> >> >>
      [] ctx = "assign" -> << <<"assign", <<N("x")>>, <<e>> >>, <<"return", <<N("x")>> >> >>
      [] ctx = "repeat" -> << <<"repeat", <<Do(CallOf("z", <<>>))>>, Bin("or", e, Bin("==", CallOf("c", <<>>), <<"const", FalseV>>))>> >>

Leaves == {"1", "-2", "20", "2.0", "0.5", "nil", "true", "s", "x", "n", "x.a", "x[n]", "f()", "...",
           "not x", "not n", "-n"}
Operators == {"+", "-", "*", "/", "%", "&", "|", "<<", ">>", "==", "~=", "<", "<=", ">", "..", "and", "or"}
Contexts == {"return", "local", "if", "not", "arg", "store", "assign", "repeat"}
FewLeaves == {"1", "20", "s", "x", "f()"}
FewOperators == {"-", "&", "<<", "==", "<", "..", "and", "or"}

BinCases == {<<"bin", op, a, b, ctx>> : op \in Operators, a \in Leaves, b \in Leaves, ctx \in Contexts}
\* A numeral whose constant is too far for an operand, and an operand with jumps:
\* put in a register in code that some of the jumps skip.
LateConstant(t) == ~t[2] /\ t[3] = "&" /\ t[4] \in {"==", "<", "and", "or"} /\ t[5] \in {"1", "20"}
TreeCases ==
    {t \in {<<"tree", left, op1, op2, a, b, c, ctx>> :
               left \in BOOLEAN, op1 \in FewOperators, op2 \in FewOperators,
               a \in FewLeaves, b \in FewLeaves, c \in FewLeaves, ctx \in {"return", "if"}} :
       ~LateConstant(t)}

\* Two assignments at once: i = local number, t = local object, u = upvalue of the
\* function that runs them, g = global.
Place(p) ==
    CASE p \in {"i", "t", "u", "g"} -> N(p)
      [] p = "t[i]" -> <<"index", N("t"), N("i")>>
      [] p = "u[i]" -> <<"index", N("u"), N("i")>>
      [] p = "t.a" -> Field(N("t"), "a")
      [] p = "u.a" -> Field(N("u"), "a")
      [] p = "t[2]" -> <<"index", N("t"), Num(2)>>
      [] p = "g.a" -> Field(N("g"), "a")
      [] p = "f().a" -> Field(CallOf("f", <<>>), "a")
Value(v) ==
    CASE v = "20" -> Num(20) [] v = "nil" -> <<"const", NilV>> [] v = "f()" -> CallOf("f", <<>>)
      [] v = "{}" -> <<"table", <<>> >>
      [] v = "x<1" -> Bin("<", N("x"), Num(1))
      [] OTHER -> Place(v)
Targets == {"i", "t", "u", "g", "t[i]", "u[i]", "t.a", "u.a", "t[2]", "g.a", "f().a"}
Values == {"20", "nil", "f()", "{}", "x<1", "i", "t", "u", "g"}
AssignCases ==
    {<<"assign", p, q, <<v>> >> : p \in Targets, q \in Targets, v \in Values}
    \cup {<<"assign", p, q, <<v, w>> >> : p \in Targets, q \in Targets, v \in Values, w \in Values}
AssignProgram(p, q, vs) ==
    << <<"local", <<"u">>, <<CallOf("f", <<>>)>> >>,
       <<"localfunction", "h",
         Fn(<< <<"local", <<"t", "i", "x">>, <<N("o"), Num(3), N("o")>> >>,
               <<"assign", <<Place(p), Place(q)>>, [j \in DOMAIN vs |-> Value(vs[j])]>>,
               Do(CallOf("f", <<N("t"), N("i"), N("u"), N("g")>>)) >>)>>,
       Do(CallOf("h", <<>>)), <<"return", <<N("u")>> >> >>

\* Blocks in a loop, with captured and to-be-closed variables, that are left early.
Shares(v, g) ==     \* the global g becomes a function that reads and sets v
    << <<"assign", <<N(g)>>, << Fn(<< <<"assign", <<N(v)>>, <<CallOf("f", <<N(v)>>)>> >>,
                                     <<"return", <<N(v)>> >> >>) >> >> >>
Jump(j) ==
    CASE j = "break" -> << <<"break">> >>
      [] j = "return" -> << <<"return", <<N("a"), CallOf("f", <<>>)>> >> >>
      [] j = "tail" -> << <<"return", <<CallOf("f", <<N("a")>>)>> >> >>
      [] j = "continue" -> << <<"goto", "continue">> >>
      [] j = "out" -> << <<"goto", "out">> >>
      [] j = "again" -> << <<"goto", "again">> >>
      [] j = "none" -> << Do(CallOf("f", <<N("a")>>)) >>
Closed(on) == IF on THEN << <<"close", N("o"), "d">> >> ELSE <<>>
If(e, b) == << <<"if", e, b, <<>> >> >>
Once == CallOf("c", <<>>)

\* A block b says which loop it is in, which block is inside, how that is left, which
\* variables are captured and to be closed, and what function this is in.
InBlock(b) ==
    << <<"local", <<"b">>, <<CallOf("f", <<>>)>> >> >>
    \o (CASE b.captured \in {"inner", "both"} -> Shares("b", "g2")
          [] b.captured = "deep" -> Shares("a", "g2")
          [] OTHER -> <<>>)
    \o Closed(b.closed = "inner") \o If(Once, Jump(b.jump)) \o << Do(CallOf("f", <<N("b")>>)) >>
InnerBlock(b) ==
    CASE b.block = "plain" -> InBlock(b)
      [] b.block = "do" -> << <<"do", InBlock(b)>> >>
      [] b.block = "fornum" -> << <<"fornum", "j", <<Num(1), Num(2)>>, InBlock(b)>> >>
      [] b.block = "while" -> << <<"while", Once, InBlock(b)>> >>
      [] b.block = "if" -> If(Once, Jump(b.jump))
Body(b) ==
    << <<"label", "again">>, <<"local", <<"a">>, <<CallOf("f", <<>>)>> >> >>
    \o (IF b.captured \in {"outer", "both"} THEN Shares("a", "g") ELSE <<>>)
    \o Closed(b.closed = "outer") \o InnerBlock(b) \o << <<"label", "continue">> >>
NextOne == CallOf("it", <<>>)
Generic(names, b) == <<"forin", names, <<N("it"), Num(1), <<"const", NilV>>, N("o")>>, b>>
LoopOf(b) ==
    CASE b.loop = "while" -> <<"while", NextOne, Body(b)>>
      [] b.loop = "repeat" ->
           <<"repeat", Body(b), Bin("and", CallOf("f", <<N("a")>>), <<"un", "not", NextOne>>)>>
      [] b.loop = "fornum" -> <<"fornum", "i", <<Num(5), Num(1), Num(-2)>>, Body(b)>>
      [] b.loop = "forin" -> <<"forin", <<"k", "v">>, <<N("it"), Num(1)>>, Body(b)>>
      [] b.loop = "forin4" -> Generic(<<"k">>, Body(b))
      [] b.loop = "capture" -> Generic(<<"k", "v">>, Shares("k", "g") \o Body(b))
\* After the loop its registers are used again, and the functions it left are called.
After ==
    LET calls(g, es) == <<"if", N(g), <<Do(CallOf("f", es))>>, <<>> >>
    IN  << <<"label", "out">>,
           <<"do", << <<"local", <<"p", "q", "r", "s">>, <<Num(1), Num(2), Num(3), Num(4)>> >>,
                      Do(CallOf("f", <<N("p")>>)),
                      calls("g", <<CallOf("g", <<>>), CallOf("g", <<>>)>>),
                      calls("g2", <<CallOf("g2", <<>>)>>) >> >> >>
BlockProgram(b) ==
    IF b.where = "main" THEN <<LoopOf(b)>> \o After
    ELSE << <<"localfunction", "h",
              <<"function", <<"y">>, b.where = "vararg", <<LoopOf(b), <<"label", "out">> >> >> >>,
            Do(CallOf("f", <<CallOf("h", <<Num(5), Num(6)>>)>>)) >> \o After

Blocks ==
    [loop : {"while", "repeat", "fornum", "forin", "forin4", "capture"},
     block : {"plain", "do", "fornum", "while", "if"},
     jump : {"break", "return", "tail", "continue", "out", "again", "none"},
     captured : {"none", "outer", "inner", "both", "deep"},
     where : {"main", "function", "vararg"}, closed : {"none", "inner", "outer"}]
\* The ways out of a generic loop that do not close the value that it has to close when it
\* ends: a `break' from the scope of another variable that is to be closed or captured, and
\* a tail call that is in the scope of no other variable to be closed.
LeavesOpen(b) ==
    LET inside == b.block # "if"
        closes == b.closed = "outer" \/ (inside /\ b.closed = "inner")
        needs == closes \/ b.captured \in {"outer", "both"} \/ (inside /\ b.captured # "none")
    IN  /\ b.loop \in {"forin4", "capture"}
        /\ \/ b.jump = "break" /\ b.where = "main" /\ b.block \in {"plain", "do", "if"} /\ (b.loop = "capture" \/ needs)
           \/ b.jump = "tail" /\ ~closes
BlockCases(open) == {<<"block", b>> : b \in {c \in Blocks : LeavesOpen(c) = open}}

\* Lists of expressions.
Item(i) ==
    CASE i = "20" -> <<"item", "", Num(20)>> [] i = "nil" -> <<"item", "", <<"const", NilV>> >>
      [] i = "f()" -> <<"item", "", CallOf("f", <<>>)>>
      [] i = "z()" -> <<"item", "", CallOf("z", <<>>)>>
      [] i = "..." -> <<"item", "", <<"vararg">> >>
      [] i = "(...)" -> <<"item", "", <<"paren", <<"vararg">> >> >>
      [] i = "a=" -> <<"keyed", Str("a"), CallOf("f", <<>>)>>
      [] i = "[x]=" -> <<"keyed", N("x"), Num(1)>>
      [] i = "fn" -> <<"item", "", Fn(<< <<"return", <<N("x"), N("n")>> >> >>)>>
ListItems == {"20", "nil", "f()", "z()", "...", "(...)", "fn"}
KeyedItems == {"a=", "[x]="}
Lists(items) == UNION {[1..n -> items] : n \in 0..3}
ListCases ==
    {<<"list", "table", is>> : is \in Lists(ListItems \cup KeyedItems)}
    \cup {<<"list", ctx, is>> : ctx \in {"call", "local", "return", "lua", "tail"}, is \in Lists(ListItems)}
ListProgram(ctx, is) ==
    LET exps == [j \in DOMAIN is |-> Item(is[j])[3]]
        dots == << <<"vararg">> >>
        pair == CallOf("f", <<N("w"), N("y")>>)
    IN  Prefix \o
        CASE ctx = "table" -> << <<"local", <<"t">>, << <<"table", [j \in DOMAIN is |-> Item(is[j])]>> >> >>,
                                 <<"return", <<N("t"), <<"index", N("t"), Num(2)>> >> >> >>
          [] ctx = "call" -> << Do(CallOf("f", exps)), <<"return", << <<"method", N("x"), "m", exps>> >> >> >>
          [] ctx = "local" -> << <<"local", <<"p", "q", "r">>, exps>>, <<"return", <<N("r"), N("q"), N("p")>> >> >>
          [] ctx = "return" -> << <<"return", exps>> >>
          [] ctx = "lua" -> << <<"localfunction", "h", <<"function", <<"y", "w">>, TRUE, << <<"return", dots>> >> >> >>,
                               <<"return", <<CallOf("h", exps), CallOf("h", exps)>> >> >>
          [] ctx = "tail" -> << <<"localfunction", "h", <<"function", <<"y", "w">>, FALSE, << <<"return", <<pair>> >> >> >> >>,
                                <<"return", <<CallOf("h", exps)>> >> >>

-----------------------------------------------------------------------------
Program(c) ==
    CASE c[1] = "bin" -> Prefix \o InContext(c[5], Bin(c[2], Leaf(c[3]), Leaf(c[4])))
      [] c[1] = "tree" -> Prefix \o InContext(c[8], Tree(c[2], c[3], c[4], Leaf(c[5]), Leaf(c[6]), Leaf(c[7])))
      [] c[1] = "assign" -> AssignProgram(c[2], c[3], c[4])
      [] c[1] = "block" -> BlockProgram(c[2])
      [] c[1] = "list" -> ListProgram(c[2], c[3])

Init ==
    /\ done = FALSE
    /\ \/ "bin" \in Shapes /\ case \in BinCases
       \/ "tree" \in Shapes /\ case \in TreeCases
       \/ "assign" \in Shapes /\ case \in AssignCases
       \/ "block" \in Shapes /\ case \in BlockCases(FALSE)
       \/ "leave" \in Shapes /\ case \in BlockCases(TRUE)
       \/ "list" \in Shapes /\ case \in ListCases
Run == ~done /\ done' = TRUE /\ UNCHANGED case
Next == Run
Spec == Init /\ [][Next]_vars

\* The program b is compiled without an error, its code ends, and the external calls with
\* their arguments, the contents of tables, an error and the results are those of b.
Behaves(b) ==
    LET c == luaY_parser(Source(b))
        m == luaV_execute(Loaded(Proto(c), World, Args), MaxSteps)
        x == Meaning(b, World, Args)
    IN  /\ c.ok /\ c.err = "" /\ Halted(m)
        /\ m.w.err = x.r.w.err /\ m.w.log = x.r.w.log /\ m.w.tabs = x.r.w.tabs
        /\ m.w.err \/ Results(m) = x.vs
\* Whatever registers, jumps, constants and scopes the parser and the code generator choose
\* (lparser.c, lcode.c), the interpreter does with the code what the program means (lvm.c).
CompiledBehaves ==
    [][done' => Behaves(Program(case))]_vars
=============================================================================
