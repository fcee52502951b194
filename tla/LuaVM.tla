------------------------------- MODULE LuaVM --------------------------------
(***************************************************************************)
(* The interpreter (lvm.c), with the parts of ldo.c, ltm.c and lfunc.c     *)
(* that move values in the stack, on the functions that CodeGen produces.  *)
(* The generated code of luaot.c executes the same cases.  Hooks, yields   *)
(* and the reallocation of the stack are left out.                         *)
(*                                                                         *)
(* A machine M has a world, a stack, the upvalues (`at' is the slot of an  *)
(* open one, 0 after it is closed), the slots of the pending to-be-closed  *)
(* variables, Lua functions, and the frames of active ones.                *)
(***************************************************************************)
EXTENDS CodeGen

CONSTANT StackSize            \* bound: slots of the stack

Junk == <<"junk">>            \* what a register has before it is set

F(M) == Last(M.frames)
P(M) == M.funs[F(M).fid].p
RA(M, r) == F(M).func + 1 + r
R(M, r) == M.stk[RA(M, r)]
K(M, n) == P(M).k[n]
SetS(M, slot, v) == [M EXCEPT !.stk[slot] = v]
SetR(M, r, v) == SetS(M, RA(M, r), v)
SetW(M, w) == [M EXCEPT !.w = w]
\* The register r gets the result [w, v] of an operation.
Into(M, r, res) == SetR(SetW(M, res.w), r, res.v)
Goto(M, pc) == [M EXCEPT !.frames[Len(M.frames)].pc = pc]
Next1(M) == Goto(M, F(M).pc + 1)
Next2(M) == Goto(M, F(M).pc + 2)
Fails(M) == SetW(M, Raise(M.w))

\* The operand C of an instruction whose k says that it is a constant.
RKC(M, i) == IF i.k THEN K(M, i.c) ELSE R(M, i.c)

\* docondjump: the next instruction is a jump.
CondJump(M, i, cond) ==
    IF cond # i.k THEN Next2(M) ELSE Goto(M, P(M).code[F(M).pc + 1].b)

-----------------------------------------------------------------------------
(* Upvalues and to-be-closed variables (lfunc.c).                          *)

Cell(M, u) == M.cells[M.funs[F(M).fid].ups[u]]
GetUp(M, u) == IF Cell(M, u).at # 0 THEN M.stk[Cell(M, u).at] ELSE Cell(M, u).v
SetUp(M, u, v) ==
    IF Cell(M, u).at # 0 THEN SetS(M, Cell(M, u).at, v)
    ELSE [M EXCEPT !.cells[M.funs[F(M).fid].ups[u]].v = v]

FindUp(M, slot) == {c \in DOMAIN M.cells : M.cells[c].at = slot}
luaF_findupval(M, slot) ==
    IF FindUp(M, slot) # {} THEN M
    ELSE [M EXCEPT !.cells = Append(@, [at |-> slot, v |-> NilV])]

luaF_closeupval(M, level) ==
    [M EXCEPT !.cells = [c \in DOMAIN @ |-> IF @[c].at >= level
                                            THEN [at |-> 0, v |-> M.stk[@[c].at]] ELSE @[c]]]

RECURSIVE luaF_close(_, _)
luaF_close(M, level) ==
    LET c == luaF_closeupval(M, level)
    IN  IF M.tbc = <<>> THEN c
        ELSE IF Last(M.tbc) < level THEN c
        ELSE luaF_close([SetW(c, callclosemethod(c.w, M.stk[Last(M.tbc)]))
                           EXCEPT !.tbc = Front(@)], level)

luaF_newtbcupval(M, slot) ==
    CASE l_isfalse(M.stk[slot]) -> M
      [] CanClose(M.stk[slot]) /\ ~l_isfalse(M.stk[slot]) -> [M EXCEPT !.tbc = Append(@, slot)]
      [] OTHER -> Fails(M)

\* pushclosure, for the n-th function inside the running one.
RECURSIVE OpenAll(_, _)
OpenAll(M, ups) ==
    IF ups = <<>> THEN M
    ELSE OpenAll(IF Head(ups).instack THEN luaF_findupval(M, RA(M, Head(ups).idx)) ELSE M,
                 Tail(ups))
pushclosure(M, ra, n) ==
    LET p == P(M).protos[n]
        o == OpenAll(M, p.ups)
        up(u) == IF p.ups[u].instack THEN The(FindUp(o, RA(M, p.ups[u].idx)))
                 ELSE M.funs[F(M).fid].ups[p.ups[u].idx]
    IN  SetR([o EXCEPT !.funs = Append(@, [p |-> p, ups |-> [u \in DOMAIN p.ups |-> up(u)]])],
             ra, <<"fun", Len(o.funs) + 1>>)

-----------------------------------------------------------------------------
(* Calls and returns (ldo.c).                                              *)

\* moveresults: n results that begin at `first' go to `res'.
moveresults(M, res, first, n, wanted) ==
    LET count == IF wanted = LUA_MULTRET THEN n ELSE wanted
    IN  [M EXCEPT !.stk = [s \in DOMAIN @ |->
                             CASE s < res \/ s >= res + count -> @[s]
                               [] res <= s /\ s < res + count /\ s - res < n -> @[first + s - res]
                               [] OTHER -> NilV],
                  !.top = res + count]
luaD_poscall(M, func, first, n) ==
    moveresults([M EXCEPT !.frames = Front(@)], func, first, n, F(M).nresults)

\* The frame of the Lua function at func, its arguments up to the top.
Enter(M, func, nresults) ==
    LET fid == M.stk[func][2]
        p == M.funs[fid].p
        args == M.top - func - 1
        params == IF p.is_vararg /\ args > p.numparams THEN args ELSE p.numparams
    IN  [M EXCEPT !.stk = [s \in DOMAIN @ |->
                             CASE s > func /\ s <= func + params ->
                                    IF s < M.top THEN @[s] ELSE NilV
                               [] s > func + params /\ s <= func + p.maxstack -> Junk
                               [] OTHER -> @[s]],
                  !.top = func + 1 + (IF args > p.numparams THEN args ELSE p.numparams),
                  !.frames = Append(@, [fid |-> fid, func |-> func, pc |-> 1,
                                        nresults |-> nresults, nextra |-> 0])]

luaD_precall(M, func, nresults) ==
    LET r == CallExternal(M.w, M.stk[func], SubSeq(M.stk, func + 1, M.top - 1))
        n == Len(r.vs)
        pushed == [SetW(M, r.w) EXCEPT !.stk = [s \in DOMAIN @ |->
                     IF s >= M.top /\ s < M.top + n THEN r.vs[s - M.top + 1] ELSE @[s]]]
    IN  IF M.stk[func][1] = "fun" THEN Enter(M, func, nresults)
        ELSE moveresults(pushed, func, M.top, n, nresults)

luaT_adjustvarargs(M, nfix) ==
    LET f == F(M)
        func == M.top
    IN  [M EXCEPT !.stk = [s \in DOMAIN @ |->
                             CASE s = func -> @[f.func]
                               [] s > f.func /\ s <= f.func + nfix -> NilV
                               [] s > func /\ s <= func + nfix -> @[f.func + s - func]
                               [] s > func + nfix /\ s <= func + P(M).maxstack -> Junk
                               [] OTHER -> @[s]],
                  !.top = func + nfix + 1,
                  !.frames[Len(M.frames)].func = func,
                  !.frames[Len(M.frames)].nextra = func - f.func - 1 - nfix]

luaT_getvarargs(M, ra, wanted) ==
    LET n == F(M).nextra
        count == IF wanted < 0 THEN n ELSE wanted
        first == RA(M, ra)
    IN  [M EXCEPT !.stk = [s \in DOMAIN @ |->
                             CASE s < first \/ s >= first + count -> @[s]
                               [] s >= first /\ s < first + count /\ s - first < n ->
                                    @[F(M).func - n + s - first]
                               [] OTHER -> NilV],
                  !.top = IF wanted < 0 THEN first + n ELSE @]

\* The slot of the function as its caller sees it; c is numparams + 1 in vararg
\* functions.
RealFunc(M, c) == F(M).func - (IF c = 0 THEN 0 ELSE F(M).nextra + c)

OP_CALL(M, i) ==
    luaD_precall(Next1(IF i.b = 0 THEN M ELSE [M EXCEPT !.top = RA(M, i.a) + i.b]),
                 RA(M, i.a), i.c - 1)

OP_TAILCALL(M0, i) ==
    LET ra == RA(M0, i.a)
        t == IF i.b = 0 THEN M0 ELSE [M0 EXCEPT !.top = ra + i.b]
        M == IF i.k THEN luaF_closeupval(t, RA(M0, 0)) ELSE t
        func == RealFunc(M, i.c)
        ext == luaD_precall(M, ra, LUA_MULTRET)
        moved == [M EXCEPT !.stk = [s \in DOMAIN @ |->
                                      IF s >= func /\ s < func + M.top - ra THEN @[ra + s - func]
                                      ELSE @[s]],
                           !.top = func + M.top - ra, !.frames = Front(@)]
    IN  IF M.stk[ra][1] = "fun" THEN Enter(moved, func, F(M).nresults)
        ELSE luaD_poscall(ext, func, ra, ext.top - ra)

OP_RETURN(M, i) ==
    LET n == IF i.b = 0 THEN M.top - RA(M, i.a) ELSE i.b - 1
        closed == IF i.k THEN luaF_close(M, RA(M, 0)) ELSE M
    IN  luaD_poscall(closed, RealFunc(M, i.c), RA(M, i.a), n)

-----------------------------------------------------------------------------
(* Arithmetic and comparisons.                                             *)

\* op_arith and its variants, for the operands v1 and v2: the next instruction,
\* which calls the metamethod, is skipped if they are numbers.
op_arith(M, i, v1, v2) ==
    LET res == luaO_rawarith(i.op2, v1, v2)
    IN  CASE DividesByZero(i.op2, v1, v2) -> Fails(M)
          [] ~DividesByZero(i.op2, v1, v2) /\ res # {} -> Next2(SetR(M, i.a, The(res)))
          [] OTHER -> Next1(M)
OP_ARITHI(M, i) ==
    IF i.op2 = "<<" THEN op_arith(M, i, IntV(i.c), R(M, i.b))
    ELSE op_arith(M, i, R(M, i.b), IntV(i.c))
OP_MMBIN(M, i, v2) ==
    Next1(Into(M, P(M).code[F(M).pc - 1].a,
               luaT_trybinassocTM(M.w, i.op2, R(M, i.a), v2, i.k)))

OP_UNARY(M, i) ==
    LET v == R(M, i.b)
        res == luaO_rawarith(i.op2, v, IF i.op2 = "bnot" THEN IntV(0) ELSE v)
    IN  Next1(CASE i.op2 = "len" -> Into(M, i.a, luaV_objlen(M.w, v))
                [] i.op2 # "len" /\ res # {} -> SetR(M, i.a, The(res))
                [] OTHER -> Into(M, i.a, luaT_trybinTM(M.w, i.op2, v, v)))

\* A conditional jump on the result [w, b].
Test(M, i, res) == CondJump(SetW(M, res.w), i, res.b)

op_orderI(M, i) ==
    LET v == R(M, i.a)
        flip == i.op2 \in {">", ">="}
        event == IF i.op2 \in {"<", ">"} THEN "<" ELSE "<="
        num == IF flip THEN Order(M.w, event, IntV(i.b), v) ELSE Order(M.w, event, v, IntV(i.b))
    IN  Test(M, i, IF IsNumber(v) THEN num
                   ELSE luaT_callorderiTM(M.w, event, v, i.b, flip, i.c = 1))

-----------------------------------------------------------------------------
(* Loops.                                                                  *)

\* No string of a program is a numeral, which the code would convert.
IsZero(v) == v \in {IntV(0), Zero}
OP_FORPREP(M, i) ==
    LET l == forprep(R(M, i.a), R(M, i.a + 1), R(M, i.a + 2))
        set == SetR(SetR(SetR(M, i.a, l.index), i.a + 1, l.rest), i.a + 2, l.step)
    IN  IF \/ \E r \in i.a..i.a + 2 : ~IsNumber(R(M, r))
           \/ IsZero(R(M, i.a + 2))
        THEN Fails(M)
        ELSE IF l.skip THEN Goto(M, i.b + 1) ELSE Next1(SetR(set, i.a + 3, l.index))
OP_FORLOOP(M, i) ==
    LET l == forloop([skip |-> FALSE, index |-> R(M, i.a), rest |-> R(M, i.a + 1),
                      step |-> R(M, i.a + 2), isint |-> IsInt(R(M, i.a + 2))])
    IN  IF l.skip THEN Next1(M)
        ELSE Goto(SetR(SetR(SetR(M, i.a, l.index), i.a + 1, l.rest), i.a + 3, l.index), i.b)

\* The iterator's results are in place when a frame returns, before TFORLOOP.
OP_TFORCALL(M, i) ==
    LET copied == SetR(SetR(SetR(M, i.a + 4, R(M, i.a)), i.a + 5, R(M, i.a + 1)),
                       i.a + 6, R(M, i.a + 2))
    IN  luaD_precall(Next1([copied EXCEPT !.top = RA(M, i.a + 7)]), RA(M, i.a + 4), i.c)
OP_TFORLOOP(M, i) ==
    IF R(M, i.a + 4) = NilV THEN Next1(M) ELSE Goto(SetR(M, i.a + 2, R(M, i.a + 4)), i.b)

-----------------------------------------------------------------------------
(* Tables.                                                                 *)

\* NEWTABLE skips its extra argument.
OP_NEWTABLE(M, i) ==
    LET w == luaH_new(M.w) IN Next2(SetR(SetW(M, w), i.a, <<"tab", Len(w.tabs)>>))

OP_SELF(M, i) ==
    Next1(Into(SetR(M, i.a + 1, R(M, i.b)), i.a, Get(M.w, R(M, i.b), RKC(M, i))))

RECURSIVE SetItems(_, _, _, _)
SetItems(t, first, vs, n) ==
    IF n = 0 THEN t ELSE SetItems(luaH_set(t, IntV(first + n), vs[n]), first, vs, n - 1)
OP_SETLIST(M, i) ==
    LET n == IF i.b = 0 THEN M.top - RA(M, i.a) - 1 ELSE i.b
        extra == IF i.k THEN P(M).code[F(M).pc + 1].a * (MAXARG_C + 1) ELSE 0
        vs == SubSeq(M.stk, RA(M, i.a + 1), RA(M, i.a + n))
        set == [M EXCEPT !.w.tabs[R(M, i.a)[2]] = SetItems(@, i.c + extra, vs, n)]
    IN  IF i.k THEN Next2(set) ELSE Next1(set)

-----------------------------------------------------------------------------
(* luaV_execute.                                                           *)

Store(M, t, k, i) == Next1(SetW(M, Set(M.w, t, k, RKC(M, i))))
Load(M, i, res) == Next1(Into(M, i.a, res))

step(M) ==
    LET i == P(M).code[F(M).pc]
        op == i.op
        k == RKC(M, i)
        extra == P(M).code[F(M).pc + 1]
        sets(v) == Next1(SetR(M, i.a, v))
    IN  CASE op = "MOVE" -> sets(R(M, i.b))
          [] op = "LOADI" -> sets(IntV(i.b))
          [] op = "LOADF" -> sets(FltV(2 * i.b))
          [] op = "LOADK" -> sets(K(M, i.b))
          [] op = "LOADKX" -> Next2(SetR(M, i.a, K(M, extra.a)))
          [] op = "LOADFALSE" -> sets(FalseV)
          [] op = "LFALSESKIP" -> Next2(SetR(M, i.a, FalseV))
          [] op = "LOADTRUE" -> sets(TrueV)
          [] op = "LOADNIL" ->
                Next1([M EXCEPT !.stk = [s \in DOMAIN @ |->
                         IF RA(M, i.a) <= s /\ s <= RA(M, i.a + i.b) THEN NilV ELSE @[s]]])
          [] op = "GETUPVAL" -> sets(GetUp(M, i.b))
          [] op = "SETUPVAL" -> Next1(SetUp(M, i.b, R(M, i.a)))
          [] op = "GETTABUP" -> Load(M, i, Get(M.w, GetUp(M, i.b), K(M, i.c)))
          [] op = "GETTABLE" -> Load(M, i, Get(M.w, R(M, i.b), R(M, i.c)))
          [] op = "GETI" -> Load(M, i, Get(M.w, R(M, i.b), IntV(i.c)))
          [] op = "GETFIELD" -> Load(M, i, Get(M.w, R(M, i.b), K(M, i.c)))
          [] op = "SETTABUP" -> Store(M, GetUp(M, i.a), K(M, i.b), i)
          [] op = "SETTABLE" -> Store(M, R(M, i.a), R(M, i.b), i)
          [] op = "SETI" -> Store(M, R(M, i.a), IntV(i.b), i)
          [] op = "SETFIELD" -> Store(M, R(M, i.a), K(M, i.b), i)
          [] op = "NEWTABLE" -> OP_NEWTABLE(M, i)
          [] op = "SELF" -> OP_SELF(M, i)
          [] op = "ARITH" -> op_arith(M, i, R(M, i.b), R(M, i.c))
          [] op = "ARITHK" -> op_arith(M, i, R(M, i.b), K(M, i.c))
          [] op = "ARITHI" -> OP_ARITHI(M, i)
          [] op = "MMBIN" -> OP_MMBIN(M, i, R(M, i.b))
          [] op = "MMBINI" -> OP_MMBIN(M, i, IntV(i.b))
          [] op = "MMBINK" -> OP_MMBIN(M, i, K(M, i.b))
          [] op = "UNARY" -> OP_UNARY(M, i)
          [] op = "NOT" -> sets(IF l_isfalse(R(M, i.b)) THEN TrueV ELSE FalseV)
          [] op = "CONCAT" ->
                Load(M, i, luaV_concat(M.w, SubSeq(M.stk, RA(M, i.a), RA(M, i.a) + i.b - 1)))
          [] op = "CLOSE" -> Next1(luaF_close(M, RA(M, i.a)))
          [] op = "TBC" -> Next1(luaF_newtbcupval(M, RA(M, i.a)))
          [] op = "JMP" -> Goto(M, i.b)
          [] op = "EQ" -> Test(M, i, luaV_equalobj(M.w, R(M, i.a), R(M, i.b)))
          [] op = "EQK" -> Test(M, i, luaV_equalobj(M.w, R(M, i.a), K(M, i.b)))
          [] op = "EQI" -> Test(M, i, luaV_equalobj(M.w, R(M, i.a), IntV(i.b)))
          [] op = "ORDER" -> Test(M, i, Order(M.w, i.op2, R(M, i.a), R(M, i.b)))
          [] op = "ORDERI" -> op_orderI(M, i)
          [] op = "TEST" -> CondJump(M, i, ~l_isfalse(R(M, i.a)))
          [] op = "TESTSET" ->
                IF l_isfalse(R(M, i.b)) = i.k THEN Next2(M)
                ELSE Goto(SetR(M, i.a, R(M, i.b)), extra.b)
          [] op = "CALL" -> OP_CALL(M, i)
          [] op = "TAILCALL" -> OP_TAILCALL(M, i)
          [] op \in {"RETURN", "RETURN0", "RETURN1"} -> OP_RETURN(M, i)
          [] op = "FORPREP" -> OP_FORPREP(M, i)
          [] op = "FORLOOP" -> OP_FORLOOP(M, i)
          [] op = "TFORPREP" -> Goto(luaF_newtbcupval(M, RA(M, i.a + 3)), i.b)
          [] op = "TFORCALL" -> OP_TFORCALL(M, i)
          [] op = "TFORLOOP" -> OP_TFORLOOP(M, i)
          [] op = "SETLIST" -> OP_SETLIST(M, i)
          [] op = "CLOSURE" -> Next1(pushclosure(M, i.a, i.b))
          [] op = "VARARG" -> Next1(luaT_getvarargs(M, i.a, i.c - 1))
          [] op = "VARARGPREP" -> Next1(luaT_adjustvarargs(M, i.a))

Halted(M) == M.frames = <<>> \/ M.w.err

\* At most 2^n steps.
RECURSIVE luaV_execute(_, _)
luaV_execute(M, n) ==
    IF Halted(M) THEN M
    ELSE IF n = 0 THEN step(M)
    ELSE luaV_execute(luaV_execute(M, n - 1), n - 1)

\* The main function p is called with some arguments, in a world where the table 1
\* has the globals.
Loaded(p, w, args) ==
    luaD_precall([w |-> w, stk |-> [s \in 1..StackSize |->
                                      CASE s = 1 -> <<"fun", 1>>
                                        [] s > 1 /\ s <= Len(args) + 1 -> args[s - 1]
                                        [] OTHER -> NilV],
                  top |-> Len(args) + 2, cells |-> <<[at |-> 0, v |-> <<"tab", 1>>]>>,
                  tbc |-> <<>>, funs |-> <<[p |-> p, ups |-> <<1>>]>>, frames |-> <<>>],
                 1, LUA_MULTRET)
Results(M) == SubSeq(M.stk, 1, M.top - 1)

=============================================================================
