------------------------------- MODULE CodeGen ------------------------------
(***************************************************************************)
(* The code generator (lcode.c): expression descriptors, registers, jump   *)
(* lists, constants and operators.                                         *)
(*                                                                         *)
(* A FuncState is a record, S.  The expressions that a C function gets by  *)
(* pointer are its fields "e1" and "e2"; an operator with a parameter w    *)
(* works on the field w.  Positions in the code and indices of constants   *)
(* begin at 1.  Instructions keep their operands decoded, and instructions *)
(* that only differ in the operation share an opcode and have the operator *)
(* in the field `op2': ARITH is ADD..SHR, ARITHK ADDK..BXORK, ARITHI ADDI, *)
(* SHRI and SHLI, UNARY is UNM, BNOT and LEN, ORDER is LT and LE, ORDERI   *)
(* LTI..GEI.  Line information is left out.                                *)
(***************************************************************************)
EXTENDS LuaValues

CONSTANTS
    MAXARG_C,     \* largest operand C
    OFFSET_sC,    \* excess of a signed operand
    MAXARG_Bx,    \* largest operand Bx
    MAXINDEXRK,   \* largest index of a constant in an R/K operand
    MAXREGS,      \* registers of a function
    LongStrings   \* the strings that are not short

NO_JUMP == 0
NO_REG == -1
OFFSET_sBx == MAXARG_Bx \div 2
LUA_MULTRET == -1

Expr(k, info) == [k |-> k, info |-> info, idx |-> 0, t |-> NO_JUMP, f |-> NO_JUMP]
hasjumps(e) == e.t # e.f
hasmultret(e) == e.k \in {"VCALL", "VVARARG"}

\* A lua_assert of the compiler.
Assert2(S, cond) == IF cond THEN S ELSE [S EXCEPT !.ok = FALSE]
\* luaK_semerror and luaX_syntaxerror: the first error is the one reported.
Fail(S, msg) == IF S.err = "" THEN [S EXCEPT !.err = msg] ELSE S

\* The register after those of the first n variables.
reglevel(S, n) ==
    LET inreg == {i \in 1..n : S.vars[i].kind # "CTC"}
    IN  IF inreg = {} THEN 0 ELSE S.vars[Max(inreg)].ridx + 1
luaY_nvarstack(S) == reglevel(S, S.nactvar)

-----------------------------------------------------------------------------
(* Instructions.                                                           *)

Ins(op, a, b, c, k, op2) == [op |-> op, a |-> a, b |-> b, c |-> c, k |-> k, op2 |-> op2]
luaK_code(S, i) == [S EXCEPT !.code = Append(@, i)]
codeABCk(S, op, a, b, c, k) == luaK_code(S, Ins(op, a, b, c, k, ""))
codeABC(S, op, a, b, c) == codeABCk(S, op, a, b, c, FALSE)
Pc(S) == Len(S.code)                      \* the last instruction

\* previousinstruction: not one that a jump target separates from the next.
previousinstruction(S) ==
    IF Pc(S) > S.lasttarget THEN S.code[Pc(S)] ELSE Ins("invalid", 0, 0, 0, FALSE, "")
removelastinstruction(S) == [S EXCEPT !.code = Front(@)]

\* Instructions that are always followed by a jump.
Tests == {"EQ", "EQK", "EQI", "ORDER", "ORDERI", "TEST", "TESTSET"}

-----------------------------------------------------------------------------
(* Jump lists.  A pending jump has the next one of its list in b.          *)

luaK_jump(S) == codeABC(S, "JMP", 0, NO_JUMP, 0)
getjump(S, pc) == S.code[pc].b
fixjump(S, pc, dest) ==
    Assert2([S EXCEPT !.code[pc].b = dest], S.code[pc].op = "JMP" /\ dest # NO_JUMP)

RECURSIVE LastOf(_, _)
LastOf(S, list) == IF getjump(S, list) = NO_JUMP THEN list ELSE LastOf(S, getjump(S, list))

\* luaK_concat: the code, and the list that l1 becomes.
Linked(S, l1, l2) ==
    IF l1 = NO_JUMP \/ l2 = NO_JUMP THEN S ELSE fixjump(S, LastOf(S, l1), l2)
Joined(l1, l2) == IF l1 = NO_JUMP THEN l2 ELSE l1

condjump(S, op, op2, a, b, c, k) == luaK_jump(luaK_code(S, Ins(op, a, b, c, k, op2)))
luaK_getlabel(S) == [S EXCEPT !.lasttarget = Pc(S)]
Here(S) == Pc(S) + 1

getjumpcontrol(S, pc) == IF pc > 1 /\ S.code[pc - 1].op \in Tests THEN pc - 1 ELSE pc

\* patchtestreg, when the jump is controlled by a TESTSET.
patchtestreg(S, node, reg) ==
    LET i == getjumpcontrol(S, node)
        b == S.code[i].b
    IN  IF reg # NO_REG /\ reg # b THEN [S EXCEPT !.code[i].a = reg]
        ELSE [S EXCEPT !.code[i] = Ins("TEST", b, 0, 0, @.k, "")]
HasValue(S, node) == S.code[getjumpcontrol(S, node)].op = "TESTSET"

RECURSIVE removevalues(_, _)
removevalues(S, list) ==
    IF list = NO_JUMP THEN S
    ELSE removevalues(IF HasValue(S, list) THEN patchtestreg(S, list, NO_REG) ELSE S,
                      getjump(S, list))

RECURSIVE patchlistaux(_, _, _, _, _)
patchlistaux(S, list, vtarget, reg, dtarget) ==
    IF list = NO_JUMP THEN S
    ELSE LET s1 == IF HasValue(S, list) THEN fixjump(patchtestreg(S, list, reg), list, vtarget)
                   ELSE fixjump(S, list, dtarget)
         IN  patchlistaux(s1, getjump(S, list), vtarget, reg, dtarget)

luaK_patchlist(S, list, target) ==
    Assert2(patchlistaux(S, list, target, NO_REG, target), target <= Here(S))
luaK_patchtohere(S, list) == luaK_patchlist(luaK_getlabel(S), list, Here(S))

RECURSIVE need_value(_, _)
need_value(S, list) ==
    list # NO_JUMP /\ (~HasValue(S, list) \/ need_value(S, getjump(S, list)))

-----------------------------------------------------------------------------
(* Registers.                                                              *)

luaK_checkstack(S, n) ==
    LET size == S.free + n
        s1 == IF size > S.maxstack /\ size >= MAXREGS
              THEN Fail(S, "function or expression needs too many registers") ELSE S
    IN  [s1 EXCEPT !.maxstack = IF size > @ THEN size ELSE @]
luaK_reserveregs(S, n) == [luaK_checkstack(S, n) EXCEPT !.free = @ + n]

freereg(S, reg) ==
    IF reg >= luaY_nvarstack(S) THEN Assert2([S EXCEPT !.free = @ - 1], reg = S.free - 1)
    ELSE S
freeregs(S, r1, r2) ==
    IF r1 > r2 THEN freereg(freereg(S, r1), r2) ELSE freereg(freereg(S, r2), r1)

RegOf(e) == IF e.k = "VNONRELOC" THEN e.info ELSE NO_REG
freeexp(S, w) == IF S[w].k = "VNONRELOC" THEN freereg(S, S[w].info) ELSE S
freeexps(S) == freeregs(S, RegOf(S.e1), RegOf(S.e2))

-----------------------------------------------------------------------------
(* Constants.  `h' is the scanner's table, where the functions of a source *)
(* file share the last index given to each constant.                       *)

\* addk: the FuncState and the index.
addk(S, v) ==
    LET n == Len(S.k) + 1
    IN  IF v \in DOMAIN S.h /\ S.h[v] < n /\ S.k[S.h[v]] = v THEN [s |-> S, i |-> S.h[v]]
        ELSE [s |-> [S EXCEPT !.k = Append(@, v),
                              !.h = [x \in DOMAIN S.h \cup {v} |-> IF x = v THEN n ELSE S.h[x]]],
              i |-> n]

fitsC(i) == -OFFSET_sC <= i /\ i <= MAXARG_C - OFFSET_sC
fitsBx(i) == -OFFSET_sBx <= i /\ i <= MAXARG_Bx - OFFSET_sBx

luaK_codek(S, reg, k) ==
    IF k <= MAXARG_Bx THEN codeABC(S, "LOADK", reg, k, 0)
    ELSE codeABC(codeABC(S, "LOADKX", reg, 0, 0), "EXTRAARG", k, 0, 0)
LoadK(S, reg, v) == LET k == addk(S, v) IN luaK_codek(k.s, reg, k.i)

luaK_int(S, reg, n) ==
    IF fitsBx(n) THEN codeABC(S, "LOADI", reg, n, 0) ELSE LoadK(S, reg, IntV(n))
luaK_float(S, reg, f) ==
    LET fi == luaV_flttointeger(f, "eq")
    IN  IF fi # {} /\ fitsBx(The(fi)) THEN codeABC(S, "LOADF", reg, The(fi), 0)
        ELSE LoadK(S, reg, f)

\* luaK_nil: extends a preceding LOADNIL if the ranges touch.
luaK_nil(S, from, n) ==
    LET l == from + n - 1
        prev == previousinstruction(S)
        pl == prev.a + prev.b
        first == IF prev.a < from THEN prev.a ELSE from
        last == IF pl > l THEN pl ELSE l
    IN  IF /\ prev.op = "LOADNIL"
           /\ \/ prev.a <= from /\ from <= pl + 1
              \/ from <= prev.a /\ prev.a <= l + 1
        THEN [S EXCEPT !.code[Pc(S)].a = first, !.code[Pc(S)].b = last - first]
        ELSE codeABC(S, "LOADNIL", from, n - 1, 0)

\* The number that a numeral stands for; the value of a constant expression.
tonumeral(e) ==
    CASE hasjumps(e) -> {}
      [] ~hasjumps(e) /\ e.k = "VKINT" -> {IntV(e.info)}
      [] ~hasjumps(e) /\ e.k = "VKFLT" -> {e.info}
      [] OTHER -> {}
luaK_exp2const(e) ==
    CASE hasjumps(e) -> {}
      [] ~hasjumps(e) /\ e.k = "VFALSE" -> {FalseV}
      [] ~hasjumps(e) /\ e.k = "VTRUE" -> {TrueV}
      [] ~hasjumps(e) /\ e.k = "VNIL" -> {NilV}
      [] ~hasjumps(e) /\ e.k = "VKSTR" -> {StrV(e.info)}
      [] ~hasjumps(e) /\ e.k = "VCONST" -> {e.info}
      [] OTHER -> tonumeral(e)
const2exp(v) ==
    CASE v[1] = "int" -> Expr("VKINT", v[2])
      [] IsFloat(v) -> Expr("VKFLT", v)
      [] v[1] = "str" -> Expr("VKSTR", v[2])
      [] v = NilV -> Expr("VNIL", 0)
      [] v = TrueV -> Expr("VTRUE", 0)
      [] OTHER -> Expr("VFALSE", 0)

-----------------------------------------------------------------------------
(* Discharging expressions.                                                *)

SetE(S, w, k, info) == [S EXCEPT ![w] = [@ EXCEPT !.k = k, !.info = info]]

luaK_setreturns(S, w, nresults) ==
    LET s1 == [S EXCEPT !.code[S[w].info].c = nresults + 1]
    IN  IF S[w].k = "VCALL" THEN s1
        ELSE luaK_reserveregs([s1 EXCEPT !.code[S[w].info].a = S.free], 1)

luaK_setoneret(S, w) ==
    LET i == S.code[S[w].info]
    IN  CASE S[w].k = "VCALL" -> Assert2(SetE(S, w, "VNONRELOC", i.a), i.c = 2)
          [] S[w].k = "VVARARG" ->
                SetE([S EXCEPT !.code[S[w].info].c = 2], w, "VRELOC", S[w].info)
          [] OTHER -> S

str2K(S, w) == LET k == addk(S, StrV(S[w].info)) IN SetE(k.s, w, "VK", k.i)

luaK_dischargevars(S, w) ==
    LET e == S[w]
        reloc(s) == SetE(s, w, "VRELOC", Pc(s))
    IN  CASE e.k = "VCONST" -> LET c == const2exp(e.info) IN SetE(S, w, c.k, c.info)
          [] e.k = "VLOCAL" -> SetE(S, w, "VNONRELOC", e.info)
          [] e.k = "VUPVAL" -> reloc(codeABC(S, "GETUPVAL", 0, e.info, 0))
          [] e.k = "VINDEXUP" -> reloc(codeABC(S, "GETTABUP", 0, e.info, e.idx))
          [] e.k = "VINDEXI" -> reloc(codeABC(freereg(S, e.info), "GETI", 0, e.info, e.idx))
          [] e.k = "VINDEXSTR" ->
                reloc(codeABC(freereg(S, e.info), "GETFIELD", 0, e.info, e.idx))
          [] e.k = "VINDEXED" ->
                reloc(codeABC(freeregs(S, e.info, e.idx), "GETTABLE", 0, e.info, e.idx))
          [] OTHER -> luaK_setoneret(S, w)

discharge2reg(S0, w, reg) ==
    LET S == luaK_dischargevars(S0, w)
        e == S[w]
        loaded ==
          CASE e.k = "VNIL" -> luaK_nil(S, reg, 1)
            [] e.k = "VFALSE" -> codeABC(S, "LOADFALSE", reg, 0, 0)
            [] e.k = "VTRUE" -> codeABC(S, "LOADTRUE", reg, 0, 0)
            [] e.k = "VKSTR" -> LET s1 == str2K(S, w) IN luaK_codek(s1, reg, s1[w].info)
            [] e.k = "VK" -> luaK_codek(S, reg, e.info)
            [] e.k = "VKFLT" -> luaK_float(S, reg, e.info)
            [] e.k = "VKINT" -> luaK_int(S, reg, e.info)
            [] e.k = "VRELOC" -> [S EXCEPT !.code[e.info].a = reg]
            [] e.k = "VNONRELOC" ->
                  IF reg # e.info THEN codeABC(S, "MOVE", reg, e.info, 0) ELSE S
            [] OTHER -> S
    IN  IF e.k = "VJMP" THEN S ELSE SetE(loaded, w, "VNONRELOC", reg)

discharge2anyreg(S, w) ==
    IF S[w].k = "VNONRELOC" THEN S
    ELSE LET s1 == luaK_reserveregs(S, 1) IN discharge2reg(s1, w, s1.free - 1)

code_loadbool(S, reg, op) == codeABC(luaK_getlabel(S), op, reg, 0, 0)

exp2reg(S0, w, reg) ==
    LET s1 == discharge2reg(S0, w, reg)
        jmp == s1[w].k = "VJMP"
        S == IF jmp THEN [Linked(s1, s1[w].t, s1[w].info)
                            EXCEPT ![w].t = Joined(s1[w].t, s1[w].info)] ELSE s1
        needed == need_value(S, S[w].t) \/ need_value(S, S[w].f)
        s2 == IF jmp THEN S ELSE luaK_jump(S)
        fj == IF jmp THEN NO_JUMP ELSE Pc(s2)
        s3 == code_loadbool(s2, reg, "LFALSESKIP")
        s4 == code_loadbool(s3, reg, "LOADTRUE")
        s5 == luaK_getlabel(IF needed THEN luaK_patchtohere(s4, fj) ELSE S)
        p_f == IF needed THEN Pc(s3) ELSE NO_JUMP
        p_t == IF needed THEN Pc(s4) ELSE NO_JUMP
        final == Here(s5)
        patched == patchlistaux(patchlistaux(s5, S[w].f, final, reg, p_f),
                                S[w].t, final, reg, p_t)
    IN  [IF hasjumps(S[w]) THEN patched ELSE S EXCEPT ![w] = Expr("VNONRELOC", reg)]

luaK_exp2nextreg(S, w) ==
    LET s1 == luaK_reserveregs(freeexp(luaK_dischargevars(S, w), w), 1)
    IN  exp2reg(s1, w, s1.free - 1)

\* luaK_exp2anyreg: the register is left in S[w].info.
luaK_exp2anyreg(S0, w) ==
    LET S == luaK_dischargevars(S0, w)
        e == S[w]
    IN  CASE e.k = "VNONRELOC" /\ ~hasjumps(e) -> S
          [] e.k = "VNONRELOC" /\ hasjumps(e) /\ e.info >= luaY_nvarstack(S) ->
                exp2reg(S, w, e.info)
          [] OTHER -> luaK_exp2nextreg(S, w)

luaK_exp2anyregup(S, w) ==
    IF S[w].k # "VUPVAL" \/ hasjumps(S[w]) THEN luaK_exp2anyreg(S, w) ELSE S
luaK_exp2val(S, w) ==
    IF hasjumps(S[w]) THEN luaK_exp2anyreg(S, w) ELSE luaK_dischargevars(S, w)

\* luaK_exp2K and luaK_exp2RK: the FuncState, and whether S[w] is a constant that
\* fits an R/K operand.
luaK_exp2K(S, w) ==
    LET e == S[w]
        k == CASE e.k = "VTRUE" -> addk(S, TrueV)
               [] e.k = "VFALSE" -> addk(S, FalseV)
               [] e.k = "VNIL" -> addk(S, NilV)
               [] e.k = "VKINT" -> addk(S, IntV(e.info))
               [] e.k = "VKFLT" -> addk(S, e.info)
               [] e.k = "VKSTR" -> addk(S, StrV(e.info))
               [] e.k = "VK" -> [s |-> S, i |-> e.info]
    IN  IF hasjumps(e) \/ e.k \notin {"VTRUE", "VFALSE", "VNIL", "VKINT", "VKFLT", "VKSTR", "VK"}
        THEN [s |-> S, is |-> FALSE]
        ELSE IF k.i <= MAXINDEXRK THEN [s |-> SetE(k.s, w, "VK", k.i), is |-> TRUE]
        ELSE [s |-> k.s, is |-> FALSE]
luaK_exp2RK(S, w) ==
    LET k == luaK_exp2K(S, w)
    IN  IF k.is THEN k ELSE [s |-> luaK_exp2anyreg(k.s, w), is |-> FALSE]

codeABRK(S, op, a, b, w) ==
    LET k == luaK_exp2RK(S, w) IN codeABCk(k.s, op, a, b, k.s[w].info, k.is)

\* luaK_storevar: S[w] is stored into the variable `var'.
luaK_storevar(S, var, w) ==
    CASE var.k = "VLOCAL" -> exp2reg(freeexp(S, w), w, var.info)
      [] var.k = "VUPVAL" ->
            LET s1 == luaK_exp2anyreg(S, w)
            IN  freeexp(codeABC(s1, "SETUPVAL", s1[w].info, var.info, 0), w)
      [] var.k = "VINDEXUP" -> freeexp(codeABRK(S, "SETTABUP", var.info, var.idx, w), w)
      [] var.k = "VINDEXI" -> freeexp(codeABRK(S, "SETI", var.info, var.idx, w), w)
      [] var.k = "VINDEXSTR" -> freeexp(codeABRK(S, "SETFIELD", var.info, var.idx, w), w)
      [] var.k = "VINDEXED" -> freeexp(codeABRK(S, "SETTABLE", var.info, var.idx, w), w)
      [] OTHER -> Assert2(S, S.err # "")

\* luaK_self: S.e1 becomes the function of `e1:key(', S.e2 is the key.
luaK_self(S) ==
    LET s1 == luaK_exp2anyreg(S, "e1")
        ereg == s1.e1.info
        s2 == freeexp(s1, "e1")
        s3 == luaK_reserveregs(SetE(s2, "e1", "VNONRELOC", s2.free), 2)
    IN  freeexp(codeABRK(s3, "SELF", s3.e1.info, ereg, "e2"), "e2")

-----------------------------------------------------------------------------
(* Conditions.                                                             *)

negatecondition(S, w) ==
    LET i == getjumpcontrol(S, S[w].info)
    IN  Assert2([S EXCEPT !.code[i].k = ~@], S.code[i].op \in Tests \ {"TEST", "TESTSET"})

\* jumponcond: the jump is the last instruction.
jumponcond(S, w, cond) ==
    LET e == S[w]
        s1 == freeexp(discharge2anyreg(S, w), w)
    IN  IF e.k = "VRELOC" /\ S.code[e.info].op = "NOT"
        THEN condjump(removelastinstruction(S), "TEST", "", S.code[e.info].b, 0, 0, ~cond)
        ELSE condjump(s1, "TESTSET", "", NO_REG, s1[w].info, 0, cond)

luaK_goiftrue(S0, w) ==
    LET S == luaK_dischargevars(S0, w)
        e == S[w]
        s1 == CASE e.k = "VJMP" -> negatecondition(S, w)
                [] e.k \in {"VK", "VKFLT", "VKINT", "VKSTR", "VTRUE"} -> S
                [] OTHER -> jumponcond(S, w, FALSE)
        pc == CASE e.k = "VJMP" -> e.info
                [] e.k \in {"VK", "VKFLT", "VKINT", "VKSTR", "VTRUE"} -> NO_JUMP
                [] OTHER -> Pc(s1)
        s2 == luaK_patchtohere(Linked(s1, e.f, pc), e.t)
    IN  [s2 EXCEPT ![w].f = Joined(e.f, pc), ![w].t = NO_JUMP]

luaK_goiffalse(S0, w) ==
    LET S == luaK_dischargevars(S0, w)
        e == S[w]
        s1 == IF e.k \in {"VJMP", "VNIL", "VFALSE"} THEN S ELSE jumponcond(S, w, TRUE)
        pc == CASE e.k = "VJMP" -> e.info
                [] e.k \in {"VNIL", "VFALSE"} -> NO_JUMP
                [] OTHER -> Pc(s1)
        s2 == luaK_patchtohere(Linked(s1, e.t, pc), e.f)
    IN  [s2 EXCEPT ![w].t = Joined(e.t, pc), ![w].f = NO_JUMP]

codenot(S, w) ==
    LET e == S[w]
        s0 == freeexp(discharge2anyreg(S, w), w)
        s1 == codeABC(s0, "NOT", 0, s0[w].info, 0)
        s2 == CASE e.k \in {"VNIL", "VFALSE"} -> SetE(S, w, "VTRUE", 0)
                [] e.k \in {"VK", "VKFLT", "VKINT", "VKSTR", "VTRUE"} -> SetE(S, w, "VFALSE", 0)
                [] e.k = "VJMP" -> negatecondition(S, w)
                [] OTHER -> SetE(s1, w, "VRELOC", Pc(s1))
        s3 == removevalues(removevalues(s2, e.t), e.f)
    IN  [s3 EXCEPT ![w].t = e.f, ![w].f = e.t]

-----------------------------------------------------------------------------
(* Indexed variables.                                                      *)

isKstr(S, e) ==
    /\ e.k = "VK" /\ ~hasjumps(e) /\ e.info <= MAXINDEXRK
    /\ S.k[e.info] \notin {StrV(s) : s \in LongStrings} /\ S.k[e.info][1] = "str"
luaK_isKint(e) == e.k = "VKINT" /\ ~hasjumps(e)
isCint(e) == luaK_isKint(e) /\ 0 <= e.info /\ e.info <= MAXARG_C
isSCint(e) == luaK_isKint(e) /\ fitsC(e.info)
\* isSCnumber: the operand, if the numeral fits.
isSCnumber(e) ==
    CASE hasjumps(e) -> {}
      [] ~hasjumps(e) /\ e.k = "VKINT" -> {i \in {e.info} : fitsC(i)}
      [] ~hasjumps(e) /\ e.k = "VKFLT" -> {i \in luaV_flttointeger(e.info, "eq") : fitsC(i)}
      [] OTHER -> {}

\* luaK_indexed: S.e1 is the table and S.e2 the key.
luaK_indexed(S0) ==
    LET s0 == IF S0.e2.k = "VKSTR" THEN str2K(S0, "e2") ELSE S0
        S == IF s0.e1.k = "VUPVAL" /\ ~isKstr(s0, s0.e2) THEN luaK_exp2anyreg(s0, "e1") ELSE s0
        s1 == luaK_exp2anyreg(S, "e2")
        ind(s, k, idx) == [s EXCEPT !.e1 = [@ EXCEPT !.k = k, !.idx = idx]]
        indexed ==
          CASE S.e1.k = "VUPVAL" -> ind(S, "VINDEXUP", S.e2.info)
            [] S.e1.k # "VUPVAL" /\ isKstr(S, S.e2) -> ind(S, "VINDEXSTR", S.e2.info)
            [] S.e1.k # "VUPVAL" /\ isCint(S.e2) -> ind(S, "VINDEXI", S.e2.info)
            [] OTHER -> ind(s1, "VINDEXED", s1.e2.info)
    IN  Assert2(indexed, ~hasjumps(s0.e1) /\ s0.e1.k \in {"VLOCAL", "VNONRELOC", "VUPVAL"})

-----------------------------------------------------------------------------
(* Operators.                                                              *)

ArithOps == {"+", "-", "*", "%", "^", "/", "//", "&", "|", "xor", "<<", ">>"}

validop(op, v, w) ==
    CASE op \in BitOps ->
            luaV_tointegerns(v, "floor") # {} /\ luaV_tointegerns(w, "floor") # {}
      [] op \in {"/", "//", "%"} -> w \notin {IntV(0), Zero}
      [] OTHER -> TRUE

\* constfolding: the numeral that S.e1 becomes, if the operation can be folded.
constfolding(op, e1, e2) ==
    LET v == tonumeral(e1)
        w == tonumeral(e2)
    IN  IF v = {} \/ w = {} THEN {}
        ELSE IF ~validop(op, The(v), The(w)) THEN {}
        ELSE {const2exp(r) : r \in luaO_rawarith(op, The(v), The(w)) \ {NaN, Zero}}

codeunexpval(S, op) ==
    LET s1 == luaK_exp2anyreg(S, "e1")
        s2 == luaK_code(freeexp(s1, "e1"), Ins("UNARY", 0, s1.e1.info, 0, FALSE, op))
    IN  SetE(s2, "e1", "VRELOC", Pc(s2))

\* finishbinexpval, where the instruction is (op, op2) with v2 as its operand C,
\* and mm the one that calls the metamethod of `event' for v1 and `arg'.
finishbinexpval(S, op, op2, v2, flip, mm, arg, event) ==
    LET s1 == luaK_exp2anyreg(S, "e1")
        v1 == s1.e1.info
        s2 == luaK_code(s1, Ins(op, 0, v1, v2, FALSE, op2))
        s3 == SetE(freeexps(s2), "e1", "VRELOC", Pc(s2))
    IN  luaK_code(s3, Ins(mm, v1, arg, 0, flip, event))

codebinexpval(S, op) ==
    LET s1 == luaK_exp2anyreg(S, "e2")
    IN  finishbinexpval(s1, "ARITH", op, s1.e2.info, FALSE, "MMBIN", s1.e2.info, op)

codebini(S, op, flip, event) ==
    finishbinexpval(S, "ARITHI", op, S.e2.info, flip, "MMBINI", S.e2.info, event)

\* finishbinexpneg applies to (e1 op e2); the metamethod gets the original operand.
CanNegate(e) == luaK_isKint(e) /\ fitsC(e.info) /\ fitsC(-e.info)
finishbinexpneg(S, op, event) ==
    finishbinexpval(S, "ARITHI", op, -S.e2.info, FALSE, "MMBINI", S.e2.info, event)
NegatedOperand(S, op, event) ==                              \* variant
    finishbinexpval(S, "ARITHI", op, -S.e2.info, FALSE, "MMBINI", -S.e2.info, event)

codeneg(S, op, event) == finishbinexpneg(S, op, event)

swapexps(S) == [S EXCEPT !.e1 = S.e2, !.e2 = S.e1]

codearith(S, op, flip) ==
    LET k == luaK_exp2K(S, "e2")
        s1 == IF tonumeral(S.e2) # {} THEN k.s ELSE S
    IN  IF tonumeral(S.e2) # {} /\ k.is
        THEN finishbinexpval(k.s, "ARITHK", op, k.s.e2.info, flip, "MMBINK", k.s.e2.info, op)
        ELSE codebinexpval(IF flip THEN swapexps(s1) ELSE s1, op)

codecommutative(S, op) ==
    LET flip == tonumeral(S.e1) # {}
        s1 == IF flip THEN swapexps(S) ELSE S
    IN  IF op = "+" /\ isSCint(s1.e2) THEN codebini(s1, "+", flip, "+")
        ELSE codearith(s1, op, flip)

codebitwise(S, op) ==
    LET k1 == luaK_exp2RK(S, "e1")
        s1 == IF S.e1.k = "VKINT" THEN k1.s ELSE S
        k2 == luaK_exp2RK(s1, "e2")
        s2 == IF s1.e2.k = "VKINT" THEN k2.s ELSE s1
        finish(s, flip) ==
            finishbinexpval(s, "ARITHK", op, s.e2.info, flip, "MMBINK", s.e2.info, op)
    IN  CASE S.e1.k = "VKINT" /\ k1.is -> finish(swapexps(s1), TRUE)
          [] ~(S.e1.k = "VKINT" /\ k1.is) /\ s1.e2.k = "VKINT" /\ k2.is -> finish(s2, FALSE)
          [] OTHER -> codebinexpval(s2, op)

codeorder(S, op) ==
    LET im1 == isSCnumber(S.e1)
        im2 == isSCnumber(S.e2)
        w == IF im2 = {} /\ im1 # {} THEN "e2" ELSE "e1"
        s1 == luaK_exp2anyreg(S, w)
        s2 == IF im1 = {} /\ im2 = {} THEN luaK_exp2anyreg(s1, "e2") ELSE s1
        isfloat == IF \E x \in IF im2 = {} THEN {"e1", "e2"} ELSE {"e2"} :
                         S[x].k = "VKFLT" /\ luaV_flttointeger(S[x].info, "eq") # {}
                   THEN 1 ELSE 0
        swapped == IF op = "<" THEN ">" ELSE ">="
        imm(i, o) == condjump(freeexps(s2), "ORDERI", o, s2[w].info, i, isfloat, TRUE)
        s3 == CASE im2 # {} -> imm(The(im2), op)
                [] im2 = {} /\ im1 # {} -> imm(The(im1), swapped)
                [] OTHER -> condjump(freeexps(s2), "ORDER", op, s2.e1.info, s2.e2.info, isfloat, TRUE)
    IN  SetE(s3, "e1", "VJMP", Pc(s3))

codeeq(S0, op) ==
    LET S == IF S0.e1.k # "VNONRELOC" THEN swapexps(S0) ELSE S0
        s1 == luaK_exp2anyreg(S, "e1")
        im == isSCnumber(s1.e2)
        k == luaK_exp2RK(s1, "e2")
        cj(s, o, arg) == condjump(freeexps(s), o, "", s.e1.info, arg, 0, op = "==")
        s2 == CASE im # {} -> cj(s1, "EQI", The(im))
                [] im = {} /\ k.is -> cj(k.s, "EQK", k.s.e2.info)
                [] OTHER -> cj(k.s, "EQ", k.s.e2.info)
    IN  Assert2(SetE(s2, "e1", "VJMP", Pc(s2)), S0.e1.k \in {"VNONRELOC", "VK", "VKINT", "VKFLT"})

\* luaK_prefix on S.e1, with the integer 0 as fake second operand.
luaK_prefix(S0, op) ==
    LET S == luaK_dischargevars(S0, "e1")
        folded == IF op \in {"unm", "bnot"}
                  THEN constfolding(op, S.e1, Expr("VKINT", 0)) ELSE {}
    IN  CASE folded # {} -> [S EXCEPT !.e1 = The(folded)]
          [] folded = {} /\ op = "not" -> codenot(S, "e1")
          [] OTHER -> codeunexpval(S, op)

\* luaK_infix on S.e1, before the second operand is read.
luaK_infix(S0, op) ==
    LET S == luaK_dischargevars(S0, "e1")
    IN  CASE op = "and" -> luaK_goiftrue(S, "e1")
          [] op = "or" -> luaK_goiffalse(S, "e1")
          [] op = ".." -> luaK_exp2nextreg(S, "e1")
          [] op \in ArithOps -> IF tonumeral(S.e1) = {} THEN luaK_exp2anyreg(S, "e1") ELSE S
          [] op \in {"==", "~="} ->
                IF tonumeral(S.e1) = {} THEN luaK_exp2RK(S, "e1").s ELSE S
          [] OTHER -> IF isSCnumber(S.e1) = {} THEN luaK_exp2anyreg(S, "e1") ELSE S

codeconcat(S) ==
    LET i == previousinstruction(S)
        s1 == freeexp(S, "e2")
    IN  IF i.op = "CONCAT"
        THEN Assert2([s1 EXCEPT !.code[Pc(S)].a = S.e1.info, !.code[Pc(S)].b = i.b + 1],
                     S.e1.info + 1 = i.a)
        ELSE freeexp(codeABC(S, "CONCAT", S.e1.info, 2, 0), "e2")

luaK_posfix(S0, op) ==
    LET S == luaK_dischargevars(S0, "e2")
        folded == IF op \in ArithOps THEN constfolding(op, S.e1, S.e2) ELSE {}
    IN  CASE folded # {} -> [S EXCEPT !.e1 = The(folded)]
          [] folded = {} /\ op = "and" ->
                Assert2([Linked(S, S.e2.f, S.e1.f)
                           EXCEPT !.e1 = [S.e2 EXCEPT !.f = Joined(@, S.e1.f)]],
                        S.e1.t = NO_JUMP)
          [] folded = {} /\ op = "or" ->
                Assert2([Linked(S, S.e2.t, S.e1.t)
                           EXCEPT !.e1 = [S.e2 EXCEPT !.t = Joined(@, S.e1.t)]],
                        S.e1.f = NO_JUMP)
          [] folded = {} /\ op = ".." -> codeconcat(luaK_exp2nextreg(S, "e2"))
          [] folded = {} /\ op \in {"+", "*"} -> codecommutative(S, op)
          [] folded = {} /\ op = "-" ->
                IF CanNegate(S.e2) THEN codeneg(S, "+", "-") ELSE codearith(S, op, FALSE)
          [] folded = {} /\ op \in {"/", "//", "%", "^"} -> codearith(S, op, FALSE)
          [] folded = {} /\ op \in {"&", "|", "xor"} -> codebitwise(S, op)
          [] folded = {} /\ op = "<<" ->
                CASE isSCint(S.e1) -> codebini(swapexps(S), "<<", TRUE, "<<")
                  [] ~isSCint(S.e1) /\ CanNegate(S.e2) -> codeneg(S, ">>", "<<")
                  [] OTHER -> codebinexpval(S, op)
          [] folded = {} /\ op = ">>" ->
                IF isSCint(S.e2) THEN codebini(S, ">>", FALSE, ">>") ELSE codebinexpval(S, op)
          [] folded = {} /\ op \in {"==", "~="} -> codeeq(S, op)
          [] folded = {} /\ op \in {"<", "<="} -> codeorder(S, op)
          [] OTHER -> codeorder(swapexps(S), IF op = ">" THEN "<" ELSE "<=")

-----------------------------------------------------------------------------
(* Constructors and returns.                                               *)

\* luaK_settablesize: the last instruction but one, at pc, and its extra argument.
luaK_settablesize(S, pc, ra, asize, hsize) ==
    LET extra == asize \div (MAXARG_C + 1)
    IN  [S EXCEPT !.code[pc] = Ins("NEWTABLE", ra, hsize, asize % (MAXARG_C + 1), extra > 0, ""),
                  !.code[pc + 1] = Ins("EXTRAARG", extra, 0, 0, FALSE, "")]

luaK_setlist(S, base, nelems, tostore) ==
    LET n == IF tostore = LUA_MULTRET THEN 0 ELSE tostore
        s1 == IF nelems <= MAXARG_C THEN codeABC(S, "SETLIST", base, n, nelems)
              ELSE codeABC(codeABCk(S, "SETLIST", base, n, nelems % (MAXARG_C + 1), TRUE),
                           "EXTRAARG", nelems \div (MAXARG_C + 1), 0, 0)
    IN  [s1 EXCEPT !.free = base + 1]

luaK_ret(S, first, nret) ==
    codeABC(S, CASE nret = 0 -> "RETURN0" [] nret = 1 -> "RETURN1" [] OTHER -> "RETURN",
            first, nret + 1, 0)

RECURSIVE finaltarget(_, _, _)
finaltarget(code, i, count) ==
    IF count = 100 \/ code[i].op # "JMP" THEN i ELSE finaltarget(code, code[i].b, count + 1)

\* luaK_finish.
Finished(S, i) ==
    LET ins == S.code[i]
        work == S.needclose \/ S.is_vararg
        ret == [ins EXCEPT !.k = S.needclose,
                           !.c = IF S.is_vararg THEN S.numparams + 1 ELSE @]
    IN  CASE ins.op \in {"RETURN0", "RETURN1"} ->
                IF work THEN [ret EXCEPT !.op = "RETURN"] ELSE ins
          [] ins.op \in {"RETURN", "TAILCALL"} -> ret
          [] ins.op = "JMP" -> [ins EXCEPT !.b = finaltarget(S.code, i, 0)]
          [] OTHER -> ins
luaK_finish(S) == [S EXCEPT !.code = [i \in DOMAIN S.code |-> Finished(S, i)]]

=============================================================================
