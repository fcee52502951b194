------------------------------- MODULE Parser -------------------------------
(***************************************************************************)
(* The parser (lparser.c), which reads tokens and generates code as it     *)
(* goes: scopes of variables, upvalues, blocks, labels and gotos, and the  *)
(* grammar.  A token is a record [t, v]; the input is one that the grammar *)
(* accepts, so that only the errors about names are left to find.  The     *)
(* lists of Dyndata are kept apart for each function.  The result of an    *)
(* expression is left in S.e1.                                             *)
(***************************************************************************)
EXTENDS CodeGen

CONSTANTS
    MAXVARS,              \* local variables of a function
    MAXUPVAL,             \* upvalues of a function
    LFIELDS_PER_FLUSH     \* list items stored by one SETLIST

VOID == Expr("VVOID", 0)

Tok(S) == S.toks[S.pos].t
Val(S) == S.toks[S.pos].v
luaX_next(S) == [S EXCEPT !.pos = @ + 1]
checknext(S, c) == luaX_next(Assert2(S, Tok(S) = c))
\* luaX_lookahead.
Ahead(S) == S.toks[S.pos + 1].t

Bl(S) == Last(S.bl)

-----------------------------------------------------------------------------
(* Local variables and upvalues.                                           *)

new_localvar(S, name) ==
    LET s1 == IF Len(S.vars) + 1 > MAXVARS THEN Fail(S, "too many local variables") ELSE S
    IN  [s1 EXCEPT !.vars = Append(@, [name |-> name, kind |-> "REG", ridx |-> 0, val |-> NilV])]

\* adjustlocalvars: the scope of the next n variables starts.
RECURSIVE adjustlocalvars(_, _)
adjustlocalvars(S, n) ==
    IF n = 0 THEN S
    ELSE adjustlocalvars([S EXCEPT !.vars[S.nactvar + 1].ridx = luaY_nvarstack(S), !.nactvar = @ + 1],
                         n - 1)

removevars(S, tolevel) ==
    [S EXCEPT !.vars = SubSeq(@, 1, Len(@) - (S.nactvar - tolevel)), !.nactvar = tolevel]

IndexOf(seq, name, n) ==
    LET is == {i \in 1..n : seq[i].name = name} IN IF is = {} THEN 0 ELSE Max(is)
searchupvalue(S, name) == IndexOf(S.ups, name, Len(S.ups))
searchvar(S, name) == IndexOf(S.vars, name, S.nactvar)

VarExpr(S, i) ==
    IF S.vars[i].kind = "CTC" THEN Expr("VCONST", S.vars[i].val)
    ELSE [Expr("VLOCAL", S.vars[i].ridx) EXCEPT !.idx = i]

\* markupval: the block of the variable after `level' others.
MarkBlock(S, level) ==
    LET b == Max({i \in DOMAIN S.bl : S.bl[i].nactvar <= level})
    IN  [S EXCEPT !.bl[b].upval = TRUE, !.needclose = TRUE]
MarkCurrent(S, level) ==                                     \* variant
    [S EXCEPT !.bl[Len(S.bl)].upval = TRUE, !.needclose = TRUE]
markupval(S, level) == MarkBlock(S, level)

\* newupvalue, for the variable v of the enclosing function.
newupvalue(S, name, v) ==
    LET prev == Head(S.prev)
        local == v.k = "VLOCAL"
        s1 == IF Len(S.ups) + 1 > MAXUPVAL THEN Fail(S, "too many upvalues") ELSE S
    IN  [s1 EXCEPT !.ups = Append(@, [name |-> name, instack |-> local, idx |-> v.info,
              kind |-> IF local THEN prev.vars[v.idx].kind ELSE prev.ups[v.info].kind])]

RECURSIVE singlevaraux(_, _, _)
singlevaraux(S, name, base) ==
    LET i == searchvar(S, name)
        u == searchupvalue(S, name)
        v == VarExpr(S, i)
        out == singlevaraux(Head(S.prev), name, FALSE)
    IN  CASE i # 0 ->
               [s |-> IF v.k = "VLOCAL" /\ ~base THEN markupval(S, i - 1) ELSE S, e |-> v]
          [] i = 0 /\ u # 0 -> [s |-> S, e |-> Expr("VUPVAL", u)]
          [] i = 0 /\ u = 0 /\ S.prev = <<>> -> [s |-> S, e |-> VOID]
          [] OTHER ->
               IF out.e.k \in {"VLOCAL", "VUPVAL"}
               THEN [s |-> newupvalue([S EXCEPT !.prev = <<out.s>>], name, out.e),
                     e |-> Expr("VUPVAL", Len(S.ups) + 1)]
               ELSE [s |-> S, e |-> out.e]

singlevar(S) ==
    LET v == singlevaraux(luaX_next(S), Val(S), TRUE)
        env == singlevaraux(luaX_next(S), "_ENV", TRUE)
    IN  IF v.e.k # "VVOID" THEN [v.s EXCEPT !.e1 = v.e]
        ELSE luaK_indexed([env.s EXCEPT !.e1 = env.e, !.e2 = Expr("VKSTR", Val(S))])

check_readonly(S, e) ==
    IF \/ e.k = "VCONST"
       \/ e.k = "VLOCAL" /\ S.vars[e.idx].kind # "REG"
       \/ e.k = "VUPVAL" /\ S.ups[e.info].kind # "REG"
    THEN Fail(S, "attempt to assign to const variable") ELSE S

adjust_assign(S, nvars, nexps) ==
    LET needed == nvars - nexps
        s1 == CASE hasmultret(S.e1) ->
                     luaK_setreturns(S, "e1", IF needed + 1 < 0 THEN 0 ELSE needed + 1)
                [] OTHER ->
                     LET s2 == IF S.e1.k # "VVOID" THEN luaK_exp2nextreg(S, "e1") ELSE S
                     IN  IF needed > 0 THEN luaK_nil(s2, s2.free, needed) ELSE s2
    IN  IF needed > 0 THEN luaK_reserveregs(s1, needed) ELSE [s1 EXCEPT !.free = @ + needed]

-----------------------------------------------------------------------------
(* Blocks, labels and gotos.                                               *)

newgotoentry(S, name, pc) ==
    [S EXCEPT !.gotos = Append(@, [name |-> name, pc |-> pc, nactvar |-> S.nactvar,
                                   close |-> FALSE])]

findlabel(S, name) == IndexOf(S.labels, name, Len(S.labels))

solvegoto(S, g, lb) ==
    LET gt == S.gotos[g]
        s1 == IF gt.nactvar < lb.nactvar THEN Fail(S, "jumps into the scope of local") ELSE S
    IN  [luaK_patchlist(s1, gt.pc, lb.pc) EXCEPT !.gotos = RemoveAt(@, g)]

RECURSIVE solvegotos(_, _, _, _)
solvegotos(S, lb, i, close) ==
    IF i > Len(S.gotos) THEN [s |-> S, close |-> close]
    ELSE IF S.gotos[i].name = lb.name
         THEN solvegotos(solvegoto(S, i, lb), lb, i, close \/ S.gotos[i].close)
         ELSE solvegotos(S, lb, i + 1, close)

\* createlabel: the FuncState, and whether an instruction to close was added.
createlabel(S, name, last) ==
    LET lb == [name |-> name, pc |-> Here(S),
               nactvar |-> IF last THEN Bl(S).nactvar ELSE S.nactvar]
        s1 == [luaK_getlabel(S) EXCEPT !.labels = Append(@, lb)]
        g == solvegotos(s1, lb, Bl(S).firstgoto + 1, FALSE)
    IN  [s |-> IF g.close THEN codeABC(g.s, "CLOSE", luaY_nvarstack(g.s), 0, 0) ELSE g.s,
         close |-> g.close]

\* movegotosout, from the i-th pending jump: `vars' are the descriptions of variables
\* before the block's ones were removed.
CloseOf(gt, bl, leaves) == gt.close \/ (leaves /\ bl.upval)

RECURSIVE movegotosout(_, _, _, _)
movegotosout(S, bl, vars, i) ==
    LET old == [S EXCEPT !.vars = vars]
        leaves == reglevel(old, S.gotos[i].nactvar) > reglevel(old, bl.nactvar)
    IN  IF i > Len(S.gotos) THEN S
        ELSE movegotosout([S EXCEPT !.gotos[i] = [@ EXCEPT !.nactvar = bl.nactvar,
                                                           !.close = CloseOf(S.gotos[i], bl, leaves)]],
                          bl, vars, i + 1)

enterblock(S, isloop) ==
    LET bl == [isloop |-> isloop, nactvar |-> S.nactvar, firstlabel |-> Len(S.labels),
               firstgoto |-> Len(S.gotos), upval |-> FALSE,
               insidetbc |-> S.bl # <<>> /\ Bl(S).insidetbc]
    IN  Assert2([S EXCEPT !.bl = Append(@, bl)], S.free = luaY_nvarstack(S))

leaveblock(S) ==
    LET bl == Bl(S)
        inner == Len(S.bl) > 1
        stklevel == reglevel(S, bl.nactvar)
        c == IF bl.isloop THEN createlabel(S, "break", FALSE) ELSE [s |-> S, close |-> FALSE]
        s1 == IF ~c.close /\ inner /\ bl.upval
              THEN codeABC(c.s, "CLOSE", stklevel, 0, 0) ELSE c.s
        s2 == [removevars(s1, bl.nactvar) EXCEPT !.bl = Front(@), !.free = stklevel,
                                                 !.labels = SubSeq(@, 1, bl.firstlabel)]
    IN  CASE inner -> movegotosout(s2, bl, s1.vars, bl.firstgoto + 1)
          [] ~inner /\ bl.firstgoto < Len(s2.gotos) -> Fail(s2, "no visible label")
          [] OTHER -> s2

-----------------------------------------------------------------------------
(* Functions.                                                              *)

\* open_func, inside the functions `prev'.
open_func(prev, toks, pos, h) ==
    enterblock(
      [prev |-> prev, toks |-> toks, pos |-> pos, h |-> h, err |-> "", ok |-> TRUE,
       code |-> <<>>, lasttarget |-> 0, free |-> 0, maxstack |-> 2, k |-> <<>>, vars |-> <<>>,
       nactvar |-> 0, needclose |-> FALSE, ups |-> <<>>, protos |-> <<>>, numparams |-> 0,
       is_vararg |-> FALSE, bl |-> <<>>, gotos |-> <<>>, labels |-> <<>>, e1 |-> VOID, e2 |-> VOID],
      FALSE)

\* close_func: the FuncState that ends, its code complete.
close_func(S) == luaK_finish(leaveblock(luaK_ret(S, luaY_nvarstack(S), 0)))
Proto(S) == [code |-> S.code, k |-> S.k, protos |-> S.protos, ups |-> S.ups,
             numparams |-> S.numparams, is_vararg |-> S.is_vararg, maxstack |-> S.maxstack]

setvararg(S, nparams) ==
    codeABC([S EXCEPT !.is_vararg = TRUE], "VARARGPREP", nparams, 0, 0)

RECURSIVE params(_)
params(S) ==
    CASE Tok(S) = "name" ->
           LET s1 == luaX_next(new_localvar(S, Val(S)))
           IN  IF Tok(s1) = "," THEN params(luaX_next(s1)) ELSE s1
      [] OTHER -> S
parlist(S) ==
    LET s1 == params(S)
        s2 == adjustlocalvars(s1, Len(s1.vars) - s1.nactvar)
        s3 == [s2 EXCEPT !.numparams = s2.nactvar]
        s4 == IF Tok(s1) = "..." THEN luaX_next(setvararg(s3, s3.numparams)) ELSE s3
    IN  luaK_reserveregs(s4, s4.nactvar)

-----------------------------------------------------------------------------
(* Expressions.                                                            *)

RECURSIVE subexpr(_, _), expand(_, _), suffixes(_), statlist(_), fields(_, _), explist(_, _)

expr(S) == subexpr(S, 0)

\* body, after `function': the closure is left in the next register.
body(S, ismethod) ==
    LET s0 == checknext([open_func(<<S>>, S.toks, S.pos, S.h)
                           EXCEPT !.err = S.err, !.ok = S.ok /\ @], "(")
        s1 == IF ismethod THEN adjustlocalvars(new_localvar(s0, "self"), 1) ELSE s0
        s2 == statlist(checknext(parlist(s1), ")"))
        s3 == close_func(checknext(s2, "end"))
        s4 == [Head(s3.prev) EXCEPT !.protos = Append(@, Proto(s3)), !.pos = s3.pos,
                                    !.h = s3.h, !.err = s3.err, !.ok = s3.ok]
        s5 == codeABC(s4, "CLOSURE", 0, Len(s4.protos), 0)
    IN  luaK_exp2nextreg([s5 EXCEPT !.e1 = Expr("VRELOC", Pc(s5))], "e1")

\* explist: n is the number of expressions before this one.
explist(S, n) ==
    LET s1 == expr(S)
    IN  IF Tok(s1) = "," THEN explist(luaX_next(luaK_exp2nextreg(s1, "e1")), n + 1)
        ELSE [s |-> s1, n |-> n + 1]

fieldsel(S) ==
    LET s1 == luaX_next(luaK_exp2anyregup(S, "e1"))
    IN  luaK_indexed([luaX_next(s1) EXCEPT !.e2 = Expr("VKSTR", Val(s1))])
yindex(S) == checknext(luaK_exp2val(expr(luaX_next(S)), "e1"), "]")

\* recfield, listfield and the list that they build: cc is a ConsControl.
recfield(S, cc) ==
    LET named == Tok(S) = "name"
        s1 == IF named THEN [luaX_next(S) EXCEPT !.e1 = Expr("VKSTR", Val(S))] ELSE yindex(S)
        s2 == luaK_indexed([checknext(s1, "=") EXCEPT !.e1 = Expr("VNONRELOC", cc.base),
                                                      !.e2 = s1.e1])
        s3 == luaK_storevar(expr(s2), s2.e1, "e1")
    IN  [s |-> [s3 EXCEPT !.free = S.free], cc |-> [cc EXCEPT !.nh = @ + 1]]

listfield(S, cc) ==
    LET s1 == expr(S) IN [s |-> s1, cc |-> [cc EXCEPT !.v = s1.e1, !.tostore = @ + 1]]

field(S, cc) ==
    IF Tok(S) = "[" \/ (Tok(S) = "name" /\ Ahead(S) = "=") THEN recfield(S, cc)
    ELSE listfield(S, cc)

ItemToReg(S, cc) == luaK_exp2nextreg([S EXCEPT !.e1 = cc.v], "e1")
closelistfield(S, cc) ==
    LET s1 == ItemToReg(S, cc)
        c1 == [cc EXCEPT !.v = VOID]
    IN  CASE cc.v.k = "VVOID" -> [s |-> S, cc |-> cc]
          [] cc.v.k # "VVOID" /\ cc.tostore = LFIELDS_PER_FLUSH ->
                [s |-> luaK_setlist(s1, cc.base, cc.na, cc.tostore),
                 cc |-> [c1 EXCEPT !.na = @ + cc.tostore, !.tostore = 0]]
          [] OTHER -> [s |-> s1, cc |-> c1]

lastlistfield(S, cc) ==
    CASE cc.tostore = 0 -> [s |-> S, na |-> cc.na]
      [] cc.tostore # 0 /\ hasmultret(cc.v) ->
           [s |-> luaK_setlist(luaK_setreturns([S EXCEPT !.e1 = cc.v], "e1", LUA_MULTRET),
                               cc.base, cc.na, LUA_MULTRET),
            na |-> cc.na - 1 + cc.tostore]
      [] OTHER ->
           [s |-> luaK_setlist(IF cc.v.k = "VVOID" THEN S ELSE ItemToReg(S, cc),
                               cc.base, cc.na, cc.tostore),
            na |-> cc.na + cc.tostore]

fields(S, cc) ==
    IF Tok(S) = "}" THEN [s |-> S, cc |-> cc]
    ELSE LET c == closelistfield(S, cc)
             f == field(c.s, c.cc)
         IN  IF Tok(f.s) \in {",", ";"} THEN fields(luaX_next(f.s), f.cc) ELSE f

constructor(S) ==
    LET s1 == codeABC(codeABC(S, "NEWTABLE", 0, 0, 0), "EXTRAARG", 0, 0, 0)
        base == s1.free
        f == fields(checknext(luaK_reserveregs(s1, 1), "{"),
                    [v |-> VOID, base |-> base, nh |-> 0, na |-> 0, tostore |-> 0])
        l == lastlistfield(checknext(f.s, "}"), f.cc)
    IN  [luaK_settablesize(l.s, Pc(s1) - 1, base, l.na, f.cc.nh)
           EXCEPT !.e1 = Expr("VNONRELOC", base)]

\* funcargs: the function is S.e1, in a register.
funcargs(S) ==
    LET base == S.e1.info
        list == explist(luaX_next(S), 0).s
        args ==
          CASE Tok(S) = "(" /\ Ahead(S) = ")" -> [luaX_next(luaX_next(S)) EXCEPT !.e1 = VOID]
            [] Tok(S) = "(" /\ Ahead(S) # ")" ->
                 checknext(IF hasmultret(list.e1)
                           THEN luaK_setreturns(list, "e1", LUA_MULTRET) ELSE list, ")")
            [] Tok(S) = "{" -> constructor(S)
            [] OTHER -> [luaX_next(S) EXCEPT !.e1 = Expr("VKSTR", Val(S))]
        open == hasmultret(args.e1)
        s1 == IF open \/ args.e1.k = "VVOID" THEN args ELSE luaK_exp2nextreg(args, "e1")
        nparams == IF open THEN LUA_MULTRET ELSE s1.free - (base + 1)
        s2 == codeABC(s1, "CALL", base, nparams + 1, 2)
    IN  [Assert2(s2, S.e1.k = "VNONRELOC") EXCEPT !.e1 = Expr("VCALL", Pc(s2)), !.free = base + 1]

primaryexp(S) ==
    IF Tok(S) = "(" THEN luaK_dischargevars(checknext(expr(luaX_next(S)), ")"), "e1")
    ELSE singlevar(S)

suffixes(S) ==
    LET table == luaK_exp2anyregup(S, "e1")
        key == yindex(table)
        name == luaX_next(S)
    IN  CASE Tok(S) = "." -> suffixes(fieldsel(S))
          [] Tok(S) = "[" ->
               suffixes(luaK_indexed([key EXCEPT !.e1 = table.e1, !.e2 = key.e1]))
          [] Tok(S) = ":" ->
               suffixes(funcargs(luaK_self([luaX_next(name) EXCEPT !.e2 = Expr("VKSTR", Val(name))])))
          [] Tok(S) \in {"(", "string", "{"} -> suffixes(funcargs(luaK_exp2nextreg(S, "e1")))
          [] OTHER -> S
suffixedexp(S) == suffixes(primaryexp(S))

simpleexp(S) ==
    LET const(e) == [luaX_next(S) EXCEPT !.e1 = e]
        s1 == codeABC(S, "VARARG", 0, 0, 1)
    IN  CASE Tok(S) = "flt" -> const(Expr("VKFLT", Val(S)))
          [] Tok(S) = "int" -> const(Expr("VKINT", Val(S)))
          [] Tok(S) = "string" -> const(Expr("VKSTR", Val(S)))
          [] Tok(S) = "nil" -> const(Expr("VNIL", 0))
          [] Tok(S) = "true" -> const(Expr("VTRUE", 0))
          [] Tok(S) = "false" -> const(Expr("VFALSE", 0))
          [] Tok(S) = "..." ->
               [luaX_next(IF S.is_vararg THEN s1 ELSE Fail(s1, "cannot use '...'"))
                  EXCEPT !.e1 = Expr("VVARARG", Pc(s1))]
          [] Tok(S) = "{" -> constructor(S)
          [] Tok(S) = "function" -> body(luaX_next(S), FALSE)
          [] OTHER -> suffixedexp(S)

getunopr(t) ==
    CASE t = "not" -> "not" [] t = "-" -> "unm" [] t = "~" -> "bnot" [] t = "#" -> "len"
      [] OTHER -> ""
BinOps == ArithOps \cup {"..", "==", "<", "<=", "~=", ">", ">=", "and", "or"}
getbinopr(t) == IF t = "~" THEN "xor" ELSE IF t \in BinOps \ {"xor"} THEN t ELSE ""

\* The left and right priorities of an operator.
priority(op) ==
    CASE op \in {"+", "-"} -> <<10, 10>>
      [] op \in {"*", "%", "/", "//"} -> <<11, 11>>
      [] op = "^" -> <<14, 13>>
      [] op = "&" -> <<6, 6>>
      [] op = "|" -> <<4, 4>>
      [] op = "xor" -> <<5, 5>>
      [] op \in {"<<", ">>"} -> <<7, 7>>
      [] op = ".." -> <<9, 8>>
      [] op \in {"==", "<", "<=", "~=", ">", ">="} -> <<3, 3>>
      [] op = "and" -> <<2, 2>>
      [] op = "or" -> <<1, 1>>
UNARY_PRIORITY == 12

subexpr(S, limit) ==
    LET uop == getunopr(Tok(S))
    IN  expand(IF uop = "" THEN simpleexp(S)
               ELSE luaK_prefix(subexpr(luaX_next(S), UNARY_PRIORITY), uop), limit)

\* The loop of subexpr: while operators have priorities higher than `limit'.
expand(S, limit) ==
    LET op == getbinopr(Tok(S))
        s1 == luaK_infix(luaX_next(S), op)
        s2 == subexpr(s1, priority(op)[2])
    IN  IF op = "" THEN S
        ELSE IF priority(op)[1] <= limit THEN S
        ELSE expand(luaK_posfix([s2 EXCEPT !.e1 = s1.e1, !.e2 = s2.e1], op), limit)

-----------------------------------------------------------------------------
(* Statements.                                                             *)

block_follow(S, withuntil) ==
    Tok(S) \in {"else", "elseif", "end", "eos"} \cup (IF withuntil THEN {"until"} ELSE {})

block(S) == leaveblock(statlist(enterblock(S, FALSE)))

\* check_conflict: the variables `lh' assigned before v use a copy of v that is
\* made now, if v is the table or the key of one of them.
check_conflict(S, lh, v) ==
    LET extra == S.free
        table(l) == \/ l.k = "VINDEXUP" /\ v.k = "VUPVAL" /\ l.info = v.info
                    \/ /\ l.k \in {"VINDEXED", "VINDEXI", "VINDEXSTR"}
                       /\ v.k = "VLOCAL" /\ l.info = v.info
        key(l) == l.k = "VINDEXED" /\ v.k = "VLOCAL" /\ l.idx = v.info
        safe(l) == [l EXCEPT !.k = IF table(l) /\ @ = "VINDEXUP" THEN "VINDEXSTR" ELSE @,
                             !.info = IF table(l) THEN extra ELSE @,
                             !.idx = IF key(l) THEN extra ELSE @]
    IN  IF \E i \in DOMAIN lh : table(lh[i]) \/ key(lh[i])
        THEN [s |-> luaK_reserveregs(codeABC(S, IF v.k = "VLOCAL" THEN "MOVE" ELSE "GETUPVAL",
                                             extra, v.info, 0), 1),
              lh |-> [i \in DOMAIN lh |-> safe(lh[i])]]
        ELSE [s |-> S, lh |-> lh]
NeverConflicts(S, lh, v) == [s |-> S, lh |-> lh]             \* variant

Conflict(S, lh, v) == check_conflict(S, lh, v)

Indexed == {"VINDEXED", "VINDEXUP", "VINDEXI", "VINDEXSTR"}

\* restassign: the variables, the last of which is S.e1, then the expressions and
\* the assignments, from the last to the first.
RECURSIVE lhs(_, _), storeall(_, _)
lhs(S, lh) ==
    LET s0 == check_readonly(S, S.e1)
        s1 == suffixedexp(luaX_next(s0))
        all == Append(lh, S.e1)
        c == IF s1.e1.k \in Indexed THEN [s |-> s1, lh |-> all] ELSE Conflict(s1, all, s1.e1)
    IN  IF Tok(S) = "," THEN lhs(c.s, c.lh) ELSE [s |-> s0, lh |-> all]
storeall(S, lh) ==
    IF lh = <<>> THEN S
    ELSE storeall(luaK_storevar([S EXCEPT !.e1 = Expr("VNONRELOC", S.free - 1)], Last(lh), "e1"),
                  Front(lh))
restassign(S) ==
    LET l == lhs(S, <<>>)
        nvars == Len(l.lh)
        x == explist(checknext(l.s, "="), 0)
    IN  IF x.n = nvars
        THEN storeall(luaK_storevar(luaK_setoneret(x.s, "e1"), Last(l.lh), "e1"), Front(l.lh))
        ELSE storeall(adjust_assign(x.s, nvars, x.n), l.lh)

\* cond: the list of jumps when it is false is S.e1.f.
cond(S) ==
    LET s1 == expr(S)
    IN  luaK_goiftrue(IF s1.e1.k = "VNIL" THEN SetE(s1, "e1", "VFALSE", 0) ELSE s1, "e1")

gotostat(S) ==
    LET l == findlabel(S, Val(S))
        lblevel == reglevel(S, S.labels[l].nactvar)
        s1 == luaK_jump(S)
        s2 == luaK_jump(IF luaY_nvarstack(S) > lblevel
                        THEN codeABC(S, "CLOSE", lblevel, 0, 0) ELSE S)
    IN  luaX_next(IF l = 0 THEN newgotoentry(s1, Val(S), Pc(s1))
                  ELSE luaK_patchlist(s2, Pc(s2), S.labels[l].pc))

breakstat(S) == LET s1 == luaK_jump(luaX_next(S)) IN newgotoentry(s1, "break", Pc(s1))

whilestat(S) ==
    LET s1 == luaK_getlabel(luaX_next(S))
        s2 == cond(s1)
        s3 == luaK_jump(block(checknext(enterblock(s2, TRUE), "do")))
        s4 == luaK_patchlist(s3, Pc(s3), Here(s1))
    IN  luaK_patchtohere(leaveblock(checknext(s4, "end")), s2.e1.f)

repeatstat(S) ==
    LET s1 == luaK_getlabel(S)
        s2 == luaX_next(enterblock(enterblock(s1, TRUE), FALSE))
        s3 == cond(checknext(statlist(s2), "until"))
        bl2 == Bl(s3)
        s4 == leaveblock(s3)
        s5 == luaK_jump(s4)
        s6 == codeABC(luaK_patchtohere(s5, s3.e1.f), "CLOSE", reglevel(s5, bl2.nactvar), 0, 0)
        s7 == luaK_jump(s6)
        s8 == luaK_patchtohere(s7, Pc(s5))
    IN  leaveblock(IF bl2.upval THEN luaK_patchlist(s8, Pc(s7), Here(s1))
                   ELSE luaK_patchlist(s4, s3.e1.f, Here(s1)))

\* forbody: the jumps of the loop instructions are the positions they go to.
forbody(S, base, nvars, isgen) ==
    LET s1 == codeABC(checknext(S, "do"), IF isgen THEN "TFORPREP" ELSE "FORPREP", base, 0, 0)
        prep == Pc(s1)
        s2 == luaK_reserveregs(adjustlocalvars(enterblock(s1, FALSE), nvars), nvars)
        s3 == luaK_getlabel(leaveblock(block(s2)))
        s4 == [s3 EXCEPT !.code[prep].b = Here(s3)]
        s5 == IF isgen THEN codeABC(s4, "TFORCALL", base, 0, nvars) ELSE s4
    IN  codeABC(s5, IF isgen THEN "TFORLOOP" ELSE "FORLOOP", base, prep + 1, 0)

exp1(S) == luaK_exp2nextreg(expr(S), "e1")

RECURSIVE newvars(_, _)
newvars(S, n) == IF n = 0 THEN S ELSE newvars(new_localvar(S, "(for state)"), n - 1)

fornum(S, name) ==
    LET base == S.free
        s1 == new_localvar(newvars(S, 3), name)
        s2 == exp1(checknext(exp1(checknext(s1, "=")), ","))
        s3 == IF Tok(s2) = "," THEN exp1(luaX_next(s2))
              ELSE luaK_reserveregs(luaK_int(s2, s2.free, 1), 1)
    IN  forbody(adjustlocalvars(s3, 3), base, 1, FALSE)

RECURSIVE fornames(_)
fornames(S) ==
    IF Tok(S) = "," THEN fornames(luaX_next(new_localvar(luaX_next(S), Val(luaX_next(S))))) ELSE S

forlist(S, name) ==
    LET base == S.free
        s1 == fornames(new_localvar(newvars(S, 4), name))
        x == explist(checknext(s1, "in"), 0)
        s2 == adjustlocalvars(adjust_assign(x.s, 4, x.n), 4)
        s3 == luaK_checkstack(markupval(s2, s2.nactvar), 3)
    IN  forbody(s3, base, Len(s1.vars) - S.nactvar - 4, TRUE)

forstat(S) ==
    LET s1 == luaX_next(enterblock(S, TRUE))
        s2 == luaX_next(s1)
        s3 == IF Tok(s2) = "=" THEN fornum(s2, Val(s1)) ELSE forlist(s2, Val(s1))
    IN  leaveblock(checknext(s3, "end"))

\* test_then_block: the list of jumps out of the statement is kept in `esc'.
RECURSIVE semicolons(_)
semicolons(S) == IF Tok(S) = ";" THEN semicolons(luaX_next(S)) ELSE S

ThenPart(S, jf, esc) ==
    LET s1 == leaveblock(statlist(S))
        s2 == luaK_jump(s1)
        more == Tok(s1) \in {"else", "elseif"}
    IN  [s |-> luaK_patchtohere(IF more THEN Linked(s2, esc, Pc(s2)) ELSE s1, jf),
         esc |-> IF more THEN Joined(esc, Pc(s2)) ELSE esc]
test_then_block(S, esc) ==
    LET s1 == checknext(expr(luaX_next(S)), "then")
        b1 == luaK_goiffalse(s1, "e1")
        b2 == newgotoentry(enterblock(luaX_next(b1), FALSE), "break", b1.e1.t)
        b3 == semicolons(b2)
        b4 == luaK_jump(b3)
        s2 == luaK_goiftrue(s1, "e1")
    IN  CASE Tok(s1) = "break" /\ block_follow(b3, FALSE) -> [s |-> leaveblock(b3), esc |-> esc]
          [] Tok(s1) = "break" /\ ~block_follow(b3, FALSE) -> ThenPart(b4, Pc(b4), esc)
          [] OTHER -> ThenPart(enterblock(s2, FALSE), s2.e1.f, esc)

RECURSIVE elseifs(_)
elseifs(x) == IF Tok(x.s) = "elseif" THEN elseifs(test_then_block(x.s, x.esc)) ELSE x
ifstat(S) ==
    LET x == elseifs(test_then_block(S, NO_JUMP))
        s1 == IF Tok(x.s) = "else" THEN block(luaX_next(x.s)) ELSE x.s
    IN  luaK_patchtohere(checknext(s1, "end"), x.esc)

localfunc(S) == body(adjustlocalvars(new_localvar(luaX_next(S), Val(S)), 1), FALSE)

\* The attribute of the variable just read.
Attribute(S) ==
    IF Tok(S) # "<" THEN "REG"
    ELSE CASE Val(luaX_next(S)) = "const" -> "CONST" [] OTHER -> "TOCLOSE"

\* The variables of a local statement, with their kinds.
RECURSIVE locals(_)
locals(S) ==
    LET s1 == luaX_next(new_localvar(S, Val(S)))
        s2 == [s1 EXCEPT !.vars[Len(s1.vars)].kind = Attribute(s1)]
        s3 == IF Tok(s1) = "<" THEN luaX_next(luaX_next(luaX_next(s2))) ELSE s2
        second == \E i \in S.nactvar + 1..Len(S.vars) : S.vars[i].kind = "TOCLOSE"
        s4 == IF Attribute(s1) = "TOCLOSE" /\ second
              THEN Fail(s3, "multiple to-be-closed variables") ELSE s3
    IN  IF Tok(s4) = "," THEN locals(luaX_next(s4)) ELSE s4

\* checktoclose, for the variable i.
checktoclose(S, i) ==
    LET s1 == markupval(S, i)
    IN  codeABC([s1 EXCEPT !.bl[Len(S.bl)].insidetbc = TRUE], "TBC", reglevel(S, i - 1), 0, 0)

localstat(S) ==
    LET s1 == locals(S)
        n == Len(s1.vars)
        nvars == n - S.nactvar
        x == IF Tok(s1) = "=" THEN explist(luaX_next(s1), 0)
             ELSE [s |-> [s1 EXCEPT !.e1 = VOID], n |-> 0]
        const == luaK_exp2const(x.s.e1)
        s2 == IF nvars = x.n /\ s1.vars[n].kind = "CONST" /\ const # {}
              THEN [adjustlocalvars([x.s EXCEPT !.vars[n].kind = "CTC",
                                                !.vars[n].val = The(const)], nvars - 1)
                      EXCEPT !.nactvar = @ + 1]
              ELSE adjustlocalvars(adjust_assign(x.s, nvars, x.n), nvars)
        toclose == {i \in S.nactvar + 1..n : s1.vars[i].kind = "TOCLOSE"}
    IN  IF toclose = {} THEN s2 ELSE checktoclose(s2, Min(toclose))

RECURSIVE fieldsels(_)
fieldsels(S) == IF Tok(S) = "." THEN fieldsels(fieldsel(S)) ELSE S
funcstat(S) ==
    LET s1 == fieldsels(singlevar(luaX_next(S)))
        ismethod == Tok(s1) = ":"
        s2 == IF ismethod THEN fieldsel(s1) ELSE s1
    IN  luaK_storevar(body(s2, ismethod), s2.e1, "e1")

exprstat(S) ==
    LET s1 == suffixedexp(S)
    IN  IF Tok(s1) \in {"=", ","} THEN restassign(s1)
        ELSE [Assert2(s1, s1.e1.k = "VCALL") EXCEPT !.code[s1.e1.info].c = 1]

retstat(S) ==
    LET first == luaY_nvarstack(S)
        x == explist(S, 0)
        e == x.s.e1
        s1 == luaK_setreturns(x.s, "e1", LUA_MULTRET)
        s2 == IF e.k = "VCALL" /\ x.n = 1 /\ ~Bl(S).insidetbc
              THEN Assert2([s1 EXCEPT !.code[e.info].op = "TAILCALL"],
                           s1.code[e.info].a = luaY_nvarstack(s1))
              ELSE s1
        one == luaK_exp2anyreg(x.s, "e1")
        many == luaK_exp2nextreg(x.s, "e1")
        s3 == CASE block_follow(S, TRUE) \/ Tok(S) = ";" -> luaK_ret(S, first, 0)
                [] ~(block_follow(S, TRUE) \/ Tok(S) = ";") /\ hasmultret(e) ->
                     luaK_ret(s2, first, LUA_MULTRET)
                [] ~(block_follow(S, TRUE) \/ Tok(S) = ";") /\ ~hasmultret(e) /\ x.n = 1 ->
                     luaK_ret(one, one.e1.info, 1)
                [] OTHER -> luaK_ret(Assert2(many, x.n = many.free - first), first, x.n)
    IN  IF Tok(s3) = ";" THEN luaX_next(s3) ELSE s3

RECURSIVE statement(_), noops(_)
\* labelstat, after `::': statements that do nothing are skipped before the label
\* is created.
noops(S) == IF Tok(S) \in {";", "::"} THEN noops(statement(S)) ELSE S
labelstat(S) ==
    LET s1 == noops(checknext(luaX_next(S), "::"))
        s2 == IF findlabel(s1, Val(S)) # 0 THEN Fail(s1, "label already defined") ELSE s1
    IN  createlabel(s2, Val(S), block_follow(s2, FALSE)).s

statement(S) ==
    LET t == Tok(S)
        s1 == luaX_next(S)
        s2 == CASE t = ";" -> s1
                [] t = "if" -> ifstat(S)
                [] t = "while" -> whilestat(S)
                [] t = "do" -> checknext(block(s1), "end")
                [] t = "for" -> forstat(S)
                [] t = "repeat" -> repeatstat(S)
                [] t = "function" -> funcstat(S)
                [] t = "local" -> IF Tok(s1) = "function" THEN localfunc(luaX_next(s1))
                                  ELSE localstat(s1)
                [] t = "::" -> labelstat(s1)
                [] t = "return" -> retstat(s1)
                [] t = "break" -> breakstat(S)
                [] t = "goto" -> gotostat(s1)
                [] OTHER -> exprstat(S)
        n == luaY_nvarstack(s2)
    IN  [Assert2(s2, s2.maxstack >= s2.free /\ s2.free >= n) EXCEPT !.free = n]

statlist(S) ==
    CASE block_follow(S, TRUE) -> S
      [] ~block_follow(S, TRUE) /\ Tok(S) = "return" -> statement(S)
      [] OTHER -> statlist(statement(S))

\* mainfunc: a vararg function with the upvalue _ENV.
luaY_parser(toks) ==
    LET s1 == setvararg(open_func(<<>>, toks, 1, <<>>), 0)
        env == [name |-> "_ENV", instack |-> TRUE, idx |-> 0, kind |-> "REG"]
    IN  close_func(statlist([s1 EXCEPT !.ups = <<env>>]))

=============================================================================
