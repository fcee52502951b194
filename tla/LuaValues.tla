----------------------------- MODULE LuaValues ------------------------------
(***************************************************************************)
(* What operations on values do (lvm.c, ltm.c), apart from the code that   *)
(* calls them.  Besides numbers, nil and booleans, a value is a short      *)
(* string <<"str", s>> or a concatenation <<"cat", pieces>>, a table       *)
(* <<"tab", i>>, a Lua function <<"fun", i>>, an external function         *)
(* <<"ext", name>>, or an object <<"obj", n>> that has a function for      *)
(* every metamethod.                                                       *)
(*                                                                         *)
(* A world `w' has the tables, a log of the events that programs cause     *)
(* outside (calls of external functions and metamethods, each of which     *)
(* returns new objects, numbered by their events), how often `c' and  *)
(* `it' were called, and whether an error was raised; nothing happens then.  *)
(* The order of strings is left out.                                       *)
(***************************************************************************)
EXTENDS Numbers, SequencesExt

CONSTANT MAXTAGLOOP           \* limit for tag-method chains

Log(w, e) == IF w.err THEN w ELSE [w EXCEPT !.log = Append(@, e)]
Raise(w) == [w EXCEPT !.err = TRUE]
NewObj(w) == <<"obj", Len(w.log)>>

\* A call of a metamethod that is a function, with one result.
luaT_callTMres(w, e) == LET l == Log(w, e) IN [w |-> l, v |-> NewObj(l)]
HasTM(v) == v[1] = "obj"
IsString(v) == v[1] \in {"str", "cat"}
\* Strings have metamethods for indexing and arithmetic.
HasArithTM(v) == HasTM(v) \/ IsString(v)

\* External functions: `f' returns two values, `z' none, `c' is true twice and then
\* false, `it' iterates twice.
CallExternal(w, fn, args) ==
    LET l == Log(w, <<"call", fn, args>>)
        n == Len(l.log)
        twice == l.calls[fn[2]] < 2 /\ ~l.err
        counted == [l EXCEPT !.calls[fn[2]] = @ + 1]
    IN  CASE fn = <<"ext", "f">> -> [w |-> l, vs |-> <<NewObj(l), <<"obj", -n>> >>]
          [] fn = <<"ext", "z">> -> [w |-> l, vs |-> <<>>]
          [] fn = <<"ext", "c">> -> [w |-> counted, vs |-> <<IF twice THEN TrueV ELSE FalseV>>]
          [] fn = <<"ext", "it">> ->
                [w |-> counted, vs |-> IF twice THEN <<NewObj(l), <<"obj", -n>> >> ELSE <<NilV>>]
          [] HasTM(fn) -> [w |-> l, vs |-> <<NewObj(l)>>]
          [] OTHER -> [w |-> Raise(w), vs |-> <<>>]
First(vs) == IF vs = <<>> THEN NilV ELSE Head(vs)

-----------------------------------------------------------------------------
(* Tables: [vals, meta], where `meta' is the handler for __index and       *)
(* __newindex of its metatable, or nil.                                    *)

luaH_new(w) ==
    [w EXCEPT !.tabs = Append(@, [vals |-> [k \in {} |-> NilV], meta |-> NilV])]
NormKey(k) ==
    IF ~IsFloat(k) \/ luaV_flttointeger(k, "eq") = {} THEN k
    ELSE IntV(The(luaV_flttointeger(k, "eq")))
luaH_get(t, k) == IF NormKey(k) \in DOMAIN t.vals THEN t.vals[NormKey(k)] ELSE NilV
luaH_set(t, k, v) ==
    LET n == NormKey(k)
        keys == IF v = NilV THEN DOMAIN t.vals \ {n} ELSE DOMAIN t.vals \cup {n}
    IN  [t EXCEPT !.vals = [x \in keys |-> IF x = n THEN v ELSE @[x]]]
luaH_getn(t) ==
    Max({n \in 0..Cardinality(DOMAIN t.vals) : \A i \in 1..n : luaH_get(t, IntV(i)) # NilV})

RECURSIVE luaV_finishget(_, _, _, _), luaV_finishset(_, _, _, _, _)
luaV_finishget(w, t, k, loop) ==
    LET h == w.tabs[t[2]]
        res == CallExternal(w, h.meta, <<t, k>>)
    IN  CASE loop = MAXTAGLOOP -> [w |-> Raise(w), v |-> NilV]
          [] HasArithTM(t) -> luaT_callTMres(w, <<"get", t, k>>)
          [] t[1] # "tab" -> [w |-> Raise(w), v |-> NilV]
          [] luaH_get(h, k) # NilV \/ h.meta = NilV -> [w |-> w, v |-> luaH_get(h, k)]
          [] h.meta[1] = "ext" -> [w |-> res.w, v |-> First(res.vs)]
          [] OTHER -> luaV_finishget(w, h.meta, k, loop + 1)
Get(w, t, k) == luaV_finishget(w, t, k, 0)

luaV_finishset(w, t, k, v, loop) ==
    LET h == w.tabs[t[2]]
    IN  CASE loop = MAXTAGLOOP -> Raise(w)
          [] HasTM(t) -> Log(w, <<"set", t, k, v>>)
          [] t[1] # "tab" -> Raise(w)
          [] luaH_get(h, k) # NilV -> [w EXCEPT !.tabs[t[2]] = luaH_set(@, k, v)]
          [] h.meta = NilV ->
                IF k \in {NilV, NaN} THEN Raise(w) ELSE [w EXCEPT !.tabs[t[2]] = luaH_set(@, k, v)]
          [] h.meta[1] = "ext" -> CallExternal(w, h.meta, <<t, k, v>>).w
          [] OTHER -> luaV_finishset(w, h.meta, k, v, loop + 1)
Set(w, t, k, v) == IF w.err THEN w ELSE luaV_finishset(w, t, k, v, 0)

-----------------------------------------------------------------------------
(* Operators.                                                              *)

\* luaT_trybinTM: tries the metamethod of the first operand, then of the second.
luaT_trybinTM(w, event, v1, v2) ==
    IF HasArithTM(v1) \/ HasArithTM(v2)
    THEN luaT_callTMres(w, <<"arith", event, v1, v2>>)
    ELSE [w |-> Raise(w), v |-> NilV]
luaT_trybinassocTM(w, event, v1, v2, flip) ==
    IF flip THEN luaT_trybinTM(w, event, v2, v1) ELSE luaT_trybinTM(w, event, v1, v2)

\* luaT_callorderTM; the metamethods of objects return a true value.
luaT_callorderTM(w, event, v1, v2) ==
    IF HasTM(v1) \/ HasTM(v2) THEN [w |-> Log(w, <<"order", event, v1, v2>>), b |-> TRUE]
    ELSE [w |-> Raise(w), b |-> FALSE]
luaT_callorderiTM(w, event, v1, i, flip, isfloat) ==
    LET v2 == IF isfloat THEN FltV(2 * i) ELSE IntV(i)
    IN  IF flip THEN luaT_callorderTM(w, event, v2, v1) ELSE luaT_callorderTM(w, event, v1, v2)

\* luaV_lessthan and luaV_lessequal.
Order(w, event, v1, v2) ==
    IF IsNumber(v1) /\ IsNumber(v2)
    THEN [w |-> w, b |-> IF event = "<" THEN LTnum(v1, v2) ELSE LEnum(v1, v2)]
    ELSE luaT_callorderTM(w, event, v1, v2)

luaV_equalobj(w, v1, v2) ==
    CASE IsNumber(v1) /\ IsNumber(v2) -> [w |-> w, b |-> EQnum(v1, v2)]
      [] HasTM(v1) /\ HasTM(v2) /\ v1 # v2 -> [w |-> Log(w, <<"eq", v1, v2>>), b |-> ~w.err]
      [] OTHER -> [w |-> w, b |-> v1 = v2]

\* luaV_concat, of the last values of vs.
Pieces(v) == IF v[1] = "cat" THEN v[2] ELSE <<v>>
tostring(v) == IsString(v) \/ IsNumber(v)
RECURSIVE luaV_concat(_, _)
luaV_concat(w, vs) ==
    LET n == Len(vs)
        strings == {i \in 1..n - 1 : \A j \in i..n : tostring(vs[j])}
        i == IF strings = {} THEN n - 1 ELSE Min(strings)
        tm == luaT_callTMres(w, <<"concat", vs[n - 1], vs[n]>>)
        joined == <<"cat", FlattenSeq([j \in 1..n - i + 1 |-> Pieces(vs[i + j - 1])])>>
    IN  IF n = 1 THEN [w |-> w, v |-> vs[1]]
        ELSE IF strings # {} THEN luaV_concat(w, Append(SubSeq(vs, 1, i - 1), joined))
        ELSE IF HasTM(vs[n - 1]) \/ HasTM(vs[n])
        THEN luaV_concat(tm.w, Append(SubSeq(vs, 1, n - 2), tm.v))
        ELSE [w |-> Raise(w), v |-> NilV]

luaV_objlen(w, v) ==
    CASE v[1] = "tab" -> [w |-> w, v |-> IntV(luaH_getn(w.tabs[v[2]]))]
      [] IsString(v) -> [w |-> w, v |-> IntV(Len(Pieces(v)))]
      [] HasTM(v) -> luaT_callTMres(w, <<"len", v>>)
      [] OTHER -> [w |-> Raise(w), v |-> NilV]

l_isfalse(v) == v \in {NilV, FalseV}

\* luaF_newtbcupval checks that there is a method to close the value; nil and false
\* need none.
CanClose(v) == HasTM(v) \/ l_isfalse(v)
callclosemethod(w, v) == IF l_isfalse(v) THEN w ELSE Log(w, <<"close", v>>)

=============================================================================
