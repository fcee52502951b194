-------------------------- MODULE CoroutinesProofs --------------------------
(***************************************************************************)
(* Proofs about Coroutines: for any number of threads, calls and methods,  *)
(* the lists of CallInfo agree with the C stack however errors, yields,    *)
(* resumes and closes interrupt each other.                                *)
(*                                                                         *)
(* The invariant is stated of any C stack s and any lua_State r of a       *)
(* thread t, so that a step replaces one of them by another.               *)
(***************************************************************************)
EXTENDS Coroutines, FiniteSetTheorems, TLAPS

Fresh == Lua(TRUE)
Plain == Lua(FALSE)
Frame == {Fresh, Plain}
         \cup {PCall(y, old, handler) : y \in BOOLEAN, old \in BOOLEAN, handler \in BOOLEAN}
         \cup {C(kind) : kind \in {"call", "resume", "wrap", "yield", "close"}}
Counter == [c : Nat, ny : Nat]
Methods == [left : Nat, failed : BOOLEAN]
ProtectEntry == [th : Thread, what : {"protect"}, nC : Counter, k : Nat \cup Methods,
                 by : {"main", "resume", "unroll", "pcall", "close"}]
CallEntry == [th : Thread, what : {"call"}, ny : {0, 1}, k : Nat,
              by : {"main", "call", "pcall", "body", "close", "handler"}]
Entry == ProtectEntry \cup CallEntry \cup [th : Thread, what : {"resumed"}]
State == [status : {"none", "ok", "yield", "error"}, fn : BOOLEAN, ci : Seq(Frame),
          nC : Counter, errfunc : BOOLEAN]

TypeOK == /\ th \in [Thread -> State] /\ cs \in Seq(Entry)
          /\ mode \in {"run", "error", "throw", "undefined"}

-----------------------------------------------------------------------------
(* The C stack.                                                            *)

\* Each thread has one piece of it, which begins with a base.
Pieces(s) ==
    /\ \A i, k \in DOMAIN s : i <= k /\ s[i].th = s[k].th => \A j \in i..k : s[j].th = s[i].th
    /\ \A i \in DOMAIN s : \E b \in 1..i : IsBase(s[b]) /\ s[b].th = s[i].th
    /\ \A b \in DOMAIN s : IsBase(s[b]) => \A i \in 1..b - 1 : s[i].th # s[b].th

\* What is called under a setjmp, and what may only be called there.
Protected(x, y) ==
    /\ y.th = x.th
    /\ x.by = "main" => y = CCall(main, "main", 1, 0)
    /\ x.by = "resume" => y.what = "resumed" \/ y = CCall(x.th, "body", 0, 0)
    /\ x.by = "close" => y = CCall(x.th, "close", 1, 0) /\ x.k \in Methods
    /\ x.by = "pcall" => y = CCall(x.th, "pcall", 1, x.k)
Needs(y) == IF y.what = "resumed" THEN {"resume"}
            ELSE IF ~IsCall(y) THEN {}
            ELSE IF y.by = "body" THEN {"resume"}
            ELSE IF y.by \in {"main", "close"} THEN {y.by}
            ELSE IF y.by = "pcall" /\ y.ny = 1 THEN {"pcall"} ELSE {}
Protection(s) ==
    /\ \A i \in DOMAIN s : IsProtect(s[i]) /\ s[i].by # "unroll" =>
          i + 1 \in DOMAIN s /\ Protected(s[i], s[i + 1])
    /\ \A i \in DOMAIN s : Needs(s[i]) # {} =>
          i > 1 /\ IsProtect(s[i - 1]) /\ s[i - 1].by \in Needs(s[i])

Stack(s) ==
    /\ s \in Seq(Entry) /\ Len(s) > 1
    /\ s[1] = Protect(main, "main", [c |-> 0, ny |-> 1], 0)
    /\ \A i \in DOMAIN s : IsProtect(s[i]) /\ s[i].by = "main" => i = 1
    /\ Pieces(s) /\ Protection(s)

InStack(s, t) == \E i \in DOMAIN s : s[i].th = t
Base(s, b, t) == b \in DOMAIN s /\ IsBase(s[b]) /\ s[b].th = t

-----------------------------------------------------------------------------
(* The CallInfo of a thread, ci, and the calls that the C stack has of it, *)
(* at their positions, g.                                                  *)

Calls(s, t) == [i \in {i \in DOMAIN s : s[i].th = t /\ IsCall(s[i])} |-> s[i]]

CallOK(ci, x) ==
    /\ x.k <= Len(ci) /\ (x.k < Len(ci) => ci[x.k + 1] = Fresh)
    /\ x.by = "call" => x.ny = 1 /\ x.k > 0 /\ ci[x.k] = C("call")
    /\ x.by = "pcall" => x.k > 0 /\ IsPCall(ci[x.k]) /\ ci[x.k].ypcall = (x.ny = 0)
    /\ x.by = "handler" => x.ny = 1
    /\ x.by \in {"main", "close", "body"} => x.k = 0
    /\ x.by \in {"main", "close"} => x.ny = 1
    /\ x.by = "body" => x.ny = 0

\* C functions are called by Lua functions, and so are those that are not fresh.
CalledByLua(ci) == \A j \in DOMAIN ci : ci[j] = Fresh \/ (j > 1 /\ IsLua(ci[j - 1]))
\* Calls nest; only a handler is called where a call has failed.
Nested(g) == \A i, j \in DOMAIN g : i < j =>
                g[i].k <= g[j].k /\ (g[i].k = g[j].k => g[j].by = "handler")
\* A C function without a continuation is on the C stack.
NoneLost(ci, g) == \A j \in DOMAIN ci : Unfinished(ci[j]) =>
                      \E i \in DOMAIN g : OnStack(g[i]) /\ g[i].k = j
\* A fresh function was called from C, or it has lost its caller.
FreshCalled(ci, g) == \A j \in DOMAIN ci : ci[j] = Fresh /\ j > 1 =>
                         \/ \E i \in DOMAIN g : g[i].k = j - 1
                         \/ IsYPCall(ci[j - 1]) /\ \A i \in DOMAIN g : g[i].k >= j
\* Where yields are forbidden, no continuation is kept.
NoneKept(ci, g) == \A i \in DOMAIN g, j \in DOMAIN ci :
                      g[i].ny = 1 /\ IsYPCall(ci[j]) => j <= g[i].k

Agree(ci, g) ==
    /\ CalledByLua(ci) /\ \A i \in DOMAIN g : CallOK(ci, g[i])
    /\ Nested(g) /\ NoneLost(ci, g) /\ FreshCalled(ci, g) /\ NoneKept(ci, g)

\* Every call that was begun has its CallInfo.
Entered(ci, g) == \A i \in DOMAIN g : g[i].k < Len(ci)

\* Handlers.
HandlersAgree(ci, errfunc) ==
    /\ errfunc <=> HandlerAmong(ci, Len(ci))
    /\ \A j \in DOMAIN ci : IsPCall(ci[j]) => (ci[j].old <=> HandlerAmong(ci, j - 1))

\* Counters.
CallsUpTo(s, t, n) == {i \in 1..n : s[i].th = t /\ ~IsProtect(s[i])}
ForbiddingUpTo(s, t, n) == {i \in CallsUpTo(s, t, n) : IsCall(s[i]) /\ s[i].ny = 1}
Counted(base, s, t, n) == [c |-> base.c + Cardinality(CallsUpTo(s, t, n)),
                           ny |-> base.ny + Cardinality(ForbiddingUpTo(s, t, n))]
CountsAgree(t, nC, s) ==
    \A b \in DOMAIN s : Base(s, b, t) =>
        /\ nC = Counted(s[b].nC, s, t, Len(s))
        /\ \A i \in DOMAIN s : s[i].th = t /\ IsProtect(s[i]) /\ s[i].by = "pcall" =>
              s[i].nC = Counted(s[b].nC, s, t, i)

-----------------------------------------------------------------------------
(* The inductive invariant.                                                *)

Status(t, r, s) ==
    /\ r.status = "none" => ~r.fn /\ r.ci = <<>> /\ ~r.errfunc /\ ~InStack(s, t)
    /\ r.fn => r.status = "ok" /\ r.ci = <<>> /\ ~r.errfunc /\ ~InStack(s, t)
    /\ r.status = "ok" /\ ~InStack(s, t) => r.ci = <<>>
    /\ r.status = "yield" /\ ~InStack(s, t) => r.ci # <<>> /\ Last(r.ci) = C("yield")
    /\ \A b \in DOMAIN s : Base(s, b, t) /\ s[b].by # "close" => r.status = "ok"

Local(t, r, s) ==
    /\ InStack(s, t) \/ r.status # "error" => Agree(r.ci, Calls(s, t))
    /\ Status(t, r, s)
    /\ (\E b \in DOMAIN s : Base(s, b, t) /\ s[b].by # "close")
         \/ (~InStack(s, t) /\ r.status = "yield") => HandlersAgree(r.ci, r.errfunc)
    /\ CountsAgree(t, r.nC, s)

\* The thread, with the lua_State q, that has resumed the one whose base is b.
Caller_(s, b, q) ==
    /\ q.ci # <<>> /\ Entered(q.ci, Calls(s, s[b - 1].th))
    /\ s[b].by = "close" => Last(q.ci) \in {C("close"), C("wrap")}
    /\ s[b].by # "close" => /\ Last(q.ci) \in {C("resume"), C("wrap")}
                            /\ s[b].nC = [c |-> q.nC.c, ny |-> 0]
Callers(h, s) ==
    /\ \A b \in DOMAIN s : b > 1 /\ IsBase(s[b]) => Caller_(s, b, h[s[b - 1].th])
    /\ \A i \in DOMAIN s : s[i].th # Last(s).th => h[s[i].th].ci # <<>>

Running(r, s) == r.ci # <<>> /\ IsLua(Last(r.ci)) /\ Entered(r.ci, Calls(s, Last(s).th))

Consistent(h, s) == /\ h \in [Thread -> State] /\ Stack(s) /\ Callers(h, s)
                    /\ \A t \in Thread : Local(t, h[t], s)

Inv == /\ Consistent(th, cs) /\ mode \in {"run", "error", "throw", "undefined"}
       /\ mode = "run" => Running(th[T], cs)

-----------------------------------------------------------------------------
(* Sequences and frames.                                                   *)

LEMMA Appended ==
    ASSUME NEW S, NEW s \in Seq(S), NEW x \in S
    PROVE  /\ Append(s, x) \in Seq(S) /\ Append(s, x) # <<>> /\ Last(Append(s, x)) = x
           /\ Len(Append(s, x)) = Len(s) + 1 /\ Append(s, x)[Len(s) + 1] = x
           /\ DOMAIN Append(s, x) = 1..Len(s) + 1
           /\ \A i \in 1..Len(s) : Append(s, x)[i] = s[i]
  <1>1. Append(s, x) \in Seq(S) /\ Len(Append(s, x)) = Len(s) + 1 /\ Append(s, x) # <<>>
        /\ Append(s, x)[Len(s) + 1] = x /\ \A i \in 1..Len(s) : Append(s, x)[i] = s[i]
    OBVIOUS
  <1>2. DOMAIN Append(s, x) = 1..Len(s) + 1
    BY <1>1
  <1>3. Last(Append(s, x)) = x
    BY <1>1 DEF Last
  <1> QED
    BY <1>1, <1>2, <1>3

LEMMA Prefix ==
    ASSUME NEW S, NEW s \in Seq(S), NEW n \in 0..Len(s)
    PROVE  /\ SubSeq(s, 1, n) \in Seq(S) /\ Len(SubSeq(s, 1, n)) = n
           /\ DOMAIN SubSeq(s, 1, n) = 1..n
           /\ \A i \in 1..n : SubSeq(s, 1, n)[i] = s[i]
           /\ SubSeq(s, 1, n) = <<>> <=> n = 0
           /\ n > 0 => Last(SubSeq(s, 1, n)) = s[n]
  <1>1. SubSeq(s, 1, n) \in Seq(S) /\ Len(SubSeq(s, 1, n)) = n
    OBVIOUS
  <1>2. \A i \in 1..n : SubSeq(s, 1, n)[i] = s[i]
    OBVIOUS
  <1>3. SubSeq(s, 1, n) = <<>> <=> n = 0
    BY <1>1
  <1>4. DOMAIN SubSeq(s, 1, n) = 1..n
    BY <1>1
  <1>5. n > 0 => Last(SubSeq(s, 1, n)) = s[n]
    BY <1>1, <1>2 DEF Last
  <1> QED
    BY <1>1, <1>2, <1>3, <1>4, <1>5

LEMMA IsSeq ==
    ASSUME NEW S, NEW s \in Seq(S)
    PROVE  /\ Len(s) \in Nat /\ DOMAIN s = 1..Len(s) /\ \A i \in DOMAIN s : s[i] \in S
           /\ s # <<>> <=> Len(s) > 0
           /\ s # <<>> => Last(s) = s[Len(s)] /\ Last(s) \in S
  <1>1. Len(s) \in Nat /\ DOMAIN s = 1..Len(s) /\ \A i \in DOMAIN s : s[i] \in S
    OBVIOUS
  <1>2. s # <<>> <=> Len(s) > 0
    OBVIOUS
  <1> QED
    BY <1>1, <1>2 DEF Last

\* The kinds of frames.
LEMMA LuaFrames ==
    /\ Fresh \in Frame /\ IsLua(Fresh) /\ ~Unfinished(Fresh) /\ ~IsYPCall(Fresh) /\ ~IsPCall(Fresh)
    /\ Plain \in Frame /\ IsLua(Plain) /\ ~Unfinished(Plain) /\ ~IsYPCall(Plain) /\ ~IsPCall(Plain)
    /\ Plain # Fresh /\ Fresh.fresh = TRUE /\ Plain.fresh = FALSE
  BY DEF Fresh, Plain, Lua, Frame, IsLua, Unfinished, IsYPCall, IsPCall

LEMMA PCallFrames ==
    ASSUME NEW y \in BOOLEAN, NEW o \in BOOLEAN, NEW h \in BOOLEAN, NEW f, f = PCall(y, o, h)
    PROVE  /\ f \in Frame /\ ~IsLua(f) /\ IsPCall(f) /\ f # Fresh
           /\ f.ypcall = y /\ f.old = o /\ f.handler = h
           /\ (IsYPCall(f) <=> y) /\ (Unfinished(f) <=> ~y)
  BY DEF PCall, Frame, IsLua, Unfinished, IsYPCall, IsPCall, Fresh, Lua

LEMMA CFrames ==
    ASSUME NEW k \in {"call", "resume", "wrap", "yield", "close"}, NEW f, f = C(k)
    PROVE  /\ f \in Frame /\ f.kind = k /\ ~IsLua(f) /\ ~IsPCall(f) /\ ~IsYPCall(f)
           /\ (Unfinished(f) <=> k = "call") /\ f # Fresh
  BY DEF C, Frame, IsLua, Unfinished, IsYPCall, IsPCall, Fresh, Lua

LEMMA FrameKinds ==
    ASSUME NEW f \in Frame
    PROVE  /\ IsLua(f) => ~IsPCall(f) /\ ~IsYPCall(f) /\ ~Unfinished(f)
           /\ IsLua(f) => f = Fresh \/ f = Plain
           /\ IsLua(f) => f.fresh \in BOOLEAN /\ (f.fresh <=> f = Fresh)
           /\ IsYPCall(f) => IsPCall(f) /\ ~Unfinished(f)
           /\ IsPCall(f) => /\ f.ypcall \in BOOLEAN /\ f.old \in BOOLEAN /\ f.handler \in BOOLEAN
                            /\ (IsYPCall(f) <=> f.ypcall) /\ (Unfinished(f) <=> ~f.ypcall)
           /\ ~IsLua(f) => f # Fresh /\ f # Plain
  <1>1. CASE f \in {Fresh, Plain}
    BY <1>1, LuaFrames
  <1>2. CASE \E y, o, h \in BOOLEAN : f = PCall(y, o, h)
    <2>1. PICK y \in BOOLEAN, o \in BOOLEAN, h \in BOOLEAN : f = PCall(y, o, h)
      BY <1>2
    <2>2. /\ ~IsLua(f) /\ IsPCall(f) /\ f.ypcall \in BOOLEAN /\ f.old \in BOOLEAN
          /\ f.handler \in BOOLEAN
      BY <2>1, PCallFrames
    <2>3. (IsYPCall(f) <=> f.ypcall) /\ (Unfinished(f) <=> ~f.ypcall)
      BY <2>2 DEF IsYPCall, Unfinished, IsPCall
    <2> QED
      BY <2>2, <2>3, LuaFrames
  <1>3. CASE \E k \in {"call", "resume", "wrap", "yield", "close"} : f = C(k)
    <2>1. PICK k \in {"call", "resume", "wrap", "yield", "close"} : f = C(k)
      BY <1>3
    <2>2. ~IsLua(f) /\ ~IsPCall(f) /\ ~IsYPCall(f)
      BY <2>1, CFrames
    <2> QED
      BY <2>2, LuaFrames
  <1>4. f \in {Fresh, Plain} \/ (\E y, o, h \in BOOLEAN : f = PCall(y, o, h))
        \/ \E k \in {"call", "resume", "wrap", "yield", "close"} : f = C(k)
    BY DEF Frame
  <1> QED
    BY <1>1, <1>2, <1>3, <1>4

-----------------------------------------------------------------------------
(* What keeps a list and the calls in agreement.                           *)

\* OP_CALL, and C functions that do not call.
LEMMA AgreePush ==
    ASSUME NEW ci \in Seq(Frame), NEW I \in SUBSET Nat, NEW g \in [I -> CallEntry],
           Agree(ci, g), Entered(ci, g), ci # <<>>, IsLua(Last(ci)),
           NEW f \in {Plain} \cup {C(kind) : kind \in {"resume", "wrap", "yield", "close"}}
    PROVE  Agree(Append(ci, f), g)
  <1>1. /\ f \in Frame /\ f # Fresh /\ ~Unfinished(f) /\ ~IsYPCall(f)
    BY LuaFrames, CFrames
  <1>2. PICK d \in Seq(Frame) : d = Append(ci, f)
    BY <1>1, Appended
  <1>3. PICK n \in Nat : n = Len(ci)
    BY IsSeq
  <1>4. /\ Len(d) = n + 1 /\ DOMAIN d = 1..n + 1 /\ d[n + 1] = f /\ \A i \in 1..n : d[i] = ci[i]
    BY <1>2, <1>1, <1>3, Appended
  <1>5. DOMAIN ci = 1..n /\ n > 0 /\ IsLua(ci[n])
    BY <1>3, IsSeq
  <1>6. CalledByLua(d)
    BY <1>3, <1>4, <1>5 DEF Agree, CalledByLua
  <1>7. ASSUME NEW i \in DOMAIN g PROVE CallOK(d, g[i])
    <2>1. CallOK(ci, g[i]) /\ g[i].k \in Nat /\ g[i].k < n
      BY <1>3 DEF Agree, Entered, CallEntry
    <2>2. d[g[i].k + 1] = ci[g[i].k + 1] /\ (g[i].k > 0 => d[g[i].k] = ci[g[i].k])
      BY <1>3, <1>4, <2>1
    <2> QED
      BY <1>3, <1>4, <2>1, <2>2 DEF CallOK
  <1>8. NoneLost(d, g)
    BY <1>1, <1>3, <1>4, <1>5 DEF Agree, NoneLost
  <1>9. FreshCalled(d, g)
    BY <1>1, <1>3, <1>4, <1>5 DEF Agree, FreshCalled
  <1>10. NoneKept(d, g)
    BY <1>1, <1>3, <1>4, <1>5 DEF Agree, NoneKept
  <1> QED
    BY <1>2, <1>6, <1>7, <1>8, <1>9, <1>10 DEF Agree

\* The function that a C function calls.
LEMMA AgreeCallee ==
    ASSUME NEW ci \in Seq(Frame), NEW I \in SUBSET Nat, NEW g \in [I -> CallEntry],
           Agree(ci, g), NEW m \in I, g[m].k = Len(ci)
    PROVE  Agree(Append(ci, Fresh), g) /\ Entered(Append(ci, Fresh), g)
  <1>1. PICK d \in Seq(Frame) : d = Append(ci, Fresh)
    BY LuaFrames, Appended
  <1>2. PICK f \in Frame : f = Fresh /\ ~Unfinished(f) /\ ~IsYPCall(f)
    BY LuaFrames
  <1>3. PICK n \in Nat : n = Len(ci)
    BY IsSeq
  <1>4. /\ Len(d) = n + 1 /\ DOMAIN d = 1..n + 1 /\ d[n + 1] = f /\ \A i \in 1..n : d[i] = ci[i]
    BY <1>1, <1>2, <1>3, Appended
  <1>5. DOMAIN ci = 1..n /\ \A i \in I : g[i].k \in Nat /\ g[i].k <= n
    BY <1>3, IsSeq DEF Agree, CallOK, CallEntry
  <1>6. CalledByLua(d)
    BY <1>2, <1>3, <1>4, <1>5 DEF Agree, CalledByLua
  <1>7. ASSUME NEW i \in DOMAIN g PROVE CallOK(d, g[i])
    <2>1. CallOK(ci, g[i]) /\ g[i].k \in Nat /\ g[i].k <= n
      BY <1>5 DEF Agree
    <2>2. d[g[i].k + 1] = Fresh /\ (g[i].k > 0 => d[g[i].k] = ci[g[i].k])
      <3>1. CASE g[i].k = n
        BY <1>2, <1>4, <3>1
      <3>2. CASE g[i].k < n
        BY <1>3, <1>4, <2>1, <3>2 DEF CallOK
      <3> QED
        BY <2>1, <3>1, <3>2
    <2> QED
      BY <1>3, <1>4, <2>1, <2>2 DEF CallOK
  <1>8. NoneLost(d, g)
    BY <1>2, <1>3, <1>4, <1>5 DEF Agree, NoneLost
  <1>9. FreshCalled(d, g)
    <2> SUFFICES ASSUME NEW j \in DOMAIN d, d[j] = Fresh, j > 1
                 PROVE  \/ \E i \in DOMAIN g : g[i].k = j - 1
                        \/ IsYPCall(d[j - 1]) /\ \A i \in DOMAIN g : g[i].k >= j
      BY DEF FreshCalled
    <2>1. CASE j = n + 1
      BY <1>3, <2>1
    <2>2. CASE j # n + 1
      <3>1. j \in 1..n /\ j - 1 \in 1..n /\ ci[j] = Fresh /\ d[j - 1] = ci[j - 1]
        BY <1>3, <1>4, <2>2
      <3> QED
        BY <1>5, <3>1 DEF Agree, FreshCalled
    <2> QED
      BY <2>1, <2>2
  <1>10. NoneKept(d, g)
    BY <1>2, <1>3, <1>4, <1>5 DEF Agree, NoneKept
  <1>11. Entered(d, g)
    <2> SUFFICES ASSUME NEW i \in I PROVE g[i].k < Len(d)
      BY DEF Entered
    <2> QED
      BY <1>3, <1>4, <1>5
  <1> QED
    BY <1>1, <1>6, <1>7, <1>8, <1>9, <1>10, <1>11 DEF Agree

\* One more call, x, after those of g.
More(g, n, x) == [i \in DOMAIN g \cup {n} |-> IF i = n THEN x ELSE g[i]]

\* luaG_errormsg.
LEMMA AgreeHandler ==
    ASSUME NEW ci \in Seq(Frame), NEW I \in SUBSET Nat, NEW g \in [I -> CallEntry], Agree(ci, g),
           NEW n \in Nat, \A i \in I : i < n, NEW x \in CallEntry,
           x.by = "handler", x.ny = 1, x.k = Len(ci)
    PROVE  Agree(ci, More(g, n, x))
  <1>1. PICK h \in [I \cup {n} -> CallEntry] : h = More(g, n, x)
    BY DEF More
  <1>2. n \notin I /\ DOMAIN h = I \cup {n} /\ h[n] = x /\ \A i \in I : h[i] = g[i]
    BY <1>1 DEF More
  <1>3. \A i \in I : g[i].k \in Nat /\ g[i].k <= Len(ci)
    BY DEF Agree, CallOK, CallEntry
  <1>4. Len(ci) \in Nat /\ DOMAIN ci = 1..Len(ci)
    BY IsSeq
  <1>5. CalledByLua(ci) /\ \A i \in DOMAIN h : CallOK(ci, h[i])
    BY <1>2, <1>4 DEF Agree, CallOK
  <1>6. Nested(h)
    BY <1>2, <1>3, <1>4 DEF Agree, Nested
  <1>7. NoneLost(ci, h)
    BY <1>2 DEF Agree, NoneLost
  <1>8. FreshCalled(ci, h)
    BY <1>2, <1>4 DEF Agree, FreshCalled
  <1>9. NoneKept(ci, h)
    BY <1>2, <1>4 DEF Agree, NoneKept
  <1> QED
    BY <1>1, <1>5, <1>6, <1>7, <1>8, <1>9 DEF Agree

\* A C function that calls.
LEMMA AgreeCall ==
    ASSUME NEW ci \in Seq(Frame), NEW I \in SUBSET Nat, NEW g \in [I -> CallEntry],
           Agree(ci, g), Entered(ci, g), ci # <<>>, IsLua(Last(ci)),
           NEW n \in Nat, \A i \in I : i < n,
           NEW f \in Frame, NEW x \in CallEntry, x.k = Len(ci) + 1,
           \/ f = C("call") /\ x.by = "call" /\ x.ny = 1
           \/ IsPCall(f) /\ x.by = "pcall" /\ f.ypcall = (x.ny = 0),
           IsYPCall(f) => \A i \in I : g[i].ny = 0
    PROVE  Agree(Append(ci, f), More(g, n, x))
  <1>1. PICK h \in [I \cup {n} -> CallEntry] : h = More(g, n, x)
    BY DEF More
  <1>2. n \notin I /\ DOMAIN h = I \cup {n} /\ h[n] = x /\ \A i \in I : h[i] = g[i]
    BY <1>1 DEF More
  <1>3. PICK d \in Seq(Frame) : d = Append(ci, f)
    BY Appended
  <1>4. PICK l \in Nat : l = Len(ci)
    BY IsSeq
  <1>5. /\ Len(d) = l + 1 /\ DOMAIN d = 1..l + 1 /\ d[l + 1] = f /\ \A i \in 1..l : d[i] = ci[i]
    BY <1>3, <1>4, Appended
  <1>6. DOMAIN ci = 1..l /\ l > 0 /\ IsLua(ci[l]) /\ x.k = l + 1
    BY <1>4, IsSeq
  <1>7. \A i \in I : g[i].k \in Nat /\ g[i].k < l
    BY <1>4 DEF Entered, CallEntry
  <1>8. ~IsLua(f) /\ f # Fresh /\ (Unfinished(f) => OnStack(x))
    <2>1. CASE f = C("call")
      BY <2>1, CFrames DEF OnStack, IsCall, CallEntry
    <2>2. CASE IsPCall(f)
      BY <2>2, FrameKinds, LuaFrames DEF OnStack, IsCall, CallEntry
    <2> QED
      BY <2>1, <2>2
  <1>9. CalledByLua(d)
    BY <1>4, <1>5, <1>6 DEF Agree, CalledByLua
  <1>10. ASSUME NEW i \in DOMAIN h PROVE CallOK(d, h[i])
    <2>1. CASE i = n
      BY <1>2, <1>4, <1>5, <1>6, <2>1 DEF CallOK, C, IsPCall
    <2>2. CASE i # n
      <3>1. CallOK(ci, g[i]) /\ h[i] = g[i] /\ g[i].k \in Nat /\ g[i].k < l
        BY <1>2, <1>7, <2>2 DEF Agree
      <3>2. d[g[i].k + 1] = ci[g[i].k + 1] /\ (g[i].k > 0 => d[g[i].k] = ci[g[i].k])
        BY <1>4, <1>5, <3>1
      <3> QED
        BY <1>4, <1>5, <3>1, <3>2 DEF CallOK
    <2> QED
      BY <2>1, <2>2
  <1>11. Nested(h)
    BY <1>2, <1>4, <1>6, <1>7 DEF Agree, Nested
  <1>12. NoneLost(d, h)
    BY <1>2, <1>4, <1>5, <1>6, <1>8 DEF Agree, NoneLost
  <1>13. FreshCalled(d, h)
    <2> SUFFICES ASSUME NEW j \in DOMAIN d, d[j] = Fresh, j > 1
                 PROVE  \/ \E i \in DOMAIN h : h[i].k = j - 1
                        \/ IsYPCall(d[j - 1]) /\ \A i \in DOMAIN h : h[i].k >= j
      BY DEF FreshCalled
    <2>1. j \in 1..l /\ j - 1 \in 1..l /\ ci[j] = Fresh /\ d[j - 1] = ci[j - 1]
      BY <1>4, <1>5, <1>8
    <2>2. CASE \E i \in I : g[i].k = j - 1
      BY <1>2, <2>2
    <2>3. CASE IsYPCall(ci[j - 1]) /\ \A i \in I : g[i].k >= j
      BY <1>2, <1>4, <1>6, <2>1, <2>3
    <2> QED
      BY <1>6, <2>1, <2>2, <2>3 DEF Agree, FreshCalled
  <1>14. NoneKept(d, h)
    <2> SUFFICES ASSUME NEW i \in DOMAIN h, NEW j \in DOMAIN d, h[i].ny = 1, IsYPCall(d[j])
                 PROVE  j <= h[i].k
      BY DEF NoneKept
    <2>1. CASE i = n
      BY <1>2, <1>4, <1>5, <1>6, <2>1
    <2>2. CASE i # n
      <3>1. i \in I /\ g[i].ny = 1 /\ h[i] = g[i]
        BY <1>2, <2>2
      <3>2. j # l + 1
        BY <1>5, <3>1
      <3> QED
        BY <1>4, <1>5, <1>6, <3>1, <3>2 DEF Agree, NoneKept
    <2> QED
      BY <2>1, <2>2
  <1> QED
    BY <1>1, <1>3, <1>9, <1>10, <1>11, <1>12, <1>13, <1>14 DEF Agree

\* Functions return, or an error goes to a setjmp: some frames and calls are left.
Numbered(g) == DOMAIN g \in SUBSET Nat /\ g \in [DOMAIN g -> CallEntry]
Cuts(g, h, m) == /\ DOMAIN h \in SUBSET DOMAIN g
                 /\ \A i \in DOMAIN h : h[i] = g[i] /\ g[i].k <= m
                 /\ \A i \in DOMAIN g \ DOMAIN h : g[i].k >= m /\ (OnStack(g[i]) => g[i].k > m)

LEMMA AgreeCut ==
    ASSUME NEW ci \in Seq(Frame), NEW g, Numbered(g), Agree(ci, g), NEW m \in 0..Len(ci),
           NEW h, Numbered(h), Cuts(g, h, m)
    PROVE  Agree(SubSeq(ci, 1, m), h)
  <1>1. PICK I \in SUBSET Nat : I = DOMAIN g
    BY DEF Numbered
  <1>2. PICK J \in SUBSET I : J = DOMAIN h
    BY <1>1 DEF Cuts
  <1>3. g \in [I -> CallEntry] /\ h \in [J -> CallEntry]
    BY <1>1, <1>2 DEF Numbered
  <1>4. /\ \A i \in J : h[i] = g[i] /\ g[i].k <= m
        /\ \A i \in I \ J : g[i].k >= m /\ (OnStack(g[i]) => g[i].k > m)
    BY <1>1, <1>2 DEF Cuts
  <1>5. PICK d \in Seq(Frame) : d = SubSeq(ci, 1, m)
    BY Prefix
  <1>6. Len(d) = m /\ DOMAIN d = 1..m /\ \A i \in 1..m : d[i] = ci[i]
    BY <1>5, Prefix
  <1>7. PICK l \in Nat : l = Len(ci) /\ DOMAIN ci = 1..l
    BY IsSeq
  <1>8. m \in Nat /\ m <= l /\ \A i \in I : g[i].k \in Nat
    BY <1>7, <1>3 DEF CallEntry
  <1>9. CalledByLua(d)
    BY <1>6, <1>7, <1>8 DEF Agree, CalledByLua
  <1>10. ASSUME NEW i \in DOMAIN h PROVE CallOK(d, h[i])
    <2>1. CallOK(ci, g[i]) /\ h[i] = g[i] /\ g[i].k \in Nat /\ g[i].k <= m
      BY <1>8, <1>1, <1>2, <1>4 DEF Agree
    <2>2. (g[i].k < m => d[g[i].k + 1] = ci[g[i].k + 1]) /\ (g[i].k > 0 => d[g[i].k] = ci[g[i].k])
      BY <1>6, <1>8, <2>1
    <2> QED
      BY <1>6, <1>7, <1>8, <2>1, <2>2 DEF CallOK
  <1>11. Nested(h)
    BY <1>1, <1>2, <1>4 DEF Agree, Nested
  <1>12. NoneLost(d, h)
    <2> SUFFICES ASSUME NEW j \in 1..m, Unfinished(ci[j])
                 PROVE  \E i \in J : OnStack(h[i]) /\ h[i].k = j
      BY <1>6, <1>2 DEF NoneLost
    <2>1. PICK i \in I : OnStack(g[i]) /\ g[i].k = j
      BY <1>7, <1>8, <1>1 DEF Agree, NoneLost
    <2>2. g[i].k \in Nat /\ g[i].k <= m
      BY <1>8, <2>1
    <2>3. i \in J
      <3>1. i \in I \ J => g[i].k > m
        BY <1>4, <2>1
      <3> QED
        BY <1>8, <2>2, <3>1
    <2> QED
      BY <1>4, <2>1, <2>3
  <1>13. FreshCalled(d, h)
    <2> SUFFICES ASSUME NEW j \in 1..m, ci[j] = Fresh, j > 1
                 PROVE  \/ \E i \in J : h[i].k = j - 1
                        \/ IsYPCall(ci[j - 1]) /\ \A i \in J : h[i].k >= j
      BY <1>6, <1>8, <1>2 DEF FreshCalled
    <2>1. CASE \E i \in I : g[i].k = j - 1
      <3>1. PICK i \in I : g[i].k = j - 1
        BY <2>1
      <3>2. i \in J
        <4>1. i \in I \ J => g[i].k >= m
          BY <1>4
        <4> QED
          BY <1>8, <3>1, <4>1
      <3> QED
        BY <1>4, <3>1, <3>2
    <2>2. CASE IsYPCall(ci[j - 1]) /\ \A i \in I : g[i].k >= j
      BY <1>4, <2>2
    <2>3. j \in DOMAIN ci
      BY <1>7, <1>8
    <2>4. (\E i \in I : g[i].k = j - 1) \/ (IsYPCall(ci[j - 1]) /\ \A i \in I : g[i].k >= j)
      BY <1>1, <2>3 DEF Agree, FreshCalled
    <2> QED
      BY <2>1, <2>2, <2>4
  <1>14. NoneKept(d, h)
    <2> SUFFICES ASSUME NEW i \in J, NEW j \in 1..m, h[i].ny = 1, IsYPCall(ci[j])
                 PROVE  j <= h[i].k
      BY <1>6, <1>2 DEF NoneKept
    <2>1. h[i] = g[i] /\ i \in DOMAIN g /\ j \in DOMAIN ci
      BY <1>7, <1>8, <1>1, <1>4
    <2> QED
      BY <2>1 DEF Agree, NoneKept
  <1> QED
    BY <1>5, <1>9, <1>10, <1>11, <1>12, <1>13, <1>14 DEF Agree

\* A function returns that has called nothing from C.
LEMMA AgreePop ==
    ASSUME NEW ci \in Seq(Frame), NEW I \in SUBSET Nat, NEW g \in [I -> CallEntry], Agree(ci, g),
           NEW m \in 0..Len(ci), \A i \in I : g[i].k <= m
    PROVE  Agree(SubSeq(ci, 1, m), g)
  <1>1. Numbered(g)
    BY DEF Numbered
  <1>2. Cuts(g, g, m)
    BY DEF Cuts
  <1> QED
    BY <1>1, <1>2, AgreeCut

\* The C stack of the thread is lost, with calls that forbid a yield only above frame m.
LEMMA AgreeLost ==
    ASSUME NEW ci \in Seq(Frame), NEW I \in SUBSET Nat, NEW g \in [I -> CallEntry], Agree(ci, g),
           NEW m \in 0..Len(ci), \A i \in I : g[i].ny = 1 => g[i].k > m,
           NEW h, DOMAIN h = {}
    PROVE  Agree(SubSeq(ci, 1, m), h)
  <1>1. PICK d \in Seq(Frame) : d = SubSeq(ci, 1, m)
    BY Prefix
  <1>2. Len(d) = m /\ DOMAIN d = 1..m /\ \A i \in 1..m : d[i] = ci[i]
    BY <1>1, Prefix
  <1>3. PICK l \in Nat : l = Len(ci) /\ DOMAIN ci = 1..l
    BY IsSeq
  <1>4. m \in Nat /\ m <= l
    BY <1>3
  <1>5. CalledByLua(d)
    BY <1>2, <1>3, <1>4 DEF Agree, CalledByLua
  <1>6. NoneLost(d, h)
    <2> SUFFICES ASSUME NEW j \in 1..m, Unfinished(ci[j])
                 PROVE  FALSE
      BY <1>2 DEF NoneLost
    <2>1. PICK i \in I : OnStack(g[i]) /\ g[i].k = j
      BY <1>3, <1>4 DEF Agree, NoneLost
    <2>2. g[i].ny = 1
      BY <2>1 DEF Agree, CallOK, OnStack
    <2> QED
      BY <1>4, <2>1, <2>2
  <1>7. FreshCalled(d, h)
    <2> SUFFICES ASSUME NEW j \in 1..m, ci[j] = Fresh, j > 1
                 PROVE  IsYPCall(ci[j - 1])
      BY <1>2, <1>4 DEF FreshCalled
    <2>1. CASE \E i \in I : g[i].k = j - 1
      <3>1. PICK i \in I : g[i].k = j - 1
        BY <2>1
      <3>2. g[i].ny = 0 /\ g[i].by \in {"main", "call", "pcall", "body", "close", "handler"}
        BY <1>4, <3>1 DEF CallEntry
      <3>3. CallOK(ci, g[i])
        BY DEF Agree
      <3>4. g[i].k = j - 1 /\ g[i].k > 0
        BY <1>4, <3>1
      <3>5. g[i].by = "pcall"
        BY <3>2, <3>3, <3>4 DEF CallOK
      <3>6. IsPCall(ci[g[i].k]) /\ ci[g[i].k].ypcall
        BY <3>2, <3>3, <3>5 DEF CallOK
      <3> QED
        BY <3>4, <3>6 DEF IsYPCall, IsPCall
    <2>2. CASE IsYPCall(ci[j - 1])
      BY <2>2
    <2>3. j \in DOMAIN ci
      BY <1>3, <1>4
    <2>4. (\E i \in I : g[i].k = j - 1) \/ IsYPCall(ci[j - 1])
      BY <2>3 DEF Agree, FreshCalled
    <2> QED
      BY <2>1, <2>2, <2>4
  <1>8. NoneKept(d, h) /\ Nested(h)
    BY DEF NoneKept, Nested
  <1> QED
    BY <1>1, <1>5, <1>6, <1>7, <1>8 DEF Agree

\* A thread that begins.
LEMMA AgreeBegin ==
    ASSUME NEW n, NEW h, DOMAIN h = {n}, NEW x \in CallEntry, h[n] = x,
           x = CCall(x.th, "main", 1, 0) \/ x = CCall(x.th, "body", 0, 0)
             \/ x = CCall(x.th, "close", 1, 0)
    PROVE  Agree(<<>>, h)
  <1>1. x.k = 0 /\ x.by \in {"main", "body", "close"} /\ (x.by = "body" <=> x.ny = 0) /\ x.ny \in {0, 1}
    BY DEF CCall
  <1>2. CallOK(<<>>, x)
    BY <1>1 DEF CallOK
  <1>3. DOMAIN <<>> = {}
    OBVIOUS
  <1> QED
    BY <1>2, <1>3 DEF Agree, CalledByLua, Nested, NoneLost, FreshCalled, NoneKept

-----------------------------------------------------------------------------
(* Message handlers.                                                       *)

LEMMA HandlerSame ==
    ASSUME NEW ci, NEW d, NEW n \in Nat, \A i \in 1..n : d[i] = ci[i]
    PROVE  HandlerAmong(d, n) <=> HandlerAmong(ci, n)
  <1>1. \A i \in 1..n : \A j \in i + 1..n : j \in 1..n
    OBVIOUS
  <1> QED
    BY <1>1 DEF HandlerAmong

LEMMA HandlerTop ==
    ASSUME NEW ci, NEW n \in Nat \ {0}
    PROVE  /\ IsPCall(ci[n]) => (HandlerAmong(ci, n) <=> ci[n].handler)
           /\ ~IsPCall(ci[n]) => (HandlerAmong(ci, n) <=> HandlerAmong(ci, n - 1))
  <1>1. ASSUME IsPCall(ci[n]), HandlerAmong(ci, n) PROVE ci[n].handler
    <2>1. PICK i \in 1..n : IsPCall(ci[i]) /\ ci[i].handler /\ \A j \in i + 1..n : ~IsPCall(ci[j])
      BY <1>1 DEF HandlerAmong
    <2>2. i = n
      BY <1>1, <2>1
    <2> QED
      BY <2>1, <2>2
  <1>2. ASSUME IsPCall(ci[n]), ci[n].handler PROVE HandlerAmong(ci, n)
    <2>1. n \in 1..n /\ \A j \in n + 1..n : FALSE
      OBVIOUS
    <2> QED
      BY <1>2, <2>1 DEF HandlerAmong
  <1>3. ASSUME ~IsPCall(ci[n]), HandlerAmong(ci, n) PROVE HandlerAmong(ci, n - 1)
    <2>1. PICK i \in 1..n : IsPCall(ci[i]) /\ ci[i].handler /\ \A j \in i + 1..n : ~IsPCall(ci[j])
      BY <1>3 DEF HandlerAmong
    <2>2. i \in 1..n - 1 /\ \A j \in i + 1..n - 1 : j \in i + 1..n
      BY <1>3, <2>1
    <2> QED
      BY <2>1, <2>2 DEF HandlerAmong
  <1>4. ASSUME ~IsPCall(ci[n]), HandlerAmong(ci, n - 1) PROVE HandlerAmong(ci, n)
    <2>1. PICK i \in 1..n - 1 : /\ IsPCall(ci[i]) /\ ci[i].handler
                                /\ \A j \in i + 1..n - 1 : ~IsPCall(ci[j])
      BY <1>4 DEF HandlerAmong
    <2>2. i \in 1..n /\ \A j \in i + 1..n : j = n \/ j \in i + 1..n - 1
      BY <2>1
    <2> QED
      BY <1>4, <2>1, <2>2 DEF HandlerAmong
  <1> QED
    BY <1>1, <1>2, <1>3, <1>4

LEMMA HandlersPush ==
    ASSUME NEW ci \in Seq(Frame), NEW e1, HandlersAgree(ci, e1), NEW f \in Frame, NEW e2,
           IsPCall(f) => (f.old <=> e1) /\ (e2 <=> f.handler), ~IsPCall(f) => (e2 <=> e1)
    PROVE  HandlersAgree(Append(ci, f), e2)
  <1>1. PICK d \in Seq(Frame) : d = Append(ci, f)
    BY Appended
  <1>2. PICK n \in Nat : n = Len(ci)
    BY IsSeq
  <1>3. /\ Len(d) = n + 1 /\ DOMAIN d = 1..n + 1 /\ d[n + 1] = f /\ \A i \in 1..n : d[i] = ci[i]
    BY <1>1, <1>2, Appended
  <1>4. \A m \in 0..n : HandlerAmong(d, m) <=> HandlerAmong(ci, m)
    <2> TAKE m \in 0..n
    <2>1. m \in Nat /\ \A i \in 1..m : d[i] = ci[i]
      BY <1>3
    <2> QED
      BY <2>1, HandlerSame
  <1>5. e1 <=> HandlerAmong(d, n)
    BY <1>2, <1>4 DEF HandlersAgree
  <1>6. e2 <=> HandlerAmong(d, n + 1)
    <2>1. n + 1 \in Nat \ {0} /\ (n + 1) - 1 = n
      OBVIOUS
    <2>2. /\ IsPCall(f) => (HandlerAmong(d, n + 1) <=> f.handler)
          /\ ~IsPCall(f) => (HandlerAmong(d, n + 1) <=> HandlerAmong(d, n))
      BY <1>3, <2>1, HandlerTop
    <2> QED
      BY <1>5, <2>2
  <1>7. ASSUME NEW j \in 1..n + 1, IsPCall(d[j])
        PROVE  d[j].old <=> HandlerAmong(d, j - 1)
    <2>1. CASE j = n + 1
      <3>1. d[j] = f /\ j - 1 = n
        BY <1>3, <2>1
      <3> QED
        BY <1>5, <1>7, <3>1
    <2>2. CASE j # n + 1
      <3>1. j \in 1..n /\ j - 1 \in 0..n /\ d[j] = ci[j] /\ DOMAIN ci = 1..n
        BY <1>2, <1>3, <2>2, IsSeq
      <3>2. ci[j].old <=> HandlerAmong(ci, j - 1)
        BY <1>7, <3>1 DEF HandlersAgree
      <3> QED
        BY <1>4, <3>1, <3>2
    <2> QED
      BY <2>1, <2>2
  <1>8. HandlersAgree(d, e2)
    BY <1>3, <1>6, <1>7 DEF HandlersAgree
  <1> QED
    BY <1>1, <1>8

LEMMA HandlersCut ==
    ASSUME NEW ci \in Seq(Frame), NEW e1, HandlersAgree(ci, e1), NEW m \in 0..Len(ci),
           NEW e2, e2 <=> HandlerAmong(ci, m)
    PROVE  HandlersAgree(SubSeq(ci, 1, m), e2)
  <1>1. PICK d \in Seq(Frame) : d = SubSeq(ci, 1, m)
    BY Prefix
  <1>2. Len(d) = m /\ DOMAIN d = 1..m /\ \A i \in 1..m : d[i] = ci[i]
    BY <1>1, Prefix
  <1>3. PICK l \in Nat : l = Len(ci) /\ DOMAIN ci = 1..l
    BY IsSeq
  <1>4. \A n \in 0..m : HandlerAmong(d, n) <=> HandlerAmong(ci, n)
    <2> TAKE n \in 0..m
    <2>1. n \in Nat /\ \A i \in 1..n : d[i] = ci[i]
      BY <1>2, <1>3
    <2> QED
      BY <2>1, HandlerSame
  <1>5. e2 <=> HandlerAmong(d, m)
    BY <1>3, <1>4
  <1>6. ASSUME NEW j \in 1..m, IsPCall(d[j])
        PROVE  d[j].old <=> HandlerAmong(d, j - 1)
    <2>1. j \in DOMAIN ci /\ j - 1 \in 0..m /\ d[j] = ci[j]
      BY <1>2, <1>3
    <2>2. ci[j].old <=> HandlerAmong(ci, j - 1)
      BY <1>6, <2>1 DEF HandlersAgree
    <2> QED
      BY <1>4, <2>1, <2>2
  <1>7. HandlersAgree(d, e2)
    BY <1>2, <1>5, <1>6 DEF HandlersAgree
  <1> QED
    BY <1>1, <1>7

\* A frame that is not of pcall is left.
LEMMA HandlersPop ==
    ASSUME NEW ci \in Seq(Frame), NEW e1, HandlersAgree(ci, e1), ci # <<>>, ~IsPCall(Last(ci))
    PROVE  HandlersAgree(SubSeq(ci, 1, Len(ci) - 1), e1)
  <1>1. PICK l \in Nat \ {0} : l = Len(ci) /\ ~IsPCall(ci[l])
    BY IsSeq
  <1>2. e1 <=> HandlerAmong(ci, l - 1)
    BY <1>1, HandlerTop DEF HandlersAgree
  <1>3. l - 1 \in 0..Len(ci) /\ l - 1 = Len(ci) - 1
    BY <1>1
  <1> QED
    BY <1>2, <1>3, HandlersCut

\* A pcall, whose frame is j, ends.
LEMMA HandlersPCall ==
    ASSUME NEW ci \in Seq(Frame), NEW e1, HandlersAgree(ci, e1), NEW j \in DOMAIN ci,
           IsPCall(ci[j])
    PROVE  HandlersAgree(SubSeq(ci, 1, j - 1), ci[j].old)
  <1>1. j - 1 \in 0..Len(ci)
    BY IsSeq
  <1>2. ci[j].old <=> HandlerAmong(ci, j - 1)
    BY DEF HandlersAgree
  <1> QED
    BY <1>1, <1>2, HandlersCut

LEMMA HandlersBegin ==
    HandlersAgree(<<>>, FALSE)
  <1>1. Len(<<>>) = 0 /\ DOMAIN <<>> = {} /\ 1..0 = {}
    OBVIOUS
  <1> QED
    BY <1>1 DEF HandlersAgree, HandlerAmong

-----------------------------------------------------------------------------
(* Counters.                                                               *)

LEMMA CountFinite ==
    ASSUME NEW s, NEW t, NEW n \in Nat
    PROVE  /\ IsFiniteSet(CallsUpTo(s, t, n)) /\ Cardinality(CallsUpTo(s, t, n)) \in Nat
           /\ IsFiniteSet(ForbiddingUpTo(s, t, n)) /\ Cardinality(ForbiddingUpTo(s, t, n)) \in Nat
  <1>1. IsFiniteSet(1..n)
    BY FS_Interval
  <1>2. CallsUpTo(s, t, n) \in SUBSET (1..n) /\ ForbiddingUpTo(s, t, n) \in SUBSET (1..n)
    BY DEF CallsUpTo, ForbiddingUpTo
  <1>3. IsFiniteSet(CallsUpTo(s, t, n)) /\ IsFiniteSet(ForbiddingUpTo(s, t, n))
    BY <1>1, <1>2, FS_Subset
  <1> QED
    BY <1>3, FS_CardinalityType

LEMMA CountSame ==
    ASSUME NEW s, NEW v, NEW t, NEW n \in Nat,
           \A i \in 1..n : (v[i].th = t <=> s[i].th = t) /\ (s[i].th = t => v[i] = s[i])
    PROVE  CallsUpTo(v, t, n) = CallsUpTo(s, t, n) /\ ForbiddingUpTo(v, t, n) = ForbiddingUpTo(s, t, n)
  <1>1. CallsUpTo(v, t, n) = CallsUpTo(s, t, n)
    BY DEF CallsUpTo
  <1>2. \A i \in CallsUpTo(s, t, n) : v[i] = s[i]
    BY DEF CallsUpTo
  <1> QED
    BY <1>1, <1>2 DEF ForbiddingUpTo

\* One entry more.
LEMMA CountStep ==
    ASSUME NEW s, NEW t, NEW n \in Nat
    PROVE  /\ Cardinality(CallsUpTo(s, t, n + 1)) = Cardinality(CallsUpTo(s, t, n))
                + IF s[n + 1].th = t /\ ~IsProtect(s[n + 1]) THEN 1 ELSE 0
           /\ Cardinality(ForbiddingUpTo(s, t, n + 1)) = Cardinality(ForbiddingUpTo(s, t, n))
                + IF s[n + 1].th = t /\ ~IsProtect(s[n + 1]) /\ IsCall(s[n + 1]) /\ s[n + 1].ny = 1
                  THEN 1 ELSE 0
  <1>1. 1..n + 1 = 1..n \cup {n + 1} /\ n + 1 \notin 1..n
    OBVIOUS
  <1> DEFINE A == CallsUpTo(s, t, n)
             B == ForbiddingUpTo(s, t, n)
  <1>2. IsFiniteSet(A) /\ IsFiniteSet(B) /\ Cardinality(A) \in Nat /\ Cardinality(B) \in Nat
        /\ n + 1 \notin A /\ n + 1 \notin B
    BY <1>1, CountFinite DEF CallsUpTo, ForbiddingUpTo
  <1>3. Cardinality(A \cup {n + 1}) = Cardinality(A) + 1
        /\ Cardinality(B \cup {n + 1}) = Cardinality(B) + 1
    BY <1>2, FS_AddElement
  <1>4. CallsUpTo(s, t, n + 1) = IF s[n + 1].th = t /\ ~IsProtect(s[n + 1]) THEN A \cup {n + 1} ELSE A
    BY <1>1 DEF CallsUpTo
  <1>5. ForbiddingUpTo(s, t, n + 1) =
           IF s[n + 1].th = t /\ ~IsProtect(s[n + 1]) /\ IsCall(s[n + 1]) /\ s[n + 1].ny = 1
           THEN B \cup {n + 1} ELSE B
    BY <1>1, <1>4 DEF ForbiddingUpTo
  <1> HIDE DEF A, B
  <1>6. Cardinality(CallsUpTo(s, t, n + 1)) = Cardinality(A)
            + IF s[n + 1].th = t /\ ~IsProtect(s[n + 1]) THEN 1 ELSE 0
    BY <1>2, <1>3, <1>4
  <1>7. Cardinality(ForbiddingUpTo(s, t, n + 1)) = Cardinality(B)
                + IF s[n + 1].th = t /\ ~IsProtect(s[n + 1]) /\ IsCall(s[n + 1]) /\ s[n + 1].ny = 1
                  THEN 1 ELSE 0
    BY <1>2, <1>3, <1>5
  <1> QED
    BY <1>6, <1>7 DEF A, B

LEMMA CountNone ==
    ASSUME NEW s, NEW t, NEW n \in Nat, \A i \in 1..n : s[i].th # t
    PROVE  Cardinality(CallsUpTo(s, t, n)) = 0 /\ Cardinality(ForbiddingUpTo(s, t, n)) = 0
  <1>1. CallsUpTo(s, t, n) = {} /\ ForbiddingUpTo(s, t, n) = {}
    BY DEF CallsUpTo, ForbiddingUpTo
  <1> QED
    BY <1>1, FS_EmptySet

\* A thread may yield when none of its calls forbids it.
LEMMA CountZero ==
    ASSUME NEW s, NEW t, NEW n \in Nat, Cardinality(ForbiddingUpTo(s, t, n)) = 0
    PROVE  \A i \in 1..n : s[i].th = t /\ IsCall(s[i]) => s[i].ny # 1
  <1>1. ForbiddingUpTo(s, t, n) = {}
    BY CountFinite, FS_EmptySet
  <1>2. ASSUME NEW i \in 1..n, s[i].th = t, IsCall(s[i]), s[i].ny = 1
        PROVE  i \in ForbiddingUpTo(s, t, n)
    BY <1>2 DEF ForbiddingUpTo, CallsUpTo, IsCall, IsProtect
  <1> QED
    BY <1>1, <1>2

-----------------------------------------------------------------------------
(* The C stack grows and shrinks.                                          *)

LEMMA Entries ==
    ASSUME NEW x \in Entry
    PROVE  /\ x.th \in Thread /\ (IsCall(x) <=> x \in CallEntry) /\ (IsProtect(x) <=> x \in ProtectEntry)
           /\ (x.what = "resumed" <=> ~IsCall(x) /\ ~IsProtect(x)) /\ ~(IsCall(x) /\ IsProtect(x))
  BY DEF Entry, CallEntry, ProtectEntry, IsCall, IsProtect

LEMMA CallsType ==
    ASSUME NEW s \in Seq(Entry), NEW t
    PROVE  /\ DOMAIN Calls(s, t) = {i \in 1..Len(s) : s[i].th = t /\ IsCall(s[i])}
           /\ \A i \in DOMAIN Calls(s, t) : Calls(s, t)[i] = s[i] /\ Calls(s, t)[i] \in CallEntry
           /\ DOMAIN Calls(s, t) \in SUBSET Nat
           /\ Calls(s, t) \in [DOMAIN Calls(s, t) -> CallEntry]
  <1>1. DOMAIN s = 1..Len(s) /\ Len(s) \in Nat /\ \A i \in DOMAIN s : s[i] \in Entry
    BY IsSeq
  <1>2. \A i \in DOMAIN s : IsCall(s[i]) => s[i] \in CallEntry
    BY <1>1, Entries
  <1>3. DOMAIN Calls(s, t) = {i \in 1..Len(s) : s[i].th = t /\ IsCall(s[i])}
    BY <1>1 DEF Calls
  <1>4. \A i \in DOMAIN Calls(s, t) : Calls(s, t)[i] = s[i]
    BY DEF Calls
  <1>5. \A i \in DOMAIN Calls(s, t) : Calls(s, t)[i] \in CallEntry
    BY <1>1, <1>2, <1>3, <1>4
  <1>6. DOMAIN Calls(s, t) \in SUBSET Nat
    BY <1>1, <1>3
  <1>7. Calls(s, t) = [i \in DOMAIN Calls(s, t) |-> Calls(s, t)[i]]
    BY DEF Calls
  <1>8. Calls(s, t) \in [DOMAIN Calls(s, t) -> CallEntry]
    BY <1>5, <1>7
  <1> QED
    BY <1>3, <1>4, <1>5, <1>6, <1>8

LEMMA CallsPush ==
    ASSUME NEW s \in Seq(Entry), NEW x \in Entry, NEW t
    PROVE  /\ x.th = t /\ IsCall(x) => Calls(Append(s, x), t) = More(Calls(s, t), Len(s) + 1, x)
           /\ ~(x.th = t /\ IsCall(x)) => Calls(Append(s, x), t) = Calls(s, t)
  <1>1. PICK v : v = Append(s, x)
    OBVIOUS
  <1>2. PICK n \in Nat : n = Len(s)
    BY IsSeq
  <1>3. DOMAIN s = 1..n /\ DOMAIN v = 1..n + 1 /\ v[n + 1] = x /\ \A i \in 1..n : v[i] = s[i]
    BY <1>1, <1>2, Appended, IsSeq
  <1> DEFINE D == {i \in DOMAIN s : s[i].th = t /\ IsCall(s[i])}
             E == {i \in DOMAIN v : v[i].th = t /\ IsCall(v[i])}
  <1>4. DOMAIN Calls(s, t) = D /\ \A i \in D : Calls(s, t)[i] = s[i] /\ v[i] = s[i] /\ i # n + 1
    BY <1>2, <1>3 DEF Calls
  <1>5. CASE x.th = t /\ IsCall(x)
    <2>1. E = D \cup {n + 1}
      BY <1>2, <1>3, <1>5
    <2>2. \A i \in E : v[i] = IF i = n + 1 THEN x ELSE Calls(s, t)[i]
      BY <1>3, <1>4, <2>1
    <2>3. Calls(v, t) = [i \in E |-> v[i]] /\ More(Calls(s, t), n + 1, x)
              = [i \in D \cup {n + 1} |-> IF i = n + 1 THEN x ELSE Calls(s, t)[i]]
      BY <1>4 DEF Calls, More
    <2> HIDE DEF D, E
    <2>4. Calls(v, t) = More(Calls(s, t), n + 1, x)
      BY <2>1, <2>2, <2>3
    <2> QED
      BY <1>1, <1>2, <1>5, <2>4
  <1>6. CASE ~(x.th = t /\ IsCall(x))
    <2>1. E = D
      BY <1>2, <1>3, <1>6
    <2>2. Calls(v, t) = [i \in E |-> v[i]] /\ Calls(s, t) = [i \in D |-> s[i]]
      BY DEF Calls
    <2> HIDE DEF D, E
    <2>3. Calls(v, t) = Calls(s, t)
      BY <1>4, <2>1, <2>2
    <2> QED
      BY <1>1, <1>6, <2>3
  <1> QED
    BY <1>5, <1>6

LEMMA CallsPrefix ==
    ASSUME NEW s \in Seq(Entry), NEW n \in 0..Len(s), NEW t
    PROVE  LET g == Calls(s, t)
               h == Calls(SubSeq(s, 1, n), t)
           IN  /\ DOMAIN h = {i \in DOMAIN g : i <= n} /\ \A i \in DOMAIN h : h[i] = g[i]
               /\ h \in [DOMAIN h -> CallEntry] /\ DOMAIN h \in SUBSET DOMAIN g
  <1>1. PICK v \in Seq(Entry) : v = SubSeq(s, 1, n)
    BY Prefix
  <1>2. DOMAIN v = 1..n /\ Len(v) = n /\ \A i \in 1..n : v[i] = s[i]
    BY <1>1, Prefix
  <1>3. Len(s) \in Nat /\ n \in Nat
    BY IsSeq
  <1>4. DOMAIN Calls(v, t) = {i \in DOMAIN Calls(s, t) : i <= n}
    <2>1. DOMAIN Calls(v, t) = {i \in 1..n : v[i].th = t /\ IsCall(v[i])}
      BY <1>2, CallsType
    <2>2. DOMAIN Calls(s, t) = {i \in 1..Len(s) : s[i].th = t /\ IsCall(s[i])}
      BY CallsType
    <2>3. \A i : i \in 1..n <=> i \in 1..Len(s) /\ i <= n
      BY <1>3
    <2> QED
      BY <1>2, <2>1, <2>2, <2>3
  <1>5. \A i \in DOMAIN Calls(v, t) : Calls(v, t)[i] = Calls(s, t)[i]
    <2>1. TAKE i \in DOMAIN Calls(v, t)
    <2>2. i \in DOMAIN Calls(s, t) /\ i \in 1..n
      BY <1>3, <1>4, CallsType
    <2>3. Calls(v, t)[i] = v[i] /\ Calls(s, t)[i] = s[i]
      BY <2>1, <2>2, CallsType
    <2> QED
      BY <1>2, <2>2, <2>3
  <1>6. Calls(v, t) \in [DOMAIN Calls(v, t) -> CallEntry]
    BY CallsType
  <1>7. DOMAIN Calls(v, t) \in SUBSET DOMAIN Calls(s, t)
    BY <1>4
  <1> QED
    BY <1>1, <1>4, <1>5, <1>6, <1>7

\* The thread that runs has the last piece.
LEMMA TopPiece ==
    ASSUME NEW s, Stack(s)
    PROVE  \E b \in 1..Len(s) : /\ Base(s, b, Last(s).th)
                                /\ \A i \in b..Len(s) : s[i].th = Last(s).th
                                /\ \A i \in 1..b - 1 : s[i].th # Last(s).th
  <1>1. s \in Seq(Entry) /\ Len(s) \in Nat /\ Len(s) \in DOMAIN s /\ Last(s) = s[Len(s)]
        /\ DOMAIN s = 1..Len(s)
    BY IsSeq DEF Stack
  <1>2. PICK b \in 1..Len(s) : IsBase(s[b]) /\ s[b].th = s[Len(s)].th
    BY <1>1 DEF Stack, Pieces
  <1>3. b \in DOMAIN s /\ b <= Len(s)
    BY <1>1
  <1>4. \A i \in b..Len(s) : s[i].th = s[b].th
    BY <1>1, <1>2, <1>3 DEF Stack, Pieces
  <1>5. \A i \in 1..b - 1 : s[i].th # s[b].th
    BY <1>2, <1>3 DEF Stack, Pieces
  <1> QED
    BY <1>1, <1>2, <1>3, <1>4, <1>5 DEF Base

LEMMA OneBase ==
    ASSUME NEW s, Stack(s), NEW t, NEW b, NEW c, Base(s, b, t), Base(s, c, t)
    PROVE  b = c
  <1>1. s \in Seq(Entry) /\ DOMAIN s = 1..Len(s) /\ Len(s) \in Nat
    BY IsSeq DEF Stack
  <1>2. ~(b < c) /\ ~(c < b)
    <2>1. ASSUME b < c PROVE FALSE
      <3>1. b \in 1..c - 1
        BY <1>1, <2>1 DEF Base
      <3> QED
        BY <3>1 DEF Base, Stack, Pieces
    <2>2. ASSUME c < b PROVE FALSE
      <3>1. c \in 1..b - 1
        BY <1>1, <2>2 DEF Base
      <3> QED
        BY <3>1 DEF Base, Stack, Pieces
    <2> QED
      BY <2>1, <2>2
  <1> QED
    BY <1>1, <1>2 DEF Base

\* The thread before a base is not the one that runs, and no other base comes after it.
LEMMA CallerWaits ==
    ASSUME NEW s, Stack(s), NEW b \in DOMAIN s, b > 1, IsBase(s[b])
    PROVE  /\ b - 1 \in DOMAIN s /\ s[b - 1].th \in Thread /\ s[b - 1].th # Last(s).th
           /\ s[b - 1].th # s[b].th /\ s[b].th # main
           /\ \A c \in DOMAIN s : c > 1 /\ IsBase(s[c]) /\ s[c - 1].th = s[b - 1].th => c = b
  <1>1. s \in Seq(Entry) /\ Len(s) \in Nat /\ Len(s) \in DOMAIN s /\ Last(s) = s[Len(s)]
        /\ DOMAIN s = 1..Len(s) /\ s[1].th = main
    BY IsSeq DEF Stack, Protect
  <1>2. b - 1 \in DOMAIN s /\ b - 1 \in 1..b - 1 /\ 1 \in 1..b - 1
    BY <1>1
  <1>3. s[b - 1].th # s[b].th /\ s[b].th # main
    BY <1>1, <1>2 DEF Stack, Pieces
  <1>4. \A i \in b..Len(s) : s[i].th # s[b - 1].th
    <2> SUFFICES ASSUME NEW i \in b..Len(s), s[i].th = s[b - 1].th PROVE FALSE
      OBVIOUS
    <2>1. i \in DOMAIN s /\ b - 1 <= i /\ b \in b - 1..i
      BY <1>1, <1>2
    <2>2. s[b].th = s[b - 1].th
      BY <1>2, <2>1 DEF Stack, Pieces
    <2> QED
      BY <1>3, <2>2
  <1>5. s[b - 1].th # Last(s).th
    BY <1>1, <1>4
  <1>6. s[b - 1].th \in Thread
    BY <1>1, <1>2, IsSeq, Entries
  <1>7. ASSUME NEW c \in DOMAIN s, c > 1, IsBase(s[c]), s[c - 1].th = s[b - 1].th
        PROVE  c = b
    <2>1. ~(c - 1 \in b..Len(s))
      BY <1>4, <1>7
    <2>2. c <= b
      BY <1>1, <2>1
    <2>3. ASSUME c < b PROVE FALSE
      <3>1. c - 1 \in DOMAIN s /\ c - 1 <= b - 1 /\ c \in c - 1..b - 1 /\ c - 1 \in 1..c - 1
        BY <1>1, <1>7, <2>3
      <3>2. s[c].th = s[c - 1].th
        BY <1>2, <1>7, <3>1 DEF Stack, Pieces
      <3> QED
        BY <1>7, <3>1, <3>2 DEF Stack, Pieces
    <2> QED
      BY <1>1, <2>2, <2>3
  <1> QED
    BY <1>2, <1>3, <1>5, <1>6, <1>7

\* A thread without an entry begins a piece; the one that runs goes on with its own.
LEMMA PiecesPush ==
    ASSUME NEW s \in Seq(Entry), s # <<>>, Pieces(s), NEW x \in Entry,
           IF IsBase(x) THEN ~InStack(s, x.th) ELSE x.th = Last(s).th
    PROVE  Pieces(Append(s, x))
  <1>1. PICK v \in Seq(Entry) : v = Append(s, x)
    BY Appended
  <1>2. PICK n \in Nat : n = Len(s)
    BY IsSeq
  <1>3. DOMAIN s = 1..n /\ DOMAIN v = 1..n + 1 /\ v[n + 1] = x /\ \A i \in 1..n : v[i] = s[i]
    BY <1>1, <1>2, Appended, IsSeq
  <1>4. n > 0 /\ Last(s) = s[n]
    BY <1>2, IsSeq
  <1>5. ASSUME NEW i \in DOMAIN v, NEW k \in DOMAIN v, i <= k, v[i].th = v[k].th, NEW j \in i..k
        PROVE  v[j].th = v[i].th
    <2>1. CASE k # n + 1
      <3>1. i \in 1..n /\ k \in 1..n /\ j \in 1..n
        BY <1>3, <1>5, <2>1
      <3> QED
        BY <1>3, <1>5, <3>1 DEF Pieces
    <2>2. CASE k = n + 1 /\ (i = n + 1 \/ j = n + 1)
      <3>1. j = i \/ j = k
        BY <1>2, <1>3, <2>2
      <3> QED
        BY <1>5, <3>1
    <2>3. CASE k = n + 1 /\ i # n + 1 /\ j # n + 1
      <3>1. i \in 1..n /\ j \in 1..n /\ n \in 1..n /\ i <= n /\ j \in i..n
        BY <1>3, <1>4, <2>3
      <3>2. InStack(s, x.th)
        BY <1>3, <1>5, <2>3, <3>1 DEF InStack
      <3>3. s[i].th = s[n].th
        BY <1>3, <1>4, <1>5, <2>3, <3>1, <3>2
      <3> QED
        BY <1>3, <3>1, <3>3 DEF Pieces
    <2> QED
      BY <2>1, <2>2, <2>3
  <1>6. ASSUME NEW i \in DOMAIN v
        PROVE  \E b \in 1..i : IsBase(v[b]) /\ v[b].th = v[i].th
    <2>1. CASE i # n + 1
      <3>1. i \in 1..n /\ \A b \in 1..i : b \in 1..n
        BY <1>3, <2>1
      <3> QED
        BY <1>3, <3>1 DEF Pieces
    <2>2. CASE i = n + 1 /\ IsBase(x)
      BY <1>3, <2>2
    <2>3. CASE i = n + 1 /\ ~IsBase(x)
      <3>1. n \in 1..n /\ \A b \in 1..n : b \in 1..n + 1
        BY <1>4
      <3> QED
        BY <1>3, <1>4, <2>3, <3>1 DEF Pieces
    <2> QED
      BY <2>1, <2>2, <2>3
  <1>7. ASSUME NEW b \in DOMAIN v, IsBase(v[b]), NEW i \in 1..b - 1
        PROVE  v[i].th # v[b].th
    <2>1. CASE b # n + 1
      <3>1. b \in 1..n /\ i \in 1..n
        BY <1>3, <2>1
      <3> QED
        BY <1>3, <1>7, <3>1 DEF Pieces
    <2>2. CASE b = n + 1
      <3>1. i \in 1..n
        BY <1>2, <2>2
      <3> QED
        BY <1>3, <1>7, <2>2, <3>1 DEF InStack
    <2> QED
      BY <2>1, <2>2
  <1>8. \A i, k \in DOMAIN v :
           i <= k /\ v[i].th = v[k].th => \A j \in i..k : v[j].th = v[i].th
    BY <1>5
  <1>9. \A i \in DOMAIN v : \E b \in 1..i : IsBase(v[b]) /\ v[b].th = v[i].th
    BY <1>6
  <1>10. \A b \in DOMAIN v : IsBase(v[b]) => \A i \in 1..b - 1 : v[i].th # v[b].th
    BY <1>7
  <1>11. Pieces(v)
    BY <1>8, <1>9, <1>10 DEF Pieces
  <1> QED
    BY <1>1, <1>11

LEMMA StackPrefix ==
    ASSUME NEW s, Stack(s), NEW n \in 2..Len(s), IsProtect(s[n]) => s[n].by = "unroll"
    PROVE  Stack(SubSeq(s, 1, n))
  <1>1. s \in Seq(Entry) /\ Len(s) \in Nat /\ DOMAIN s = 1..Len(s) /\ n \in 0..Len(s) /\ n \in Nat
    BY IsSeq DEF Stack
  <1>2. PICK v \in Seq(Entry) : v = SubSeq(s, 1, n)
    BY <1>1, Prefix
  <1>3. DOMAIN v = 1..n /\ Len(v) = n /\ \A i \in 1..n : i \in DOMAIN s /\ v[i] = s[i]
    BY <1>1, <1>2, Prefix
  <1>4. Pieces(v)
    <2>1. ASSUME NEW i \in 1..n, NEW k \in 1..n, i <= k, v[i].th = v[k].th, NEW j \in i..k
          PROVE  v[j].th = v[i].th
      <3>1. j \in 1..n
        BY <1>1, <2>1
      <3>2. i \in DOMAIN s /\ k \in DOMAIN s /\ s[i].th = s[k].th
        BY <1>3, <2>1
      <3>3. \A d \in i..k : s[d].th = s[i].th
        <4>1. \A a, c \in DOMAIN s : a <= c /\ s[a].th = s[c].th => \A d \in a..c : s[d].th = s[a].th
          BY DEF Stack, Pieces
        <4> QED
          BY <2>1, <3>2, <4>1
      <3>4. s[j].th = s[i].th
        BY <3>3
      <3> QED
        BY <1>3, <3>1, <3>4
    <2>2. ASSUME NEW i \in 1..n
          PROVE  \E b \in 1..i : IsBase(v[b]) /\ v[b].th = v[i].th
      <3>1. \A b \in 1..i : b \in 1..n
        BY <1>1
      <3>2. PICK b \in 1..i : IsBase(s[b]) /\ s[b].th = s[i].th
        BY <1>3 DEF Stack, Pieces
      <3> QED
        BY <1>3, <3>1, <3>2
    <2>3. ASSUME NEW b \in 1..n, IsBase(v[b]), NEW i \in 1..b - 1
          PROVE  v[i].th # v[b].th
      <3>1. i \in 1..n
        BY <1>1
      <3> QED
        BY <1>3, <2>3, <3>1 DEF Stack, Pieces
    <2> QED
      BY <1>3, <2>1, <2>2, <2>3 DEF Pieces
  <1>5. Protection(v)
    <2>1. ASSUME NEW i \in 1..n, IsProtect(v[i]), v[i].by # "unroll"
          PROVE  i + 1 \in 1..n /\ Protected(v[i], v[i + 1])
      <3>1. i # n /\ i + 1 \in 1..n
        BY <1>1, <1>3, <2>1
      <3> QED
        BY <1>3, <2>1, <3>1 DEF Stack, Protection
    <2>2. ASSUME NEW i \in 1..n, Needs(v[i]) # {}
          PROVE  i > 1 /\ IsProtect(v[i - 1]) /\ v[i - 1].by \in Needs(v[i])
      <3>1. i > 1 /\ IsProtect(s[i - 1]) /\ s[i - 1].by \in Needs(s[i])
        BY <1>3, <2>2 DEF Stack, Protection
      <3>2. i - 1 \in 1..n
        BY <1>1, <3>1
      <3> QED
        BY <1>3, <3>1, <3>2
    <2> QED
      BY <1>3, <2>1, <2>2 DEF Protection
  <1>6. 1 \in 1..n /\ Len(v) > 1
    BY <1>1, <1>3
  <1> QED
    BY <1>2, <1>3, <1>4, <1>5, <1>6 DEF Stack

\* Entries that need no setjmp of their own.
LEMMA StackPush ==
    ASSUME NEW s, Stack(s), NEW x \in Entry, Needs(x) = {}, IsProtect(x) => x.by = "unroll",
           IF IsBase(x) THEN ~InStack(s, x.th) ELSE x.th = Last(s).th
    PROVE  Stack(Append(s, x))
  <1>1. s \in Seq(Entry) /\ s # <<>> /\ Len(s) \in Nat /\ DOMAIN s = 1..Len(s)
    BY IsSeq DEF Stack
  <1>2. PICK v \in Seq(Entry) : v = Append(s, x)
    BY <1>1, Appended
  <1>3. PICK n \in Nat : n = Len(s) /\ n > 1
    BY <1>1 DEF Stack
  <1>4. DOMAIN s = 1..n /\ DOMAIN v = 1..n + 1 /\ Len(v) = n + 1 /\ v[n + 1] = x
        /\ \A i \in 1..n : v[i] = s[i]
    BY <1>1, <1>2, <1>3, Appended
  <1>5. Pieces(v)
    BY <1>1, <1>2, PiecesPush DEF Stack
  <1>6. Protection(v)
    <2>1. ASSUME NEW i \in 1..n + 1, IsProtect(v[i]), v[i].by # "unroll"
          PROVE  i + 1 \in 1..n + 1 /\ Protected(v[i], v[i + 1])
      <3>1. i \in 1..n
        BY <1>4, <2>1
      <3>2. i + 1 \in 1..n /\ Protected(s[i], s[i + 1])
        BY <1>4, <2>1, <3>1 DEF Stack, Protection
      <3> QED
        BY <1>4, <3>1, <3>2
    <2>2. ASSUME NEW i \in 1..n + 1, Needs(v[i]) # {}
          PROVE  i > 1 /\ IsProtect(v[i - 1]) /\ v[i - 1].by \in Needs(v[i])
      <3>1. i \in 1..n
        BY <1>4, <2>2
      <3>2. i > 1 /\ IsProtect(s[i - 1]) /\ s[i - 1].by \in Needs(s[i])
        BY <1>4, <2>2, <3>1 DEF Stack, Protection
      <3>3. i - 1 \in 1..n
        BY <3>1, <3>2
      <3> QED
        BY <1>4, <3>1, <3>2, <3>3
    <2> QED
      BY <1>4, <2>1, <2>2 DEF Protection
  <1>7. v[1] = s[1] /\ \A i \in 1..n + 1 : IsProtect(v[i]) /\ v[i].by = "main" => i = 1
    BY <1>3, <1>4 DEF Stack
  <1> QED
    BY <1>2, <1>3, <1>4, <1>5, <1>6, <1>7 DEF Stack

\* A setjmp and what is called under it.
LEMMA StackProtect ==
    ASSUME NEW s, Stack(s), NEW p \in Entry, NEW y \in Entry, IsProtect(p),
           p.by \in {"resume", "close", "pcall"}, Protected(p, y),
           Needs(y) \in {{}, {p.by}}, ~IsProtect(y),
           IF IsBase(p) THEN ~InStack(s, p.th) ELSE p.th = Last(s).th
    PROVE  Stack(Append(Append(s, p), y))
  <1>1. s \in Seq(Entry) /\ s # <<>> /\ Len(s) \in Nat /\ DOMAIN s = 1..Len(s)
    BY IsSeq DEF Stack
  <1>2. PICK w \in Seq(Entry) : w = Append(s, p)
    BY <1>1, Appended
  <1>3. PICK n \in Nat : n = Len(s) /\ n > 1
    BY <1>1 DEF Stack
  <1>4. DOMAIN w = 1..n + 1 /\ Len(w) = n + 1 /\ w[n + 1] = p /\ w # <<>> /\ Last(w) = p
        /\ \A i \in 1..n : w[i] = s[i]
    BY <1>1, <1>2, <1>3, Appended
  <1>5. PICK v \in Seq(Entry) : v = Append(w, y)
    BY <1>1, Appended
  <1>6. DOMAIN v = 1..n + 2 /\ Len(v) = n + 2 /\ v[n + 2] = y /\ v[n + 1] = p
        /\ \A i \in 1..n : v[i] = s[i]
    <2>1. n + 1 + 1 = n + 2 /\ n + 1 \in 1..n + 1 /\ \A i \in 1..n : i \in 1..n + 1
      OBVIOUS
    <2> QED
      BY <1>4, <1>5, <2>1, Appended
  <1>7. Pieces(v)
    <2>1. Pieces(w)
      BY <1>1, <1>2, PiecesPush DEF Stack
    <2>2. ~IsBase(y) /\ y.th = Last(w).th
      BY <1>4 DEF Protected, IsBase
    <2> QED
      BY <1>4, <1>5, <2>1, <2>2, PiecesPush
  <1>8. Protection(v)
    <2>1. ASSUME NEW i \in 1..n + 2, IsProtect(v[i]), v[i].by # "unroll"
          PROVE  i + 1 \in 1..n + 2 /\ Protected(v[i], v[i + 1])
      <3>1. CASE i \in 1..n
        <4>1. i + 1 \in 1..n /\ Protected(s[i], s[i + 1])
          BY <1>1, <1>3, <1>6, <2>1, <3>1 DEF Stack, Protection
        <4> QED
          BY <1>6, <3>1, <4>1
      <3>2. CASE i = n + 1
        <4>1. i + 1 = n + 2 /\ i + 1 \in 1..n + 2
          BY <3>2
        <4> QED
          BY <1>6, <3>2, <4>1
      <3>3. i # n + 2
        BY <1>6, <2>1
      <3> QED
        BY <3>1, <3>2, <3>3
    <2>2. ASSUME NEW i \in 1..n + 2, Needs(v[i]) # {}
          PROVE  i > 1 /\ IsProtect(v[i - 1]) /\ v[i - 1].by \in Needs(v[i])
      <3>1. CASE i \in 1..n
        <4>1. i > 1 /\ IsProtect(s[i - 1]) /\ s[i - 1].by \in Needs(s[i])
          BY <1>1, <1>3, <1>6, <2>2, <3>1 DEF Stack, Protection
        <4>2. i - 1 \in 1..n
          BY <3>1, <4>1
        <4> QED
          BY <1>6, <3>1, <4>1, <4>2
      <3>2. CASE i = n + 2
        <4>1. i - 1 = n + 1 /\ i > 1
          BY <1>3, <3>2
        <4> QED
          BY <1>6, <2>2, <3>2, <4>1
      <3>3. i # n + 1
        BY <1>6, <2>2 DEF Needs, IsProtect, IsCall
      <3> QED
        BY <3>1, <3>2, <3>3
    <2> QED
      BY <1>6, <2>1, <2>2 DEF Protection
  <1>9. v[1] = s[1] /\ \A i \in 1..n + 2 : IsProtect(v[i]) /\ v[i].by = "main" => i = 1
    <2>1. \A i \in 1..n + 2 : i \in 1..n \/ i = n + 1 \/ i = n + 2
      OBVIOUS
    <2> QED
      BY <1>1, <1>3, <1>6, <2>1 DEF Stack
  <1> QED
    BY <1>2, <1>3, <1>5, <1>6, <1>7, <1>8, <1>9 DEF Stack

-----------------------------------------------------------------------------
(* What a step leaves alone.                                               *)

\* The piece of t is the same in two C stacks.
Same(s, v, t) ==
    \A i \in Nat : /\ i \in DOMAIN s /\ s[i].th = t <=> i \in DOMAIN v /\ v[i].th = t
                   /\ i \in DOMAIN s /\ s[i].th = t => v[i] = s[i]

LEMMA SamePush ==
    ASSUME NEW s \in Seq(Entry), NEW x \in Entry, NEW t, t # x.th
    PROVE  Same(s, Append(s, x), t)
  <1>1. PICK v : v = Append(s, x)
    OBVIOUS
  <1>2. PICK n \in Nat : n = Len(s)
    BY IsSeq
  <1>3. DOMAIN s = 1..n /\ DOMAIN v = 1..n + 1 /\ v[n + 1] = x /\ \A i \in 1..n : v[i] = s[i]
    BY <1>1, <1>2, Appended, IsSeq
  <1>4. Same(s, v, t)
    BY <1>3 DEF Same
  <1> QED
    BY <1>1, <1>4

LEMMA SamePrefix ==
    ASSUME NEW s \in Seq(Entry), NEW n \in 0..Len(s), NEW t, \A i \in n + 1..Len(s) : s[i].th # t
    PROVE  Same(s, SubSeq(s, 1, n), t)
  <1>1. PICK v : v = SubSeq(s, 1, n)
    OBVIOUS
  <1>2. Len(s) \in Nat /\ DOMAIN s = 1..Len(s) /\ DOMAIN v = 1..n /\ \A i \in 1..n : v[i] = s[i]
    BY <1>1, Prefix, IsSeq
  <1>3. Same(s, v, t)
    BY <1>2 DEF Same
  <1> QED
    BY <1>1, <1>3

LEMMA SameTrans ==
    ASSUME NEW s, NEW v, NEW w, NEW t, Same(s, v, t), Same(v, w, t)
    PROVE  Same(s, w, t)
  BY DEF Same

LEMMA SameSelf ==
    ASSUME NEW s, NEW t
    PROVE  Same(s, s, t)
  BY DEF Same

LEMMA SameCalls ==
    ASSUME NEW s \in Seq(Entry), NEW v \in Seq(Entry), NEW t, Same(s, v, t)
    PROVE  /\ Calls(v, t) = Calls(s, t) /\ (InStack(v, t) <=> InStack(s, t))
           /\ \A b : Base(v, b, t) <=> Base(s, b, t)
           /\ \A b : Base(s, b, t) => v[b] = s[b]
  <1>1. DOMAIN s = 1..Len(s) /\ Len(s) \in Nat /\ DOMAIN v = 1..Len(v) /\ Len(v) \in Nat
    BY IsSeq
  <1>2. \A i : /\ i \in DOMAIN s /\ s[i].th = t <=> i \in DOMAIN v /\ v[i].th = t
               /\ i \in DOMAIN s /\ s[i].th = t => v[i] = s[i]
    BY <1>1 DEF Same
  <1>3. {i \in DOMAIN s : s[i].th = t /\ IsCall(s[i])} = {i \in DOMAIN v : v[i].th = t /\ IsCall(v[i])}
    BY <1>2
  <1>4. Calls(v, t) = Calls(s, t)
    BY <1>2, <1>3 DEF Calls
  <1>5. InStack(v, t) <=> InStack(s, t)
    BY <1>2 DEF InStack
  <1>6. \A b : Base(v, b, t) <=> Base(s, b, t)
    BY <1>2 DEF Base
  <1>7. \A b : Base(s, b, t) => v[b] = s[b]
    BY <1>2 DEF Base
  <1> QED
    BY <1>4, <1>5, <1>6, <1>7

LEMMA SameCounts ==
    ASSUME NEW s \in Seq(Entry), NEW v \in Seq(Entry), NEW t, Same(s, v, t), NEW n,
           CountsAgree(t, n, s)
    PROVE  CountsAgree(t, n, v)
  <1>1. DOMAIN s = 1..Len(s) /\ Len(s) \in Nat /\ DOMAIN v = 1..Len(v) /\ Len(v) \in Nat
    BY IsSeq
  <1>2. \A i : /\ i \in DOMAIN s /\ s[i].th = t <=> i \in DOMAIN v /\ v[i].th = t
               /\ i \in DOMAIN s /\ s[i].th = t => v[i] = s[i]
    BY <1>1 DEF Same
  <1>3. CallsUpTo(v, t, Len(v)) = CallsUpTo(s, t, Len(s))
    BY <1>1, <1>2 DEF CallsUpTo
  <1>4. ForbiddingUpTo(v, t, Len(v)) = ForbiddingUpTo(s, t, Len(s))
    BY <1>1, <1>2, <1>3 DEF ForbiddingUpTo, CallsUpTo
  <1>5. ASSUME NEW i \in DOMAIN v, v[i].th = t
        PROVE  /\ CallsUpTo(v, t, i) = CallsUpTo(s, t, i)
               /\ ForbiddingUpTo(v, t, i) = ForbiddingUpTo(s, t, i)
    <2>1. i \in DOMAIN s /\ i \in Nat
      BY <1>1, <1>2, <1>5
    <2>2. \A j \in 1..i : j \in DOMAIN s /\ j \in DOMAIN v
      BY <1>1, <2>1
    <2>3. \A j \in 1..i : (v[j].th = t <=> s[j].th = t) /\ (s[j].th = t => v[j] = s[j])
      BY <1>2, <2>2
    <2> QED
      BY <2>1, <2>3, CountSame
  <1>6. ASSUME NEW b \in DOMAIN v, Base(v, b, t)
        PROVE  /\ n = Counted(v[b].nC, v, t, Len(v))
               /\ \A i \in DOMAIN v : v[i].th = t /\ IsProtect(v[i]) /\ v[i].by = "pcall" =>
                     v[i].nC = Counted(v[b].nC, v, t, i)
    <2>1. b \in DOMAIN s /\ Base(s, b, t) /\ v[b] = s[b]
      BY <1>2, <1>6 DEF Base
    <2>2. n = Counted(s[b].nC, s, t, Len(s))
      BY <2>1 DEF CountsAgree
    <2>3. n = Counted(v[b].nC, v, t, Len(v))
      BY <1>3, <1>4, <2>1, <2>2 DEF Counted
    <2>4. ASSUME NEW i \in DOMAIN v, v[i].th = t, IsProtect(v[i]), v[i].by = "pcall"
          PROVE  v[i].nC = Counted(v[b].nC, v, t, i)
      <3>1. i \in DOMAIN s /\ s[i] = v[i]
        BY <1>2, <2>4
      <3>2. s[i].nC = Counted(s[b].nC, s, t, i)
        BY <2>1, <2>4, <3>1 DEF CountsAgree
      <3> QED
        BY <1>5, <2>1, <2>4, <3>1, <3>2 DEF Counted
    <2> QED
      BY <2>3, <2>4
  <1> QED
    BY <1>6 DEF CountsAgree

LEMMA LocalSame ==
    ASSUME NEW s \in Seq(Entry), NEW v \in Seq(Entry), NEW t, NEW r, Same(s, v, t), Local(t, r, s)
    PROVE  Local(t, r, v)
  <1>1. /\ Calls(v, t) = Calls(s, t) /\ (InStack(v, t) <=> InStack(s, t))
        /\ \A b : Base(v, b, t) <=> Base(s, b, t)
        /\ \A b : Base(s, b, t) => v[b] = s[b]
    BY SameCalls
  <1>2. CountsAgree(t, r.nC, v)
    BY SameCounts DEF Local
  <1>3. Status(t, r, v)
    <2>1. Status(t, r, s)
      BY DEF Local
    <2>2. \A b \in DOMAIN v : Base(v, b, t) /\ v[b].by # "close" => r.status = "ok"
      BY <1>1, <2>1 DEF Status, Base
    <2> QED
      BY <1>1, <2>1, <2>2 DEF Status
  <1>4. (\E b \in DOMAIN v : Base(v, b, t) /\ v[b].by # "close")
           => \E b \in DOMAIN s : Base(s, b, t) /\ s[b].by # "close"
    BY <1>1 DEF Base
  <1> QED
    BY <1>1, <1>2, <1>3, <1>4 DEF Local

-----------------------------------------------------------------------------
(* Counters of a piece that grows or shrinks.                              *)

LEMMA CountsPush ==
    ASSUME NEW s \in Seq(Entry), NEW x \in Entry, NEW n \in Counter, NEW m,
           CountsAgree(x.th, n, s), ~IsBase(x),
           IsProtect(x) => x.nC = n /\ m = n,
           ~IsProtect(x) => m = [c |-> n.c + 1, ny |-> IF IsCall(x) /\ x.ny = 1 THEN n.ny + 1 ELSE n.ny]
    PROVE  CountsAgree(x.th, m, Append(s, x))
  <1>1. PICK v : v = Append(s, x)
    OBVIOUS
  <1>2. PICK l \in Nat : l = Len(s)
    BY IsSeq
  <1>3. /\ DOMAIN s = 1..l /\ DOMAIN v = 1..l + 1 /\ Len(v) = l + 1 /\ v[l + 1] = x
        /\ \A i \in 1..l : v[i] = s[i]
    BY <1>1, <1>2, Appended, IsSeq
  <1>4. PICK t : t = x.th
    OBVIOUS
  <1>5. ASSUME NEW i \in 0..l
        PROVE  /\ CallsUpTo(v, t, i) = CallsUpTo(s, t, i)
               /\ ForbiddingUpTo(v, t, i) = ForbiddingUpTo(s, t, i)
    <2>1. i \in Nat /\ \A j \in 1..i : v[j] = s[j]
      BY <1>3
    <2>3. CallsUpTo(v, t, i) = CallsUpTo(s, t, i)
      BY <2>1 DEF CallsUpTo
    <2>4. ForbiddingUpTo(v, t, i) = ForbiddingUpTo(s, t, i)
      BY <2>1, <2>3 DEF ForbiddingUpTo, CallsUpTo
    <2> QED
      BY <2>3, <2>4
  <1>6. /\ Cardinality(CallsUpTo(v, t, l + 1)) = Cardinality(CallsUpTo(s, t, l))
                + IF ~IsProtect(x) THEN 1 ELSE 0
        /\ Cardinality(ForbiddingUpTo(v, t, l + 1)) = Cardinality(ForbiddingUpTo(s, t, l))
                + IF ~IsProtect(x) /\ IsCall(x) /\ x.ny = 1 THEN 1 ELSE 0
    <2>1. CallsUpTo(v, t, l) = CallsUpTo(s, t, l) /\ ForbiddingUpTo(v, t, l) = ForbiddingUpTo(s, t, l)
      <3>1. l \in 0..l
        OBVIOUS
      <3> QED
        BY <3>1, <1>5
    <2>2. /\ Cardinality(CallsUpTo(v, t, l + 1)) = Cardinality(CallsUpTo(v, t, l))
                + IF v[l + 1].th = t /\ ~IsProtect(v[l + 1]) THEN 1 ELSE 0
          /\ Cardinality(ForbiddingUpTo(v, t, l + 1)) = Cardinality(ForbiddingUpTo(v, t, l))
                + IF v[l + 1].th = t /\ ~IsProtect(v[l + 1]) /\ IsCall(v[l + 1]) /\ v[l + 1].ny = 1
                  THEN 1 ELSE 0
      BY CountStep
    <2>3. v[l + 1] = x /\ x.th = t
      BY <1>3, <1>4
    <2> QED
      BY <2>1, <2>2, <2>3
  <1>7. ASSUME NEW b \in DOMAIN v, Base(v, b, t)
        PROVE  /\ m = Counted(v[b].nC, v, t, Len(v))
               /\ \A i \in DOMAIN v : v[i].th = t /\ IsProtect(v[i]) /\ v[i].by = "pcall" =>
                     v[i].nC = Counted(v[b].nC, v, t, i)
    <2>1. b \in 1..l /\ Base(s, b, t) /\ v[b] = s[b]
      BY <1>3, <1>7 DEF Base
    <2>2. n = Counted(s[b].nC, s, t, l)
      BY <1>2, <1>3, <1>4, <2>1 DEF CountsAgree
    <2>3. s[b] \in Entry /\ IsProtect(s[b])
      BY <1>3, <2>1, IsSeq DEF Base, IsBase
    <2>4. s[b].nC.c \in Nat /\ s[b].nC.ny \in Nat
      BY <2>3, Entries DEF ProtectEntry, Counter
    <2>5. Cardinality(CallsUpTo(s, t, l)) \in Nat /\ Cardinality(ForbiddingUpTo(s, t, l)) \in Nat
      BY CountFinite
    <2>6. /\ n.c = s[b].nC.c + Cardinality(CallsUpTo(s, t, l))
          /\ n.ny = s[b].nC.ny + Cardinality(ForbiddingUpTo(s, t, l))
      BY <2>2 DEF Counted
    <2>7. m = Counted(v[b].nC, v, t, Len(v))
      <3> DEFINE C1 == Cardinality(CallsUpTo(v, t, l + 1))
                 F1 == Cardinality(ForbiddingUpTo(v, t, l + 1))
                 C0 == Cardinality(CallsUpTo(s, t, l))
                 F0 == Cardinality(ForbiddingUpTo(s, t, l))
                 c0 == s[b].nC.c
                 n0 == s[b].nC.ny
      <3>1. Counted(v[b].nC, v, t, Len(v)) = [c |-> c0 + C1, ny |-> n0 + F1]
        BY <1>3, <2>1 DEF Counted
      <3>2. C1 = C0 + (IF ~IsProtect(x) THEN 1 ELSE 0)
        BY <1>6
      <3>3. F1 = F0 + (IF ~IsProtect(x) /\ IsCall(x) /\ x.ny = 1 THEN 1 ELSE 0)
        BY <1>6
      <3>4. c0 \in Nat /\ n0 \in Nat /\ C0 \in Nat /\ F0 \in Nat
        BY <2>4, <2>5
      <3>5. n = [c |-> c0 + C0, ny |-> n0 + F0]
        BY <2>2 DEF Counted
      <3>6. n.c = c0 + C0 /\ n.ny = n0 + F0
        BY <2>6
      <3> HIDE DEF C1, F1, C0, F0, c0, n0
      <3>7. CASE IsProtect(x)
        <4>1. C1 = C0 /\ F1 = F0
          BY <3>2, <3>3, <3>4, <3>7
        <4> QED
          BY <3>1, <3>5, <3>7, <4>1
      <3>8. CASE ~IsProtect(x) /\ IsCall(x) /\ x.ny = 1
        <4>1. c0 + C1 = n.c + 1 /\ n0 + F1 = n.ny + 1
          BY <3>2, <3>3, <3>4, <3>6, <3>8
        <4>2. m = [c |-> n.c + 1, ny |-> n.ny + 1]
          BY <3>8
        <4> QED
          BY <3>1, <4>1, <4>2
      <3>9. CASE ~IsProtect(x) /\ ~(IsCall(x) /\ x.ny = 1)
        <4>1. c0 + C1 = n.c + 1 /\ n0 + F1 = n.ny
          BY <3>2, <3>3, <3>4, <3>6, <3>9
        <4>2. m = [c |-> n.c + 1, ny |-> n.ny]
          BY <3>9
        <4> QED
          BY <3>1, <4>1, <4>2
      <3> QED
        BY <3>7, <3>8, <3>9
    <2>8. ASSUME NEW i \in DOMAIN v, v[i].th = t, IsProtect(v[i]), v[i].by = "pcall"
          PROVE  v[i].nC = Counted(v[b].nC, v, t, i)
      <3>1. CASE i \in 1..l
        <4>1. s[i].nC = Counted(s[b].nC, s, t, i)
          BY <1>3, <1>4, <2>1, <2>8, <3>1 DEF CountsAgree
        <4> QED
          BY <1>3, <1>5, <2>1, <3>1, <4>1 DEF Counted
      <3>2. CASE i = l + 1
        <4>1. IsProtect(x) /\ v[i].nC = n /\ m = n
          BY <1>3, <2>8, <3>2
        <4> QED
          BY <1>3, <2>7, <3>2, <4>1
      <3> QED
        BY <1>3, <3>1, <3>2
    <2> QED
      BY <2>7, <2>8
  <1>8. CountsAgree(t, m, v)
    BY <1>7 DEF CountsAgree
  <1> QED
    BY <1>1, <1>4, <1>8

\* A piece begins.
LEMMA CountsBegin ==
    ASSUME NEW s \in Seq(Entry), NEW x \in Entry, IsBase(x), ~InStack(s, x.th)
    PROVE  CountsAgree(x.th, x.nC, Append(s, x))
  <1>1. PICK v : v = Append(s, x)
    OBVIOUS
  <1>2. PICK l \in Nat : l = Len(s)
    BY IsSeq
  <1>3. /\ DOMAIN s = 1..l /\ DOMAIN v = 1..l + 1 /\ Len(v) = l + 1 /\ v[l + 1] = x
        /\ \A i \in 1..l : v[i] = s[i] /\ v[i].th # x.th
    BY <1>1, <1>2, Appended, IsSeq DEF InStack
  <1>4. PICK t : t = x.th
    OBVIOUS
  <1>5. IsProtect(x) /\ x.by # "pcall" /\ x.nC \in Counter
    BY Entries DEF IsBase, ProtectEntry
  <1>6. Cardinality(CallsUpTo(v, t, l)) = 0 /\ Cardinality(ForbiddingUpTo(v, t, l)) = 0
    BY <1>3, <1>4, CountNone
  <1>7. Cardinality(CallsUpTo(v, t, l + 1)) = 0 /\ Cardinality(ForbiddingUpTo(v, t, l + 1)) = 0
    BY <1>3, <1>5, <1>6, CountStep
  <1>8. Counted(x.nC, v, t, l + 1) = x.nC
    BY <1>5, <1>7 DEF Counted, Counter
  <1>9. CountsAgree(t, x.nC, v)
    <2>1. \A i \in DOMAIN v : v[i].th = t => i = l + 1 /\ v[i] = x
      BY <1>3, <1>4
    <2> QED
      BY <1>3, <1>5, <1>8, <2>1 DEF CountsAgree, Base
  <1> QED
    BY <1>1, <1>4, <1>9

LEMMA CountsPrefix ==
    ASSUME NEW s, Stack(s), NEW t, NEW b, Base(s, b, t), NEW n \in b..Len(s), NEW m,
           CountsAgree(t, m, s)
    PROVE  CountsAgree(t, Counted(s[b].nC, s, t, n), SubSeq(s, 1, n))
  <1>1. s \in Seq(Entry) /\ Len(s) \in Nat /\ DOMAIN s = 1..Len(s) /\ b \in 1..n /\ n \in 0..Len(s)
        /\ n \in Nat
    BY IsSeq DEF Stack, Base
  <1>2. PICK v : v = SubSeq(s, 1, n)
    OBVIOUS
  <1>3. DOMAIN v = 1..n /\ Len(v) = n /\ \A i \in 1..n : i \in DOMAIN s /\ v[i] = s[i]
    BY <1>1, <1>2, Prefix
  <1>4. ASSUME NEW i \in 0..n
        PROVE  /\ CallsUpTo(v, t, i) = CallsUpTo(s, t, i)
               /\ ForbiddingUpTo(v, t, i) = ForbiddingUpTo(s, t, i)
    <2>1. i \in Nat /\ \A j \in 1..i : v[j] = s[j]
      BY <1>1, <1>3
    <2> QED
      BY <2>1, CountSame
  <1>5. ASSUME NEW c \in DOMAIN v, Base(v, c, t) PROVE c = b
    BY <1>3, <1>5, OneBase DEF Base
  <1>6. Counted(s[b].nC, s, t, n) = Counted(v[b].nC, v, t, Len(v))
    BY <1>1, <1>3, <1>4 DEF Counted
  <1>7. ASSUME NEW i \in DOMAIN v, v[i].th = t, IsProtect(v[i]), v[i].by = "pcall"
        PROVE  v[i].nC = Counted(v[b].nC, v, t, i)
    <2>1. i \in 0..n /\ b \in DOMAIN s /\ v[b] = s[b]
      BY <1>1, <1>3
    <2>2. s[i].nC = Counted(s[b].nC, s, t, i)
      BY <1>3, <1>7, <2>1 DEF CountsAgree
    <2> QED
      BY <1>3, <1>4, <2>1, <2>2 DEF Counted
  <1>8. CountsAgree(t, Counted(s[b].nC, s, t, n), v)
    BY <1>5, <1>6, <1>7 DEF CountsAgree
  <1> QED
    BY <1>2, <1>8

-----------------------------------------------------------------------------
(* What is left to show of a thread after a step.                          *)

With(r, ci, nC, errfunc) == [r EXCEPT !.ci = ci, !.nC = nC, !.errfunc = errfunc]

LEMMA WithFields ==
    ASSUME NEW r \in State, NEW ci \in Seq(Frame), NEW nC \in Counter, NEW errfunc \in BOOLEAN,
           NEW w, w = With(r, ci, nC, errfunc)
    PROVE  /\ w \in State /\ w.ci = ci /\ w.nC = nC /\ w.errfunc = errfunc
           /\ w.status = r.status /\ w.fn = r.fn
  BY DEF With, State

LEMMA StateFields ==
    ASSUME NEW r \in State
    PROVE  /\ r.ci \in Seq(Frame) /\ r.nC \in Counter /\ r.errfunc \in BOOLEAN /\ r.fn \in BOOLEAN
           /\ r.status \in {"none", "ok", "yield", "error"}
  BY DEF State

LEMMA ActiveLocal ==
    ASSUME NEW s, NEW t, NEW r \in State, Local(t, r, s), NEW b, Base(s, b, t)
    PROVE  /\ InStack(s, t) /\ Agree(r.ci, Calls(s, t)) /\ r.status # "none" /\ ~r.fn
           /\ CountsAgree(t, r.nC, s)
           /\ s[b].by # "close" => r.status = "ok" /\ HandlersAgree(r.ci, r.errfunc)
  <1>1. InStack(s, t) /\ b \in DOMAIN s
    BY DEF InStack, Base
  <1> QED
    BY <1>1 DEF Local, Status

LEMMA LocalActive ==
    ASSUME NEW s, NEW t, Stack(s), NEW b, Base(s, b, t), NEW r \in State,
           Agree(r.ci, Calls(s, t)), r.status # "none", ~r.fn, CountsAgree(t, r.nC, s),
           s[b].by # "close" => r.status = "ok" /\ HandlersAgree(r.ci, r.errfunc)
    PROVE  Local(t, r, s)
  <1>1. InStack(s, t) /\ b \in DOMAIN s
    BY DEF InStack, Base
  <1>2. \A c \in DOMAIN s : Base(s, c, t) => c = b
    BY OneBase
  <1>3. Status(t, r, s)
    BY <1>1, <1>2 DEF Status
  <1> QED
    BY <1>1, <1>2, <1>3 DEF Local

LEMMA LocalInactive ==
    ASSUME NEW s, NEW t, ~InStack(s, t), NEW r \in State,
           r.status # "error" => Agree(r.ci, Calls(s, t)),
           r.status \in {"none", "ok"} => r.ci = <<>>, r.status = "none" \/ r.fn => ~r.errfunc,
           r.fn => r.status = "ok",
           r.status = "yield" => /\ r.ci # <<>> /\ Last(r.ci) = C("yield")
                                 /\ HandlersAgree(r.ci, r.errfunc)
    PROVE  Local(t, r, s)
  <1>1. \A b \in DOMAIN s : ~Base(s, b, t)
    BY DEF InStack, Base
  <1>2. CountsAgree(t, r.nC, s)
    BY <1>1 DEF CountsAgree
  <1>3. Status(t, r, s)
    BY <1>1 DEF Status, State
  <1> QED
    BY <1>1, <1>2, <1>3 DEF Local

LEMMA CallerSame ==
    ASSUME NEW s \in Seq(Entry), NEW v \in Seq(Entry), NEW b, v[b] = s[b], v[b - 1].th = s[b - 1].th,
           Same(s, v, s[b - 1].th), NEW q, Caller_(s, b, q)
    PROVE  Caller_(v, b, q)
  BY SameCalls DEF Caller_

\* A step of the running thread t, which stays the running one.
LEMMA Inside ==
    ASSUME NEW h, NEW s, Consistent(h, s), NEW t, t = Last(s).th, NEW v, Stack(v), Last(v).th = t,
           \A q \in Thread \ {t} : Same(s, v, q), NEW r \in State, Local(t, r, v),
           \A b \in DOMAIN v : b > 1 /\ Base(v, b, t) => Caller_(v, b, h[v[b - 1].th])
    PROVE  Consistent([h EXCEPT ![t] = r], v)
  <1>1. s \in Seq(Entry) /\ v \in Seq(Entry) /\ DOMAIN s = 1..Len(s) /\ DOMAIN v = 1..Len(v)
        /\ Len(v) \in Nat /\ Len(s) \in Nat
    BY IsSeq DEF Stack, Consistent
  <1>2. h \in [Thread -> State] /\ Callers(h, s) /\ \A q \in Thread : Local(q, h[q], s)
    BY DEF Consistent
  <1>3. PICK g : g = [h EXCEPT ![t] = r]
    OBVIOUS
  <1>4. g \in [Thread -> State] /\ (t \in Thread => g[t] = r) /\ \A q \in Thread \ {t} : g[q] = h[q]
    BY <1>2, <1>3
  <1>5. \A q \in Thread : Local(q, g[q], v)
    BY <1>1, <1>2, <1>4, LocalSame
  <1>6. \A i \in DOMAIN v : v[i].th \in Thread
    BY <1>1, IsSeq, Entries
  <1>7. ASSUME NEW i \in DOMAIN v, v[i].th # t PROVE i \in DOMAIN s /\ s[i] = v[i] /\ g[v[i].th] = h[s[i].th]
    <2>1. Same(s, v, v[i].th) /\ i \in Nat
      BY <1>1, <1>6, <1>7
    <2>2. i \in DOMAIN s /\ s[i] = v[i]
      BY <1>7, <2>1 DEF Same
    <2> QED
      BY <1>4, <1>6, <1>7, <2>2
  <1>8. ASSUME NEW b \in DOMAIN v, b > 1, IsBase(v[b]) PROVE Caller_(v, b, g[v[b - 1].th])
    <2>1. b - 1 \in DOMAIN v /\ v[b - 1].th \in Thread /\ v[b - 1].th # t
      BY <1>8, CallerWaits
    <2>2. b - 1 \in DOMAIN s /\ s[b - 1] = v[b - 1] /\ g[v[b - 1].th] = h[s[b - 1].th]
      BY <1>7, <2>1
    <2>3. CASE v[b].th = t
      BY <1>8, <2>2, <2>3 DEF Base
    <2>4. CASE v[b].th # t
      <3>1. b \in DOMAIN s /\ s[b] = v[b]
        BY <1>7, <2>4
      <3>2. Caller_(s, b, h[s[b - 1].th])
        BY <1>2, <1>8, <3>1 DEF Callers
      <3>3. Same(s, v, s[b - 1].th)
        BY <2>1, <2>2
      <3> QED
        BY <1>1, <2>2, <3>1, <3>2, <3>3, CallerSame
    <2> QED
      BY <2>3, <2>4
  <1>9. \A i \in DOMAIN v : v[i].th # t => g[v[i].th].ci # <<>>
    BY <1>2, <1>7 DEF Callers
  <1>10. Callers(g, v)
    BY <1>8, <1>9 DEF Callers
  <1>11. Consistent(g, v)
    BY <1>4, <1>5, <1>10 DEF Consistent
  <1> QED
    BY <1>3, <1>11

\* One that keeps the base of its piece, its status and fn.
LEMMA InsideWith ==
    ASSUME NEW h, NEW s, Consistent(h, s), NEW t, t = Last(s).th, NEW v, Stack(v), Last(v).th = t,
           \A q \in Thread \ {t} : Same(s, v, q),
           NEW b, Base(s, b, t), Base(v, b, t), v[b] = s[b], b > 1 => v[b - 1] = s[b - 1],
           NEW ci \in Seq(Frame), NEW nC \in Counter, NEW errfunc \in BOOLEAN,
           Agree(ci, Calls(v, t)), CountsAgree(t, nC, v),
           s[b].by # "close" => HandlersAgree(ci, errfunc)
    PROVE  Consistent([h EXCEPT ![t] = With(h[t], ci, nC, errfunc)], v)
  <1>1. s \in Seq(Entry) /\ v \in Seq(Entry) /\ Stack(s) /\ b \in DOMAIN s /\ IsBase(s[b])
        /\ s[b].th = t /\ b \in DOMAIN v
    BY DEF Stack, Consistent, Base
  <1>2. t \in Thread
    BY <1>1, IsSeq, Entries
  <1>3. h[t] \in State /\ Local(t, h[t], s) /\ Callers(h, s)
    BY <1>2 DEF Consistent
  <1>4. PICK w : w = With(h[t], ci, nC, errfunc)
    OBVIOUS
  <1>5. /\ w \in State /\ w.ci = ci /\ w.nC = nC /\ w.errfunc = errfunc
        /\ w.status = h[t].status /\ w.fn = h[t].fn
    BY <1>3, <1>4, WithFields
  <1>6. /\ h[t].status # "none" /\ ~h[t].fn
        /\ s[b].by # "close" => h[t].status = "ok"
    BY <1>3, ActiveLocal
  <1>7. Local(t, w, v)
    BY <1>5, <1>6, LocalActive
  <1>8. ASSUME NEW c \in DOMAIN v, c > 1, Base(v, c, t) PROVE Caller_(v, c, h[v[c - 1].th])
    <2>1. c = b
      BY <1>8, OneBase
    <2>2. Caller_(s, b, h[s[b - 1].th])
      BY <1>1, <1>3, <1>8, <2>1 DEF Callers
    <2>3. s[b - 1].th \in Thread \ {t}
      BY <1>1, <1>8, <2>1, CallerWaits
    <2> QED
      BY <1>1, <1>8, <2>1, <2>2, <2>3, CallerSame
  <1>9. Consistent([h EXCEPT ![t] = w], v)
    BY <1>5, <1>7, <1>8, Inside
  <1> QED
    BY <1>4, <1>9

\* A step that changes a thread u that is not on the C stack.
LEMMA Outside ==
    ASSUME NEW h, NEW s, Consistent(h, s), NEW u, ~InStack(s, u), NEW r \in State, Local(u, r, s)
    PROVE  Consistent([h EXCEPT ![u] = r], s)
  <1>1. s \in Seq(Entry) /\ Stack(s) /\ h \in [Thread -> State] /\ Callers(h, s)
        /\ \A q \in Thread : Local(q, h[q], s)
    BY DEF Stack, Consistent
  <1>2. PICK g : g = [h EXCEPT ![u] = r]
    OBVIOUS
  <1>3. g \in [Thread -> State] /\ (u \in Thread => g[u] = r) /\ \A q \in Thread \ {u} : g[q] = h[q]
    BY <1>1, <1>2
  <1>4. \A q \in Thread : Local(q, g[q], s)
    BY <1>1, <1>3
  <1>5. \A i \in DOMAIN s : s[i].th \in Thread \ {u}
    BY <1>1, IsSeq, Entries DEF InStack
  <1>6. ASSUME NEW b \in DOMAIN s, b > 1, IsBase(s[b]) PROVE Caller_(s, b, g[s[b - 1].th])
    <2>1. b - 1 \in DOMAIN s
      BY <1>1, <1>6, CallerWaits
    <2> QED
      BY <1>1, <1>3, <1>5, <1>6, <2>1 DEF Callers
  <1>7. \A i \in DOMAIN s : s[i].th # Last(s).th => g[s[i].th].ci # <<>>
    BY <1>1, <1>3, <1>5 DEF Callers
  <1>8. Consistent(g, s)
    BY <1>1, <1>3, <1>4, <1>6, <1>7 DEF Consistent, Callers
  <1> QED
    BY <1>2, <1>8

\* The running thread t calls a C function, which begins the piece of u.
Begins(p, y, s) == /\ p \in Entry /\ y \in Entry /\ IsProtect(p) /\ p.by \in {"resume", "close"}
                   /\ Protected(p, y) /\ ~IsProtect(y) /\ Needs(y) \in {{}, {p.by}}
                   /\ ~InStack(s, p.th)
Over(s, p, y) == Append(Append(s, p), y)
Waits(q, k) == With(q, Append(q.ci, C(k)), q.nC, q.errfunc)
Begun(p, y) == Plus(p.nC, IF IsCall(y) THEN y.ny ELSE 0)
Goes(k, p, q) == \/ p.by = "close" /\ k = "close"
                 \/ p.by = "resume" /\ k # "close" /\ p.nC = [c |-> q.nC.c, ny |-> 0]

LEMMA Enter ==
    ASSUME NEW h, NEW s, Consistent(h, s), NEW t, t = Last(s).th, Running(h[t], s),
           NEW k \in {"resume", "wrap", "close"},
           NEW p, NEW y, Begins(p, y, s), Goes(k, p, h[t]),
           NEW r \in State, Local(p.th, r, Over(s, p, y))
    PROVE  /\ Consistent([h EXCEPT ![t] = Waits(h[t], k), ![p.th] = r], Over(s, p, y))
           /\ Last(Over(s, p, y)).th = p.th
  <1>1. PICK u : u = p.th
    OBVIOUS
  <1>2. PICK v : v = Over(s, p, y) /\ v = Append(Append(s, p), y)
    BY DEF Over
  <1>3. PICK w : w = Waits(h[t], k) /\ w = With(h[t], Append(h[t].ci, C(k)), h[t].nC, h[t].errfunc)
    BY DEF Waits
  <1>4. Local(u, r, v)
    BY <1>1, <1>2
  <1> SUFFICES ASSUME p \in Entry, y \in Entry, IsProtect(p), Protected(p, y), ~IsProtect(y),
                      Needs(y) \in {{}, {p.by}}, ~InStack(s, p.th),
                      \/ p.by = "close" /\ k = "close"
                      \/ p.by = "resume" /\ k # "close" /\ p.nC = [c |-> h[t].nC.c, ny |-> 0]
               PROVE  Consistent([h EXCEPT ![t] = w, ![u] = r], v) /\ Last(v).th = u
    BY <1>1, <1>2, <1>3 DEF Begins, Goes
  <1>5. s \in Seq(Entry) /\ Stack(s) /\ h \in [Thread -> State] /\ Callers(h, s)
        /\ \A q \in Thread : Local(q, h[q], s)
    BY DEF Stack, Consistent
  <1>6. PICK l \in Nat : l = Len(s)
    BY <1>5, IsSeq
  <1>7. l > 1 /\ DOMAIN s = 1..l /\ Last(s) = s[l] /\ \A i \in DOMAIN s : s[i] \in Entry
    BY <1>5, <1>6, IsSeq DEF Stack
  <1>8. t \in Thread /\ u \in Thread /\ t # u /\ y.th = u /\ IsBase(p)
    BY <1>7, <1>1, Entries DEF InStack, Protected, IsBase
  <1>9. PICK m : m = Append(s, p)
    OBVIOUS
  <1>10. /\ m \in Seq(Entry) /\ Len(m) = l + 1 /\ DOMAIN m = 1..l + 1 /\ m[l + 1] = p
         /\ \A i \in 1..l : m[i] = s[i]
    BY <1>5, <1>6, <1>9, Appended
  <1>11. v = Append(m, y) /\ v \in Seq(Entry) /\ Last(v) = y
    <2>1. v = Append(m, y)
      BY <1>9, <1>2
    <2> QED
      BY <1>10, <2>1, Appended
  <1>12. /\ DOMAIN v = 1..l + 2 /\ v[l + 2] = y /\ v[l + 1] = p
         /\ \A i \in 1..l : v[i] = s[i]
    <2>1. DOMAIN v = 1..(l + 1) + 1 /\ v[(l + 1) + 1] = y /\ \A i \in 1..l + 1 : v[i] = m[i]
      BY <1>10, <1>11, Appended
    <2> QED
      BY <1>10, <2>1
  <1>13. Stack(v)
    <2>1. Stack(Append(Append(s, p), y))
      BY <1>5, <1>8, StackProtect
    <2> QED
      BY <1>2, <2>1
  <1>14. \A q : q # u => Same(s, v, q)
    <2> TAKE q
    <2>1. Same(s, m, q) \/ q = u
      BY <1>5, <1>9, <1>1, SamePush
    <2>2. Same(m, v, q) \/ q = u
      BY <1>8, <1>10, <1>11, SamePush
    <2> QED
      BY <2>1, <2>2, SameTrans
  <1>15. PICK f : f = C(k)
    OBVIOUS
  <1>16. f \in Frame /\ ~IsPCall(f) /\ f.kind = k
    BY <1>15, CFrames
  <1>17. h[t] \in State /\ Local(t, h[t], s) /\ h[t].ci \in Seq(Frame) /\ h[t].nC \in Counter
         /\ h[t].errfunc \in BOOLEAN
    BY <1>5, <1>8, StateFields
  <1>18. PICK d : d = Append(h[t].ci, f)
    OBVIOUS
  <1>19. d \in Seq(Frame) /\ d # <<>> /\ Last(d) = f /\ Len(d) = Len(h[t].ci) + 1
    BY <1>16, <1>17, <1>18, Appended
  <1>20. /\ w \in State /\ w.ci = d /\ w.nC = h[t].nC /\ w.errfunc = h[t].errfunc
         /\ w.status = h[t].status /\ w.fn = h[t].fn
    <2>1. w = With(h[t], d, h[t].nC, h[t].errfunc)
      BY <1>15, <1>18, <1>3
    <2> QED
      BY <1>17, <1>19, <2>1, WithFields
  <1>21. PICK b \in 1..Len(s) : Base(s, b, t)
    BY <1>5, TopPiece
  <1>22. Base(v, b, t) /\ v[b] = s[b]
    BY <1>7, <1>12, <1>21, <1>6 DEF Base
  <1>23. Local(t, w, v)
    <2>1. Same(s, v, t)
      BY <1>8, <1>14
    <2>2. Calls(v, t) = Calls(s, t)
      BY <1>5, <1>11, <2>1, SameCalls
    <2>3. /\ Agree(h[t].ci, Calls(s, t)) /\ h[t].status # "none" /\ ~h[t].fn
          /\ CountsAgree(t, h[t].nC, s)
          /\ s[b].by # "close" => h[t].status = "ok" /\ HandlersAgree(h[t].ci, h[t].errfunc)
      BY <1>17, <1>21, ActiveLocal
    <2>4. /\ Calls(s, t) \in [DOMAIN Calls(s, t) -> CallEntry] /\ DOMAIN Calls(s, t) \in SUBSET Nat
      BY <1>5, CallsType
    <2>5. Entered(h[t].ci, Calls(s, t)) /\ h[t].ci # <<>> /\ IsLua(Last(h[t].ci))
      BY DEF Running
    <2>6. Agree(d, Calls(s, t))
      BY <1>15, <1>17, <1>18, <2>3, <2>4, <2>5, AgreePush
    <2>7. CountsAgree(t, h[t].nC, v)
      BY <1>5, <1>11, <2>1, <2>3, SameCounts
    <2>8. s[b].by # "close" => HandlersAgree(d, h[t].errfunc)
      BY <1>16, <1>17, <1>18, <2>3, HandlersPush
    <2> QED
      BY <1>13, <1>20, <1>22, <2>2, <2>3, <2>6, <2>7, <2>8, LocalActive
  <1>24. PICK g : g = [h EXCEPT ![t] = w, ![u] = r]
    OBVIOUS
  <1>25. /\ g \in [Thread -> State] /\ g[t] = w /\ g[u] = r
         /\ \A q \in Thread \ {t, u} : g[q] = h[q]
    BY <1>5, <1>8, <1>20, <1>24
  <1>26. \A q \in Thread : Local(q, g[q], v)
    <2> TAKE q \in Thread
    <2>1. CASE q \in {t, u}
      BY <1>23, <1>25, <1>4, <2>1
    <2>2. CASE q \notin {t, u}
      BY <1>5, <1>11, <1>14, <1>25, <2>2, LocalSame
    <2> QED
      BY <2>1, <2>2
  <1>27. ASSUME NEW c \in DOMAIN v, c > 1, IsBase(v[c]) PROVE Caller_(v, c, g[v[c - 1].th])
    <2>1. CASE c = l + 1
      <3>1. v[c] = p /\ v[c - 1] = s[l] /\ v[c - 1].th = t
        BY <1>7, <1>12, <2>1
      <3>2. Calls(v, t) = Calls(s, t)
        BY <1>5, <1>8, <1>11, <1>14, SameCalls
      <3>3. /\ Calls(s, t) \in [DOMAIN Calls(s, t) -> CallEntry] /\ DOMAIN Calls(s, t) \in SUBSET Nat
        BY <1>5, CallsType
      <3>4. Entered(h[t].ci, Calls(s, t))
        BY DEF Running
      <3>5. Entered(d, Calls(v, t))
        <4>1. PICK G : G = Calls(s, t)
          OBVIOUS
        <4>2. \A i \in DOMAIN G : G[i].k \in Nat /\ G[i].k < Len(h[t].ci)
          BY <3>3, <3>4, <4>1 DEF Entered, CallEntry
        <4>3. Len(h[t].ci) \in Nat
          BY <1>17, IsSeq
        <4>4. \A i \in DOMAIN G : G[i].k < Len(d)
          BY <1>19, <4>2, <4>3
        <4> QED
          BY <3>2, <4>1, <4>4 DEF Entered
      <3>6. w.ci # <<>> /\ Last(w.ci) = C(k) /\ w.nC = h[t].nC
        BY <1>15, <1>19, <1>20
      <3> QED
        BY <1>20, <1>25, <3>1, <3>5, <3>6 DEF Caller_
    <2>2. CASE c \in 1..l
      <3>1. c \in DOMAIN s /\ v[c] = s[c] /\ c - 1 \in 1..l /\ v[c - 1] = s[c - 1]
        BY <1>7, <1>12, <1>27, <2>2
      <3>2. s[c - 1].th \in Thread /\ s[c - 1].th # t
        BY <1>5, <1>27, <3>1, CallerWaits
      <3>3. s[c - 1].th # u
        BY <1>7, <1>8, <1>1, <3>1 DEF InStack
      <3>4. Caller_(s, c, h[s[c - 1].th])
        BY <1>5, <1>27, <3>1 DEF Callers
      <3>5. Same(s, v, s[c - 1].th)
        BY <1>14, <3>3
      <3> QED
        BY <1>5, <1>11, <1>25, <3>1, <3>2, <3>3, <3>4, <3>5, CallerSame
    <2>3. c # l + 2
      BY <1>12, <1>27 DEF IsBase
    <2>4. c \in 1..l + 2
      BY <1>12, <1>27
    <2>5. c \in 1..l \/ c = l + 1
      <3>1. \A i \in 1..l + 2 : i = l + 2 \/ i = l + 1 \/ i \in 1..l
        OBVIOUS
      <3> QED
        BY <2>3, <2>4, <3>1
    <2> QED
      BY <2>1, <2>2, <2>5
  <1>28. ASSUME NEW i \in DOMAIN v, v[i].th # Last(v).th PROVE g[v[i].th].ci # <<>>
    <2>1. i \in 1..l /\ v[i] = s[i] /\ i \in DOMAIN s
      <3>1. \A j \in 1..l + 2 : j = l + 2 \/ j = l + 1 \/ j \in 1..l
        OBVIOUS
      <3>2. i # l + 2 /\ i # l + 1
        BY <1>8, <1>11, <1>12, <1>28, <1>1
      <3>3. i \in 1..l
        BY <1>12, <3>1, <3>2
      <3> QED
        BY <1>7, <1>12, <3>3
    <2>2. s[i].th \in Thread /\ s[i].th # u
      BY <1>7, <1>8, <1>11, <1>28, <2>1, Entries
    <2>3. CASE s[i].th = t
      BY <1>19, <1>20, <1>25, <2>1, <2>3
    <2>4. CASE s[i].th # t
      BY <1>5, <1>25, <2>1, <2>2, <2>4 DEF Callers
    <2> QED
      BY <2>3, <2>4
  <1>29. Callers(g, v)
    BY <1>27, <1>28 DEF Callers
  <1>30. Consistent(g, v)
    BY <1>13, <1>25, <1>26, <1>29 DEF Consistent
  <1> QED
    BY <1>8, <1>11, <1>24, <1>30

\* The piece of the running thread t ends, and the C function of u returns.
Left(q) == With(q, SubSeq(q.ci, 1, Len(q.ci) - 1), q.nC, q.errfunc)
LEMMA Leave ==
    ASSUME NEW h, NEW s, Consistent(h, s), NEW t, t = Last(s).th, NEW b, Base(s, b, t), b > 1,
           NEW r \in State, Local(t, r, SubSeq(s, 1, b - 1))
    PROVE  /\ Consistent([h EXCEPT ![t] = r, ![s[b - 1].th] = Left(h[s[b - 1].th])], SubSeq(s, 1, b - 1))
           /\ Last(SubSeq(s, 1, b - 1)).th = s[b - 1].th
           /\ Running(Left(h[s[b - 1].th]), SubSeq(s, 1, b - 1))
           /\ s[b - 1].th \in Thread /\ s[b - 1].th # t
  <1>1. PICK U, V, W : /\ U = s[b - 1].th /\ V = SubSeq(s, 1, b - 1) /\ W = Left(h[U])
                       /\ W = With(h[U], SubSeq(h[U].ci, 1, Len(h[U].ci) - 1), h[U].nC, h[U].errfunc)
    BY DEF Left
  <1>2. s \in Seq(Entry) /\ Stack(s) /\ h \in [Thread -> State] /\ Callers(h, s)
        /\ \A q \in Thread : Local(q, h[q], s)
    BY DEF Stack, Consistent
  <1>3. PICK l \in Nat : l = Len(s)
    BY <1>2, IsSeq
  <1>4. /\ l > 1 /\ DOMAIN s = 1..l /\ Last(s) = s[l] /\ \A i \in DOMAIN s : s[i] \in Entry
        /\ b \in 2..l /\ b - 1 \in DOMAIN s /\ IsBase(s[b]) /\ s[b].th = t
    BY <1>2, <1>3, IsSeq DEF Stack, Base
  <1>5. t \in Thread /\ U \in Thread /\ U # t
    BY <1>1, <1>2, <1>4, Entries, CallerWaits
  <1>6. ~(IsProtect(s[b - 1]) /\ s[b - 1].by # "unroll")
    <2>1. SUFFICES ASSUME IsProtect(s[b - 1]), s[b - 1].by # "unroll" PROVE FALSE
      OBVIOUS
    <2>2. Protected(s[b - 1], s[(b - 1) + 1])
      BY <1>2, <1>4, <2>1 DEF Stack, Protection
    <2>3. s[b].th = s[b - 1].th
      BY <1>4, <2>2 DEF Protected
    <2> QED
      BY <1>1, <1>4, <1>5, <2>3
  <1>7. b > 2
    <2>1. IsProtect(s[1]) /\ s[1].by = "main"
      BY <1>2 DEF Stack, Protect, IsProtect
    <2>2. b # 2
      BY <1>6, <2>1
    <2> QED
      BY <1>4, <2>2
  <1>8. Stack(V)
    <2>1. b - 1 \in 2..Len(s)
      BY <1>3, <1>4, <1>7
    <2> QED
      BY <1>1, <1>2, <1>6, <2>1, StackPrefix
  <1>9. /\ V \in Seq(Entry) /\ DOMAIN V = 1..b - 1 /\ Len(V) = b - 1 /\ Last(V) = s[b - 1]
        /\ \A i \in 1..b - 1 : V[i] = s[i]
    <2>1. b - 1 \in 0..Len(s) /\ b - 1 > 0
      BY <1>3, <1>4
    <2> QED
      BY <1>1, <1>2, <2>1, Prefix
  <1>10. \A i \in b..l : s[i].th = t
    <2>1. s \in Seq(Entry) /\ Pieces(s)
      BY <1>2 DEF Stack
    <2>2. l \in DOMAIN s /\ b <= l /\ s[b].th = s[l].th
      BY <1>4
    <2> QED
      BY <1>4, <2>1, <2>2 DEF Pieces
  <1>11. \A q \in Thread \ {t} : Same(s, V, q)
    <2> TAKE q \in Thread \ {t}
    <2>1. b - 1 \in 0..Len(s) /\ \A i \in (b - 1) + 1..Len(s) : s[i].th # q
      BY <1>3, <1>4, <1>10
    <2> QED
      BY <1>1, <1>2, <2>1, SamePrefix
  <1>12. ~InStack(V, t)
    <2>1. Pieces(s) /\ b \in DOMAIN s /\ IsBase(s[b]) /\ s[b].th = t
      BY <1>2, <1>4 DEF Stack
    <2>2. \A i \in 1..b - 1 : s[i].th # t
      BY <2>1 DEF Pieces
    <2> QED
      BY <1>9, <2>2 DEF InStack
  <1>13. PICK ci : ci = h[U].ci
    OBVIOUS
  <1>14. PICK G : G = Calls(s, U)
    OBVIOUS
  <1>15. /\ h[U] \in State /\ Local(U, h[U], s) /\ ci \in Seq(Frame)
         /\ h[U].nC \in Counter /\ h[U].errfunc \in BOOLEAN
    BY <1>2, <1>5, <1>13, StateFields
  <1>16. Caller_(s, b, h[U])
    BY <1>1, <1>2, <1>4 DEF Callers
  <1>17. PICK n \in Nat : n = Len(ci) /\ n > 0 /\ Last(ci) = ci[n] /\ DOMAIN ci = 1..n
                          /\ \A j \in DOMAIN ci : ci[j] \in Frame
    BY <1>13, <1>15, <1>16, IsSeq DEF Caller_
  <1>18. \A i \in DOMAIN G : G[i].k < n
    BY <1>1, <1>13, <1>14, <1>16, <1>17 DEF Caller_, Entered
  <1>19. PICK k \in {"close", "wrap", "resume"} : ci[n] = C(k)
    BY <1>13, <1>16, <1>17 DEF Caller_
  <1>20. ~IsLua(ci[n]) /\ ~IsPCall(ci[n]) /\ ci[n] # Fresh
    BY <1>19, CFrames
  <1>21. PICK c \in 1..Len(s) : Base(s, c, U)
    <2>1. Pieces(s) /\ b - 1 \in 1..l
      BY <1>2, <1>4 DEF Stack
    <2>2. \E c \in 1..b - 1 : IsBase(s[c]) /\ s[c].th = U
      BY <1>1, <1>4, <2>1 DEF Pieces
    <2>3. \A c \in 1..b - 1 : c \in 1..l
      BY <1>4
    <2> QED
      BY <1>3, <1>4, <2>2, <2>3 DEF Base
  <1>22. /\ Agree(ci, G) /\ h[U].status # "none" /\ ~h[U].fn
         /\ CountsAgree(U, h[U].nC, s)
         /\ s[c].by # "close" => h[U].status = "ok" /\ HandlersAgree(ci, h[U].errfunc)
    BY <1>13, <1>14, <1>15, <1>21, ActiveLocal
  <1>23. Same(s, V, U)
    BY <1>5, <1>11
  <1>24. Calls(V, U) = G /\ Base(V, c, U) /\ V[c] = s[c]
    <2>1. s \in Seq(Entry) /\ V \in Seq(Entry)
      BY <1>2, <1>9
    <2>2. /\ Calls(V, U) = Calls(s, U)
          /\ \A a : Base(V, a, U) <=> Base(s, a, U)
          /\ \A a : Base(s, a, U) => V[a] = s[a]
      BY <1>23, <2>1, SameCalls
    <2> QED
      BY <1>14, <1>21, <2>2
  <1>25. G \in [DOMAIN G -> CallEntry] /\ DOMAIN G \in SUBSET Nat
    BY <1>2, <1>14, CallsType
  <1>26. \A i \in DOMAIN G : G[i].k \in Nat /\ G[i].k < n - 1
    <2> TAKE i \in DOMAIN G
    <2>1. CallOK(ci, G[i]) /\ G[i].k \in Nat /\ G[i].k < n
      BY <1>18, <1>22, <1>25 DEF Agree, CallEntry
    <2>2. ASSUME G[i].k = n - 1 PROVE FALSE
      <3>1. ci[G[i].k + 1] = Fresh
        BY <1>17, <2>1 DEF CallOK
      <3> QED
        BY <1>17, <1>20, <2>2, <3>1
    <2> QED
      BY <2>1, <2>2
  <1>27. PICK d : d = SubSeq(ci, 1, n - 1)
    OBVIOUS
  <1>28. n - 1 \in 0..Len(ci)
    BY <1>17
  <1>29. Agree(d, G)
    <2>1. \A i \in DOMAIN G : G[i].k <= n - 1
      BY <1>17, <1>26
    <2> QED
      BY <1>15, <1>22, <1>25, <1>27, <1>28, <2>1, AgreePop
  <1>30. n > 1 /\ IsLua(ci[n - 1])
    <2>1. CalledByLua(ci)
      BY <1>22 DEF Agree
    <2>2. n \in DOMAIN ci
      BY <1>17
    <2> QED
      BY <1>17, <1>20, <2>1, <2>2 DEF CalledByLua
  <1>31. d \in Seq(Frame) /\ Len(d) = n - 1 /\ d # <<>> /\ Last(d) = ci[n - 1]
    <2>1. /\ SubSeq(ci, 1, n - 1) \in Seq(Frame) /\ Len(SubSeq(ci, 1, n - 1)) = n - 1
          /\ SubSeq(ci, 1, n - 1) = <<>> <=> n - 1 = 0
          /\ n - 1 > 0 => Last(SubSeq(ci, 1, n - 1)) = ci[n - 1]
      BY <1>15, <1>28, Prefix
    <2>2. n - 1 > 0 /\ n - 1 # 0
      BY <1>30
    <2> QED
      BY <1>27, <2>1, <2>2
  <1>32. s[c].by # "close" => HandlersAgree(d, h[U].errfunc)
    <2>1. ci # <<>> /\ ~IsPCall(Last(ci)) /\ d = SubSeq(ci, 1, Len(ci) - 1)
      BY <1>17, <1>20, <1>27, <1>15, IsSeq
    <2> QED
      BY <1>15, <1>22, <2>1, HandlersPop
  <1>33. /\ W \in State /\ W.ci = d /\ W.nC = h[U].nC /\ W.errfunc = h[U].errfunc
         /\ W.status = h[U].status /\ W.fn = h[U].fn
    <2>1. W = With(h[U], d, h[U].nC, h[U].errfunc)
      BY <1>1, <1>13, <1>17, <1>27
    <2>2. /\ h[U] \in State /\ d \in Seq(Frame) /\ h[U].nC \in Counter
          /\ h[U].errfunc \in BOOLEAN
      BY <1>15, <1>31
    <2> QED
      BY <2>1, <2>2, WithFields
  <1>34. Local(U, W, V)
    <2>1. CountsAgree(U, h[U].nC, V)
      <3>1. s \in Seq(Entry) /\ V \in Seq(Entry) /\ CountsAgree(U, h[U].nC, s)
        BY <1>2, <1>9, <1>22
      <3> QED
        BY <1>23, <3>1, SameCounts
    <2> QED
      BY <1>8, <1>22, <1>24, <1>29, <1>32, <1>33, <2>1, LocalActive
  <1>35. Running(W, V)
    <2>1. Entered(d, G)
      BY <1>26, <1>31 DEF Entered
    <2> QED
      BY <1>1, <1>9, <1>24, <1>30, <1>31, <1>33, <2>1 DEF Running
  <1>36. PICK g : g = [h EXCEPT ![t] = r, ![U] = W]
    OBVIOUS
  <1>37. /\ g \in [Thread -> State] /\ g[t] = r /\ g[U] = W
         /\ \A q \in Thread \ {t, U} : g[q] = h[q]
    BY <1>2, <1>5, <1>33, <1>36
  <1>38. \A q \in Thread : Local(q, g[q], V)
    <2> TAKE q \in Thread
    <2>1. CASE q \in {t, U}
      BY <1>1, <1>34, <1>37, <2>1
    <2>2. CASE q \notin {t, U}
      <3>1. Same(s, V, q) /\ Local(q, h[q], s) /\ g[q] = h[q]
        BY <1>2, <1>11, <1>37, <2>2
      <3> QED
        BY <1>2, <1>9, <3>1, LocalSame
    <2> QED
      BY <2>1, <2>2
  <1>39. \A i \in DOMAIN V : i \in DOMAIN s /\ V[i] = s[i] /\ s[i].th \in Thread \ {t}
    BY <1>4, <1>9, <1>12, Entries DEF InStack
  <1>40. ASSUME NEW a \in DOMAIN V, a > 1, IsBase(V[a]) PROVE Caller_(V, a, g[V[a - 1].th])
    <2>1. a - 1 \in DOMAIN V /\ V[a - 1].th # U
      BY <1>1, <1>8, <1>9, <1>40, CallerWaits, ZenonT(60)
    <2>2. a - 1 \in DOMAIN s /\ V[a - 1] = s[a - 1] /\ s[a - 1].th \in Thread \ {t, U}
      BY <1>39, <2>1
    <2>3. a \in DOMAIN s /\ V[a] = s[a]
      BY <1>39, <1>40
    <2>4. Caller_(s, a, h[s[a - 1].th])
      BY <1>2, <1>40, <2>3 DEF Callers
    <2>5. Same(s, V, s[a - 1].th)
      BY <1>11, <2>2
    <2> QED
      BY <1>2, <1>9, <1>37, <2>2, <2>3, <2>4, <2>5, CallerSame
  <1>41. ASSUME NEW i \in DOMAIN V, V[i].th # Last(V).th PROVE g[V[i].th].ci # <<>>
    <2>1. i \in DOMAIN s /\ V[i] = s[i] /\ s[i].th \in Thread \ {t, U}
      BY <1>1, <1>9, <1>39, <1>41
    <2>2. s[i].th # Last(s).th
      BY <2>1
    <2> QED
      BY <1>2, <1>37, <2>1, <2>2 DEF Callers
  <1>42. Consistent(g, V)
    BY <1>8, <1>37, <1>38, <1>40, <1>41 DEF Consistent, Callers
  <1> QED
    BY <1>1, <1>5, <1>9, <1>35, <1>36, <1>42

-----------------------------------------------------------------------------
(* What CoroutineStates sees of a C stack and of the lua_States.           *)

Actives(s) == {s[i].th : i \in DOMAIN s}
EntryIn(s, t) == CHOOSE i \in DOMAIN s : IsBase(s[i]) /\ s[i].th = t
Resumers(s) == [t \in Actives(s) \ {main} |-> s[EntryIn(s, t) - 1].th]
Ready(r) == (r.status = "ok" /\ r.ci = <<>> /\ r.fn) \/ r.status = "yield"
Closers(s) == {t \in Thread : t \in Actives(s) /\ s[EntryIn(s, t)].by = "close"}
Waiting(h, s) == {t \in Thread : Ready(h[t])} \ Actives(s)
Known(h) == {t \in Thread : h[t].status # "none"}

LEMMA Abstract ==
    /\ T = Last(cs).th /\ Active = Actives(cs)
    /\ [t \in Active \ {main} |-> Caller(t)] = Resumers(cs)
    /\ {t \in Thread : Accepts(t)} \ Active = Waiting(th, cs)
    /\ {t \in Thread : Closing(t)} = Closers(cs)
    /\ {t \in Thread : th[t].status # "none"} = Known(th)
  <1>1. T = Last(cs).th /\ Active = Actives(cs)
    BY DEF T, Active, Actives
  <1>2. \A t : Caller(t) = cs[EntryIn(cs, t) - 1].th
    BY DEF Caller, EntryOf, EntryIn
  <1>3. [t \in Active \ {main} |-> Caller(t)] = Resumers(cs)
    BY <1>1, <1>2 DEF Resumers
  <1>4. \A t : Accepts(t) <=> Ready(th[t])
    BY DEF Accepts, Ready
  <1>5. {t \in Thread : Accepts(t)} \ Active = Waiting(th, cs)
    BY <1>1, <1>4 DEF Waiting
  <1>6. {t \in Thread : Closing(t)} = Closers(cs)
    BY <1>1 DEF Closing, Closers, EntryOf, EntryIn
  <1> QED
    BY <1>1, <1>3, <1>5, <1>6 DEF Known

LEMMA AbstractNext ==
    ASSUME NEW h, NEW v, th' = h, cs' = v
    PROVE  /\ T' = Last(v).th
           /\ [t \in Active \ {main} |-> Caller(t)]' = Resumers(v)
           /\ ({t \in Thread : Accepts(t)} \ Active)' = Waiting(h, v)
           /\ {t \in Thread : Closing(t)}' = Closers(v)
           /\ {t \in Thread : th[t].status # "none"}' = Known(h)
  <1>1. T' = Last(v).th /\ Active' = Actives(v)
    BY DEF T, Active, Actives
  <1>2. \A t : Caller(t)' = v[EntryIn(v, t) - 1].th
    BY DEF Caller, EntryOf, EntryIn
  <1>3. [t \in Active \ {main} |-> Caller(t)]' = Resumers(v)
    BY <1>1, <1>2 DEF Resumers
  <1>4. \A t : Accepts(t)' <=> Ready(h[t])
    BY DEF Accepts, Ready
  <1>5. ({t \in Thread : Accepts(t)} \ Active)' = Waiting(h, v)
    BY <1>1, <1>4 DEF Waiting
  <1>6. {t \in Thread : Closing(t)}' = Closers(v)
    BY <1>1 DEF Closing, Closers, EntryOf, EntryIn
  <1> QED
    BY <1>1, <1>3, <1>5, <1>6 DEF Known

\* The invariant is kept, by a step of CoroutineStates or one that it does not see.
Kept == Inv' /\ (States!Step \/ UNCHANGED States!visible)

LEMMA StutterStep ==
    ASSUME NEW h, NEW v, th' = h, cs' = v, Last(v).th = Last(cs).th, Resumers(v) = Resumers(cs),
           Waiting(h, v) = Waiting(th, cs), Closers(v) = Closers(cs), Known(h) = Known(th)
    PROVE  UNCHANGED States!visible
  BY Abstract, AbstractNext DEF States!visible

\* The running one has failed, and is closed.
LEMMA FailStep ==
    ASSUME NEW h, NEW v, th' = h, cs' = v, Last(cs).th # main,
           Last(v).th = Last(cs).th, Resumers(v) = Resumers(cs),
           Waiting(h, v) = Waiting(th, cs), Closers(v) = Closers(cs) \cup {Last(cs).th},
           Known(h) = Known(th)
    PROVE  States!Step
  <1>1. States!Fail
    BY Abstract, AbstractNext DEF States!Fail
  <1> QED
    BY <1>1 DEF States!Step

\* A coroutine is entered by resume, or by close.
LEMMA EnterStep ==
    ASSUME NEW h, NEW v, th' = h, cs' = v,
           NEW c \in Thread, c \in Known(th), c \notin Actives(cs), c # main, Last(v).th = c,
           Resumers(v) = [r \in DOMAIN Resumers(cs) \cup {c} |->
                            IF r = c THEN Last(cs).th ELSE Resumers(cs)[r]],
           Waiting(h, v) = Waiting(th, cs) \ {c}, Known(h) = Known(th),
           \/ Closers(v) = Closers(cs) \cup {c}
           \/ c \in Waiting(th, cs) /\ Closers(v) = Closers(cs)
    PROVE  States!Step
  <1>1. DOMAIN Resumers(cs) = Actives(cs) \ {main}
    BY DEF Resumers
  <1>2. States!Enter(c)
    BY Abstract, AbstractNext DEF States!Enter
  <1>3. c \notin States!Active
    BY <1>1, Abstract DEF States!Active
  <1>4. States!Close(c) \/ States!Resume(c)
    BY <1>2, <1>3, Abstract, AbstractNext DEF States!Close, States!Resume
  <1> QED
    BY <1>4 DEF States!Step

\* It yields, or it ends.
LEMMA LeaveStep ==
    ASSUME NEW h, NEW v, th' = h, cs' = v, Last(cs).th # main,
           Last(v).th = Resumers(cs)[Last(cs).th],
           Resumers(v) = [r \in DOMAIN Resumers(cs) \ {Last(cs).th} |-> Resumers(cs)[r]],
           \/ Waiting(h, v) = Waiting(th, cs)
           \/ /\ Waiting(h, v) = Waiting(th, cs) \cup {Last(cs).th}
              /\ Last(cs).th \notin Closers(cs),
           Closers(v) = Closers(cs) \ {Last(cs).th}, Known(h) = Known(th)
    PROVE  States!Step
  <1>1. States!Leave
    BY Abstract, AbstractNext DEF States!Leave, States!Restrict, Restrict
  <1>2. States!Yield \/ States!Finish
    BY <1>1, Abstract, AbstractNext DEF States!Yield, States!Finish
  <1> QED
    BY <1>2 DEF States!Step

\* A coroutine that is not active is created, or reset.
LEMMA OutsideStep ==
    ASSUME NEW h, th' = h, cs' = cs, NEW c \in Thread, c \notin Actives(cs), c # main,
           \/ c \notin Known(th) /\ Known(h) = Known(th) \cup {c} /\ Waiting(h, cs) = Waiting(th, cs) \cup {c}
           \/ c \in Known(th) /\ Known(h) = Known(th) /\ Waiting(h, cs) = Waiting(th, cs) \ {c}
    PROVE  States!Step
  <1>1. DOMAIN Resumers(cs) = Actives(cs) \ {main}
    BY DEF Resumers
  <1>2. States!Create(c) \/ States!Close(c)
    BY <1>1, Abstract, AbstractNext DEF States!Create, States!Close, States!Active
  <1> QED
    BY <1>2 DEF States!Step

-----------------------------------------------------------------------------

LEMMA EntryIs ==
    ASSUME NEW s, Stack(s), NEW t, NEW b, Base(s, b, t)
    PROVE  EntryIn(s, t) = b
  <1>1. PICK c : c = EntryIn(s, t)
    OBVIOUS
  <1>2. Base(s, c, t)
    BY <1>1 DEF EntryIn, Base
  <1>3. c = b
    BY <1>2, OneBase
  <1> QED
    BY <1>1, <1>3

LEMMA ResumerOf ==
    ASSUME NEW s, Stack(s), NEW t \in Actives(s)
    PROVE  \E b \in DOMAIN s : /\ Base(s, b, t)
                               /\ t # main => /\ b > 1 /\ b - 1 \in DOMAIN s
                                              /\ Resumers(s)[t] = s[b - 1].th
  <1>1. PICK i \in DOMAIN s : s[i].th = t
    BY DEF Actives
  <1>2. s \in Seq(Entry) /\ DOMAIN s = 1..Len(s) /\ Len(s) \in Nat
    BY IsSeq DEF Stack
  <1>3. PICK b \in 1..i : IsBase(s[b]) /\ s[b].th = t
    BY <1>1 DEF Stack, Pieces
  <1>4. b \in DOMAIN s /\ b \in Nat
    BY <1>2, <1>3
  <1>5. Base(s, b, t)
    BY <1>3, <1>4 DEF Base
  <1>6. ASSUME t # main
        PROVE  b > 1 /\ b - 1 \in DOMAIN s /\ Resumers(s)[t] = s[b - 1].th
    <2>1. s[1].th = main
      BY DEF Stack, Protect
    <2>2. b # 1
      BY <1>3, <1>6, <2>1
    <2>3. b > 1 /\ b - 1 \in DOMAIN s
      BY <1>2, <1>4, <2>2
    <2>4. EntryIn(s, t) = b
      BY <1>5, EntryIs
    <2>5. Resumers(s)[t] = s[EntryIn(s, t) - 1].th
      BY <1>6 DEF Resumers
    <2> QED
      BY <2>3, <2>4, <2>5
  <1> QED
    BY <1>4, <1>5, <1>6

\* The last piece changes, but not its base.
LEMMA MapSame ==
    ASSUME NEW s, Stack(s), NEW v, Stack(v), NEW t, t = Last(s).th, Last(v).th = t,
           \A q \in Thread \ {t} : Same(s, v, q),
           NEW b, Base(s, b, t), Base(v, b, t), b > 1 => v[b - 1] = s[b - 1]
    PROVE  /\ Actives(v) = Actives(s) /\ Resumers(v) = Resumers(s) /\ t \in Actives(s)
           /\ (v[b].by = "close" <=> s[b].by = "close") => Closers(v) = Closers(s)
           /\ v[b].by = "close" => Closers(v) = Closers(s) \cup {t}
  <1>1. s \in Seq(Entry) /\ v \in Seq(Entry)
    BY DEF Stack
  <1>2. t \in Actives(s) /\ t \in Actives(v) /\ b \in DOMAIN s
    BY DEF Actives, Base
  <1>3. \A q \in Thread \ {t} : q \in Actives(v) <=> q \in Actives(s)
    <2> TAKE q \in Thread \ {t}
    <2>1. InStack(v, q) <=> InStack(s, q)
      BY <1>1, SameCalls
    <2> QED
      BY <2>1 DEF InStack, Actives
  <1>4. Actives(s) \in SUBSET Thread /\ Actives(v) \in SUBSET Thread
    BY <1>1, IsSeq, Entries DEF Actives
  <1>5. Actives(v) = Actives(s)
    BY <1>2, <1>3, <1>4
  <1>6. ASSUME NEW q \in Actives(s) \ {main}
        PROVE  Resumers(v)[q] = Resumers(s)[q]
    <2>1. PICK c \in DOMAIN s : Base(s, c, q) /\ c > 1 /\ c - 1 \in DOMAIN s /\ Resumers(s)[q] = s[c - 1].th
      BY <1>6, ResumerOf
    <2>2. PICK d \in DOMAIN v : Base(v, d, q) /\ Resumers(v)[q] = v[d - 1].th
      BY <1>5, <1>6, ResumerOf
    <2>3. CASE q = t
      <3>1. c = b /\ d = b
        BY <2>1, <2>2, <2>3, OneBase
      <3> QED
        BY <2>1, <2>2, <3>1
    <2>4. CASE q # t
      <3>1. Base(v, c, q)
        BY <1>1, <1>4, <2>1, <2>4, SameCalls
      <3>2. d = c
        BY <2>2, <3>1, OneBase
      <3>3. s[c - 1].th \in Thread \ {t}
        BY <2>1, CallerWaits DEF Base
      <3>4. Same(s, v, s[c - 1].th)
        BY <3>3
      <3>5. c - 1 \in Nat
        BY <1>1, <2>1, IsSeq
      <3>6. v[c - 1] = s[c - 1]
        BY <2>1, <3>4, <3>5 DEF Same
      <3> QED
        BY <2>1, <2>2, <3>2, <3>6
    <2> QED
      BY <2>3, <2>4
  <1>7. Resumers(v) = Resumers(s)
    BY <1>5, <1>6 DEF Resumers
  <1>8. ASSUME NEW q \in Actives(s), q # t
        PROVE  v[EntryIn(v, q)] = s[EntryIn(s, q)]
    <2>1. PICK c \in DOMAIN s : Base(s, c, q)
      BY ResumerOf
    <2>2. q \in Thread \ {t}
      BY <1>4, <1>8
    <2>3. Base(v, c, q) /\ Same(s, v, q) /\ s[c].th = q /\ c \in Nat
      BY <1>1, <2>1, <2>2, SameCalls, IsSeq DEF Base
    <2>4. v[c] = s[c]
      BY <2>1, <2>3 DEF Same
    <2>5. EntryIn(s, q) = c /\ EntryIn(v, q) = c
      BY <2>1, <2>3, EntryIs
    <2> QED
      BY <2>4, <2>5
  <1>9. EntryIn(s, t) = b /\ EntryIn(v, t) = b
    BY EntryIs
  <1>10. \A q \in Thread \ {t} : q \in Closers(v) <=> q \in Closers(s)
    BY <1>5, <1>8 DEF Closers
  <1>11. t \in Thread /\ (t \in Closers(s) <=> s[b].by = "close") /\ (t \in Closers(v) <=> v[b].by = "close")
    BY <1>2, <1>4, <1>9 DEF Closers
  <1>12. Closers(s) \in SUBSET Thread /\ Closers(v) \in SUBSET Thread
    BY DEF Closers
  <1>13. (v[b].by = "close" <=> s[b].by = "close") => Closers(v) = Closers(s)
    BY <1>10, <1>11, <1>12
  <1>14. v[b].by = "close" => Closers(v) = Closers(s) \cup {t}
    BY <1>10, <1>11, <1>12
  <1> QED
    BY <1>2, <1>5, <1>7, <1>13, <1>14

\* A piece is put over it.
LEMMA MapOver ==
    ASSUME NEW s, Stack(s), NEW p, NEW y, Begins(p, y, s), Stack(Over(s, p, y))
    PROVE  /\ p.th \in Thread /\ p.th \notin Actives(s) /\ p.th # main /\ Last(s).th \in Actives(s)
           /\ Actives(Over(s, p, y)) = Actives(s) \cup {p.th}
           /\ Resumers(Over(s, p, y)) = [r \in DOMAIN Resumers(s) \cup {p.th} |->
                               IF r = p.th THEN Last(s).th ELSE Resumers(s)[r]]
           /\ Closers(Over(s, p, y)) = IF p.by = "close" THEN Closers(s) \cup {p.th} ELSE Closers(s)
  <1>1. PICK l \in Nat : l = Len(s) /\ l > 1 /\ DOMAIN s = 1..l /\ s[l] = Last(s) /\ s \in Seq(Entry)
    BY IsSeq DEF Stack
  <1>2. PICK c : c = p.th
    OBVIOUS
  <1>3. PICK v : v = Over(s, p, y) /\ Stack(v)
    OBVIOUS
  <1>4. /\ p \in Entry /\ y \in Entry /\ IsBase(p) /\ ~InStack(s, c) /\ y.th = c
    BY <1>2 DEF Begins, Protected, IsBase
  <1>5. PICK m : m = Append(s, p)
    OBVIOUS
  <1>6. /\ m \in Seq(Entry) /\ Len(m) = l + 1 /\ DOMAIN m = 1..l + 1 /\ m[l + 1] = p
        /\ \A i \in 1..l : m[i] = s[i]
    BY <1>1, <1>4, <1>5, Appended
  <1>7. /\ DOMAIN v = 1..(l + 1) + 1 /\ v[(l + 1) + 1] = y
        /\ \A i \in 1..l + 1 : v[i] = m[i]
    <2>1. v = Append(m, y)
      BY <1>5, <1>3 DEF Over
    <2> QED
      BY <1>4, <1>6, <2>1, Appended
  <1>8. /\ DOMAIN v = 1..l + 2 /\ v[l + 2] = y /\ v[l + 1] = p /\ \A i \in 1..l : v[i] = s[i]
    <2>1. (l + 1) + 1 = l + 2 /\ l + 1 \in 1..l + 1 /\ \A i \in 1..l : i \in 1..l + 1
      BY <1>1
    <2> QED
      BY <1>6, <1>7, <2>1
  <1>9. c \in Thread /\ c \notin Actives(s) /\ Last(s).th \in Actives(s)
    <2>1. c \in Thread
      BY <1>2, <1>4, Entries
    <2>2. c \notin Actives(s)
      BY <1>4 DEF InStack, Actives
    <2>3. l \in DOMAIN s
      BY <1>1
    <2> QED
      BY <1>1, <2>1, <2>2, <2>3 DEF Actives
  <1>10. c # main
    <2>1. s[1].th = main /\ 1 \in DOMAIN s
      BY <1>1 DEF Stack, Protect
    <2>2. main \in Actives(s)
      BY <2>1 DEF Actives
    <2> QED
      BY <1>9, <2>2
  <1>11. Actives(v) = Actives(s) \cup {c}
    <2>1. ASSUME NEW i \in DOMAIN v
          PROVE  v[i].th \in Actives(s) \cup {c}
      <3>1. i \in 1..l \/ i = l + 1 \/ i = l + 2
        BY <1>1, <1>8
      <3>2. i \in 1..l => v[i].th \in Actives(s)
        BY <1>1, <1>8 DEF Actives
      <3> QED
        BY <1>2, <1>4, <1>8, <3>1, <3>2
    <2>2. c \in Actives(v)
      <3>1. l + 1 \in DOMAIN v
        BY <1>1, <1>8
      <3> QED
        BY <1>2, <1>8, <3>1 DEF Actives
    <2>3. ASSUME NEW i \in DOMAIN s
          PROVE  s[i].th \in Actives(v)
      <3>1. i \in DOMAIN v /\ v[i] = s[i]
        BY <1>1, <1>8
      <3> QED
        BY <3>1 DEF Actives
    <2> QED
      BY <2>1, <2>2, <2>3 DEF Actives
  <1>12. Resumers(v)[c] = Last(s).th
    <2>1. l + 1 \in DOMAIN v
      BY <1>1, <1>8
    <2>2. Base(v, l + 1, c)
      BY <1>2, <1>4, <1>8, <2>1 DEF Base
    <2>3. PICK d \in DOMAIN v : Base(v, d, c) /\ Resumers(v)[c] = v[d - 1].th
      BY <1>10, <1>11, <1>3, ResumerOf
    <2>4. d = l + 1
      BY <1>3, <2>2, <2>3, OneBase
    <2>5. d - 1 = l /\ l \in 1..l
      BY <1>1, <2>4
    <2> QED
      BY <1>1, <1>8, <2>3, <2>5
  <1>13. ASSUME NEW q \in Actives(s) \ {main}
         PROVE  Resumers(v)[q] = Resumers(s)[q] /\ q # c
    <2>1. PICK a \in DOMAIN s : Base(s, a, q) /\ a > 1 /\ a - 1 \in DOMAIN s /\ Resumers(s)[q] = s[a - 1].th
      BY <1>13, ResumerOf
    <2>2. PICK d \in DOMAIN v : Base(v, d, q) /\ Resumers(v)[q] = v[d - 1].th
      BY <1>11, <1>13, <1>3, ResumerOf
    <2>3. a \in DOMAIN v /\ v[a] = s[a] /\ v[a - 1] = s[a - 1]
      BY <1>1, <1>8, <2>1
    <2>4. Base(v, a, q)
      BY <2>1, <2>3 DEF Base
    <2>5. d = a
      BY <1>3, <2>2, <2>4, OneBase
    <2> QED
      BY <1>9, <2>1, <2>2, <2>3, <2>5
  <1>14. DOMAIN Resumers(s) = Actives(s) \ {main} /\ DOMAIN Resumers(v) = (Actives(s) \ {main}) \cup {c}
    BY <1>10, <1>11 DEF Resumers
  <1>15. Resumers(v) = [r \in DOMAIN Resumers(v) |-> Resumers(v)[r]]
    BY DEF Resumers
  <1>16. Resumers(v) = [r \in DOMAIN Resumers(s) \cup {c} |-> IF r = c THEN Last(s).th ELSE Resumers(s)[r]]
    BY <1>12, <1>13, <1>14, <1>15
  <1>17. EntryIn(v, c) = l + 1
    <2>1. Base(v, l + 1, c)
      BY <1>1, <1>2, <1>4, <1>8 DEF Base
    <2> QED
      BY <1>3, <2>1, EntryIs
  <1>18. ASSUME NEW q \in Actives(s)
         PROVE  v[EntryIn(v, q)] = s[EntryIn(s, q)]
    <2>1. PICK a \in DOMAIN s : Base(s, a, q)
      BY ResumerOf
    <2>2. a \in DOMAIN v /\ v[a] = s[a]
      BY <1>1, <1>8
    <2>3. Base(v, a, q)
      BY <2>1, <2>2 DEF Base
    <2>4. EntryIn(s, q) = a /\ EntryIn(v, q) = a
      BY <1>3, <2>1, <2>3, EntryIs
    <2> QED
      BY <2>2, <2>4
  <1>19. \A q \in Thread \ {c} : q \in Closers(v) <=> q \in Closers(s)
    BY <1>11, <1>18 DEF Closers
  <1>20. (c \in Closers(v) <=> p.by = "close") /\ c \notin Closers(s)
    BY <1>2, <1>8, <1>9, <1>11, <1>17 DEF Closers
  <1>21. Closers(s) \in SUBSET Thread /\ Closers(v) \in SUBSET Thread
    BY DEF Closers
  <1>22. Closers(v) = IF p.by = "close" THEN Closers(s) \cup {c} ELSE Closers(s)
    BY <1>9, <1>19, <1>20, <1>21
  <1> QED
    BY <1>2, <1>9, <1>10, <1>11, <1>16, <1>22, <1>3

\* The last piece is removed.
LEMMA MapBelow ==
    ASSUME NEW s, Stack(s), NEW t, t = Last(s).th, NEW b \in Nat, Base(s, b, t), b > 1,
           Stack(SubSeq(s, 1, b - 1))
    PROVE  /\ t \in Actives(s) /\ t # main /\ Last(SubSeq(s, 1, b - 1)).th = Resumers(s)[t]
           /\ Actives(SubSeq(s, 1, b - 1)) = Actives(s) \ {t}
           /\ Resumers(SubSeq(s, 1, b - 1)) = [r \in DOMAIN Resumers(s) \ {t} |-> Resumers(s)[r]]
           /\ Closers(SubSeq(s, 1, b - 1)) = Closers(s) \ {t} /\ (t \in Closers(s) => s[b].by = "close")
  <1>1. PICK l \in Nat : l = Len(s) /\ l > 1 /\ DOMAIN s = 1..l /\ s[l] = Last(s) /\ s \in Seq(Entry)
    BY IsSeq DEF Stack
  <1>2. PICK v : v = SubSeq(s, 1, b - 1) /\ Stack(v)
    OBVIOUS
  <1>3. b \in 1..l /\ IsBase(s[b]) /\ s[b].th = t
    BY <1>1 DEF Base
  <1>4. PICK m \in 0..l : m = b - 1 /\ m \in Nat /\ m <= l
    BY <1>1, <1>3
  <1>5. m > 0 /\ m + 1 = b /\ \A i \in 1..m : i \in 1..l
    BY <1>1, <1>3, <1>4
  <1>6. /\ DOMAIN v = 1..m /\ \A i \in 1..m : v[i] = s[i] /\ Last(v) = s[m]
    BY <1>1, <1>4, <1>5, <1>2, Prefix
  <1>7. \A i \in b..l : s[i].th = t
    <2>1. PICK a \in 1..Len(s) : Base(s, a, t) /\ \A i \in a..Len(s) : s[i].th = t
      BY TopPiece
    <2>2. a = b
      BY <2>1, OneBase
    <2> QED
      BY <1>1, <2>1, <2>2
  <1>8. \A i \in 1..m : s[i].th # t
    BY <1>1, <1>3, <1>4 DEF Stack, Pieces
  <1>9. t \in Actives(s) /\ t # main
    <2>1. l \in DOMAIN s
      BY <1>1
    <2>2. s[1].th = main /\ 1 \in 1..m
      BY <1>4, <1>5 DEF Stack, Protect
    <2> QED
      BY <1>1, <1>8, <2>1, <2>2 DEF Actives
  <1>10. Last(v).th = Resumers(s)[t]
    <2>1. PICK c \in DOMAIN s : Base(s, c, t) /\ Resumers(s)[t] = s[c - 1].th
      BY <1>9, ResumerOf
    <2>2. c = b
      BY <2>1, OneBase
    <2>3. m \in 1..m
      BY <1>4, <1>5
    <2> QED
      BY <1>4, <1>6, <2>1, <2>2, <2>3
  <1>11. Actives(v) = Actives(s) \ {t}
    <2>1. ASSUME NEW i \in DOMAIN v
          PROVE  v[i].th \in Actives(s) \ {t}
      <3>1. i \in DOMAIN s /\ i \in 1..m /\ v[i] = s[i]
        BY <1>1, <1>5, <1>6
      <3> QED
        BY <1>8, <3>1 DEF Actives
    <2>2. ASSUME NEW i \in DOMAIN s, s[i].th # t
          PROVE  s[i].th \in Actives(v)
      <3>1. i \in 1..m
        <4>1. i \notin b..l
          BY <1>7, <2>2
        <4> QED
          BY <1>1, <1>3, <1>5, <4>1
      <3> QED
        BY <1>6, <3>1 DEF Actives
    <2>3. \A q \in Actives(v) : q \in Actives(s) \ {t}
      BY <2>1 DEF Actives
    <2>4. \A q \in Actives(s) : q # t => q \in Actives(v)
      BY <2>2 DEF Actives
    <2> QED
      BY <2>3, <2>4
  <1>12. ASSUME NEW q \in Actives(v) \ {main}
         PROVE  Resumers(v)[q] = Resumers(s)[q]
    <2>1. PICK a \in DOMAIN v : Base(v, a, q) /\ a > 1 /\ a - 1 \in DOMAIN v /\ Resumers(v)[q] = v[a - 1].th
      BY <1>12, <1>2, ResumerOf
    <2>2. PICK d \in DOMAIN s : Base(s, d, q) /\ Resumers(s)[q] = s[d - 1].th
      BY <1>11, <1>12, ResumerOf
    <2>3. a \in DOMAIN s /\ v[a] = s[a] /\ v[a - 1] = s[a - 1]
      <3>1. a \in 1..m /\ a - 1 \in 1..m
        BY <1>6, <2>1
      <3> QED
        BY <1>1, <1>5, <1>6, <3>1
    <2>4. Base(s, a, q)
      BY <2>1, <2>3 DEF Base
    <2>5. d = a
      BY <2>2, <2>4, OneBase
    <2> QED
      BY <2>1, <2>2, <2>3, <2>5
  <1>13. DOMAIN Resumers(v) = DOMAIN Resumers(s) \ {t} /\ DOMAIN Resumers(v) = Actives(v) \ {main}
    BY <1>11 DEF Resumers
  <1>14. Resumers(v) = [r \in DOMAIN Resumers(v) |-> Resumers(v)[r]]
    BY DEF Resumers
  <1>15. Resumers(v) = [r \in DOMAIN Resumers(s) \ {t} |-> Resumers(s)[r]]
    BY <1>12, <1>13, <1>14
  <1>16. ASSUME NEW q \in Actives(v)
         PROVE  v[EntryIn(v, q)] = s[EntryIn(s, q)]
    <2>1. PICK a \in DOMAIN v : Base(v, a, q)
      BY <1>2, ResumerOf
    <2>2. a \in DOMAIN s /\ v[a] = s[a]
      BY <1>1, <1>5, <1>6
    <2>3. Base(s, a, q)
      BY <2>1, <2>2 DEF Base
    <2>4. EntryIn(s, q) = a /\ EntryIn(v, q) = a
      BY <1>2, <2>1, <2>3, EntryIs
    <2> QED
      BY <2>2, <2>4
  <1>17. \A q \in Thread \ {t} : q \in Closers(v) <=> q \in Closers(s)
    BY <1>11, <1>16 DEF Closers
  <1>18. t \notin Closers(v)
    BY <1>11 DEF Closers
  <1>19. Closers(v) = Closers(s) \ {t}
    <2>1. Closers(s) \in SUBSET Thread /\ Closers(v) \in SUBSET Thread
      BY DEF Closers
    <2> QED
      BY <1>17, <1>18, <2>1
  <1>20. t \in Closers(s) => s[b].by = "close"
    <2>1. EntryIn(s, t) = b
      BY EntryIs
    <2> QED
      BY <2>1 DEF Closers
  <1> QED
    BY <1>9, <1>10, <1>11, <1>15, <1>19, <1>20, <1>2

-----------------------------------------------------------------------------
(* Steps.                                                                  *)

LEMMA Here ==
    ASSUME Inv
    PROVE  /\ Consistent(th, cs) /\ Stack(cs) /\ cs \in Seq(Entry) /\ Len(cs) \in Nat /\ Len(cs) > 1
           /\ DOMAIN cs = 1..Len(cs) /\ T = Last(cs).th /\ T = cs[Len(cs)].th /\ T \in Thread
           /\ \A i \in DOMAIN cs : cs[i] \in Entry
           /\ th \in [Thread -> State] /\ th[T] \in State /\ Local(T, th[T], cs)
  <1>1. Consistent(th, cs) /\ Stack(cs) /\ cs \in Seq(Entry) /\ Len(cs) > 1 /\ th \in [Thread -> State]
        /\ \A t \in Thread : Local(t, th[t], cs)
    BY DEF Inv, Consistent, Stack
  <1>2. /\ Len(cs) \in Nat /\ DOMAIN cs = 1..Len(cs) /\ T = cs[Len(cs)].th
        /\ \A i \in DOMAIN cs : cs[i] \in Entry
    BY <1>1, IsSeq DEF T
  <1>3. T \in Thread
    BY <1>1, <1>2, Entries
  <1> QED
    BY <1>1, <1>2, <1>3 DEF T

LEMMA BaseHere ==
    ASSUME Inv, NEW b, b = EntryOf(T)
    PROVE  /\ Base(cs, b, T) /\ b \in 1..Len(cs) /\ b \in DOMAIN cs
           /\ \A i \in b..Len(cs) : cs[i].th = T
           /\ \A i \in 1..b - 1 : cs[i].th # T
  <1>1. PICK a \in 1..Len(cs) : /\ Base(cs, a, T)
                                /\ \A i \in a..Len(cs) : cs[i].th = T
                                /\ \A i \in 1..a - 1 : cs[i].th # T
    BY Here, TopPiece
  <1>2. Base(cs, b, T)
    BY <1>1 DEF EntryOf, Base
  <1>3. b = a
    BY <1>1, <1>2, Here, OneBase
  <1> QED
    BY <1>1, <1>2, <1>3 DEF Base

\* What is known of the thread that runs.
LEMMA RunningThread ==
    ASSUME Inv, NEW b, b = EntryOf(T), NEW ci, ci = th[T].ci, NEW G, G = Calls(cs, T)
    PROVE  /\ ci \in Seq(Frame) /\ Len(ci) \in Nat /\ DOMAIN ci = 1..Len(ci)
           /\ \A j \in DOMAIN ci : ci[j] \in Frame
           /\ th[T].nC \in Counter /\ th[T].errfunc \in BOOLEAN
           /\ G \in [DOMAIN G -> CallEntry] /\ DOMAIN G \in SUBSET Nat
           /\ DOMAIN G = {i \in 1..Len(cs) : cs[i].th = T /\ IsCall(cs[i])}
           /\ \A i \in DOMAIN G : G[i] = cs[i]
           /\ Agree(ci, G) /\ CountsAgree(T, th[T].nC, cs)
           /\ th[T].status # "none" /\ ~th[T].fn
           /\ cs[b].by # "close" => th[T].status = "ok" /\ HandlersAgree(ci, th[T].errfunc)
           /\ mode = "run" => /\ ci # <<>> /\ Last(ci) = ci[Len(ci)] /\ IsLua(Last(ci))
                              /\ Entered(ci, G)
  <1>1. ci \in Seq(Frame) /\ th[T].nC \in Counter /\ th[T].errfunc \in BOOLEAN
    BY Here, StateFields
  <1>2. /\ Agree(ci, G) /\ CountsAgree(T, th[T].nC, cs) /\ th[T].status # "none" /\ ~th[T].fn
        /\ cs[b].by # "close" => th[T].status = "ok" /\ HandlersAgree(ci, th[T].errfunc)
    BY Here, BaseHere, ActiveLocal
  <1>3. /\ G \in [DOMAIN G -> CallEntry] /\ DOMAIN G \in SUBSET Nat
        /\ DOMAIN G = {i \in 1..Len(cs) : cs[i].th = T /\ IsCall(cs[i])}
        /\ \A i \in DOMAIN G : G[i] = cs[i]
    BY Here, CallsType
  <1>4. mode = "run" => ci # <<>> /\ IsLua(Last(ci)) /\ Entered(ci, G)
    BY DEF Inv, Running, T
  <1>5. /\ Len(ci) \in Nat /\ DOMAIN ci = 1..Len(ci) /\ \A j \in DOMAIN ci : ci[j] \in Frame
        /\ ci # <<>> => Last(ci) = ci[Len(ci)]
    BY <1>1, IsSeq
  <1> QED
    BY <1>1, <1>2, <1>3, <1>4, <1>5

LEMMA After ==
    ASSUME NEW h, NEW v, th' = h, cs' = v, Consistent(h, v), mode' \in {"run", "error", "throw"},
           mode' = "run" => Running(h[Last(v).th], v)
    PROVE  Inv'
  BY DEF Inv, T

LEMMA ActiveKnown ==
    ASSUME NEW h, NEW s, Consistent(h, s), NEW t \in Actives(s)
    PROVE  t \in Thread /\ h[t].status # "none"
  <1>1. Stack(s) /\ s \in Seq(Entry) /\ h \in [Thread -> State] /\ \A q \in Thread : Local(q, h[q], s)
    BY DEF Consistent, Stack
  <1>2. PICK i \in DOMAIN s : s[i].th = t
    BY DEF Actives
  <1>3. t \in Thread
    BY <1>1, <1>2, IsSeq, Entries
  <1>4. PICK b \in DOMAIN s : Base(s, b, t)
    BY <1>1, ResumerOf
  <1>5. h[t] \in State /\ Local(t, h[t], s)
    BY <1>1, <1>3
  <1> QED
    BY <1>3, <1>4, <1>5, ActiveLocal

\* Only the threads of D change, and they have been created.
LEMMA OthersSame ==
    ASSUME NEW D \in SUBSET Thread, NEW h, \A q \in Thread \ D : h[q] = th[q],
           \A q \in D : h[q].status # "none" /\ th[q].status # "none"
    PROVE  Known(h) = Known(th) /\ \A q \in Thread \ D : Ready(h[q]) <=> Ready(th[q])
  <1>1. \A q \in Thread : h[q].status # "none" <=> th[q].status # "none"
    OBVIOUS
  <1> QED
    BY <1>1 DEF Known

\* Inside the piece of the running thread, which may begin to be closed.
LEMMA WithinStep ==
    ASSUME Inv, NEW b, b = EntryOf(T), NEW v, Last(v).th = T, \A q \in Thread \ {T} : Same(cs, v, q),
           Base(v, b, T), b > 1 => v[b - 1] = cs[b - 1],
           v[b].by # "close" => cs[b].by # "close",
           v[b].by = "close" => cs[b].by = "close" \/ T # main,
           NEW h, Consistent(h, v), \A q \in Thread \ {T} : h[q] = th[q], th' = h, cs' = v
    PROVE  States!Step \/ UNCHANGED States!visible
  <1>1. PICK t : t = T
    OBVIOUS
  <1>2. t = Last(cs).th /\ t \in Thread /\ Base(cs, b, t) /\ Consistent(th, cs) /\ Stack(cs)
    BY <1>1, Here, BaseHere
  <1>3. Stack(v) /\ Last(v).th = t /\ Base(v, b, t) /\ \A q \in Thread \ {t} : Same(cs, v, q)
    BY <1>1 DEF Consistent
  <1>4. /\ Actives(v) = Actives(cs) /\ Resumers(v) = Resumers(cs) /\ t \in Actives(cs)
        /\ (v[b].by = "close" <=> cs[b].by = "close") => Closers(v) = Closers(cs)
        /\ v[b].by = "close" => Closers(v) = Closers(cs) \cup {t}
    BY <1>2, <1>3, MapSame
  <1>5. h[t].status # "none" /\ th[t].status # "none"
    BY <1>2, <1>4, ActiveKnown
  <1>6. Known(h) = Known(th) /\ \A q \in Thread \ {t} : Ready(h[q]) <=> Ready(th[q])
    <2>1. {t} \in SUBSET Thread /\ \A q \in Thread \ {t} : h[q] = th[q]
      BY <1>1, <1>2
    <2> QED
      BY <1>5, <2>1, OthersSame
  <1>7. Waiting(h, v) = Waiting(th, cs)
    BY <1>4, <1>6 DEF Waiting
  <1>8. CASE v[b].by = "close" <=> cs[b].by = "close"
    BY <1>2, <1>3, <1>4, <1>6, <1>7, <1>8, StutterStep
  <1>9. CASE v[b].by = "close" /\ T # main
    BY <1>1, <1>2, <1>3, <1>4, <1>6, <1>7, <1>9, FailStep
  <1> QED
    BY <1>8, <1>9 DEF Consistent

\* Nothing that it sees changes.
LEMMA AfterSame ==
    ASSUME Inv, th' = th, cs' = cs, mode' \in {"error", "throw"}
    PROVE  Kept
  <1>1. Inv'
    BY Here, After
  <1>2. UNCHANGED States!visible
    BY StutterStep
  <1> QED
    BY <1>1, <1>2 DEF Kept

\* The C stack v differs from cs above the base b of the running thread only.
KeepsBase(v, b) == /\ Stack(v) /\ Last(v).th = T /\ \A q \in Thread \ {T} : Same(cs, v, q)
                   /\ Base(v, b, T) /\ v[b] = cs[b] /\ (b > 1 => v[b - 1] = cs[b - 1])
Put(ci, nC, errfunc) == [th EXCEPT ![T] = With(th[T], ci, nC, errfunc)]

\* A step inside the piece of the running thread.
LEMMA StepWith ==
    ASSUME Inv, NEW b, b = EntryOf(T), NEW v, KeepsBase(v, b),
           NEW ci \in Seq(Frame), NEW nC \in Counter, NEW errfunc \in BOOLEAN,
           Agree(ci, Calls(v, T)), CountsAgree(T, nC, v),
           cs[b].by # "close" => HandlersAgree(ci, errfunc),
           th' = Put(ci, nC, errfunc), cs' = v,
           mode' \in {"run", "error", "throw"},
           mode' = "run" => ci # <<>> /\ IsLua(Last(ci)) /\ Entered(ci, Calls(v, T))
    PROVE  Kept
  <1>1. Base(cs, b, T) /\ Consistent(th, cs) /\ T = Last(cs).th
    BY Here, BaseHere
  <1>2. PICK w : w = With(th[T], ci, nC, errfunc)
    OBVIOUS
  <1>3. PICK h : h = [th EXCEPT ![T] = w]
    OBVIOUS
  <1>4. Consistent(h, v)
    BY <1>1, <1>2, <1>3, InsideWith DEF KeepsBase
  <1>5. w.ci = ci
    BY <1>2, Here, WithFields
  <1>6. h[T] = w
    BY <1>3, Here
  <1>7. mode' = "run" => Running(h[T], v)
    BY <1>5, <1>6 DEF Running, KeepsBase
  <1>8. th' = h
    BY <1>2, <1>3 DEF Put
  <1>9. Inv'
    BY <1>4, <1>7, <1>8, After DEF KeepsBase
  <1>10. States!Step \/ UNCHANGED States!visible
    <2>1. \A q \in Thread \ {T} : h[q] = th[q]
      BY <1>3, Here
    <2>2. /\ Last(v).th = T /\ Base(v, b, T) /\ v[b].by = cs[b].by /\ (b > 1 => v[b - 1] = cs[b - 1])
          /\ \A q \in Thread \ {T} : Same(cs, v, q)
      BY DEF KeepsBase
    <2> QED
      BY <1>4, <1>8, <2>1, <2>2, WithinStep
  <1> QED
    BY <1>9, <1>10 DEF Kept

\* ccall: entry m of the C stack is the call of the function that is entered unless an
\* error follows.
LEMMA StepCall ==
    ASSUME Inv, NEW b, b = EntryOf(T), NEW v, KeepsBase(v, b),
           NEW d \in Seq(Frame), NEW nC \in Counter, NEW errfunc \in BOOLEAN,
           Agree(d, Calls(v, T)), CountsAgree(T, nC, v),
           cs[b].by # "close" => HandlersAgree(d, errfunc),
           NEW m \in DOMAIN Calls(v, T), Calls(v, T)[m].k = Len(d),
           mode' = "run" => th' = Put(Append(d, Fresh), nC, errfunc),
           mode' # "run" => th' = Put(d, nC, errfunc),
           cs' = v, mode' \in {"run", "error", "throw"}
    PROVE  Kept
  <1>1. CASE mode' # "run"
    BY <1>1, StepWith
  <1>2. CASE mode' = "run"
    <2>1. PICK ci : ci = Append(d, Fresh)
      OBVIOUS
    <2>2. ci \in Seq(Frame) /\ ci # <<>> /\ IsLua(Last(ci)) /\ ~IsPCall(Fresh) /\ Fresh \in Frame
      BY <2>1, LuaFrames, Appended
    <2>3. /\ Calls(v, T) \in [DOMAIN Calls(v, T) -> CallEntry] /\ DOMAIN Calls(v, T) \in SUBSET Nat
      BY CallsType DEF Stack, KeepsBase
    <2>4. Agree(ci, Calls(v, T)) /\ Entered(ci, Calls(v, T))
      BY <2>1, <2>3, AgreeCallee
    <2>5. cs[b].by # "close" => HandlersAgree(ci, errfunc)
      BY <2>1, <2>2, HandlersPush
    <2>6. th' = Put(ci, nC, errfunc)
      BY <1>2, <2>1
    <2> QED
      BY <1>2, <2>2, <2>4, <2>5, <2>6, StepWith
  <1> QED
    BY <1>1, <1>2

LEMMA WithParts ==
    ASSUME NEW r \in State, NEW ci \in Seq(Frame), NEW nC \in Counter, NEW errfunc \in BOOLEAN
    PROVE  /\ [r EXCEPT !.ci = ci] = With(r, ci, r.nC, r.errfunc)
           /\ [r EXCEPT !.ci = ci, !.nC = nC] = With(r, ci, nC, r.errfunc)
           /\ [r EXCEPT !.nC = nC, !.errfunc = errfunc, !.ci = ci] = With(r, ci, nC, errfunc)
  BY DEF With, State

LEMMA EnteredPush ==
    ASSUME NEW ci \in Seq(Frame), NEW I \in SUBSET Nat, NEW g \in [I -> CallEntry],
           Entered(ci, g), NEW f \in Frame
    PROVE  Entered(Append(ci, f), g)
  <1>1. Len(Append(ci, f)) = Len(ci) + 1 /\ Len(ci) \in Nat
    BY Appended, IsSeq
  <1>2. \A i \in I : g[i].k \in Nat
    BY DEF CallEntry
  <1> QED
    BY <1>1, <1>2 DEF Entered

LEMMA Counters ==
    ASSUME NEW n \in Counter
    PROVE  /\ n.c \in Nat /\ n.ny \in Nat
           /\ \A ny \in {0, 1} : Plus(n, ny) \in Counter /\ Minus(Plus(n, ny), ny) = n
           /\ Plus(n, 0) = [c |-> n.c + 1, ny |-> n.ny]
           /\ Plus(n, 1) = [c |-> n.c + 1, ny |-> n.ny + 1]
           /\ \A ny \in {0, 1} : /\ Plus(n, ny).c = n.c + 1 /\ Plus(n, ny).ny = n.ny + ny
                                 /\ Minus(n, ny).c = n.c - 1 /\ Minus(n, ny).ny = n.ny - ny
  BY DEF Counter, Plus, Minus

LEMMA AfterCounts ==
    ASSUME NEW n
    PROVE  AfterCount(n) \in {"run", "error", "throw"}
  BY DEF AfterCount

LEMMA CallLuaKeeps ==
    ASSUME Inv, CallLua
    PROVE  Kept
  <1>1. PICK b : b = EntryOf(T)
    OBVIOUS
  <1>2. PICK ci : ci = th[T].ci
    OBVIOUS
  <1>3. PICK G : G = Calls(cs, T)
    OBVIOUS
  <1>4. PICK d : d = Append(ci, Plain)
    OBVIOUS
  <1>5. /\ mode = "run" /\ mode' = "run" /\ cs' = cs
        /\ th' = [th EXCEPT ![T] = [th[T] EXCEPT !.ci = d]]
    BY <1>2, <1>4 DEF CallLua, Plain
  <1>6. /\ ci \in Seq(Frame) /\ G \in [DOMAIN G -> CallEntry] /\ DOMAIN G \in SUBSET Nat
        /\ Agree(ci, G) /\ CountsAgree(T, th[T].nC, cs)
        /\ cs[b].by # "close" => HandlersAgree(ci, th[T].errfunc)
        /\ ci # <<>> /\ IsLua(Last(ci)) /\ Entered(ci, G)
        /\ th[T].nC \in Counter /\ th[T].errfunc \in BOOLEAN
    BY <1>1, <1>2, <1>3, <1>5, RunningThread
  <1>7. d \in Seq(Frame) /\ d # <<>> /\ IsLua(Last(d)) /\ Plain \in Frame /\ ~IsPCall(Plain)
    BY <1>4, <1>6, Appended, LuaFrames
  <1>8. Agree(d, G)
    BY <1>4, <1>6, AgreePush
  <1>9. Entered(d, G)
    BY <1>4, <1>6, <1>7, EnteredPush
  <1>10. cs[b].by # "close" => HandlersAgree(d, th[T].errfunc)
    BY <1>4, <1>6, <1>7, HandlersPush
  <1>11. th' = Put(d, th[T].nC, th[T].errfunc)
    BY <1>5, <1>6, <1>7, Here, WithParts DEF Put
  <1>12. KeepsBase(cs, b)
    BY <1>1, Here, BaseHere, SameSelf DEF KeepsBase
  <1>13. Agree(d, Calls(cs, T)) /\ Entered(d, Calls(cs, T)) /\ CountsAgree(T, th[T].nC, cs)
    BY <1>3, <1>6, <1>8, <1>9
  <1>14. mode' = "run" /\ mode' \in {"run", "error", "throw"} /\ cs' = cs
    BY <1>5
  <1>15. th[T].nC \in Counter /\ th[T].errfunc \in BOOLEAN
    BY <1>6
  <1> QED
    BY <1>1, <1>7, <1>10, <1>11, <1>12, <1>13, <1>14, <1>15, StepWith

LEMMA ReturnLuaKeeps ==
    ASSUME Inv, ReturnLua
    PROVE  Kept
  <1>1. PICK b : b = EntryOf(T)
    OBVIOUS
  <1>2. PICK ci : ci = th[T].ci
    OBVIOUS
  <1>3. PICK G : G = Calls(cs, T)
    OBVIOUS
  <1>4. PICK d : d = SubSeq(ci, 1, Len(ci) - 1)
    OBVIOUS
  <1>5. /\ mode = "run" /\ mode' = "run" /\ cs' = cs /\ ~Last(ci).fresh
        /\ th' = [th EXCEPT ![T] = [th[T] EXCEPT !.ci = d]]
    BY <1>2, <1>4 DEF ReturnLua, Pop, Top
  <1>6. /\ ci \in Seq(Frame) /\ G \in [DOMAIN G -> CallEntry] /\ DOMAIN G \in SUBSET Nat
        /\ Agree(ci, G) /\ CountsAgree(T, th[T].nC, cs)
        /\ cs[b].by # "close" => HandlersAgree(ci, th[T].errfunc)
        /\ ci # <<>> /\ IsLua(Last(ci)) /\ Entered(ci, G) /\ Last(ci) = ci[Len(ci)]
        /\ th[T].nC \in Counter /\ th[T].errfunc \in BOOLEAN
        /\ Len(ci) \in Nat /\ DOMAIN ci = 1..Len(ci) /\ \A j \in DOMAIN ci : ci[j] \in Frame
    BY <1>1, <1>2, <1>3, <1>5, RunningThread
  <1>7. PICK n \in Nat : n = Len(ci) /\ n > 0
    BY <1>6, IsSeq
  <1>8. ci[n] # Fresh /\ ~IsPCall(Last(ci))
    BY <1>5, <1>6, <1>7, FrameKinds
  <1>9. n > 1 /\ IsLua(ci[n - 1])
    <2>1. CalledByLua(ci) /\ n \in DOMAIN ci
      BY <1>6, <1>7 DEF Agree
    <2> QED
      BY <1>7, <1>8, <2>1 DEF CalledByLua
  <1>10. n - 1 \in 0..Len(ci) /\ n - 1 > 0
    BY <1>7, <1>9
  <1>11. d \in Seq(Frame) /\ Len(d) = n - 1 /\ d # <<>> /\ Last(d) = ci[n - 1]
    <2>1. /\ SubSeq(ci, 1, n - 1) \in Seq(Frame) /\ Len(SubSeq(ci, 1, n - 1)) = n - 1
          /\ SubSeq(ci, 1, n - 1) = <<>> <=> n - 1 = 0
          /\ n - 1 > 0 => Last(SubSeq(ci, 1, n - 1)) = ci[n - 1]
      BY <1>6, <1>10, Prefix
    <2> QED
      BY <1>4, <1>7, <1>10, <2>1
  <1>12. \A i \in DOMAIN G : G[i].k \in Nat /\ G[i].k < n - 1
    <2> TAKE i \in DOMAIN G
    <2>1. CallOK(ci, G[i]) /\ G[i].k \in Nat /\ G[i].k < n
      BY <1>6, <1>7 DEF Agree, CallEntry, Entered
    <2>2. ASSUME G[i].k = n - 1 PROVE FALSE
      <3>1. ci[G[i].k + 1] = Fresh
        BY <1>7, <2>1 DEF CallOK
      <3> QED
        BY <1>7, <1>8, <2>2, <3>1
    <2> QED
      BY <2>1, <2>2
  <1>13. Agree(d, G)
    <2>1. \A i \in DOMAIN G : G[i].k <= n - 1
      BY <1>7, <1>12
    <2> QED
      BY <1>4, <1>6, <1>7, <1>10, <2>1, AgreePop
  <1>14. Entered(d, G)
    BY <1>11, <1>12 DEF Entered
  <1>15. cs[b].by # "close" => HandlersAgree(d, th[T].errfunc)
    BY <1>4, <1>6, <1>8, HandlersPop
  <1>16. th' = Put(d, th[T].nC, th[T].errfunc)
    BY <1>5, <1>6, <1>11, Here, WithParts DEF Put
  <1>17. KeepsBase(cs, b)
    BY <1>1, Here, BaseHere, SameSelf DEF KeepsBase
  <1>18. IsLua(Last(d))
    BY <1>9, <1>11
  <1>19. Agree(d, Calls(cs, T)) /\ Entered(d, Calls(cs, T)) /\ CountsAgree(T, th[T].nC, cs)
    BY <1>3, <1>6, <1>13, <1>14
  <1>20. mode' = "run" /\ mode' \in {"run", "error", "throw"} /\ cs' = cs
    BY <1>5
  <1>21. th[T].nC \in Counter /\ th[T].errfunc \in BOOLEAN
    BY <1>6
  <1> QED
    BY <1>1, <1>11, <1>15, <1>16, <1>17, <1>18, <1>19, <1>20, <1>21, StepWith

LEMMA ErrorKeeps ==
    ASSUME Inv, Error
    PROVE  Kept
  <1>1. th' = th /\ cs' = cs /\ mode' = "error"
    BY DEF Error
  <1> QED
    BY <1>1, AfterSame

\* The C stack grows by x.
LEMMA Pushed ==
    ASSUME Inv, NEW b, b = EntryOf(T), NEW x \in CallEntry, x.th = T, Needs(x) = {},
           NEW v, v = Append(cs, x), NEW nC, nC = Plus(th[T].nC, x.ny)
    PROVE  /\ KeepsBase(v, b)
           /\ Calls(v, T) = More(Calls(cs, T), Len(v), x) /\ Len(v) \in Nat
           /\ \A i \in DOMAIN Calls(cs, T) : i < Len(v)
           /\ CountsAgree(T, nC, v)
  <1>1. PICK l \in Nat : l = Len(cs) /\ l > 1
    BY Here
  <1>2. /\ Stack(cs) /\ cs \in Seq(Entry) /\ DOMAIN cs = 1..l /\ T = Last(cs).th /\ cs # <<>>
        /\ b \in 1..l /\ Base(cs, b, T)
    BY <1>1, Here, BaseHere, IsSeq
  <1>3. x \in Entry /\ IsCall(x) /\ ~IsProtect(x) /\ ~IsBase(x) /\ x.ny \in {0, 1}
    <2>1. x \in Entry
      BY DEF Entry
    <2> QED
      BY <2>1, Entries DEF IsBase, CallEntry
  <1>4. /\ v \in Seq(Entry) /\ Len(v) = l + 1 /\ Last(v) = x /\ DOMAIN v = 1..l + 1
        /\ \A i \in 1..l : v[i] = cs[i]
    BY <1>1, <1>2, <1>3, Appended
  <1>5. Stack(v)
    BY <1>2, <1>3, StackPush
  <1>6. \A q \in Thread \ {T} : Same(cs, v, q)
    BY <1>2, <1>3, SamePush
  <1>7. Calls(v, T) = More(Calls(cs, T), l + 1, x)
    BY <1>1, <1>2, <1>3, CallsPush
  <1>8. b \in DOMAIN v /\ v[b] = cs[b] /\ (b > 1 => v[b - 1] = cs[b - 1])
    BY <1>1, <1>2, <1>4
  <1>9. \A i \in DOMAIN Calls(cs, T) : i < l + 1
    <2>1. \A i \in DOMAIN Calls(cs, T) : i \in 1..l
      BY <1>1, <1>2, CallsType
    <2> QED
      BY <2>1
  <1>10. Base(v, b, T)
    BY <1>2, <1>8 DEF Base
  <1>11. CountsAgree(T, nC, v)
    <2>1. PICK n : n = th[T].nC
      OBVIOUS
    <2>2. n \in Counter /\ CountsAgree(x.th, n, cs)
      BY <2>1, RunningThread
    <2>3. nC = [c |-> n.c + 1, ny |-> IF IsCall(x) /\ x.ny = 1 THEN n.ny + 1 ELSE n.ny]
      BY <1>3, <2>1, <2>2, Counters
    <2> QED
      BY <1>2, <1>3, <2>2, <2>3, CountsPush
  <1> QED
    BY <1>1, <1>4, <1>5, <1>6, <1>7, <1>8, <1>9, <1>10, <1>11 DEF KeepsBase

\* It grows by a setjmp and x.
LEMMA PushedProtected ==
    ASSUME Inv, NEW b, b = EntryOf(T), NEW x \in CallEntry, x.th = T, x.by = "pcall", x.ny = 1,
           NEW s, s = Append(cs, Protect(T, "pcall", th[T].nC, x.k)),
           NEW v, v = Append(s, x), NEW nC, nC = Plus(th[T].nC, 1)
    PROVE  /\ KeepsBase(v, b)
           /\ Calls(v, T) = More(Calls(cs, T), Len(v), x) /\ Len(v) \in Nat
           /\ \A i \in DOMAIN Calls(cs, T) : i < Len(v)
           /\ CountsAgree(T, nC, v)
  <1>1. PICK l \in Nat : l = Len(cs) /\ l > 1
    BY Here
  <1>2. /\ Stack(cs) /\ cs \in Seq(Entry) /\ DOMAIN cs = 1..l /\ T = Last(cs).th /\ cs # <<>>
        /\ b \in 1..l /\ Base(cs, b, T) /\ T \in Thread
    BY <1>1, Here, BaseHere, IsSeq
  <1>3. x \in Entry /\ IsCall(x) /\ ~IsProtect(x) /\ ~IsBase(x) /\ x.ny = 1 /\ x.th = T /\ x.k \in Nat
        /\ x.by = "pcall"
    <2>1. x \in Entry
      BY DEF Entry
    <2> QED
      BY <2>1, Entries DEF IsBase, CallEntry
  <1>4. PICK n \in Counter : n = th[T].nC /\ CountsAgree(T, n, cs)
    BY RunningThread
  <1>5. PICK P : P = Protect(T, "pcall", th[T].nC, x.k)
    OBVIOUS
  <1>6. P \in Entry /\ IsProtect(P) /\ ~IsCall(P) /\ ~IsBase(P) /\ P.th = T /\ P.by = "pcall" /\ P.nC = n
        /\ P.k = x.k
    BY <1>2, <1>3, <1>4, <1>5 DEF Protect, Entry, ProtectEntry, IsProtect, IsCall, IsBase
  <1>7. PICK S1 : S1 = s
    OBVIOUS
  <1>8. PICK V : V = v
    OBVIOUS
  <1>9. S1 = Append(cs, P)
    BY <1>5, <1>7
  <1>10. V = Append(S1, x)
    BY <1>7, <1>8
  <1>11. S1 \in Seq(Entry) /\ Len(S1) = l + 1 /\ S1[l + 1] = P /\ \A i \in 1..l : S1[i] = cs[i]
    BY <1>1, <1>2, <1>6, <1>9, Appended
  <1>12. /\ V \in Seq(Entry) /\ Len(V) = l + 2 /\ Last(V) = x /\ DOMAIN V = 1..l + 2
         /\ \A i \in 1..l : V[i] = cs[i]
    <2>1. /\ V \in Seq(Entry) /\ Len(V) = (l + 1) + 1 /\ Last(V) = x /\ DOMAIN V = 1..(l + 1) + 1
          /\ \A i \in 1..l + 1 : V[i] = S1[i]
      <3>1. /\ V \in Seq(Entry) /\ Len(V) = Len(S1) + 1 /\ Last(V) = x /\ DOMAIN V = 1..Len(S1) + 1
            /\ \A i \in 1..Len(S1) : V[i] = S1[i]
        BY <1>3, <1>11, <1>10, Appended
      <3> QED
        BY <1>11, <3>1
    <2> QED
      BY <1>11, <2>1
  <1>13. Stack(V)
    <2>1. Protected(P, x)
      <3>1. x = CCall(P.th, "pcall", 1, P.k)
        BY <1>3, <1>6 DEF CallEntry, CCall
      <3> QED
        BY <1>3, <1>6, <3>1 DEF Protected
    <2>2. Needs(x) = {"pcall"}
      BY <1>3 DEF Needs, IsCall
    <2>3. P.by \in {"resume", "close", "pcall"} /\ Needs(x) \in {{}, {P.by}} /\ P.th = Last(cs).th
      BY <1>2, <1>6, <2>2
    <2>4. V = Append(Append(cs, P), x)
      BY <1>9, <1>10
    <2> QED
      BY <1>2, <1>3, <1>6, <2>1, <2>3, <2>4, StackProtect
  <1>14. \A q \in Thread \ {T} : Same(cs, V, q)
    <2> TAKE q \in Thread \ {T}
    <2>1. Same(cs, S1, q)
      BY <1>2, <1>6, <1>9, SamePush
    <2>2. Same(S1, V, q)
      BY <1>3, <1>11, <1>10, SamePush
    <2> QED
      BY <2>1, <2>2, SameTrans
  <1>15. Calls(V, T) = More(Calls(cs, T), l + 2, x)
    <2>1. Calls(S1, T) = Calls(cs, T)
      BY <1>2, <1>6, <1>9, CallsPush
    <2>2. Calls(V, T) = More(Calls(S1, T), Len(S1) + 1, x)
      BY <1>3, <1>11, <1>10, CallsPush
    <2>3. Len(S1) + 1 = l + 2
      BY <1>11
    <2> QED
      BY <2>1, <2>2, <2>3
  <1>16. b \in DOMAIN V /\ V[b] = cs[b] /\ (b > 1 => V[b - 1] = cs[b - 1])
    BY <1>1, <1>2, <1>12
  <1>17. \A i \in DOMAIN Calls(cs, T) : i < l + 2
    <2>1. \A i \in DOMAIN Calls(cs, T) : i \in 1..l
      BY <1>1, <1>2, CallsType
    <2> QED
      BY <2>1
  <1>18. Base(V, b, T)
    BY <1>2, <1>16 DEF Base
  <1>19. CountsAgree(T, nC, V)
    <2>1. CountsAgree(P.th, n, S1)
      BY <1>2, <1>4, <1>6, <1>9, CountsPush
    <2>2. nC = [c |-> n.c + 1, ny |-> IF IsCall(x) /\ x.ny = 1 THEN n.ny + 1 ELSE n.ny]
      BY <1>3, <1>4, Counters
    <2>3. CountsAgree(x.th, n, S1)
      BY <1>3, <1>6, <2>1
    <2> QED
      BY <1>3, <1>4, <1>11, <1>10, <2>2, <2>3, CountsPush
  <1> QED
    <2>1. Len(V) = l + 2 /\ Len(V) \in Nat /\ Last(V).th = T
      BY <1>3, <1>12
    <2>2. Calls(V, T) = More(Calls(cs, T), Len(V), x) /\ \A i \in DOMAIN Calls(cs, T) : i < Len(V)
      BY <1>15, <1>17, <2>1
    <2> QED
      <3>1. KeepsBase(V, b)
        BY <1>13, <1>14, <1>16, <1>18, <2>1 DEF KeepsBase
      <3> QED
        BY <1>19, <1>8, <2>1, <2>2, <3>1

LEMMA CallFromFields ==
    ASSUME Inv, NEW f \in Seq(Frame), NEW before \in Seq(Entry), NEW by, NEW ny \in {0, 1},
           NEW errfunc \in BOOLEAN, CallFrom(T, f, before, by, ny, errfunc)
    PROVE  /\ mode' \in {"run", "error", "throw"} /\ Plus(th[T].nC, ny) \in Counter
           /\ cs' = Append(cs \o before, CCall(T, by, ny, Len(th[T].ci \o f)))
           /\ mode' = "run" => th' = Put(Append(th[T].ci \o f, Fresh),
                                                            Plus(th[T].nC, ny), errfunc)
           /\ mode' # "run" => th' = Put(th[T].ci \o f,
                                                            Plus(th[T].nC, ny), errfunc)
  <1>1. PICK d : d = th[T].ci \o f
    OBVIOUS
  <1>2. PICK nC : nC = Plus(th[T].nC, ny)
    OBVIOUS
  <1>3. PICK g : g = IF mode' = "run" THEN <<Fresh>> ELSE <<>>
    OBVIOUS
  <1>4. th[T].ci \in Seq(Frame) /\ th[T].nC \in Counter /\ th[T] \in State /\ th \in [Thread -> State]
        /\ T \in Thread
    BY Here, StateFields
  <1>5. d \in Seq(Frame) /\ Len(d) = Len(th[T].ci) + Len(f) /\ nC \in Counter
    BY <1>1, <1>2, <1>4, Counters
  <1>6. /\ mode' = AfterCount(nC)
        /\ cs' = cs \o before \o <<CCall(T, by, ny, Len(d))>>
        /\ th' = [th EXCEPT ![T].nC = nC, ![T].errfunc = errfunc, ![T].ci = @ \o f \o g]
    BY <1>2, <1>3, <1>5 DEF CallFrom, Fresh
  <1>7. cs' = Append(cs \o before, CCall(T, by, ny, Len(d)))
    BY <1>6, Here
  <1>8. th' = [th EXCEPT ![T] = [th[T] EXCEPT !.nC = nC, !.errfunc = errfunc, !.ci = d \o g]]
    BY <1>1, <1>4, <1>6
  <1>9. d \o g \in Seq(Frame) /\ (mode' = "run" => d \o g = Append(d, Fresh)) /\ (mode' # "run" => d \o g = d)
    BY <1>3, <1>5, LuaFrames
  <1>10. [th[T] EXCEPT !.nC = nC, !.errfunc = errfunc, !.ci = d \o g] = With(th[T], d \o g, nC, errfunc)
    BY <1>4, <1>5, <1>9 DEF With, State
  <1>11. /\ mode' = "run" => th' = Put(Append(d, Fresh), nC, errfunc)
         /\ mode' # "run" => th' = Put(d, nC, errfunc)
    BY <1>8, <1>9, <1>10 DEF Put
  <1>12. mode' \in {"run", "error", "throw"}
    BY <1>6, AfterCounts
  <1> QED
    BY <1>1, <1>2, <1>5, <1>7, <1>11, <1>12

LEMMA CallEntries ==
    ASSUME NEW t \in Thread, NEW by \in {"main", "call", "pcall", "body", "close", "handler"},
           NEW ny \in {0, 1}, NEW k \in Nat, NEW x, x = CCall(t, by, ny, k)
    PROVE  /\ x \in CallEntry /\ x \in Entry /\ x.th = t /\ x.by = by /\ x.ny = ny /\ x.k = k
           /\ IsCall(x) /\ ~IsProtect(x) /\ ~IsBase(x)
  <1>1. x \in CallEntry /\ x \in Entry
    BY DEF CCall, CallEntry, Entry
  <1> QED
    BY <1>1, Entries DEF CCall, IsBase

LEMMA CallNoYieldKeeps ==
    ASSUME Inv, CallNoYield
    PROVE  Kept
  <1>1. PICK b : b = EntryOf(T)
    OBVIOUS
  <1>2. PICK ci : ci = th[T].ci
    OBVIOUS
  <1>3. PICK G : G = Calls(cs, T)
    OBVIOUS
  <1>4. PICK f : f = C("call")
    OBVIOUS
  <1>5. PICK d : d = Append(ci, f)
    OBVIOUS
  <1>6. PICK e1 : e1 = th[T].errfunc
    OBVIOUS
  <1>7. PICK nC : nC = Plus(th[T].nC, 1)
    OBVIOUS
  <1>8. mode = "run" /\ CallFrom(T, <<f>>, <<>>, "call", 1, e1)
    BY <1>4, <1>6 DEF CallNoYield
  <1>9. /\ ci \in Seq(Frame) /\ G \in [DOMAIN G -> CallEntry] /\ DOMAIN G \in SUBSET Nat
        /\ Agree(ci, G)
        /\ cs[b].by # "close" => HandlersAgree(ci, e1)
        /\ ci # <<>> /\ IsLua(Last(ci)) /\ Entered(ci, G)
        /\ th[T].nC \in Counter /\ e1 \in BOOLEAN /\ Len(ci) \in Nat
    BY <1>1, <1>2, <1>3, <1>6, <1>8, RunningThread
  <1>10. f \in Frame /\ ~IsPCall(f) /\ ~IsYPCall(f)
    BY <1>4, CFrames
  <1>11. d \in Seq(Frame) /\ Len(d) = Len(ci) + 1 /\ ci \o <<f>> = d /\ <<f>> \in Seq(Frame)
    BY <1>5, <1>9, <1>10, Appended
  <1>12. PICK x : x = CCall(T, "call", 1, Len(d))
    OBVIOUS
  <1>13. /\ mode' \in {"run", "error", "throw"} /\ nC \in Counter
         /\ cs' = Append(cs \o <<>>, x)
         /\ mode' = "run" => th' = Put(Append(d, Fresh), nC, e1)
         /\ mode' # "run" => th' = Put(d, nC, e1)
    <2>1. <<>> \in Seq(Entry)
      OBVIOUS
    <2>2. d = th[T].ci \o <<f>> /\ <<f>> \in Seq(Frame)
      BY <1>2, <1>11
    <2>3. CallFrom(T, <<f>>, <<>>, "call", 1, e1) /\ e1 \in BOOLEAN
      BY <1>8, <1>9
    <2> QED
      BY <1>7, <1>12, <2>1, <2>2, <2>3, CallFromFields
  <1>14. /\ x \in CallEntry /\ x.th = T /\ x.by = "call" /\ x.ny = 1 /\ x.k = Len(d) /\ IsCall(x)
    <2>1. Len(d) \in Nat /\ T \in Thread
      BY <1>9, <1>11, Here
    <2> QED
      BY <1>12, <2>1, CallEntries
  <1>15. Needs(x) = {}
    BY <1>14 DEF Needs, IsCall
  <1>16. PICK v : v = Append(cs, x)
    OBVIOUS
  <1>17. cs' = v
    BY <1>13, <1>16, Here
  <1>18. /\ KeepsBase(v, b)
         /\ Calls(v, T) = More(G, Len(v), x) /\ Len(v) \in Nat
         /\ \A i \in DOMAIN G : i < Len(v)
         /\ CountsAgree(T, nC, v)
    BY <1>1, <1>3, <1>7, <1>14, <1>15, <1>16, Pushed
  <1>19. Agree(d, Calls(v, T))
    <2>1. x.k = Len(ci) + 1
      BY <1>11, <1>14
    <2>2. Agree(Append(ci, f), More(G, Len(v), x))
      BY <1>4, <1>9, <1>10, <1>14, <1>18, <2>1, AgreeCall
    <2> QED
      BY <1>5, <1>18, <2>2
  <1>20. cs[b].by # "close" => HandlersAgree(d, e1)
    BY <1>5, <1>9, <1>10, HandlersPush
  <1>21. Len(v) \in DOMAIN Calls(v, T) /\ Calls(v, T)[Len(v)].k = Len(d)
    BY <1>14, <1>18 DEF More
  <1>22. mode' \in {"run", "error", "throw"} /\ nC \in Counter
    BY <1>13
  <1>23. e1 \in BOOLEAN
    BY <1>9
  <1>24. mode' = "run" => th' = Put(Append(d, Fresh), nC, e1)
    BY <1>13
  <1>25. mode' # "run" => th' = Put(d, nC, e1)
    BY <1>13
  <1>26. d \in Seq(Frame)
    BY <1>11
  <1> QED
    BY <1>1, <1>17, <1>18, <1>19, <1>20, <1>21, <1>22, <1>23, <1>24, <1>25, <1>26, StepCall

LEMMA CallHandlerKeeps ==
    ASSUME Inv, CallHandler
    PROVE  Kept
  <1>1. PICK b : b = EntryOf(T)
    OBVIOUS
  <1>2. PICK d : d = th[T].ci
    OBVIOUS
  <1>3. PICK G : G = Calls(cs, T)
    OBVIOUS
  <1>4. PICK e1 : e1 = th[T].errfunc
    OBVIOUS
  <1>5. PICK nC : nC = Plus(th[T].nC, 1)
    OBVIOUS
  <1>6. /\ d \in Seq(Frame) /\ G \in [DOMAIN G -> CallEntry] /\ DOMAIN G \in SUBSET Nat
        /\ Agree(d, G)
        /\ cs[b].by # "close" => HandlersAgree(d, e1)
        /\ th[T].nC \in Counter /\ e1 \in BOOLEAN /\ Len(d) \in Nat
    BY <1>1, <1>2, <1>3, <1>4, RunningThread
  <1>7. CASE e1 = FALSE
    <2>1. th' = th /\ cs' = cs /\ mode' = "throw"
      BY <1>4, <1>7 DEF CallHandler
    <2> QED
      BY <2>1, AfterSame
  <1>8. CASE e1 = TRUE
    <2>1. CallFrom(T, <<>>, <<>>, "handler", 1, e1)
      BY <1>4, <1>8 DEF CallHandler
    <2>2. d \o <<>> = d
      BY <1>6
    <2>3. PICK x : x = CCall(T, "handler", 1, Len(d))
      OBVIOUS
    <2>4. /\ mode' \in {"run", "error", "throw"} /\ nC \in Counter
          /\ cs' = Append(cs \o <<>>, x)
          /\ mode' = "run" => th' = Put(Append(d, Fresh), nC, e1)
          /\ mode' # "run" => th' = Put(d, nC, e1)
      <3>1. <<>> \in Seq(Entry) /\ <<>> \in Seq(Frame)
        OBVIOUS
      <3>2. d = th[T].ci \o <<>>
        BY <1>2, <2>2
      <3>3. CallFrom(T, <<>>, <<>>, "handler", 1, e1) /\ e1 \in BOOLEAN
        BY <1>6, <2>1
      <3> QED
        BY <1>5, <2>3, <3>1, <3>2, <3>3, CallFromFields
    <2>5. /\ x \in CallEntry /\ x.th = T /\ x.by = "handler" /\ x.ny = 1 /\ x.k = Len(d) /\ IsCall(x)
      BY <1>6, <2>3, Here, CallEntries
    <2>6. Needs(x) = {}
      BY <2>5 DEF Needs, IsCall
    <2>7. PICK v : v = Append(cs, x)
      OBVIOUS
    <2>8. cs' = v
      BY <2>4, <2>7, Here
    <2>9. /\ KeepsBase(v, b)
          /\ Calls(v, T) = More(G, Len(v), x) /\ Len(v) \in Nat
          /\ \A i \in DOMAIN G : i < Len(v)
          /\ CountsAgree(T, nC, v)
      BY <1>1, <1>3, <1>5, <2>5, <2>6, <2>7, Pushed
    <2>10. Agree(d, Calls(v, T))
      <3>1. Agree(d, More(G, Len(v), x))
        BY <1>6, <2>5, <2>9, AgreeHandler
      <3> QED
        BY <2>9, <3>1
    <2>11. cs[b].by # "close" => HandlersAgree(d, e1)
      BY <1>6
    <2>12. Len(v) \in DOMAIN Calls(v, T) /\ Calls(v, T)[Len(v)].k = Len(d)
      BY <2>5, <2>9 DEF More
    <2>13. mode' \in {"run", "error", "throw"} /\ nC \in Counter
      BY <2>4
    <2>14. e1 \in BOOLEAN
      BY <1>6
    <2>15. mode' = "run" => th' = Put(Append(d, Fresh), nC, e1)
      BY <2>4
    <2>16. mode' # "run" => th' = Put(d, nC, e1)
      BY <2>4
    <2>17. d \in Seq(Frame)
      BY <1>6
    <2> QED
      BY <1>1, <2>8, <2>9, <2>10, <2>11, <2>12, <2>13, <2>14, <2>15, <2>16, <2>17, StepCall
  <1> QED
    BY <1>6, <1>7, <1>8

\* Where a yield is possible, no call on the C stack forbids it.
LEMMA YieldableCalls ==
    ASSUME Inv, Yieldable(T)
    PROVE  \A i \in DOMAIN Calls(cs, T) : Calls(cs, T)[i].ny = 0
  <1>1. PICK b : b = EntryOf(T)
    OBVIOUS
  <1>2. PICK l \in Nat : l = Len(cs)
    BY Here
  <1>3. PICK n : n = th[T].nC
    OBVIOUS
  <1>4. n \in Counter /\ CountsAgree(T, n, cs) /\ n.ny = 0
    BY <1>3, RunningThread DEF Yieldable
  <1>5. b \in DOMAIN cs /\ Base(cs, b, T) /\ cs[b] \in Entry /\ IsProtect(cs[b])
    BY <1>1, Here, BaseHere DEF Base, IsBase
  <1>6. n = Counted(cs[b].nC, cs, T, l)
    BY <1>2, <1>4, <1>5 DEF CountsAgree
  <1>7. cs[b].nC.ny \in Nat
    BY <1>5, Entries DEF ProtectEntry, Counter
  <1>8. PICK k \in Nat : k = Cardinality(ForbiddingUpTo(cs, T, l))
    BY <1>2, CountFinite
  <1>9. n.ny = cs[b].nC.ny + k
    BY <1>6, <1>8 DEF Counted
  <1>10. k = 0
    BY <1>4, <1>7, <1>9
  <1>11. \A i \in 1..l : cs[i].th = T /\ IsCall(cs[i]) => cs[i].ny # 1
    BY <1>2, <1>8, <1>10, CountZero
  <1>12. PICK G : G = Calls(cs, T)
    OBVIOUS
  <1>13. /\ G \in [DOMAIN G -> CallEntry] /\ \A i \in DOMAIN G : G[i] = cs[i]
         /\ DOMAIN G = {i \in 1..l : cs[i].th = T /\ IsCall(cs[i])}
    BY <1>2, <1>12, RunningThread
  <1>14. \A i \in DOMAIN G : G[i].ny # 1 /\ G[i].ny \in {0, 1}
    BY <1>11, <1>13 DEF CallEntry
  <1> QED
    BY <1>12, <1>14

LEMMA ProtectedCallKeeps ==
    ASSUME Inv, NEW handler \in BOOLEAN, ProtectedCall(handler)
    PROVE  Kept
  <1>1. PICK b : b = EntryOf(T)
    OBVIOUS
  <1>2. PICK ci : ci = th[T].ci
    OBVIOUS
  <1>3. PICK G : G = Calls(cs, T)
    OBVIOUS
  <1>4. PICK f : f = PCall(Yieldable(T), th[T].errfunc, handler)
    OBVIOUS
  <1>5. PICK d : d = Append(ci, f)
    OBVIOUS
  <1>6. mode = "run"
    BY DEF ProtectedCall
  <1>7. /\ ci \in Seq(Frame) /\ G \in [DOMAIN G -> CallEntry] /\ DOMAIN G \in SUBSET Nat
        /\ Agree(ci, G)
        /\ cs[b].by # "close" => HandlersAgree(ci, th[T].errfunc)
        /\ ci # <<>> /\ IsLua(Last(ci)) /\ Entered(ci, G)
        /\ th[T].nC \in Counter /\ th[T].errfunc \in BOOLEAN /\ Len(ci) \in Nat
    BY <1>1, <1>2, <1>3, <1>6, RunningThread
  <1>8. /\ f \in Frame /\ IsPCall(f) /\ f.old = th[T].errfunc /\ f.handler = handler
        /\ f.ypcall <=> Yieldable(T)
        /\ IsYPCall(f) <=> Yieldable(T)
    <2>1. Yieldable(T) \in BOOLEAN
      BY DEF Yieldable
    <2> QED
      BY <1>4, <1>7, <2>1 DEF PCall, Frame, IsPCall, IsYPCall
  <1>9. d \in Seq(Frame) /\ Len(d) = Len(ci) + 1 /\ d = th[T].ci \o <<f>> /\ <<f>> \in Seq(Frame)
        /\ Len(d) \in Nat
    <2>1. d \in Seq(Frame) /\ Len(d) = Len(ci) + 1 /\ Len(d) \in Nat
      BY <1>5, <1>7, <1>8, Appended
    <2> QED
      BY <1>2, <1>5, <1>7, <1>8, <2>1
  <1>10. cs[b].by # "close" => HandlersAgree(d, handler)
    BY <1>5, <1>7, <1>8, HandlersPush
  <1>11. T \in Thread /\ cs \in Seq(Entry) /\ <<>> \in Seq(Entry)
    BY Here
  <1>12. CASE Yieldable(T)
    <2>1. PICK x : x = CCall(T, "pcall", 0, Len(d))
      OBVIOUS
    <2>2. CallFrom(T, <<f>>, <<>>, "pcall", 0, handler)
      BY <1>4, <1>12 DEF ProtectedCall
    <2>3. PICK nC : nC = Plus(th[T].nC, 0)
      OBVIOUS
    <2>4. /\ mode' \in {"run", "error", "throw"} /\ nC \in Counter
          /\ cs' = Append(cs \o <<>>, x)
          /\ mode' = "run" => th' = Put(Append(d, Fresh), nC, handler)
          /\ mode' # "run" => th' = Put(d, nC, handler)
      BY <1>9, <1>11, <2>1, <2>2, <2>3, CallFromFields
    <2>5. /\ x \in CallEntry /\ x.th = T /\ x.by = "pcall" /\ x.ny = 0 /\ x.k = Len(d) /\ IsCall(x)
      BY <1>9, <1>11, <2>1, CallEntries
    <2>6. Needs(x) = {}
      BY <2>5 DEF Needs, IsCall
    <2>7. PICK v : v = Append(cs, x)
      OBVIOUS
    <2>8. cs' = v
      BY <1>11, <2>4, <2>7
    <2>9. /\ KeepsBase(v, b)
          /\ Calls(v, T) = More(G, Len(v), x) /\ Len(v) \in Nat
          /\ \A i \in DOMAIN G : i < Len(v)
          /\ CountsAgree(T, nC, v)
      BY <1>1, <1>3, <2>3, <2>5, <2>6, <2>7, Pushed
    <2>10. Agree(d, Calls(v, T))
      <3>1. x.k = Len(ci) + 1
        BY <1>9, <2>5
      <3>2. IsYPCall(f) => \A i \in DOMAIN G : G[i].ny = 0
        BY <1>3, <1>12, YieldableCalls
      <3>3. f.ypcall = (x.ny = 0)
        BY <1>4, <1>12, <2>5 DEF PCall
      <3>4. Agree(Append(ci, f), More(G, Len(v), x))
        BY <1>7, <1>8, <2>5, <2>9, <3>1, <3>2, <3>3, AgreeCall
      <3> QED
        BY <1>5, <2>9, <3>4
    <2>11. Len(v) \in DOMAIN Calls(v, T) /\ Calls(v, T)[Len(v)].k = Len(d)
      BY <2>5, <2>9 DEF More
    <2>12. mode' \in {"run", "error", "throw"} /\ nC \in Counter
      BY <2>4
    <2>13. mode' = "run" => th' = Put(Append(d, Fresh), nC, handler)
      BY <2>4
    <2>14. mode' # "run" => th' = Put(d, nC, handler)
      BY <2>4
    <2>15. d \in Seq(Frame)
      BY <1>9
    <2> QED
      BY <1>1, <1>10, <2>8, <2>9, <2>10, <2>11, <2>12, <2>13, <2>14, <2>15, StepCall
  <1>13. CASE ~Yieldable(T)
    <2>1. PICK x : x = CCall(T, "pcall", 1, Len(d))
      OBVIOUS
    <2>2. PICK p : p = Protect(T, "pcall", th[T].nC, Len(d))
      OBVIOUS
    <2>3. CallFrom(T, <<f>>, <<p>>, "pcall", 1, handler)
      BY <1>2, <1>4, <1>9, <1>13, <2>2 DEF ProtectedCall
    <2>4. PICK nC : nC = Plus(th[T].nC, 1)
      OBVIOUS
    <2>5. p \in Entry /\ <<p>> \in Seq(Entry)
      BY <1>7, <1>9, <1>11, <2>2 DEF Protect, Entry, ProtectEntry
    <2>6. /\ mode' \in {"run", "error", "throw"} /\ nC \in Counter
          /\ cs' = Append(cs \o <<p>>, x)
          /\ mode' = "run" => th' = Put(Append(d, Fresh), nC, handler)
          /\ mode' # "run" => th' = Put(d, nC, handler)
      BY <1>9, <2>1, <2>3, <2>4, <2>5, CallFromFields
    <2>7. /\ x \in CallEntry /\ x.th = T /\ x.by = "pcall" /\ x.ny = 1 /\ x.k = Len(d) /\ IsCall(x)
      BY <1>9, <1>11, <2>1, CallEntries
    <2>8. PICK s : s = Append(cs, p)
      OBVIOUS
    <2>9. PICK v : v = Append(s, x)
      OBVIOUS
    <2>10. cs' = v
      BY <1>11, <2>5, <2>6, <2>8, <2>9
    <2>11. s = Append(cs, Protect(T, "pcall", th[T].nC, x.k))
      BY <2>2, <2>7, <2>8
    <2>12. /\ KeepsBase(v, b)
           /\ Calls(v, T) = More(G, Len(v), x) /\ Len(v) \in Nat
           /\ \A i \in DOMAIN G : i < Len(v)
           /\ CountsAgree(T, nC, v)
      <3>1. x \in CallEntry /\ x.th = T /\ x.by = "pcall" /\ x.ny = 1
        BY <2>7
      <3>2. /\ KeepsBase(v, b)
            /\ Calls(v, T) = More(Calls(cs, T), Len(v), x) /\ Len(v) \in Nat
            /\ \A i \in DOMAIN Calls(cs, T) : i < Len(v)
            /\ CountsAgree(T, nC, v)
        BY <1>1, <2>4, <2>9, <2>11, <3>1, PushedProtected
      <3> QED
        BY <1>3, <3>2
    <2>13. Agree(d, Calls(v, T))
      <3>1. x.k = Len(ci) + 1
        BY <1>9, <2>7
      <3>2. ~IsYPCall(f)
        BY <1>8, <1>13
      <3>3. f.ypcall = (x.ny = 0)
        BY <1>4, <1>13, <2>7 DEF PCall, Yieldable
      <3>4. Agree(Append(ci, f), More(G, Len(v), x))
        BY <1>7, <1>8, <2>7, <2>12, <3>1, <3>2, <3>3, AgreeCall
      <3> QED
        BY <1>5, <2>12, <3>4
    <2>14. Len(v) \in DOMAIN Calls(v, T) /\ Calls(v, T)[Len(v)].k = Len(d)
      BY <2>7, <2>12 DEF More
    <2>15. mode' \in {"run", "error", "throw"} /\ nC \in Counter
      BY <2>6
    <2>16. mode' = "run" => th' = Put(Append(d, Fresh), nC, handler)
      BY <2>6
    <2>17. mode' # "run" => th' = Put(d, nC, handler)
      BY <2>6
    <2>18. d \in Seq(Frame)
      BY <1>9
    <2> QED
      <3>1. /\ KeepsBase(v, b)
            /\ CountsAgree(T, nC, v)
        BY <2>12
      <3> QED
        BY <1>1, <1>10, <2>10, <2>13, <2>14, <2>15, <2>16, <2>17, <2>18, <3>1, StepCall
  <1> QED
    BY <1>12, <1>13

-----------------------------------------------------------------------------
(* Returns, and throws, to a caller in the same piece.                     *)

LEMMA PrefixPrefix ==
    ASSUME NEW S, NEW s \in Seq(S), NEW n \in 0..Len(s), NEW m \in 0..n
    PROVE  SubSeq(SubSeq(s, 1, n), 1, m) = SubSeq(s, 1, m)
  <1>1. PICK d : d = SubSeq(s, 1, n)
    OBVIOUS
  <1>2. Len(s) \in Nat
    BY IsSeq
  <1>3. d \in Seq(S) /\ Len(d) = n /\ \A i \in 1..n : d[i] = s[i]
    BY <1>1, Prefix
  <1>4. m \in 0..Len(d) /\ m \in 0..Len(s)
    BY <1>2, <1>3
  <1>5. PICK a : a = SubSeq(d, 1, m)
    OBVIOUS
  <1>6. a \in Seq(S) /\ Len(a) = m /\ \A i \in 1..m : a[i] = d[i]
    BY <1>3, <1>4, <1>5, Prefix
  <1>7. PICK c : c = SubSeq(s, 1, m)
    OBVIOUS
  <1>8. c \in Seq(S) /\ Len(c) = m /\ \A i \in 1..m : c[i] = s[i]
    BY <1>4, <1>7, Prefix
  <1>9. \A i \in 1..m : a[i] = c[i]
    BY <1>3, <1>6, <1>8
  <1>10. a = c
    BY <1>6, <1>8, <1>9
  <1> QED
    BY <1>1, <1>5, <1>7, <1>10

\* Where the list is cut at a C function, the Lua function that called it is on top.
LEMMA CutAtC ==
    ASSUME NEW ci \in Seq(Frame), NEW I \in SUBSET Nat, NEW g \in [I -> CallEntry],
           Agree(ci, g), NEW n \in DOMAIN ci, ~IsLua(ci[n]),
           NEW J \in SUBSET I, NEW h \in [J -> CallEntry],
           \A i \in J : h[i] = g[i] /\ g[i].k <= n - 1
    PROVE  /\ SubSeq(ci, 1, n - 1) \in Seq(Frame) /\ SubSeq(ci, 1, n - 1) # <<>>
           /\ Len(SubSeq(ci, 1, n - 1)) = n - 1 /\ Last(SubSeq(ci, 1, n - 1)) = ci[n - 1]
           /\ IsLua(Last(SubSeq(ci, 1, n - 1))) /\ Entered(SubSeq(ci, 1, n - 1), h)
  <1>1. PICK d : d = SubSeq(ci, 1, n - 1)
    OBVIOUS
  <1>2. Len(ci) \in Nat /\ DOMAIN ci = 1..Len(ci) /\ \A j \in DOMAIN ci : ci[j] \in Frame
    BY IsSeq
  <1>3. ci[n] # Fresh
    BY LuaFrames
  <1>4. n > 1 /\ IsLua(ci[n - 1])
    BY <1>3 DEF Agree, CalledByLua
  <1>5. n - 1 \in 0..Len(ci) /\ n - 1 > 0 /\ n \in Nat
    BY <1>2, <1>4
  <1>6. d \in Seq(Frame) /\ Len(d) = n - 1 /\ d # <<>> /\ Last(d) = ci[n - 1]
    <2>1. /\ SubSeq(ci, 1, n - 1) \in Seq(Frame) /\ Len(SubSeq(ci, 1, n - 1)) = n - 1
          /\ SubSeq(ci, 1, n - 1) = <<>> <=> n - 1 = 0
          /\ n - 1 > 0 => Last(SubSeq(ci, 1, n - 1)) = ci[n - 1]
      BY <1>5, Prefix
    <2> QED
      BY <1>1, <1>5, <2>1
  <1>7. \A i \in J : h[i].k < n - 1
    <2> TAKE i \in J
    <2>1. i \in I /\ CallOK(ci, g[i]) /\ g[i].k \in Nat /\ g[i].k <= n - 1 /\ h[i] = g[i]
      BY DEF Agree, CallEntry
    <2>2. ASSUME g[i].k = n - 1 PROVE FALSE
      <3>1. g[i].k < Len(ci)
        BY <1>2, <1>5, <2>2
      <3>2. ci[g[i].k + 1] = Fresh
        BY <2>1, <3>1 DEF CallOK
      <3>3. g[i].k + 1 = n
        BY <1>5, <2>2
      <3> QED
        BY <1>3, <3>2, <3>3
    <2> QED
      BY <1>5, <2>1, <2>2
  <1>8. Entered(d, h)
    BY <1>6, <1>7 DEF Entered
  <1> QED
    BY <1>1, <1>4, <1>6, <1>8

LEMMA Popped ==
    ASSUME Inv, NEW b, b = EntryOf(T), NEW n \in b..Len(cs),
           IsProtect(cs[n]) => cs[n].by = "unroll",
           NEW v, v = SubSeq(cs, 1, n)
    PROVE  /\ KeepsBase(v, b)
           /\ DOMAIN Calls(v, T) = {i \in DOMAIN Calls(cs, T) : i <= n}
           /\ \A i \in DOMAIN Calls(v, T) : Calls(v, T)[i] = Calls(cs, T)[i]
           /\ Calls(v, T) \in [DOMAIN Calls(v, T) -> CallEntry]
           /\ DOMAIN Calls(v, T) \in SUBSET DOMAIN Calls(cs, T)
           /\ CountsAgree(T, Counted(cs[b].nC, cs, T, n), v)
  <1>1. PICK V : V = v
    OBVIOUS
  <1>2. V = SubSeq(cs, 1, n)
    BY <1>1
  <1>3. PICK l \in Nat : l = Len(cs)
    BY Here
  <1>4. /\ Stack(cs) /\ cs \in Seq(Entry) /\ DOMAIN cs = 1..l /\ T = Last(cs).th
        /\ b \in 1..l /\ Base(cs, b, T) /\ n \in b..l /\ n \in Nat /\ b \in Nat
        /\ \A i \in b..l : cs[i].th = T
    BY <1>3, Here, BaseHere
  <1>5. n # 1
    BY <1>4 DEF Stack, Protect, IsProtect
  <1>6. n \in 2..l /\ n \in 0..l
    BY <1>3, <1>4, <1>5
  <1>7. Stack(V)
    BY <1>2, <1>3, <1>4, <1>6, StackPrefix
  <1>8. /\ V \in Seq(Entry) /\ Len(V) = n /\ DOMAIN V = 1..n /\ Last(V) = cs[n]
        /\ \A i \in 1..n : V[i] = cs[i]
    <2>1. n > 0 /\ n \in 0..Len(cs)
      BY <1>3, <1>6
    <2> QED
      BY <1>2, <1>4, <2>1, Prefix
  <1>9. Last(V).th = T
    BY <1>4, <1>8
  <1>10. \A q \in Thread \ {T} : Same(cs, V, q)
    <2> TAKE q \in Thread \ {T}
    <2>1. n \in 0..Len(cs) /\ \A i \in n + 1..Len(cs) : cs[i].th # q
      BY <1>3, <1>4, <1>6
    <2> QED
      BY <1>2, <1>4, <2>1, SamePrefix
  <1>11. b \in DOMAIN V /\ V[b] = cs[b] /\ (b > 1 => V[b - 1] = cs[b - 1])
    BY <1>4, <1>8
  <1>12. Base(V, b, T)
    BY <1>4, <1>11 DEF Base
  <1>13. KeepsBase(V, b)
    BY <1>7, <1>9, <1>10, <1>11, <1>12 DEF KeepsBase
  <1>14. /\ DOMAIN Calls(V, T) = {i \in DOMAIN Calls(cs, T) : i <= n}
         /\ \A i \in DOMAIN Calls(V, T) : Calls(V, T)[i] = Calls(cs, T)[i]
         /\ Calls(V, T) \in [DOMAIN Calls(V, T) -> CallEntry]
         /\ DOMAIN Calls(V, T) \in SUBSET DOMAIN Calls(cs, T)
    BY <1>2, <1>3, <1>4, <1>6, CallsPrefix
  <1>15. CountsAgree(T, Counted(cs[b].nC, cs, T, n), V)
    <2>1. CountsAgree(T, th[T].nC, cs) /\ n \in b..Len(cs)
      BY RunningThread
    <2> QED
      BY <1>2, <1>4, <2>1, CountsPrefix
  <1> QED
    BY <1>1, <1>13, <1>14, <1>15

\* nCcalls below the entry on top, and below a setjmp.
LEMMA CountTop ==
    ASSUME Inv, NEW b, b = EntryOf(T), NEW x, x = Last(cs), IsCall(x)
    PROVE  /\ Counted(cs[b].nC, cs, T, Len(cs) - 1) = Minus(th[T].nC, x.ny)
           /\ x \in CallEntry /\ Len(cs) \in DOMAIN Calls(cs, T) /\ Calls(cs, T)[Len(cs)] = x
           /\ b \in 1..Len(cs) - 1
  <1>1. PICK l \in Nat : l = Len(cs) /\ l > 1
    BY Here
  <1>2. PICK n : n = th[T].nC
    OBVIOUS
  <1>3. /\ Stack(cs) /\ cs \in Seq(Entry) /\ DOMAIN cs = 1..l /\ T = Last(cs).th
        /\ b \in 1..l /\ Base(cs, b, T) /\ x = cs[l] /\ x \in Entry /\ x.th = T
    BY <1>1, Here, BaseHere, IsSeq
  <1>4. x \in CallEntry /\ ~IsProtect(x) /\ x.ny \in {0, 1}
    BY <1>3, Entries DEF CallEntry
  <1>5. n \in Counter /\ n = Counted(cs[b].nC, cs, T, l) /\ n.c \in Nat /\ n.ny \in Nat
    <2>1. n \in Counter /\ CountsAgree(T, n, cs)
      BY <1>2, RunningThread
    <2> QED
      BY <1>1, <1>3, <2>1, Counters DEF CountsAgree
  <1>6. b # l
    BY <1>3, <1>4 DEF Base, IsBase
  <1>7. PICK m \in Nat : m = l - 1 /\ m + 1 = l
    BY <1>1
  <1>8. /\ Cardinality(CallsUpTo(cs, T, m + 1)) = Cardinality(CallsUpTo(cs, T, m))
             + IF cs[m + 1].th = T /\ ~IsProtect(cs[m + 1]) THEN 1 ELSE 0
        /\ Cardinality(ForbiddingUpTo(cs, T, m + 1)) = Cardinality(ForbiddingUpTo(cs, T, m))
             + IF cs[m + 1].th = T /\ ~IsProtect(cs[m + 1]) /\ IsCall(cs[m + 1]) /\ cs[m + 1].ny = 1
               THEN 1 ELSE 0
    BY CountStep
  <1>9. PICK C0, F0 \in Nat : C0 = Cardinality(CallsUpTo(cs, T, m)) /\ F0 = Cardinality(ForbiddingUpTo(cs, T, m))
    BY CountFinite
  <1>10. /\ Cardinality(CallsUpTo(cs, T, l)) = C0 + 1
         /\ Cardinality(ForbiddingUpTo(cs, T, l)) = F0 + x.ny
    BY <1>3, <1>4, <1>7, <1>8, <1>9
  <1>11. cs[b].nC.c \in Nat /\ cs[b].nC.ny \in Nat
    <2>1. cs[b] \in Entry /\ IsProtect(cs[b])
      BY <1>3, Here DEF Base, IsBase
    <2> QED
      BY <2>1, Entries DEF ProtectEntry, Counter
  <1>12. n.c = cs[b].nC.c + (C0 + 1) /\ n.ny = cs[b].nC.ny + (F0 + x.ny)
    BY <1>5, <1>10 DEF Counted
  <1>13. n.c - 1 = cs[b].nC.c + C0 /\ n.ny - x.ny = cs[b].nC.ny + F0
    BY <1>4, <1>9, <1>11, <1>12
  <1>14. Counted(cs[b].nC, cs, T, m) = Minus(n, x.ny)
    BY <1>9, <1>13 DEF Counted, Minus
  <1>15. l \in DOMAIN Calls(cs, T) /\ Calls(cs, T)[l] = x
    <2>1. /\ DOMAIN Calls(cs, T) = {i \in 1..l : cs[i].th = T /\ IsCall(cs[i])}
          /\ \A i \in DOMAIN Calls(cs, T) : Calls(cs, T)[i] = cs[i]
      BY <1>1, <1>3, CallsType
    <2>2. l \in 1..l /\ cs[l].th = T /\ IsCall(cs[l]) /\ cs[l] = x
      BY <1>1, <1>3
    <2> QED
      BY <2>1, <2>2
  <1> QED
    BY <1>1, <1>2, <1>3, <1>4, <1>6, <1>7, <1>14, <1>15

LEMMA CountProtect ==
    ASSUME Inv, NEW b, b = EntryOf(T), NEW j \in DOMAIN cs, cs[j].th = T, IsProtect(cs[j]),
           cs[j].by = "pcall"
    PROVE  /\ Counted(cs[b].nC, cs, T, j - 1) = cs[j].nC /\ cs[j].nC \in Counter
           /\ j - 1 \in b..Len(cs) /\ (IsProtect(cs[j - 1]) => cs[j - 1].by = "unroll")
  <1>1. PICK l \in Nat : l = Len(cs) /\ l > 1
    BY Here
  <1>2. /\ Stack(cs) /\ cs \in Seq(Entry) /\ DOMAIN cs = 1..l
        /\ b \in 1..l /\ Base(cs, b, T) /\ \A i \in 1..b - 1 : cs[i].th # T
        /\ cs[j] \in Entry
    BY <1>1, Here, BaseHere
  <1>3. j \in 1..l /\ j # b /\ ~(j \in 1..b - 1)
    BY <1>2 DEF Base, IsBase
  <1>4. j - 1 \in b..l /\ j - 1 \in DOMAIN cs /\ j - 1 \in Nat
    BY <1>2, <1>3
  <1>5. CountsAgree(T, th[T].nC, cs)
    BY RunningThread
  <1>6. cs[j].nC = Counted(cs[b].nC, cs, T, j)
    BY <1>2, <1>5 DEF CountsAgree
  <1>7. PICK m \in Nat : m = j - 1 /\ m + 1 = j
    BY <1>3, <1>4
  <1>8. /\ Cardinality(CallsUpTo(cs, T, m + 1)) = Cardinality(CallsUpTo(cs, T, m))
             + IF cs[m + 1].th = T /\ ~IsProtect(cs[m + 1]) THEN 1 ELSE 0
        /\ Cardinality(ForbiddingUpTo(cs, T, m + 1)) = Cardinality(ForbiddingUpTo(cs, T, m))
             + IF cs[m + 1].th = T /\ ~IsProtect(cs[m + 1]) /\ IsCall(cs[m + 1]) /\ cs[m + 1].ny = 1
               THEN 1 ELSE 0
    BY CountStep
  <1>9. Cardinality(CallsUpTo(cs, T, m)) \in Nat /\ Cardinality(ForbiddingUpTo(cs, T, m)) \in Nat
    BY CountFinite
  <1>10. /\ Cardinality(CallsUpTo(cs, T, j)) = Cardinality(CallsUpTo(cs, T, m))
         /\ Cardinality(ForbiddingUpTo(cs, T, j)) = Cardinality(ForbiddingUpTo(cs, T, m))
    BY <1>7, <1>8, <1>9
  <1>11. Counted(cs[b].nC, cs, T, m) = cs[j].nC
    BY <1>6, <1>10 DEF Counted
  <1>12. cs[j].nC \in Counter
    BY <1>2, Entries DEF ProtectEntry
  <1>13. ASSUME IsProtect(cs[j - 1]) PROVE cs[j - 1].by = "unroll"
    <2>1. SUFFICES ASSUME cs[j - 1].by # "unroll" PROVE FALSE
      OBVIOUS
    <2>2. Protected(cs[j - 1], cs[(j - 1) + 1])
      BY <1>2, <1>4, <1>13, <2>1 DEF Stack, Protection
    <2>3. Protected(cs[j - 1], cs[j])
      BY <1>7, <2>2
    <2>4. cs[j - 1] \in ProtectEntry
      BY <1>2, <1>4, <1>13, Here, Entries
    <2>5. cs[j - 1].by \in {"main", "resume", "pcall", "close"}
      BY <2>1, <2>4 DEF ProtectEntry
    <2> QED
      BY <2>3, <2>5 DEF Protected, CCall, IsProtect
  <1> QED
    BY <1>1, <1>4, <1>7, <1>11, <1>12, <1>13

\* A fresh function was called by the call on top, and no other call has the same caller.
LEMMA TopCall ==
    ASSUME Inv, FreshReturn, NEW ci, ci = th[T].ci, NEW G, G = Calls(cs, T),
           NEW x, x = Last(cs), IsCall(x)
    PROVE  /\ Last(ci) = Fresh /\ x.k = Len(ci) - 1
           /\ \A i \in DOMAIN G \ {Len(cs)} :
                i < Len(cs) /\ G[i].k <= x.k /\ (G[i].k = x.k => x.by = "handler")
  <1>1. PICK l \in Nat : l = Len(cs)
    BY Here
  <1>2. PICK n \in Nat : n = Len(ci)
    BY RunningThread
  <1>3. mode = "run" /\ Last(ci).fresh
    BY DEF FreshReturn, Top
  <1>4. /\ ci \in Seq(Frame) /\ DOMAIN ci = 1..n /\ ci # <<>> /\ Last(ci) = ci[n] /\ IsLua(Last(ci))
        /\ G \in [DOMAIN G -> CallEntry] /\ DOMAIN G = {i \in 1..l : cs[i].th = T /\ IsCall(cs[i])}
        /\ Agree(ci, G) /\ Entered(ci, G) /\ \A j \in DOMAIN ci : ci[j] \in Frame
    BY <1>1, <1>2, <1>3, RunningThread
  <1>5. n > 0 /\ n \in DOMAIN ci
    BY <1>2, <1>4, IsSeq
  <1>6. Last(ci) = Fresh /\ ci[n] = Fresh
    BY <1>3, <1>4, <1>5, FrameKinds
  <1>7. l \in DOMAIN G /\ G[l] = x
    BY <1>1, CountTop
  <1>8. \A i \in DOMAIN G : G[i].k \in Nat /\ G[i].k < n
    BY <1>2, <1>4 DEF Entered, CallEntry
  <1>9. \A i \in DOMAIN G \ {l} : i < l
    BY <1>4
  <1>10. \A i \in DOMAIN G \ {l} : G[i].k <= x.k /\ (G[i].k = x.k => x.by = "handler")
    <2>1. Nested(G)
      BY <1>4 DEF Agree
    <2> QED
      BY <1>7, <1>9, <2>1 DEF Nested
  <1>11. x.k = n - 1
    <2>1. CASE n = 1
      BY <1>7, <1>8, <2>1
    <2>2. CASE n > 1
      <3>1. FreshCalled(ci, G)
        BY <1>4 DEF Agree
      <3>2. \/ \E i \in DOMAIN G : G[i].k = n - 1
            \/ \A i \in DOMAIN G : G[i].k >= n
        BY <1>5, <1>6, <2>2, <3>1 DEF FreshCalled
      <3>3. PICK i \in DOMAIN G : G[i].k = n - 1
        BY <1>7, <1>8, <3>2
      <3>4. CASE i = l
        BY <1>7, <3>3, <3>4
      <3>5. CASE i # l
        BY <1>7, <1>8, <1>10, <3>3, <3>5
      <3> QED
        BY <3>4, <3>5
    <2> QED
      BY <1>5, <2>1, <2>2
  <1> QED
    BY <1>1, <1>2, <1>6, <1>9, <1>10, <1>11

\* Where the entry on top is not a call, the thread was resumed and calls nothing from C.
LEMMA UnrollTop ==
    ASSUME Inv, ~IsCall(Last(cs))
    PROVE  DOMAIN Calls(cs, T) = {}
  <1>1. PICK l \in Nat : l = Len(cs) /\ l > 1
    BY Here
  <1>2. PICK b : b = EntryOf(T)
    OBVIOUS
  <1>3. PICK x : x = Last(cs)
    OBVIOUS
  <1>4. /\ Stack(cs) /\ cs \in Seq(Entry) /\ DOMAIN cs = 1..l /\ T = x.th
        /\ b \in 1..l /\ Base(cs, b, T) /\ x = cs[l] /\ x \in Entry /\ l \in DOMAIN cs
        /\ \A i \in 1..b - 1 : cs[i].th # T
    BY <1>1, <1>2, <1>3, Here, BaseHere, IsSeq
  <1>5. DOMAIN Calls(cs, T) = {i \in 1..l : cs[i].th = T /\ IsCall(cs[i])}
    <2>1. PICK G : G = Calls(cs, T)
      OBVIOUS
    <2>2. DOMAIN G = {i \in 1..Len(cs) : cs[i].th = T /\ IsCall(cs[i])}
      BY <2>1, RunningThread
    <2> QED
      BY <1>1, <2>1, <2>2
  <1>6. CASE IsProtect(x)
    <2>1. x.by = "unroll"
      <3>1. x.by # "unroll" => l + 1 \in DOMAIN cs
        BY <1>4, <1>6 DEF Stack, Protection
      <3> QED
        BY <1>1, <1>4, <3>1
    <2>2. Base(cs, l, T)
      BY <1>4, <1>6, <2>1 DEF Base, IsBase
    <2>3. l = b
      BY <1>4, <2>2, OneBase
    <2>4. \A i \in 1..l : i \in 1..b - 1 \/ i = l
      BY <1>1, <2>3
    <2>5. ~IsCall(cs[l])
      BY <1>4, <1>6 DEF IsProtect, IsCall
    <2> QED
      BY <1>4, <1>5, <2>4, <2>5
  <1>7. CASE ~IsProtect(x)
    <2>1. x.what = "resumed"
      BY <1>3, <1>4, <1>7, Entries
    <2>2. Needs(x) = {"resume"}
      BY <2>1 DEF Needs
    <2>3. l > 1 /\ IsProtect(cs[l - 1]) /\ cs[l - 1].by = "resume"
      BY <1>4, <2>2 DEF Stack, Protection
    <2>4. l - 1 \in DOMAIN cs
      BY <1>1, <1>4
    <2>5. Protected(cs[l - 1], cs[(l - 1) + 1])
      BY <1>4, <2>3, <2>4 DEF Stack, Protection
    <2>6. cs[l - 1].th = T
      BY <1>1, <1>4, <2>5 DEF Protected
    <2>7. Base(cs, l - 1, T)
      BY <2>3, <2>4, <2>6 DEF Base, IsBase
    <2>8. l - 1 = b
      BY <1>4, <2>7, OneBase
    <2>9. \A i \in 1..l : i \in 1..b - 1 \/ i = l - 1 \/ i = l
      BY <1>1, <2>8
    <2>10. ~IsCall(cs[l - 1])
      BY <2>3 DEF IsProtect, IsCall
    <2> QED
      BY <1>3, <1>4, <1>5, <2>9, <2>10
  <1> QED
    BY <1>6, <1>7

LEMMA BelowCall ==
    ASSUME Inv, NEW x, x = Last(cs), IsCall(x), Needs(x) = {}
    PROVE  IsProtect(cs[Len(cs) - 1]) => cs[Len(cs) - 1].by = "unroll"
  <1>1. PICK l \in Nat : l = Len(cs) /\ l > 1
    BY Here
  <1>2. /\ Stack(cs) /\ cs \in Seq(Entry) /\ DOMAIN cs = 1..l /\ x = cs[l] /\ l - 1 \in DOMAIN cs
        /\ cs[l - 1] \in Entry
    BY <1>1, Here, IsSeq
  <1>3. SUFFICES ASSUME IsProtect(cs[l - 1]), cs[l - 1].by # "unroll" PROVE FALSE
    BY <1>1
  <1>4. Protected(cs[l - 1], cs[(l - 1) + 1])
    BY <1>2, <1>3 DEF Stack, Protection
  <1>5. Protected(cs[l - 1], x)
    BY <1>1, <1>2, <1>4
  <1>6. cs[l - 1].by \in {"main", "resume", "pcall", "close"}
    BY <1>2, <1>3, Entries DEF ProtectEntry
  <1>7. x = CCall(main, "main", 1, 0) \/ x.what = "resumed" \/ x.by = "body" \/ x.by = "close"
        \/ (x.by = "pcall" /\ x.ny = 1)
    BY <1>5, <1>6 DEF Protected, CCall
  <1>8. x.by = "main" \/ x.by = "body" \/ x.by = "close" \/ (x.by = "pcall" /\ x.ny = 1)
    BY <1>7 DEF CCall, IsCall
  <1> QED
    BY <1>8 DEF Needs, IsCall

LEMMA CountedType ==
    ASSUME Inv, NEW b, b = EntryOf(T), NEW n \in b..Len(cs)
    PROVE  Counted(cs[b].nC, cs, T, n) \in Counter
  <1>1. cs[b].nC.c \in Nat /\ cs[b].nC.ny \in Nat
    <2>1. cs[b] \in Entry /\ IsProtect(cs[b])
      BY Here, BaseHere DEF Base, IsBase
    <2> QED
      BY <2>1, Entries DEF ProtectEntry, Counter
  <1>2. Cardinality(CallsUpTo(cs, T, n)) \in Nat /\ Cardinality(ForbiddingUpTo(cs, T, n)) \in Nat
    <2>1. b \in 1..Len(cs) /\ Len(cs) \in Nat
      BY Here, BaseHere
    <2>2. n \in Nat
      BY <2>1
    <2> QED
      BY <2>2, CountFinite
  <1>3. PICK p \in Nat : p = cs[b].nC.c + Cardinality(CallsUpTo(cs, T, n))
    BY <1>1, <1>2
  <1>4. PICK q \in Nat : q = cs[b].nC.ny + Cardinality(ForbiddingUpTo(cs, T, n))
    BY <1>1, <1>2
  <1>5. Counted(cs[b].nC, cs, T, n) = [c |-> p, ny |-> q]
    BY <1>3, <1>4 DEF Counted
  <1>6. [c |-> p, ny |-> q] \in Counter
    BY DEF Counter
  <1> QED
    BY <1>5, <1>6

\* Control goes back in the piece of the running thread, to entry n of the C stack and
\* to CallInfo m.
LEMMA StepBack ==
    ASSUME Inv, NEW b, b = EntryOf(T), NEW ci, ci = th[T].ci, NEW G, G = Calls(cs, T),
           NEW n \in b..Len(cs), IsProtect(cs[n]) => cs[n].by = "unroll",
           NEW m \in 0..Len(ci),
           \A i \in DOMAIN G : i <= n => G[i].k <= m,
           \A i \in DOMAIN G : ~(i <= n) => G[i].k >= m /\ (OnStack(G[i]) => G[i].k > m),
           NEW d, d = SubSeq(ci, 1, m), NEW nC, nC = Counted(cs[b].nC, cs, T, n),
           NEW errfunc \in BOOLEAN, cs[b].by # "close" => HandlersAgree(d, errfunc),
           cs' = SubSeq(cs, 1, n), th' = Put(d, nC, errfunc),
           mode' \in {"run", "error", "throw"},
           mode' = "run" => m < Len(ci) /\ ~IsLua(ci[m + 1])
    PROVE  Kept
  <1>1. PICK B : B = b
    OBVIOUS
  <1>2. PICK c : c = ci
    OBVIOUS
  <1>3. PICK g : g = G
    OBVIOUS
  <1>4. PICK D : D = d
    OBVIOUS
  <1>5. PICK N : N = nC
    OBVIOUS
  <1>6. PICK v : v = SubSeq(cs, 1, n)
    OBVIOUS
  <1>7. PICK h : h = Calls(v, T)
    OBVIOUS
  <1>8. B = EntryOf(T) /\ c = th[T].ci /\ g = Calls(cs, T)
    BY <1>1, <1>2, <1>3
  <1>9. /\ c \in Seq(Frame) /\ g \in [DOMAIN g -> CallEntry] /\ DOMAIN g \in SUBSET Nat
        /\ Agree(c, g) /\ Len(c) \in Nat /\ DOMAIN c = 1..Len(c)
    BY <1>8, RunningThread
  <1>10. m \in 0..Len(c) /\ n \in B..Len(cs)
    BY <1>1, <1>2
  <1>11. /\ KeepsBase(v, B)
         /\ DOMAIN h = {i \in DOMAIN g : i <= n}
         /\ \A i \in DOMAIN h : h[i] = g[i]
         /\ h \in [DOMAIN h -> CallEntry]
         /\ DOMAIN h \in SUBSET DOMAIN g
         /\ CountsAgree(T, Counted(cs[B].nC, cs, T, n), v)
    BY <1>6, <1>7, <1>8, <1>10, Popped
  <1>12. D = SubSeq(c, 1, m) /\ D \in Seq(Frame)
    BY <1>2, <1>4, <1>9, <1>10, Prefix
  <1>13. Agree(D, h)
    <2>1. \A i \in DOMAIN h : h[i] = g[i] /\ g[i].k <= m
      BY <1>3, <1>11
    <2>2. \A i \in DOMAIN g \ DOMAIN h : g[i].k >= m /\ (OnStack(g[i]) => g[i].k > m)
      BY <1>3, <1>11
    <2>3. Numbered(g) /\ Numbered(h) /\ Cuts(g, h, m)
      BY <1>9, <1>11, <2>1, <2>2 DEF Numbered, Cuts
    <2>4. Agree(SubSeq(c, 1, m), h)
      BY <1>9, <1>10, <2>3, AgreeCut
    <2> QED
      BY <1>12, <2>4
  <1>14. N \in Counter /\ N = Counted(cs[B].nC, cs, T, n)
    <2>1. Counted(cs[B].nC, cs, T, n) \in Counter
      BY <1>8, <1>10, CountedType
    <2>7. N = Counted(cs[B].nC, cs, T, n)
      BY <1>1, <1>5
    <2> QED
      BY <2>1, <2>7
  <1>15. Agree(D, Calls(v, T)) /\ CountsAgree(T, N, v) /\ KeepsBase(v, B)
    BY <1>7, <1>11, <1>13, <1>14
  <1>16. mode' = "run" => D # <<>> /\ IsLua(Last(D)) /\ Entered(D, Calls(v, T))
    <2>1. SUFFICES ASSUME mode' = "run" PROVE D # <<>> /\ IsLua(Last(D)) /\ Entered(D, h)
      BY <1>7
    <2>2. m < Len(c) /\ ~IsLua(c[m + 1])
      BY <1>2, <2>1
    <2>3. PICK j \in DOMAIN c : j = m + 1 /\ m = j - 1
      BY <1>9, <1>10, <2>2
    <2>4. \A i \in DOMAIN h : h[i] = g[i] /\ g[i].k <= j - 1
      BY <1>3, <1>11, <2>3
    <2>5. ~IsLua(c[j])
      BY <2>2, <2>3
    <2>6. D = SubSeq(c, 1, j - 1)
      BY <1>12, <2>3
    <2> QED
      BY <1>9, <1>11, <2>4, <2>5, <2>6, CutAtC
  <1>17. cs[B].by # "close" => HandlersAgree(D, errfunc)
    BY <1>1, <1>4
  <1>18. th' = Put(D, N, errfunc) /\ cs' = v
    BY <1>4, <1>5, <1>6
  <1> QED
    BY <1>8, <1>12, <1>14, <1>15, <1>16, <1>17, <1>18, StepWith

\* The list without the Lua function on top has the same handler.
LEMMA HandlersOfCaller ==
    ASSUME Inv, mode = "run", NEW b, b = EntryOf(T), NEW ci, ci = th[T].ci,
           NEW e1, e1 = th[T].errfunc
    PROVE  cs[b].by # "close" => HandlersAgree(SubSeq(ci, 1, Len(ci) - 1), e1)
  <1>1. PICK c : c = ci
    OBVIOUS
  <1>2. PICK B : B = b
    OBVIOUS
  <1>3. PICK q : q = e1
    OBVIOUS
  <1>4. B = EntryOf(T) /\ c = th[T].ci /\ q = th[T].errfunc
    BY <1>1, <1>2, <1>3
  <1>5. /\ c \in Seq(Frame) /\ c # <<>> /\ IsLua(Last(c))
        /\ cs[B].by # "close" => HandlersAgree(c, q)
    BY <1>4, RunningThread
  <1>6. ~IsPCall(Last(c))
    BY <1>5, IsSeq, FrameKinds
  <1>7. HandlersAgree(c, q) => HandlersAgree(SubSeq(c, 1, Len(c) - 1), q)
    BY <1>5, <1>6, HandlersPop
  <1>8. cs[B].by # "close" => HandlersAgree(SubSeq(c, 1, Len(c) - 1), q)
    BY <1>5, <1>7
  <1> QED
    BY <1>1, <1>2, <1>3, <1>8

LEMMA ReturnFromHandlerKeeps ==
    ASSUME Inv, ReturnFromHandler
    PROVE  Kept
  <1>1. PICK b : b = EntryOf(T)
    OBVIOUS
  <1>2. PICK ci : ci = th[T].ci
    OBVIOUS
  <1>3. PICK G : G = Calls(cs, T)
    OBVIOUS
  <1>4. PICK x : x = Last(cs)
    OBVIOUS
  <1>5. PICK e1 : e1 = th[T].errfunc
    OBVIOUS
  <1>6. PICK nC : nC = Minus(th[T].nC, x.ny)
    OBVIOUS
  <1>7. PICK l \in Nat : l = Len(cs) /\ l > 1
    BY Here
  <1>8. FreshReturn /\ mode = "run" /\ IsCall(x) /\ x.by = "handler" /\ mode' = "throw"
    BY <1>4 DEF ReturnFromHandler, FreshReturn, IsCall, e
  <1>9. Needs(x) = {}
    BY <1>8 DEF Needs, IsCall
  <1>10. /\ ci \in Seq(Frame) /\ ci # <<>> /\ Len(ci) \in Nat /\ e1 \in BOOLEAN
         /\ DOMAIN G \in SUBSET (1..Len(cs)) /\ \A i \in DOMAIN G : G[i] \in CallEntry
    BY <1>1, <1>2, <1>3, <1>5, <1>8, RunningThread
  <1>11. PICK m \in 0..Len(ci) : m = Len(ci) - 1
    BY <1>10, IsSeq
  <1>12. x.k = m /\ \A i \in DOMAIN G \ {l} : i < l /\ G[i].k <= m
    BY <1>2, <1>3, <1>4, <1>7, <1>8, <1>11, TopCall
  <1>13. /\ Counted(cs[b].nC, cs, T, l - 1) = nC
         /\ x \in CallEntry /\ l \in DOMAIN G /\ G[l] = x
         /\ b \in 1..l - 1
    BY <1>1, <1>3, <1>4, <1>6, <1>7, <1>8, CountTop
  <1>14. PICK n \in b..Len(cs) : n = l - 1
    BY <1>7, <1>13
  <1>15. IsProtect(cs[n]) => cs[n].by = "unroll"
    BY <1>4, <1>7, <1>8, <1>9, <1>14, BelowCall
  <1>16. \A i \in DOMAIN G : i <= n => G[i].k <= m
    BY <1>7, <1>12, <1>14
  <1>17. \A i \in DOMAIN G : ~(i <= n) => G[i].k >= m /\ (OnStack(G[i]) => G[i].k > m)
    <2> TAKE i \in DOMAIN G
    <2>1. SUFFICES ASSUME ~(i <= n) PROVE G[i].k >= m /\ (OnStack(G[i]) => G[i].k > m)
      OBVIOUS
    <2>2. i = l
      <3>1. i \in 1..l
        BY <1>7, <1>10
      <3> QED
        BY <1>7, <1>12, <1>14, <2>1, <3>1
    <2>3. G[i].k = m /\ ~OnStack(G[i])
      BY <1>8, <1>12, <1>13, <2>2 DEF OnStack
    <2> QED
      BY <1>10, <2>3
  <1>18. PICK d : d = SubSeq(ci, 1, m)
    OBVIOUS
  <1>19. d \in Seq(Frame) /\ (cs[b].by # "close" => HandlersAgree(d, e1))
    <2>1. cs[b].by # "close" => HandlersAgree(SubSeq(ci, 1, Len(ci) - 1), e1)
      BY <1>1, <1>2, <1>5, <1>8, HandlersOfCaller
    <2> QED
      BY <1>10, <1>11, <1>18, <2>1, Prefix
  <1>20. nC \in Counter
    <2>1. Counted(cs[b].nC, cs, T, n) \in Counter
      BY <1>1, CountedType
    <2> QED
      BY <1>13, <1>14, <2>1
  <1>21. th' = Put(d, nC, e1) /\ cs' = SubSeq(cs, 1, n)
    <2>1. cs' = SubSeq(cs, 1, n)
      BY <1>7, <1>14 DEF ReturnFromHandler, Front
    <2>2. th' = [th EXCEPT ![T] = [th[T] EXCEPT !.ci = d, !.nC = nC]]
      BY <1>2, <1>4, <1>6, <1>8, <1>11, <1>18 DEF ReturnFromHandler, Returned, Pop, e, IsCall
    <2>3. [th[T] EXCEPT !.ci = d, !.nC = nC] = With(th[T], d, nC, e1)
      BY <1>5, <1>10, <1>19, <1>20, Here, WithParts
    <2> QED
      BY <2>1, <2>2, <2>3 DEF Put
  <1>22. nC = Counted(cs[b].nC, cs, T, n)
    BY <1>13, <1>14
  <1>23. mode' \in {"run", "error", "throw"} /\ mode' # "run"
    BY <1>8
  <1>24. cs[b].by # "close" => HandlersAgree(d, e1)
    BY <1>19
  <1> QED
    BY <1>1, <1>2, <1>3, <1>10, <1>15, <1>16, <1>17, <1>18, <1>21, <1>22, <1>23, <1>24, StepBack

\* A function returns to the C function of the list that has called it.
LEMMA CalledFromC ==
    ASSUME Inv, FreshReturn, NEW ci, ci = th[T].ci, NEW G, G = Calls(cs, T),
           NEW x, x = Last(cs), IsCall(x), x.by \in {"call", "pcall"},
           NEW l, l = Len(cs), NEW m, m = Len(ci) - 2
    PROVE  /\ m \in 0..Len(ci) /\ m + 1 \in DOMAIN ci /\ m < Len(ci) /\ ~IsLua(ci[m + 1])
           /\ x.by = "call" => ci[m + 1] = C("call")
           /\ x.by = "pcall" => IsPCall(ci[m + 1])
           /\ \A i \in DOMAIN G : i < l => G[i].k <= m
           /\ \A i \in DOMAIN G : ~(i < l) => i = l /\ G[i].k > m
           /\ Len(ci) > 1
  <1>1. PICK c : c = ci
    OBVIOUS
  <1>2. PICK g : g = G
    OBVIOUS
  <1>3. PICK y : y = x
    OBVIOUS
  <1>4. PICK L \in Nat : L = l /\ L = Len(cs)
    BY Here
  <1>5. c = th[T].ci /\ g = Calls(cs, T) /\ y = Last(cs) /\ IsCall(y) /\ y.by \in {"call", "pcall"}
    BY <1>1, <1>2, <1>3
  <1>6. mode = "run"
    BY DEF FreshReturn
  <1>7. /\ c \in Seq(Frame) /\ Len(c) \in Nat /\ DOMAIN c = 1..Len(c) /\ Agree(c, g) /\ c # <<>>
        /\ \A j \in DOMAIN c : c[j] \in Frame
        /\ DOMAIN g \in SUBSET (1..Len(cs)) /\ g \in [DOMAIN g -> CallEntry]
    BY <1>5, <1>6, RunningThread
  <1>8. /\ y.k = Len(c) - 1
        /\ \A i \in DOMAIN g \ {L} : i < L /\ g[i].k <= y.k /\ (g[i].k = y.k => y.by = "handler")
    BY <1>4, <1>5, TopCall
  <1>9. y \in CallEntry /\ L \in DOMAIN g /\ g[L] = y
    <2>1. PICK b : b = EntryOf(T)
      OBVIOUS
    <2> QED
      BY <1>4, <1>5, <2>1, CountTop
  <1>10. CallOK(c, y)
    BY <1>7, <1>9 DEF Agree
  <1>11. /\ y.k > 0 /\ ~IsLua(c[y.k])
         /\ y.by = "call" => c[y.k] = C("call")
         /\ y.by = "pcall" => IsPCall(c[y.k])
    BY <1>5, <1>10 DEF CallOK, C, IsPCall, IsLua
  <1>12. PICK M : M = m
    OBVIOUS
  <1>13. M = y.k - 1 /\ M + 1 = y.k /\ M \in 0..Len(c) /\ M < Len(c) /\ M + 1 \in DOMAIN c /\ Len(c) > 1
    <2>1. M = Len(c) - 2
      BY <1>1, <1>12
    <2> QED
      BY <1>7, <1>8, <1>11, <2>1
  <1>14. \A i \in DOMAIN g : i < L => g[i].k <= M
    <2> TAKE i \in DOMAIN g
    <2>1. g[i].k \in Nat
      BY <1>7 DEF CallEntry
    <2>2. i < L => g[i].k <= y.k /\ g[i].k # y.k
      BY <1>5, <1>8
    <2> QED
      BY <1>7, <1>8, <1>13, <2>1, <2>2
  <1>15. \A i \in DOMAIN g : ~(i < L) => i = L /\ g[i].k > M
    <2> TAKE i \in DOMAIN g
    <2>1. ~(i < L) => i = L
      BY <1>8
    <2> QED
      BY <1>7, <1>8, <1>9, <1>13, <2>1
  <1> QED
    BY <1>1, <1>2, <1>3, <1>4, <1>11, <1>12, <1>13, <1>14, <1>15

LEMMA PopPop ==
    ASSUME NEW ci \in Seq(Frame), Len(ci) > 1
    PROVE  /\ Pop(ci, 1) \in Seq(Frame) /\ Pop(Pop(ci, 1), 1) = SubSeq(ci, 1, Len(ci) - 2)
           /\ Pop(ci, 1) # <<>> /\ Last(Pop(ci, 1)) = ci[Len(ci) - 1]
  <1>1. PICK n \in 0..Len(ci) : n = Len(ci) - 1 /\ n > 0
    BY IsSeq, SMTT(30)
  <1>2. PICK m \in 0..n : m = n - 1 /\ m = Len(ci) - 2
    BY <1>1
  <1>3. PICK d : d = SubSeq(ci, 1, n)
    OBVIOUS
  <1>4. d \in Seq(Frame) /\ Len(d) = n /\ d # <<>> /\ Last(d) = ci[n]
    <2>1. /\ SubSeq(ci, 1, n) \in Seq(Frame) /\ Len(SubSeq(ci, 1, n)) = n
          /\ SubSeq(ci, 1, n) = <<>> <=> n = 0
          /\ n > 0 => Last(SubSeq(ci, 1, n)) = ci[n]
      BY Prefix
    <2> QED
      BY <1>1, <1>3, <2>1
  <1>5. SubSeq(d, 1, m) = SubSeq(ci, 1, m)
    BY <1>3, PrefixPrefix
  <1>6. Pop(ci, 1) = d
    BY <1>1, <1>3 DEF Pop
  <1>7. Pop(d, 1) = SubSeq(d, 1, m)
    BY <1>2, <1>4 DEF Pop
  <1> QED
    BY <1>1, <1>2, <1>4, <1>5, <1>6, <1>7

LEMMA ReturnToCKeeps ==
    ASSUME Inv, ReturnToC
    PROVE  Kept
  <1>1. PICK b : b = EntryOf(T)
    OBVIOUS
  <1>2. PICK ci : ci = th[T].ci
    OBVIOUS
  <1>3. PICK G : G = Calls(cs, T)
    OBVIOUS
  <1>4. PICK x : x = Last(cs)
    OBVIOUS
  <1>5. PICK e1 : e1 = th[T].errfunc
    OBVIOUS
  <1>6. PICK nC : nC = Minus(th[T].nC, x.ny)
    OBVIOUS
  <1>7. PICK l \in Nat : l = Len(cs) /\ l > 1
    BY Here
  <1>8. PICK m : m = Len(ci) - 2
    OBVIOUS
  <1>9. FreshReturn /\ mode = "run" /\ IsCall(x) /\ x.by = "call" /\ mode' = "run"
    BY <1>4 DEF ReturnToC, FreshReturn, IsCall, e
  <1>10. Needs(x) = {} /\ x.by \in {"call", "pcall"}
    BY <1>9 DEF Needs, IsCall
  <1>11. /\ ci \in Seq(Frame) /\ e1 \in BOOLEAN /\ Len(ci) \in Nat
         /\ DOMAIN G \in SUBSET (1..Len(cs))
    BY <1>1, <1>2, <1>3, <1>5, <1>9, RunningThread
  <1>12. /\ m \in 0..Len(ci) /\ m + 1 \in DOMAIN ci /\ m < Len(ci) /\ ~IsLua(ci[m + 1])
         /\ ci[m + 1] = C("call")
         /\ \A i \in DOMAIN G : i < l => G[i].k <= m
         /\ \A i \in DOMAIN G : ~(i < l) => i = l /\ G[i].k > m
         /\ Len(ci) > 1
    BY <1>2, <1>3, <1>4, <1>7, <1>8, <1>9, <1>10, CalledFromC
  <1>13. Counted(cs[b].nC, cs, T, l - 1) = nC /\ b \in 1..l - 1
    BY <1>1, <1>4, <1>6, <1>7, <1>9, CountTop
  <1>14. PICK n \in b..Len(cs) : n = l - 1
    BY <1>7, <1>13
  <1>15. IsProtect(cs[n]) => cs[n].by = "unroll"
    BY <1>4, <1>7, <1>9, <1>10, <1>14, BelowCall
  <1>16. \A i \in DOMAIN G : i <= n => G[i].k <= m
    <2> TAKE i \in DOMAIN G
    <2>1. i \in 1..l
      BY <1>7, <1>11
    <2>2. i <= n => i < l
      BY <1>14, <2>1
    <2> QED
      BY <1>12, <2>2
  <1>17. \A i \in DOMAIN G : ~(i <= n) => G[i].k >= m /\ (OnStack(G[i]) => G[i].k > m)
    <2> TAKE i \in DOMAIN G
    <2>1. i \in 1..l /\ G[i].k \in Nat
      <3>1. G[i] \in CallEntry
        BY <1>1, <1>2, <1>3, RunningThread
      <3> QED
        BY <1>7, <1>11, <3>1 DEF CallEntry
    <2>2. ~(i <= n) => ~(i < l)
      BY <1>14, <2>1
    <2>3. ~(i < l) => G[i].k > m
      BY <1>12
    <2> QED
      BY <1>12, <2>1, <2>2, <2>3
  <1>18. PICK d : d = SubSeq(ci, 1, m)
    OBVIOUS
  <1>19. /\ Pop(ci, 1) \in Seq(Frame) /\ Pop(Pop(ci, 1), 1) = d
         /\ Pop(ci, 1) # <<>> /\ Last(Pop(ci, 1)) = ci[m + 1]
    BY <1>8, <1>11, <1>12, <1>18, PopPop
  <1>20. cs[b].by # "close" => HandlersAgree(d, e1)
    <2>1. PICK c : c = Pop(ci, 1)
      OBVIOUS
    <2>2. cs[b].by # "close" => HandlersAgree(c, e1)
      <3>1. cs[b].by # "close" => HandlersAgree(SubSeq(ci, 1, Len(ci) - 1), e1)
        BY <1>1, <1>2, <1>5, <1>9, HandlersOfCaller
      <3> QED
        BY <2>1, <3>1 DEF Pop
    <2>3. c \in Seq(Frame) /\ c # <<>> /\ ~IsPCall(Last(c))
      BY <1>12, <1>19, <2>1, CFrames
    <2>4. HandlersAgree(c, e1) => HandlersAgree(SubSeq(c, 1, Len(c) - 1), e1)
      BY <2>3, HandlersPop
    <2>5. SubSeq(c, 1, Len(c) - 1) = d
      BY <1>19, <2>1 DEF Pop
    <2> QED
      BY <2>2, <2>4, <2>5
  <1>21. nC \in Counter /\ d \in Seq(Frame)
    <2>1. Counted(cs[b].nC, cs, T, n) \in Counter
      BY <1>1, CountedType
    <2> QED
      BY <1>11, <1>12, <1>13, <1>14, <1>18, <2>1, Prefix
  <1>22. th' = Put(d, nC, e1) /\ cs' = SubSeq(cs, 1, n)
    <2>1. cs' = SubSeq(cs, 1, n)
      BY <1>7, <1>14 DEF ReturnToC, Front
    <2>2. Returned = [th EXCEPT ![T] = [th[T] EXCEPT !.ci = Pop(ci, 1), !.nC = nC]]
      BY <1>2, <1>4, <1>6, <1>9 DEF Returned, e, IsCall
    <2>3. PICK r : r = [th[T] EXCEPT !.ci = Pop(ci, 1), !.nC = nC]
      OBVIOUS
    <2>4. th \in [Thread -> State] /\ T \in Thread /\ th[T] \in State
      BY Here
    <2>5. r \in State /\ r.ci = Pop(ci, 1) /\ [r EXCEPT !.ci = d] = [th[T] EXCEPT !.ci = d, !.nC = nC]
      BY <1>19, <1>21, <2>3, <2>4 DEF State
    <2>6. th' = [th EXCEPT ![T] = [r EXCEPT !.ci = Pop(r.ci, 1)]]
      BY <2>2, <2>3, <2>4 DEF ReturnToC, Return
    <2>7. th' = [th EXCEPT ![T] = [th[T] EXCEPT !.ci = d, !.nC = nC]]
      BY <1>19, <2>5, <2>6
    <2>8. [th[T] EXCEPT !.ci = d, !.nC = nC] = With(th[T], d, nC, e1)
      BY <1>5, <1>21, <2>4, WithParts
    <2> QED
      BY <2>1, <2>7, <2>8 DEF Put
  <1>23. nC = Counted(cs[b].nC, cs, T, n)
    BY <1>13, <1>14
  <1>24. mode' \in {"run", "error", "throw"} /\ m < Len(ci) /\ ~IsLua(ci[m + 1])
    BY <1>9, <1>12
  <1> QED
    BY <1>1, <1>2, <1>3, <1>11, <1>12, <1>15, <1>16, <1>17, <1>18, <1>20, <1>22, <1>23, <1>24, StepBack

\* A pcall ends: its CallInfo goes, and the handler is that of the one before.
LEMMA PCallEndsFields ==
    ASSUME Inv, NEW ci, ci = th[T].ci, NEW j \in DOMAIN ci, IsPCall(ci[j]),
           NEW a \in Seq(Frame), Last(a) = ci[j], NEW d, d = Pop(a, 1), d = SubSeq(ci, 1, j - 1),
           NEW nC \in Counter
    PROVE  /\ PCallEnds(th, a, nC) = Put(d, nC, ci[j].old)
           /\ ci[j].old \in BOOLEAN
           /\ \A b : b = EntryOf(T) => (cs[b].by # "close" => HandlersAgree(d, ci[j].old))
  <1>1. PICK c : c = ci
    OBVIOUS
  <1>2. PICK D : D = d
    OBVIOUS
  <1>3. PICK N : N = nC
    OBVIOUS
  <1>4. c = th[T].ci /\ j \in DOMAIN c /\ IsPCall(c[j]) /\ Last(a) = c[j]
        /\ D = Pop(a, 1) /\ D = SubSeq(c, 1, j - 1) /\ N \in Counter /\ N = nC
    BY <1>1, <1>2, <1>3
  <1>5. c \in Seq(Frame) /\ Len(c) \in Nat /\ DOMAIN c = 1..Len(c) /\ c[j] \in Frame
    <2>1. PICK b : b = EntryOf(T)
      OBVIOUS
    <2>2. PICK G : G = Calls(cs, T)
      OBVIOUS
    <2> QED
      BY <1>4, <2>1, <2>2, RunningThread
  <1>6. PICK o : o = c[j].old
    OBVIOUS
  <1>7. o \in BOOLEAN
    BY <1>4, <1>5, <1>6, FrameKinds
  <1>8. D \in Seq(Frame)
    <2>1. PICK m \in 0..Len(c) : m = j - 1
      BY <1>4, <1>5
    <2>2. SubSeq(c, 1, m) \in Seq(Frame)
      BY <1>5, Prefix
    <2> QED
      BY <1>4, <2>1, <2>2
  <1>9. PCallEnds(th, a, N) = Put(D, N, o)
    <2>1. PCallEnds(th, a, N) = [th EXCEPT ![T].ci = D, ![T].nC = N, ![T].errfunc = o]
      BY <1>4, <1>6 DEF PCallEnds, OldErrfunc
    <2>2. th \in [Thread -> State] /\ T \in Thread /\ th[T] \in State
      BY Here
    <2>3. PCallEnds(th, a, N) = [th EXCEPT ![T] = [th[T] EXCEPT !.ci = D, !.nC = N, !.errfunc = o]]
      BY <2>1, <2>2
    <2> QED
      BY <2>3 DEF Put, With
  <1>10. ASSUME NEW b, b = EntryOf(T), cs[b].by # "close" PROVE HandlersAgree(D, o)
    <2>1. PICK e1 : e1 = th[T].errfunc
      OBVIOUS
    <2>2. PICK G : G = Calls(cs, T)
      OBVIOUS
    <2>3. PICK B : B = b
      OBVIOUS
    <2>4. B = EntryOf(T) /\ cs[B].by # "close"
      BY <1>10, <2>3
    <2>5. HandlersAgree(c, e1)
      BY <1>4, <2>1, <2>2, <2>4, RunningThread
    <2>6. HandlersAgree(SubSeq(c, 1, j - 1), c[j].old)
      BY <1>4, <1>5, <2>5, HandlersPCall
    <2> QED
      BY <1>4, <1>6, <2>6
  <1>11. \A b : b = EntryOf(T) => (cs[b].by # "close" => HandlersAgree(D, o))
    BY <1>10
  <1> QED
    BY <1>1, <1>2, <1>3, <1>6, <1>7, <1>9, <1>11

LEMMA ReturnedFields ==
    ASSUME Inv, NEW ci, ci = th[T].ci, Pop(ci, 1) \in Seq(Frame)
    PROVE  /\ Returned[T].ci = Pop(ci, 1)
           /\ IsCall(Last(cs)) => Returned[T].nC = Minus(th[T].nC, Last(cs).ny)
           /\ ~IsCall(Last(cs)) => Returned[T].nC = th[T].nC
  <1>1. th \in [Thread -> State] /\ T \in Thread /\ th[T] \in State
    BY Here
  <1> QED
    BY <1>1 DEF Returned, e, IsCall, State

LEMMA ReturnToPCallKeeps ==
    ASSUME Inv, ReturnToPCall
    PROVE  Kept
  <1>1. PICK b : b = EntryOf(T)
    OBVIOUS
  <1>2. PICK ci : ci = th[T].ci
    OBVIOUS
  <1>3. PICK G : G = Calls(cs, T)
    OBVIOUS
  <1>4. PICK x : x = Last(cs)
    OBVIOUS
  <1>5. PICK l \in Nat : l = Len(cs) /\ l > 1
    BY Here
  <1>6. PICK m : m = Len(ci) - 2
    OBVIOUS
  <1>7. FreshReturn /\ mode = "run" /\ IsCall(x) /\ x.by = "pcall" /\ mode' = "run"
    BY <1>4 DEF ReturnToPCall, FreshReturn, IsCall, e
  <1>8. x.by \in {"call", "pcall"}
    BY <1>7
  <1>9. /\ ci \in Seq(Frame) /\ Len(ci) \in Nat /\ DOMAIN G \in SUBSET (1..Len(cs))
        /\ G \in [DOMAIN G -> CallEntry] /\ DOMAIN G = {i \in 1..Len(cs) : cs[i].th = T /\ IsCall(cs[i])}
    BY <1>1, <1>2, <1>3, <1>7, RunningThread
  <1>10. /\ m \in 0..Len(ci) /\ m + 1 \in DOMAIN ci /\ m < Len(ci) /\ ~IsLua(ci[m + 1])
         /\ IsPCall(ci[m + 1])
         /\ \A i \in DOMAIN G : i < l => G[i].k <= m
         /\ \A i \in DOMAIN G : ~(i < l) => i = l /\ G[i].k > m
         /\ Len(ci) > 1
    BY <1>2, <1>3, <1>4, <1>5, <1>6, <1>7, <1>8, CalledFromC
  <1>11. /\ Counted(cs[b].nC, cs, T, l - 1) = Minus(th[T].nC, x.ny) /\ x \in CallEntry
         /\ b \in 1..l - 1
    BY <1>1, <1>4, <1>5, <1>7, CountTop
  <1>12. x.ny \in {0, 1}
    BY <1>11 DEF CallEntry
  \* Where the C stack goes back to, and with which count.
  <1>13. PICK q : q = IF x.ny = 0 THEN 1 ELSE 2
    OBVIOUS
  <1>14. PICK nC : nC = IF x.ny = 0 THEN Returned[T].nC ELSE cs[l - 1].nC
    OBVIOUS
  <1>15. PICK n \in b..Len(cs) :
            /\ n = l - q /\ nC = Counted(cs[b].nC, cs, T, n)
            /\ IsProtect(cs[n]) => cs[n].by = "unroll"
            /\ \A i \in DOMAIN G : i <= n <=> i < l
    <2>1. \A i \in DOMAIN G : i \in 1..l
      BY <1>5, <1>9
    <2>2. CASE x.ny = 0
      <3>1. Needs(x) = {}
        BY <1>7, <2>2 DEF Needs, IsCall
      <3>2. PICK n \in b..Len(cs) : n = l - 1
        BY <1>5, <1>11
      <3>3. IsProtect(cs[n]) => cs[n].by = "unroll"
        BY <1>4, <1>5, <1>7, <3>1, <3>2, BelowCall
      <3>4. \A i \in DOMAIN G : i <= n <=> i < l
        BY <2>1, <3>2
      <3>5. nC = Minus(th[T].nC, x.ny)
        <4>1. Pop(ci, 1) \in Seq(Frame)
          BY <1>9, <1>10, PopPop
        <4> QED
          BY <1>2, <1>4, <1>7, <1>14, <2>2, <4>1, ReturnedFields
      <3>6. n = l - q
        BY <1>13, <2>2, <3>2
      <3>7. nC = Counted(cs[b].nC, cs, T, n)
        BY <1>11, <3>2, <3>5
      <3> QED
        BY <3>3, <3>4, <3>6, <3>7
    <2>3. CASE x.ny = 1
      <3>1. Needs(x) = {"pcall"}
        BY <1>7, <2>3 DEF Needs, IsCall
      <3>2. /\ Stack(cs) /\ DOMAIN cs = 1..l /\ x = cs[l] /\ cs[l].th = T
        <4>1. x = cs[Len(cs)]
          BY <1>4, Here, IsSeq
        <4> QED
          BY <1>5, <4>1, Here
      <3>3. l \in DOMAIN cs /\ l - 1 \in DOMAIN cs
        BY <1>5, <3>2
      <3>4. IsProtect(cs[l - 1]) /\ cs[l - 1].by = "pcall"
        BY <3>1, <3>2, <3>3 DEF Stack, Protection
      <3>5. Protected(cs[l - 1], cs[(l - 1) + 1])
        BY <3>2, <3>3, <3>4 DEF Stack, Protection
      <3>6. cs[l - 1].th = T
        <4>1. (l - 1) + 1 = l
          BY <1>5
        <4>2. cs[l].th = cs[l - 1].th
          BY <3>5, <4>1 DEF Protected
        <4> QED
          BY <3>2, <4>2
      <3>7. PICK j \in DOMAIN cs : j = l - 1
        BY <3>3
      <3>8. /\ Counted(cs[b].nC, cs, T, j - 1) = cs[j].nC /\ j - 1 \in b..Len(cs)
            /\ IsProtect(cs[j - 1]) => cs[j - 1].by = "unroll"
        BY <1>1, <3>4, <3>6, <3>7, CountProtect
      <3>9. PICK n \in b..Len(cs) : n = j - 1 /\ n = l - 2
        BY <1>5, <3>7, <3>8
      <3>10. n = l - q
        BY <1>13, <2>3, <3>9
      <3>11. nC = Counted(cs[b].nC, cs, T, n)
        BY <1>14, <2>3, <3>7, <3>8, <3>9
      <3>12. \A i \in DOMAIN G : i # j
        BY <1>9, <3>4, <3>7 DEF IsProtect, IsCall
      <3>13. \A i \in DOMAIN G : i <= n <=> i < l
        <4> TAKE i \in DOMAIN G
        <4>1. i \in 1..l /\ i # j
          BY <2>1, <3>12
        <4> QED
          BY <3>7, <3>9, <4>1
      <3>14. IsProtect(cs[n]) => cs[n].by = "unroll"
        BY <3>8, <3>9
      <3> QED
        BY <3>10, <3>11, <3>13, <3>14
    <2> QED
      BY <1>12, <2>2, <2>3
  <1>16. \A i \in DOMAIN G : i <= n => G[i].k <= m
    BY <1>10, <1>15
  <1>17. \A i \in DOMAIN G : ~(i <= n) => G[i].k >= m /\ (OnStack(G[i]) => G[i].k > m)
    <2> TAKE i \in DOMAIN G
    <2>1. G[i].k \in Nat
      BY <1>9 DEF CallEntry
    <2>2. ~(i <= n) => G[i].k > m
      BY <1>10, <1>15
    <2> QED
      BY <1>10, <2>1, <2>2
  <1>18. PICK d : d = SubSeq(ci, 1, m)
    OBVIOUS
  <1>19. /\ Pop(ci, 1) \in Seq(Frame) /\ Pop(Pop(ci, 1), 1) = d /\ Last(Pop(ci, 1)) = ci[m + 1]
    BY <1>6, <1>9, <1>10, <1>18, PopPop
  <1>20. PICK a \in Seq(Frame) : a = Pop(ci, 1)
    BY <1>19
  <1>21. PICK j \in DOMAIN ci : j = m + 1 /\ m = j - 1
    BY <1>10
  <1>22. nC \in Counter
    BY <1>1, <1>15, CountedType
  <1>23. PICK o : o = ci[j].old
    OBVIOUS
  <1>24. /\ PCallEnds(th, a, nC) = Put(d, nC, ci[j].old)
         /\ ci[j].old \in BOOLEAN
         /\ \A B : B = EntryOf(T) => (cs[B].by # "close" => HandlersAgree(d, ci[j].old))
    <2>1. IsPCall(ci[j]) /\ Last(a) = ci[j] /\ d = Pop(a, 1) /\ d = SubSeq(ci, 1, j - 1)
      BY <1>10, <1>18, <1>19, <1>20, <1>21
    <2> QED
      BY <1>2, <1>22, <2>1, PCallEndsFields
  <1>25. th' = Put(d, nC, o) /\ cs' = SubSeq(cs, 1, n)
    <2>1. cs' = SubSeq(cs, 1, n)
      BY <1>4, <1>5, <1>13, <1>15 DEF ReturnToPCall, Pop, e
    <2>2. Returned[T].ci = a
      BY <1>2, <1>19, <1>20, ReturnedFields
    <2>3. th' = PCallEnds(th, Returned[T].ci, nC)
      BY <1>4, <1>5, <1>14 DEF ReturnToPCall, e
    <2> QED
      BY <1>23, <1>24, <2>1, <2>2, <2>3
  <1>26. o \in BOOLEAN /\ (cs[b].by # "close" => HandlersAgree(d, o))
    BY <1>1, <1>23, <1>24
  <1>27. mode' \in {"run", "error", "throw"} /\ m < Len(ci) /\ ~IsLua(ci[m + 1])
    BY <1>7, <1>10
  <1>28. IsProtect(cs[n]) => cs[n].by = "unroll"
    BY <1>15
  <1>29. nC = Counted(cs[b].nC, cs, T, n)
    BY <1>15
  <1> QED
    BY <1>1, <1>2, <1>3, <1>10, <1>16, <1>17, <1>18, <1>25, <1>26, <1>27, <1>28, <1>29, StepBack

\* A function returns on a C stack that has lost its caller, a pcall.
LEMMA ReturnToUnrollKeeps ==
    ASSUME Inv, ReturnToUnroll
    PROVE  Kept
  <1>1. PICK b : b = EntryOf(T)
    OBVIOUS
  <1>2. PICK ci : ci = th[T].ci
    OBVIOUS
  <1>3. PICK G : G = Calls(cs, T)
    OBVIOUS
  <1>4. PICK x : x = Last(cs)
    OBVIOUS
  <1>5. PICK l \in Nat : l = Len(cs) /\ l > 1
    BY Here
  <1>6. PICK nC : nC = th[T].nC
    OBVIOUS
  <1>7. /\ FreshReturn /\ mode = "run" /\ ~IsCall(x) /\ mode' = "run" /\ Len(ci) > 1
        /\ Last(ci).fresh /\ cs' = cs /\ th' = PCallEnds(th, Returned[T].ci, nC)
    BY <1>2, <1>4, <1>6 DEF ReturnToUnroll, FreshReturn, IsCall, e, Top
  <1>8. DOMAIN G = {}
    BY <1>3, <1>4, <1>7, UnrollTop
  <1>9. /\ ci \in Seq(Frame) /\ Len(ci) \in Nat /\ DOMAIN ci = 1..Len(ci)
        /\ \A j \in DOMAIN ci : ci[j] \in Frame
        /\ nC \in Counter /\ Agree(ci, G) /\ CountsAgree(T, nC, cs)
        /\ Last(ci) = ci[Len(ci)] /\ IsLua(Last(ci))
    BY <1>1, <1>2, <1>3, <1>6, <1>7, RunningThread
  <1>10. PICK j \in DOMAIN ci : j = Len(ci) - 1 /\ Len(ci) \in DOMAIN ci /\ j \in Nat
    BY <1>7, <1>9
  <1>11. IsYPCall(ci[j])
    <2>1. ci[Len(ci)] = Fresh
      BY <1>7, <1>9, <1>10, FrameKinds
    <2>2. FreshCalled(ci, G)
      BY <1>9 DEF Agree
    <2> QED
      BY <1>7, <1>8, <1>10, <2>1, <2>2 DEF FreshCalled
  <1>12. IsPCall(ci[j]) /\ ~IsLua(ci[j])
    BY <1>9, <1>11, FrameKinds
  <1>13. PICK m \in 0..Len(ci) : m = j - 1 /\ m = Len(ci) - 2 /\ m + 1 = j /\ m < Len(ci)
    <2>1. PICK L \in Nat : L = Len(ci)
      BY <1>9
    <2>2. j \in 1..L /\ j = L - 1
      BY <1>9, <1>10, <2>1
    <2>3. j - 1 \in 0..L /\ j - 1 = L - 2 /\ (j - 1) + 1 = j /\ j - 1 < L
      BY <2>2
    <2> QED
      BY <2>1, <2>3
  <1>14. PICK d : d = SubSeq(ci, 1, m)
    OBVIOUS
  <1>15. /\ Pop(ci, 1) \in Seq(Frame) /\ Pop(Pop(ci, 1), 1) = d /\ Last(Pop(ci, 1)) = ci[j]
    BY <1>7, <1>9, <1>10, <1>13, <1>14, PopPop
  <1>16. PICK a \in Seq(Frame) : a = Pop(ci, 1)
    BY <1>15
  <1>17. PICK o : o = ci[j].old
    OBVIOUS
  <1>18. /\ PCallEnds(th, a, nC) = Put(d, nC, ci[j].old)
         /\ ci[j].old \in BOOLEAN
         /\ \A B : B = EntryOf(T) => (cs[B].by # "close" => HandlersAgree(d, ci[j].old))
    <2>1. Last(a) = ci[j] /\ d = Pop(a, 1) /\ d = SubSeq(ci, 1, j - 1)
      BY <1>13, <1>14, <1>15, <1>16
    <2> QED
      BY <1>2, <1>9, <1>12, <2>1, PCallEndsFields
  <1>19. /\ Stack(cs) /\ cs \in Seq(Entry) /\ DOMAIN cs = 1..l /\ b \in 1..l /\ Base(cs, b, T)
         /\ x = cs[l]
    <2>1. x = cs[Len(cs)]
      BY <1>4, Here, IsSeq
    <2> QED
      BY <1>1, <1>5, <2>1, Here, BaseHere
  <1>20. PICK n \in b..Len(cs) : n = l
    BY <1>5, <1>19
  <1>21. IsProtect(cs[n]) => cs[n].by = "unroll"
    <2>1. l \in DOMAIN cs /\ l + 1 \notin DOMAIN cs
      BY <1>5, <1>19
    <2>2. IsProtect(cs[l]) => cs[l].by = "unroll"
      BY <1>19, <2>1 DEF Stack, Protection
    <2> QED
      BY <1>20, <2>2
  <1>22. nC = Counted(cs[b].nC, cs, T, n)
    <2>1. b \in DOMAIN cs
      BY <1>19
    <2> QED
      BY <1>5, <1>9, <1>19, <1>20, <2>1 DEF CountsAgree
  <1>23. th' = Put(d, nC, o) /\ cs' = SubSeq(cs, 1, n)
    <2>1. Returned[T].ci = a
      BY <1>2, <1>15, <1>16, ReturnedFields
    <2>2. SubSeq(cs, 1, n) = cs
      <3>1. n \in 0..Len(cs) /\ n = Len(cs)
        BY <1>5, <1>20
      <3>2. PICK v : v = SubSeq(cs, 1, n)
        OBVIOUS
      <3>3. v \in Seq(Entry) /\ Len(v) = Len(cs) /\ \A i \in 1..Len(cs) : v[i] = cs[i]
        BY <1>19, <3>1, <3>2, Prefix
      <3>4. v = cs
        BY <1>19, <3>3
      <3> QED
        BY <3>2, <3>4
    <2> QED
      BY <1>7, <1>17, <1>18, <2>1, <2>2
  <1>24. o \in BOOLEAN /\ (cs[b].by # "close" => HandlersAgree(d, o))
    BY <1>1, <1>17, <1>18
  <1>25. mode' \in {"run", "error", "throw"} /\ ~IsLua(ci[m + 1])
    BY <1>7, <1>12, <1>13
  <1>26. /\ \A i \in DOMAIN G : i <= n => G[i].k <= m
         /\ \A i \in DOMAIN G : ~(i <= n) => G[i].k >= m /\ (OnStack(G[i]) => G[i].k > m)
    BY <1>8
  <1> QED
    BY <1>1, <1>2, <1>3, <1>13, <1>14, <1>21, <1>22, <1>23, <1>24, <1>25, <1>26, StepBack

LEMMA CutPop ==
    ASSUME NEW ci \in Seq(Frame), NEW k \in DOMAIN ci
    PROVE  /\ SubSeq(ci, 1, k) \in Seq(Frame) /\ Last(SubSeq(ci, 1, k)) = ci[k]
           /\ Pop(SubSeq(ci, 1, k), 1) = SubSeq(ci, 1, k - 1)
           /\ SubSeq(ci, 1, k - 1) \in Seq(Frame)
  <1>1. Len(ci) \in Nat /\ k \in 1..Len(ci)
    BY IsSeq
  <1>2. PICK q \in 0..Len(ci) : q = k /\ q > 0
    BY <1>1
  <1>3. PICK m \in 0..q : m = q - 1 /\ m = k - 1 /\ m \in 0..Len(ci)
    BY <1>1, <1>2
  <1>4. /\ SubSeq(ci, 1, q) \in Seq(Frame) /\ Len(SubSeq(ci, 1, q)) = q
        /\ q > 0 => Last(SubSeq(ci, 1, q)) = ci[q]
    BY Prefix
  <1>5. SubSeq(ci, 1, m) \in Seq(Frame)
    BY <1>3, Prefix
  <1>6. SubSeq(SubSeq(ci, 1, q), 1, m) = SubSeq(ci, 1, m)
    BY PrefixPrefix
  <1>7. Pop(SubSeq(ci, 1, q), 1) = SubSeq(SubSeq(ci, 1, q), 1, m)
    BY <1>3, <1>4 DEF Pop
  <1> QED
    BY <1>2, <1>3, <1>4, <1>5, <1>6, <1>7

\* An error goes to the setjmp of a pcall.
LEMMA ThrowToPCallKeeps ==
    ASSUME Inv, ThrowToPCall
    PROVE  Kept
  <1>1. PICK b : b = EntryOf(T)
    OBVIOUS
  <1>2. PICK ci : ci = th[T].ci
    OBVIOUS
  <1>3. PICK G : G = Calls(cs, T)
    OBVIOUS
  <1>4. PICK l \in Nat : l = Len(cs) /\ l > 1
    BY Here
  <1>5. PICK j \in DOMAIN cs :
          /\ Throw({"pcall"}, j) /\ cs' = Below(j) /\ mode' = "run"
          /\ th' = PCallEnds(th, SubSeq(ci, 1, cs[j].k), cs[j].nC)
    BY <1>2 DEF ThrowToPCall
  <1>6. cs[j].th = T /\ IsProtect(cs[j]) /\ cs[j].by = "pcall"
    BY <1>5 DEF Throw
  <1>7. /\ Counted(cs[b].nC, cs, T, j - 1) = cs[j].nC /\ cs[j].nC \in Counter
        /\ j - 1 \in b..Len(cs) /\ (IsProtect(cs[j - 1]) => cs[j - 1].by = "unroll")
    BY <1>1, <1>6, CountProtect
  <1>8. PICK n \in b..Len(cs) : n = j - 1
    BY <1>7
  <1>9. PICK y : y = cs[j + 1]
    OBVIOUS
  <1>10. /\ Stack(cs) /\ DOMAIN cs = 1..l /\ j \in 1..l /\ j \in Nat /\ b \in Nat
    BY <1>1, <1>4, Here, BaseHere
  <1>11. j + 1 \in DOMAIN cs /\ Protected(cs[j], y)
    BY <1>6, <1>9, <1>10 DEF Stack, Protection
  <1>12. y = CCall(T, "pcall", 1, cs[j].k)
    BY <1>6, <1>11 DEF Protected
  <1>13. IsCall(y) /\ y.th = T /\ y.by = "pcall" /\ y.ny = 1 /\ y.k = cs[j].k
    BY <1>12 DEF CCall, IsCall
  <1>14. /\ ci \in Seq(Frame) /\ Len(ci) \in Nat /\ DOMAIN ci = 1..Len(ci)
         /\ G \in [DOMAIN G -> CallEntry] /\ Agree(ci, G)
         /\ DOMAIN G = {i \in 1..Len(cs) : cs[i].th = T /\ IsCall(cs[i])}
         /\ \A i \in DOMAIN G : G[i] = cs[i]
    BY <1>1, <1>2, <1>3, RunningThread
  <1>15. PICK p \in DOMAIN G : p = j + 1 /\ G[p] = y
    BY <1>4, <1>9, <1>10, <1>11, <1>13, <1>14
  <1>16. PICK k \in DOMAIN ci : k = y.k /\ k = cs[j].k /\ IsPCall(ci[k]) /\ k \in Nat
    <2>1. CallOK(ci, y) /\ y.k \in Nat
      BY <1>14, <1>15 DEF Agree, CallEntry
    <2>2. y.k > 0 /\ y.k <= Len(ci) /\ IsPCall(ci[y.k])
      BY <1>13, <2>1 DEF CallOK
    <2> QED
      BY <1>13, <1>14, <2>1, <2>2
  <1>17. PICK m \in 0..Len(ci) : m = k - 1 /\ m + 1 = k /\ m < Len(ci)
    BY <1>14, <1>16
  <1>18. Nested(G) /\ \A i \in DOMAIN G : G[i].k \in Nat /\ i \in 1..l
    BY <1>4, <1>14 DEF Agree, CallEntry
  <1>19. \A i \in DOMAIN G : i <= n => G[i].k <= m
    <2> TAKE i \in DOMAIN G
    <2>1. SUFFICES ASSUME i <= n PROVE G[i].k <= m
      OBVIOUS
    <2>2. i < p
      BY <1>8, <1>10, <1>15, <1>18, <2>1
    <2>3. G[i].k <= k /\ (G[i].k = k => y.by = "handler")
      BY <1>15, <1>16, <1>18, <2>2 DEF Nested
    <2>4. G[i].k <= k /\ G[i].k # k
      BY <1>13, <2>3
    <2> QED
      BY <1>16, <1>17, <1>18, <2>4
  <1>20. \A i \in DOMAIN G : ~(i <= n) => G[i].k >= m /\ (OnStack(G[i]) => G[i].k > m)
    <2> TAKE i \in DOMAIN G
    <2>1. SUFFICES ASSUME ~(i <= n) PROVE G[i].k > m
      BY <1>17, <1>18
    <2>2. i # j
      BY <1>6, <1>14 DEF IsProtect, IsCall
    <2>3. i = p \/ p < i
      <3>1. i \in 1..l
        BY <1>18
      <3> QED
        BY <1>8, <1>10, <1>15, <2>1, <2>2, <3>1
    <2>4. G[i].k >= k
      <3>1. p < i => G[p].k <= G[i].k
        BY <1>18 DEF Nested
      <3>2. G[p].k = k
        BY <1>15, <1>16
      <3>3. i = p => G[i].k >= k
        BY <1>16, <3>2
      <3> QED
        BY <2>3, <3>1, <3>2, <3>3
    <2> QED
      BY <1>16, <1>17, <1>18, <2>4
  <1>21. PICK d : d = SubSeq(ci, 1, m)
    OBVIOUS
  <1>22. PICK a \in Seq(Frame) : a = SubSeq(ci, 1, k) /\ Last(a) = ci[k] /\ d = Pop(a, 1)
    BY <1>14, <1>17, <1>21, CutPop
  <1>23. PICK nC \in Counter : nC = cs[j].nC
    BY <1>7
  <1>24. PICK o : o = ci[k].old
    OBVIOUS
  <1>25. /\ PCallEnds(th, a, nC) = Put(d, nC, ci[k].old)
         /\ ci[k].old \in BOOLEAN
         /\ \A B : B = EntryOf(T) => (cs[B].by # "close" => HandlersAgree(d, ci[k].old))
    <2>1. d = SubSeq(ci, 1, k - 1) /\ IsPCall(ci[k]) /\ Last(a) = ci[k] /\ d = Pop(a, 1)
      BY <1>16, <1>17, <1>21, <1>22
    <2> QED
      BY <1>2, <2>1, PCallEndsFields
  <1>26. th' = Put(d, nC, o) /\ cs' = SubSeq(cs, 1, n)
    BY <1>5, <1>8, <1>16, <1>22, <1>23, <1>24, <1>25 DEF Below
  <1>27. o \in BOOLEAN /\ (cs[b].by # "close" => HandlersAgree(d, o))
    BY <1>1, <1>24, <1>25
  <1>28. mode' \in {"run", "error", "throw"} /\ ~IsLua(ci[m + 1])
    <2>1. ~IsLua(ci[k])
      BY <1>16 DEF IsLua, IsPCall
    <2> QED
      BY <1>5, <1>17, <2>1
  <1>29. nC = Counted(cs[b].nC, cs, T, n) /\ (IsProtect(cs[n]) => cs[n].by = "unroll")
    BY <1>7, <1>8, <1>23
  <1> QED
    BY <1>1, <1>2, <1>3, <1>17, <1>19, <1>20, <1>21, <1>26, <1>27, <1>28, <1>29, StepBack

-----------------------------------------------------------------------------
(* Coroutines.                                                             *)

LEMMA AgreeNone ==
    ASSUME NEW h, DOMAIN h = {}
    PROVE  Agree(<<>>, h)
  <1>1. DOMAIN <<>> = {}
    OBVIOUS
  <1> QED
    BY <1>1 DEF Agree, CalledByLua, Nested, NoneLost, FreshCalled, NoneKept

LEMMA NoCalls ==
    ASSUME NEW s \in Seq(Entry), NEW t, ~InStack(s, t)
    PROVE  DOMAIN Calls(s, t) = {}
  <1>1. DOMAIN s = 1..Len(s)
    BY IsSeq
  <1>2. DOMAIN Calls(s, t) = {i \in 1..Len(s) : s[i].th = t /\ IsCall(s[i])}
    BY CallsType
  <1> QED
    BY <1>1, <1>2 DEF InStack

LEMMA BaseOf ==
    ASSUME Inv, NEW t \in Thread, InStack(cs, t)
    PROVE  Base(cs, EntryOf(t), t) /\ t \in Active
  <1>1. \E b \in DOMAIN cs : IsBase(cs[b]) /\ cs[b].th = t
    <2>1. PICK i \in DOMAIN cs : cs[i].th = t
      BY DEF InStack
    <2>2. Pieces(cs) /\ DOMAIN cs = 1..Len(cs) /\ Len(cs) \in Nat
      BY Here DEF Stack
    <2>3. PICK b \in 1..i : IsBase(cs[b]) /\ cs[b].th = cs[i].th
      BY <2>2 DEF Pieces
    <2>4. b \in DOMAIN cs
      BY <2>2
    <2> QED
      BY <2>1, <2>3, <2>4
  <1> QED
    BY <1>1 DEF Base, EntryOf, Active

\* A thread other than the one that runs changes, off the C stack: it is created, or
\* it is reset.
LEMMA StepOutside ==
    ASSUME Inv, mode = "run", NEW t \in Thread, ~InStack(cs, t), NEW r \in State, Local(t, r, cs),
           r.status # "none", Ready(r) <=> th[t].status = "none",
           th' = [th EXCEPT ![t] = r], cs' = cs, mode' = "run"
    PROVE  Kept
  <1>1. t # T
    BY Here DEF InStack
  <1>2. PICK h : h = [th EXCEPT ![t] = r]
    OBVIOUS
  <1>3. Consistent(h, cs)
    BY <1>2, Here, Outside
  <1>4. h[T] = th[T]
    BY <1>1, <1>2, Here
  <1>5. Running(h[Last(cs).th], cs)
    <2>1. Running(th[T], cs)
      BY DEF Inv
    <2>2. Running(h[T], cs)
      BY <1>4, <2>1
    <2> QED
      BY <2>2, Here
  <1>6. Inv'
    BY <1>2, <1>3, <1>5, After
  <1>7. t \notin Actives(cs) /\ t # main
    <2>1. t \notin Actives(cs)
      BY DEF InStack, Actives
    <2>2. Stack(cs) /\ 1 \in DOMAIN cs
      BY Here
    <2>3. main \in Actives(cs)
      BY <2>2 DEF Actives, Stack, Protect
    <2> QED
      BY <2>1, <2>3
  <1>8. th' = h /\ h[t] = r /\ \A q \in Thread \ {t} : h[q] = th[q]
    BY <1>2, Here
  <1>9. \A q \in Thread \ {t} : q \in Waiting(h, cs) <=> q \in Waiting(th, cs)
    BY <1>8 DEF Waiting
  <1>10. \A q \in Thread \ {t} : q \in Known(h) <=> q \in Known(th)
    BY <1>8 DEF Known
  <1>11. t \in Known(h) /\ (t \in Waiting(h, cs) <=> Ready(r))
    BY <1>7, <1>8 DEF Known, Waiting
  <1>12. /\ Known(h) \in SUBSET Thread /\ Known(th) \in SUBSET Thread
         /\ Waiting(h, cs) \in SUBSET Thread /\ Waiting(th, cs) \in SUBSET Thread
    BY DEF Known, Waiting
  <1>13. States!Step
    <2>1. CASE th[t].status = "none"
      <3>1. t \notin Known(th) /\ Ready(r)
        BY <2>1 DEF Known
      <3>2. Known(h) = Known(th) \cup {t} /\ Waiting(h, cs) = Waiting(th, cs) \cup {t}
        BY <1>9, <1>10, <1>11, <1>12, <3>1
      <3> QED
        BY <1>7, <1>8, <3>1, <3>2, OutsideStep
    <2>2. CASE th[t].status # "none"
      <3>1. t \in Known(th) /\ ~Ready(r)
        BY <2>2 DEF Known
      <3>2. Known(h) = Known(th) /\ Waiting(h, cs) = Waiting(th, cs) \ {t}
        BY <1>9, <1>10, <1>11, <1>12, <3>1
      <3> QED
        BY <1>7, <1>8, <3>1, <3>2, OutsideStep
    <2> QED
      BY <2>1, <2>2
  <1> QED
    BY <1>6, <1>13 DEF Kept

LEMMA CreateKeeps ==
    ASSUME Inv, NEW t \in Thread, Create(t)
    PROVE  Kept
  <1>1. mode = "run" /\ mode' = "run" /\ cs' = cs /\ th[t].status = "none"
    BY DEF Create
  <1>2. th \in [Thread -> State] /\ th[t] \in State /\ Local(t, th[t], cs) /\ cs \in Seq(Entry)
    BY Here DEF Consistent
  <1>3. ~InStack(cs, t) /\ th[t].ci = <<>> /\ ~th[t].errfunc
    BY <1>1, <1>2 DEF Local, Status
  <1>4. PICK r : r = [th[t] EXCEPT !.status = "ok", !.fn = TRUE]
    OBVIOUS
  <1>5. /\ r \in State /\ r.status = "ok" /\ r.fn = TRUE /\ r.ci = th[t].ci
        /\ r.errfunc = th[t].errfunc
    BY <1>2, <1>4 DEF State
  <1>6. Agree(r.ci, Calls(cs, t))
    BY <1>2, <1>3, <1>5, NoCalls, AgreeNone
  <1>7. Local(t, r, cs)
    BY <1>3, <1>5, <1>6, LocalInactive
  <1>8. th' = [th EXCEPT ![t] = r]
    BY <1>2, <1>4 DEF Create
  <1>9. r.status # "none" /\ Ready(r)
    BY <1>3, <1>5 DEF Ready
  <1> QED
    BY <1>1, <1>3, <1>5, <1>7, <1>8, <1>9, StepOutside

\* A coroutine that can be resumed is not on the C stack.
LEMMA Accepted ==
    ASSUME Inv, NEW t \in Thread, Accepts(t), ~Closing(t)
    PROVE  /\ ~InStack(cs, t)
           /\ \/ th[t].status = "ok" /\ th[t].ci = <<>> /\ ~th[t].errfunc
              \/ /\ th[t].status = "yield" /\ th[t].ci # <<>> /\ Last(th[t].ci) = C("yield")
                 /\ HandlersAgree(th[t].ci, th[t].errfunc) /\ Agree(th[t].ci, Calls(cs, t))
  <1>1. th[t] \in State /\ Local(t, th[t], cs) /\ cs \in Seq(Entry)
    BY Here DEF Consistent
  <1>2. Status(t, th[t], cs)
    BY <1>1 DEF Local
  <1>3. ~InStack(cs, t)
    <2>1. SUFFICES ASSUME InStack(cs, t) PROVE FALSE
      OBVIOUS
    <2>2. Base(cs, EntryOf(t), t) /\ t \in Active
      BY <2>1, BaseOf
    <2>3. cs[EntryOf(t)].by # "close"
      BY <2>2 DEF Closing
    <2>4. th[t].status = "ok"
      BY <1>2, <2>2, <2>3 DEF Status, Base
    <2>5. th[t].fn
      BY <2>4 DEF Accepts
    <2> QED
      BY <1>2, <2>1, <2>5 DEF Status
  <1>4. CASE th[t].status = "yield"
    BY <1>1, <1>2, <1>3, <1>4 DEF Status, Local
  <1>5. CASE th[t].status # "yield"
    BY <1>2, <1>3, <1>5 DEF Status, Accepts
  <1> QED
    BY <1>3, <1>4, <1>5

\* The C stack with the piece of a thread that begins: p, and what it protects, y.
LEMMA BeginPiece ==
    ASSUME NEW s \in Seq(Entry), NEW p, NEW y, Begins(p, y, s)
    PROVE  /\ Over(s, p, y) \in Seq(Entry) /\ Len(s) \in Nat
           /\ Base(Over(s, p, y), Len(s) + 1, p.th) /\ Over(s, p, y)[Len(s) + 1] = p
           /\ CountsAgree(p.th, Begun(p, y), Over(s, p, y)) /\ Begun(p, y) \in Counter
           /\ IsCall(y) => /\ DOMAIN Calls(Over(s, p, y), p.th) = {Len(s) + 2}
                           /\ Calls(Over(s, p, y), p.th)[Len(s) + 2] = y
           /\ ~IsCall(y) => Calls(Over(s, p, y), p.th) = Calls(s, p.th)
           /\ Last(Over(s, p, y)).th = p.th
  <1>1. /\ p \in Entry /\ y \in Entry /\ IsBase(p) /\ ~InStack(s, p.th)
        /\ ~IsProtect(y) /\ y.th = p.th
    BY DEF Begins, Protected, IsBase
  <1> USE <1>1
  <1>2. PICK t : t = p.th
    OBVIOUS
  <1>3. PICK V : V = Over(s, p, y)
    OBVIOUS
  <1>4. PICK q : q = Append(s, p)
    OBVIOUS
  <1>5. PICK l \in Nat : l = Len(s)
    BY IsSeq
  <1>6. /\ q \in Seq(Entry) /\ Len(q) = l + 1 /\ q[l + 1] = p /\ DOMAIN q = 1..l + 1
    BY <1>4, <1>5, Appended
  <1>7. V = Append(q, y)
    BY <1>3, <1>4 DEF Over
  <1>8. /\ V \in Seq(Entry) /\ DOMAIN V = 1..(l + 1) + 1 /\ Last(V) = y /\ V[l + 1] = p
    <2>1. /\ V \in Seq(Entry) /\ DOMAIN V = 1..Len(q) + 1 /\ Last(V) = y
          /\ \A i \in 1..Len(q) : V[i] = q[i]
      BY <1>6, <1>7, Appended
    <2>2. l + 1 \in 1..Len(q)
      BY <1>6
    <2> QED
      BY <1>6, <2>1, <2>2
  <1>9. Base(V, l + 1, t)
    BY <1>2, <1>8 DEF Base
  <1>10. p.nC \in Counter /\ IsProtect(p)
    BY Entries DEF IsBase, ProtectEntry
  <1>11. CountsAgree(t, p.nC, q)
    BY <1>2, <1>4, CountsBegin
  <1>12. IsCall(y) => y \in CallEntry /\ y.ny \in {0, 1}
    BY Entries DEF CallEntry
  <1>13. PICK N : N = Begun(p, y)
    OBVIOUS
  <1>14. /\ N = [c |-> p.nC.c + 1, ny |-> IF IsCall(y) /\ y.ny = 1 THEN p.nC.ny + 1 ELSE p.nC.ny]
         /\ N \in Counter
    <2>1. N = Plus(p.nC, IF IsCall(y) THEN y.ny ELSE 0)
      BY <1>13 DEF Begun
    <2>2. CASE IsCall(y) /\ y.ny = 1
      BY <1>10, <2>1, <2>2, Counters
    <2>3. CASE ~(IsCall(y) /\ y.ny = 1)
      <3>1. (IF IsCall(y) THEN y.ny ELSE 0) = 0
        BY <1>12, <2>3
      <3>2. N = Plus(p.nC, 0)
        BY <2>1, <3>1
      <3> QED
        BY <1>10, <2>3, <3>2, Counters
    <2> QED
      BY <2>2, <2>3
  <1>15. CountsAgree(t, N, V)
    <2>1. ~IsBase(y) /\ CountsAgree(y.th, p.nC, q)
      BY <1>2, <1>11 DEF IsBase
    <2>2. CountsAgree(y.th, N, Append(q, y))
      BY <1>6, <1>10, <1>14, <2>1, CountsPush
    <2> QED
      BY <1>2, <1>7, <2>2
  <1>16. Calls(q, t) = Calls(s, t) /\ DOMAIN Calls(s, t) = {}
    <2>1. ~IsCall(p)
      BY <1>10 DEF IsProtect, IsCall
    <2> QED
      BY <1>2, <1>4, <2>1, CallsPush, NoCalls
  <1>17. PICK h : h = Calls(V, t)
    OBVIOUS
  <1>18. h \in [DOMAIN h -> CallEntry] /\ DOMAIN h \in SUBSET Nat
    BY <1>8, <1>17, CallsType
  <1>19. ASSUME IsCall(y) PROVE DOMAIN h = {l + 2} /\ h[l + 2] = y
    <2>1. h = More(Calls(q, t), Len(q) + 1, y)
      BY <1>2, <1>6, <1>7, <1>17, <1>19, CallsPush
    <2>2. Len(q) + 1 = l + 2
      BY <1>6
    <2>3. h = [i \in DOMAIN Calls(q, t) \cup {l + 2} |-> IF i = l + 2 THEN y ELSE Calls(q, t)[i]]
      BY <2>1, <2>2 DEF More
    <2>4. DOMAIN Calls(q, t) \cup {l + 2} = {l + 2}
      BY <1>16
    <2> QED
      BY <2>3, <2>4
  <1>20. ASSUME ~IsCall(y) PROVE h = Calls(s, t)
    BY <1>6, <1>7, <1>16, <1>17, <1>20, CallsPush
  <1> QED
    BY <1>2, <1>3, <1>5, <1>8, <1>9, <1>13, <1>14, <1>15, <1>17, <1>18, <1>19, <1>20

\* A body, or a closing method, begins: the list is empty, or has its first function.
LEMMA BeginCall ==
    ASSUME NEW n \in Nat, NEW h, DOMAIN h = {n}, NEW x \in CallEntry, h[n] = x,
           x = CCall(x.th, "main", 1, 0) \/ x = CCall(x.th, "body", 0, 0)
             \/ x = CCall(x.th, "close", 1, 0),
           NEW ci \in {<<>>, <<Fresh>>}
    PROVE  /\ ci \in Seq(Frame) /\ Agree(ci, h) /\ HandlersAgree(ci, FALSE)
           /\ ci = <<Fresh>> => ci # <<>> /\ IsLua(Last(ci)) /\ Entered(ci, h)
  <1>1. Agree(<<>>, h) /\ HandlersAgree(<<>>, FALSE)
    BY AgreeBegin, HandlersBegin
  <1>2. PICK c : c = <<>>
    OBVIOUS
  <1>3. c = <<>> /\ c \in Seq(Frame)
    BY <1>2
  <1>4. c \in Seq(Frame)
    BY <1>3
  <1>5. Fresh \in Frame /\ ~IsPCall(Fresh) /\ IsLua(Fresh)
    BY LuaFrames
  <1>6. PICK d : d = Append(c, Fresh)
    OBVIOUS
  <1>7. d \in Seq(Frame) /\ d # <<>> /\ Last(d) = Fresh
    BY <1>5, <1>6, <1>4, Appended
  <1>8. HandlersAgree(d, FALSE)
    <2>1. HandlersAgree(c, FALSE)
      BY <1>1, <1>3
    <2> QED
      BY <1>5, <1>6, <1>4, <2>1, HandlersPush
  <1>9. Agree(d, h) /\ Entered(d, h)
    <2>1. PICK g : g = [i \in {n} |-> x]
      OBVIOUS
    <2>3. g \in [{n} -> CallEntry] /\ DOMAIN g = {n} /\ g[n] = x /\ {n} \in SUBSET Nat /\ n \in {n}
      BY <2>1
    <2>2. Agree(c, g)
      BY <1>3, <2>3, AgreeBegin
    <2>4. g[n].k = Len(c)
      BY <1>3, <2>3 DEF CCall
    <2>5. Agree(d, g) /\ Entered(d, g)
      BY <1>3, <1>6, <2>2, <2>3, <2>4, AgreeCallee
    <2>6. DOMAIN h = DOMAIN g /\ \A i \in DOMAIN h : h[i] = g[i]
      BY <2>3
    <2>7. Entered(d, h)
      BY <2>5, <2>6 DEF Entered
    <2>8. Agree(d, h)
      BY <2>5, <2>6 DEF Agree, Nested, NoneLost, FreshCalled, NoneKept
    <2> QED
      BY <2>7, <2>8
  <1>10. d = <<Fresh>>
    BY <1>3, <1>6
  <1> QED
    BY <1>1, <1>3, <1>5, <1>7, <1>8, <1>9, <1>10

\* The lua_State of a thread whose piece begins.
LEMMA BeginLocal ==
    ASSUME NEW s, Stack(s), NEW p, NEW y, Begins(p, y, s),
           NEW q \in State, q.status # "none", ~q.fn, NEW c \in Seq(Frame), Agree(c, Calls(Over(s, p, y), p.th)),
           p.by # "close" => q.status = "ok" /\ HandlersAgree(c, q.errfunc)
    PROVE  /\ With(q, c, Begun(p, y), q.errfunc) \in State
           /\ Local(p.th, With(q, c, Begun(p, y), q.errfunc), Over(s, p, y))
           /\ With(q, c, Begun(p, y), q.errfunc).ci = c
  <1>1. PICK U : U = p.th
    OBVIOUS
  <1>2. PICK V : V = Over(s, p, y)
    OBVIOUS
  <1>3. PICK N : N = Begun(p, y)
    OBVIOUS
  <1>4. PICK R : R = With(q, c, Begun(p, y), q.errfunc)
    OBVIOUS
  <1>5. /\ IsBase(p) /\ y.th = p.th /\ IsProtect(p) /\ p \in Entry /\ y \in Entry
        /\ p.by \in {"resume", "close", "pcall"} /\ Protected(p, y) /\ ~IsProtect(y)
        /\ Needs(y) \in {{}, {p.by}} /\ ~InStack(s, p.th)
    BY DEF Begins, IsBase, Protected
  <1>6. s \in Seq(Entry)
    BY DEF Stack
  <1>7. /\ Base(V, Len(s) + 1, U) /\ V[Len(s) + 1] = p
        /\ CountsAgree(U, N, V) /\ N \in Counter
    <2>1. U = p.th
      BY <1>1
    <2>2. V = Over(s, p, y) /\ N = Begun(p, y)
      BY <1>2, <1>3
    <2>3. /\ Base(V, Len(s) + 1, p.th) /\ V[Len(s) + 1] = p
          /\ CountsAgree(p.th, N, V) /\ N \in Counter
      BY <1>6, <2>2, BeginPiece
    <2> QED
      BY <2>1, <2>3
  <1>8. Stack(V)
    <2>1. Stack(Append(Append(s, p), y))
      BY <1>5, StackProtect
    <2> QED
      BY <1>2, <2>1 DEF Over
  <1>9. /\ R \in State /\ R.ci = c /\ R.nC = N /\ R.status = q.status /\ R.fn = q.fn
        /\ R.errfunc = q.errfunc
    <2>1. PICK e1 \in BOOLEAN : e1 = q.errfunc
      BY StateFields
    <2>2. R = With(q, c, N, e1)
      BY <1>3, <1>4, <2>1
    <2> QED
      BY <1>7, <2>1, <2>2, WithFields
  <1>10. Agree(R.ci, Calls(V, U)) /\ CountsAgree(U, R.nC, V) /\ R.status # "none" /\ ~R.fn
    BY <1>1, <1>2, <1>7, <1>9
  <1>11. PICK b : b = Len(s) + 1
    OBVIOUS
  <1>12. Base(V, b, U) /\ V[b] = p
    BY <1>7, <1>11
  <1>13. V[b].by # "close" => R.status = "ok" /\ HandlersAgree(R.ci, R.errfunc)
    BY <1>9, <1>12
  <1>14. Local(U, R, V)
    BY <1>8, <1>9, <1>10, <1>12, <1>13, LocalActive
  <1> QED
    BY <1>1, <1>2, <1>3, <1>4, <1>9, <1>14

LEMMA EnterHere ==
    ASSUME Inv, mode = "run", NEW k \in {"resume", "wrap", "close"},
           NEW p, NEW y, Begins(p, y, cs), Goes(k, p, th[T]),
           NEW r \in State, Local(p.th, r, Over(cs, p, y))
    PROVE  /\ Consistent([th EXCEPT ![T] = Waits(th[T], k), ![p.th] = r], Over(cs, p, y))
           /\ Last(Over(cs, p, y)).th = p.th
  <1>1. PICK t : t = T
    OBVIOUS
  <1>2. Consistent(th, cs) /\ t = Last(cs).th
    BY <1>1, Here
  <1>3. Running(th[t], cs) /\ Goes(k, p, th[t])
    BY <1>1 DEF Inv
  <1>4. /\ Consistent([th EXCEPT ![t] = Waits(th[t], k), ![p.th] = r], Over(cs, p, y))
        /\ Last(Over(cs, p, y)).th = p.th
    BY <1>2, <1>3, Enter
  <1> QED
    BY <1>1, <1>4

LEMMA EnterState ==
    ASSUME Inv, NEW p, NEW y, Begins(p, y, cs), NEW v, v = Over(cs, p, y),
           NEW h, Consistent(h, v), Last(v).th = p.th, \A q \in Thread \ {T, p.th} : h[q] = th[q],
           th[p.th].status # "none", p.by # "close" => Ready(th[p.th]), th' = h, cs' = v
    PROVE  States!Step
  <1>1. PICK c : c = p.th
    OBVIOUS
  <1>2. Stack(cs) /\ Stack(v) /\ T = Last(cs).th /\ Consistent(th, cs)
    BY Here DEF Consistent
  <1>3. /\ c \in Thread /\ c \notin Actives(cs) /\ c # main /\ T \in Actives(cs)
        /\ Actives(v) = Actives(cs) \cup {c}
        /\ Resumers(v) = [r \in DOMAIN Resumers(cs) \cup {c} |->
                            IF r = c THEN T ELSE Resumers(cs)[r]]
        /\ Closers(v) = IF p.by = "close" THEN Closers(cs) \cup {c} ELSE Closers(cs)
    <2>1. Stack(Over(cs, p, y)) /\ Begins(p, y, cs)
      BY <1>2
    <2>2. /\ p.th \in Thread /\ p.th \notin Actives(cs) /\ p.th # main /\ Last(cs).th \in Actives(cs)
          /\ Actives(Over(cs, p, y)) = Actives(cs) \cup {p.th}
          /\ Resumers(Over(cs, p, y)) = [r \in DOMAIN Resumers(cs) \cup {p.th} |->
                              IF r = p.th THEN Last(cs).th ELSE Resumers(cs)[r]]
          /\ Closers(Over(cs, p, y)) = IF p.by = "close" THEN Closers(cs) \cup {p.th} ELSE Closers(cs)
      BY ONLY <1>2, <2>1, MapOver
    <2> QED
      BY <1>1, <1>2, <2>2
  <1>4. T \in Thread /\ \A q \in {T, c} : h[q].status # "none" /\ th[q].status # "none"
    <2>1. h[T].status # "none" /\ th[T].status # "none" /\ T \in Thread
      BY <1>2, <1>3, ActiveKnown
    <2>2. h[c].status # "none"
      BY <1>3, ActiveKnown
    <2> QED
      BY <1>1, <2>1, <2>2
  <1>5. Known(h) = Known(th) /\ \A q \in Thread \ {T, c} : Ready(h[q]) <=> Ready(th[q])
    <2>1. {T, c} \in SUBSET Thread /\ \A q \in Thread \ {T, c} : h[q] = th[q]
      BY <1>1, <1>3, <1>4
    <2> QED
      BY <1>4, <2>1, OthersSame
  <1>6. Waiting(h, v) = Waiting(th, cs) \ {c}
    BY <1>3, <1>5 DEF Waiting
  <1>7. c \in Known(th) /\ (p.by # "close" => c \in Waiting(th, cs))
    BY <1>1, <1>3 DEF Known, Waiting
  <1>8. \/ Closers(v) = Closers(cs) \cup {c}
        \/ c \in Waiting(th, cs) /\ Closers(v) = Closers(cs)
    BY <1>3, <1>7
  <1>9. Resumers(v) = [r \in DOMAIN Resumers(cs) \cup {c} |->
                         IF r = c THEN Last(cs).th ELSE Resumers(cs)[r]]
    BY <1>2, <1>3
  <1> QED
    BY <1>1, <1>3, <1>5, <1>6, <1>7, <1>8, <1>9, EnterStep

\* A coroutine is resumed, or closed, by the running thread.
LEMMA StepEnter ==
    ASSUME Inv, mode = "run", NEW k \in {"resume", "wrap", "close"},
           NEW p, NEW y, Begins(p, y, cs), Goes(k, p, th[T]),
           th[p.th].status # "none", p.by # "close" => Ready(th[p.th]),
           NEW r \in State, Local(p.th, r, Over(cs, p, y)),
           cs' = Over(cs, p, y),
           th' = [th EXCEPT ![T] = [th[T] EXCEPT !.ci = Append(th[T].ci, C(k))], ![p.th] = r],
           mode' \in {"run", "error", "throw"},
           mode' = "run" => Running(r, Over(cs, p, y))
    PROVE  Kept
  <1>1. PICK v : v = Over(cs, p, y)
    OBVIOUS
  <1>2. PICK u : u = p.th
    OBVIOUS
  <1>3. PICK t : t = T
    OBVIOUS
  <1>4. PICK w : /\ w = Waits(th[t], k)
                 /\ w = With(th[t], Append(th[t].ci, C(k)), th[t].nC, th[t].errfunc)
    BY DEF Waits
  <1>5. th[t] \in State /\ th \in [Thread -> State]
    BY <1>3, Here
  <1>6. PICK h : h = [th EXCEPT ![t] = w, ![u] = r]
    OBVIOUS
  <1>7. Consistent(h, v) /\ Last(v).th = u
    <2>1. /\ Consistent([th EXCEPT ![T] = Waits(th[T], k), ![p.th] = r], Over(cs, p, y))
          /\ Last(Over(cs, p, y)).th = p.th
      BY EnterHere
    <2> QED
      BY <1>1, <1>2, <1>3, <1>4, <1>6, <2>1
  <1>8. u \in Thread
    BY <1>2, Entries DEF Begins
  <1>9. h[Last(v).th] = r
    BY <1>5, <1>6, <1>7, <1>8
  <1>10. mode' = "run" => Running(h[Last(v).th], v)
    BY <1>1, <1>9
  <1>11. [th[t] EXCEPT !.ci = Append(th[t].ci, C(k))] = w
    <2>1. PICK d : d = Append(th[t].ci, C(k))
      OBVIOUS
    <2>2. d \in Seq(Frame)
      BY <1>5, <2>1, StateFields, CFrames, Appended
    <2>3. /\ th[t].nC \in Counter /\ th[t].errfunc \in BOOLEAN
      BY <1>5, StateFields
    <2>4. [th[t] EXCEPT !.ci = d] = With(th[t], d, th[t].nC, th[t].errfunc)
      BY <1>5, <2>2, <2>3, WithParts
    <2> QED
      BY <1>4, <2>1, <2>4
  <1>12. th' = h /\ cs' = v
    BY <1>1, <1>2, <1>3, <1>6, <1>11
  <1>13. Inv'
    BY <1>7, <1>10, <1>12, After
  <1>14. States!Step
    <2>1. \A q \in Thread \ {T, u} : h[q] = th[q]
      BY <1>3, <1>5, <1>6
    <2> QED
      BY <1>1, <1>2, <1>7, <1>12, <2>1, EnterState
  <1> QED
    BY <1>13, <1>14 DEF Kept

ResumeProtect(t) == Protect(t, "resume", CountFrom(t), 0)
ResumeEntry(t) == IF th[t].status = "ok" THEN CCall(t, "body", 0, 0) ELSE [th |-> t, what |-> "resumed"]
ResumeList(t, to) == IF to # "run" THEN th[t].ci
                     ELSE IF th[t].status = "ok" THEN <<Fresh>> ELSE Pop(th[t].ci, 1)

LEMMA BeginHere ==
    ASSUME Inv, NEW p, NEW y, Begins(p, y, cs)
    PROVE  /\ Over(cs, p, y) \in Seq(Entry) /\ p \in Entry /\ y \in Entry
           /\ CountsAgree(p.th, Begun(p, y), Over(cs, p, y)) /\ Begun(p, y) \in Counter
           /\ IsCall(y) => /\ DOMAIN Calls(Over(cs, p, y), p.th) = {Len(cs) + 2}
                           /\ Calls(Over(cs, p, y), p.th)[Len(cs) + 2] = y
           /\ ~IsCall(y) => Calls(Over(cs, p, y), p.th) = Calls(cs, p.th)
           /\ Last(Over(cs, p, y)).th = p.th
           /\ cs \o <<p, y>> = Over(cs, p, y)
  <1>1. PICK s \in Seq(Entry) : s = cs
    BY Here
  <1>2. Begins(p, y, s)
    BY <1>1
  <1>3. /\ Over(s, p, y) \in Seq(Entry)
        /\ CountsAgree(p.th, Begun(p, y), Over(s, p, y)) /\ Begun(p, y) \in Counter
        /\ IsCall(y) => /\ DOMAIN Calls(Over(s, p, y), p.th) = {Len(s) + 2}
                        /\ Calls(Over(s, p, y), p.th)[Len(s) + 2] = y
        /\ ~IsCall(y) => Calls(Over(s, p, y), p.th) = Calls(s, p.th)
        /\ Last(Over(s, p, y)).th = p.th
    BY <1>2, BeginPiece
  <1>4. p \in Entry /\ y \in Entry
    BY <1>2 DEF Begins
  <1>5. s \o <<p, y>> = Over(s, p, y)
    BY <1>4 DEF Over
  <1> QED
    BY <1>1, <1>3, <1>4, <1>5

\* What the lua_State of a coroutine that is resumed starts with.
LEMMA Resumed ==
    ASSUME Inv, NEW t \in Thread, Accepts(t), ~Closing(t), NEW to
    PROVE  LET c == ResumeList(t, to)
               p == ResumeProtect(t)
               y == ResumeEntry(t)
           IN  /\ Begins(p, y, cs) /\ Begun(p, y) = Plus(CountFrom(t), 0)
               /\ c \in Seq(Frame) /\ Agree(c, Calls(Over(cs, p, y), t))
               /\ HandlersAgree(c, th[t].errfunc)
               /\ to = "run" => c # <<>> /\ IsLua(Last(c)) /\ Entered(c, Calls(Over(cs, p, y), t))
  <1>1. PICK P : P = ResumeProtect(t)
    OBVIOUS
  <1>2. PICK Y : Y = ResumeEntry(t)
    OBVIOUS
  <1>3. PICK d : d = th[t].ci
    OBVIOUS
  <1>4. PICK D : D = ResumeList(t, to)
    OBVIOUS
  <1>5. PICK e1 : e1 = th[t].errfunc
    OBVIOUS
  <1>6. PICK m \in Counter : m = CountFrom(t)
    BY Here, StateFields DEF CountFrom, Counter
  <1>7. P = Protect(t, "resume", m, 0)
    BY <1>1, <1>6 DEF ResumeProtect
  <1>8. /\ P \in Entry /\ IsProtect(P) /\ P.by = "resume" /\ P.th = t /\ P.nC = m
    BY <1>7 DEF Protect, IsProtect, Entry, ProtectEntry
  <1>9. /\ ~InStack(cs, t)
        /\ \/ th[t].status = "ok" /\ d = <<>> /\ ~e1
           \/ /\ th[t].status = "yield" /\ d # <<>> /\ Last(d) = C("yield")
              /\ HandlersAgree(d, e1) /\ Agree(d, Calls(cs, t))
    BY <1>3, <1>5, Accepted
  <1>10. cs \in Seq(Entry) /\ d \in Seq(Frame) /\ e1 \in BOOLEAN /\ Len(cs) \in Nat
    BY <1>3, <1>5, Here, StateFields
  <1>11. PICK h : h = Calls(Over(cs, P, Y), t)
    OBVIOUS
  <1>12. CASE th[t].status = "ok"
    <2>1. Y = CCall(t, "body", 0, 0)
      BY <1>2, <1>12 DEF ResumeEntry
    <2>2. Y \in CallEntry /\ Y \in Entry /\ IsCall(Y) /\ ~IsProtect(Y) /\ Y.th = t /\ Y.by = "body" /\ Y.ny = 0
      BY <2>1, CallEntries
    <2>3. Begins(P, Y, cs)
      BY <1>8, <1>9, <2>1, <2>2 DEF Begins, Protected, Needs, IsCall
    <2>4. Begun(P, Y) = Plus(m, 0)
      BY <1>8, <2>2 DEF Begun
    <2>5. DOMAIN h = {Len(cs) + 2} /\ h[Len(cs) + 2] = Y
      <3>2. /\ DOMAIN Calls(Over(cs, P, Y), P.th) = {Len(cs) + 2}
            /\ Calls(Over(cs, P, Y), P.th)[Len(cs) + 2] = Y
        BY <2>2, <2>3, BeginHere
      <3> QED
        BY <1>8, <1>11, <3>2
    <2>6. D \in {<<>>, <<Fresh>>} /\ (to = "run" => D = <<Fresh>>)
      <3>1. D = IF to # "run" THEN d ELSE <<Fresh>>
        BY <1>3, <1>4, <1>12 DEF ResumeList
      <3>2. d = <<>>
        BY <1>9, <1>12
      <3> QED
        BY <3>1, <3>2
    <2>7. /\ D \in Seq(Frame) /\ Agree(D, h) /\ HandlersAgree(D, FALSE)
          /\ D = <<Fresh>> => D # <<>> /\ IsLua(Last(D)) /\ Entered(D, h)
      <3>1. PICK n \in Nat : n = Len(cs) + 2
        BY <1>10
      <3>2. Y = CCall(Y.th, "body", 0, 0)
        BY <2>1, <2>2
      <3>3. DOMAIN h = {n} /\ h[n] = Y
        BY <2>5, <3>1
      <3> QED
        BY <2>2, <2>6, <3>2, <3>3, BeginCall
    <2>8. e1 = FALSE
      BY <1>9, <1>10, <1>12
    <2>9. HandlersAgree(D, e1)
      BY <2>7, <2>8
    <2> QED
      BY <1>1, <1>2, <1>4, <1>5, <1>6, <1>11, <2>3, <2>4, <2>6, <2>7, <2>9
  <1>13. CASE th[t].status = "yield"
    <2>1. Y = [th |-> t, what |-> "resumed"]
      BY <1>2, <1>13 DEF ResumeEntry
    <2>2. Y \in Entry /\ Y.th = t /\ Y.what = "resumed" /\ ~IsCall(Y) /\ ~IsProtect(Y)
      BY <2>1 DEF Entry, IsCall, IsProtect
    <2>3. Begins(P, Y, cs)
      BY <1>8, <1>9, <2>2 DEF Begins, Protected, Needs
    <2>4. Begun(P, Y) = Plus(m, 0)
      BY <1>8, <2>2 DEF Begun
    <2>5. h = Calls(cs, t) /\ DOMAIN h = {}
      <3>1. Calls(Over(cs, P, Y), P.th) = Calls(cs, P.th)
        BY <2>2, <2>3, BeginHere
      <3> QED
        BY <1>8, <1>9, <1>10, <1>11, <3>1, NoCalls
    <2>6. d # <<>> /\ Last(d) = C("yield") /\ HandlersAgree(d, e1) /\ Agree(d, h)
      BY <1>9, <1>13, <2>5
    <2>7. CASE to # "run"
      <3>1. D = d
        BY <1>3, <1>4, <2>7 DEF ResumeList
      <3> QED
        BY <1>1, <1>2, <1>4, <1>5, <1>6, <1>10, <1>11, <2>3, <2>4, <2>6, <2>7, <3>1
    <2>8. CASE to = "run"
      <3>1. D = SubSeq(d, 1, Len(d) - 1)
        BY <1>3, <1>4, <1>13, <2>8 DEF ResumeList, Pop
      <3>2. PICK n \in DOMAIN d : n = Len(d) /\ Last(d) = d[n]
        BY <1>10, <2>6, IsSeq
      <3>3. ~IsLua(d[n]) /\ ~IsPCall(d[n])
        BY <2>6, <3>2, CFrames
      <3>4. {} \in SUBSET Nat /\ h \in [{} -> CallEntry]
        <4>1. h \in [DOMAIN h -> CallEntry]
          BY <1>10, <2>5, CallsType
        <4> QED
          BY <2>5, <4>1
      <3>5. \A i \in {} : h[i] = h[i] /\ h[i].k <= n - 1
        OBVIOUS
      <3>6. /\ SubSeq(d, 1, n - 1) \in Seq(Frame) /\ SubSeq(d, 1, n - 1) # <<>>
            /\ IsLua(Last(SubSeq(d, 1, n - 1))) /\ Entered(SubSeq(d, 1, n - 1), h)
        BY <1>10, <2>6, <3>2, <3>3, <3>4, <3>5, CutAtC
      <3>7. HandlersAgree(D, e1)
        BY <1>10, <2>6, <3>1, <3>2, <3>3, HandlersPop
      <3>8. Agree(D, h)
        <4>1. PICK k \in 0..Len(d) : k = Len(d) - 1
          <5>1. Len(d) \in Nat /\ Len(d) > 0
            BY <1>10, <2>6, IsSeq
          <5> QED
            BY <5>1
        <4>2. \A i \in {} : h[i].k <= k
          OBVIOUS
        <4>3. Agree(SubSeq(d, 1, k), h)
          BY <1>10, <2>6, <3>4, <4>2, AgreePop
        <4> QED
          BY <3>1, <4>1, <4>3
      <3>9. D \in Seq(Frame) /\ D # <<>> /\ IsLua(Last(D)) /\ Entered(D, h)
        BY <3>1, <3>2, <3>6
      <3> QED
        BY <1>1, <1>2, <1>4, <1>5, <1>6, <1>11, <2>3, <2>4, <2>8, <3>7, <3>8, <3>9
    <2> QED
      BY <2>7, <2>8
  <1> QED
    BY <1>9, <1>12, <1>13

LEMMA ResumeKeeps ==
    ASSUME Inv, NEW t \in Thread, NEW by \in {"resume", "wrap"}, Resume(t, by), ~Closing(t)
    PROVE  Kept
  <1>1. PICK p : p = ResumeProtect(t)
    OBVIOUS
  <1>2. PICK y : y = ResumeEntry(t)
    OBVIOUS
  <1>3. PICK c : c = ResumeList(t, mode')
    OBVIOUS
  <1>4. PICK n : n = Plus(CountFrom(t), 0)
    OBVIOUS
  <1>5. PICK e1 : e1 = th[t].errfunc
    OBVIOUS
  <1>6. /\ mode = "run" /\ Accepts(t) /\ ~Closing(t)
        /\ cs' = cs \o <<p, y>> /\ mode' = AfterCount(n)
        /\ th' = [th EXCEPT ![T].ci = Append(@, C(by)),
                            ![t].status = "ok", ![t].fn = FALSE, ![t].nC = n, ![t].ci = c]
    <2>1. t # T
      <3>1. ~InStack(cs, t)
        BY Accepted DEF Resume
      <3> QED
        BY <3>1, Here DEF InStack
    <2>2. th \in [Thread -> State] /\ T \in Thread
      BY Here
    <2> QED
      BY <1>1, <1>2, <1>3, <1>4, <2>1, <2>2
      DEF Resume, Continue, ResumeProtect, ResumeEntry, ResumeList, CountFrom, Fresh
  <1>7. /\ Begins(p, y, cs) /\ Begun(p, y) = n
        /\ c \in Seq(Frame) /\ Agree(c, Calls(Over(cs, p, y), t)) /\ HandlersAgree(c, e1)
        /\ mode' = "run" => c # <<>> /\ IsLua(Last(c)) /\ Entered(c, Calls(Over(cs, p, y), t))
    BY <1>1, <1>2, <1>3, <1>4, <1>5, <1>6, Resumed
  <1>8. p.th = t /\ p.by = "resume" /\ p.nC = [c |-> th[T].nC.c, ny |-> 0]
    BY <1>1 DEF ResumeProtect, Protect, CountFrom
  <1>9. th \in [Thread -> State] /\ th[t] \in State /\ T \in Thread /\ th[T] \in State /\ t # T
    <2>1. ~InStack(cs, t)
      BY <1>6, Accepted
    <2> QED
      BY <2>1, Here DEF InStack
  <1>10. PICK q : q = [th[t] EXCEPT !.status = "ok", !.fn = FALSE]
    OBVIOUS
  <1>11. q \in State /\ q.status = "ok" /\ q.fn = FALSE /\ q.errfunc = e1
    BY <1>5, <1>9, <1>10 DEF State
  <1>12. PICK r : r = With(q, c, n, q.errfunc)
    OBVIOUS
  <1>13. r \in State /\ Local(p.th, r, Over(cs, p, y)) /\ r.ci = c
    <2>1. Agree(c, Calls(Over(cs, p, y), p.th)) /\ q.status # "none" /\ ~q.fn /\ Stack(cs)
      BY <1>7, <1>8, <1>11, Here
    <2>2. p.by # "close" => q.status = "ok" /\ HandlersAgree(c, q.errfunc)
      BY <1>7, <1>11
    <2>3. /\ With(q, c, Begun(p, y), q.errfunc) \in State
          /\ Local(p.th, With(q, c, Begun(p, y), q.errfunc), Over(cs, p, y))
          /\ With(q, c, Begun(p, y), q.errfunc).ci = c
      BY <1>7, <1>11, <2>1, <2>2, BeginLocal
    <2> QED
      BY <1>7, <1>12, <2>3
  <1>14. cs' = Over(cs, p, y)
    <2>1. cs \o <<p, y>> = Over(cs, p, y)
      BY <1>7, BeginHere
    <2> QED
      BY <1>6, <2>1
  <1>15. th' = [th EXCEPT ![T] = [th[T] EXCEPT !.ci = Append(th[T].ci, C(by))], ![p.th] = r]
    <2>1. r = [th[t] EXCEPT !.status = "ok", !.fn = FALSE, !.nC = n, !.ci = c]
      <3>1. r = [q EXCEPT !.ci = c, !.nC = n, !.errfunc = e1]
        BY <1>11, <1>12 DEF With
      <3> QED
        BY <1>5, <1>9, <1>10, <3>1 DEF State
    <2>2. th' = [th EXCEPT ![T] = [th[T] EXCEPT !.ci = Append(th[T].ci, C(by))],
                           ![t] = [th[t] EXCEPT !.status = "ok", !.fn = FALSE, !.nC = n, !.ci = c]]
      BY <1>6, <1>9
    <2> QED
      BY <1>8, <2>1, <2>2
  <1>16. Goes(by, p, th[T]) /\ by \in {"resume", "wrap", "close"}
    BY <1>8 DEF Goes
  <1>17. mode' \in {"run", "error", "throw"} /\ (mode' = "run" => Running(r, Over(cs, p, y)))
    <2>1. mode' \in {"run", "error", "throw"}
      BY <1>6, AfterCounts
    <2>2. Last(Over(cs, p, y)).th = t
      BY <1>7, <1>8, BeginHere
    <2>3. mode' = "run" => Running(r, Over(cs, p, y))
      BY <1>7, <1>13, <2>2 DEF Running
    <2> QED
      BY <2>1, <2>3
  <1>18. th[p.th].status # "none" /\ (p.by # "close" => Ready(th[p.th]))
    BY <1>6, <1>8 DEF Accepts, Ready
  <1> QED
    BY <1>6, <1>7, <1>13, <1>14, <1>15, <1>16, <1>17, <1>18, StepEnter

-----------------------------------------------------------------------------
(* Throws, and the end of a piece.                                         *)

\* A setjmp that is not a pcall's is the base of the thread.
LEMMA ThrowBase ==
    ASSUME Inv, NEW by, NEW j \in DOMAIN cs, Throw(by, j), "pcall" \notin by
    PROVE  j = EntryOf(T) /\ IsBase(cs[j]) /\ cs[j].th = T /\ cs[j].by \in by
  <1>1. cs[j].th = T /\ IsProtect(cs[j]) /\ cs[j].by \in by
    BY DEF Throw
  <1>2. IsBase(cs[j])
    BY <1>1 DEF IsBase
  <1>3. PICK b : b = EntryOf(T)
    OBVIOUS
  <1>4. Base(cs, j, T) /\ Base(cs, b, T) /\ Stack(cs)
    BY <1>1, <1>2, <1>3, Here, BaseHere DEF Base
  <1>5. j = b
    BY <1>4, OneBase
  <1> QED
    BY <1>1, <1>2, <1>3, <1>5

LEMMA ThrowToMainKeeps ==
    ASSUME Inv, ThrowToMain
    PROVE  Kept
  <1>1. PICK j \in DOMAIN cs : Throw({"main"}, j)
    BY DEF ThrowToMain
  <1>2. j = EntryOf(T) /\ IsBase(cs[j]) /\ cs[j].th = T /\ cs[j].by = "main"
    BY <1>1, ThrowBase
  <1>3. PICK b : b = EntryOf(T)
    OBVIOUS
  <1>4. Stack(cs) /\ DOMAIN cs = 1..Len(cs) /\ Len(cs) > 1 /\ Len(cs) \in Nat
    BY Here
  <1>5. b = 1
    BY <1>2, <1>3, <1>4 DEF Stack, IsBase
  <1>6. cs[1] = Protect(main, "main", [c |-> 0, ny |-> 1], 0)
    BY <1>4 DEF Stack
  <1>7. T = main /\ IsProtect(cs[1]) /\ cs[1].by = "main" /\ cs[1].nC = [c |-> 0, ny |-> 1]
    BY <1>2, <1>3, <1>5, <1>6 DEF Protect, IsProtect
  <1>8. PICK y : y = cs[2]
    OBVIOUS
  <1>9. y = CCall(T, "main", 1, 0)
    <2>1. 1 \in DOMAIN cs /\ 1 + 1 = 2
      BY <1>4
    <2>2. Protected(cs[1], cs[1 + 1])
      BY <1>4, <1>7, <2>1 DEF Stack, Protection
    <2> QED
      BY <1>7, <1>8, <2>1, <2>2 DEF Protected
  <1>10. T \in Thread
    BY Here
  <1>11. /\ y \in CallEntry /\ y.th = T /\ IsCall(y) /\ ~IsProtect(y) /\ y.ny = 1 /\ y.k = 0
    BY <1>9, <1>10, CallEntries
  <1>12. PICK n \in b..Len(cs) : n = 2
    BY <1>4, <1>5
  <1>13. PICK v : v = SubSeq(cs, 1, n)
    OBVIOUS
  <1>14. PICK h : h = Calls(v, T)
    OBVIOUS
  <1>15. PICK G : G = Calls(cs, T)
    OBVIOUS
  <1>16. IsProtect(cs[n]) => cs[n].by = "unroll"
    BY <1>8, <1>11, <1>12
  <1>17. /\ KeepsBase(v, b) /\ CountsAgree(T, Counted(cs[b].nC, cs, T, n), v)
         /\ DOMAIN h = {i \in DOMAIN G : i <= n} /\ \A i \in DOMAIN h : h[i] = G[i]
    BY <1>3, <1>13, <1>14, <1>15, <1>16, Popped
  <1>18. DOMAIN G = {i \in 1..Len(cs) : cs[i].th = T /\ IsCall(cs[i])} /\ \A i \in DOMAIN G : G[i] = cs[i]
    <2>1. PICK ci : ci = th[T].ci
      OBVIOUS
    <2> QED
      BY <1>3, <1>15, <2>1, RunningThread
  <1>19. DOMAIN h = {2} /\ h[2] = y
    <2>1. 2 \in 1..Len(cs)
      BY <1>4
    <2>2. 2 \in DOMAIN G /\ G[2] = y
      BY <1>8, <1>11, <1>18, <2>1
    <2>3. 1 \notin DOMAIN G
      BY <1>7, <1>18 DEF IsProtect, IsCall
    <2>4. \A i \in DOMAIN G : i <= n <=> i = 2
      <3> TAKE i \in DOMAIN G
      <3>1. i \in 1..Len(cs) /\ i # 1
        BY <1>18, <2>3
      <3> QED
        BY <1>12, <3>1
    <2> QED
      BY <1>17, <2>2, <2>4
  <1>20. PICK nC : nC = Plus(cs[1].nC, 1)
    OBVIOUS
  <1>21. nC = Counted(cs[b].nC, cs, T, n) /\ nC \in Counter
    <2>1. nC = [c |-> 1, ny |-> 2]
      BY <1>7, <1>20 DEF Plus
    <2>2. Cardinality(CallsUpTo(cs, T, 0)) = 0 /\ Cardinality(ForbiddingUpTo(cs, T, 0)) = 0
      BY CountNone
    <2>3. /\ Cardinality(CallsUpTo(cs, T, 0 + 1)) = Cardinality(CallsUpTo(cs, T, 0))
                + IF cs[0 + 1].th = T /\ ~IsProtect(cs[0 + 1]) THEN 1 ELSE 0
          /\ Cardinality(ForbiddingUpTo(cs, T, 0 + 1)) = Cardinality(ForbiddingUpTo(cs, T, 0))
                + IF cs[0 + 1].th = T /\ ~IsProtect(cs[0 + 1]) /\ IsCall(cs[0 + 1]) /\ cs[0 + 1].ny = 1
                  THEN 1 ELSE 0
      BY CountStep
    <2>4. Cardinality(CallsUpTo(cs, T, 1)) = 0 /\ Cardinality(ForbiddingUpTo(cs, T, 1)) = 0
      BY <1>7, <2>2, <2>3
    <2>5. /\ Cardinality(CallsUpTo(cs, T, 1 + 1)) = Cardinality(CallsUpTo(cs, T, 1))
                + IF cs[1 + 1].th = T /\ ~IsProtect(cs[1 + 1]) THEN 1 ELSE 0
          /\ Cardinality(ForbiddingUpTo(cs, T, 1 + 1)) = Cardinality(ForbiddingUpTo(cs, T, 1))
                + IF cs[1 + 1].th = T /\ ~IsProtect(cs[1 + 1]) /\ IsCall(cs[1 + 1]) /\ cs[1 + 1].ny = 1
                  THEN 1 ELSE 0
      BY CountStep
    <2>6. Cardinality(CallsUpTo(cs, T, 2)) = 1 /\ Cardinality(ForbiddingUpTo(cs, T, 2)) = 1
      BY <1>8, <1>11, <2>4, <2>5
    <2>7. Counted(cs[b].nC, cs, T, n) = [c |-> 1, ny |-> 2]
      BY <1>5, <1>7, <1>12, <2>6 DEF Counted
    <2> QED
      BY <2>1, <2>7 DEF Counter
  <1>22. PICK d : d = <<>>
    OBVIOUS
  <1>23. d \in Seq(Frame) /\ Len(d) = 0
    BY <1>22
  <1>24. Agree(d, Calls(v, T)) /\ HandlersAgree(d, FALSE)
    <2>1. y = CCall(y.th, "main", 1, 0)
      BY <1>9, <1>11
    <2>2. Agree(<<>>, h)
      BY <1>11, <1>19, <2>1, AgreeBegin
    <2>3. HandlersAgree(<<>>, FALSE)
      BY HandlersBegin
    <2> QED
      BY <1>14, <1>22, <2>2, <2>3
  <1>25. PICK m \in DOMAIN Calls(v, T) : Calls(v, T)[m].k = Len(d)
    BY <1>11, <1>14, <1>19, <1>23
  <1>26. cs' = v /\ mode' = "run"
    BY <1>12, <1>13 DEF ThrowToMain
  <1>27. PICK e1 \in BOOLEAN : e1 = FALSE
    OBVIOUS
  <1>28. th' = Put(Append(d, Fresh), nC, e1)
    <2>1. th' = [th EXCEPT ![T].ci = <<Fresh>>, ![T].errfunc = FALSE, ![T].nC = nC]
      BY <1>20 DEF ThrowToMain, Fresh
    <2>2. th \in [Thread -> State] /\ T \in Thread /\ th[T] \in State
      BY Here
    <2>3. PICK a : a = Append(d, Fresh)
      OBVIOUS
    <2>4. a = <<Fresh>>
      BY <1>22, <2>3
    <2>5. th' = [th EXCEPT ![T] = [th[T] EXCEPT !.ci = a, !.errfunc = e1, !.nC = nC]]
      BY <1>27, <2>1, <2>2, <2>4
    <2>6. [th[T] EXCEPT !.ci = a, !.errfunc = e1, !.nC = nC] = With(th[T], a, nC, e1)
      BY <2>2 DEF With, State
    <2> QED
      BY <2>3, <2>5, <2>6 DEF Put
  <1>29. CountsAgree(T, nC, v) /\ KeepsBase(v, b) /\ nC \in Counter
    BY <1>17, <1>21
  <1>30. cs[b].by # "close" => HandlersAgree(d, e1)
    BY <1>24, <1>27
  <1>31. mode' = "run" /\ mode' \in {"run", "error", "throw"} /\ Agree(d, Calls(v, T))
    BY <1>24, <1>26
  <1> QED
    BY <1>3, <1>23, <1>25, <1>26, <1>27, <1>28, <1>29, <1>30, <1>31, StepCall

\* The C stack below the piece of the running thread, that of a coroutine.
LEMMA BelowBase ==
    ASSUME Inv, NEW b, b = EntryOf(T), cs[b].by # "main"
    PROVE  /\ b \in 2..Len(cs) /\ b - 1 \in DOMAIN cs /\ b \in Nat
           /\ Stack(Below(b)) /\ ~InStack(Below(b), T) /\ Len(Below(b)) = b - 1
           /\ DOMAIN Below(b) = 1..b - 1 /\ \A i \in 1..b - 1 : Below(b)[i] = cs[i]
           /\ Last(Below(b)) = cs[b - 1]
           /\ \A q \in Thread \ {T} : Same(cs, Below(b), q)
           /\ cs[b - 1].th \in Thread \ {T} /\ Caller_(cs, b, th[cs[b - 1].th])
           /\ Caller(T) = cs[b - 1].th
  <1>1. PICK B : B = b
    OBVIOUS
  <1>2. B = EntryOf(T) /\ cs[B].by # "main"
    BY <1>1
  <1>3. PICK l \in Nat : l = Len(cs) /\ l > 1
    BY Here
  <1>4. PICK v : v = SubSeq(cs, 1, B - 1)
    OBVIOUS
  <1>5. /\ Stack(cs) /\ cs \in Seq(Entry) /\ DOMAIN cs = 1..l /\ B \in 1..l /\ Base(cs, B, T)
        /\ \A i \in B..l : cs[i].th = T
        /\ \A i \in 1..B - 1 : cs[i].th # T
        /\ \A i \in DOMAIN cs : cs[i] \in Entry
    BY <1>2, <1>3, Here, BaseHere
  <1>6. IsProtect(cs[1]) /\ cs[1].by = "main"
    BY <1>5 DEF Stack, Protect, IsProtect
  <1>7. B > 1 /\ B \in 2..l /\ B - 1 \in DOMAIN cs /\ B \in Nat /\ B \in DOMAIN cs
    <2>1. B # 1
      BY <1>2, <1>6
    <2> QED
      BY <1>5, <2>1
  <1>8. IsBase(cs[B]) /\ cs[B].th = T
    BY <1>5 DEF Base
  <1>9. cs[B - 1].th \in Thread \ {T}
    <2>1. B - 1 \in 1..B - 1
      BY <1>7
    <2> QED
      BY <1>5, <1>7, <2>1, Entries
  <1>10. IsProtect(cs[B - 1]) => cs[B - 1].by = "unroll"
    <2>1. SUFFICES ASSUME IsProtect(cs[B - 1]), cs[B - 1].by # "unroll" PROVE FALSE
      OBVIOUS
    <2>2. Protected(cs[B - 1], cs[(B - 1) + 1])
      BY <1>5, <1>7, <2>1 DEF Stack, Protection
    <2>3. (B - 1) + 1 = B
      BY <1>7
    <2>4. cs[B].th = cs[B - 1].th
      BY <2>2, <2>3 DEF Protected
    <2> QED
      BY <1>8, <1>9, <2>4
  <1>11. B # 2
    BY <1>6, <1>10
  <1>12. B - 1 \in 2..Len(cs) /\ B - 1 \in 0..Len(cs) /\ B - 1 > 0
    BY <1>3, <1>7, <1>11
  <1>13. Stack(v)
    BY <1>4, <1>5, <1>10, <1>12, StackPrefix
  <1>14. /\ DOMAIN v = 1..B - 1 /\ Len(v) = B - 1 /\ Last(v) = cs[B - 1]
         /\ \A i \in 1..B - 1 : v[i] = cs[i]
    BY <1>4, <1>5, <1>12, Prefix
  <1>15. ~InStack(v, T)
    BY <1>5, <1>14 DEF InStack
  <1>16. \A q \in Thread \ {T} : Same(cs, v, q)
    <2> TAKE q \in Thread \ {T}
    <2>1. \A i \in (B - 1) + 1..Len(cs) : cs[i].th # q
      BY <1>3, <1>5, <1>7
    <2> QED
      BY <1>4, <1>5, <1>12, <2>1, SamePrefix
  <1>17. Caller_(cs, B, th[cs[B - 1].th])
    <2>1. Callers(th, cs)
      BY Here DEF Consistent
    <2> QED
      BY <1>7, <1>8, <2>1 DEF Callers
  <1>18. v = Below(B) /\ Caller(T) = cs[B - 1].th
    BY <1>2, <1>4 DEF Below, Caller
  <1> QED
    BY <1>1, <1>3, <1>7, <1>9, <1>13, <1>14, <1>15, <1>16, <1>17, <1>18

\* The piece of the running thread begins again, at the same place, with x.
LEMMA Restarted ==
    ASSUME Inv, NEW b, b = EntryOf(T), cs[b].by # "main",
           NEW v, Stack(v), Last(v).th = T, \A q \in Thread \ {T} : Same(cs, v, q),
           Base(v, b, T), v[b - 1] = cs[b - 1],
           v[b].by = "close" => Last(th[cs[b - 1].th].ci) \in {C("close"), C("wrap")},
           v[b].by # "close" => cs[b].by # "close" /\ v[b].nC = cs[b].nC,
           NEW r \in State, Local(T, r, v), cs' = v, th' = [th EXCEPT ![T] = r],
           mode' \in {"run", "error", "throw"},
           mode' = "run" => r.ci # <<>> /\ IsLua(Last(r.ci)) /\ Entered(r.ci, Calls(v, T))
    PROVE  Kept
  <1>1. PICK h : h = [th EXCEPT ![T] = r]
    OBVIOUS
  <1>2. Consistent(th, cs) /\ T = Last(cs).th /\ cs \in Seq(Entry) /\ T \in Thread /\ th \in [Thread -> State]
    BY Here
  <1>3. v \in Seq(Entry)
    BY DEF Stack
  <1>4. cs[b - 1].th \in Thread \ {T} /\ Caller_(cs, b, th[cs[b - 1].th])
    BY BelowBase
  <1>5. Calls(v, cs[b - 1].th) = Calls(cs, cs[b - 1].th)
    <2>1. Same(cs, v, cs[b - 1].th)
      BY <1>4
    <2> QED
      BY <1>2, <1>3, <2>1, SameCalls
  <1>6. Caller_(v, b, th[v[b - 1].th])
    BY <1>4, <1>5 DEF Caller_
  <1>7. ASSUME NEW c \in DOMAIN v, c > 1, Base(v, c, T) PROVE Caller_(v, c, th[v[c - 1].th])
    <2>1. c = b
      BY <1>7, OneBase
    <2> QED
      BY <1>6, <2>1
  <1>8. PICK t : t = T
    OBVIOUS
  <1>9. Consistent([th EXCEPT ![t] = r], v)
    <2>1. t = Last(cs).th /\ Last(v).th = t /\ Local(t, r, v)
      BY <1>2, <1>8
    <2>2. \A q \in Thread \ {t} : Same(cs, v, q)
      BY <1>8
    <2>3. \A c \in DOMAIN v : c > 1 /\ Base(v, c, t) => Caller_(v, c, th[v[c - 1].th])
      BY <1>7, <1>8
    <2> QED
      BY <1>2, <2>1, <2>2, <2>3, Inside
  <1>10. Consistent(h, v) /\ h[T] = r
    BY <1>1, <1>2, <1>8, <1>9
  <1>11. mode' = "run" => Running(h[Last(v).th], v)
    BY <1>10 DEF Running
  <1>12. Inv'
    BY <1>1, <1>10, <1>11, After
  <1>13. States!Step \/ UNCHANGED States!visible
    <2>1. \A q \in Thread \ {T} : h[q] = th[q]
      BY <1>1, <1>2
    <2>2. T # main
      <3>1. Stack(cs) /\ 1 \in DOMAIN cs /\ Base(cs, b, T)
        BY Here, BaseHere
      <3>2. cs[1].by = "main" /\ Base(cs, 1, main)
        BY <3>1 DEF Stack, Protect, Base, IsBase, IsProtect
      <3> QED
        BY <3>1, <3>2, OneBase
    <2> QED
      BY <1>1, <1>10, <2>1, <2>2, WithinStep
  <1> QED
    BY <1>12, <1>13 DEF Kept

\* An error in a coroutine goes to a pcall that it has kept.
LEMMA ThrowToUnrollKeeps ==
    ASSUME Inv, ThrowToUnroll
    PROVE  Kept
  <1>1. PICK b : b = EntryOf(T)
    OBVIOUS
  <1>2. PICK ci : ci = th[T].ci
    OBVIOUS
  <1>3. PICK G : G = Calls(cs, T)
    OBVIOUS
  <1>4. PICK nC : nC = cs[b].nC
    OBVIOUS
  <1>5. PICK x : x = Protect(T, "unroll", nC, 0)
    OBVIOUS
  <1>6. PICK i \in DOMAIN ci :
          /\ cs[b].by \in {"resume", "unroll"} /\ IsYPCall(ci[i])
          /\ cs' = Append(Below(b), x) /\ mode' = "run"
          /\ th' = PCallEnds(th, SubSeq(ci, 1, i), nC)
    <2>1. PICK j \in DOMAIN cs, i \in Recover :
            /\ Throw({"resume", "unroll"}, j)
            /\ cs' = Append(Below(j), Protect(T, "unroll", cs[j].nC, 0)) /\ mode' = "run"
            /\ th' = PCallEnds(th, SubSeq(th[T].ci, 1, i), cs[j].nC)
      BY DEF ThrowToUnroll
    <2>2. j = b /\ cs[b].by \in {"resume", "unroll"}
      BY <1>1, <2>1, ThrowBase
    <2>3. i \in DOMAIN ci /\ IsYPCall(ci[i])
      BY <1>2 DEF Recover
    <2> QED
      BY <1>2, <1>4, <1>5, <2>1, <2>2, <2>3
  <1>7. /\ ci \in Seq(Frame) /\ Len(ci) \in Nat /\ DOMAIN ci = 1..Len(ci)
        /\ \A j \in DOMAIN ci : ci[j] \in Frame
        /\ G \in [DOMAIN G -> CallEntry] /\ DOMAIN G \in SUBSET Nat /\ Agree(ci, G)
        /\ th[T].status = "ok" /\ ~th[T].fn
    BY <1>1, <1>2, <1>3, <1>6, RunningThread
  <1>8. PICK s : s = Below(b)
    OBVIOUS
  <1>9. cs[b].by # "main" /\ cs[b].by # "close"
    BY <1>6
  <1>10. /\ b \in 2..Len(cs) /\ b \in Nat /\ b - 1 \in DOMAIN cs
         /\ Stack(s) /\ ~InStack(s, T) /\ Len(s) = b - 1 /\ DOMAIN s = 1..b - 1
         /\ \A q \in Thread \ {T} : Same(cs, s, q)
         /\ Last(s) = cs[b - 1] /\ \A a \in 1..b - 1 : s[a] = cs[a]
    BY <1>1, <1>8, <1>9, BelowBase
  <1>11. s \in Seq(Entry)
    BY <1>10 DEF Stack
  <1>12. nC \in Counter /\ T \in Thread
    <2>1. cs[b] \in Entry /\ IsProtect(cs[b])
      BY <1>1, Here, BaseHere DEF Base, IsBase
    <2> QED
      BY <1>4, <2>1, Here, Entries DEF ProtectEntry
  <1>13. x \in Entry /\ x.th = T /\ x.nC = nC /\ x.by = "unroll" /\ IsProtect(x) /\ IsBase(x) /\ ~IsCall(x)
    BY <1>5, <1>12 DEF Protect, IsProtect, IsBase, IsCall, Entry, ProtectEntry
  <1>14. PICK v : v = Append(s, x)
    OBVIOUS
  <1>15. Stack(v)
    <2>1. Needs(x) = {}
      BY <1>13 DEF Needs, IsProtect
    <2> QED
      BY <1>10, <1>13, <1>14, <2>1, StackPush
  <1>16. /\ v \in Seq(Entry) /\ DOMAIN v = 1..b /\ v[b] = x /\ Last(v) = x
         /\ \A a \in 1..b - 1 : v[a] = cs[a]
    <2>1. /\ v \in Seq(Entry) /\ DOMAIN v = 1..Len(s) + 1 /\ v[Len(s) + 1] = x /\ Last(v) = x
          /\ \A a \in 1..Len(s) : v[a] = s[a]
      BY <1>11, <1>13, <1>14, Appended
    <2>2. Len(s) + 1 = b
      BY <1>10
    <2> QED
      BY <1>10, <2>1, <2>2
  <1>17. Base(v, b, T) /\ v[b - 1] = cs[b - 1]
    <2>1. b \in 1..b /\ b - 1 \in 1..b - 1
      BY <1>10
    <2> QED
      BY <1>13, <1>16, <2>1 DEF Base
  <1>18. \A q \in Thread \ {T} : Same(cs, v, q)
    <2> TAKE q \in Thread \ {T}
    <2>1. Same(s, v, q)
      BY <1>11, <1>13, <1>14, SamePush
    <2>2. Same(cs, s, q)
      BY <1>10
    <2> QED
      BY <2>1, <2>2, SameTrans
  <1>19. PICK h : h = Calls(v, T)
    OBVIOUS
  <1>20. DOMAIN h = {}
    <2>1. h = Calls(s, T)
      BY <1>11, <1>13, <1>14, <1>19, CallsPush
    <2> QED
      BY <1>10, <1>11, <2>1, NoCalls
  <1>21. PICK m \in 0..Len(ci) : m = i - 1 /\ i \in Nat
    BY <1>7
  <1>22. PICK d : d = SubSeq(ci, 1, m)
    OBVIOUS
  <1>23. IsPCall(ci[i]) /\ ~IsLua(ci[i])
    BY <1>6, <1>7, FrameKinds
  <1>24. Agree(d, h)
    <2>1. \A p \in DOMAIN G : G[p].ny = 1 => G[p].k > m
      <3> TAKE p \in DOMAIN G
      <3>1. G[p].k \in Nat
        BY <1>7 DEF CallEntry
      <3>2. G[p].ny = 1 => i <= G[p].k
        BY <1>6, <1>7 DEF Agree, NoneKept
      <3> QED
        BY <1>21, <3>1, <3>2
    <2>2. Agree(SubSeq(ci, 1, m), h)
      BY <1>7, <1>20, <2>1, AgreeLost
    <2> QED
      BY <1>22, <2>2
  <1>25. PICK a \in Seq(Frame) : a = SubSeq(ci, 1, i) /\ Last(a) = ci[i] /\ d = Pop(a, 1)
    BY <1>7, <1>21, <1>22, CutPop
  <1>26. PICK o : o = ci[i].old
    OBVIOUS
  <1>27. /\ PCallEnds(th, a, nC) = Put(d, nC, ci[i].old)
         /\ ci[i].old \in BOOLEAN
         /\ \A B : B = EntryOf(T) => (cs[B].by # "close" => HandlersAgree(d, ci[i].old))
    <2>1. d = SubSeq(ci, 1, i - 1) /\ IsPCall(ci[i]) /\ Last(a) = ci[i] /\ d = Pop(a, 1)
      BY <1>21, <1>22, <1>23, <1>25
    <2> QED
      BY <1>2, <1>12, <2>1, PCallEndsFields
  <1>28. th' = Put(d, nC, o) /\ cs' = v /\ mode' = "run" /\ o \in BOOLEAN /\ HandlersAgree(d, o)
    BY <1>1, <1>6, <1>8, <1>9, <1>14, <1>25, <1>26, <1>27
  <1>29. /\ d \in Seq(Frame) /\ d # <<>> /\ IsLua(Last(d)) /\ Entered(d, h)
    <2>1. {} \in SUBSET DOMAIN G /\ h \in [{} -> CallEntry]
      <3>1. h \in [DOMAIN h -> CallEntry]
        BY <1>16, <1>19, CallsType
      <3> QED
        BY <1>20, <3>1
    <2>2. \A p \in {} : h[p] = G[p] /\ G[p].k <= i - 1
      OBVIOUS
    <2>3. /\ SubSeq(ci, 1, i - 1) \in Seq(Frame) /\ SubSeq(ci, 1, i - 1) # <<>>
          /\ IsLua(Last(SubSeq(ci, 1, i - 1))) /\ Entered(SubSeq(ci, 1, i - 1), h)
      BY <1>7, <1>23, <2>1, <2>2, CutAtC
    <2> QED
      BY <1>21, <1>22, <2>3
  <1>30. PICK r : r = With(th[T], d, nC, o)
    OBVIOUS
  <1>31. /\ r \in State /\ r.ci = d /\ r.nC = nC /\ r.errfunc = o /\ r.status = "ok" /\ ~r.fn
    <2>1. th[T] \in State
      BY Here
    <2>2. /\ r \in State /\ r.ci = d /\ r.nC = nC /\ r.errfunc = o
          /\ r.status = th[T].status /\ r.fn = th[T].fn
      BY <1>12, <1>28, <1>29, <1>30, <2>1, WithFields
    <2> QED
      BY <1>7, <2>2
  <1>32. Local(T, r, v)
    <2>1. CountsAgree(T, nC, v)
      BY <1>10, <1>11, <1>13, <1>14, CountsBegin
    <2>2. Agree(r.ci, Calls(v, T)) /\ CountsAgree(T, r.nC, v) /\ HandlersAgree(r.ci, r.errfunc)
      BY <1>19, <1>24, <1>28, <1>31, <2>1
    <2> QED
      BY <1>15, <1>17, <1>31, <2>2, LocalActive
  <1>33. th' = [th EXCEPT ![T] = r]
    BY <1>28, <1>30 DEF Put
  <1>34. /\ v[b].by # "close" /\ cs[b].by # "close" /\ cs[b].by # "main" /\ v[b].nC = cs[b].nC
         /\ Last(v).th = T
    BY <1>4, <1>9, <1>13, <1>16
  <1>35. mode' = "run" /\ mode' \in {"run", "error", "throw"}
         /\ r.ci # <<>> /\ IsLua(Last(r.ci)) /\ Entered(r.ci, Calls(v, T)) /\ cs' = v
    BY <1>19, <1>28, <1>29, <1>31
  <1> QED
    BY <1>1, <1>15, <1>17, <1>18, <1>31, <1>32, <1>33, <1>34, <1>35, Restarted

LEMMA PopSeq ==
    ASSUME NEW ci \in Seq(Frame), ci # <<>>
    PROVE  SubSeq(ci, 1, Len(ci) - 1) \in Seq(Frame)
  <1>1. Len(ci) \in Nat /\ Len(ci) > 0
    BY IsSeq
  <1>2. Len(ci) - 1 \in 0..Len(ci)
    BY <1>1
  <1> QED
    BY <1>2, Prefix

LEMMA LeaveHere ==
    ASSUME Inv, NEW b, b = EntryOf(T), cs[b].by # "main", NEW r \in State, Local(T, r, Below(b))
    PROVE  /\ Consistent([th EXCEPT ![T] = r, ![Caller(T)] = Left(th[Caller(T)])], Below(b))
           /\ Last(Below(b)).th = Caller(T) /\ Running(Left(th[Caller(T)]), Below(b))
  <1>1. PICK B : B = b
    OBVIOUS
  <1>2. PICK t : t = T
    OBVIOUS
  <1>3. B = EntryOf(T) /\ cs[B].by # "main"
    BY <1>1
  <1>4. /\ B > 1 /\ Base(cs, B, t) /\ Consistent(th, cs) /\ t = Last(cs).th
        /\ Caller(T) = cs[B - 1].th /\ Below(b) = SubSeq(cs, 1, B - 1)
    BY <1>1, <1>2, <1>3, Here, BaseHere, BelowBase DEF Below
  <1>5. Local(t, r, SubSeq(cs, 1, B - 1))
    BY <1>2, <1>4
  <1>6. /\ Consistent([th EXCEPT ![t] = r, ![cs[B - 1].th] = Left(th[cs[B - 1].th])], SubSeq(cs, 1, B - 1))
        /\ Last(SubSeq(cs, 1, B - 1)).th = cs[B - 1].th
        /\ Running(Left(th[cs[B - 1].th]), SubSeq(cs, 1, B - 1))
    BY <1>4, <1>5, Leave
  <1> QED
    BY <1>2, <1>4, <1>6

LEMMA LeaveState ==
    ASSUME Inv, NEW b, b = EntryOf(T), cs[b].by # "main", NEW v, v = Below(b),
           NEW h, Consistent(h, v), \A q \in Thread \ {T, Caller(T)} : h[q] = th[q],
           h[T].status # "none", Ready(h[T]) => cs[b].by # "close", th' = h, cs' = v
    PROVE  States!Step
  <1>1. PICK B : B = b
    OBVIOUS
  <1>2. PICK t : t = T
    OBVIOUS
  <1>3. B = EntryOf(T) /\ cs[B].by # "main"
    BY <1>1
  <1>4. /\ Stack(cs) /\ Stack(v) /\ t = Last(cs).th /\ Base(cs, B, t) /\ B > 1 /\ B \in Nat
        /\ v = SubSeq(cs, 1, B - 1) /\ Consistent(th, cs) /\ t \in Thread
    BY <1>1, <1>2, <1>3, Here, BaseHere, BelowBase DEF Below, Consistent
  <1>5. /\ t \in Actives(cs) /\ t # main /\ Last(v).th = Resumers(cs)[t]
        /\ Actives(v) = Actives(cs) \ {t}
        /\ Resumers(v) = [r \in DOMAIN Resumers(cs) \ {t} |-> Resumers(cs)[r]]
        /\ Closers(v) = Closers(cs) \ {t} /\ (t \in Closers(cs) => cs[B].by = "close")
    <2>1. Stack(SubSeq(cs, 1, B - 1))
      BY <1>4
    <2>2. /\ t \in Actives(cs) /\ t # main /\ Last(SubSeq(cs, 1, B - 1)).th = Resumers(cs)[t]
          /\ Actives(SubSeq(cs, 1, B - 1)) = Actives(cs) \ {t}
          /\ Resumers(SubSeq(cs, 1, B - 1)) = [r \in DOMAIN Resumers(cs) \ {t} |-> Resumers(cs)[r]]
          /\ Closers(SubSeq(cs, 1, B - 1)) = Closers(cs) \ {t} /\ (t \in Closers(cs) => cs[B].by = "close")
      BY ONLY <1>4, <2>1, MapBelow
    <2> QED
      BY <1>4, <2>2
  <1>6. PICK u : u = Caller(T)
    OBVIOUS
  <1>7. u \in Actives(v)
    <2>1. Last(v) = cs[B - 1] /\ u = cs[B - 1].th /\ Stack(v)
      BY <1>1, <1>3, <1>4, <1>6, BelowBase
    <2>2. Len(v) \in DOMAIN v /\ Last(v) = v[Len(v)]
      <3>1. v \in Seq(Entry) /\ Len(v) > 1
        BY <2>1 DEF Stack
      <3>2. Len(v) \in Nat /\ DOMAIN v = 1..Len(v) /\ Last(v) = v[Len(v)]
        BY <3>1, IsSeq
      <3> QED
        BY <3>1, <3>2
    <2> QED
      BY <2>1, <2>2 DEF Actives
  <1>8. u \in Actives(cs) /\ \A q \in {t, u} : h[q].status # "none" /\ th[q].status # "none"
    <2>1. u \in Actives(cs)
      BY <1>5, <1>7
    <2>2. h[u].status # "none" /\ th[u].status # "none" /\ th[t].status # "none"
      BY <1>4, <1>5, <1>7, <2>1, ActiveKnown
    <2> QED
      BY <1>2, <2>1, <2>2
  <1>9. u \in Thread
    BY <1>4, <1>8, ActiveKnown
  <1>10. Known(h) = Known(th) /\ \A q \in Thread \ {t, u} : Ready(h[q]) <=> Ready(th[q])
    <2>1. {t, u} \in SUBSET Thread /\ \A q \in Thread \ {t, u} : h[q] = th[q]
      BY <1>2, <1>4, <1>6, <1>9
    <2> QED
      BY <1>8, <2>1, OthersSame
  <1>11. \A q \in Thread \ {t} : q \in Waiting(h, v) <=> q \in Waiting(th, cs)
    BY <1>5, <1>7, <1>8, <1>10 DEF Waiting
  <1>12. t \notin Waiting(th, cs) /\ (t \in Waiting(h, v) <=> Ready(h[t]))
    BY <1>4, <1>5 DEF Waiting
  <1>13. Waiting(h, v) \in SUBSET Thread /\ Waiting(th, cs) \in SUBSET Thread
    BY DEF Waiting
  <1>14. \/ Waiting(h, v) = Waiting(th, cs)
         \/ Waiting(h, v) = Waiting(th, cs) \cup {t} /\ t \notin Closers(cs)
    <2>1. CASE Ready(h[t])
      <3>1. t \notin Closers(cs)
        BY <1>1, <1>2, <1>5, <2>1
      <3>2. Waiting(h, v) = Waiting(th, cs) \cup {t}
        BY <1>4, <1>11, <1>12, <1>13, <2>1
      <3> QED
        BY <3>1, <3>2
    <2>2. CASE ~Ready(h[t])
      BY <1>11, <1>12, <1>13, <2>2
    <2> QED
      BY <2>1, <2>2
  <1> QED
    BY <1>4, <1>5, <1>10, <1>14, LeaveStep

\* The piece of the running thread, a coroutine, ends.
LEMMA StepLeave ==
    ASSUME Inv, NEW b, b = EntryOf(T), cs[b].by # "main",
           NEW r \in State, Local(T, r, Below(b)), cs' = Below(b),
           r.status # "none", Ready(r) => cs[b].by # "close",
           NEW f, f = [th EXCEPT ![T] = r], th' = Return(f, Caller(T)),
           mode' \in {"run", "error", "throw"}
    PROVE  Kept
  <1>1. PICK B : B = b
    OBVIOUS
  <1>2. PICK t : t = T
    OBVIOUS
  <1>3. PICK u : u = cs[B - 1].th
    OBVIOUS
  <1>4. PICK v : v = SubSeq(cs, 1, B - 1)
    OBVIOUS
  <1>5. PICK k : k = SubSeq(th[u].ci, 1, Len(th[u].ci) - 1)
    OBVIOUS
  <1>6. PICK w : w = With(th[u], k, th[u].nC, th[u].errfunc)
    OBVIOUS
  <1>7. B = EntryOf(T) /\ cs[B].by # "main"
    BY <1>1
  <1>8. /\ B > 1 /\ Base(cs, B, t) /\ Consistent(th, cs) /\ t = Last(cs).th
        /\ u \in Thread /\ u # t /\ t \in Thread /\ th \in [Thread -> State] /\ Caller(T) = u
        /\ Caller_(cs, B, th[u])
    BY <1>2, <1>3, <1>7, Here, BaseHere, BelowBase
  <1>9. cs' = v /\ Local(t, r, v) /\ v = Below(B)
    BY <1>1, <1>2, <1>4 DEF Below
  <1>10. PICK h : h = [th EXCEPT ![t] = r, ![u] = w]
    OBVIOUS
  <1>11. Consistent(h, v) /\ Last(v).th = u /\ Running(w, v)
    <2>1. w = Left(th[u])
      BY <1>5, <1>6 DEF Left
    <2>2. /\ Consistent([th EXCEPT ![T] = r, ![Caller(T)] = Left(th[Caller(T)])], Below(b))
          /\ Last(Below(b)).th = Caller(T) /\ Running(Left(th[Caller(T)]), Below(b))
      BY LeaveHere
    <2> QED
      BY <1>1, <1>2, <1>8, <1>9, <1>10, <2>1, <2>2
  <1>12. h[u] = w
    BY <1>8, <1>10
  <1>13. th' = h
    <2>1. th[u] \in State /\ th[u].ci # <<>>
      BY <1>8 DEF Caller_
    <2>2. /\ th[u].ci \in Seq(Frame) /\ th[u].nC \in Counter /\ th[u].errfunc \in BOOLEAN
      BY <2>1, StateFields
    <2>3. k \in Seq(Frame)
      <3>1. PICK c \in Seq(Frame) : c = th[u].ci /\ c # <<>>
        BY <2>1, <2>2
      <3>2. SubSeq(c, 1, Len(c) - 1) \in Seq(Frame)
        BY <3>1, PopSeq
      <3> QED
        BY <1>5, <3>1, <3>2
    <2>4. w = [th[u] EXCEPT !.ci = k]
      BY <1>6, <2>1, <2>2, <2>3, WithParts
    <2>5. th' = [[th EXCEPT ![t] = r] EXCEPT ![u].ci = Pop(@, 1)]
      BY <1>2, <1>8 DEF Return
    <2>6. PICK g : g = [th EXCEPT ![t] = r]
      OBVIOUS
    <2>7. g \in [Thread -> State] /\ g[u] = th[u]
      BY <1>8, <2>6
    <2>8. th' = [g EXCEPT ![u] = [g[u] EXCEPT !.ci = Pop(g[u].ci, 1)]]
      BY <2>5, <2>6
    <2>9. Pop(g[u].ci, 1) = k
      BY <1>5, <2>7 DEF Pop
    <2>10. th' = [g EXCEPT ![u] = w]
      BY <2>4, <2>7, <2>8, <2>9
    <2> QED
      BY <1>10, <2>6, <2>10
  <1>14. Inv'
    BY <1>9, <1>11, <1>12, <1>13, After
  <1>15. States!Step
    <2>1. Consistent(h, v) /\ th' = h /\ cs' = v /\ v = Below(b) /\ h[T] = r
      BY <1>1, <1>2, <1>8, <1>9, <1>10, <1>11, <1>13
    <2>2. \A q \in Thread \ {T, Caller(T)} : h[q] = th[q]
      BY <1>2, <1>8, <1>10
    <2> QED
      BY <2>1, <2>2, LeaveState
  <1> QED
    BY <1>14, <1>15 DEF Kept

\* What a call needs, or a function that was resumed, is the base of its thread.
LEMMA NeedsBase ==
    ASSUME Inv, NEW b, b = EntryOf(T), NEW n \in DOMAIN cs, cs[n].th = T,
           Needs(cs[n]) \in {{"resume"}, {"close"}, {"main"}}
    PROVE  b = n - 1 /\ cs[b].by \in Needs(cs[n])
  <1>1. PICK B : B = b
    OBVIOUS
  <1>2. Stack(cs) /\ Base(cs, B, T) /\ DOMAIN cs = 1..Len(cs) /\ \A i \in DOMAIN cs : cs[i] \in Entry
    BY <1>1, Here, BaseHere
  <1>3. n > 1 /\ IsProtect(cs[n - 1]) /\ cs[n - 1].by \in Needs(cs[n])
    BY <1>2 DEF Stack, Protection
  <1>4. n - 1 \in DOMAIN cs /\ (n - 1) + 1 = n
    BY <1>2, <1>3
  <1>5. cs[n - 1].by \in {"resume", "close", "main"}
    BY <1>3
  <1>6. Protected(cs[n - 1], cs[(n - 1) + 1])
    BY <1>2, <1>3, <1>4, <1>5 DEF Stack, Protection
  <1>7. cs[n - 1].th = T
    BY <1>4, <1>6 DEF Protected
  <1>8. Base(cs, n - 1, T)
    BY <1>3, <1>4, <1>5, <1>7 DEF Base, IsBase
  <1>9. n - 1 = B
    BY <1>2, <1>8, OneBase
  <1> QED
    BY <1>1, <1>3, <1>9

\* The base of the main thread is that of the C stack, and of a thread that is closed
\* calls a closing method.
LEMMA BaseKinds ==
    ASSUME Inv, NEW b, b = EntryOf(T)
    PROVE  /\ cs[b] \in ProtectEntry /\ cs[b].nC \in Counter
           /\ cs[b].by \in {"main", "resume", "unroll", "close"}
           /\ cs[b].by = "main" => T = main
           /\ cs[b].by = "close" => /\ b + 1 \in DOMAIN Calls(cs, T)
                                    /\ Calls(cs, T)[b + 1].ny = 1
                                    /\ cs[b].k \in Methods
  <1>1. PICK B : B = b
    OBVIOUS
  <1>2. /\ Stack(cs) /\ cs \in Seq(Entry) /\ Base(cs, B, T) /\ DOMAIN cs = 1..Len(cs)
        /\ \A i \in DOMAIN cs : cs[i] \in Entry
    BY <1>1, Here, BaseHere
  <1>3. B \in DOMAIN cs /\ IsProtect(cs[B]) /\ cs[B].by # "pcall" /\ cs[B].th = T
    BY <1>2 DEF Base, IsBase
  <1>4. cs[B] \in ProtectEntry
    BY <1>2, <1>3, Entries
  <1>5. cs[B].nC \in Counter /\ cs[B].by \in {"main", "resume", "unroll", "close"}
    BY <1>3, <1>4 DEF ProtectEntry
  <1>6. cs[B].by = "main" => T = main
    BY <1>2, <1>3 DEF Stack, Protect
  <1>7. ASSUME cs[B].by = "close"
        PROVE  B + 1 \in DOMAIN Calls(cs, T) /\ Calls(cs, T)[B + 1].ny = 1 /\ cs[B].k \in Methods
    <2>1. B + 1 \in DOMAIN cs /\ Protected(cs[B], cs[B + 1])
      BY <1>2, <1>3, <1>7 DEF Stack, Protection
    <2>2. cs[B + 1] = CCall(T, "close", 1, 0) /\ cs[B].k \in Methods
      BY <1>3, <1>7, <2>1 DEF Protected
    <2>3. cs[B + 1].th = T /\ IsCall(cs[B + 1]) /\ cs[B + 1].ny = 1
      BY <2>2 DEF CCall, IsCall
    <2>4. /\ DOMAIN Calls(cs, T) = {i \in 1..Len(cs) : cs[i].th = T /\ IsCall(cs[i])}
          /\ \A i \in DOMAIN Calls(cs, T) : Calls(cs, T)[i] = cs[i]
      BY <1>2, CallsType
    <2>5. B + 1 \in DOMAIN Calls(cs, T)
      BY <1>2, <2>1, <2>3, <2>4
    <2> QED
      BY <2>2, <2>3, <2>4, <2>5
  <1> QED
    BY <1>1, <1>4, <1>5, <1>6, <1>7

LEMMA YieldKeeps ==
    ASSUME Inv, Yield
    PROVE  Kept
  <1>1. PICK b : b = EntryOf(T)
    OBVIOUS
  <1>2. PICK ci : ci = th[T].ci
    OBVIOUS
  <1>3. PICK G : G = Calls(cs, T)
    OBVIOUS
  <1>4. PICK e1 : e1 = th[T].errfunc
    OBVIOUS
  <1>5. PICK nC : nC = cs[b].nC
    OBVIOUS
  <1>6. PICK f : f = C("yield")
    OBVIOUS
  <1>7. PICK d : d = Append(ci, f)
    OBVIOUS
  <1>8. /\ mode = "run" /\ Yieldable(T) /\ T # main /\ cs' = Below(b) /\ mode' = "run"
        /\ th' = Return([th EXCEPT ![T].ci = d, ![T].nC = nC, ![T].status = "yield"], Caller(T))
    BY <1>1, <1>2, <1>5, <1>6, <1>7 DEF Yield, MayYield
  <1>9. /\ ci \in Seq(Frame) /\ G \in [DOMAIN G -> CallEntry] /\ DOMAIN G \in SUBSET Nat
        /\ Agree(ci, G) /\ e1 \in BOOLEAN /\ ~th[T].fn
        /\ ci # <<>> /\ IsLua(Last(ci)) /\ Entered(ci, G)
        /\ cs[b].by # "close" => HandlersAgree(ci, e1)
    BY <1>1, <1>2, <1>3, <1>4, <1>8, RunningThread
  <1>10. \A i \in DOMAIN G : G[i].ny = 0
    BY <1>3, <1>8, YieldableCalls
  <1>11. cs[b].by # "main" /\ cs[b].by # "close" /\ nC \in Counter
    <2>1. cs[b].by = "close" => b + 1 \in DOMAIN G /\ G[b + 1].ny = 1
      BY <1>1, <1>3, BaseKinds
    <2>2. cs[b].by = "main" => T = main
      BY <1>1, BaseKinds
    <2>3. cs[b].nC \in Counter
      BY <1>1, BaseKinds
    <2> QED
      BY <1>5, <1>8, <1>10, <2>1, <2>2, <2>3
  <1>12. f \in Frame /\ ~IsPCall(f) /\ f \in {Plain} \cup {C(kind) : kind \in {"resume", "wrap", "yield", "close"}}
    BY <1>6, CFrames
  <1>13. d \in Seq(Frame) /\ d # <<>> /\ Last(d) = C("yield") /\ Len(d) \in Nat
    BY <1>6, <1>7, <1>9, <1>12, Appended, IsSeq
  <1>14. HandlersAgree(d, e1)
    BY <1>7, <1>9, <1>11, <1>12, HandlersPush
  <1>15. PICK s : s = Below(b)
    OBVIOUS
  <1>16. Stack(s) /\ ~InStack(s, T)
    BY <1>1, <1>11, <1>15, BelowBase
  <1>17. PICK h : h = Calls(s, T)
    OBVIOUS
  <1>18. Agree(d, h)
    <2>1. Agree(d, G)
      BY <1>7, <1>9, <1>12, AgreePush
    <2>2. DOMAIN h = {}
      <3>1. s \in Seq(Entry)
        BY <1>16 DEF Stack
      <3> QED
        BY <1>16, <1>17, <3>1, NoCalls
    <2>3. PICK m \in 0..Len(d) : m = Len(d)
      BY <1>13
    <2>4. \A i \in DOMAIN G : G[i].ny = 1 => G[i].k > m
      BY <1>10
    <2>5. Agree(SubSeq(d, 1, m), h)
      BY <1>9, <1>13, <2>1, <2>2, <2>4, AgreeLost
    <2>6. SubSeq(d, 1, m) = d
      <3>1. PICK c : c = SubSeq(d, 1, m)
        OBVIOUS
      <3>2. c \in Seq(Frame) /\ Len(c) = Len(d) /\ \A i \in 1..Len(d) : c[i] = d[i]
        BY <1>13, <2>3, <3>1, Prefix
      <3> QED
        BY <1>13, <3>1, <3>2
    <2> QED
      BY <2>5, <2>6
  <1>19. th \in [Thread -> State] /\ T \in Thread /\ th[T] \in State
    BY Here
  <1>20. PICK r : r = [th[T] EXCEPT !.ci = d, !.nC = nC, !.status = "yield"]
    OBVIOUS
  <1>21. /\ r \in State /\ r.ci = d /\ r.status = "yield" /\ r.fn = th[T].fn
         /\ r.errfunc = e1
    BY <1>4, <1>11, <1>13, <1>19, <1>20 DEF State
  <1>22. Local(T, r, s)
    <2>1. /\ Agree(r.ci, Calls(s, T)) /\ r.status = "yield" /\ ~r.fn
          /\ r.ci # <<>> /\ Last(r.ci) = C("yield") /\ HandlersAgree(r.ci, r.errfunc)
      BY <1>9, <1>13, <1>14, <1>17, <1>18, <1>21
    <2> QED
      BY <1>16, <1>21, <2>1, LocalInactive
  <1>23. PICK g : g = [th EXCEPT ![T] = r]
    OBVIOUS
  <1>24. th' = Return(g, Caller(T))
    <2>1. [th EXCEPT ![T].ci = d, ![T].nC = nC, ![T].status = "yield"] = g
      BY <1>19, <1>20, <1>23
    <2> QED
      BY <1>8, <2>1
  <1>25. Local(T, r, Below(b)) /\ cs' = Below(b) /\ mode' \in {"run", "error", "throw"} /\ cs[b].by # "main"
    BY <1>8, <1>11, <1>15, <1>22
  <1> QED
    BY <1>1, <1>11, <1>21, <1>23, <1>24, <1>25, StepLeave

LEMMA ReturnFromBodyKeeps ==
    ASSUME Inv, ReturnFromBody
    PROVE  Kept
  <1>1. PICK b : b = EntryOf(T)
    OBVIOUS
  <1>2. PICK x : x = Last(cs)
    OBVIOUS
  <1>3. PICK nC : nC = cs[b].nC
    OBVIOUS
  <1>4. PICK d : d = <<>>
    OBVIOUS
  <1>5. /\ mode = "run" /\ T # main /\ (IsCall(x) => x.by = "body") /\ cs' = Below(b) /\ mode' = "run"
        /\ th' = Return([th EXCEPT ![T].ci = d, ![T].nC = nC], Caller(T))
    BY <1>1, <1>2, <1>3, <1>4 DEF ReturnFromBody, FreshReturn, ResumeEnds, e, IsCall
  <1>6. /\ Stack(cs) /\ DOMAIN cs = 1..Len(cs) /\ Len(cs) \in Nat /\ Len(cs) > 1 /\ x = cs[Len(cs)]
        /\ cs[Len(cs)].th = T /\ x \in Entry
    <2>1. x = cs[Len(cs)]
      BY <1>2, Here, IsSeq
    <2> QED
      BY <2>1, Here
  <1>7. PICK n \in DOMAIN cs : n = Len(cs) /\ cs[n] = x /\ cs[n].th = T
    BY <1>6
  <1>8. cs[b].by # "close" /\ cs[b].by # "main"
    <2>1. cs[b].by = "main" => T = main
      BY <1>1, BaseKinds
    <2>2. CASE IsProtect(x)
      <3>1. x.by = "unroll"
        <4>1. n + 1 \notin DOMAIN cs
          BY <1>6, <1>7
        <4> QED
          BY <1>6, <1>7, <2>2, <4>1 DEF Stack, Protection
      <3>2. Base(cs, n, T)
        BY <1>7, <2>2, <3>1 DEF Base, IsBase
      <3>3. n = b
        <4>1. Base(cs, b, T)
          BY <1>1, BaseHere
        <4> QED
          BY <1>6, <3>2, <4>1, OneBase
      <3> QED
        BY <1>7, <3>1, <3>3
    <2>3. CASE ~IsProtect(x)
      <3>1. Needs(x) = {"resume"}
        <4>1. ~IsCall(x) => x.what = "resumed"
          BY <1>6, <2>3, Entries
        <4> QED
          BY <1>5, <4>1 DEF Needs, IsCall
      <3>2. cs[b].by \in Needs(cs[n])
        BY <1>1, <1>7, <3>1, NeedsBase
      <3> QED
        BY <1>7, <3>1, <3>2
    <2> QED
      BY <2>2, <2>3
  <1>9. nC \in Counter
    <2>1. cs[b].nC \in Counter
      BY <1>1, BaseKinds
    <2> QED
      BY <1>3, <2>1
  <1>10. th[T].status = "ok" /\ ~th[T].fn
    <2>1. PICK ci : ci = th[T].ci
      OBVIOUS
    <2>2. PICK G : G = Calls(cs, T)
      OBVIOUS
    <2> QED
      BY <1>1, <1>8, <2>1, <2>2, RunningThread
  <1>11. PICK s : s = Below(b)
    OBVIOUS
  <1>12. Stack(s) /\ ~InStack(s, T)
    BY <1>1, <1>8, <1>11, BelowBase
  <1>13. Agree(d, Calls(s, T))
    <2>1. s \in Seq(Entry)
      BY <1>12 DEF Stack
    <2>2. DOMAIN Calls(s, T) = {}
      BY <1>12, <2>1, NoCalls
    <2> QED
      BY <1>4, <2>2, AgreeNone
  <1>14. th \in [Thread -> State] /\ T \in Thread /\ th[T] \in State
    BY Here
  <1>15. PICK r : r = [th[T] EXCEPT !.ci = d, !.nC = nC]
    OBVIOUS
  <1>16. d \in Seq(Frame)
    BY <1>4
  <1>17. r \in State /\ r.ci = d /\ r.status = "ok" /\ ~r.fn
    BY <1>9, <1>10, <1>14, <1>15, <1>16 DEF State
  <1>18. Local(T, r, s)
    BY <1>4, <1>12, <1>13, <1>17, LocalInactive
  <1>19. PICK g : g = [th EXCEPT ![T] = r]
    OBVIOUS
  <1>20. th' = Return(g, Caller(T))
    <2>1. [th EXCEPT ![T].ci = d, ![T].nC = nC] = g
      BY <1>14, <1>15, <1>19
    <2> QED
      BY <1>5, <2>1
  <1>21. Local(T, r, Below(b)) /\ cs' = Below(b) /\ mode' \in {"run", "error", "throw"} /\ cs[b].by # "main"
    BY <1>5, <1>8, <1>11, <1>18
  <1>22. r.status # "none" /\ ~Ready(r)
    BY <1>17 DEF Ready
  <1> QED
    BY <1>1, <1>17, <1>19, <1>20, <1>21, <1>22, StepLeave

\* A closing method of a coroutine begins, with `left' others to go.
CloseProtect(t, nC, left, failed) == Protect(t, "close", nC, [left |-> left - 1, failed |-> failed])
CloseCall(t) == CCall(t, "close", 1, 0)
CloseList(to) == IF to = "run" THEN <<Fresh>> ELSE <<>>

LEMMA CallOver ==
    ASSUME NEW s \in Seq(Entry), NEW p, NEW y, Begins(p, y, s)
    PROVE  IsCall(y) => /\ DOMAIN Calls(Over(s, p, y), p.th) = {Len(s) + 2}
                        /\ Calls(Over(s, p, y), p.th)[Len(s) + 2] = y
  <1>1. /\ p \in Entry /\ y \in Entry /\ ~InStack(s, p.th) /\ ~IsCall(p) /\ y.th = p.th
    BY DEF Begins, Protected, IsProtect, IsCall
  <1>2. PICK q : q = Append(s, p)
    OBVIOUS
  <1>3. PICK n \in Nat : n = Len(s) + 2 /\ n = Len(q) + 1 /\ q \in Seq(Entry)
    BY <1>1, <1>2, Appended, IsSeq
  <1>4. PICK g : g = Calls(q, p.th)
    OBVIOUS
  <1>5. DOMAIN g = {}
    BY <1>1, <1>2, <1>4, CallsPush, NoCalls
  <1>6. PICK h : h = Calls(Over(s, p, y), p.th)
    OBVIOUS
  <1>7. ASSUME IsCall(y)
        PROVE  DOMAIN h = {n} /\ h[n] = y
    <2>1. h = More(g, n, y)
      <3>1. PICK t : t = p.th
        OBVIOUS
      <3>2. h = Calls(Append(q, y), t) /\ g = Calls(q, t) /\ y.th = t
        BY <1>1, <1>2, <1>4, <1>6, <3>1 DEF Over
      <3>3. Calls(Append(q, y), t) = More(Calls(q, t), Len(q) + 1, y)
        BY <1>1, <1>3, <1>7, <3>2, CallsPush
      <3> QED
        BY <1>3, <3>2, <3>3
    <2>2. h = [i \in DOMAIN g \cup {n} |-> IF i = n THEN y ELSE g[i]]
      BY <2>1 DEF More
    <2>3. DOMAIN g \cup {n} = {n}
      BY <1>5
    <2> QED
      BY <2>2, <2>3
  <1> QED
    BY <1>3, <1>6, <1>7

LEMMA MethodBegins ==
    ASSUME NEW s, Stack(s), NEW t \in Thread, ~InStack(s, t),
           NEW q \in State, q.status # "none", ~q.fn,
           NEW nC \in Counter, NEW left \in Nat \ {0}, NEW failed \in BOOLEAN, NEW to
    PROVE  LET p == CloseProtect(t, nC, left, failed)
               y == CloseCall(t)
               v == Over(s, p, y)
               r == With(q, CloseList(to), Plus(nC, 1), q.errfunc)
           IN  /\ Begins(p, y, s) /\ p.th = t /\ p.by = "close" /\ y.th = t
               /\ r \in State /\ Local(t, r, v) /\ r.ci = CloseList(to)
               /\ to = "run" => r.ci # <<>> /\ IsLua(Last(r.ci)) /\ Entered(r.ci, Calls(v, t))
  <1>1. PICK P : P = CloseProtect(t, nC, left, failed)
    OBVIOUS
  <1>2. PICK Y : Y = CloseCall(t)
    OBVIOUS
  <1>3. PICK D : D = CloseList(to)
    OBVIOUS
  <1>4. /\ Y \in CallEntry /\ Y \in Entry /\ IsCall(Y) /\ ~IsProtect(Y) /\ Y.th = t /\ Y.by = "close"
        /\ Y.ny = 1 /\ Y = CCall(t, "close", 1, 0)
    BY <1>2, CallEntries DEF CloseCall
  <1>5. [left |-> left - 1, failed |-> failed] \in Methods
    BY DEF Methods
  <1>6. /\ P \in Entry /\ IsProtect(P) /\ P.by = "close" /\ P.th = t /\ P.nC = nC /\ P.k \in Methods
    BY <1>1, <1>5 DEF CloseProtect, Protect, IsProtect, Entry, ProtectEntry
  <1>7. Begins(P, Y, s)
    BY <1>4, <1>6 DEF Begins, Protected, Needs, IsCall
  <1>8. PICK z \in Seq(Entry) : z = s
    BY DEF Stack
  <1>9. PICK n \in Nat : n = Len(z) + 2
    BY <1>8, IsSeq
  <1>10. PICK h : h = Calls(Over(z, P, Y), P.th)
    OBVIOUS
  <1>11. DOMAIN h = {n} /\ h[n] = Y
    <2>1. Begins(P, Y, z)
      BY <1>7, <1>8
    <2>2. /\ DOMAIN Calls(Over(z, P, Y), P.th) = {Len(z) + 2}
          /\ Calls(Over(z, P, Y), P.th)[Len(z) + 2] = Y
      BY <1>4, <2>1, CallOver
    <2> QED
      BY <1>9, <1>10, <2>2
  <1>12. D \in {<<>>, <<Fresh>>} /\ (to = "run" => D = <<Fresh>>)
    BY <1>3 DEF CloseList
  <1>13. /\ D \in Seq(Frame) /\ Agree(D, h)
         /\ D = <<Fresh>> => D # <<>> /\ IsLua(Last(D)) /\ Entered(D, h)
    <2>1. Y = CCall(Y.th, "close", 1, 0)
      BY <1>4
    <2> QED
      BY <1>4, <1>11, <1>12, <2>1, BeginCall
  <1>14. h = Calls(Over(s, P, Y), P.th)
    BY <1>8, <1>10
  <1>15. Begun(P, Y) = Plus(nC, 1)
    BY <1>4, <1>6 DEF Begun
  <1>16. /\ With(q, D, Begun(P, Y), q.errfunc) \in State
         /\ Local(P.th, With(q, D, Begun(P, Y), q.errfunc), Over(s, P, Y))
         /\ With(q, D, Begun(P, Y), q.errfunc).ci = D
    <2>1. Agree(D, Calls(Over(s, P, Y), P.th)) /\ P.by = "close" /\ D \in Seq(Frame)
      BY <1>6, <1>13, <1>14
    <2> QED
      BY <1>7, <2>1, BeginLocal
  <1>17. PICK R : R = With(q, D, Plus(nC, 1), q.errfunc)
    OBVIOUS
  <1>18. R \in State /\ Local(t, R, Over(s, P, Y)) /\ R.ci = D
    BY <1>6, <1>15, <1>16, <1>17
  <1>19. to = "run" => R.ci # <<>> /\ IsLua(Last(R.ci)) /\ Entered(R.ci, Calls(Over(s, P, Y), t))
    BY <1>6, <1>12, <1>13, <1>14, <1>18
  <1> QED
    BY <1>1, <1>2, <1>3, <1>4, <1>6, <1>7, <1>17, <1>18, <1>19

LEMMA OverFields ==
    ASSUME NEW s \in Seq(Entry), NEW p, NEW y, Begins(p, y, s), s # <<>>
    PROVE  /\ Len(s) \in Nat /\ Over(s, p, y) \in Seq(Entry) /\ DOMAIN Over(s, p, y) = 1..Len(s) + 2
           /\ Over(s, p, y)[Len(s) + 1] = p /\ Over(s, p, y)[Len(s)] = s[Len(s)]
           /\ s \o <<p, y>> = Over(s, p, y) /\ Last(Over(s, p, y)).th = p.th
           /\ \A q : q # p.th => Same(s, Over(s, p, y), q)
  <1>1. p \in Entry /\ y \in Entry /\ y.th = p.th
    BY DEF Begins, Protected
  <1>2. PICK l \in Nat : l = Len(s) /\ l > 0
    BY IsSeq
  <1>3. PICK m : m = Append(s, p)
    OBVIOUS
  <1>4. /\ m \in Seq(Entry) /\ Len(m) = l + 1 /\ DOMAIN m = 1..l + 1 /\ m[l + 1] = p
        /\ \A i \in 1..l : m[i] = s[i]
    BY <1>1, <1>2, <1>3, Appended
  <1>5. PICK v : v = Append(m, y)
    OBVIOUS
  <1>6. /\ v \in Seq(Entry) /\ DOMAIN v = 1..(l + 1) + 1 /\ Last(v) = y
        /\ \A i \in 1..l + 1 : v[i] = m[i]
    BY <1>1, <1>4, <1>5, Appended
  <1>7. DOMAIN v = 1..l + 2 /\ v[l + 1] = p /\ v[l] = s[l]
    <2>1. l + 1 \in 1..l + 1 /\ l \in 1..l + 1 /\ l \in 1..l /\ (l + 1) + 1 = l + 2
      BY <1>2
    <2>2. DOMAIN v = 1..l + 2
      BY <1>6, <2>1
    <2>3. v[l + 1] = m[l + 1] /\ v[l] = m[l] /\ m[l] = s[l]
      BY <1>4, <1>6, <2>1
    <2> QED
      BY <1>4, <2>2, <2>3
  <1>8. \A q : q # p.th => Same(s, v, q)
    <2> TAKE q
    <2>1. Same(s, m, q) \/ q = p.th
      BY <1>1, <1>3, SamePush
    <2>2. Same(m, v, q) \/ q = p.th
      BY <1>1, <1>4, <1>5, SamePush
    <2> QED
      BY <2>1, <2>2, SameTrans
  <1>9. s \o <<p, y>> = v
    BY <1>1, <1>3, <1>5
  <1>10. v = Over(s, p, y)
    BY <1>3, <1>5 DEF Over
  <1> QED
    BY <1>1, <1>2, <1>6, <1>7, <1>8, <1>9, <1>10

\* The next closing method of the running thread, whose methods, or body, have failed
\* or returned.
LEMMA CloseSelfNext ==
    ASSUME Inv, NEW b, b = EntryOf(T), cs[b].by # "main",
           NEW q \in State, q.status # "none", ~q.fn, NEW f, f = [th EXCEPT ![T] = q],
           NEW nC \in Counter, NEW left \in Nat \ {0}, NEW failed \in BOOLEAN,
           Last(th[cs[b - 1].th].ci) \in {C("close"), C("wrap")},
           CloseNext(f, Below(b), T, nC, left, failed)
    PROVE  Kept
  <1>1. PICK s : s = Below(b)
    OBVIOUS
  <1>2. PICK p : p = CloseProtect(T, nC, left, failed)
    OBVIOUS
  <1>3. PICK y : y = CloseCall(T)
    OBVIOUS
  <1>4. PICK v : v = Over(s, p, y)
    OBVIOUS
  <1>5. PICK r : r = With(q, CloseList(mode'), Plus(nC, 1), q.errfunc)
    OBVIOUS
  <1>6. /\ Stack(s) /\ ~InStack(s, T) /\ Len(s) = b - 1 /\ b \in Nat /\ b > 1
        /\ \A z \in Thread \ {T} : Same(cs, s, z)
        /\ \A i \in 1..b - 1 : s[i] = cs[i]
    BY <1>1, BelowBase
  <1>7. PICK S \in Seq(Entry) : S = s /\ S # <<>> /\ Len(S) + 1 = b /\ Len(S) = b - 1 /\ S[b - 1] = cs[b - 1]
    <2>1. s \in Seq(Entry) /\ s # <<>>
      BY <1>6 DEF Stack
    <2>2. b - 1 \in 1..b - 1 /\ (b - 1) + 1 = b
      BY <1>6
    <2> QED
      BY <1>6, <2>1, <2>2
  <1>8. T \in Thread /\ th[T] \in State /\ th \in [Thread -> State] /\ cs \in Seq(Entry)
    BY Here
  <1>9. /\ Begins(p, y, s) /\ p.th = T /\ p.by = "close" /\ y.th = T
        /\ r \in State /\ Local(T, r, v) /\ r.ci = CloseList(mode')
        /\ mode' = "run" => r.ci # <<>> /\ IsLua(Last(r.ci)) /\ Entered(r.ci, Calls(v, T))
    <2>1. Stack(s) /\ ~InStack(s, T) /\ T \in Thread
      BY <1>6, <1>8
    <2> QED
      BY <1>2, <1>3, <1>4, <1>5, <2>1, MethodBegins
  <1>10. /\ v \in Seq(Entry) /\ DOMAIN v = 1..Len(S) + 2 /\ v[b] = p /\ v[b - 1] = cs[b - 1]
         /\ S \o <<p, y>> = v /\ Last(v).th = T
         /\ \A z : z # T => Same(S, v, z)
    <2>1. Begins(p, y, S) /\ v = Over(S, p, y)
      BY <1>4, <1>7, <1>9
    <2>2. /\ Over(S, p, y) \in Seq(Entry) /\ DOMAIN Over(S, p, y) = 1..Len(S) + 2
          /\ Over(S, p, y)[Len(S) + 1] = p /\ Over(S, p, y)[Len(S)] = S[Len(S)]
          /\ S \o <<p, y>> = Over(S, p, y) /\ Last(Over(S, p, y)).th = p.th
          /\ \A z : z # p.th => Same(S, Over(S, p, y), z)
      <3>1. S # <<>> /\ S \in Seq(Entry)
        BY <1>7
      <3> QED
        BY ONLY <3>1, <2>1, OverFields
    <2> QED
      BY <1>7, <1>9, <2>1, <2>2
  <1>11. Stack(v)
    <2>1. /\ p \in Entry /\ y \in Entry /\ IsProtect(p) /\ p.by \in {"resume", "close", "pcall"}
          /\ Protected(p, y) /\ Needs(y) \in {{}, {p.by}} /\ ~IsProtect(y) /\ ~InStack(s, p.th)
          /\ IsBase(p)
      BY <1>9 DEF Begins, IsBase
    <2>2. Stack(Append(Append(s, p), y))
      BY <1>6, <2>1, StackProtect
    <2> QED
      BY <1>4, <2>2 DEF Over
  <1>12. Base(v, b, T)
    <2>1. b \in DOMAIN v
      BY <1>6, <1>7, <1>10
    <2>2. IsBase(p)
      BY <1>9 DEF Begins, IsBase
    <2> QED
      BY <1>9, <1>10, <2>1, <2>2 DEF Base
  <1>13. \A z \in Thread \ {T} : Same(cs, v, z)
    <2> TAKE z \in Thread \ {T}
    <2>1. Same(cs, s, z) /\ Same(s, v, z)
      BY <1>6, <1>7, <1>10
    <2> QED
      BY <2>1, SameTrans
  <1>14. cs' = v /\ mode' \in {"run", "error", "throw"} /\ th' = [th EXCEPT ![T] = r]
    <2>1. /\ cs' = S \o <<p, y>> /\ mode' = AfterCount(Plus(nC, 1))
          /\ th' = [f EXCEPT ![T].nC = Plus(nC, 1), ![T].ci = CloseList(mode')]
      <3>1. left > 0
        OBVIOUS
      <3>2. /\ cs' = Below(b) \o <<p, y>> /\ mode' = AfterCount(Plus(nC, 1))
            /\ th' = [f EXCEPT ![T].nC = Plus(nC, 1), ![T].ci = IF mode' = "run" THEN <<Lua(TRUE)>> ELSE <<>>]
        BY <1>2, <1>3, <3>1 DEF CloseNext, CloseProtect, CloseCall
      <3> QED
        BY <1>1, <1>7, <3>2 DEF CloseList, Fresh
    <2>2. f[T] = q /\ f \in [Thread -> State]
      BY <1>8
    <2>3. th' = [f EXCEPT ![T] = [q EXCEPT !.nC = Plus(nC, 1), !.ci = CloseList(mode')]]
      BY <1>8, <2>1, <2>2
    <2>4. [q EXCEPT !.nC = Plus(nC, 1), !.ci = CloseList(mode')] = r
      BY <1>5 DEF With, State
    <2>5. th' = [th EXCEPT ![T] = r]
      BY <1>8, <2>3, <2>4
    <2> QED
      BY <1>10, <2>1, <2>5, AfterCounts
  <1>15. /\ v[b].by = "close" => Last(th[cs[b - 1].th].ci) \in {C("close"), C("wrap")}
         /\ v[b].by # "close" => cs[b].by # "close" /\ v[b].nC = cs[b].nC
    BY <1>9, <1>10
  <1>16. v[b - 1] = cs[b - 1] /\ Last(v).th = T
    BY <1>10
  <1>17. mode' = "run" => r.ci # <<>> /\ IsLua(Last(r.ci)) /\ Entered(r.ci, Calls(v, T))
    BY <1>9
  <1> QED
    BY <1>9, <1>11, <1>12, <1>13, <1>14, <1>15, <1>16, <1>17, Restarted

\* After the last closing method.
LEMMA CloseSelfEnds ==
    ASSUME Inv, NEW b, b = EntryOf(T), cs[b].by # "main",
           NEW q \in State, q.status # "none", ~q.fn, NEW f, f = [th EXCEPT ![T] = q],
           NEW nC \in Counter, NEW failed \in BOOLEAN,
           CloseNext(f, Below(b), T, nC, 0, failed)
    PROVE  Kept
  <1>1. PICK d : d = <<>>
    OBVIOUS
  <1>2. PICK a \in {"ok", "error"} : a = IF failed THEN "error" ELSE "ok"
    OBVIOUS
  <1>3. PICK r : r = [q EXCEPT !.nC = nC, !.ci = d, !.fn = FALSE, !.status = a]
    OBVIOUS
  <1>4. d \in Seq(Frame)
    BY <1>1
  <1>5. r \in State /\ r.ci = d /\ r.status = a /\ r.fn = FALSE
    BY <1>3, <1>4 DEF State
  <1>6. T \in Thread /\ th \in [Thread -> State]
    BY Here
  <1>7. PICK u : u = Caller(T)
    OBVIOUS
  <1>8. PICK g : g = [th EXCEPT ![T] = r]
    OBVIOUS
  <1>9. Stack(Below(b)) /\ ~InStack(Below(b), T) /\ Last(Below(b)).th = u
    BY <1>7, BelowBase
  <1>10. /\ cs' = Below(b) /\ mode' \in {"run", "error", "throw"} /\ th' = Return(g, u)
    <2>1. /\ cs' = Below(b) /\ mode' \in {"run", "error"}
          /\ th' = Return([f EXCEPT ![T].nC = nC, ![T].ci = d, ![T].fn = FALSE, ![T].status = a], u)
      BY <1>1, <1>2, <1>9 DEF CloseNext
    <2>2. f[T] = q /\ f \in [Thread -> State]
      BY <1>6
    <2>3. [f EXCEPT ![T].nC = nC, ![T].ci = d, ![T].fn = FALSE, ![T].status = a] = g
      BY <1>3, <1>6, <1>8, <2>2
    <2> QED
      BY <2>1, <2>3
  <1>11. Local(T, r, Below(b))
    <2>1. Below(b) \in Seq(Entry)
      BY <1>9 DEF Stack
    <2>2. DOMAIN Calls(Below(b), T) = {}
      BY <1>9, <2>1, NoCalls
    <2>3. Agree(r.ci, Calls(Below(b), T))
      BY <1>1, <1>5, <2>2, AgreeNone
    <2>4. r.ci = <<>> /\ r.status # "none" /\ ~r.fn /\ r.status # "yield"
      BY <1>1, <1>2, <1>5
    <2> QED
      BY <1>5, <1>9, <2>3, <2>4, LocalInactive
  <1>12. r.status # "none" /\ ~Ready(r)
    BY <1>2, <1>5 DEF Ready
  <1> QED
    BY <1>5, <1>7, <1>8, <1>10, <1>11, <1>12, StepLeave

LEMMA CloseSelf ==
    ASSUME Inv, NEW b, b = EntryOf(T), cs[b].by # "main",
           NEW q \in State, q.status # "none", ~q.fn, NEW f, f = [th EXCEPT ![T] = q],
           NEW nC \in Counter, NEW left \in Nat, NEW failed \in BOOLEAN,
           Last(th[cs[b - 1].th].ci) \in {C("close"), C("wrap")},
           CloseNext(f, Below(b), T, nC, left, failed)
    PROVE  Kept
  <1>1. CASE left = 0
    <2>1. CloseNext(f, Below(b), T, nC, 0, failed)
      BY <1>1
    <2> QED
      BY <2>1, CloseSelfEnds
  <1>2. CASE left # 0
    <2>1. left \in Nat \ {0}
      BY <1>2
    <2> QED
      BY <2>1, CloseSelfNext
  <1> QED
    BY <1>1, <1>2

\* A closing method of the running thread is over.
LEMMA MethodOver ==
    ASSUME Inv, NEW b, b = EntryOf(T), cs[b].by = "close", NEW failed \in BOOLEAN,
           CloseNext(th, Below(b), T, cs[b].nC, cs[b].k.left, failed)
    PROVE  Kept
  <1>1. /\ cs[b].nC \in Counter /\ cs[b].k \in Methods
    BY BaseKinds
  <1>2. PICK nC \in Counter : nC = cs[b].nC
    BY <1>1
  <1>3. PICK left \in Nat : left = cs[b].k.left
    BY <1>1 DEF Methods
  <1>4. cs[b].by # "main"
    OBVIOUS
  <1>5. Caller_(cs, b, th[cs[b - 1].th])
    BY <1>4, BelowBase
  <1>6. Last(th[cs[b - 1].th].ci) \in {C("close"), C("wrap")}
    BY <1>5 DEF Caller_
  <1>7. PICK q : q = th[T]
    OBVIOUS
  <1>8. q \in State /\ th \in [Thread -> State] /\ T \in Thread
    BY <1>7, Here
  <1>9. q.status # "none" /\ ~q.fn
    <2>1. PICK ci : ci = th[T].ci
      OBVIOUS
    <2>2. PICK G : G = Calls(cs, T)
      OBVIOUS
    <2>3. th[T].status # "none" /\ ~th[T].fn
      BY <2>1, <2>2, RunningThread
    <2> QED
      BY <1>7, <2>3
  <1>10. PICK f : f = [th EXCEPT ![T] = q]
    OBVIOUS
  <1>11. f = th
    BY <1>7, <1>8, <1>10
  <1>12. CloseNext(f, Below(b), T, nC, left, failed)
    BY <1>2, <1>3, <1>11
  <1> QED
    BY <1>4, <1>6, <1>8, <1>9, <1>10, <1>12, CloseSelf

LEMMA ThrowToCloseKeeps ==
    ASSUME Inv, ThrowToClose
    PROVE  Kept
  <1>1. PICK j \in DOMAIN cs : /\ Throw({"close"}, j)
                               /\ CloseNext(th, Below(j), T, cs[j].nC, cs[j].k.left, TRUE)
    BY DEF ThrowToClose
  <1>2. j = EntryOf(T) /\ cs[j].by = "close"
    BY <1>1, ThrowBase
  <1> QED
    BY <1>1, <1>2, MethodOver

LEMMA ReturnFromMethodKeeps ==
    ASSUME Inv, ReturnFromMethod
    PROVE  Kept
  <1>1. PICK b : b = EntryOf(T)
    OBVIOUS
  <1>2. PICK x : x = Last(cs)
    OBVIOUS
  <1>3. /\ IsCall(x) /\ x.by = "close"
        /\ CloseNext(th, Below(b), T, cs[b].nC, cs[b].k.left, cs[b].k.failed)
    BY <1>1, <1>2 DEF ReturnFromMethod, e, IsCall
  <1>4. PICK n \in DOMAIN cs : n = Len(cs) /\ cs[n] = x /\ cs[n].th = T
    <2>1. x = cs[Len(cs)]
      BY <1>2, Here, IsSeq
    <2> QED
      BY <2>1, Here
  <1>5. Needs(cs[n]) = {"close"}
    BY <1>3, <1>4 DEF Needs, IsCall
  <1>6. cs[b].by \in Needs(cs[n])
    BY <1>1, <1>4, <1>5, NeedsBase
  <1>7. cs[b].by = "close"
    BY <1>5, <1>6
  <1>8. cs[b].k \in Methods
    BY <1>1, <1>7, BaseKinds
  <1>9. cs[b].k.failed \in BOOLEAN
    BY <1>8 DEF Methods
  <1> QED
    BY <1>1, <1>3, <1>7, <1>9, MethodOver

LEMMA ThrowToResumeKeeps ==
    ASSUME Inv, ThrowToResume
    PROVE  Kept
  <1>1. PICK b \in DOMAIN cs :
           /\ Throw({"resume", "unroll"}, b)
           /\ LET u == Caller(T)
                  dead == [th EXCEPT ![T].status = "error", ![T].nC = cs[b].nC]
              IN  IF Top(u).kind = "resume"
                  THEN th' = Return(dead, u) /\ cs' = Below(b) /\ mode' = "run"
                  ELSE \E left \in 0..MaxMethods : CloseNext(dead, Below(b), T, cs[b].nC, left, TRUE)
    BY DEF ThrowToResume
  <1>2. b = EntryOf(T) /\ cs[b].by \in {"resume", "unroll"}
    BY <1>1, ThrowBase
  <1>3. PICK nC : nC = cs[b].nC
    OBVIOUS
  <1>4. nC \in Counter /\ cs[b].by # "main" /\ cs[b].by # "close"
    BY <1>2, <1>3, BaseKinds
  <1>5. PICK u : u = Caller(T)
    OBVIOUS
  <1>6. /\ Stack(Below(b)) /\ ~InStack(Below(b), T) /\ u = cs[b - 1].th
        /\ Caller_(cs, b, th[u])
    BY <1>2, <1>4, <1>5, BelowBase
  <1>7. Last(th[u].ci) \in {C("resume"), C("wrap")}
    BY <1>4, <1>6 DEF Caller_
  <1>8. PICK q : q = [th[T] EXCEPT !.status = "error", !.nC = nC]
    OBVIOUS
  <1>9. th \in [Thread -> State] /\ T \in Thread /\ th[T] \in State
    BY Here
  <1>10. ~th[T].fn
    <2>1. PICK ci : ci = th[T].ci
      OBVIOUS
    <2>2. PICK G : G = Calls(cs, T)
      OBVIOUS
    <2> QED
      BY <2>1, <2>2, RunningThread
  <1>11. q \in State /\ q.status = "error" /\ ~q.fn
    BY <1>4, <1>8, <1>9, <1>10 DEF State
  <1>12. PICK f : f = [th EXCEPT ![T] = q]
    OBVIOUS
  <1>13. [th EXCEPT ![T].status = "error", ![T].nC = cs[b].nC] = f
    BY <1>3, <1>8, <1>9, <1>12
  <1>14. CASE Top(u).kind = "resume"
    <2>1. th' = Return(f, Caller(T)) /\ cs' = Below(b) /\ mode' = "run"
      BY <1>1, <1>5, <1>13, <1>14
    <2>2. Local(T, q, Below(b))
      BY <1>6, <1>11, LocalInactive
    <2>3. mode' \in {"run", "error", "throw"}
      BY <2>1
    <2>4. q.status # "none" /\ ~Ready(q)
      BY <1>11 DEF Ready
    <2> QED
      BY <1>2, <1>4, <1>11, <1>12, <2>1, <2>2, <2>3, <2>4, StepLeave
  <1>15. CASE Top(u).kind # "resume"
    <2>1. PICK left \in 0..MaxMethods : CloseNext(f, Below(b), T, nC, left, TRUE)
      BY <1>1, <1>3, <1>5, <1>13, <1>15
    <2>2. left \in Nat
      BY ConstantsAssumption
    <2>3. Last(th[cs[b - 1].th].ci) \in {C("close"), C("wrap")}
      <3>1. Last(th[u].ci) # C("resume")
        BY <1>15 DEF Top, C
      <3> QED
        BY <1>6, <1>7, <3>1
    <2>4. q.status # "none" /\ ~q.fn
      BY <1>11
    <2> QED
      BY <1>2, <1>4, <1>11, <1>12, <2>1, <2>2, <2>3, <2>4, CloseSelf
  <1> QED
    BY <1>14, <1>15

LEMMA InitStack ==
    ASSUME NEW p, p = Protect(main, "main", [c |-> 0, ny |-> 1], 0),
           NEW y, y = CCall(main, "main", 1, 0), NEW s, s = <<p, y>>
    PROVE  /\ Stack(s) /\ Last(s).th = main /\ DOMAIN s = 1..2 /\ Base(s, 1, main)
           /\ \A i \in DOMAIN s : s[i].th = main
           /\ \A b \in DOMAIN s : IsBase(s[b]) => b = 1
           /\ CountsAgree(main, [c |-> 1, ny |-> 2], s)
           /\ DOMAIN Calls(s, main) = {2} /\ Calls(s, main)[2] = y
  <1>1. main \in Thread
    BY ConstantsAssumption
  <1>2. /\ p \in Entry /\ IsProtect(p) /\ p.by = "main" /\ p.th = main /\ p.nC = [c |-> 0, ny |-> 1]
        /\ IsBase(p) /\ Needs(p) = {} /\ ~IsCall(p)
    BY <1>1 DEF Protect, IsProtect, IsBase, IsCall, Needs, Entry, ProtectEntry, Counter
  <1>3. /\ y \in Entry /\ IsCall(y) /\ ~IsProtect(y) /\ y.th = main /\ y.ny = 1 /\ ~IsBase(y)
        /\ Needs(y) = {"main"}
    BY <1>1, CallEntries DEF IsBase, Needs, CCall, IsCall
  <1>4. /\ s \in Seq(Entry) /\ Len(s) = 2 /\ DOMAIN s = 1..2 /\ s[1] = p /\ s[2] = y
        /\ \A i \in DOMAIN s : i = 1 \/ i = 2
    BY <1>2, <1>3
  <1>5. Last(s).th = main
    <2>1. Last(s) = s[Len(s)]
      BY DEF Last
    <2> QED
      BY <1>3, <1>4, <2>1
  <1>6. \A i \in DOMAIN s : s[i].th = main
    BY <1>2, <1>3, <1>4
  <1>7. \A b \in DOMAIN s : IsBase(s[b]) => b = 1
    BY <1>3, <1>4
  <1>8. 1 \in DOMAIN s /\ 2 \in DOMAIN s /\ 1 + 1 = 2
    BY <1>4
  <1>9. Base(s, 1, main)
    BY <1>2, <1>4, <1>8 DEF Base
  <1>10. Pieces(s)
    <2>1. \A i, k \in DOMAIN s : i <= k /\ s[i].th = s[k].th => \A j \in i..k : s[j].th = s[i].th
      BY <1>4, <1>6
    <2>2. \A i \in DOMAIN s : \E b \in 1..i : IsBase(s[b]) /\ s[b].th = s[i].th
      BY <1>2, <1>4, <1>6
    <2>3. \A b \in DOMAIN s : IsBase(s[b]) => \A i \in 1..b - 1 : s[i].th # s[b].th
      BY <1>7
    <2> QED
      BY <2>1, <2>2, <2>3 DEF Pieces
  <1>11. Protection(s)
    <2>1. Protected(p, y)
      BY <1>2, <1>3 DEF Protected
    <2>2. \A i \in DOMAIN s : IsProtect(s[i]) => i = 1
      BY <1>3, <1>4
    <2>3. \A i \in DOMAIN s : Needs(s[i]) # {} => i = 2
      BY <1>2, <1>4
    <2> QED
      BY <1>2, <1>3, <1>4, <1>8, <2>1, <2>2, <2>3 DEF Protection
  <1>12. Stack(s)
    <2>1. \A i \in DOMAIN s : IsProtect(s[i]) /\ s[i].by = "main" => i = 1
      BY <1>3, <1>4
    <2> QED
      BY <1>4, <1>10, <1>11, <2>1 DEF Stack
  <1>13. CountsAgree(main, [c |-> 1, ny |-> 2], s)
    <2>1. PICK z : z = <<>>
      OBVIOUS
    <2>11. z \in Seq(Entry)
      BY <2>1
    <2>2. ~InStack(z, p.th)
      BY <2>1 DEF InStack
    <2>3. CountsAgree(p.th, p.nC, Append(z, p))
      BY <1>2, <2>2, <2>11, CountsBegin
    <2>4. PICK w : w = Append(z, p)
      OBVIOUS
    <2>5. w \in Seq(Entry) /\ s = Append(w, y)
      BY <1>2, <2>1, <2>4, <2>11
    <2>6. PICK n \in Counter : n = [c |-> 0, ny |-> 1]
      BY DEF Counter
    <2>7. CountsAgree(y.th, n, w) /\ ~IsBase(y) /\ ~IsProtect(y)
      BY <1>2, <1>3, <2>3, <2>4, <2>6
    <2>8. PICK m : m = [c |-> 1, ny |-> 2]
      OBVIOUS
    <2>9. m = [c |-> n.c + 1, ny |-> IF IsCall(y) /\ y.ny = 1 THEN n.ny + 1 ELSE n.ny]
      BY <1>3, <2>6, <2>8
    <2>10. CountsAgree(y.th, m, Append(w, y))
      BY <1>3, <2>5, <2>7, <2>9, CountsPush
    <2> QED
      BY <1>3, <2>5, <2>8, <2>10
  <1>14. DOMAIN Calls(s, main) = {2} /\ Calls(s, main)[2] = y
    <2>1. {i \in DOMAIN s : s[i].th = main /\ IsCall(s[i])} = {2}
      BY <1>2, <1>3, <1>4, <1>8
    <2> QED
      BY <1>4, <2>1 DEF Calls
  <1> QED
    BY <1>4, <1>5, <1>6, <1>7, <1>9, <1>12, <1>13, <1>14

LEMMA InitInv ==
    ASSUME Init
    PROVE  Inv
  <1>1. PICK p : p = Protect(main, "main", [c |-> 0, ny |-> 1], 0)
    OBVIOUS
  <1>2. PICK y : y = CCall(main, "main", 1, 0)
    OBVIOUS
  <1>3. PICK s : s = <<p, y>>
    OBVIOUS
  <1>4. /\ Stack(s) /\ Last(s).th = main /\ DOMAIN s = 1..2 /\ Base(s, 1, main)
        /\ \A i \in DOMAIN s : s[i].th = main
        /\ \A b \in DOMAIN s : IsBase(s[b]) => b = 1
        /\ CountsAgree(main, [c |-> 1, ny |-> 2], s)
        /\ DOMAIN Calls(s, main) = {2} /\ Calls(s, main)[2] = y
    BY <1>1, <1>2, <1>3, InitStack
  <1>5. cs = s /\ mode = "run"
    BY <1>1, <1>2, <1>3 DEF Init
  <1>6. main \in Thread
    BY ConstantsAssumption
  <1>7. y \in CallEntry /\ y.th = main
    BY <1>2, <1>6, CallEntries
  <1>8. PICK r : r = th[main]
    OBVIOUS
  <1>9. PICK d : d = <<Fresh>>
    OBVIOUS
  <1>10. PICK a : a = <<>>
    OBVIOUS
  <1>11. PICK h : h = Calls(s, main)
    OBVIOUS
  <1>12. d \in Seq(Frame) /\ a \in Seq(Frame) /\ Agree(d, h) /\ HandlersAgree(d, FALSE)
         /\ d # <<>> /\ IsLua(Last(d)) /\ Entered(d, h)
    <2>1. PICK n \in Nat : n = 2
      OBVIOUS
    <2>2. DOMAIN h = {n} /\ h[n] = y
      BY <1>4, <1>11, <2>1
    <2>3. y = CCall(y.th, "main", 1, 0)
      BY <1>2, <1>7
    <2>4. d \in {<<>>, <<Fresh>>}
      BY <1>9
    <2>5. /\ d \in Seq(Frame) /\ Agree(d, h) /\ HandlersAgree(d, FALSE)
          /\ d = <<Fresh>> => d # <<>> /\ IsLua(Last(d)) /\ Entered(d, h)
      BY <1>7, <2>2, <2>3, <2>4, BeginCall
    <2>6. a \in Seq(Frame)
      BY <1>10
    <2> QED
      BY <1>9, <2>5, <2>6
  <1>13. th = [t \in Thread |-> IF t = main
                 THEN [status |-> "ok", fn |-> FALSE, ci |-> d, nC |-> [c |-> 1, ny |-> 2], errfunc |-> FALSE]
                 ELSE [status |-> "none", fn |-> FALSE, ci |-> a, nC |-> [c |-> 0, ny |-> 0], errfunc |-> FALSE]]
    BY <1>9, <1>10 DEF Init, Fresh
  <1>14. /\ r \in State /\ r.status = "ok" /\ ~r.fn /\ r.ci = d /\ r.nC = [c |-> 1, ny |-> 2]
         /\ r.errfunc = FALSE
    BY <1>6, <1>8, <1>12, <1>13 DEF State, Counter
  <1>15. Local(main, r, s)
    <2>1. Agree(r.ci, Calls(s, main)) /\ r.status # "none" /\ CountsAgree(main, r.nC, s)
          /\ r.status = "ok" /\ HandlersAgree(r.ci, r.errfunc)
      BY <1>4, <1>11, <1>12, <1>14
    <2> QED
      BY <1>4, <1>14, <2>1, LocalActive
  <1>16. \A t \in Thread \ {main} : th[t] \in State /\ Local(t, th[t], s)
    <2> SUFFICES ASSUME NEW t \in Thread \ {main}
                 PROVE  th[t] \in State /\ Local(t, th[t], s)
      OBVIOUS
    <2>1. ~InStack(s, t)
      BY <1>4 DEF InStack
    <2>2. s \in Seq(Entry)
      BY <1>4 DEF Stack
    <2>3. DOMAIN Calls(s, t) = {}
      BY <2>1, <2>2, NoCalls
    <2>4. Agree(a, Calls(s, t))
      BY <1>10, <2>3, AgreeNone
    <2>5. PICK q : q = th[t]
      OBVIOUS
    <2>6. q \in State /\ q.status = "none" /\ ~q.fn /\ q.ci = a /\ ~q.errfunc
      BY <1>12, <1>13, <2>5 DEF State, Counter
    <2>7. Local(t, q, s)
      BY <1>10, <2>1, <2>4, <2>6, LocalInactive
    <2> QED
      BY <2>5, <2>6, <2>7
  <1>17. th \in [Thread -> State] /\ \A t \in Thread : Local(t, th[t], s)
    <2>1. \A t \in Thread : th[t] \in State /\ Local(t, th[t], s)
      BY <1>8, <1>14, <1>15, <1>16
    <2>2. th = [t \in Thread |-> th[t]]
      BY <1>13
    <2> QED
      BY <2>1, <2>2
  <1>18. Callers(th, s)
    <2>1. ~(\E b \in DOMAIN s : b > 1 /\ IsBase(s[b]))
      BY <1>4
    <2>2. ~(\E i \in DOMAIN s : s[i].th # Last(s).th)
      BY <1>4
    <2> QED
      BY <2>1, <2>2 DEF Callers
  <1>19. Consistent(th, s)
    BY <1>4, <1>17, <1>18 DEF Consistent
  <1>20. T = main
    BY <1>4, <1>5 DEF T
  <1>21. Running(th[T], cs)
    <2>1. r.ci # <<>> /\ IsLua(Last(r.ci)) /\ Entered(r.ci, Calls(s, main))
      BY <1>11, <1>12, <1>14
    <2> QED
      BY <1>4, <1>5, <1>8, <1>20, <2>1 DEF Running
  <1> QED
    BY <1>5, <1>19, <1>21 DEF Inv

-----------------------------------------------------------------------------
(* coroutine.close.                                                        *)

\* A coroutine that may be closed is not on the C stack.
LEMMA Closable ==
    ASSUME Inv, mode = "run", NEW t \in Thread, AuxStatus(t) \in {"suspended", "dead"}, ~Closing(t)
    PROVE  ~InStack(cs, t) /\ t # T
  <1>1. t # T
    BY DEF AuxStatus
  <1>2. ASSUME InStack(cs, t)
        PROVE  FALSE
    <2>1. Base(cs, EntryOf(t), t) /\ t \in Active
      BY <1>2, BaseOf
    <2>2. cs[EntryOf(t)].by # "close"
      BY <2>1 DEF Closing
    <2>3. PICK b : b = EntryOf(t)
      OBVIOUS
    <2>4. Base(cs, b, t) /\ cs[b].by # "close" /\ b \in DOMAIN cs
      BY <2>1, <2>2, <2>3 DEF Base
    <2>5. Local(t, th[t], cs) /\ Callers(th, cs) /\ T = Last(cs).th
      BY Here DEF Consistent
    <2>6. th[t].status = "ok"
      BY <2>4, <2>5 DEF Local, Status
    <2>7. PICK i \in DOMAIN cs : cs[i].th = t
      BY <1>2 DEF InStack
    <2>8. th[t].ci # <<>>
      BY <1>1, <2>5, <2>7 DEF Callers
    <2>9. AuxStatus(t) = "normal"
      BY <1>1, <2>6, <2>8 DEF AuxStatus
    <2> QED
      BY <2>9
  <1> QED
    BY <1>1, <1>2

\* It has no closing methods to call: it is reset at once.
LEMMA CloseAtOnce ==
    ASSUME Inv, mode = "run", NEW t \in Thread, ~InStack(cs, t), t # T,
           NEW f, f = [th EXCEPT ![T].ci = Append(@, C("close"))],
           th[t].status # "none",
           NEW failed \in BOOLEAN, CloseNext(f, cs, t, th[t].nC, 0, failed)
    PROVE  Kept
  <1>1. PICK d : d = <<>>
    OBVIOUS
  <1>2. PICK a \in {"ok", "error"} : a = IF failed THEN "error" ELSE "ok"
    OBVIOUS
  <1>3. PICK c \in Seq(Frame) : c = th[T].ci
    BY Here, StateFields
  <1>4. PICK k : k = C("close")
    OBVIOUS
  <1>5. k \in Frame /\ k.kind = "close"
    BY <1>4, CFrames
  <1>6. PICK x : x = Append(c, k)
    OBVIOUS
  <1>7. Last(x) = k /\ Pop(x, 1) = c
    <2>1. x \in Seq(Frame) /\ Last(x) = k /\ Len(x) = Len(c) + 1 /\ \A i \in 1..Len(c) : x[i] = c[i]
      BY <1>5, <1>6, Appended
    <2>2. PICK m \in 0..Len(x) : m = Len(c) /\ m = Len(x) - 1
      BY <2>1, IsSeq
    <2>3. PICK z : z = SubSeq(x, 1, m)
      OBVIOUS
    <2>4. z \in Seq(Frame) /\ Len(z) = m /\ DOMAIN z = 1..m /\ \A i \in 1..m : z[i] = x[i]
      BY <2>1, <2>2, <2>3, Prefix
    <2>5. z = c
      BY <2>1, <2>2, <2>4
    <2> QED
      BY <2>1, <2>2, <2>3, <2>5 DEF Pop
  <1>8. T \in Thread /\ th \in [Thread -> State] /\ th[T] \in State /\ th[t] \in State
        /\ T = Last(cs).th /\ cs \in Seq(Entry)
    BY Here
  <1>9. f \in [Thread -> State] /\ f[T] = [th[T] EXCEPT !.ci = x] /\ f[t] = th[t]
    <2>1. x \in Seq(Frame)
      BY <1>5, <1>6, Appended
    <2>2. f = [th EXCEPT ![T] = [th[T] EXCEPT !.ci = x]]
      BY <1>3, <1>4, <1>6, <1>8
    <2>3. [th[T] EXCEPT !.ci = x] \in State
      BY <1>8, <2>1 DEF State
    <2> QED
      BY <1>8, <2>2, <2>3
  <1>10. PICK r : r = [th[t] EXCEPT !.ci = d, !.fn = FALSE, !.status = a]
    OBVIOUS
  <1>11. r \in State /\ r.ci = d /\ r.fn = FALSE /\ r.status = a
    <2>1. d \in Seq(Frame)
      BY <1>1
    <2> QED
      BY <1>8, <1>10, <2>1 DEF State
  <1>12. PICK nC \in Counter : nC = th[t].nC
    BY <1>8, StateFields
  <1>13. cs' = cs /\ mode' = "run"
         /\ th' = Return([f EXCEPT ![t].nC = nC, ![t].ci = d, ![t].fn = FALSE, ![t].status = a], T)
    <2>1. /\ cs' = cs
          /\ mode' = IF Last(f[T].ci).kind = "wrap" THEN "error" ELSE "run"
          /\ th' = Return([f EXCEPT ![t].nC = nC, ![t].ci = d, ![t].fn = FALSE, ![t].status = a], T)
      BY <1>1, <1>2, <1>8, <1>12 DEF CloseNext
    <2>2. f[T].ci = x
      BY <1>8, <1>9 DEF State
    <2> QED
      BY <1>5, <1>7, <2>1, <2>2
  <1>14. th' = [th EXCEPT ![t] = r]
    <2>1. PICK g : g = [f EXCEPT ![t].nC = nC, ![t].ci = d, ![t].fn = FALSE, ![t].status = a]
      OBVIOUS
    <2>2. g = [f EXCEPT ![t] = r]
      <3>1. [th[t] EXCEPT !.nC = nC, !.ci = d, !.fn = FALSE, !.status = a] = r
        BY <1>8, <1>10, <1>12 DEF State
      <3> QED
        BY <1>9, <2>1, <3>1
    <2>3. g \in [Thread -> State] /\ g[T] = [th[T] EXCEPT !.ci = x]
      BY <1>8, <1>9, <1>11, <2>2 DEF State
    <2>4. th' = [g EXCEPT ![T] = [g[T] EXCEPT !.ci = Pop(g[T].ci, 1)]]
      BY <1>13, <2>1 DEF Return
    <2>5. [g[T] EXCEPT !.ci = Pop(g[T].ci, 1)] = th[T]
      <3>1. g[T].ci = x
        BY <1>8, <2>3 DEF State
      <3>2. [g[T] EXCEPT !.ci = c] = th[T]
        BY <1>3, <1>8, <2>3 DEF State
      <3> QED
        BY <1>7, <3>1, <3>2
    <2>6. th' = [g EXCEPT ![T] = th[T]]
      BY <2>4, <2>5
    <2>7. f = [th EXCEPT ![T] = [th[T] EXCEPT !.ci = x]]
      BY <1>3, <1>4, <1>6, <1>8
    <2> QED
      BY <1>8, <2>2, <2>6, <2>7
  <1>15. Local(t, r, cs)
    <2>1. DOMAIN Calls(cs, t) = {}
      BY <1>8, NoCalls
    <2>2. Agree(r.ci, Calls(cs, t))
      BY <1>1, <1>11, <2>1, AgreeNone
    <2>3. r.ci = <<>> /\ r.status \in {"ok", "error"} /\ ~r.fn
      BY <1>1, <1>2, <1>11
    <2> QED
      BY <1>11, <2>2, <2>3, LocalInactive
  <1>16. r.status # "none" /\ ~Ready(r)
    BY <1>2, <1>11 DEF Ready
  <1> QED
    BY <1>11, <1>13, <1>14, <1>15, <1>16, StepOutside

\* Its first closing method is called.
LEMMA CloseBegins ==
    ASSUME Inv, mode = "run", NEW t \in Thread, ~InStack(cs, t), t # T,
           th[t].status # "none", ~th[t].fn, NEW left \in Nat \ {0},
           NEW f, f = [th EXCEPT ![T].ci = Append(@, C("close"))],
           NEW failed \in BOOLEAN, CloseNext(f, cs, t, th[t].nC, left, failed)
    PROVE  Kept
  <1>1. PICK q : q = th[t]
    OBVIOUS
  <1>2. PICK nC : nC = th[t].nC
    OBVIOUS
  <1>3. q \in State /\ q.status # "none" /\ ~q.fn /\ nC \in Counter /\ q.nC = nC
        /\ th \in [Thread -> State] /\ T \in Thread /\ th[T] \in State /\ Stack(cs)
    BY <1>1, <1>2, Here, StateFields
  <1>4. PICK p : p = CloseProtect(t, nC, left, failed)
    OBVIOUS
  <1>5. PICK y : y = CloseCall(t)
    OBVIOUS
  <1>6. PICK r : r = With(q, CloseList(mode'), Plus(nC, 1), q.errfunc)
    OBVIOUS
  <1>7. /\ Begins(p, y, cs) /\ p.th = t /\ p.by = "close" /\ y.th = t
        /\ r \in State /\ Local(t, r, Over(cs, p, y)) /\ r.ci = CloseList(mode')
        /\ mode' = "run" => r.ci # <<>> /\ IsLua(Last(r.ci)) /\ Entered(r.ci, Calls(Over(cs, p, y), t))
    BY <1>3, <1>4, <1>5, <1>6, MethodBegins
  <1>8. /\ cs' = cs \o <<p, y>> /\ mode' = AfterCount(Plus(nC, 1))
        /\ th' = [f EXCEPT ![t].nC = Plus(nC, 1), ![t].ci = CloseList(mode')]
    <2>1. left > 0
      OBVIOUS
    <2>2. /\ cs' = cs \o <<p, y>> /\ mode' = AfterCount(Plus(nC, 1))
          /\ th' = [f EXCEPT ![t].nC = Plus(nC, 1), ![t].ci = IF mode' = "run" THEN <<Lua(TRUE)>> ELSE <<>>]
      BY <1>2, <1>4, <1>5, <2>1 DEF CloseNext, CloseProtect, CloseCall
    <2> QED
      BY <2>2 DEF CloseList, Fresh
  <1>9. cs' = Over(cs, p, y)
    <2>1. cs \o <<p, y>> = Over(cs, p, y)
      BY <1>7, BeginHere
    <2> QED
      BY <1>8, <2>1
  <1>10. PICK w : w = [th[T] EXCEPT !.ci = Append(th[T].ci, C("close"))]
    OBVIOUS
  <1>11. th' = [th EXCEPT ![T] = w, ![p.th] = r]
    <2>1. f = [th EXCEPT ![T] = w]
      BY <1>3, <1>10
    <2>2. r = [q EXCEPT !.nC = Plus(nC, 1), !.ci = CloseList(mode')]
      BY <1>3, <1>6 DEF With, State
    <2>3. f[t] = q
      BY <1>1, <1>3, <2>1
    <2>4. th' = [f EXCEPT ![t] = r]
      BY <1>8, <2>2, <2>3
    <2> QED
      BY <1>7, <2>1, <2>4
  <1>12. Goes("close", p, th[T]) /\ "close" \in {"resume", "wrap", "close"}
    BY <1>7 DEF Goes
  <1>13. mode' \in {"run", "error", "throw"}
    BY <1>8, AfterCounts
  <1>14. Last(Over(cs, p, y)).th = t
    BY <1>7, BeginHere
  <1>15. mode' = "run" => Running(r, Over(cs, p, y))
    BY <1>7, <1>14 DEF Running
  <1>16. Local(p.th, r, Over(cs, p, y)) /\ th[p.th].status # "none" /\ p.by = "close"
    BY <1>7
  <1>17. th' = [th EXCEPT ![T] = [th[T] EXCEPT !.ci = Append(th[T].ci, C("close"))], ![p.th] = r]
    BY <1>10, <1>11
  <1> QED
    BY <1>7, <1>9, <1>12, <1>13, <1>15, <1>16, <1>17, StepEnter

LEMMA CloseKeeps ==
    ASSUME Inv, NEW t \in Thread, Close(t), ~Closing(t)
    PROVE  Kept
  <1>1. PICK f : f = [th EXCEPT ![T].ci = Append(@, C("close"))]
    OBVIOUS
  <1>2. PICK failed \in BOOLEAN : failed = (th[t].status = "error")
    OBVIOUS
  <1>3. /\ mode = "run" /\ AuxStatus(t) \in {"suspended", "dead"} /\ ~Closing(t)
        /\ th[t].status # "none"
    BY DEF Close
  <1>4. PICK left \in 0..(IF th[t].ci = <<>> THEN 0 ELSE MaxMethods) :
           CloseNext(f, cs, t, th[t].nC, left, failed)
    BY <1>1, <1>2 DEF Close, Reset
  <1>5. left \in Nat /\ (left # 0 => th[t].ci # <<>>)
    <2>1. CASE th[t].ci = <<>>
      BY <2>1
    <2>2. CASE th[t].ci # <<>>
      BY <2>2, ConstantsAssumption
    <2> QED
      BY <2>1, <2>2
  <1>6. ~InStack(cs, t) /\ t # T
    BY <1>3, Closable
  <1>7. CASE left = 0
    <2>1. CloseNext(f, cs, t, th[t].nC, 0, failed)
      BY <1>4, <1>7
    <2> QED
      BY <1>1, <1>3, <1>6, <2>1, CloseAtOnce
  <1>8. CASE left # 0
    <2>1. left \in Nat \ {0}
      BY <1>5, <1>8
    <2>2. ~th[t].fn
      <3>1. Local(t, th[t], cs)
        BY Here DEF Consistent
      <3> QED
        BY <1>5, <1>8, <3>1 DEF Local, Status
    <2>3. CloseNext(f, cs, t, th[t].nC, left, failed)
      BY <1>4
    <2> QED
      BY <1>1, <1>3, <1>6, <2>1, <2>2, <2>3, CloseBegins
  <1> QED
    BY <1>7, <1>8

-----------------------------------------------------------------------------
(* The theorems.                                                           *)

LEMMA StutterKeeps ==
    ASSUME Inv, UNCHANGED vars
    PROVE  Inv' /\ UNCHANGED States!svars
  <1>1. th' = th /\ cs' = cs /\ mode' = mode
    BY DEF vars
  <1>2. Inv'
    BY <1>1 DEF Inv, T
  <1>3. UNCHANGED States!visible
    BY <1>1, StutterStep
  <1> QED
    BY <1>1, <1>2, <1>3 DEF States!svars

\* The steps that have a defined effect.
Defined ==
    \/ CallLua \/ CallNoYield \/ \E handler \in BOOLEAN : ProtectedCall(handler)
    \/ \E t \in Thread : \/ Create(t)
                         \/ Close(t) /\ ~Closing(t)
                         \/ \E by \in {"resume", "wrap"} : Resume(t, by) /\ ~Closing(t)
    \/ Yield \/ ReturnLua \/ ReturnToC \/ ReturnToPCall \/ ReturnToUnroll
    \/ ReturnFromBody \/ ReturnFromMethod \/ ReturnFromHandler
    \/ Error \/ CallHandler \/ ThrowToPCall \/ ThrowToMain \/ ThrowToUnroll
    \/ ThrowToResume \/ ThrowToClose
Intruding == mode = "run" /\ Intrude /\ \E t \in Thread : Closing(t)

LEMMA Intrusions ==
    ASSUME Next
    PROVE  Defined \/ Intruding \/ UNCHANGED vars
  <1>1. ASSUME NEW t \in Thread, Close(t), Closing(t)
        PROVE  Intruding
    BY <1>1 DEF Close, Intruding
  <1>2. ASSUME NEW t \in Thread, NEW by \in {"resume", "wrap"}, Resume(t, by), Closing(t)
        PROVE  Intruding
    BY <1>2 DEF Resume, Intruding
  <1> QED
    BY <1>1, <1>2 DEF Next, Defined, Undefined

LEMMA NextKeeps ==
    ASSUME Inv, Defined
    PROVE  Kept
  <1>1. CASE CallLua
    BY <1>1, CallLuaKeeps
  <1>2. CASE CallNoYield
    BY <1>2, CallNoYieldKeeps
  <1>3. ASSUME NEW handler \in BOOLEAN, ProtectedCall(handler)
        PROVE  Kept
    BY <1>3, ProtectedCallKeeps
  <1>4. ASSUME NEW t \in Thread, Create(t)
        PROVE  Kept
    BY <1>4, CreateKeeps
  <1>5. ASSUME NEW t \in Thread, Close(t), ~Closing(t)
        PROVE  Kept
    BY <1>5, CloseKeeps
  <1>6. ASSUME NEW t \in Thread, NEW by \in {"resume", "wrap"}, Resume(t, by), ~Closing(t)
        PROVE  Kept
    BY <1>6, ResumeKeeps
  <1>7. CASE Yield
    BY <1>7, YieldKeeps
  <1>8. CASE ReturnLua
    BY <1>8, ReturnLuaKeeps
  <1>9. CASE ReturnToC
    BY <1>9, ReturnToCKeeps
  <1>10. CASE ReturnToPCall
    BY <1>10, ReturnToPCallKeeps
  <1>11. CASE ReturnToUnroll
    BY <1>11, ReturnToUnrollKeeps
  <1>12. CASE ReturnFromBody
    BY <1>12, ReturnFromBodyKeeps
  <1>13. CASE ReturnFromMethod
    BY <1>13, ReturnFromMethodKeeps
  <1>14. CASE ReturnFromHandler
    BY <1>14, ReturnFromHandlerKeeps
  <1>15. CASE Error
    BY <1>15, ErrorKeeps
  <1>16. CASE CallHandler
    BY <1>16, CallHandlerKeeps
  <1>17. CASE ThrowToPCall
    BY <1>17, ThrowToPCallKeeps
  <1>18. CASE ThrowToMain
    BY <1>18, ThrowToMainKeeps
  <1>19. CASE ThrowToUnroll
    BY <1>19, ThrowToUnrollKeeps
  <1>20. CASE ThrowToResume
    BY <1>20, ThrowToResumeKeeps
  <1>21. CASE ThrowToClose
    BY <1>21, ThrowToCloseKeeps
  <1> QED
    BY <1>1, <1>2, <1>3, <1>4, <1>5, <1>6, <1>7, <1>8, <1>9, <1>10, <1>11, <1>12, <1>13, <1>14,
       <1>15, <1>16, <1>17, <1>18, <1>19, <1>20, <1>21 DEF Defined

LEMMA AfterDefined ==
    ASSUME NEW n
    PROVE  AfterCount(n) \in {"run", "error", "throw"}
  BY DEF AfterCount

LEMMA CallDefined ==
    ASSUME NEW t, NEW f, NEW before, NEW by, NEW ny, NEW errfunc,
           CallFrom(t, f, before, by, ny, errfunc)
    PROVE  mode' # "undefined"
  BY AfterDefined DEF CallFrom

LEMMA CloseDefined ==
    ASSUME NEW f, NEW below, NEW t, NEW nC, NEW left, NEW failed,
           CloseNext(f, below, t, nC, left, failed)
    PROVE  mode' # "undefined"
  BY AfterDefined DEF CloseNext

\* They are steps from one defined state to another.
LEMMA StaysDefined ==
    ASSUME Defined
    PROVE  mode # "undefined" /\ mode' # "undefined"
  <1> DEFINE Good == mode # "undefined" /\ mode' # "undefined"
  <1>1. CASE CallLua
    BY <1>1 DEF CallLua
  <1>2. CASE CallNoYield
    BY <1>2, CallDefined DEF CallNoYield
  <1>3. ASSUME NEW handler \in BOOLEAN, ProtectedCall(handler) PROVE Good
    BY <1>3, CallDefined DEF ProtectedCall
  <1>4. ASSUME NEW t \in Thread, Create(t) PROVE Good
    BY <1>4 DEF Create
  <1>5. ASSUME NEW t \in Thread, Close(t), ~Closing(t) PROVE Good
    BY <1>5, CloseDefined DEF Close, Reset
  <1>6. ASSUME NEW t \in Thread, NEW by \in {"resume", "wrap"}, Resume(t, by), ~Closing(t)
        PROVE  Good
    BY <1>6, AfterDefined DEF Resume, Continue
  <1>7. CASE Yield
    BY <1>7 DEF Yield
  <1>8. CASE ReturnLua \/ ReturnToC \/ ReturnToPCall \/ ReturnToUnroll
    BY <1>8 DEF ReturnLua, ReturnToC, ReturnToPCall, ReturnToUnroll, FreshReturn
  <1>9. CASE ReturnFromBody
    BY <1>9 DEF ReturnFromBody, FreshReturn, ResumeEnds
  <1>10. CASE ReturnFromMethod
    BY <1>10, CloseDefined DEF ReturnFromMethod, FreshReturn
  <1>11. CASE ReturnFromHandler \/ Error
    BY <1>11 DEF ReturnFromHandler, FreshReturn, Error
  <1>12. CASE CallHandler
    BY <1>12, CallDefined DEF CallHandler
  <1>13. CASE ThrowToPCall \/ ThrowToMain \/ ThrowToUnroll
    BY <1>13 DEF ThrowToPCall, ThrowToMain, ThrowToUnroll, Throw
  <1>14. CASE ThrowToResume
    BY <1>14, CloseDefined DEF ThrowToResume, Throw
  <1>15. CASE ThrowToClose
    BY <1>15, CloseDefined DEF ThrowToClose, Throw
  <1> QED
    BY <1>1, <1>2, <1>3, <1>4, <1>5, <1>6, <1>7, <1>8, <1>9, <1>10, <1>11, <1>12, <1>13,
       <1>14, <1>15 DEF Defined

\* A coroutine that is being closed is resumed, or closed again.
LEMMA IntrudeKeeps ==
    ASSUME Inv, Intruding
    PROVE  Inv' /\ States!StatesNext
  <1>1. th' = th /\ cs' = cs /\ mode = "run" /\ mode' = "undefined"
    BY DEF Intruding, Intrude
  <1>2. Inv'
    BY <1>1 DEF Inv
  <1>3. UNCHANGED States!visible
    BY <1>1, StutterStep
  <1>4. {t \in Thread : Closing(t)} # {}
    BY DEF Intruding
  <1>5. States!Intrude
    BY <1>1, <1>3, <1>4 DEF States!Intrude
  <1> QED
    BY <1>1, <1>2, <1>5 DEF States!StatesNext

LEMMA NextImplements ==
    ASSUME Inv, [Next]_vars
    PROVE  Inv' /\ [States!StatesNext]_(States!svars)
  <1>1. CASE UNCHANGED vars
    BY <1>1, StutterKeeps
  <1>2. CASE Intruding
    BY <1>2, IntrudeKeeps
  <1>3. CASE Defined
    <2>1. /\ mode # "undefined" /\ mode' # "undefined"
          /\ (mode = "undefined")' = (mode = "undefined")
      BY <1>3, StaysDefined
    <2>2. Inv' /\ (States!Step \/ UNCHANGED States!visible)
      BY <1>3, NextKeeps DEF Kept
    <2>3. CASE States!Step
      BY <2>1, <2>2, <2>3 DEF States!StatesNext
    <2>4. CASE UNCHANGED States!visible
      BY <2>1, <2>2, <2>4 DEF States!svars
    <2> QED
      BY <2>2, <2>3, <2>4
  <1> QED
    BY <1>1, <1>2, <1>3, Intrusions

LEMMA StatesBegin ==
    ASSUME Init
    PROVE  States!StatesInit
  <1>1. Inv /\ Stack(cs) /\ Consistent(th, cs)
    BY InitInv DEF Inv, Consistent
  <1>2. PICK p : p = Protect(main, "main", [c |-> 0, ny |-> 1], 0)
    OBVIOUS
  <1>3. PICK x : x = CCall(main, "main", 1, 0)
    OBVIOUS
  <1>4. cs = <<p, x>> /\ p.th = main /\ p.by = "main" /\ x.th = main /\ IsBase(p)
    BY <1>2, <1>3 DEF Init, Protect, CCall, IsBase, IsProtect
  <1>5. Len(cs) = 2 /\ DOMAIN cs = {1, 2} /\ cs[1] = p /\ cs[2] = x
    BY <1>4
  <1>6. T = main /\ Last(cs).th = main
    BY <1>4, <1>5 DEF T, Last
  <1>7. Actives(cs) = {main}
    BY <1>4, <1>5 DEF Actives
  <1>8. EntryIn(cs, main) = 1
    BY <1>1, <1>4, <1>5, EntryIs DEF Base
  <1>9. Closers(cs) = {}
    BY <1>4, <1>5, <1>7, <1>8 DEF Closers
  <1>10. \A t \in Thread : /\ th[t].status = IF t = main THEN "ok" ELSE "none"
                           /\ th[t].fn = FALSE
    BY DEF Init
  <1>11. Waiting(th, cs) = {} /\ Known(th) = {main}
    BY <1>10, ConstantsAssumption DEF Waiting, Known, Ready
  <1>12. Resumers(cs) = <<>>
    <2>1. Resumers(cs) = [t \in {} |-> cs[EntryIn(cs, t) - 1].th]
      BY <1>7 DEF Resumers
    <2> QED
      BY <2>1
  <1> QED
    BY <1>6, <1>9, <1>11, <1>12, Abstract DEF States!StatesInit, Init

\* In every reachable state the list of CallInfo of each thread, its counters, its
\* status and its handler agree with the C stack (Inv).
THEOREM Invariance == Spec => []Inv
  <1>1. Init => Inv
    BY InitInv
  <1>2. Inv /\ [Next]_vars => Inv'
    BY NextImplements
  <1> QED
    BY <1>1, <1>2, PTL DEF Spec

\* Coroutines are resumed, yield, end, fail and are closed as CoroutineStates says: what
\* lua_resume accepts is suspended or is being closed, a coroutine returns to the one
\* that has entered it, and one that is being closed does not yield. Once a coroutine
\* that is being closed has been resumed or closed again, which lua_resume and
\* luaB_close do not refuse, nothing more is said.
THEOREM StatesImplemented == Spec => ImplementsStates
  <1>1. Init => States!StatesInit
    BY StatesBegin
  <1>2. Inv /\ [Next]_vars => [States!StatesNext]_(States!svars)
    BY NextImplements
  <1> QED
    BY <1>1, <1>2, Invariance, PTL DEF Spec, ImplementsStates, States!StatesSpec

\* Every active thread has a base, which is not that of the C stack if the thread is
\* not the main one.
LEMMA ActiveBase ==
    ASSUME Inv, NEW t \in Active, NEW b, b = EntryOf(t)
    PROVE  /\ t \in Thread /\ InStack(cs, t) /\ Base(cs, b, t) /\ b \in DOMAIN cs
           /\ t # main => b > 1 /\ Caller_(cs, b, th[cs[b - 1].th]) /\ Caller(t) = cs[b - 1].th
           /\ Closing(t) <=> cs[b].by = "close"
  <1>1. PICK i \in DOMAIN cs : cs[i].th = t
    BY DEF Active
  <1>2. t \in Thread
    BY <1>1, Here, Entries
  <1>3. InStack(cs, t)
    BY <1>1 DEF InStack
  <1>4. Base(cs, b, t)
    BY <1>2, <1>3, BaseOf
  <1>5. b \in DOMAIN cs /\ IsBase(cs[b]) /\ cs[b].th = t
    BY <1>4 DEF Base
  <1>6. ASSUME t # main
        PROVE  b > 1 /\ Caller_(cs, b, th[cs[b - 1].th]) /\ Caller(t) = cs[b - 1].th
    <2>1. cs[1].th = main
      BY Here DEF Stack, Protect
    <2>2. b > 1
      BY <1>5, <1>6, <2>1, Here
    <2>3. Callers(th, cs)
      BY Here DEF Consistent
    <2> QED
      BY <1>5, <2>2, <2>3 DEF Callers, Caller
  <1>7. Closing(t) <=> cs[b].by = "close"
    BY DEF Closing
  <1> QED
    BY <1>2, <1>3, <1>4, <1>5, <1>6, <1>7

LEMMA InvType ==
    ASSUME Inv
    PROVE  TypeOK
  BY Here DEF TypeOK, Inv

LEMMA InvCounted ==
    ASSUME Inv
    PROVE  CCallsCounted
  <1> SUFFICES ASSUME NEW t \in Active
               PROVE  LET base == IF t = main \/ Closing(t) THEN cs[EntryOf(t)].nC
                                  ELSE [c |-> th[Caller(t)].nC.c, ny |-> 0]
                      IN  th[t].nC = [c |-> base.c + Cardinality(CallsOf(t)),
                                      ny |-> base.ny + Cardinality(Forbidding(t))]
    BY DEF CCallsCounted
  <1>1. PICK b : b = EntryOf(t)
    OBVIOUS
  <1>2. /\ t \in Thread /\ Base(cs, b, t) /\ b \in DOMAIN cs
        /\ t # main => Caller_(cs, b, th[cs[b - 1].th]) /\ Caller(t) = cs[b - 1].th
        /\ Closing(t) <=> cs[b].by = "close"
    BY <1>1, ActiveBase
  <1>3. th[t].nC = Counted(cs[b].nC, cs, t, Len(cs))
    <2>1. CountsAgree(t, th[t].nC, cs)
      BY <1>2, Here DEF Consistent, Local
    <2> QED
      BY <1>2, <2>1 DEF CountsAgree
  <1>4. CallsUpTo(cs, t, Len(cs)) = CallsOf(t) /\ ForbiddingUpTo(cs, t, Len(cs)) = Forbidding(t)
    <2>1. CallsUpTo(cs, t, Len(cs)) = CallsOf(t)
      BY Here DEF CallsUpTo, CallsOf
    <2> QED
      BY <2>1 DEF ForbiddingUpTo, Forbidding
  <1>5. PICK base : base = IF t = main \/ Closing(t) THEN cs[b].nC
                           ELSE [c |-> th[Caller(t)].nC.c, ny |-> 0]
    OBVIOUS
  <1>6. base = cs[b].nC
    <2>1. CASE t = main \/ Closing(t)
      BY <1>5, <2>1
    <2>2. CASE ~(t = main \/ Closing(t))
      <3>1. cs[b].nC = [c |-> th[Caller(t)].nC.c, ny |-> 0]
        BY <1>2, <2>2 DEF Caller_
      <3> QED
        BY <1>5, <2>2, <3>1
    <2> QED
      BY <2>1, <2>2
  <1>7. th[t].nC = [c |-> base.c + Cardinality(CallsOf(t)), ny |-> base.ny + Cardinality(Forbidding(t))]
    BY <1>3, <1>4, <1>6 DEF Counted
  <1> QED
    BY <1>1, <1>5, <1>7

LEMMA InvLost ==
    ASSUME Inv
    PROVE  LostHaveContinuation
  <1> SUFFICES ASSUME NEW t \in Thread, th[t].status # "error"
               PROVE  {j \in DOMAIN th[t].ci : Unfinished(th[t].ci[j])}
                        = {cs[i].k : i \in {i \in CallsOf(t) : OnStack(cs[i])}}
    BY DEF LostHaveContinuation
  <1>1. PICK ci \in Seq(Frame) : ci = th[t].ci
    BY Here, StateFields
  <1>2. PICK G : G = Calls(cs, t)
    OBVIOUS
  <1>3. Agree(ci, G)
    BY <1>1, <1>2, Here DEF Consistent, Local
  <1>4. /\ DOMAIN G = {i \in 1..Len(cs) : cs[i].th = t /\ IsCall(cs[i])}
        /\ \A i \in DOMAIN G : G[i] = cs[i] /\ G[i] \in CallEntry
    BY <1>2, Here, CallsType
  <1>5. {i \in CallsOf(t) : OnStack(cs[i])} = {i \in DOMAIN G : OnStack(cs[i])}
    BY <1>4, Here DEF CallsOf, OnStack, IsCall, IsProtect
  <1>6. ASSUME NEW j \in DOMAIN ci, Unfinished(ci[j])
        PROVE  \E i \in DOMAIN G : OnStack(cs[i]) /\ cs[i].k = j
    BY <1>3, <1>4, <1>6 DEF Agree, NoneLost
  <1>7. ASSUME NEW i \in DOMAIN G, OnStack(cs[i])
        PROVE  cs[i].k \in DOMAIN ci /\ Unfinished(ci[cs[i].k])
    <2>1. PICK x \in CallEntry : x = cs[i] /\ CallOK(ci, x)
      BY <1>3, <1>4 DEF Agree
    <2>2. x.k \in Nat /\ x.k <= Len(ci)
      BY <2>1 DEF CallEntry, CallOK
    <2>3. x.by = "call" \/ (x.by = "pcall" /\ x.ny = 1)
      BY <1>7, <2>1 DEF OnStack
    <2>4. CASE x.by = "call"
      BY <2>1, <2>2, <2>4, <1>1, IsSeq, CFrames DEF CallOK
    <2>5. CASE x.by = "pcall" /\ x.ny = 1
      <3>1. x.k > 0 /\ IsPCall(ci[x.k]) /\ ci[x.k].ypcall = (x.ny = 0)
        BY <2>1, <2>5 DEF CallOK
      <3>2. ~ci[x.k].ypcall
        <4>1. x.ny # 0
          BY <2>5
        <4>2. (x.ny = 0) = FALSE
          BY <4>1
        <4>3. ci[x.k].ypcall = FALSE
          BY <3>1, <4>2
        <4> QED
          BY <4>3
      <3>3. Unfinished(ci[x.k])
        BY <3>1, <3>2 DEF Unfinished, IsPCall
      <3>4. x.k \in DOMAIN ci
        BY <2>2, <3>1, <1>1, IsSeq
      <3> QED
        BY <2>1, <3>3, <3>4
    <2> QED
      BY <2>3, <2>4, <2>5
  <1> QED
    BY <1>1, <1>5, <1>6, <1>7

LEMMA InvHandler ==
    ASSUME Inv
    PROVE  HandlerOfLastPCall
  <1> SUFFICES ASSUME NEW t \in Thread, t \in Active \/ AuxStatus(t) = "suspended", ~Closing(t)
               PROVE  th[t].errfunc = HandlerAmong(th[t].ci, Len(th[t].ci))
    BY DEF HandlerOfLastPCall
  <1>1. th[t] \in State /\ Local(t, th[t], cs)
    BY Here DEF Consistent
  <1>2. th[t].errfunc \in BOOLEAN
    BY <1>1, StateFields
  <1>3. th[t].errfunc <=> HandlerAmong(th[t].ci, Len(th[t].ci))
    <2>1. CASE t \in Active
      <3>1. PICK b : b = EntryOf(t)
        OBVIOUS
      <3>2. Base(cs, b, t) /\ b \in DOMAIN cs /\ cs[b].by # "close"
        BY <2>1, <3>1, ActiveBase
      <3>3. HandlersAgree(th[t].ci, th[t].errfunc)
        BY <1>1, <3>2 DEF Local
      <3> QED
        BY <3>3 DEF HandlersAgree
    <2>2. CASE t \notin Active
      <3>1. ~InStack(cs, t)
        BY <2>2 DEF Active, InStack
      <3>2. CASE th[t].status = "yield"
        <4>1. HandlersAgree(th[t].ci, th[t].errfunc)
          BY <1>1, <3>1, <3>2 DEF Local
        <4> QED
          BY <4>1 DEF HandlersAgree
      <3>3. CASE th[t].status # "yield"
        <4>1. th[t].fn /\ th[t].ci = <<>>
          BY <2>2, <3>3 DEF AuxStatus
        <4>2. ~th[t].errfunc
          BY <1>1, <4>1 DEF Local, Status
        <4>3. ~HandlerAmong(<<>>, Len(<<>>))
          BY DEF HandlerAmong
        <4> QED
          BY <4>1, <4>2, <4>3
      <3> QED
        BY <3>2, <3>3
    <2> QED
      BY <2>1, <2>2
  <1>4. HandlerAmong(th[t].ci, Len(th[t].ci)) \in BOOLEAN
    BY DEF HandlerAmong
  <1> QED
    BY <1>2, <1>3, <1>4

\* Every lua_State and every entry of the C stack has its type, in every state: TypeOK.
THEOREM TypeCorrect == Spec => []TypeOK
  BY Invariance, InvType, PTL

\* nCcalls of an active thread counts the C calls of the whole chain of coroutines, and
\* the calls of this thread that forbid a yield.
THEOREM CountsRight == Spec => []CCallsCounted
  BY Invariance, InvCounted, PTL

\* No C function without a continuation is lost by a yield or an error.
THEOREM NothingLost == Spec => []LostHaveContinuation
  BY Invariance, InvLost, PTL

\* errfunc is the handler of the last pcall.
THEOREM HandlersRight == Spec => []HandlerOfLastPCall
  BY Invariance, InvHandler, PTL

=============================================================================
