----------------------------- MODULE Coroutines -----------------------------
(***************************************************************************)
(* Calls, errors and coroutines, of ldo.c, lcorolib.c and lstate.c.  All   *)
(* threads share one C stack; each has its own list of CallInfo, which     *)
(* survives a yield, and its own counter of C calls and non-yieldable      *)
(* calls, which jumps back and forth with the C stack.  A coroutine that   *)
(* is resumed continues its Lua functions without the C functions that had *)
(* called them: those have continuations, or could not be yielded across.  *)
(*                                                                         *)
(* A Lua function is running in every state but those in which an error is *)
(* on its way.  Hooks and to-be-closed variables of running functions are  *)
(* in modules AotExecute and Closing.                                      *)
(***************************************************************************)
EXTENDS Integers, Sequences, FiniteSets, SequencesExt

CONSTANTS
    Thread, main,
    LUAI_MAXCCALLS,
    HANDLING,       \* the limit while an overflow is handled (LUAI_MAXCCALLS/10*11)
    MaxFrames,      \* bound: calls of Lua functions, per thread
    MaxMethods      \* bound: to-be-closed variables of a coroutine that is closed
ASSUME ConstantsAssumption == main \in Thread /\ MaxMethods \in Nat

VARIABLES
    th,     \* the lua_State of every thread: status, whether it has a function to
            \* start with, the list ci, nCcalls (C calls and non-yieldable calls),
            \* errfunc (does it have a message handler?)
    cs,     \* the C stack: what lua_resume, ccall, luaD_pcall... have to restore
    mode    \* "run"; "error": luaG_errormsg; "throw": luaD_throw; "undefined" (Intrude)
vars == <<th, cs, mode>>

\* The CallInfo of a Lua function: is it CIST_FRESH, the first one of a luaV_execute?
Lua(fresh) == [kind |-> "lua", fresh |-> fresh]
\* Of pcall and xpcall: CIST_YPCALL, the old_errfunc, its own handler.
PCall(y, old, handler) == [kind |-> "pcall", ypcall |-> y, old |-> old, handler |-> handler]
\* Of another C function: one that calls without a continuation ("call"), and those
\* of the library: "resume", "wrap", "yield", "close".
C(kind) == [kind |-> kind]
IsLua(f) == f.kind = "lua"
IsYPCall(f) == f.kind = "pcall" /\ f.ypcall

\* Entries of the C stack.  A call has the number of the CallInfo that called.
Protect(t, by, n, k) == [th |-> t, what |-> "protect", by |-> by, nC |-> n, k |-> k]
CCall(t, by, ny, k) == [th |-> t, what |-> "call", by |-> by, ny |-> ny, k |-> k]
IsProtect(x) == x.what = "protect"
IsCall(x) == x.what = "call"
\* The entry with which the C stack of a thread begins.
IsBase(x) == IsProtect(x) /\ x.by # "pcall"

T == Last(cs).th                \* the thread that runs
Top(t) == Last(th[t].ci)
Pop(ci, n) == SubSeq(ci, 1, Len(ci) - n)
Yieldable(t) == th[t].nC.ny = 0
Plus(n, ny) == [c |-> n.c + 1, ny |-> n.ny + ny]
Minus(n, ny) == [c |-> n.c - 1, ny |-> n.ny - ny]
\* luaE_checkcstack: an error at the limit, one without a handler far above it.
AfterCount(n) == IF n.c = LUAI_MAXCCALLS THEN "error"
                 ELSE IF n.c >= HANDLING THEN "throw" ELSE "run"

-----------------------------------------------------------------------------
(* Calls.                                                                  *)

Room(t) == Len(SelectSeq(th[t].ci, IsLua)) < MaxFrames

\* OP_CALL of a Lua function: no C call.
CallLua ==
    /\ mode = "run" /\ Room(T)
    /\ th' = [th EXCEPT ![T].ci = Append(@, Lua(FALSE))]
    /\ UNCHANGED <<cs, mode>>

\* ccall of a Lua function, by the C function f that has just been called, with
\* the entries of the C stack that come before.
CallFrom(t, f, before, by, ny, errfunc) ==
    LET n == Plus(th[t].nC, ny) IN
    /\ mode' = AfterCount(n)
    /\ cs' = cs \o before \o <<CCall(t, by, ny, Len(th[t].ci) + Len(f))>>
    /\ th' = [th EXCEPT ![t].nC = n, ![t].errfunc = errfunc,
                        ![t].ci = @ \o f \o (IF mode' = "run" THEN <<Lua(TRUE)>> ELSE <<>>)]

\* A C function calls back without a continuation: lua_call.
CallNoYield ==
    /\ mode = "run" /\ Room(T)
    /\ CallFrom(T, <<C("call")>>, <<>>, "call", 1, th[T].errfunc)

\* lua_pcallk with a continuation, from pcall (xpcall, with a handler).  Where a
\* yield is not possible anyway the C stack protects the call.
ProtectedCall(handler) ==
    /\ mode = "run" /\ Room(T)
    /\ LET f == PCall(Yieldable(T), th[T].errfunc, handler)
           here == Protect(T, "pcall", th[T].nC, Len(th[T].ci) + 1)
       IN  IF Yieldable(T) THEN CallFrom(T, <<f>>, <<>>, "pcall", 0, handler)
           ELSE CallFrom(T, <<f>>, <<here>>, "pcall", 1, handler)

NeverRestored(t, f) == th[t].errfunc                         \* variant
\* The handler once a pcall is over, in whatever way.
OldErrfunc(t, f) == f.old

-----------------------------------------------------------------------------
(* lua_resume and lua_resetthread.                                         *)

Below(i) == SubSeq(cs, 1, i - 1)
Active == {cs[i].th : i \in DOMAIN cs}
\* Where the C stack of lua_resume, or of lua_resetthread, begins.
EntryOf(t) == CHOOSE i \in DOMAIN cs : IsBase(cs[i]) /\ cs[i].th = t
Caller(t) == cs[EntryOf(t) - 1].th
\* Do closing methods of the thread run, below coroutine.close or wrap?
Closing(t) == t \in Active /\ cs[EntryOf(t)].by = "close"

\* A C function on top of the list of u returns to a Lua function.
Return(f, u) == [f EXCEPT ![u].ci = Pop(@, 1)]

\* auxstatus.
AuxStatus(t) ==
    CASE t = T -> "running"
      [] t # T /\ th[t].status = "yield" -> "suspended"
      [] t # T /\ th[t].status = "ok" -> IF th[t].ci # <<>> THEN "normal"
                                         ELSE IF th[t].fn THEN "suspended" ELSE "dead"
      [] OTHER -> "dead"

\* lua_newthread and lua_xmove, from coroutine.create.
Create(t) ==
    /\ mode = "run" /\ th[t].status = "none"
    /\ th' = [th EXCEPT ![t].status = "ok", ![t].fn = TRUE]
    /\ UNCHANGED <<cs, mode>>

\* A coroutine whose closing methods run has the status of before, and lua_resume accepts
\* it if it had yielded, also from itself; coroutine.close accepts it too.  Both then use
\* the list ci and the stack that the methods still need (lua_resetthread empties the one
\* and reallocates the other): nothing is known of the program from then on.
Intrude == mode' = "undefined" /\ UNCHANGED <<th, cs>>
Undefined == mode = "undefined" /\ UNCHANGED vars

\* The conditions of lua_resume.
AcceptsNormal(t) == t \notin {T, main} /\ th[t].status \in {"ok", "yield"}   \* variant
Accepts(t) == \/ th[t].status = "ok" /\ th[t].ci = <<>> /\ th[t].fn
              \/ th[t].status = "yield"
CountKept(t) == th[t].nC                                     \* variant
\* The count of a coroutine that is resumed goes on from that of its resumer.
CountFrom(t) == [c |-> th[T].nC.c, ny |-> 0]
\* The call of resume, from coroutine.resume or a function of coroutine.wrap.
Continue(t, by) ==
    LET base == CountFrom(t)
        n == Plus(base, 0)
        started == th[t].status = "ok"
        entry == IF started THEN CCall(t, "body", 0, 0) ELSE [th |-> t, what |-> "resumed"]
    IN  /\ cs' = cs \o <<Protect(t, "resume", base, 0), entry>>
        /\ mode' = AfterCount(n)
        /\ th' = [th EXCEPT
               ![T].ci = Append(@, C(by)),
               ![t].status = "ok", ![t].fn = FALSE, ![t].nC = n,
               ![t].ci = IF mode' # "run" THEN @
                         ELSE IF started THEN <<Lua(TRUE)>> ELSE Pop(@, 1)]
Resume(t, by) ==
    /\ mode = "run" /\ Accepts(t)
    /\ IF Closing(t) THEN Intrude ELSE Continue(t, by)

NeverChecked(t) == TRUE                                      \* variant
MayYield(t) == Yieldable(t)
\* lua_yieldk: a throw to the lua_resume of this thread.
Yield ==
    LET p == cs[EntryOf(T)]
    IN  /\ mode = "run" /\ MayYield(T) /\ T # main
        /\ cs' = Below(EntryOf(T)) /\ UNCHANGED mode
        /\ th' = Return([th EXCEPT ![T].ci = Append(@, C("yield")), ![T].nC = p.nC,
                                   ![T].status = "yield"], Caller(T))

\* lua_resume ends without an error.
ResumeEnds(f) ==
    /\ cs' = Below(EntryOf(T)) /\ mode' = "run"
    /\ th' = Return([f EXCEPT ![T].ci = <<>>, ![T].nC = cs[EntryOf(T)].nC], Caller(T))

\* The next closing method of a coroutine that is reset, with `left' methods to go:
\* luaD_closeprotected protects the others again after an error.  After the last one
\* luaE_resetthread ends, and so does coroutine.close, or wrap with its error.
CloseNext(f, below, t, nC, left, failed) ==
    LET n == Plus(nC, 1)
        u == Last(below).th
    IN  IF left > 0
        THEN /\ cs' = below \o <<Protect(t, "close", nC, [left |-> left - 1, failed |-> failed]),
                                 CCall(t, "close", 1, 0)>>
             /\ mode' = AfterCount(n)
             /\ th' = [f EXCEPT ![t].nC = n,
                                ![t].ci = IF mode' = "run" THEN <<Lua(TRUE)>> ELSE <<>>]
        ELSE /\ cs' = below
             /\ mode' = IF Last(f[u].ci).kind = "wrap" THEN "error" ELSE "run"
             /\ th' = Return([f EXCEPT ![t].nC = nC, ![t].ci = <<>>, ![t].fn = FALSE,
                                       ![t].status = IF failed THEN "error" ELSE "ok"], u)

\* lua_resetthread, from coroutine.close.
Reset(t) ==
    \E left \in 0..(IF th[t].ci = <<>> THEN 0 ELSE MaxMethods) :
        CloseNext([th EXCEPT ![T].ci = Append(@, C("close"))],
                  cs, t, th[t].nC, left, th[t].status = "error")
Close(t) ==
    /\ mode = "run" /\ AuxStatus(t) \in {"suspended", "dead"} /\ th[t].status # "none"
    /\ IF Closing(t) THEN Intrude ELSE Reset(t)

-----------------------------------------------------------------------------
(* Returns.                                                                *)

ReturnLua ==
    /\ mode = "run" /\ ~Top(T).fresh
    /\ th' = [th EXCEPT ![T].ci = Pop(@, 1)] /\ UNCHANGED <<cs, mode>>

\* luaV_execute returns from a fresh function to ccall, and that to its caller.
e == Last(cs)
Returned == [th EXCEPT ![T].ci = Pop(@, 1), ![T].nC = IF e.what = "call" THEN Minus(@, e.ny) ELSE @]
FreshReturn == mode = "run" /\ Top(T).fresh

ReturnToC ==
    /\ FreshReturn /\ e.what = "call" /\ e.by = "call"
    /\ th' = Return(Returned, T) /\ cs' = Front(cs) /\ UNCHANGED mode

\* pcall ends, where luaD_pcall or the count of luaD_call left nC.
PCallEnds(f, ci, nC) ==
    [f EXCEPT ![T].ci = Pop(ci, 1), ![T].nC = nC, ![T].errfunc = OldErrfunc(T, Last(ci))]
ReturnToPCall ==
    /\ FreshReturn /\ e.what = "call" /\ e.by = "pcall"
    /\ th' = PCallEnds(th, Returned[T].ci,
                       IF e.ny = 0 THEN Returned[T].nC ELSE cs[Len(cs) - 1].nC)
    /\ cs' = Pop(cs, IF e.ny = 0 THEN 1 ELSE 2) /\ UNCHANGED mode

\* The loop of unroll: the functions of this thread have lost their C callers, and
\* finishCcall ends the pcall that has called this one.
ReturnToUnroll ==
    /\ FreshReturn /\ e.what # "call" /\ Len(th[T].ci) > 1
    /\ th' = PCallEnds(th, Returned[T].ci, th[T].nC) /\ UNCHANGED <<cs, mode>>

ReturnFromBody ==
    /\ FreshReturn /\ Len(th[T].ci) = 1 /\ T # main
    /\ e.what = "call" => e.by = "body"
    /\ ResumeEnds(th)

ReturnFromMethod ==
    /\ FreshReturn /\ e.what = "call" /\ e.by = "close"
    /\ LET p == cs[EntryOf(T)] IN CloseNext(th, Below(EntryOf(T)), T, p.nC, p.k.left, p.k.failed)

\* The message handler returns to luaG_errormsg.
ReturnFromHandler ==
    /\ FreshReturn /\ e.what = "call" /\ e.by = "handler"
    /\ th' = Returned /\ cs' = Front(cs) /\ mode' = "throw"

-----------------------------------------------------------------------------
(* Errors.                                                                 *)

Error == mode = "run" /\ mode' = "error" /\ UNCHANGED <<th, cs>>

\* luaG_errormsg.
CallHandler ==
    /\ mode = "error"
    /\ IF th[T].errfunc THEN CallFrom(T, <<>>, <<>>, "handler", 1, TRUE)
       ELSE mode' = "throw" /\ UNCHANGED <<th, cs>>

\* luaD_throw, to the last setjmp of this thread (L->errorJmp), entry j.
Throw(by, j) ==
    /\ mode = "throw" /\ cs[j].th = T /\ IsProtect(cs[j]) /\ cs[j].by \in by
    /\ \A i \in DOMAIN cs : cs[i].th = T /\ IsProtect(cs[i]) => i <= j

ThrowToPCall ==
    \E j \in DOMAIN cs :
        /\ Throw({"pcall"}, j)
        /\ cs' = Below(j) /\ mode' = "run"
        /\ th' = PCallEnds(th, SubSeq(th[T].ci, 1, cs[j].k), cs[j].nC)

\* The program of the main thread fails, and another one starts.
ThrowToMain ==
    /\ \E j \in DOMAIN cs : Throw({"main"}, j)
    /\ cs' = SubSeq(cs, 1, 2) /\ mode' = "run"
    /\ th' = [th EXCEPT ![T].ci = <<Lua(TRUE)>>, ![T].errfunc = FALSE,
                        ![T].nC = Plus(cs[1].nC, 1)]

\* findpcall.
Recover == {i \in DOMAIN th[T].ci : IsYPCall(th[T].ci[i])}
\* precover: unroll goes on from the last pcall, again protected.
ThrowToUnroll ==
    \E j \in DOMAIN cs, i \in Recover :
        /\ Throw({"resume", "unroll"}, j) /\ \A r \in Recover : r <= i
        /\ cs' = Append(Below(j), Protect(T, "unroll", cs[j].nC, 0)) /\ mode' = "run"
        /\ th' = PCallEnds(th, SubSeq(th[T].ci, 1, i), cs[j].nC)

\* The coroutine dies.  Its resumer gets the error; a function of coroutine.wrap
\* resets the coroutine, and raises the error again.
ThrowToResume ==
    \E j \in DOMAIN cs :
        LET u == Caller(T)
            dead == [th EXCEPT ![T].status = "error", ![T].nC = cs[j].nC]
        IN  /\ Throw({"resume", "unroll"}, j) /\ Recover = {}
            /\ IF Top(u).kind = "resume"
               THEN th' = Return(dead, u) /\ cs' = Below(j) /\ mode' = "run"
               ELSE \E left \in 0..MaxMethods :
                       CloseNext(dead, Below(j), T, cs[j].nC, left, TRUE)

ThrowToClose ==
    \E j \in DOMAIN cs :
        /\ Throw({"close"}, j)
        /\ CloseNext(th, Below(j), T, cs[j].nC, cs[j].k.left, TRUE)

-----------------------------------------------------------------------------
\* lua_newstate, and the lua_pcall of a program.
Init ==
    /\ th = [t \in Thread |-> [status |-> IF t = main THEN "ok" ELSE "none", fn |-> FALSE,
                               ci |-> IF t = main THEN <<Lua(TRUE)>> ELSE <<>>,
                               nC |-> [c |-> IF t = main THEN 1 ELSE 0,
                                       ny |-> IF t = main THEN 2 ELSE 0],
                               errfunc |-> FALSE]]
    /\ cs = <<Protect(main, "main", [c |-> 0, ny |-> 1], 0), CCall(main, "main", 1, 0)>>
    /\ mode = "run"

Next ==
    \/ CallLua \/ CallNoYield \/ \E handler \in BOOLEAN : ProtectedCall(handler)
    \/ \E t \in Thread : Create(t) \/ Close(t) \/ Resume(t, "resume") \/ Resume(t, "wrap")
    \/ Yield \/ ReturnLua \/ ReturnToC \/ ReturnToPCall \/ ReturnToUnroll
    \/ ReturnFromBody \/ ReturnFromMethod \/ ReturnFromHandler
    \/ Error \/ CallHandler \/ ThrowToPCall \/ ThrowToMain \/ ThrowToUnroll
    \/ ThrowToResume \/ ThrowToClose \/ Undefined

Spec == Init /\ [][Next]_vars

-----------------------------------------------------------------------------
(* Properties.                                                             *)

\* The entries of a thread that are calls, and those that forbid a yield.
CallsOf(t) == {i \in DOMAIN cs : cs[i].th = t /\ ~IsProtect(cs[i])}
Forbidding(t) == {i \in CallsOf(t) : IsCall(cs[i]) /\ cs[i].ny = 1}

\* Whatever errors, yields and resumes come in between, nCcalls of an active thread
\* is the number of the C calls of the whole chain of coroutines, and of the calls of
\* this thread that forbid a yield.  (A coroutine that is closed counts from its own
\* last value: lua_resetthread is not told who calls it.)
CCallsCounted ==
    \A t \in Active :
        LET base == IF t = main \/ Closing(t) THEN cs[EntryOf(t)].nC
                    ELSE [c |-> th[Caller(t)].nC.c, ny |-> 0]
        IN  th[t].nC = [c |-> base.c + Cardinality(CallsOf(t)),
                        ny |-> base.ny + Cardinality(Forbidding(t))]

\* The C functions that a coroutine has lost when it yielded are those that have a
\* continuation: every other one that is in its list is on the C stack, and all
\* that wait on the C stack for a call to return are in the list.
Unfinished(f) == f.kind = "call" \/ (f.kind = "pcall" /\ ~f.ypcall)
OnStack(x) == IsCall(x) /\ (x.by = "call" \/ (x.by = "pcall" /\ x.ny = 1))
LostHaveContinuation ==
    \A t \in Thread : th[t].status # "error" =>
        {j \in DOMAIN th[t].ci : Unfinished(th[t].ci[j])}
          = {cs[i].k : i \in {i \in CallsOf(t) : OnStack(cs[i])}}

\* The message handler is that of the last pcall in the list, also after yields and
\* errors, as long as the thread is not reset.
IsPCall(f) == f.kind = "pcall"
HandlerAmong(ci, n) ==
    \E i \in 1..n : /\ IsPCall(ci[i]) /\ ci[i].handler
                    /\ \A j \in i + 1..n : ~IsPCall(ci[j])
HandlerOfLastPCall ==
    \A t \in Thread : (t \in Active \/ AuxStatus(t) = "suspended") /\ ~Closing(t) =>
        th[t].errfunc = HandlerAmong(th[t].ci, Len(th[t].ci))

\* Coroutines are resumed, yield, end, fail and are closed as the manual says, until the
\* program resumes or closes one whose closing methods run: the code accepts this, though
\* such a coroutine neither waits in a call to yield nor has finished (the manual, of
\* coroutine.status and coroutine.close), and nothing is promised any more.
States == INSTANCE CoroutineStates WITH
              running <- T,
              resumer <- [t \in Active \ {main} |-> Caller(t)],
              suspended <- {t \in Thread : Accepts(t)} \ Active,
              closing <- {t \in Thread : Closing(t)},
              created <- {t \in Thread : th[t].status # "none"},
              undefined <- mode = "undefined"
ImplementsStates == States!StatesSpec

=============================================================================
