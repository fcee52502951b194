------------------------------- MODULE Closing -------------------------------
(***************************************************************************)
(* How one thread leaves scopes: luaF_close and everything that calls it   *)
(* -- OP_CLOSE, OP_RETURN, C functions that return or drop slots, pcall    *)
(* after an error, coroutine.close and os.exit -- when closing methods     *)
(* call, declare, fail and yield.                                          *)
(*                                                                         *)
(* A yield or an error that reaches lua_resume discards the C stack; the   *)
(* frames that lost their C activation are the first `lost' ones, and go   *)
(* on in `unroll', one at a time.                                          *)
(***************************************************************************)
EXTENDS TbcList, SequencesExt

CONSTANTS
    Size,         \* bound: registers of a function
    MaxFrames,    \* bound: depth of calls that are not closing methods
    MaxPending,   \* bound: variables pending at a time
    MaxLevel,     \* bound: the last slot that may hold one of them
    Results,      \* bound: how many values functions return
    OpenReturns   \* whether `return f()' may have open results (B = 0): BOOLEANs

ASSUME ClosingAssumption ==
    /\ Size \in Nat \ {0} /\ MaxFrames \in Nat \ {0} /\ MaxPending \in Nat /\ MaxLevel \in Nat
    /\ Results \subseteq Nat /\ OpenReturns \subseteq BOOLEAN

VARIABLES
    coroutine,    \* FALSE for the main thread
    frames,       \* the list L->ci
    lost,         \* how many of them have no C activation any more
    status        \* "running", "suspended", "failed", "ended"
list == <<tbclist, delta, pending>>
vars == <<list, coroutine, frames, lost, status>>

-----------------------------------------------------------------------------
(* Frames.                                                                 *)

Kinds == {"lua", "c", "pcall", "exit", "base"}
Phases == {"run", "call", "close", "return", "error"}
ClosePhases == {"close", "return", "error"}

NewFrame(kind, func, noyield) ==
    [kind |-> kind, func |-> func,
     noyield |-> noyield,   \* was called by luaD_callnoyield
     phase |-> "run",
     active |-> func,       \* the last slot of a variable in scope
     level |-> 0,           \* the argument of luaF_close
     n |-> 0, open |-> FALSE, evaluated |-> 0,   \* results; B = 0
     closes |-> 0,          \* the variable whose closing method this is
     ypcall |-> FALSE, recst |-> FALSE, raised |-> FALSE]

F == frames[Len(frames)]
SetF(f) == [frames EXCEPT ![Len(frames)] = f]
Running == status = "running" /\ frames # <<>> /\ lost < Len(frames)
InCode == Running /\ F.phase = "run"

Yieldable == coroutine /\ \A i \in DOMAIN frames : ~frames[i].noyield

\* The last argument of luaF_close.
CloseYields(f) == CASE f.phase = "close" -> f.kind = "lua"
                    [] f.phase = "return" -> TRUE
                    [] f.phase = "error" -> f.ypcall
MethodYields(f) == CloseYields(f)

\* L->top while a function closes its variables in order to return.
CiTop(f) == f.func + 1 + Size
Top(f) == IF f.kind = "lua" /\ f.phase = "return"
          THEN Max({f.active + 1 + f.n, CiTop(f)}) ELSE f.active + 1 + f.n

\* CLOSEKTOP keeps the stack; else the method is called above the variable and
\* its error object.
MethodAt(f) == IF f.phase = "return" \/ f.kind = "c" THEN Top(f) ELSE tbclist + 2

-----------------------------------------------------------------------------
(* Functions.                                                              *)

\* OP_TBC, OP_TFORPREP, lua_toclose
ToClose(l) ==
    /\ InCode /\ Len(frames) <= MaxFrames /\ Len(pending) < MaxPending
    /\ l \in F.active + 1 .. F.func + Size /\ l <= MaxLevel
    /\ NewTbc(l) /\ pending' = Append(pending, l)
    /\ frames' = SetF([F EXCEPT !.active = l])
    /\ UNCHANGED <<coroutine, lost, status>>

\* OP_CALL, lua_callk; lua_call allows no yields.
Call(kind, noyield) ==
    /\ InCode /\ Len(frames) < MaxFrames /\ (noyield => F.kind = "c")
    /\ frames' = Append(SetF([F EXCEPT !.phase = "call"]),
                        NewFrame(kind, F.active + 1, noyield))
    /\ UNCHANGED <<list, coroutine, lost, status>>

\* pcall: lua_pcallk with a continuation, which luaD_pcall replaces when the
\* thread is not yieldable.  The function is the second value of its frame.
Pcall ==
    /\ InCode /\ F.kind = "lua" /\ Len(frames) < MaxFrames
    /\ LET p == [NewFrame("pcall", F.active + 1, FALSE) EXCEPT
                    !.phase = "call", !.ypcall = Yieldable]
       IN  frames' = SetF([F EXCEPT !.phase = "call"])
                     \o <<p, NewFrame("lua", p.func + 2, ~Yieldable)>>
    /\ UNCHANGED <<list, coroutine, lost, status>>

\* OP_CLOSE; lua_settop and lua_closeslot
LeaveBlock(l) ==
    /\ InCode /\ l \in F.func + 1 .. F.active
    /\ frames' = SetF([F EXCEPT !.phase = "close", !.level = l])
    /\ UNCHANGED <<list, coroutine, lost, status>>

\* OP_RETURN; moveresults for a C function
Return(n, open) ==
    /\ InCode /\ (open => F.kind = "lua")
    /\ frames' = SetF([F EXCEPT !.phase = "return", !.n = n, !.evaluated = n,
                          !.open = open,
                          !.level = IF F.kind = "lua" THEN F.func + 1 ELSE F.func])
    /\ UNCHANGED <<list, coroutine, lost, status>>

\* os.exit(code, true): lua_close of a running main thread.
Exit ==
    /\ InCode /\ ~coroutine /\ F.kind = "lua" /\ Len(frames) < MaxFrames
    /\ frames' = Append(SetF([F EXCEPT !.phase = "call"]),
                        [NewFrame("exit", F.active + 1, FALSE) EXCEPT
                            !.phase = "error", !.level = 1])
    /\ UNCHANGED <<list, coroutine, lost, status>>

-----------------------------------------------------------------------------
(* luaF_close.                                                             *)

NotPopped == UNCHANGED <<tbclist, delta>>                    \* variant
Popped == PopTbc

\* One turn of its loop: the variable leaves the list, then its method runs.
CloseVariable ==
    /\ Running /\ F.phase \in ClosePhases /\ tbclist >= F.level
    /\ Popped
    /\ pending' = RemoveFirst(pending, tbclist)
    /\ frames' = Append(frames, [NewFrame("lua", MethodAt(F), ~MethodYields(F))
                                    EXCEPT !.closes = tbclist])
    /\ UNCHANGED <<coroutine, lost, status>>

\* The end of the loop in OP_CLOSE and in the functions of the API.
BlockLeft ==
    /\ Running /\ F.phase = "close" /\ tbclist < F.level
    /\ frames' = SetF([F EXCEPT !.phase = "run", !.active = F.level - 1, !.level = 0])
    /\ UNCHANGED <<list, coroutine, lost, status>>

\* luaD_poscall, also after pcall has closed what the error left: it returns false
\* and the error.
Returned ==
    /\ Running /\ F.phase \in {"return", "error"} /\ tbclist < F.level
    /\ frames' = IF F.kind \in {"exit", "base"} THEN <<>> ELSE Front(frames)
    /\ status' = IF frames' = <<>> THEN "ended" ELSE status
    /\ UNCHANGED <<list, coroutine, lost>>

\* The function that F called has returned; pcall returns true and its results.
GoOn ==
    /\ status = "running" /\ frames # <<>> /\ F.phase = "call" /\ ~F.recst
    /\ lost' = Min({lost, Len(frames) - 1})
    /\ frames' = IF F.kind = "pcall" THEN Front(frames) ELSE SetF([F EXCEPT !.phase = "run"])
    /\ status' = IF frames' = <<>> THEN "ended" ELSE status
    /\ UNCHANGED <<list, coroutine>>

-----------------------------------------------------------------------------
(* unroll: what a frame without a C activation does next.                  *)

\* OP_RETURN counts open results up to L->top when it is executed again; a C
\* function saved the number in nres.
CountAgain(f) == Top(f) - (f.active + 1)                     \* variant
RepeatedCount(f) == IF f.open THEN Top(f) - (f.active + 1) ELSE f.n

NotRepeated(f) == [f EXCEPT !.phase = "run", !.active = f.level - 1]  \* variant
\* luaV_finishOp: the instruction is repeated, and calls luaF_close again.
Repeated(f) == f

\* finishpcallk: the status stays until the variables are closed.
CloseForgetful(f) ==                                         \* variant
    [f EXCEPT !.phase = "error", !.level = f.func + 2, !.recst = FALSE]
CloseAfterError(f) == [f EXCEPT !.phase = "error", !.level = f.func + 2]

Unroll ==
    /\ status = "running" /\ frames # <<>> /\ lost = Len(frames)
    /\ \/ /\ F.phase = "close" /\ frames' = SetF(Repeated(F))
       \/ /\ F.phase = "return"
          /\ frames' = SetF([Repeated(F) EXCEPT !.n = RepeatedCount(F)])
       \/ /\ F.kind = "pcall" /\ F.recst
          /\ frames' = SetF(CloseAfterError(F))
    /\ lost' = Len(frames) - 1
    /\ UNCHANGED <<list, coroutine, status>>

-----------------------------------------------------------------------------
(* Errors and coroutines.                                                  *)

\* The frames that run something in protected mode, or that precover can find.
Handlers == {i \in DOMAIN frames : frames[i].kind \in {"pcall", "exit", "base"}}

\* luaD_throw: to a luaD_rawrunprotected in the C stack, or to lua_resume and from
\* there to a pcall that has a continuation.  The frames of a coroutine that failed
\* are not used any more.
Fail ==
    /\ InCode
    /\ IF Handlers = {}
       THEN status' = "failed" /\ frames' = <<>> /\ lost' = 0
       ELSE \E i \in Handlers :
            LET f == [frames[i] EXCEPT !.recst = TRUE, !.raised = TRUE]
            IN  /\ \A j \in Handlers : j <= i
                /\ frames' = Append(SubSeq(frames, 1, i - 1),
                                    IF f.kind = "pcall" /\ ~f.ypcall THEN CloseAfterError(f)
                                    ELSE f)
                /\ lost' = IF f.ypcall THEN i ELSE lost
                /\ UNCHANGED status
    /\ UNCHANGED <<list, coroutine>>

\* coroutine.yield, called by a Lua function or by a C function that has a
\* continuation
Yield ==
    /\ InCode /\ Yieldable
    /\ status' = "suspended" /\ lost' = Len(frames) - 1
    /\ UNCHANGED <<list, coroutine, frames>>

Resume ==
    /\ status = "suspended"
    /\ status' = "running"
    /\ UNCHANGED <<list, coroutine, frames, lost>>

\* luaE_resetthread, for coroutine.close and a failed coroutine.wrap
ResetThread ==
    /\ coroutine /\ status \in {"suspended", "failed"}
    /\ frames' = <<[NewFrame("base", 0, FALSE) EXCEPT !.phase = "error", !.level = 1]>>
    /\ lost' = 0 /\ status' = "running"
    /\ UNCHANGED <<list, coroutine>>

-----------------------------------------------------------------------------
\* A coroutine runs its function; the main thread runs the one that lua.c calls in
\* protected mode.
Init ==
    /\ ListInit /\ coroutine \in BOOLEAN
    /\ frames = IF coroutine THEN <<NewFrame("lua", 1, FALSE)>>
                ELSE <<[NewFrame("pcall", 1, FALSE) EXCEPT !.phase = "call"],
                       NewFrame("lua", 3, TRUE)>>
    /\ lost = 0 /\ status = "running"

Next ==
    \/ InCode /\ \E l \in F.func + 1 .. F.func + Size : ToClose(l) \/ LeaveBlock(l)
    \/ \E kind \in {"lua", "c"}, noyield \in BOOLEAN : Call(kind, noyield)
    \/ \E n \in Results, open \in OpenReturns : Return(n, open)
    \/ Pcall \/ Exit \/ CloseVariable \/ BlockLeft \/ Returned \/ GoOn \/ Unroll
    \/ Fail \/ Yield \/ Resume \/ ResetThread

Spec == Init /\ [][Next]_vars

-----------------------------------------------------------------------------
(* Properties.                                                             *)

\* Variables are closed in reverse order and once, whatever the methods do.
Scopes == INSTANCE TbcScopes WITH
    open <- pending,
    closing <- [i \in {j \in DOMAIN frames : frames[j].closes # 0} |-> frames[i].closes]
ImplementsScopes == Scopes!ScopesSpec

\* No variable outlives its scope: a variable that is pending belongs to a function
\* that has not left its block, or to one that an error removed while the handler
\* has not finished closing.
Owns(i, l) == frames[i].func < l /\ \A j \in DOMAIN frames : frames[j].func < l => j <= i
InScope(l) ==
    \/ \E i \in DOMAIN frames : frames[i].kind \in {"exit", "base"}
    \/ /\ \E i \in DOMAIN frames : frames[i].func < l
       /\ \A i \in DOMAIN frames : Owns(i, l) => frames[i].recst \/ l <= frames[i].active
NoneLeftBehind == status # "failed" => \A i \in DOMAIN pending : InScope(pending[i])

\* finishpcallk: "the error status is preserved across these multiple runs": a pcall
\* in which an error was raised can only return that there was one.
ErrorReported ==
    \A i \in DOMAIN frames : frames[i].raised => frames[i].recst

\* A function returns as many values as it had evaluated, when a closing method
\* yields in between.
ReturnsEvaluated ==
    \A i \in DOMAIN frames : frames[i].phase = "return" => frames[i].n = frames[i].evaluated

\* Every variable is closed in the end, however many methods fail or yield: if the
\* functions that are called return, and nobody abandons a coroutine.
ClosingCode == CloseVariable \/ BlockLeft \/ Returned \/ GoOn \/ Unroll
FunctionEnds(depth) ==
    Len(frames) = depth /\ \E n \in Results, open \in OpenReturns : Return(n, open)
FairSpec ==
    /\ Spec /\ WF_vars(ClosingCode) /\ WF_vars(Resume \/ ResetThread)
    /\ \A depth \in 1..MaxFrames + 1 : SF_vars(FunctionEnds(depth))
AllClosed == (tbclist # 0) ~> (tbclist = 0)

=============================================================================
