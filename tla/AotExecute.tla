----------------------------- MODULE AotExecute -----------------------------
(***************************************************************************)
(* How a Lua thread is executed: the trampoline luaV_execute, the          *)
(* interpreter luaV_execute_ of lvm.c and the two forms of C code that     *)
(* luaot generates, with labels and gotos (luaot_gotos.c) or with a switch *)
(* in a loop (luaot_switches.c).                                           *)
(*                                                                         *)
(* Every C activation of luaV_execute has its own copies of ci, pc and     *)
(* trap; a CallInfo has savedpc, trap and flags.  A C function, a          *)
(* metamethod or an iterator called by an instruction may call Lua         *)
(* functions in a new activation, may yield (which discards every          *)
(* activation: the coroutine goes on in `unroll'), may fail and may change *)
(* the hooks.  Hooks run when `trap' says so, may yield too, and a signal  *)
(* may install one at any time.  C frames themselves are not modelled: the *)
(* instruction stays in phase "mid" while they run.                        *)
(***************************************************************************)
EXTENDS LuaCode, FiniteSets

CONSTANTS
    Vararg,       \* the prototypes that are vararg functions
    Forms,        \* the forms a prototype may be executed in
    UserMask,     \* the events of the hook that debug.sethook installs
    Period,       \* ... and its count
    Loaded,       \* the prototypes that are loaded with each entry
    Signals,      \* bound: the number of signals, for each entry
    MaxFrames,    \* bound: the depth of the stack, for each entry
    MaxHookCalls  \* bound: how many calls of a function's call hook are counted

AllForms == {"interp", "goto", "switch"}
Events == {"call", "ret", "count"}     \* a line hook is one more count hook

VARIABLES
    main,         \* the main thread: it may not yield, and gets the signals
    form,         \* Proto.aot_implementation: how each prototype is executed
    frames,       \* the Lua functions of the list L->ci, innermost last
    acts,         \* the activations of luaV_execute in the C stack
    status,       \* "running", "callyield", "hookyield"
    hook,         \* L->hook: "none", "user" or "stop" (lstop of lua.c)
    hookcount,
    signals       \* the signals not sent yet
vars == <<main, form, frames, acts, status, hook, hookcount, signals>>

ASSUME ProgramAssumption ==
    /\ Entries \subseteq Proto /\ Vararg \subseteq Proto /\ WellFormed
    /\ Loaded \in [Entries -> SUBSET Proto]
    /\ \A e \in Entries : e \in Loaded[e]
    /\ \A d, e \in Entries : Loaded[d] = Loaded[e] => d = e
    /\ \A p \in Proto : p \in Vararg <=> Op(p, 1) = "varargprep"

ASSUME BoundsAssumption ==
    /\ Forms \subseteq AllForms /\ UserMask \subseteq Events
    /\ Period \in Nat \ {0}
    /\ Signals \in [Entries -> Nat] /\ MaxFrames \in [Entries -> Nat \ {0}]
    /\ MaxHookCalls \in Nat \ {0, 1}

\* The program that is executed.
Program == CHOOSE e \in Entries : Loaded[e] = DOMAIN form

-----------------------------------------------------------------------------
(* Where each form of code goes after the instruction at pc of p.          *)

Loads == {"plain", "skip", "meta", "close"}
Tests == {"jmp", "test", "compare"}
Loops == {"forprep", "forloop", "tforprep", "tforloop"}

\* In the interpreter and in a switch, pc is a variable that already points to
\* the next instruction, P; the instruction may change it.
PcLoads(p, pc, P) == IF Op(p, pc) = "skip" THEN {P + 1} ELSE {P}
PcArith(P) == {P, P + 1}
PcTests(p, pc, P) ==
    IF Op(p, pc) = "jmp" THEN {P + Arg(p, pc)} ELSE {P + 1, P + Arg(p, P) + 1}
PcLoops(p, pc, P) ==
    CASE Op(p, pc) = "forloop" -> {P, P - Arg(p, pc)}
      [] Op(p, pc) = "forprep" -> {P, P + Arg(p, pc) + 1}
      [] Op(p, pc) = "tforprep" -> {P + Arg(p, pc)}
      [] Op(p, pc) = "tforloop" -> {P, P - Arg(p, pc)}
PcNext(p, pc) ==
    CASE Op(p, pc) \in Loads -> PcLoads(p, pc, pc + 1)
      [] Op(p, pc) = "arith" -> PcArith(pc + 1)
      [] Op(p, pc) \in Tests -> PcTests(p, pc, pc + 1)
      [] Op(p, pc) \in Loops -> PcLoops(p, pc, pc + 1)
      [] OTHER -> {pc + 1}

\* In a switch, only an instruction that ends in `break' looks at pc again; any
\* other falls through to the next case.
SwitchBreaks == {"skip", "arith"} \cup Tests \cup Loops
SwitchNext(p, pc) == IF Op(p, pc) \in SwitchBreaks THEN PcNext(p, pc) ELSE {pc + 1}

\* With labels, an instruction falls through to the next one or jumps.
JumpTarget(p, pc) == (pc + 1) + Arg(p, pc)
NEXT_JUMP(p, pc) == JumpTarget(p, pc + 1)
SkipsNone(pc) == pc + 1                                      \* variant
SKIP1(pc) == pc + 2
GotoLoads(p, pc) == IF Op(p, pc) = "skip" THEN {SKIP1(pc)} ELSE {pc + 1}
GotoArith(pc) == {pc + 1, SKIP1(pc)}
GotoTests(p, pc) ==
    IF Op(p, pc) = "jmp" THEN {JumpTarget(p, pc)} ELSE {SKIP1(pc), NEXT_JUMP(p, pc)}
GotoLoops(p, pc) ==
    CASE Op(p, pc) = "forloop" -> {(pc + 1) - Arg(p, pc), pc + 1}
      [] Op(p, pc) = "forprep" -> {(pc + 1) + Arg(p, pc) + 1, pc + 1}
      [] Op(p, pc) = "tforprep" -> {(pc + 1) + Arg(p, pc)}
      [] Op(p, pc) = "tforloop" -> {(pc + 1) - Arg(p, pc), pc + 1}
GotoNext(p, pc) ==
    CASE Op(p, pc) \in Loads -> GotoLoads(p, pc)
      [] Op(p, pc) = "arith" -> GotoArith(pc)
      [] Op(p, pc) \in Tests -> GotoTests(p, pc)
      [] Op(p, pc) \in Loops -> GotoLoops(p, pc)
      [] OTHER -> {pc + 1}

NextPc(p, pc) == CASE form[p] = "interp" -> PcNext(p, pc)
                   [] form[p] = "switch" -> SwitchNext(p, pc)
                   [] form[p] = "goto" -> GotoNext(p, pc)

\* Instructions that read ci->u.l.trap again when they go from pc to n.
UpdatesTrap(p, pc, n) ==
    \/ Op(p, pc) = "jmp"
    \/ Op(p, pc) = "test" /\ n # pc + 2
    \/ Op(p, pc) = "forloop" /\ (form[p] = "goto" => n = pc + 1)
    \/ Op(p, pc) = "compare" /\ n # pc + 2

-----------------------------------------------------------------------------
(* Frames, activations and hooks.                                          *)

Mask == CASE hook = "none" -> {} [] hook = "user" -> UserMask [] hook = "stop" -> Events

FreshNotCleared(q, fresh, stale) ==                          \* variant
    [p |-> q, savedpc |-> 1, trap |-> stale, fresh |-> fresh \/ stale,
     hookyield |-> FALSE, hooked |-> FALSE, hookcalls |-> 0, repeats |-> 0]
\* The flags come from OP_CALL or ccall, and trap from an earlier use.  What is
\* known of the call hook since the function was called: `hooked', that there was
\* one when its first instruction came; how often it was called; and how often a
\* count hook yielded at the first instruction, which then comes again.
NewFrame(q, fresh, stale) ==
    [p |-> q, savedpc |-> 1, trap |-> stale, fresh |-> fresh,
     hookyield |-> FALSE, hooked |-> FALSE, hookcalls |-> 0, repeats |-> 0]
NewAct(ci, phase) == [ci |-> ci, phase |-> phase, pc |-> 1, trap |-> FALSE]

Last(s) == s[Len(s)]
F == Last(frames)
A == Last(acts)
SetF(f) == [frames EXCEPT ![Len(frames)] = f]
SetA(a) == [acts EXCEPT ![Len(acts)] = a]
In(phase) == status = "running" /\ acts # <<>> /\ A.phase = phase
Here == Op(F.p, A.pc)

\* settraps: every Lua function of the thread.
Settraps == [i \in DOMAIN frames |-> [frames[i] EXCEPT !.trap = TRUE]]

\* A hook point is passed: lstop does not return (see Interrupted).
HookReturns(event) == event \in Mask => hook # "stop"

-----------------------------------------------------------------------------
(* Entering a function: `startfunc' and `returning', and the prologue that *)
(* luaot generates.                                                        *)

\* The trap of the activation; when the interpreter itself returns to an
\* interpreted function, it keeps the value that it has.
EntryTrap == IF A.phase = "returning" /\ form[F.p] = "interp" THEN A.trap ELSE Mask # {}

CallsHookAnyway == EntryTrap /\ F.savedpc = 1                \* variant
CallsHook == EntryTrap /\ F.savedpc = 1 /\ F.p \notin Vararg
CallHook(f) == IF "call" \in Mask /\ f.hookcalls < MaxHookCalls
               THEN [f EXCEPT !.hookcalls = @ + 1] ELSE f

Prologue ==
    /\ In("enter") \/ In("returning")
    /\ CallsHook => HookReturns("call")
    /\ LET f == IF CallsHook THEN CallHook(F) ELSE F
       IN  frames' = SetF([f EXCEPT !.trap = EntryTrap \/ @,
                                    !.hooked = IF F.savedpc = 1 THEN "call" \in Mask ELSE @])
    /\ acts' = SetA([A EXCEPT !.phase = "fetch", !.pc = F.savedpc,
                        !.trap = EntryTrap /\ ~(F.savedpc = 1 /\ F.p \in Vararg)])
    /\ UNCHANGED <<main, form, status, hook, hookcount, signals>>

-----------------------------------------------------------------------------
(* vmfetch and luaG_traceexec.                                             *)

Fetch ==
    /\ In("fetch") /\ ~A.trap
    /\ acts' = SetA([A EXCEPT !.phase = "exec"])
    /\ UNCHANGED <<main, form, frames, status, hook, hookcount, signals>>

\* There are no line or count hooks.
TraceOff ==
    /\ In("fetch") /\ A.trap /\ "count" \notin Mask
    /\ acts' = SetA([A EXCEPT !.phase = "exec", !.trap = FALSE])
    /\ frames' = SetF([F EXCEPT !.trap = FALSE])
    /\ UNCHANGED <<main, form, status, hook, hookcount, signals>>

CountHook == hookcount = 1
NextCount == IF CountHook THEN (IF hook = "stop" THEN 1 ELSE Period) ELSE hookcount - 1

\* The hook is not due, or it was called before it yielded, or it is called.
TraceExec ==
    /\ In("fetch") /\ A.trap /\ "count" \in Mask
    /\ CountHook /\ ~F.hookyield => HookReturns("count")
    /\ hookcount' = NextCount
    /\ frames' = SetF([F EXCEPT !.savedpc = A.pc + 1,
                                !.hookyield = @ /\ ~CountHook])
    /\ acts' = SetA([A EXCEPT !.phase = "exec"])
    /\ UNCHANGED <<main, form, status, hook, signals>>

YieldedAfter(pc) == pc + 1                                   \* variant
YieldedAt(pc) == pc
\* The hook yields: every activation is lost, and the instruction will be
\* fetched again.  If it is the first one, its function will be entered again,
\* like one that is called now.
HookYields ==
    /\ ~main
    /\ In("fetch") /\ A.trap /\ "count" \in Mask /\ CountHook /\ hook = "user"
    /\ ~F.hookyield
    /\ hookcount' = 1
    /\ frames' = SetF([F EXCEPT !.savedpc = YieldedAt(A.pc), !.hookyield = TRUE,
                                !.repeats = IF A.pc = 1 /\ @ < MaxHookCalls - 1
                                            THEN @ + 1 ELSE @])
    /\ acts' = <<>> /\ status' = "hookyield"
    /\ UNCHANGED <<main, form, hook, signals>>

-----------------------------------------------------------------------------
(* Executing an instruction.                                               *)

GoTo(n, trap) == [A EXCEPT !.phase = "fetch", !.pc = n, !.trap = trap]

\* The interpreter goes from one instruction of a generic loop to the next
\* without a vmfetch.
Fused(p, pc) == form[p] = "interp" /\ Op(p, pc) \in {"tforprep", "tforcall"}
Landing(n, trap) ==
    [GoTo(n, trap) EXCEPT !.phase = IF Fused(F.p, A.pc) THEN "exec" ELSE "fetch"]

\* An instruction that calls nothing, or that needs not do so this time.
ExecSimple ==
    /\ In("exec")
    /\ Here \notin Returns \cup {"call", "tailcall", "tforcall", "varargprep"}
    /\ \E n \in NextPc(F.p, A.pc) :
          acts' = SetA(Landing(n, IF UpdatesTrap(F.p, A.pc, n) THEN F.trap ELSE A.trap))
    /\ UNCHANGED <<main, form, frames, status, hook, hookcount, signals>>

SavedPc(pc) == pc + 1

\* Protect and its variants: savepc, then a metamethod or a C function runs.
ExecCalls ==
    /\ In("exec") /\ Here \in Callers
    /\ frames' = SetF([F EXCEPT !.savedpc = SavedPc(A.pc)])
    /\ acts' = SetA([A EXCEPT !.phase = "mid"])
    /\ UNCHANGED <<main, form, status, hook, hookcount, signals>>

\* OP_CALL of a Lua function: the interpreter goes to `startfunc', generated
\* code returns the new ci to the trampoline.  luaD_precall does not set trap.
ExecCall(q) ==
    /\ In("exec") /\ Here = "call" /\ Len(frames) < MaxFrames[Program]
    /\ \E stale \in BOOLEAN :
          frames' = Append(SetF([F EXCEPT !.savedpc = SavedPc(A.pc)]),
                           NewFrame(q, FALSE, stale))
    /\ acts' = SetA([A EXCEPT !.ci = @ + 1, !.phase = "enter"])
    /\ UNCHANGED <<main, form, status, hook, hookcount, signals>>

\* OP_TAILCALL of a Lua function, in the same CallInfo.
ExecTailCall(q) ==
    /\ In("exec") /\ Here = "tailcall"
    /\ frames' = SetF([F EXCEPT !.p = q, !.savedpc = 1, !.hookcalls = 0, !.repeats = 0])
    /\ acts' = SetA([A EXCEPT !.phase = "enter"])
    /\ UNCHANGED <<main, form, status, hook, hookcount, signals>>

\* OP_VARARGPREP: hooks start after it.
ExecVarargPrep ==
    /\ In("exec") /\ Here = "varargprep"
    /\ F.trap => HookReturns("call")
    /\ LET f == IF F.trap THEN CallHook(F) ELSE F
       IN  frames' = SetF([f EXCEPT !.savedpc = SavedPc(A.pc)])
    /\ acts' = SetA(GoTo(A.pc + 1, F.trap))
    /\ UNCHANGED <<main, form, status, hook, hookcount, signals>>

\* How each form goes on in the caller of a function that is not fresh.
AfterReturn(p) == IF form[p] = "interp" THEN "returning" ELSE "enter"

\* The trap of the activation after luaD_poscall.
ReturnTraps == IF Here = "return0" THEN {A.trap \/ Mask # {}} ELSE {F.trap}

\* OP_RETURN (after closing variables, or with none), OP_RETURN0 and OP_RETURN1,
\* and OP_TAILCALL after a C function: a fresh function ends its activation.
ExecReturn ==
    /\ \/ In("exec") /\ Here \in Returns
       \/ In("mid") /\ Here \in {"return", "tailcall"}
    /\ HookReturns("ret")
    /\ frames' = SubSeq(frames, 1, Len(frames) - 1)
    /\ IF F.fresh
       THEN acts' = SubSeq(acts, 1, Len(acts) - 1)
       ELSE \E trap \in ReturnTraps :
               acts' = SetA([A EXCEPT !.ci = @ - 1, !.trap = trap,
                                      !.phase = AfterReturn(F.p)])
    /\ UNCHANGED <<main, form, status, hook, hookcount, signals>>

-----------------------------------------------------------------------------
(* While an instruction waits for a C function or a metamethod.            *)

\* luaD_call of a Lua function: a fresh CallInfo and a new activation.
Invoke(q) ==
    /\ In("mid") /\ Len(frames) < MaxFrames[Program]
    /\ \E stale \in BOOLEAN : frames' = Append(frames, NewFrame(q, TRUE, stale))
    /\ acts' = Append(acts, NewAct(Len(frames) + 1, "enter"))
    /\ UNCHANGED <<main, form, status, hook, hookcount, signals>>

\* debug.sethook
SetHook(h) ==
    /\ In("mid") /\ hook # "stop" /\ h # hook
    /\ hook' = h /\ hookcount' = Period
    /\ frames' = IF h = "user" /\ UserMask # {} THEN Settraps ELSE frames
    /\ UNCHANGED <<main, form, acts, status, signals>>

\* The call is over: the rest of the instruction.
Finish ==
    /\ In("mid") /\ Here \notin {"return", "tailcall"}
    /\ \E n \in NextPc(F.p, A.pc) : acts' = SetA(Landing(n, F.trap))
    /\ UNCHANGED <<main, form, frames, status, hook, hookcount, signals>>

\* lua_yield in a C function
Yield ==
    /\ In("mid") /\ ~main
    /\ acts' = <<>> /\ status' = "callyield"
    /\ UNCHANGED <<main, form, frames, hook, hookcount, signals>>

-----------------------------------------------------------------------------
(* Coroutines and errors.                                                  *)

\* lua_resume: a thread that yielded in a hook continues its Lua function; else
\* the C function that yielded finishes first, and `unroll' goes on.
Resume ==
    /\ status # "running"
    /\ status' = "running"
    /\ acts' = IF status = "hookyield" THEN <<NewAct(Len(frames), "enter")>> ELSE <<>>
    /\ UNCHANGED <<main, form, frames, hook, hookcount, signals>>

\* luaV_finishOp: where the interrupted instruction goes on.
FinishedAt(p, savedpc) ==
    CASE Op(p, savedpc - 1) = "compare" -> {savedpc, savedpc + 1}
      [] Op(p, savedpc - 1) \in Closers -> {savedpc - 1}
      [] OTHER -> {savedpc}

\* unroll: finish the interrupted instruction and execute down to a C boundary.
Unroll ==
    /\ status = "running" /\ acts = <<>> /\ frames # <<>>
    /\ \E n \in FinishedAt(F.p, F.savedpc) : frames' = SetF([F EXCEPT !.savedpc = n])
    /\ acts' = <<NewAct(Len(frames), "enter")>>
    /\ UNCHANGED <<main, form, status, hook, hookcount, signals>>

\* luaD_throw: the C stack is unwound to a protected call made by frame j (and
\* continued by precover when its activation was lost in a yield), or the thread
\* ends.
FreshAbove(j) == Cardinality({i \in j + 1..Len(frames) : frames[i].fresh})
Unwind(j) ==
    LET left == Len(acts) - FreshAbove(j)
    IN  /\ j = 0 \/ frames[j + 1].fresh
        /\ frames' = SubSeq(frames, 1, j)
        /\ acts' = IF left > 0 THEN SubSeq(acts, 1, left) ELSE <<>>

\* An error of a C function or of an instruction; a stack overflow.
Fail ==
    /\ In("mid") \/ In("exec")
    /\ \E j \in 0..Len(frames) - 1 : Unwind(j)
    /\ UNCHANGED <<main, form, status, hook, hookcount, signals>>

-----------------------------------------------------------------------------
(* Signals: laction of lua.c installs a hook, lstop, that raises an error. *)

Signal ==
    /\ main /\ signals > 0 /\ frames # <<>>
    /\ signals' = signals - 1
    /\ hook' = "stop" /\ hookcount' = 1
    /\ frames' = Settraps
    /\ UNCHANGED <<main, form, acts, status>>

HookPoint ==
    \/ (In("enter") \/ In("returning")) /\ CallsHook
    \/ In("fetch") /\ A.trap /\ CountHook /\ ~F.hookyield
    \/ In("exec") /\ Here = "varargprep" /\ F.trap
    \/ In("exec") /\ Here \in Returns
    \/ In("mid") /\ Here \in {"return", "tailcall"}

Interrupted ==
    /\ hook = "stop" /\ HookPoint
    /\ hook' = "none" /\ hookcount' = Period
    /\ \E j \in 0..Len(frames) - 1 : Unwind(j)
    /\ UNCHANGED <<main, form, status, signals>>

-----------------------------------------------------------------------------
Init ==
    /\ main \in BOOLEAN
    /\ \E e \in Entries :
          /\ form \in [Loaded[e] -> Forms]
          /\ frames = <<NewFrame(e, TRUE, FALSE)>>
          /\ signals = Signals[e]
    /\ acts = <<NewAct(1, "enter")>>
    /\ status = "running"
    /\ hook \in {"none", "user"} /\ hookcount = Period

Run ==
    \/ Prologue \/ Fetch \/ TraceOff \/ TraceExec \/ HookYields
    \/ ExecSimple \/ ExecCalls \/ ExecVarargPrep \/ ExecReturn
    \/ \E q \in DOMAIN form : ExecCall(q) \/ ExecTailCall(q) \/ Invoke(q)
    \/ \E h \in {"none", "user"} : SetHook(h)
    \/ Finish \/ Yield \/ Unroll \/ Fail \/ Interrupted

Next == Run \/ Resume \/ Signal

Spec == Init /\ [][Next]_vars

-----------------------------------------------------------------------------
(* Properties.                                                             *)

\* The local `ci' of the running activation is L->ci, and every other activation
\* waits, in an instruction, for the one fresh function that it called: a return
\* of generated code ends or continues the right C activation.
ActivationsMatch ==
    \A k \in DOMAIN acts :
        LET ci == acts[k].ci IN
        IF k = Len(acts) THEN ci = Len(frames)
        ELSE LET next == acts[k + 1].ci
             IN  /\ acts[k].phase = "mid" /\ ci < next /\ next <= Len(frames)
                 /\ {i \in ci + 1..next : frames[i].fresh} = {ci + 1}

\* A function calls its `call' hook before its second instruction (or after
\* OP_VARARGPREP), in whatever form it and its caller are executed, and does not
\* call it again, with one exception: after a count hook that yielded at its first
\* instruction the function is entered as if it was called now (ldebug.c:871, the test
\* of savedpc in lvm.c:1187 and luaot_gotos.c:56), once for each of these yields.
Begun(i) == i < Len(frames) \/ (In("exec") /\ (F.p \in Vararg => A.pc > 1))
CallHookOnce ==
    \A i \in DOMAIN frames :
        /\ frames[i].hookcalls <= 1 + frames[i].repeats
        /\ Begun(i) /\ frames[i].hooked => frames[i].hookcalls >= 1

\* Every form of code, and every mixture of them, implements LuaISA, across
\* nested calls, yields, errors and hooks.
AbstractFrame(i) ==
    LET f == frames[i] IN
    IF i < Len(frames) \/ In("mid") \/ (acts = <<>> /\ status # "hookyield")
    THEN [p |-> f.p, pc |-> f.savedpc - 1, mid |-> TRUE]
    ELSE [p |-> f.p, pc |-> IF In("fetch") \/ In("exec") THEN A.pc ELSE f.savedpc,
          mid |-> FALSE]
ISA == INSTANCE LuaISA WITH stack <- [i \in DOMAIN frames |-> AbstractFrame(i)]
ImplementsISA == ISA!ISASpec

\* The C code only has to go on, and what an instruction calls may not go on calling
\* failing functions for ever.
CallEnds == In("mid") /\ (Finish \/ ExecReturn \/ Interrupted)
FairSpec == Spec /\ WF_vars(Run) /\ SF_vars(CallEnds)

\* What a comment of the trampoline says of trap: a signal stops a program, whatever
\* loop it is in.
Stopped == hook # "stop" \/ frames = <<>>
SignalStops == (hook = "stop") ~> Stopped

\* A numeric loop in the form with labels, no instruction of which is sure to read trap
\* again or to enter a function, does not see that it is to stop.
Blind(p) ==
    form[p] = "goto" /\ \E pc \in DOMAIN Code[p] :
        /\ Op(p, pc) = "forloop"
        /\ \A n \in pc + 1 - Arg(p, pc)..pc - 1 : Op(p, n) \notin {"jmp", "call", "tforcall"}

=============================================================================
