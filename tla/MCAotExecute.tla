---------------------------- MODULE MCAotExecute ----------------------------
(* Small programs for AotExecute: p1 with p2, q1 and q3 with q2; p2 and r1 alone. *)
EXTENDS AotExecute, TLC

CONSTANTS p1, p2, q1, q2, q3, r1

I(op) == [op |-> op, arg |-> 0]
J(op, arg) == [op |-> op, arg |-> arg]

\* Every class of instructions, in a vararg function and in another one.
Straight == <<I("varargprep"), I("arith"), I("meta"), I("compare"), J("jmp", 2),
              I("skip"), I("extra"), I("call"), I("tailcall"), I("return")>>
Looping == <<J("forprep", 1), I("plain"), J("forloop", 2),
           J("tforprep", 1), I("close"), I("tforcall"), J("tforloop", 3),
           I("test"), J("jmp", -2), I("return0")>>
\* Short functions, for deep stacks.
Calling == <<I("varargprep"), I("call"), I("return")>>
Leaving == <<I("compare"), J("jmp", -2), I("tailcall"), I("return0")>>

\* A numeric loop that calls, and a generic one.
Counting == <<I("varargprep"), J("forprep", 1), I("call"), J("forloop", 2),
              J("tforprep", 1), I("plain"), I("tforcall"), J("tforloop", 3),
              I("return")>>

MCCode == (p1 :> Straight) @@ (p2 :> Looping) @@ (q1 :> Calling) @@ (q2 :> Leaving)
          @@ (q3 :> Calling) @@ (r1 :> Counting)
MCLoaded == (p1 :> {p1, p2}) @@ (q1 :> {q1, q2}) @@ (p2 :> {p2}) @@ (q3 :> {q3, q2}) @@ (r1 :> {r1})

\* Every instruction with two functions, and deep stacks of short ones; signals in
\* every kind of loop: numeric, generic, of jumps and of tail calls.
MCSignals == (p1 :> 0) @@ (q1 :> 0) @@ (p2 :> 1) @@ (q3 :> 1) @@ (r1 :> 1)
MCMaxFrames == (p1 :> 2) @@ (q1 :> 3) @@ (p2 :> 1) @@ (q3 :> 2) @@ (r1 :> 2)

\* One signal while a compiled loop runs.
LoopLoaded == p1 :> {p1, p2}
LoopSignals == p1 :> 1
LoopMaxFrames == p1 :> 2

=============================================================================
