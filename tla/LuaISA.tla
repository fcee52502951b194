------------------------------- MODULE LuaISA -------------------------------
(***************************************************************************)
(* What a thread running Lua functions does, as lopcodes.h describes it:   *)
(* a stack of functions, each at an instruction that it is about to        *)
(* execute or, when `mid', in the middle of an instruction that called     *)
(* something.  There are no C activations, no saved copies of the program  *)
(* counter, no traps and no forms of code here: this is what every way of  *)
(* executing a function has to implement.                                  *)
(***************************************************************************)
EXTENDS LuaCode

VARIABLE stack

At(p, pc, mid) == [p |-> p, pc |-> pc, mid |-> mid]
Top == stack[Len(stack)]
SetTop(f) == [stack EXCEPT ![Len(stack)] = f]

ISAInit == \E e \in Entries : stack = <<At(e, 1, FALSE)>>

\* An instruction is executed, or the one that called something is completed.
Execute ==
    /\ stack # <<>> /\ Op(Top.p, Top.pc) \notin Returns
    /\ Top.mid => Op(Top.p, Top.pc) \in Callers
    /\ \E n \in Succ(Top.p, Top.pc) : stack' = SetTop(At(Top.p, n, FALSE))

\* An instruction begins to call something that may last.
Begin ==
    /\ stack # <<>> /\ ~Top.mid /\ Op(Top.p, Top.pc) \in Callers
    /\ stack' = SetTop([Top EXCEPT !.mid = TRUE])

\* A Lua function is called, by the instruction or by something that it called.
Invoke(q) ==
    /\ stack # <<>> /\ Op(Top.p, Top.pc) \in Callers
    /\ Top.mid \/ Op(Top.p, Top.pc) = "call"
    /\ stack' = Append(SetTop([Top EXCEPT !.mid = TRUE]), At(q, 1, FALSE))

TailCall(q) ==
    /\ stack # <<>> /\ ~Top.mid /\ Op(Top.p, Top.pc) = "tailcall"
    /\ stack' = SetTop(At(q, 1, FALSE))

\* Go on closing variables after one of them has been closed.
Repeat ==
    /\ stack # <<>> /\ Top.mid /\ Op(Top.p, Top.pc) \in Closers
    /\ stack' = SetTop([Top EXCEPT !.mid = FALSE])

\* The function returns, also after a tail call to a C function; a call
\* instruction of the caller may be completed at once.
Return ==
    LET rest == SubSeq(stack, 1, Len(stack) - 1)
        n == Len(rest)
    IN  /\ stack # <<>>
        /\ \/ Op(Top.p, Top.pc) \in Returns
           \/ Op(Top.p, Top.pc) = "tailcall" /\ Top.mid
        /\ \/ stack' = rest
           \/ /\ n > 0 /\ Op(rest[n].p, rest[n].pc) = "call"
              /\ stack' = [rest EXCEPT ![n] = At(@.p, @.pc + 1, FALSE)]

\* An error goes to an instruction that called a protected function, or ends
\* the thread.
Throw(j) ==
    /\ j = 0 \/ stack[j].mid
    /\ stack' = SubSeq(stack, 1, j)

ISANext ==
    \/ Execute \/ Begin \/ Repeat \/ Return
    \/ \E q \in Proto : Invoke(q) \/ TailCall(q)
    \/ \E j \in 0..Len(stack) - 1 : Throw(j)

ISASpec == ISAInit /\ [][ISANext]_stack

=============================================================================
