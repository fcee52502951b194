------------------------------- MODULE LuaCode ------------------------------
(***************************************************************************)
(* The code of Lua functions, as lopcodes.h describes it.  Opcodes are     *)
(* grouped in classes by what they do to the control flow.  Registers are  *)
(* abstracted: both results of a test are possible, and both paths of an   *)
(* arithmetic instruction.                                                 *)
(***************************************************************************)
EXTENDS Integers, Sequences

CONSTANTS
    Proto,        \* the function prototypes of the program
    Code,         \* their code: sequences of Instructions
    Entries       \* the prototypes that a thread may call first

Ops == {"plain", "skip", "meta", "close", "arith", "jmp", "test", "compare",
        "call", "tailcall", "return", "return0", "forprep", "forloop",
        "tforprep", "tforcall", "tforloop", "varargprep", "extra"}

\* An opcode and its jump offset (sJ or Bx).
Instruction == [op : Ops, arg : Int]

Op(p, pc) == Code[p][pc].op
Arg(p, pc) == Code[p][pc].arg

Returns == {"return", "return0"}

\* Instructions that call a function or a metamethod, and those of them that
\* are executed again when the call is over and there is more to close.
Callers == {"meta", "close", "compare", "call", "tailcall", "tforcall", "return"}
Closers == {"close", "return"}

\* The comments of lopcodes.h, where pc is already past the instruction.  The
\* jump after a test may be a step of its own or not.
Succ(p, pc) ==
    LET n == pc + 1
        arg == Arg(p, pc)
    IN  CASE Op(p, pc) \in {"test", "compare"} -> {n, n + 1, n + 1 + Arg(p, n)}
          [] Op(p, pc) = "arith" -> {n, n + 1}
          [] Op(p, pc) = "skip" -> {n + 1}
          [] Op(p, pc) = "jmp" -> {n + arg}
          [] Op(p, pc) = "forloop" -> {n, n - arg}
          [] Op(p, pc) = "forprep" -> {n, n + arg + 1}
          [] Op(p, pc) = "tforprep" -> {n + arg}
          [] Op(p, pc) = "tforloop" -> {n, n - arg}
          [] OTHER -> {n}

\* What the compiler of Lua guarantees about its code.  Nothing jumps to OP_VARARGPREP,
\* which comes before the body, and what closes variables comes after what declared
\* them.
WellFormed ==
    \A p \in Proto :
        LET c == Code[p] IN
        /\ c \in Seq(Instruction) /\ c # <<>>
        /\ \A pc \in 1..Len(c) :
              /\ c[pc].op \notin Returns \cup {"extra"} =>
                    Succ(p, pc) \subseteq {n \in 1..Len(c) : c[n].op \notin {"extra", "varargprep"}}
              /\ c[pc].op \in {"test", "compare"} => c[pc + 1].op = "jmp"
              /\ c[pc].op = "tforprep" => c[pc + 1 + c[pc].arg].op = "tforcall"
              /\ c[pc].op = "tforcall" => c[pc + 1].op = "tforloop"
              /\ c[pc].op = "varargprep" => pc = 1
              /\ c[pc].op \in Closers => pc # 1
        /\ c[1].op # "extra"

=============================================================================
