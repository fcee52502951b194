-------------------------- MODULE AotExecuteProofs --------------------------
(***************************************************************************)
(* Proofs about AotExecute: the C activations match the Lua functions, the *)
(* call hook is called once, and every form of code implements LuaISA.     *)
(***************************************************************************)
EXTENDS AotExecute, FiniteSetTheorems, TLAPS

-----------------------------------------------------------------------------
(* Sequences.                                                              *)

LEMMA LastInSeq ==
    ASSUME NEW S, NEW s \in Seq(S), s # <<>>
    PROVE  Last(s) \in S /\ Last(s) = s[Len(s)] /\ Len(s) \in Nat \ {0} /\ Len(s) \in DOMAIN s
  BY DEF Last

LEMMA LastTwo == \A n \in Nat : \A i \in 1..n + 1 : i \in 1..n - 1 \/ i = n \/ i = n + 1
  OBVIOUS

LEMMA NextIndex == \A n \in Nat : \A i \in 1..n - 1 : i + 1 \in 1..n - 1 \/ i + 1 = n
  OBVIOUS

LEMMA NoIndex == 1..0 = {} /\ 1..-1 = {}
  OBVIOUS

\* The last element is replaced.
LEMMA LastReplaced ==
    ASSUME NEW S, NEW s \in Seq(S), s # <<>>, NEW x \in S, NEW t, t = [s EXCEPT ![Len(s)] = x]
    PROVE  /\ t \in Seq(S) /\ t # <<>> /\ Len(t) = Len(s) /\ t[Len(s)] = x /\ Last(t) = x
           /\ \A i \in 1..Len(s) - 1 : t[i] = s[i]
  <1>1. t \in Seq(S) /\ Len(t) = Len(s)
    OBVIOUS
  <1>2. t[Len(s)] = x
    OBVIOUS
  <1>3. \A i \in 1..Len(s) - 1 : t[i] = s[i]
    OBVIOUS
  <1>4. t # <<>> /\ Last(t) = x
    BY <1>1, <1>2 DEF Last
  <1> QED
    BY <1>1, <1>2, <1>3, <1>4

\* The rest is dropped.
LEMMA Prefix ==
    ASSUME NEW S, NEW s \in Seq(S), NEW n \in 0..Len(s)
    PROVE  /\ SubSeq(s, 1, n) \in Seq(S) /\ Len(SubSeq(s, 1, n)) = n
           /\ \A i \in 1..n : SubSeq(s, 1, n)[i] = s[i]
           /\ SubSeq(s, 1, n) = <<>> <=> n = 0
  <1>1. SubSeq(s, 1, n) \in Seq(S) /\ Len(SubSeq(s, 1, n)) = n
    OBVIOUS
  <1>2. \A i \in 1..n : SubSeq(s, 1, n)[i] = s[i]
    OBVIOUS
  <1>3. SubSeq(s, 1, n) = <<>> <=> n = 0
    BY <1>1
  <1> QED
    BY <1>1, <1>2, <1>3

-----------------------------------------------------------------------------
(* The invariant.                                                          *)

Phases == {"enter", "returning", "fetch", "exec", "mid"}
Frame == [p : DOMAIN form, savedpc : Nat, trap : BOOLEAN, fresh : BOOLEAN,
          hookyield : BOOLEAN, hooked : BOOLEAN, hookcalls : 0..MaxHookCalls,
          repeats : 0..MaxHookCalls - 1]
Activation == [ci : Nat \ {0}, phase : Phases, pc : Nat, trap : BOOLEAN]

TypeOK ==
    /\ main \in BOOLEAN
    /\ form \in [DOMAIN form -> Forms] /\ DOMAIN form \subseteq Proto
    /\ frames \in Seq(Frame) /\ acts \in Seq(Activation)
    /\ status \in {"running", "callyield", "hookyield"}
    /\ hook \in {"none", "user", "stop"}
    /\ hookcount \in Nat \ {0} /\ signals \in Nat

\* Each activation executes the functions from a fresh one up to its ci, and waits
\* for the fresh function of the next activation, if there is one.
Nested ==
    /\ frames # <<>> => frames[1].fresh
    /\ acts # <<>> => status = "running" /\ A.ci = Len(frames) /\ frames # <<>>
    /\ status # "running" => frames # <<>>
    /\ \A k \in 1..Len(acts) - 1 :
          /\ acts[k].phase = "mid" /\ acts[k].ci < Len(frames)
          /\ frames[acts[k].ci + 1].fresh
    /\ \A k, l \in DOMAIN acts : k < l => acts[k].ci < acts[l].ci
    /\ \A i \in DOMAIN frames :
          acts # <<>> /\ acts[1].ci < i /\ frames[i].fresh
             => \E k \in 1..Len(acts) - 1 : i = acts[k].ci + 1

ValidPc(p, pc) == pc \in 1..Len(Code[p]) /\ Op(p, pc) # "extra"
WaitsAt(p, pc) == ValidPc(p, pc) /\ Op(p, pc) \in Callers

\* The call hook was called once, and perhaps once more for each time that the
\* first instruction came again.
Counted(f) == f.hookcalls <= 1 + f.repeats
\* The call hook of a function is still to be called while its first instruction
\* is (the count of repeats stops at its bound), and has been called afterwards.
Uncalled(f) == f.hookcalls <= f.repeats \/ f.repeats = MaxHookCalls - 1
Settled(f) == f.hooked => f.hookcalls >= 1

\* A function that waits has saved its pc, in the middle of an instruction.
Waiting(f) == WaitsAt(f.p, f.savedpc - 1) /\ Settled(f)
\* One that is entered, again perhaps, goes on at the saved pc.
Entered(f) ==
    ValidPc(f.p, f.savedpc) /\ IF f.savedpc = 1 THEN Uncalled(f) ELSE Settled(f)
\* One that is executed is at an instruction; before OP_VARARGPREP there are no hooks.
Executed(f, a) ==
    /\ ValidPc(f.p, a.pc)
    /\ IF f.p \in Vararg /\ a.pc = 1
       THEN ~a.trap /\ Uncalled(f) /\ (f.hooked => f.trap /\ "call" \in Mask)
       ELSE Settled(f)
\* The innermost function, and the activation that executes it.
Consistent(f, a) ==
    /\ a.phase \in {"enter", "returning"} => Entered(f)
    /\ a.phase = "returning" => f.savedpc # 1
    /\ a.phase \in {"fetch", "exec"} => Executed(f, a)
    /\ a.phase = "mid" => Waiting(f) /\ a.pc = f.savedpc - 1

PcsSaved ==
    /\ \A i \in DOMAIN frames : Counted(frames[i])
    /\ \A i \in 1..Len(frames) - 1 :
          /\ Waiting(frames[i])
          /\ frames[i + 1].fresh \/ Op(frames[i].p, frames[i].savedpc - 1) = "call"
    /\ \A k \in 1..Len(acts) - 1 : acts[k].pc = frames[acts[k].ci].savedpc - 1
    /\ acts # <<>> => Consistent(F, A)
    /\ acts = <<>> /\ frames # <<>> => IF status = "hookyield" THEN Entered(F) ELSE Waiting(F)

Inv == TypeOK /\ Nested /\ PcsSaved

-----------------------------------------------------------------------------
(* Code.                                                                   *)

\* What WellFormed says of one instruction.
LEMMA CodeFacts ==
    ASSUME NEW p \in Proto, NEW pc, ValidPc(p, pc)
    PROVE  /\ pc \in Nat /\ pc # 0 /\ Op(p, pc) \in Ops \ {"extra"} /\ Arg(p, pc) \in Int
           /\ Op(p, pc) \notin Returns =>
                 \A n \in Succ(p, pc) : n \in Nat /\ ValidPc(p, n) /\ Op(p, n) # "varargprep"
           /\ Op(p, pc) = "varargprep" => pc = 1
           /\ Op(p, pc) \in Closers => pc # 1
  <1>1. /\ Code[p] \in Seq(Instruction) /\ pc \in 1..Len(Code[p])
        /\ Code[p][pc] \in Instruction /\ Code[p][pc].op # "extra"
    BY ProgramAssumption DEF WellFormed, ValidPc, Op
  <1>2. /\ Op(p, pc) \notin Returns \cup {"extra"} =>
             Succ(p, pc) \subseteq {n \in 1..Len(Code[p]) : Op(p, n) \notin {"extra", "varargprep"}}
        /\ Op(p, pc) = "varargprep" => pc = 1
        /\ Op(p, pc) \in Closers => pc # 1
    BY <1>1, ProgramAssumption DEF WellFormed, Op
  <1>3. Op(p, pc) \in Ops \ {"extra"} /\ Arg(p, pc) \in Int
    BY <1>1 DEF Instruction, Op, Arg
  <1> QED
    BY <1>1, <1>2, <1>3 DEF ValidPc

\* The first instruction.
LEMMA EntryValid ==
    ASSUME NEW p \in Proto
    PROVE  ValidPc(p, 1) /\ (p \in Vararg <=> Op(p, 1) = "varargprep")
  BY ProgramAssumption DEF WellFormed, ValidPc, Op

\* Every form of code goes where LuaISA allows it to.
LEMMA FormsFollowISA ==
    ASSUME NEW p \in Proto, NEW pc, ValidPc(p, pc), Op(p, pc) \notin Returns,
           form \in [DOMAIN form -> Forms], p \in DOMAIN form
    PROVE  NextPc(p, pc) \subseteq Succ(p, pc)
  <1>1. pc \in Nat /\ Arg(p, pc) \in Int /\ Op(p, pc) \in Ops \ {"return", "return0", "extra"}
    BY CodeFacts DEF Returns
  <1>2. Op(p, pc) \in Tests \ {"jmp"} => Arg(p, pc + 1) \in Int
    <2> SUFFICES ASSUME Op(p, pc) \in Tests \ {"jmp"}
                 PROVE  Arg(p, pc + 1) \in Int
      OBVIOUS
    <2>1. pc + 1 \in Succ(p, pc)
      BY DEF Succ, Tests
    <2> QED
      BY <2>1, CodeFacts
  <1>3. form[p] \in AllForms
    BY BoundsAssumption
  <1>4. CASE Op(p, pc) \in Tests
    <2>1. PcNext(p, pc) \subseteq Succ(p, pc) /\ GotoNext(p, pc) \subseteq Succ(p, pc)
      BY <1>1, <1>2, <1>4 DEF PcNext, PcTests, GotoNext, GotoTests, NEXT_JUMP, JumpTarget,
           SKIP1, Succ, Tests, Loads, Loops
    <2> QED
      BY <1>3, <1>4, <2>1 DEF NextPc, SwitchNext, SwitchBreaks, AllForms
  <1>5. CASE Op(p, pc) \in Loops
    <2>1. PcNext(p, pc) \subseteq Succ(p, pc) /\ GotoNext(p, pc) \subseteq Succ(p, pc)
      BY <1>1, <1>5 DEF PcNext, PcLoops, GotoNext, GotoLoops, Succ, Tests, Loads, Loops
    <2> QED
      BY <1>3, <1>5, <2>1 DEF NextPc, SwitchNext, SwitchBreaks, AllForms
  <1>6. CASE Op(p, pc) \notin Tests \cup Loops
    <2>1. PcNext(p, pc) \subseteq Succ(p, pc) /\ GotoNext(p, pc) \subseteq Succ(p, pc)
      BY <1>1, <1>6 DEF PcNext, PcLoads, PcArith, GotoNext, GotoLoads, GotoArith, SKIP1,
           Succ, Tests, Loads, Loops, Ops
    <2>2. SwitchNext(p, pc) \subseteq Succ(p, pc)
      BY <1>1, <1>6, <2>1 DEF SwitchNext, SwitchBreaks, Succ, Tests, Loops, Ops
    <2> QED
      BY <1>3, <2>1, <2>2 DEF NextPc, AllForms
  <1> QED
    BY <1>4, <1>5, <1>6

-----------------------------------------------------------------------------
(* Types.                                                                  *)

\* The elements of the two lists.
LEMMA Elements ==
    ASSUME TypeOK
    PROVE  /\ \A i \in DOMAIN frames : frames[i] \in Frame
           /\ \A k \in DOMAIN acts :
                 acts[k] \in Activation /\ acts[k].ci \in Nat /\ acts[k].ci # 0
           /\ Len(frames) \in Nat /\ DOMAIN frames = 1..Len(frames)
           /\ Len(acts) \in Nat /\ DOMAIN acts = 1..Len(acts)
  <1>1. \A a \in Activation : a.ci \in Nat /\ a.ci # 0
    BY DEF Activation
  <1>2. \A i \in DOMAIN frames : frames[i] \in Frame
    BY DEF TypeOK
  <1>3. \A k \in DOMAIN acts : acts[k] \in Activation
    BY DEF TypeOK
  <1> QED
    BY <1>1, <1>2, <1>3 DEF TypeOK

\* The innermost function and activation.
LEMMA Innermost ==
    ASSUME TypeOK
    PROVE  /\ frames # <<>> => /\ F \in Frame /\ F.p \in DOMAIN form /\ F.p \in Proto
                               /\ F = frames[Len(frames)] /\ Len(frames) \in DOMAIN frames
           /\ acts # <<>> => /\ A \in Activation /\ A = acts[Len(acts)]
                             /\ Len(acts) \in DOMAIN acts
  <1>1. frames # <<>> => /\ F \in Frame /\ F = frames[Len(frames)]
                         /\ Len(frames) \in DOMAIN frames
    BY LastInSeq DEF TypeOK, F
  <1>2. acts # <<>> => /\ A \in Activation /\ A = acts[Len(acts)]
                       /\ Len(acts) \in DOMAIN acts
    BY LastInSeq DEF TypeOK, A
  <1>3. \A f \in Frame : f.p \in DOMAIN form /\ f.p \in Proto
    BY DEF Frame, TypeOK
  <1> QED
    BY <1>1, <1>2, <1>3

\* SetF and SetA replace the last element, and keep the others.
LEMMA SetFacts ==
    ASSUME TypeOK
    PROVE  /\ frames # <<>> => \A f \in Frame :
                 /\ SetF(f) \in Seq(Frame) /\ SetF(f) # <<>> /\ Len(SetF(f)) = Len(frames)
                 /\ SetF(f)[Len(frames)] = f
                 /\ \A i \in 1..Len(frames) - 1 : SetF(f)[i] = frames[i]
           /\ acts # <<>> => \A a \in Activation :
                 /\ SetA(a) \in Seq(Activation) /\ SetA(a) # <<>> /\ Len(SetA(a)) = Len(acts)
                 /\ SetA(a)[Len(acts)] = a
                 /\ \A i \in 1..Len(acts) - 1 : SetA(a)[i] = acts[i]
  BY LastReplaced DEF TypeOK, SetF, SetA

-----------------------------------------------------------------------------
(* Steps of the innermost activation in its function.                      *)

\* An action that changes only the innermost function and its activation.
LEMMA TopStep ==
    ASSUME Inv, acts # <<>>, NEW f \in Frame, NEW a \in Activation,
           frames' = SetF(f), acts' = SetA(a), f.fresh = F.fresh, a.ci = A.ci,
           Counted(f), Consistent(f, a),
           UNCHANGED <<main, form, status, hook, signals>>, hookcount' \in Nat \ {0}
    PROVE  Inv'
  <1>1. /\ frames # <<>> /\ F = frames[Len(frames)] /\ Len(frames) \in DOMAIN frames
        /\ A = acts[Len(acts)] /\ Len(acts) \in DOMAIN acts
        /\ A.ci = Len(frames) /\ status = "running"
        /\ Len(frames) \in Nat /\ DOMAIN frames = 1..Len(frames)
        /\ Len(acts) \in Nat /\ DOMAIN acts = 1..Len(acts)
    BY Innermost, Elements DEF Inv, Nested
  <1>2. /\ frames' \in Seq(Frame) /\ frames' # <<>> /\ Len(frames') = Len(frames)
        /\ frames'[Len(frames)] = f
        /\ \A i \in 1..Len(frames) - 1 : frames'[i] = frames[i]
        /\ acts' \in Seq(Activation) /\ acts' # <<>> /\ Len(acts') = Len(acts)
        /\ acts'[Len(acts)] = a
        /\ \A i \in 1..Len(acts) - 1 : acts'[i] = acts[i]
    BY <1>1, SetFacts DEF Inv
  <1>3. /\ F' = f /\ A' = a
        /\ DOMAIN frames' = 1..Len(frames) /\ DOMAIN acts' = 1..Len(acts)
    BY <1>2 DEF F, A, Last
  <1>4. TypeOK'
    BY <1>2 DEF Inv, TypeOK, Frame
  <1>5. Nested'
    <2>1. \A i \in DOMAIN frames : frames'[i].fresh = frames[i].fresh
      BY <1>1, <1>2
    <2>2. \A k \in DOMAIN acts : acts'[k].ci = acts[k].ci
      BY <1>1, <1>2
    <2>3. \A k \in 1..Len(acts) - 1 : acts[k].ci \in Nat /\ acts[k].ci + 1 \in DOMAIN frames
      BY <1>1, Elements DEF Inv, Nested
    <2>4. \A k \in 1..Len(acts') - 1 :
             /\ acts'[k].phase = "mid" /\ acts'[k].ci < Len(frames')
             /\ frames'[acts'[k].ci + 1].fresh
      <3> SUFFICES ASSUME NEW k \in 1..Len(acts') - 1
                   PROVE  /\ acts'[k].phase = "mid" /\ acts'[k].ci < Len(frames')
                          /\ frames'[acts'[k].ci + 1].fresh
        OBVIOUS
      <3>1. k \in 1..Len(acts) - 1 /\ acts'[k] = acts[k]
        BY <1>2
      <3>2. /\ acts[k].phase = "mid" /\ acts[k].ci < Len(frames)
            /\ frames[acts[k].ci + 1].fresh
        BY <3>1 DEF Inv, Nested
      <3> QED
        BY <1>2, <2>1, <2>3, <3>1, <3>2
    <2>5. \A i \in DOMAIN frames' :
             acts' # <<>> /\ acts'[1].ci < i /\ frames'[i].fresh
                => \E k \in 1..Len(acts') - 1 : i = acts'[k].ci + 1
      BY <1>1, <1>2, <1>3, <2>1, <2>2 DEF Inv, Nested
    <2>6. frames'[1].fresh
      BY <1>1, <2>1 DEF Inv, Nested
    <2>7. \A k, l \in DOMAIN acts' : k < l => acts'[k].ci < acts'[l].ci
      BY <1>1, <1>3, <2>2 DEF Inv, Nested
    <2> QED
      BY <1>1, <1>2, <1>3, <2>4, <2>5, <2>6, <2>7 DEF Nested
  <1>6. PcsSaved'
    <2>1. Consistent(f, a)'
      BY DEF Consistent, Executed, Mask
    <2>2. \A i \in DOMAIN frames' : Counted(frames'[i])
      BY <1>1, <1>2, <1>3 DEF Inv, PcsSaved
    <2>3. \A i \in 1..Len(frames) - 1 :
             /\ Waiting(frames'[i])
             /\ frames'[i + 1].fresh \/ Op(frames'[i].p, frames'[i].savedpc - 1) = "call"
      BY <1>1, <1>2 DEF Inv, PcsSaved
    <2>4. \A k \in 1..Len(acts) - 1 :
             acts'[k] = acts[k] /\ acts[k].ci \in 1..Len(frames) - 1
      BY <1>1, <1>2, Elements DEF Inv, Nested
    <2>5. ASSUME NEW k \in 1..Len(acts) - 1
          PROVE  acts'[k].pc = frames'[acts'[k].ci].savedpc - 1
      <3>1. acts[k].pc = frames[acts[k].ci].savedpc - 1
        BY DEF Inv, PcsSaved
      <3> QED
        BY <1>2, <2>4, <3>1
    <2> QED
      BY <1>2, <1>3, <2>1, <2>2, <2>3, <2>5
         DEF PcsSaved, Waiting, WaitsAt, ValidPc, Settled, Counted
  <1> QED
    BY <1>4, <1>5, <1>6 DEF Inv

\* The state in which an activation acts.
LEMMA Acting ==
    ASSUME Inv, NEW phase, In(phase)
    PROVE  /\ acts # <<>> /\ frames # <<>> /\ status = "running" /\ A.phase = phase
           /\ F \in Frame /\ A \in Activation /\ Consistent(F, A) /\ Counted(F)
           /\ F.p \in DOMAIN form /\ F.p \in Proto /\ A.ci = Len(frames) /\ Len(frames) \in Nat
  <1>1. acts # <<>> /\ frames # <<>> /\ status = "running" /\ A.phase = phase /\ A.ci = Len(frames)
    BY DEF In, Inv, Nested
  <1>2. Counted(F) /\ Consistent(F, A)
    BY <1>1, Innermost DEF Inv, PcsSaved
  <1> QED
    BY <1>1, <1>2, Innermost, Elements DEF Inv

\* Frames and activations with some of their fields changed.
LEMMA ChangedFrame ==
    /\ \A f \in Frame, b, c \in BOOLEAN : [f EXCEPT !.trap = b, !.hooked = c] \in Frame
    /\ \A f \in Frame, b \in BOOLEAN : [f EXCEPT !.trap = b] \in Frame
    /\ \A f \in Frame, n \in Nat : [f EXCEPT !.savedpc = n] \in Frame
    /\ \A f \in Frame, n \in Nat, b \in BOOLEAN :
          [f EXCEPT !.savedpc = n, !.hookyield = b] \in Frame
    /\ \A f \in Frame, n \in Nat, b \in BOOLEAN, r \in 0..MaxHookCalls - 1 :
          [f EXCEPT !.savedpc = n, !.hookyield = b, !.repeats = r] \in Frame
    /\ \A f \in Frame, n \in Nat, q \in DOMAIN form :
          [f EXCEPT !.p = q, !.savedpc = n, !.hookcalls = 0, !.repeats = 0] \in Frame
  <1>0. 0 \in 0..MaxHookCalls /\ 0 \in 0..MaxHookCalls - 1
    BY BoundsAssumption
  <1> USE DEF Frame
  <1>1. \A f \in Frame, b, c \in BOOLEAN : [f EXCEPT !.trap = b, !.hooked = c] \in Frame
    OBVIOUS
  <1>2. \A f \in Frame, b \in BOOLEAN : [f EXCEPT !.trap = b] \in Frame
    OBVIOUS
  <1>3. \A f \in Frame, n \in Nat : [f EXCEPT !.savedpc = n] \in Frame
    OBVIOUS
  <1>4. \A f \in Frame, n \in Nat, b \in BOOLEAN :
           [f EXCEPT !.savedpc = n, !.hookyield = b] \in Frame
    OBVIOUS
  <1>5. \A f \in Frame, n \in Nat, b \in BOOLEAN, r \in 0..MaxHookCalls - 1 :
           [f EXCEPT !.savedpc = n, !.hookyield = b, !.repeats = r] \in Frame
    OBVIOUS
  <1>6. \A f \in Frame, n \in Nat, q \in DOMAIN form :
           [f EXCEPT !.p = q, !.savedpc = n, !.hookcalls = 0, !.repeats = 0] \in Frame
    BY <1>0
  <1> QED
    BY <1>1, <1>2, <1>3, <1>4, <1>5, <1>6

LEMMA ChangedActivation ==
    /\ \A a \in Activation, phase \in Phases : [a EXCEPT !.phase = phase] \in Activation
    /\ \A a \in Activation, phase \in Phases, b \in BOOLEAN :
          [a EXCEPT !.phase = phase, !.trap = b] \in Activation
    /\ \A a \in Activation, phase \in Phases, n \in Nat, b \in BOOLEAN :
          [a EXCEPT !.phase = phase, !.pc = n, !.trap = b] \in Activation
    /\ \A a \in Activation, phase \in Phases, ci \in Nat \ {0} :
          [a EXCEPT !.ci = ci, !.phase = phase] \in Activation
    /\ \A a \in Activation, phase \in Phases, ci \in Nat \ {0}, b \in BOOLEAN :
          [a EXCEPT !.ci = ci, !.trap = b, !.phase = phase] \in Activation
  <1> USE DEF Activation
  <1>1. \A a \in Activation, phase \in Phases : [a EXCEPT !.phase = phase] \in Activation
    OBVIOUS
  <1>2. \A a \in Activation, phase \in Phases, b \in BOOLEAN :
           [a EXCEPT !.phase = phase, !.trap = b] \in Activation
    OBVIOUS
  <1>3. \A a \in Activation, phase \in Phases, n \in Nat, b \in BOOLEAN :
           [a EXCEPT !.phase = phase, !.pc = n, !.trap = b] \in Activation
    OBVIOUS
  <1>4. \A a \in Activation, phase \in Phases, ci \in Nat \ {0} :
           [a EXCEPT !.ci = ci, !.phase = phase] \in Activation
    OBVIOUS
  <1>5. \A a \in Activation, phase \in Phases, ci \in Nat \ {0}, b \in BOOLEAN :
           [a EXCEPT !.ci = ci, !.trap = b, !.phase = phase] \in Activation
    OBVIOUS
  <1> QED
    BY <1>1, <1>2, <1>3, <1>4, <1>5

\* The call hook adds one to the count, up to its bound, or does nothing.
LEMMA CallHookFacts ==
    ASSUME TypeOK, NEW f \in Frame, Counted(f)
    PROVE  /\ CallHook(f) \in Frame
           /\ \E h \in 0..MaxHookCalls : CallHook(f) = [f EXCEPT !.hookcalls = h]
           /\ CallHook(f).repeats = f.repeats
           /\ Uncalled(f) => Counted(CallHook(f))
           /\ "call" \in Mask => CallHook(f).hookcalls >= 1
           /\ "call" \notin Mask => CallHook(f) = f
  <1>1. /\ MaxHookCalls \in Nat /\ MaxHookCalls >= 2
        /\ f.hookcalls \in 0..MaxHookCalls /\ f.repeats \in 0..MaxHookCalls - 1
    BY BoundsAssumption DEF Frame
  <1>2. CASE "call" \in Mask /\ f.hookcalls < MaxHookCalls
    <2>1. CallHook(f) = [f EXCEPT !.hookcalls = f.hookcalls + 1]
      BY <1>2 DEF CallHook
    <2>2. f.hookcalls + 1 \in 0..MaxHookCalls
      BY <1>1, <1>2
    <2>3. /\ CallHook(f) \in Frame /\ CallHook(f).repeats = f.repeats
          /\ CallHook(f).hookcalls = f.hookcalls + 1
      BY <2>1, <2>2 DEF Frame
    <2> QED
      BY <1>1, <1>2, <2>1, <2>2, <2>3 DEF Counted, Uncalled
  <1>3. CASE ~("call" \in Mask /\ f.hookcalls < MaxHookCalls)
    <2>1. CallHook(f) = f /\ f = [f EXCEPT !.hookcalls = f.hookcalls]
      BY <1>3 DEF CallHook, Frame
    <2> QED
      BY <1>1, <1>3, <2>1
  <1> QED
    BY <1>2, <1>3

LEMMA PrologueStep == ASSUME Inv, Prologue PROVE Inv'
  <1>1. /\ acts # <<>> /\ frames # <<>> /\ status = "running"
        /\ F \in Frame /\ A \in Activation /\ Consistent(F, A) /\ Counted(F)
        /\ A.phase \in {"enter", "returning"} /\ F.p \in Proto
    BY Acting DEF Prologue
  <1>2. Entered(F) /\ F.savedpc \in Nat /\ (F.savedpc = 1 => A.phase = "enter")
    BY <1>1, CodeFacts DEF Consistent, Entered, Frame
  <1>3. EntryTrap \in BOOLEAN /\ (F.savedpc = 1 => EntryTrap = (Mask # {}))
    BY <1>1, <1>2 DEF EntryTrap, Activation
  <1> DEFINE g == IF CallsHook THEN CallHook(F) ELSE F
             h == IF F.savedpc = 1 THEN "call" \in Mask ELSE g.hooked
             f == [g EXCEPT !.trap = EntryTrap \/ g.trap, !.hooked = h]
             t == EntryTrap /\ ~(F.savedpc = 1 /\ F.p \in Vararg)
             a == [A EXCEPT !.phase = "fetch", !.pc = F.savedpc, !.trap = t]
  <1>4. /\ g \in Frame /\ Counted(g) /\ g.p = F.p /\ g.fresh = F.fresh
        /\ g.hooked = F.hooked /\ g.savedpc = F.savedpc
        /\ F.savedpc # 1 => g = F
        /\ F.savedpc = 1 /\ F.p \in Vararg => g = F
        /\ F.savedpc = 1 /\ F.p \notin Vararg /\ "call" \in Mask => g.hookcalls >= 1
    BY <1>1, <1>2, <1>3, CallHookFacts DEF CallsHook, Inv, Entered, Frame
  <1> HIDE DEF g
  <1>5. h \in BOOLEAN /\ (EntryTrap \/ g.trap) \in BOOLEAN /\ t \in BOOLEAN
    <2>1. g.hooked \in BOOLEAN
      BY <1>4 DEF Frame
    <2>2. h \in BOOLEAN
      <3>1. CASE F.savedpc = 1
        BY <3>1
      <3>2. CASE F.savedpc # 1
        BY <2>1, <3>2
      <3> QED
        BY <3>1, <3>2
    <2>3. (EntryTrap \/ g.trap) \in BOOLEAN /\ t \in BOOLEAN
      OBVIOUS
    <2> QED
      BY <2>2, <2>3
  <1> HIDE DEF h, t
  <1>6. f \in Frame /\ a \in Activation
    <2>1. f \in Frame
      BY <1>4, <1>5, ChangedFrame
    <2>2. a \in Activation
      BY <1>1, <1>2, <1>5, ChangedActivation DEF Phases
    <2> QED
      BY <2>1, <2>2
  <1>7. /\ f.p = F.p /\ f.fresh = F.fresh /\ f.hooked = h /\ f.trap = (EntryTrap \/ g.trap)
        /\ f.savedpc = F.savedpc /\ f.hookcalls = g.hookcalls /\ f.repeats = g.repeats
        /\ a.phase = "fetch" /\ a.pc = F.savedpc /\ a.ci = A.ci /\ a.trap = t
    BY <1>1, <1>4 DEF Frame, Activation
  <1>8. frames' = SetF(f) /\ acts' = SetA(a)
    BY DEF Prologue, g, h, t
  <1> HIDE DEF f, a
  <1>9. Executed(f, a)
    <2>1. ValidPc(f.p, a.pc)
      BY <1>2, <1>7 DEF Entered
    <2>2. CASE F.savedpc # 1
      BY <1>2, <1>4, <1>7, <2>1, <2>2 DEF Executed, Entered, Settled, h
    <2>3. CASE F.savedpc = 1 /\ F.p \in Vararg
      BY <1>2, <1>3, <1>4, <1>7, <2>1, <2>3 DEF Executed, Entered, Uncalled, h, t
    <2>4. CASE F.savedpc = 1 /\ F.p \notin Vararg
      BY <1>4, <1>7, <2>1, <2>4 DEF Executed, Settled, h
    <2> QED
      BY <2>2, <2>3, <2>4
  <1> QED
    BY <1>1, <1>4, <1>6, <1>7, <1>8, <1>9, TopStep DEF Prologue, Consistent, Inv, TypeOK, Counted

\* vmfetch, without and with traps.
LEMMA FetchStep == ASSUME Inv, Fetch PROVE Inv'
  <1>1. /\ acts # <<>> /\ frames # <<>> /\ A.phase = "fetch"
        /\ F \in Frame /\ A \in Activation /\ Consistent(F, A) /\ Counted(F)
    BY Acting DEF Fetch
  <1> DEFINE a == [A EXCEPT !.phase = "exec"]
  <1>2. a \in Activation /\ a.ci = A.ci /\ a.phase = "exec" /\ a.pc = A.pc /\ a.trap = A.trap
    <2>1. a \in Activation
      BY <1>1, ChangedActivation DEF Phases
    <2> QED
      BY <1>1, <2>1 DEF Activation
  <1>3. SetF(F) = frames
    BY <1>1, LastInSeq DEF SetF, F, Inv, TypeOK
  <1>4. Consistent(F, a)
    BY <1>1, <1>2 DEF Consistent, Executed
  <1>5. acts' = SetA(a) /\ frames' = frames
    BY DEF Fetch
  <1> HIDE DEF a
  <1>6. UNCHANGED <<main, form, status, hook, signals>> /\ hookcount' \in Nat \ {0}
    BY DEF Fetch, Inv, TypeOK
  <1> QED
    BY <1>1, <1>2, <1>3, <1>4, <1>5, <1>6, TopStep

LEMMA TraceOffStep == ASSUME Inv, TraceOff PROVE Inv'
  <1>1. /\ acts # <<>> /\ frames # <<>> /\ A.phase = "fetch"
        /\ F \in Frame /\ A \in Activation /\ Consistent(F, A) /\ Counted(F)
    BY Acting DEF TraceOff
  <1> DEFINE a == [A EXCEPT !.phase = "exec", !.trap = FALSE]
             f == [F EXCEPT !.trap = FALSE]
  <1>2. /\ a \in Activation /\ a.ci = A.ci /\ a.phase = "exec" /\ a.pc = A.pc /\ ~a.trap
        /\ f \in Frame /\ f.p = F.p /\ f.fresh = F.fresh /\ f.hooked = F.hooked
        /\ f.savedpc = F.savedpc /\ f.hookcalls = F.hookcalls /\ f.repeats = F.repeats
    <2>1. a \in Activation /\ f \in Frame
      BY <1>1, ChangedActivation, ChangedFrame DEF Phases
    <2> QED
      BY <1>1, <2>1 DEF Activation, Frame
  <1>3. acts' = SetA(a) /\ frames' = SetF(f) /\ A.trap
    BY DEF TraceOff
  <1> HIDE DEF a, f
  <1>4. Consistent(f, a)
    BY <1>1, <1>2, <1>3 DEF Consistent, Executed, Settled, Uncalled
  <1>5. UNCHANGED <<main, form, status, hook, signals>> /\ hookcount' \in Nat \ {0}
    BY DEF TraceOff, Inv, TypeOK
  <1> QED
    BY <1>1, <1>2, <1>3, <1>4, <1>5, TopStep DEF Counted

LEMMA TraceExecStep == ASSUME Inv, TraceExec PROVE Inv'
  <1>1. /\ acts # <<>> /\ frames # <<>> /\ A.phase = "fetch" /\ F.p \in Proto
        /\ F \in Frame /\ A \in Activation /\ Consistent(F, A) /\ Counted(F)
    BY Acting DEF TraceExec
  <1> DEFINE a == [A EXCEPT !.phase = "exec"]
             y == F.hookyield /\ ~CountHook
             f == [F EXCEPT !.savedpc = A.pc + 1, !.hookyield = y]
  <1>2. a \in Activation /\ a.ci = A.ci /\ a.phase = "exec" /\ a.pc = A.pc /\ a.trap = A.trap
    <2>1. a \in Activation
      BY <1>1, ChangedActivation DEF Phases
    <2> QED
      BY <1>1, <2>1 DEF Activation
  <1>3. y \in BOOLEAN /\ A.pc + 1 \in Nat
    BY <1>1 DEF Activation
  <1> HIDE DEF y
  <1>4. /\ f \in Frame /\ f.p = F.p /\ f.fresh = F.fresh /\ f.hooked = F.hooked
        /\ f.trap = F.trap /\ f.hookcalls = F.hookcalls /\ f.repeats = F.repeats
    <2>1. f \in Frame
      BY <1>1, <1>3, ChangedFrame
    <2> QED
      BY <1>1, <2>1 DEF Frame
  <1>5. acts' = SetA(a) /\ frames' = SetF(f)
    BY DEF TraceExec, y
  <1> HIDE DEF a, f
  <1>6. Consistent(f, a)
    BY <1>1, <1>2, <1>4 DEF Consistent, Executed, Settled, Uncalled
  <1>7. hookcount' \in Nat \ {0}
    BY BoundsAssumption DEF TraceExec, NextCount, CountHook, Inv, TypeOK
  <1>8. UNCHANGED <<main, form, status, hook, signals>>
    BY DEF TraceExec
  <1> QED
    BY <1>1, <1>2, <1>4, <1>5, <1>6, <1>7, <1>8, TopStep DEF Counted

\* An instruction that is executed is not OP_VARARGPREP, or it is the first one.
LEMMA AtInstruction ==
    ASSUME Inv, In("exec")
    PROVE  /\ ValidPc(F.p, A.pc)
           /\ Here # "varargprep" => Settled(F)
           /\ Here = "varargprep" => /\ A.pc = 1 /\ F.p \in Vararg /\ Uncalled(F)
                                     /\ F.hooked => F.trap /\ "call" \in Mask
  <1>1. Executed(F, A) /\ F.p \in Proto
    BY Acting DEF Consistent
  <1>2. ValidPc(F.p, A.pc)
    BY <1>1 DEF Executed
  <1>3. /\ F.p \in Vararg <=> Op(F.p, 1) = "varargprep"
        /\ Op(F.p, A.pc) = "varargprep" => A.pc = 1
    BY <1>1, <1>2, EntryValid, CodeFacts
  <1> QED
    BY <1>1, <1>2, <1>3 DEF Executed, Here

\* The activation goes to the next instruction.
LEMMA LandingStep ==
    ASSUME Inv, In("exec") \/ In("mid"), Settled(F), ValidPc(F.p, A.pc), Here \notin Returns,
           NEW n \in NextPc(F.p, A.pc), NEW trap \in BOOLEAN, acts' = SetA(Landing(n, trap)),
           UNCHANGED <<main, form, frames, status, hook, hookcount, signals>>
    PROVE  Inv'
  <1>1. /\ acts # <<>> /\ frames # <<>> /\ F.p \in Proto /\ F.p \in DOMAIN form
        /\ F \in Frame /\ A \in Activation /\ Counted(F)
    BY Acting
  <1>2. n \in Nat /\ ValidPc(F.p, n) /\ Op(F.p, n) # "varargprep"
    BY <1>1, FormsFollowISA, CodeFacts DEF Here, Inv, TypeOK
  <1> DEFINE phase == IF Fused(F.p, A.pc) THEN "exec" ELSE "fetch"
             a == [A EXCEPT !.phase = phase, !.pc = n, !.trap = trap]
  <1>3. phase \in {"fetch", "exec"}
    OBVIOUS
  <1>4. Landing(n, trap) = a
    <2>1. GoTo(n, trap) \in Activation
      BY <1>1, <1>2, ChangedActivation DEF GoTo, Phases
    <2> QED
      BY <1>1, <2>1 DEF Landing, GoTo, Activation
  <1> HIDE DEF phase
  <1>5. a \in Activation /\ a.ci = A.ci /\ a.phase = phase /\ a.pc = n
    <2>1. a \in Activation
      BY <1>1, <1>2, <1>3, ChangedActivation DEF Phases
    <2> QED
      BY <1>1, <2>1 DEF Activation
  <1> HIDE DEF a
  <1>6. Consistent(F, a)
    BY <1>1, <1>2, <1>3, <1>5, EntryValid DEF Consistent, Executed
  <1>7. SetF(F) = frames
    BY <1>1, LastInSeq DEF SetF, F, Inv, TypeOK
  <1>8. /\ UNCHANGED <<main, form, status, hook, signals>> /\ hookcount' \in Nat \ {0}
        /\ frames' = SetF(F) /\ acts' = SetA(a)
    BY <1>4, <1>7 DEF Inv, TypeOK
  <1> QED
    BY <1>1, <1>5, <1>6, <1>8, TopStep

LEMMA ExecSimpleStep == ASSUME Inv, ExecSimple PROVE Inv'
  <1>1. F \in Frame /\ A \in Activation
    BY Acting DEF ExecSimple
  <1>2. /\ ValidPc(F.p, A.pc) /\ Settled(F) /\ In("exec") /\ Here \notin Returns
        /\ UNCHANGED <<main, form, frames, status, hook, hookcount, signals>>
    BY AtInstruction DEF ExecSimple
  <1>3. PICK n \in NextPc(F.p, A.pc) :
           acts' = SetA(Landing(n, IF UpdatesTrap(F.p, A.pc, n) THEN F.trap ELSE A.trap))
    BY DEF ExecSimple
  <1> DEFINE trap == IF UpdatesTrap(F.p, A.pc, n) THEN F.trap ELSE A.trap
  <1>4. F.trap \in BOOLEAN /\ A.trap \in BOOLEAN
    BY <1>1 DEF Frame, Activation
  <1>5. trap \in BOOLEAN
    <2>1. CASE UpdatesTrap(F.p, A.pc, n)
      BY <1>4, <2>1
    <2>2. CASE ~UpdatesTrap(F.p, A.pc, n)
      BY <1>4, <2>2
    <2> QED
      BY <2>1, <2>2
  <1>6. acts' = SetA(Landing(n, trap))
    BY <1>3
  <1> HIDE DEF trap
  <1> QED
    BY <1>2, <1>5, <1>6, LandingStep

LEMMA FinishStep == ASSUME Inv, Finish PROVE Inv'
  <1>1. F \in Frame /\ Consistent(F, A) /\ A.phase = "mid"
    BY Acting DEF Finish
  <1>2. /\ ValidPc(F.p, A.pc) /\ Settled(F) /\ Here \notin Returns
    BY <1>1 DEF Finish, Consistent, Waiting, WaitsAt, Here, Callers, Returns
  <1>3. /\ In("mid") /\ UNCHANGED <<main, form, frames, status, hook, hookcount, signals>>
    BY DEF Finish
  <1>4. F.trap \in BOOLEAN
    BY <1>1 DEF Frame
  <1>5. PICK n \in NextPc(F.p, A.pc) : acts' = SetA(Landing(n, F.trap))
    BY DEF Finish
  <1> QED
    BY <1>2, <1>3, <1>4, <1>5, LandingStep

LEMMA ExecCallsStep == ASSUME Inv, ExecCalls PROVE Inv'
  <1>1. /\ acts # <<>> /\ frames # <<>> /\ F.p \in Proto
        /\ F \in Frame /\ A \in Activation /\ Counted(F)
    BY Acting DEF ExecCalls
  <1>2. ValidPc(F.p, A.pc) /\ Settled(F) /\ A.pc \in Nat
    BY <1>1, AtInstruction DEF ExecCalls, Callers, Activation
  <1> DEFINE a == [A EXCEPT !.phase = "mid"]
             f == [F EXCEPT !.savedpc = SavedPc(A.pc)]
  <1>3. a \in Activation /\ f \in Frame
    <2>1. a \in Activation
      BY <1>1, ChangedActivation DEF Phases
    <2>2. SavedPc(A.pc) \in Nat
      BY <1>2 DEF SavedPc
    <2>3. f \in Frame
      BY <1>1, <2>2, ChangedFrame
    <2> QED
      BY <2>1, <2>3
  <1>4. /\ a.ci = A.ci /\ a.phase = "mid" /\ a.pc = A.pc
        /\ f.p = F.p /\ f.fresh = F.fresh /\ f.hooked = F.hooked
        /\ f.savedpc = A.pc + 1 /\ f.hookcalls = F.hookcalls /\ f.repeats = F.repeats
    BY <1>1, <1>3 DEF Activation, Frame, SavedPc
  <1>5. frames' = SetF(f) /\ acts' = SetA(a)
    BY DEF ExecCalls
  <1> HIDE DEF a, f
  <1>6. f.savedpc - 1 = A.pc
    BY <1>2, <1>4
  <1>7. Consistent(f, a)
    BY <1>2, <1>4, <1>6 DEF ExecCalls, Consistent, Waiting, WaitsAt, Settled, Here
  <1>8. UNCHANGED <<main, form, status, hook, signals>> /\ hookcount' \in Nat \ {0}
    BY DEF ExecCalls, Inv, TypeOK
  <1> QED
    BY <1>1, <1>3, <1>4, <1>5, <1>7, <1>8, TopStep DEF Counted

LEMMA ExecTailCallStep == ASSUME Inv, NEW q \in DOMAIN form, ExecTailCall(q) PROVE Inv'
  <1>1. /\ acts # <<>> /\ frames # <<>> /\ F \in Frame /\ A \in Activation
    BY Acting DEF ExecTailCall
  <1> DEFINE a == [A EXCEPT !.phase = "enter"]
             f == [F EXCEPT !.p = q, !.savedpc = 1, !.hookcalls = 0,
                           !.repeats = 0]
  <1>2. a \in Activation /\ f \in Frame
    BY <1>1, ChangedActivation, ChangedFrame DEF Phases
  <1>3. /\ a.ci = A.ci /\ a.phase = "enter" /\ f.fresh = F.fresh
        /\ f.p = q /\ f.savedpc = 1 /\ f.hookcalls = 0 /\ f.repeats = 0
    BY <1>1, <1>2 DEF Activation, Frame
  <1>4. frames' = SetF(f) /\ acts' = SetA(a)
    BY DEF ExecTailCall
  <1> HIDE DEF a, f
  <1>5. Consistent(f, a)
    BY <1>3, EntryValid DEF Consistent, Entered, Uncalled, Inv, TypeOK
  <1>6. UNCHANGED <<main, form, status, hook, signals>> /\ hookcount' \in Nat \ {0}
    BY DEF ExecTailCall, Inv, TypeOK
  <1> QED
    BY <1>1, <1>2, <1>3, <1>4, <1>5, <1>6, TopStep DEF Counted

LEMMA ExecVarargPrepStep == ASSUME Inv, ExecVarargPrep PROVE Inv'
  <1>1. /\ acts # <<>> /\ frames # <<>> /\ F.p \in Proto
        /\ F \in Frame /\ A \in Activation /\ Counted(F)
    BY Acting DEF ExecVarargPrep
  <1>2. /\ ValidPc(F.p, 1) /\ Op(F.p, 1) = "varargprep" /\ A.pc = 1 /\ Uncalled(F)
        /\ F.hooked => F.trap /\ "call" \in Mask
    BY AtInstruction DEF ExecVarargPrep, Here
  <1>3. ValidPc(F.p, 2)
    <2>1. 2 \in Succ(F.p, 1)
      BY <1>2 DEF Succ
    <2> QED
      BY <1>1, <1>2, <2>1, CodeFacts DEF Returns
  <1> DEFINE g == IF F.trap THEN CallHook(F) ELSE F
             f == [g EXCEPT !.savedpc = 2]
             a == [A EXCEPT !.phase = "fetch", !.pc = 2, !.trap = F.trap]
  <1>4. /\ g \in Frame /\ Counted(g) /\ g.p = F.p /\ g.fresh = F.fresh
        /\ g.hooked = F.hooked /\ (g.hooked => g.hookcalls >= 1)
    BY <1>1, <1>2, CallHookFacts DEF Inv, Frame
  <1>5. frames' = SetF(f) /\ acts' = SetA(a)
    BY <1>2 DEF ExecVarargPrep, SavedPc, GoTo
  <1> HIDE DEF g
  <1>6. f \in Frame /\ a \in Activation
    <2>1. F.trap \in BOOLEAN
      BY <1>1 DEF Frame
    <2> QED
      BY <1>1, <1>4, <2>1, ChangedFrame, ChangedActivation DEF Phases
  <1>7. /\ f.p = F.p /\ f.fresh = F.fresh /\ f.hooked = g.hooked
        /\ f.hookcalls = g.hookcalls /\ f.repeats = g.repeats
        /\ a.phase = "fetch" /\ a.pc = 2 /\ a.ci = A.ci
    BY <1>1, <1>4, <1>6 DEF Frame, Activation
  <1> HIDE DEF f, a
  <1>8. Consistent(f, a) /\ Counted(f)
    <2>1. Executed(f, a)
      BY <1>3, <1>4, <1>7 DEF Executed, Settled
    <2>2. Counted(f)
      BY <1>4, <1>7 DEF Counted
    <2> QED
      BY <1>7, <2>1, <2>2 DEF Consistent
  <1>9. UNCHANGED <<main, form, status, hook, signals>> /\ hookcount' \in Nat \ {0}
    BY DEF ExecVarargPrep, Inv, TypeOK
  <1> QED
    BY <1>1, <1>5, <1>6, <1>7, <1>8, <1>9, TopStep

-----------------------------------------------------------------------------
(* Calls.                                                                  *)

\* The innermost function is replaced and another one is added.
LEMMA Pushed ==
    ASSUME TypeOK, frames # <<>>, NEW g \in Frame, NEW x \in Frame,
           frames' = Append(SetF(g), x)
    PROVE  /\ frames' \in Seq(Frame) /\ frames' # <<>> /\ Len(frames') = Len(frames) + 1
           /\ frames'[Len(frames) + 1] = x /\ frames'[Len(frames)] = g
           /\ \A i \in 1..Len(frames) - 1 : frames'[i] = frames[i]
  <1>1. Len(frames) \in Nat /\ DOMAIN frames = 1..Len(frames) /\ Len(frames) \in DOMAIN frames
    BY Elements, Innermost
  <1>2. /\ SetF(g) \in Seq(Frame) /\ Len(SetF(g)) = Len(frames) /\ SetF(g)[Len(frames)] = g
        /\ \A i \in 1..Len(frames) - 1 : SetF(g)[i] = frames[i]
    BY SetFacts
  <1>3. \A i \in 1..Len(frames) : frames'[i] = SetF(g)[i]
    BY <1>2
  <1>4. frames' \in Seq(Frame) /\ Len(frames') = Len(frames) + 1 /\ frames'[Len(frames) + 1] = x
    BY <1>2
  <1>5. frames'[Len(frames)] = g
    BY <1>1, <1>2, <1>3
  <1>6. \A i \in 1..Len(frames) - 1 : frames'[i] = frames[i]
    BY <1>1, <1>2, <1>3
  <1>7. frames' # <<>>
    BY <1>1, <1>4
  <1> QED
    BY <1>4, <1>5, <1>6, <1>7

\* The innermost function, g from now on, calls x, in an activation a that is the
\* same one unless x is fresh.
LEMMA PushStep ==
    ASSUME Inv, acts # <<>>, NEW g \in Frame, NEW x \in Frame, NEW a \in Activation,
           frames' \in Seq(Frame), frames' # <<>>, Len(frames') = Len(frames) + 1,
           frames'[Len(frames) + 1] = x, frames'[Len(frames)] = g,
           \A i \in 1..Len(frames) - 1 : frames'[i] = frames[i],
           acts' \in Seq(Activation), acts' # <<>>, Len(acts') \in {Len(acts), Len(acts) + 1},
           acts'[Len(acts')] = a,
           \A k \in 1..Len(acts) - 1 : acts'[k] = acts[k],
           Len(acts') = Len(acts) => ~x.fresh,
           Len(acts') = Len(acts) + 1 =>
              x.fresh /\ acts'[Len(acts)] = A /\ A.phase = "mid" /\ g = F,
           g.fresh = F.fresh, Counted(g), Waiting(g),
           x.fresh \/ Op(g.p, g.savedpc - 1) = "call", x.hookcalls = 0, x.repeats = 0, x.savedpc = 1,
           a.ci = Len(frames) + 1, a.phase = "enter",
           UNCHANGED <<main, form, status, hook, hookcount, signals>>
    PROVE  Inv'
  <1> DEFINE n == Len(frames)
             m == Len(acts)
  <1>0. TypeOK /\ Nested /\ PcsSaved
    BY DEF Inv
  <1>1. /\ frames # <<>> /\ F = frames[n] /\ A = acts[m] /\ A.ci = n /\ status = "running"
        /\ n \in Nat \ {0} /\ DOMAIN frames = 1..n
        /\ m \in Nat \ {0} /\ DOMAIN acts = 1..m
    <2>1. frames # <<>> /\ A.ci = n /\ status = "running"
      BY DEF Inv, Nested
    <2>2. frames \in Seq(Frame) /\ acts \in Seq(Activation)
      BY DEF Inv, TypeOK
    <2> QED
      BY <2>1, <2>2, Innermost, Elements DEF Inv
  <1>2. /\ Len(frames') = n + 1 /\ frames'[n + 1] = x /\ frames'[n] = g
        /\ \A i \in 1..n - 1 : frames'[i] = frames[i]
    OBVIOUS
  <1>3. /\ Len(acts') \in {m, m + 1} /\ acts'[Len(acts')] = a
        /\ \A k \in 1..m - 1 : acts'[k] = acts[k]
        /\ Len(acts') = m => ~x.fresh
        /\ Len(acts') = m + 1 => x.fresh /\ acts'[m] = A /\ A.phase = "mid" /\ g = F
    OBVIOUS
  <1>4. /\ F' = x /\ A' = a
        /\ DOMAIN frames' = 1..n + 1 /\ DOMAIN acts' = 1..Len(acts')
    BY <1>2, <1>3 DEF F, A, Last
  <1>5. TypeOK'
    BY <1>2, <1>3 DEF Inv, TypeOK, Frame
  <1> HIDE DEF n, m
  <1>6. \A i \in 1..n : frames'[i].fresh = frames[i].fresh
    BY <1>1, <1>2
  <1>7. \A k \in 1..m - 1 : /\ acts[k].ci \in 1..n - 1 /\ acts[k].phase = "mid"
                            /\ frames[acts[k].ci + 1].fresh
    <2>1. \A k \in 1..m - 1 : acts[k].ci \in Nat /\ acts[k].ci # 0
      <3>1. \A k \in 1..m - 1 : k \in DOMAIN acts
        BY <1>1
      <3>2. \A k \in DOMAIN acts : acts[k].ci \in Nat \ {0}
        BY <1>0, Elements
      <3> QED
        BY <3>1, <3>2
    <2>2. \A k \in 1..m - 1 : /\ acts[k].phase = "mid" /\ acts[k].ci < n
                              /\ frames[acts[k].ci + 1].fresh
      BY DEF Inv, Nested, n, m
    <2> QED
      BY <1>1, <2>1, <2>2
  <1>8. Nested'
    <2>1. frames'[1].fresh
      BY <1>1, <1>6 DEF Inv, Nested
    <2>2. ASSUME NEW k \in 1..Len(acts') - 1
          PROVE  /\ acts'[k].phase = "mid" /\ acts'[k].ci < Len(frames')
                 /\ frames'[acts'[k].ci + 1].fresh
      <3>1. CASE k \in 1..m - 1
        <4>1. /\ acts'[k] = acts[k] /\ acts[k].ci \in 1..n - 1 /\ acts[k].phase = "mid"
              /\ frames[acts[k].ci + 1].fresh
          BY <1>3, <1>7, <3>1
        <4>2. acts[k].ci < Len(frames') /\ acts[k].ci + 1 \in 1..n
          BY <1>1, <1>2, <4>1
        <4> QED
          BY <1>6, <4>1, <4>2
      <3>2. CASE k \notin 1..m - 1
        BY <1>1, <1>2, <1>3, <3>2
      <3> QED
        BY <3>1, <3>2
    <2>3. \A k, l \in DOMAIN acts' : k < l => acts'[k].ci < acts'[l].ci
      <3>1. \A k, l \in 1..m - 1 : k < l => acts'[k].ci < acts'[l].ci
        <4> SUFFICES ASSUME NEW k \in 1..m - 1, NEW l \in 1..m - 1, k < l
                     PROVE  acts'[k].ci < acts'[l].ci
          OBVIOUS
        <4>1. k \in DOMAIN acts /\ l \in DOMAIN acts
          BY <1>1
        <4>2. acts[k].ci < acts[l].ci
          BY <1>0, <4>1 DEF Nested
        <4> QED
          BY <1>3, <4>2
      <3>2. \A k \in 1..Len(acts') - 1 : acts'[k].ci \in 1..n /\ (k < m => acts'[k].ci < n)
        BY <1>1, <1>3, <1>7
      <3>3. CASE Len(acts') = m
        BY <1>1, <1>3, <1>4, <3>1, <3>2, <3>3 DEF n
      <3>4. CASE Len(acts') = m + 1
        <4>1. acts'[m].ci = n /\ acts'[m + 1].ci = n + 1
          BY <1>1, <1>3, <3>4 DEF n
        <4> QED
          BY <1>1, <1>3, <1>4, <3>1, <3>2, <3>4, <4>1
      <3> QED
        BY <1>3, <3>3, <3>4
    <2>4. ASSUME NEW i \in DOMAIN frames', acts'[1].ci < i, frames'[i].fresh
          PROVE  \E k \in 1..Len(acts') - 1 : i = acts'[k].ci + 1
      <3>1. CASE Len(acts') = m + 1 /\ i = n + 1
        BY <1>1, <1>3, <3>1
      <3>2. CASE i \in 1..n
        <4>1. m > 1 \/ Len(acts') = m + 1
          <5> SUFFICES ASSUME m = 1, Len(acts') = m
                       PROVE  FALSE
            BY <1>1, <1>3
          <5>1. acts'[1].ci = n + 1
            BY <1>3 DEF n
          <5> QED
            BY <1>1, <2>4, <3>2, <5>1
        <4>2. acts'[1].ci = acts[1].ci
          BY <1>1, <1>3, <4>1
        <4>3. PICK k \in 1..m - 1 : i = acts[k].ci + 1
          BY <1>1, <1>6, <2>4, <3>2, <4>2 DEF Inv, Nested, m
        <4>4. acts'[k] = acts[k] /\ k \in 1..Len(acts') - 1
          BY <1>1, <1>3, <4>3
        <4> QED
          BY <4>3, <4>4
      <3>3. i \in 1..n + 1 /\ (i = n + 1 => Len(acts') = m + 1)
        BY <1>1, <1>2, <1>3, <1>4, <2>4
      <3> QED
        BY <1>1, <3>1, <3>2, <3>3
    <2>5. A'.ci = Len(frames') /\ status' = "running"
      BY <1>1, <1>2, <1>4 DEF n
    <2> QED
      BY <1>2, <2>1, <2>2, <2>3, <2>4, <2>5 DEF Nested
  <1>9. PcsSaved'
    <2>1. \A i \in DOMAIN frames' : Counted(frames'[i])
      <3>1. \A i \in 1..n : Counted(frames[i])
        BY <1>0, <1>1 DEF PcsSaved
      <3>2. Counted(g) /\ Counted(x)
        BY DEF Counted
      <3>3. \A i \in 1..n - 1 : Counted(frames'[i])
        BY <1>1, <1>2, <3>1
      <3> QED
        <4> SUFFICES ASSUME NEW i \in DOMAIN frames'
                     PROVE  Counted(frames'[i])
          OBVIOUS
        <4>1. i \in 1..n - 1 \/ i = n \/ i = n + 1
          BY <1>1, <1>4, LastTwo
        <4> QED
          BY <1>2, <3>2, <3>3, <4>1
    <2>2. ASSUME NEW i \in 1..n
          PROVE  /\ Waiting(frames'[i])
                 /\ frames'[i + 1].fresh \/ Op(frames'[i].p, frames'[i].savedpc - 1) = "call"
      <3>1. CASE i = n
        BY <1>1, <1>2, <3>1
      <3>2. CASE i # n
        <4>1. /\ i \in 1..n - 1 /\ i + 1 \in 1..n
              /\ Waiting(frames[i])
              /\ frames[i + 1].fresh \/ Op(frames[i].p, frames[i].savedpc - 1) = "call"
          <5>1. i \in 1..n - 1 /\ i + 1 \in 1..n
            BY <1>1, <3>2
          <5> QED
            BY <1>0, <5>1 DEF PcsSaved, n
        <4> QED
          BY <1>2, <1>6, <4>1
      <3> QED
        BY <3>1, <3>2
    <2>3. ASSUME NEW k \in 1..Len(acts') - 1
          PROVE  acts'[k].pc = frames'[acts'[k].ci].savedpc - 1
      <3>1. CASE k \in 1..m - 1
        <4>1. acts[k].pc = frames[acts[k].ci].savedpc - 1
          BY <3>1 DEF Inv, PcsSaved, m
        <4> QED
          BY <1>2, <1>3, <1>7, <3>1, <4>1
      <3>2. CASE k \notin 1..m - 1
        <4>1. k = m /\ acts'[k] = A /\ g = F /\ A.phase = "mid"
          BY <1>1, <1>3, <3>2
        <4>2. A.pc = F.savedpc - 1
          BY <4>1 DEF Inv, PcsSaved, Consistent
        <4> QED
          BY <1>1, <1>2, <4>1, <4>2
      <3> QED
        BY <3>1, <3>2
    <2>4. Consistent(x, a)'
      <3>1. x.p \in Proto
        BY DEF Frame, Inv, TypeOK
      <3> QED
        BY <3>1, EntryValid DEF Consistent, Entered, Uncalled, ValidPc
    <2>5. Len(frames') - 1 = n
      BY <1>1, <1>2
    <2> QED
      BY <1>2, <1>3, <1>4, <2>1, <2>2, <2>3, <2>4, <2>5
         DEF PcsSaved, Waiting, WaitsAt, ValidPc, Settled
  <1> QED
    BY <1>5, <1>8, <1>9 DEF Inv

\* A function that is called.
LEMMA NewFrameFacts ==
    ASSUME NEW q \in DOMAIN form, NEW fresh \in BOOLEAN, NEW stale \in BOOLEAN
    PROVE  LET x == NewFrame(q, fresh, stale)
           IN  /\ x \in Frame /\ x.p = q /\ x.fresh = fresh /\ x.savedpc = 1
               /\ x.hookcalls = 0 /\ x.repeats = 0 /\ ~x.hooked
  BY BoundsAssumption DEF NewFrame, Frame

LEMMA NewActFacts ==
    ASSUME NEW ci \in Nat \ {0}
    PROVE  LET a == NewAct(ci, "enter")
           IN  a \in Activation /\ a.ci = ci /\ a.phase = "enter"
  BY DEF NewAct, Activation, Phases

LEMMA ExecCallStep == ASSUME Inv, NEW q \in DOMAIN form, ExecCall(q) PROVE Inv'
  <1>1. /\ acts # <<>> /\ frames # <<>> /\ F.p \in Proto /\ A.ci = Len(frames)
        /\ F \in Frame /\ A \in Activation /\ Counted(F) /\ Len(frames) \in Nat
    BY Acting DEF ExecCall
  <1>2. ValidPc(F.p, A.pc) /\ Op(F.p, A.pc) = "call" /\ Settled(F) /\ A.pc \in Nat
    BY <1>1, AtInstruction DEF ExecCall, Activation, Here
  <1>3. PICK stale \in BOOLEAN :
           frames' = Append(SetF([F EXCEPT !.savedpc = SavedPc(A.pc)]), NewFrame(q, FALSE, stale))
    BY DEF ExecCall
  <1> DEFINE a == [A EXCEPT !.ci = A.ci + 1, !.phase = "enter"]
             g == [F EXCEPT !.savedpc = SavedPc(A.pc)]
             x == NewFrame(q, FALSE, stale)
  <1>4. a \in Activation
    <2>1. A.ci + 1 \in Nat \ {0} /\ "enter" \in Phases
      BY <1>1 DEF Phases
    <2> QED
      BY <1>1, <2>1, ChangedActivation
  <1>5. g \in Frame
    <2>1. SavedPc(A.pc) \in Nat
      BY <1>2 DEF SavedPc
    <2> QED
      BY <1>1, <2>1, ChangedFrame
  <1>6. /\ a.ci = Len(frames) + 1 /\ a.phase = "enter"
        /\ g.p = F.p /\ g.fresh = F.fresh /\ g.hooked = F.hooked
        /\ g.savedpc = A.pc + 1 /\ g.hookcalls = F.hookcalls /\ g.repeats = F.repeats
    BY <1>1, <1>4, <1>5 DEF Activation, Frame, SavedPc
  <1>7. x \in Frame /\ ~x.fresh /\ x.hookcalls = 0 /\ x.repeats = 0 /\ x.savedpc = 1
    BY NewFrameFacts
  <1>8. frames' = Append(SetF(g), x) /\ acts' = SetA(a)
    BY <1>3 DEF ExecCall
  <1> HIDE DEF a, g, x
  <1>9. g.savedpc - 1 = A.pc
    BY <1>2, <1>6
  <1>10. Waiting(g) /\ Op(g.p, g.savedpc - 1) = "call"
    BY <1>2, <1>6, <1>9 DEF Waiting, WaitsAt, Settled, Callers
  <1>11. Counted(g)
    BY <1>1, <1>6 DEF Counted
  <1>12. UNCHANGED <<main, form, status, hook, hookcount, signals>>
    BY DEF ExecCall
  <1>13. /\ frames' \in Seq(Frame) /\ frames' # <<>> /\ Len(frames') = Len(frames) + 1
         /\ frames'[Len(frames) + 1] = x /\ frames'[Len(frames)] = g
         /\ \A i \in 1..Len(frames) - 1 : frames'[i] = frames[i]
    BY <1>1, <1>5, <1>7, <1>8, Pushed DEF Inv
  <1>14. /\ acts' \in Seq(Activation) /\ acts' # <<>> /\ Len(acts') = Len(acts)
         /\ acts'[Len(acts')] = a /\ Len(acts) \in Nat
         /\ \A k \in 1..Len(acts) - 1 : acts'[k] = acts[k]
    BY <1>1, <1>4, <1>8, SetFacts, Elements DEF Inv
  <1> QED
    BY <1>1, <1>4, <1>5, <1>6, <1>7, <1>10, <1>11, <1>12, <1>13, <1>14, PushStep

LEMMA InvokeStep == ASSUME Inv, NEW q \in DOMAIN form, Invoke(q) PROVE Inv'
  <1>1. /\ acts # <<>> /\ frames # <<>> /\ A.phase = "mid" /\ Len(frames) \in Nat
        /\ F \in Frame /\ Consistent(F, A) /\ Counted(F)
    BY Acting DEF Invoke
  <1>2. PICK stale \in BOOLEAN : frames' = Append(frames, NewFrame(q, TRUE, stale))
    BY DEF Invoke
  <1> DEFINE a == NewAct(Len(frames) + 1, "enter")
             x == NewFrame(q, TRUE, stale)
  <1>3. a \in Activation /\ a.ci = Len(frames) + 1 /\ a.phase = "enter"
    BY <1>1, NewActFacts
  <1>4. x \in Frame /\ x.fresh /\ x.hookcalls = 0 /\ x.repeats = 0 /\ x.savedpc = 1
    BY NewFrameFacts
  <1>5. SetF(F) = frames
    BY <1>1, LastInSeq DEF SetF, F, Inv, TypeOK
  <1>6. frames' = Append(SetF(F), x) /\ acts' = Append(acts, a)
    BY <1>2, <1>5 DEF Invoke
  <1> HIDE DEF a, x
  <1>7. Waiting(F) /\ Counted(F)
    BY <1>1 DEF Consistent
  <1>8. UNCHANGED <<main, form, status, hook, hookcount, signals>>
    BY DEF Invoke
  <1>9. /\ frames' \in Seq(Frame) /\ frames' # <<>> /\ Len(frames') = Len(frames) + 1
        /\ frames'[Len(frames) + 1] = x /\ frames'[Len(frames)] = F
        /\ \A i \in 1..Len(frames) - 1 : frames'[i] = frames[i]
    BY <1>1, <1>4, <1>6, Pushed DEF Inv
  <1>10. acts \in Seq(Activation) /\ A = acts[Len(acts)]
    BY <1>1, Innermost DEF Inv, TypeOK
  <1>11. /\ acts' \in Seq(Activation) /\ acts' # <<>> /\ Len(acts') = Len(acts) + 1
         /\ acts'[Len(acts')] = a /\ Len(acts) \in Nat
         /\ \A k \in 1..Len(acts) : acts'[k] = acts[k]
    BY <1>3, <1>6, <1>10
  <1>12. Len(acts) \in Nat \ {0}
    BY <1>1, <1>10
  <1>13. acts'[Len(acts)] = A /\ \A k \in 1..Len(acts) - 1 : acts'[k] = acts[k]
    BY <1>10, <1>11, <1>12
  <1> QED
    BY <1>1, <1>3, <1>4, <1>7, <1>8, <1>9, <1>11, <1>13, PushStep

-----------------------------------------------------------------------------
(* Returns and errors.                                                     *)

\* Functions and activations are dropped, down to an activation that called.
LEMMA DropStep ==
    ASSUME Inv, acts # <<>>, NEW j \in 0..Len(frames) - 1, NEW l \in 0..Len(acts) - 1,
           frames' = SubSeq(frames, 1, j), acts' = SubSeq(acts, 1, l),
           l > 0 => acts[l].ci = j,
           UNCHANGED <<main, form, status, signals>>, hook' \in {"none", "user", "stop"},
           hookcount' \in Nat \ {0}
    PROVE  Inv'
  <1> DEFINE n == Len(frames)
             m == Len(acts)
  <1>0. TypeOK /\ Nested /\ PcsSaved
    BY DEF Inv
  <1>1. /\ frames # <<>> /\ status = "running"
        /\ n \in Nat \ {0} /\ DOMAIN frames = 1..n
        /\ m \in Nat \ {0} /\ DOMAIN acts = 1..m
    <2>1. frames # <<>> /\ status = "running"
      BY <1>0 DEF Nested
    <2>2. frames \in Seq(Frame) /\ acts \in Seq(Activation)
      BY <1>0 DEF TypeOK
    <2> QED
      BY <2>1, <2>2
  <1>2. /\ frames' \in Seq(Frame) /\ Len(frames') = j /\ (frames' = <<>> <=> j = 0)
        /\ \A i \in 1..j : frames'[i] = frames[i]
    <2>1. j \in 0..Len(frames) /\ frames \in Seq(Frame)
      BY <1>0, <1>1 DEF TypeOK
    <2> QED
      BY <2>1, Prefix
  <1>3. /\ acts' \in Seq(Activation) /\ Len(acts') = l /\ (acts' = <<>> <=> l = 0)
        /\ \A k \in 1..l : acts'[k] = acts[k]
    <2>1. l \in 0..Len(acts) /\ acts \in Seq(Activation)
      BY <1>0, <1>1 DEF TypeOK
    <2> QED
      BY <2>1, Prefix
  <1>4. DOMAIN frames' = 1..j /\ DOMAIN acts' = 1..l
    BY <1>2, <1>3
  <1>5. F' = frames'[j] /\ A' = acts'[l]
    BY <1>2, <1>3 DEF F, A, Last
  <1>6. TypeOK'
    BY <1>0, <1>2, <1>3 DEF TypeOK, Frame
  <1>7. \A k \in 1..m - 1 : /\ acts[k].phase = "mid" /\ acts[k].ci < n
                            /\ frames[acts[k].ci + 1].fresh
                            /\ acts[k].pc = frames[acts[k].ci].savedpc - 1
    BY <1>0 DEF Nested, PcsSaved
  <1>8. \A k, h \in 1..m : k < h => acts[k].ci < acts[h].ci
    BY <1>0, <1>1 DEF Nested
  <1>9. \A k \in 1..m : acts[k].ci \in Nat /\ acts[k].ci # 0
    BY <1>0, <1>1, Elements
  <1>10. \A k \in 1..l : k \in 1..m - 1
    BY <1>1
  <1> HIDE DEF n, m
  <1>11. \A k \in 1..l - 1 : k \in 1..l /\ acts[k].ci \in 1..j - 1
    <2> SUFFICES ASSUME NEW k \in 1..l - 1
                 PROVE  k \in 1..l /\ acts[k].ci \in 1..j - 1
      OBVIOUS
    <2>1. k \in 1..m /\ l \in 1..m /\ k < l /\ l > 0
      BY <1>1, <1>10
    <2>2. acts[k].ci < j /\ acts[k].ci \in Nat \ {0}
      BY <1>8, <1>9, <2>1
    <2> QED
      BY <2>1, <2>2
  <1>12. Nested'
    <2>1. frames' # <<>> => frames'[1].fresh
      BY <1>0, <1>2 DEF Nested
    <2>2. acts' # <<>> => status' = "running" /\ A'.ci = Len(frames') /\ frames' # <<>>
      <3> SUFFICES ASSUME l > 0
                   PROVE  status' = "running" /\ acts'[l].ci = j /\ j # 0
        BY <1>2, <1>3, <1>5, SMTT(30)
      <3>0. l \in 1..l
        OBVIOUS
      <3>1. acts'[l] = acts[l] /\ l \in 1..m
        BY <1>1, <1>3, <1>10, <3>0
      <3> QED
        BY <1>1, <1>9, <3>1
    <2>3. ASSUME NEW k \in 1..Len(acts') - 1
          PROVE  /\ acts'[k].phase = "mid" /\ acts'[k].ci < Len(frames')
                 /\ frames'[acts'[k].ci + 1].fresh
      <3>1. acts'[k] = acts[k] /\ acts[k].ci \in 1..j - 1 /\ k \in 1..m - 1
        BY <1>3, <1>10, <1>11
      <3>2. acts[k].ci + 1 \in 1..j
        BY <3>1
      <3> QED
        BY <1>2, <1>7, <3>1, <3>2, SMTT(30)
    <2>4. \A k, h \in DOMAIN acts' : k < h => acts'[k].ci < acts'[h].ci
      BY <1>3, <1>4, <1>8, <1>10, <1>1
    <2>5. ASSUME NEW i \in DOMAIN frames', acts' # <<>>, acts'[1].ci < i, frames'[i].fresh
          PROVE  \E k \in 1..Len(acts') - 1 : i = acts'[k].ci + 1
      <3>1. i \in 1..j /\ i \in 1..n /\ frames'[i] = frames[i]
        BY <1>1, <1>2, <1>4
      <3>2. l > 0 /\ 1 \in 1..l /\ acts'[1] = acts[1]
        BY <1>3, <2>5
      <3>3. PICK k \in 1..m - 1 : i = acts[k].ci + 1
        <4>1. i \in DOMAIN frames /\ acts # <<>> /\ acts[1].ci < i /\ frames[i].fresh
          BY <1>1, <2>5, <3>1, <3>2
        <4> QED
          BY <1>0, <4>1 DEF Nested, m
      <3>4. k < l
        <4> SUFFICES ASSUME ~(k < l)
                     PROVE  FALSE
          OBVIOUS
        <4>1. l \in 1..m /\ k \in 1..m /\ (k = l \/ l < k)
          BY <1>1, <3>2, <3>3, <1>10
        <4>2. acts[l].ci <= acts[k].ci
          BY <1>8, <1>9, <4>1
        <4> QED
          BY <1>9, <3>1, <3>2, <3>3, <4>1, <4>2
      <3>5. k \in 1..l - 1
        BY <3>2, <3>3, <3>4
      <3>6. acts'[k] = acts[k]
        BY <1>3, <1>11, <3>5
      <3> QED
        BY <1>3, <3>3, <3>5, <3>6
    <2>6. status' = "running"
      BY <1>1
    <2> QED
      BY <2>1, <2>2, <2>3, <2>4, <2>5, <2>6 DEF Nested
  <1>13. PcsSaved'
    <2>1. \A i \in DOMAIN frames' : Counted(frames'[i])
      <3>1. \A i \in 1..j : i \in 1..n
        BY <1>1 DEF n
      <3> QED
        BY <1>0, <1>1, <1>2, <1>4, <3>1 DEF PcsSaved
    <2>2. \A i \in 1..j : i \in 1..n - 1 /\ Waiting(frames[i])
      <3>1. \A i \in 1..j : i \in 1..n - 1
        BY <1>1 DEF n
      <3> QED
        BY <1>0, <3>1 DEF PcsSaved, n
    <2>3. ASSUME NEW i \in 1..Len(frames') - 1
          PROVE  /\ Waiting(frames'[i])
                 /\ frames'[i + 1].fresh \/ Op(frames'[i].p, frames'[i].savedpc - 1) = "call"
      <3>1. i \in 1..j /\ i + 1 \in 1..j
        BY <1>2
      <3>2. i \in 1..n - 1
        BY <2>2, <3>1
      <3>3. frames[i + 1].fresh \/ Op(frames[i].p, frames[i].savedpc - 1) = "call"
        BY <1>0, <3>2 DEF PcsSaved, n
      <3> QED
        BY <1>2, <2>2, <3>1, <3>3
    <2>4. \A k \in 1..Len(acts') - 1 : acts'[k].pc = frames'[acts'[k].ci].savedpc - 1
      <3> SUFFICES ASSUME NEW k \in 1..l - 1
                   PROVE  acts'[k].pc = frames'[acts'[k].ci].savedpc - 1
        BY <1>3
      <3>1. acts'[k] = acts[k] /\ acts[k].ci \in 1..j - 1 /\ k \in 1..m - 1
        BY <1>3, <1>10, <1>11
      <3>2. acts[k].ci \in 1..j
        BY <3>1
      <3> QED
        BY <1>2, <1>7, <3>1, <3>2
    <2>5. frames' # <<>> => Waiting(F')
      BY <1>2, <1>5, <2>2
    <2>6. acts' # <<>> => Consistent(F', A')
      <3> SUFFICES ASSUME acts' # <<>>
                   PROVE  Consistent(F', A')
        OBVIOUS
      <3>0. l > 0
        BY <1>3
      <3>1. l \in 1..m - 1 /\ acts'[l] = acts[l] /\ acts[l].ci = j
        <4>1. l \in 1..l
          BY <3>0
        <4> QED
          BY <1>3, <1>10, <3>0, <4>1
      <3>2. j \in 1..j /\ frames'[j] = frames[j]
        <4>1. l \in 1..m
          BY <1>1, <3>1
        <4>2. j # 0
          BY <1>9, <3>1, <4>1
        <4> QED
          BY <1>2, <4>2
      <3>3. acts[l].phase = "mid" /\ acts[l].pc = frames[j].savedpc - 1
        BY <1>7, <3>1
      <3>4. F' = frames[j] /\ A' = acts[l]
        BY <1>5, <3>1, <3>2
      <3> QED
        BY <2>2, <3>2, <3>3, <3>4 DEF Consistent
    <2>7. \A f, a : Consistent(f, a) /\ a.phase = "mid" => Consistent(f, a)'
      BY DEF Consistent, Waiting, WaitsAt, ValidPc, Settled
    <2>8. acts' # <<>> => A'.phase = "mid"
      BY <1>3, <1>5, <1>7, <1>10
    <2>9. status' = "running"
      BY <1>1
    <2> QED
      BY <2>1, <2>3, <2>4, <2>5, <2>6, <2>7, <2>8, <2>9
         DEF PcsSaved, Waiting, WaitsAt, ValidPc, Settled
  <1> QED
    BY <1>6, <1>12, <1>13 DEF Inv

\* A set that an increasing function enumerates, or only enters.
LEMMA Enumerated ==
    ASSUME NEW a \in Nat, NEW b \in Nat, a <= b, NEW X \in SUBSET Nat, IsFiniteSet(X),
           NEW g \in [a..b -> X], \A k, l \in a..b : k < l => g[k] < g[l]
    PROVE  /\ Cardinality(X) \in Nat /\ b - a + 1 <= Cardinality(X)
           /\ (\A x \in X : \E k \in a..b : x = g[k]) => Cardinality(X) = b - a + 1
  <1>1. g \in Injection(a..b, X)
    <2> SUFFICES ASSUME NEW k \in a..b, NEW l \in a..b, g[k] = g[l]
                 PROVE  k = l
      BY DEF Injection, IsInjective
    <2>1. g[k] \in Nat /\ g[l] \in Nat
      OBVIOUS
    <2> QED
      BY <2>1
  <1>2. /\ Cardinality(a..b) <= Cardinality(X)
        /\ Cardinality(a..b) = Cardinality(X) <=> g \in Surjection(a..b, X)
    BY <1>1, FS_Injection
  <1>3. Cardinality(a..b) = b - a + 1
    BY FS_Interval
  <1>4. (\A x \in X : \E k \in a..b : x = g[k]) => g \in Surjection(a..b, X)
    BY DEF Surjection
  <1>5. Cardinality(X) \in Nat
    BY FS_CardinalityType
  <1> QED
    BY <1>2, <1>3, <1>4, <1>5

\* What is left of the activations when the C stack is unwound to function j.
LEMMA LeftAfter ==
    ASSUME Inv, acts # <<>>, NEW j \in 0..Len(frames) - 1, frames[j + 1].fresh
    PROVE  /\ Len(acts) - FreshAbove(j) \in Int /\ Len(acts) - FreshAbove(j) < Len(acts)
           /\ Len(acts) - FreshAbove(j) > 0 => acts[Len(acts) - FreshAbove(j)].ci = j
  <1> DEFINE n == Len(frames)
             m == Len(acts)
             X == {i \in j + 1..n : frames[i].fresh}
  <1>0. TypeOK /\ Nested
    BY DEF Inv
  <1>1. /\ n \in Nat \ {0} /\ DOMAIN frames = 1..n
        /\ m \in Nat \ {0} /\ DOMAIN acts = 1..m
        /\ \A k \in 1..m : acts[k].ci \in Nat /\ acts[k].ci # 0
    <2>1. frames # <<>>
      BY <1>0 DEF Nested
    <2>2. frames \in Seq(Frame) /\ acts \in Seq(Activation)
      BY <1>0 DEF TypeOK
    <2>3. \A k \in DOMAIN acts : acts[k].ci \in Nat /\ acts[k].ci # 0
      BY <1>0, Elements
    <2> QED
      BY <2>1, <2>2, <2>3
  <1>2. \A k \in 1..m - 1 : acts[k].ci < n /\ frames[acts[k].ci + 1].fresh
    BY <1>0 DEF Nested
  <1>3. \A k, l \in 1..m : k < l => acts[k].ci < acts[l].ci
    BY <1>0, <1>1 DEF Nested
  <1>4. \A i \in 1..n : acts[1].ci < i /\ frames[i].fresh => \E k \in 1..m - 1 : i = acts[k].ci + 1
    BY <1>0, <1>1 DEF Nested
  <1>5. FreshAbove(j) = Cardinality(X)
    BY DEF FreshAbove
  <1> HIDE DEF n, m
  <1>6. j \in Nat /\ j < n /\ j + 1 \in 1..n /\ j + 1 \in X
    BY <1>1 DEF n
  <1>7. IsFiniteSet(X) /\ X \in SUBSET Nat
    <2>1. IsFiniteSet(j + 1..n)
      BY <1>1, <1>6, FS_Interval
    <2>2. X \in SUBSET (j + 1..n)
      OBVIOUS
    <2>3. X \in SUBSET Nat
      BY <1>1, <1>6
    <2> QED
      BY <2>1, <2>2, <2>3, FS_Subset
  <1>8. CASE acts[1].ci <= j
    <2>1. acts[1].ci < j + 1
      BY <1>1, <1>6, <1>8
    <2>2. PICK r \in 1..m - 1 : j + 1 = acts[r].ci + 1
      BY <1>4, <1>6, <2>1
    <2>3. acts[r].ci = j
      BY <1>1, <1>6, <2>2
    <2> DEFINE g == [k \in r..m - 1 |-> acts[k].ci + 1]
    <2>4. r \in Nat /\ m - 1 \in Nat /\ r <= m - 1 /\ r # 0
      BY <1>1, <2>2
    <2>5. \A k \in r..m - 1 : k \in 1..m - 1 /\ k \in 1..m
      BY <1>1, <2>4
    <2>6. \A k \in r..m - 1 : acts[k].ci + 1 \in X
      <3> SUFFICES ASSUME NEW k \in r..m - 1
                   PROVE  acts[k].ci + 1 \in j + 1..n /\ frames[acts[k].ci + 1].fresh
        OBVIOUS
      <3>1. k \in 1..m /\ r \in 1..m /\ k \in 1..m - 1 /\ (k = r \/ r < k)
        BY <1>1, <2>2, <2>5
      <3>2. j <= acts[k].ci
        BY <1>1, <1>3, <1>6, <2>3, <3>1
      <3> QED
        BY <1>1, <1>2, <1>6, <3>1, <3>2
    <2>7. \A k, l \in r..m - 1 : k < l => g[k] < g[l]
      BY <1>1, <1>3, <2>5
    <2>8. ASSUME NEW i \in X
          PROVE  \E k \in r..m - 1 : i = g[k]
      <3>1. i \in 1..n /\ frames[i].fresh /\ acts[1].ci < i /\ j < i
        BY <1>1, <1>6, <1>8
      <3>2. PICK k \in 1..m - 1 : i = acts[k].ci + 1
        BY <1>4, <3>1
      <3>3. k \in 1..m /\ r \in 1..m
        BY <1>1, <2>2, <3>2
      <3>4. ~(k < r)
        <4> SUFFICES ASSUME k < r
                     PROVE  FALSE
          OBVIOUS
        <4>1. acts[k].ci < j
          BY <1>3, <2>3, <3>3
        <4> QED
          BY <1>1, <1>6, <3>1, <3>2, <3>3, <4>1
      <3>5. k \in r..m - 1
        BY <2>4, <3>2, <3>4
      <3> QED
        BY <3>2, <3>5
    <2>9. g \in [r..m - 1 -> X]
      BY <2>6
    <2> HIDE DEF g, X
    <2>10. Cardinality(X) \in Nat /\ Cardinality(X) = (m - 1) - r + 1
      BY <1>7, <2>4, <2>7, <2>8, <2>9, Enumerated
    <2>11. m - Cardinality(X) = r
      BY <1>1, <2>4, <2>10
    <2> QED
      BY <1>1, <1>5, <2>3, <2>4, <2>11 DEF m
  <1>9. CASE j < acts[1].ci
    <2> DEFINE g == [k \in 1..m |-> IF k = 1 THEN j + 1 ELSE acts[k - 1].ci + 1]
    <2>1. \A k \in 2..m : k - 1 \in 1..m - 1 /\ k - 1 \in 1..m /\ 1 \in 1..m
      BY <1>1
    <2>2. \A k \in 2..m : j + 1 < acts[k - 1].ci + 1
      <3> SUFFICES ASSUME NEW k \in 2..m
                   PROVE  j + 1 < acts[k - 1].ci + 1
        OBVIOUS
      <3>1. k - 1 \in 1..m /\ 1 \in 1..m
        BY <2>1
      <3>2. acts[1].ci <= acts[k - 1].ci
        <4>1. CASE k - 1 = 1
          BY <1>1, <3>1, <4>1
        <4>2. CASE k - 1 # 1
          <5>1. 1 < k - 1
            BY <3>1, <4>2
          <5> QED
            BY <1>1, <1>3, <3>1, <5>1
        <4> QED
          BY <4>1, <4>2
      <3> QED
        BY <1>1, <1>6, <1>9, <3>1, <3>2
    <2>3. \A k \in 2..m : acts[k - 1].ci + 1 \in X
      BY <1>1, <1>2, <1>6, <2>1, <2>2
    <2>4. g \in [1..m -> X]
      BY <1>1, <1>6, <2>3
    <2>5. ASSUME NEW k \in 1..m, NEW l \in 1..m, k < l
          PROVE  g[k] < g[l]
      <3>1. l \in 2..m /\ g[l] = acts[l - 1].ci + 1
        BY <1>1, <2>5
      <3>2. CASE k = 1
        BY <2>2, <3>1, <3>2
      <3>3. CASE k # 1
        <4>1. k \in 2..m /\ g[k] = acts[k - 1].ci + 1
          BY <1>1, <2>5, <3>3
        <4>2. k - 1 \in 1..m /\ l - 1 \in 1..m /\ k - 1 < l - 1
          BY <2>1, <2>5, <3>1, <4>1
        <4>3. acts[k - 1].ci < acts[l - 1].ci
          BY <1>3, <4>2
        <4> QED
          BY <1>1, <3>1, <4>1, <4>2, <4>3
      <3> QED
        BY <3>2, <3>3
    <2> HIDE DEF g, X
    <2>6. Cardinality(X) \in Nat /\ m - 1 + 1 <= Cardinality(X)
      BY <1>1, <1>7, <2>4, <2>5, Enumerated
    <2> QED
      BY <1>1, <1>5, <2>6 DEF m
  <1> QED
    <2>1. 1 \in 1..m
      BY <1>1
    <2> QED
      BY <1>1, <1>6, <1>8, <1>9, <2>1

\* An error, in a function or in a hook.
LEMMA UnwindStep ==
    ASSUME Inv, acts # <<>>, NEW j \in 0..Len(frames) - 1, Unwind(j),
           UNCHANGED <<main, form, status, signals>>, hook' \in {"none", "user", "stop"},
           hookcount' \in Nat \ {0}
    PROVE  Inv'
  <1> DEFINE left == Len(acts) - FreshAbove(j)
             l == IF left > 0 THEN left ELSE 0
  <1>1. /\ frames # <<>> /\ frames[1].fresh /\ acts \in Seq(Activation)
        /\ Len(acts) \in Nat \ {0}
    BY Elements DEF Inv, Nested, TypeOK
  <1>2. frames[j + 1].fresh
    BY <1>1 DEF Unwind
  <1>3. left \in Int /\ left < Len(acts) /\ (left > 0 => acts[left].ci = j)
    BY <1>2, LeftAfter
  <1>4. frames' = SubSeq(frames, 1, j) /\ acts' = IF left > 0 THEN SubSeq(acts, 1, left) ELSE <<>>
    BY DEF Unwind
  <1> HIDE DEF left
  <1>5. l \in 0..Len(acts) - 1 /\ (l > 0 => acts[l].ci = j)
    BY <1>1, <1>3
  <1>6. acts' = SubSeq(acts, 1, l)
    <2>1. SubSeq(acts, 1, 0) = <<>>
      BY <1>1, Prefix
    <2> QED
      BY <1>3, <1>4, <2>1
  <1> HIDE DEF l
  <1> QED
    BY <1>4, <1>5, <1>6, DropStep

LEMMA FailStep == ASSUME Inv, Fail PROVE Inv'
  <1>1. acts # <<>>
    BY DEF Fail, In
  <1>2. PICK j \in 0..Len(frames) - 1 : Unwind(j)
    BY DEF Fail
  <1>3. /\ UNCHANGED <<main, form, status, signals>>
        /\ hook' \in {"none", "user", "stop"} /\ hookcount' \in Nat \ {0}
    BY DEF Fail, Inv, TypeOK
  <1> QED
    BY <1>1, <1>2, <1>3, UnwindStep

LEMMA InterruptedStep == ASSUME Inv, Interrupted PROVE Inv'
  <1>1. acts # <<>>
    BY DEF Interrupted, HookPoint, In
  <1>2. PICK j \in 0..Len(frames) - 1 : Unwind(j)
    BY DEF Interrupted
  <1>3. /\ UNCHANGED <<main, form, status, signals>>
        /\ hook' \in {"none", "user", "stop"} /\ hookcount' \in Nat \ {0}
    BY BoundsAssumption DEF Interrupted
  <1> QED
    BY <1>1, <1>2, <1>3, UnwindStep

\* A function that called another Lua function goes on after OP_CALL.
LEMMA AfterCall ==
    ASSUME NEW f, f.p \in Proto, f.savedpc \in Nat, Waiting(f), Op(f.p, f.savedpc - 1) = "call"
    PROVE  Entered(f) /\ f.savedpc # 1
  <1>1. ValidPc(f.p, f.savedpc - 1) /\ Settled(f)
    BY DEF Waiting, WaitsAt
  <1>2. f.savedpc - 1 # 0 /\ f.savedpc \in Succ(f.p, f.savedpc - 1)
    BY <1>1, CodeFacts DEF Succ
  <1>3. ValidPc(f.p, f.savedpc)
    BY <1>1, <1>2, CodeFacts DEF Returns
  <1> QED
    BY <1>1, <1>2, <1>3 DEF Entered

LEMMA ExecReturnStep == ASSUME Inv, ExecReturn PROVE Inv'
  <1> DEFINE n == Len(frames)
             m == Len(acts)
  <1>0. TypeOK /\ Nested /\ PcsSaved
    BY DEF Inv
  <1>1. /\ acts # <<>> /\ frames # <<>> /\ A.ci = n /\ F = frames[n] /\ A = acts[m]
        /\ F \in Frame /\ A \in Activation /\ F.p \in Proto /\ F.p \in DOMAIN form
        /\ n \in Nat \ {0} /\ DOMAIN frames = 1..n
        /\ m \in Nat \ {0} /\ DOMAIN acts = 1..m
        /\ status = "running"
    <2>1. /\ acts # <<>> /\ frames # <<>> /\ A.ci = n /\ status = "running"
          /\ F \in Frame /\ A \in Activation /\ F.p \in Proto /\ F.p \in DOMAIN form
      BY Acting DEF ExecReturn
    <2>2. frames \in Seq(Frame) /\ acts \in Seq(Activation)
      BY <1>0 DEF TypeOK
    <2> QED
      BY <1>0, <2>1, <2>2, Innermost
  <1>2. /\ UNCHANGED <<main, form, status, hook, hookcount, signals>>
        /\ frames' = SubSeq(frames, 1, n - 1)
    BY DEF ExecReturn
  <1>3. \A k \in 1..m - 1 : acts[k].ci < n /\ frames[acts[k].ci + 1].fresh
    BY <1>0 DEF Nested
  <1>4. \A k, l \in 1..m : k < l => acts[k].ci < acts[l].ci
    BY <1>0, <1>1 DEF Nested
  <1>5. \A k \in 1..m : acts[k].ci \in Nat /\ acts[k].ci # 0
    BY <1>0, <1>1, Elements
  <1> HIDE DEF n, m
  <1>6. CASE F.fresh
    <2>1. acts' = SubSeq(acts, 1, m - 1)
      BY <1>6 DEF ExecReturn, m
    <2>2. ASSUME m - 1 > 0
          PROVE  acts[m - 1].ci = n - 1
      <3>0. 1 \in 1..m /\ m \in 1..m /\ 1 < m /\ m - 1 \in 1..m - 1 /\ m - 1 \in 1..m
        BY <1>1, <2>2
      <3>1. acts[1].ci < n /\ n \in DOMAIN frames /\ frames[n].fresh
        BY <1>1, <1>4, <1>6, <3>0
      <3>2. PICK k \in 1..m - 1 : n = acts[k].ci + 1
        BY <1>0, <1>1, <3>1 DEF Nested, m
      <3>3. ~(k < m - 1)
        <4> SUFFICES ASSUME k < m - 1
                     PROVE  FALSE
          OBVIOUS
        <4>1. k \in 1..m
          BY <1>1, <3>2
        <4>2. acts[k].ci < acts[m - 1].ci /\ acts[m - 1].ci < n
          BY <1>3, <1>4, <3>0, <4>1
        <4> QED
          BY <1>1, <1>5, <3>0, <3>2, <4>1, <4>2
      <3>4. k = m - 1
        BY <1>1, <3>2, <3>3
      <3> QED
        BY <1>1, <1>5, <3>0, <3>2, <3>4
    <2>3. n - 1 \in 0..n - 1 /\ m - 1 \in 0..m - 1
      BY <1>1
    <2>4. hook' \in {"none", "user", "stop"} /\ hookcount' \in Nat \ {0}
      BY <1>0, <1>2 DEF TypeOK
    <2> QED
      BY <1>1, <1>2, <2>1, <2>2, <2>3, <2>4, DropStep DEF n, m
  <1>7. CASE ~F.fresh
    <2>1. PICK trap \in ReturnTraps :
             acts' = SetA([A EXCEPT !.ci = A.ci - 1, !.trap = trap, !.phase = AfterReturn(F.p)])
      BY <1>7 DEF ExecReturn
    <2> DEFINE a == [A EXCEPT !.ci = A.ci - 1, !.trap = trap, !.phase = AfterReturn(F.p)]
    <2>2. trap \in BOOLEAN
      <3>1. F.trap \in BOOLEAN
        BY <1>1 DEF Frame
      <3>2. (A.trap \/ Mask # {}) \in BOOLEAN
        OBVIOUS
      <3> QED
        BY <3>1, <3>2 DEF ReturnTraps
    <2>3. n > 1
      BY <1>0, <1>1, <1>7 DEF Nested
    <2>4. AfterReturn(F.p) \in {"returning", "enter"}
      BY DEF AfterReturn
    <2>5. a \in Activation
      <3>1. A.ci - 1 \in Nat \ {0} /\ AfterReturn(F.p) \in Phases
        BY <1>1, <2>3, <2>4 DEF Phases
      <3> QED
        BY <1>1, <2>2, <3>1, ChangedActivation
    <2>6. a.ci = n - 1 /\ a.phase \in {"returning", "enter"}
      BY <1>1, <2>4, <2>5 DEF Activation
    <2>7. acts' = SetA(a)
      BY <2>1
    <2> HIDE DEF a
    <2>8. /\ acts' \in Seq(Activation) /\ acts' # <<>> /\ Len(acts') = m /\ acts'[m] = a
          /\ \A k \in 1..m - 1 : acts'[k] = acts[k]
      BY <1>0, <1>1, <2>5, <2>7, SetFacts DEF m
    <2>9. /\ frames' \in Seq(Frame) /\ frames' # <<>> /\ Len(frames') = n - 1
          /\ \A i \in 1..n - 1 : frames'[i] = frames[i]
      <3>1. n - 1 \in 0..Len(frames) /\ frames \in Seq(Frame) /\ n - 1 # 0
        BY <1>0, <1>1, <2>3 DEF TypeOK, n
      <3>2. /\ SubSeq(frames, 1, n - 1) \in Seq(Frame) /\ Len(SubSeq(frames, 1, n - 1)) = n - 1
            /\ \A i \in 1..n - 1 : SubSeq(frames, 1, n - 1)[i] = frames[i]
            /\ SubSeq(frames, 1, n - 1) # <<>>
        BY <3>1, Prefix
      <3> QED
        BY <1>2, <3>2
    <2>10. /\ F' = frames[n - 1] /\ A' = a /\ n - 1 \in 1..n - 1
           /\ DOMAIN frames' = 1..n - 1 /\ DOMAIN acts' = 1..m
      <3>1. n - 1 \in 1..n - 1
        BY <1>1, <2>3
      <3>2. DOMAIN frames' = 1..n - 1 /\ DOMAIN acts' = 1..m
        BY <2>8, <2>9
      <3>3. F' = frames'[n - 1] /\ A' = a
        BY <2>8, <2>9 DEF F, A, Last
      <3> QED
        BY <2>9, <3>1, <3>2, <3>3
    <2>11. TypeOK'
      BY <1>0, <1>2, <2>8, <2>9 DEF TypeOK, Frame
    <2>12. \A k \in 1..m - 1 : /\ acts[k].ci \in 1..n - 2 /\ acts[k].phase = "mid"
                               /\ frames[acts[k].ci + 1].fresh
      <3> SUFFICES ASSUME NEW k \in 1..m - 1
                   PROVE  /\ acts[k].ci \in 1..n - 2 /\ acts[k].phase = "mid"
                          /\ frames[acts[k].ci + 1].fresh
        OBVIOUS
      <3>1. k \in 1..m
        BY <1>1
      <3>2. /\ acts[k].ci < n /\ frames[acts[k].ci + 1].fresh /\ acts[k].phase = "mid"
            /\ acts[k].ci \in Nat /\ acts[k].ci # 0
        BY <1>0, <1>3, <1>5, <3>1 DEF Nested, m
      <3>3. acts[k].ci + 1 # n
        BY <1>1, <1>7, <3>2
      <3> QED
        BY <1>1, <3>2, <3>3
    <2>13. \A k \in 1..n - 2 : k \in 1..n - 1 /\ k + 1 \in 1..n - 1
      BY <1>1
    <2>14. Nested'
      <3>1. frames'[1].fresh
        BY <1>0, <1>1, <2>3, <2>9 DEF Nested
      <3>2. \A k \in 1..Len(acts') - 1 :
               /\ acts'[k].phase = "mid" /\ acts'[k].ci < Len(frames')
               /\ frames'[acts'[k].ci + 1].fresh
        <4> SUFFICES ASSUME NEW k \in 1..m - 1
                     PROVE  /\ acts'[k].phase = "mid" /\ acts'[k].ci < Len(frames')
                            /\ frames'[acts'[k].ci + 1].fresh
          BY <2>8
        <4>1. acts'[k] = acts[k] /\ acts[k].ci \in 1..n - 2
          BY <2>8, <2>12
        <4>2. acts[k].ci + 1 \in 1..n - 1 /\ acts[k].ci < n - 1
          BY <1>1, <4>1
        <4> QED
          BY <2>9, <2>12, <4>1, <4>2
      <3>3. ASSUME NEW k \in 1..m, NEW l \in 1..m, k < l
            PROVE  acts'[k].ci < acts'[l].ci
        <4>1. k \in 1..m - 1 /\ acts'[k] = acts[k]
          BY <1>1, <2>8, <3>3
        <4>2. CASE l = m
          BY <1>1, <2>6, <2>8, <2>12, <4>1, <4>2
        <4>3. CASE l # m
          <5>1. acts'[l] = acts[l]
            BY <1>1, <2>8, <4>3
          <5> QED
            BY <1>4, <3>3, <4>1, <5>1
        <4> QED
          BY <4>2, <4>3
      <3>4. ASSUME NEW i \in DOMAIN frames', acts'[1].ci < i, frames'[i].fresh
            PROVE  \E k \in 1..Len(acts') - 1 : i = acts'[k].ci + 1
        <4>1. i \in 1..n - 1 /\ i \in DOMAIN frames /\ frames'[i] = frames[i]
          BY <1>1, <2>9, <2>10
        <4>2. m # 1
          <5> SUFFICES ASSUME m = 1
                       PROVE  FALSE
            OBVIOUS
          <5>1. acts'[1].ci = n - 1
            BY <2>6, <2>8
          <5> QED
            BY <1>1, <3>4, <4>1, <5>1
        <4>3. acts'[1] = acts[1]
          BY <1>1, <2>8, <4>2
        <4>4. PICK k \in 1..m - 1 : i = acts[k].ci + 1
          BY <1>0, <1>1, <3>4, <4>1, <4>3 DEF Nested, m
        <4> QED
          BY <2>8, <4>4
      <3>5. A'.ci = Len(frames') /\ status' = "running"
        BY <1>1, <1>2, <2>6, <2>9, <2>10
      <3> QED
        BY <2>8, <2>9, <2>10, <3>1, <3>2, <3>3, <3>4, <3>5 DEF Nested
    <2>15. PcsSaved'
      <3>1. \A i \in DOMAIN frames' : Counted(frames'[i])
        <4>1. \A i \in 1..n - 1 : i \in DOMAIN frames
          BY <1>1
        <4> QED
          BY <1>0, <2>9, <2>10, <4>1 DEF PcsSaved
      <3>2. ASSUME NEW i \in 1..n - 2
            PROVE  /\ Waiting(frames'[i])
                   /\ frames'[i + 1].fresh \/ Op(frames'[i].p, frames'[i].savedpc - 1) = "call"
        <4>1. i \in 1..n - 1 /\ i + 1 \in 1..n - 1
          BY <2>13
        <4>2. /\ Waiting(frames[i])
              /\ frames[i + 1].fresh \/ Op(frames[i].p, frames[i].savedpc - 1) = "call"
          BY <1>0, <4>1 DEF PcsSaved, n
        <4> QED
          BY <2>9, <4>1, <4>2
      <3>3. ASSUME NEW k \in 1..m - 1
            PROVE  acts'[k].pc = frames'[acts'[k].ci].savedpc - 1
        <4>1. acts'[k] = acts[k] /\ acts[k].ci \in 1..n - 2
          BY <2>8, <2>12
        <4>2. acts[k].ci \in 1..n - 1
          BY <2>13, <4>1
        <4>3. acts[k].pc = frames[acts[k].ci].savedpc - 1
          BY <1>0 DEF PcsSaved, m
        <4> QED
          BY <2>9, <4>1, <4>2, <4>3
      <3>4. Consistent(F, A)'
        <4>1. /\ Waiting(frames[n - 1])
              /\ frames[n].fresh \/ Op(frames[n - 1].p, frames[n - 1].savedpc - 1) = "call"
          <5>1. n - 1 + 1 = n
            BY <1>1
          <5> QED
            BY <1>0, <2>10, <5>1 DEF PcsSaved, n
        <4>2. frames[n - 1] \in Frame
          BY <1>0, <1>1, <2>3, Elements
        <4>3. frames[n - 1].p \in Proto /\ frames[n - 1].savedpc \in Nat
          BY <1>0, <4>2 DEF Frame, TypeOK
        <4>4. Entered(frames[n - 1]) /\ frames[n - 1].savedpc # 1
          BY <1>1, <1>7, <4>1, <4>3, AfterCall
        <4> QED
          BY <2>6, <2>10, <4>4 DEF Consistent, Entered, ValidPc, Settled
      <3>5. Len(frames') - 1 = n - 2 /\ Len(acts') - 1 = m - 1
        BY <1>1, <2>8, <2>9
      <3> QED
        BY <2>8, <2>9, <2>10, <3>1, <3>2, <3>3, <3>4, <3>5
           DEF PcsSaved, Waiting, WaitsAt, ValidPc, Settled
    <2> QED
      BY <2>11, <2>14, <2>15 DEF Inv
  <1> QED
    BY <1>6, <1>7

-----------------------------------------------------------------------------
(* Yields, and changes of the hooks.                                       *)

\* Every activation is lost, or a lost one is replaced.
LEMMA LostStep ==
    ASSUME Inv, frames # <<>>, NEW f \in Frame, frames' = SetF(f), f.fresh = F.fresh,
           Counted(f),
           \/ /\ acts' = <<>> /\ status' \in {"running", "callyield", "hookyield"}
              /\ IF status' = "hookyield" THEN Entered(f) ELSE Waiting(f)
           \/ acts' = <<NewAct(Len(frames), "enter")>> /\ status' = "running" /\ Entered(f),
           UNCHANGED <<main, form, hook, signals>>, hookcount' \in Nat \ {0}
    PROVE  Inv'
  <1>0. TypeOK /\ Nested /\ PcsSaved
    BY DEF Inv
  <1>1. /\ F = frames[Len(frames)] /\ DOMAIN frames = 1..Len(frames) /\ Len(frames) \in Nat \ {0}
    BY <1>0, Innermost, Elements
  <1>2. /\ frames' \in Seq(Frame) /\ frames' # <<>> /\ Len(frames') = Len(frames)
        /\ frames'[Len(frames)] = f
        /\ \A i \in 1..Len(frames) - 1 : frames'[i] = frames[i]
    BY <1>0, SetFacts
  <1>3. DOMAIN frames' = 1..Len(frames) /\ F' = f
    BY <1>2 DEF F, Last
  <1> DEFINE b == NewAct(Len(frames), "enter")
  <1>4. b \in Activation /\ b.ci = Len(frames) /\ b.phase = "enter"
    BY <1>1, NewActFacts
  <1> HIDE DEF b
  <1>5. /\ acts' \in Seq(Activation)
        /\ acts' # <<>> => /\ Len(acts') = 1 /\ acts'[1] = b /\ A' = b /\ DOMAIN acts' = {1}
                           /\ Entered(f) /\ status' = "running"
        /\ acts' = <<>> => Len(acts') = 0 /\ DOMAIN acts' = {}
    <2>1. CASE acts' = <<>>
      BY <2>1
    <2>2. CASE acts' = <<b>> /\ status' = "running" /\ Entered(f)
      BY <1>4, <2>2 DEF A, Last
    <2> QED
      BY <2>1, <2>2 DEF b
  <1>9. Len(acts') - 1 = 0 \/ Len(acts') - 1 = -1
    BY <1>5
  <1>6. TypeOK'
    BY <1>0, <1>2, <1>5 DEF TypeOK, Frame
  <1>7. Nested'
    <2>1. frames'[1].fresh
      BY <1>0, <1>1, <1>2 DEF Nested
    <2>2. acts' # <<>> => status' = "running" /\ A'.ci = Len(frames')
      BY <1>2, <1>4, <1>5
    <2>3. \A k \in 1..Len(acts') - 1 : FALSE
      BY <1>9, NoIndex
    <2>4. \A k, l \in DOMAIN acts' : k < l => acts'[k].ci < acts'[l].ci
      BY <1>5
    <2>5. \A i \in DOMAIN frames' : ~(acts' # <<>> /\ acts'[1].ci < i)
      BY <1>1, <1>3, <1>4, <1>5
    <2> QED
      BY <1>2, <2>1, <2>2, <2>3, <2>4, <2>5 DEF Nested
  <1>8. PcsSaved'
    <2>1. \A i \in DOMAIN frames' : Counted(frames'[i])
      <3> SUFFICES ASSUME NEW i \in DOMAIN frames'
                   PROVE  Counted(frames'[i])
        OBVIOUS
      <3>1. i \in 1..Len(frames) - 1 \/ i = Len(frames)
        BY <1>1, <1>3
      <3>2. i \in DOMAIN frames
        BY <1>1, <1>3
      <3> QED
        BY <1>0, <1>2, <3>1, <3>2 DEF PcsSaved
    <2>2. \A i \in 1..Len(frames) - 1 :
             /\ Waiting(frames'[i])
             /\ frames'[i + 1].fresh \/ Op(frames'[i].p, frames'[i].savedpc - 1) = "call"
      <3> SUFFICES ASSUME NEW i \in 1..Len(frames) - 1
                   PROVE  /\ Waiting(frames'[i])
                          /\ \/ frames'[i + 1].fresh
                             \/ Op(frames'[i].p, frames'[i].savedpc - 1) = "call"
        OBVIOUS
      <3>1. i + 1 \in 1..Len(frames) - 1 \/ i + 1 = Len(frames)
        BY <1>1, NextIndex
      <3>2. frames'[i + 1].fresh = frames[i + 1].fresh
        BY <1>1, <1>2, <3>1
      <3> QED
        BY <1>0, <1>2, <3>2 DEF PcsSaved
    <2>3. \A k \in 1..Len(acts') - 1 : FALSE
      BY <1>9, NoIndex
    <2>4. acts' # <<>> => Consistent(F, A)'
      BY <1>3, <1>4, <1>5 DEF Consistent, Entered, ValidPc, Settled
    <2>5. acts' = <<>> => IF status' = "hookyield" THEN Entered(F') ELSE Waiting(F')
      BY <1>3 DEF b
    <2> QED
      BY <1>2, <2>1, <2>2, <2>3, <2>4, <2>5
         DEF PcsSaved, Entered, Waiting, WaitsAt, ValidPc, Settled, Counted, Uncalled
  <1> QED
    BY <1>6, <1>7, <1>8 DEF Inv

LEMMA HookYieldsStep == ASSUME Inv, HookYields PROVE Inv'
  <1>1. /\ acts # <<>> /\ frames # <<>> /\ A.phase = "fetch" /\ F.p \in Proto
        /\ F \in Frame /\ A \in Activation /\ Consistent(F, A) /\ Counted(F)
    BY Acting DEF HookYields
  <1>2. Executed(F, A) /\ A.trap /\ A.pc \in Nat
    BY <1>1 DEF HookYields, Consistent, Activation
  <1> DEFINE again == IF A.pc = 1 /\ F.repeats < MaxHookCalls - 1 THEN F.repeats + 1
                      ELSE F.repeats
             f == [F EXCEPT !.savedpc = A.pc, !.hookyield = TRUE, !.repeats = again]
  <1>3. /\ again \in 0..MaxHookCalls - 1 /\ F.repeats \in Nat
        /\ again = F.repeats \/ again = F.repeats + 1
        /\ A.pc = 1 => again = F.repeats + 1 \/ again = MaxHookCalls - 1
    BY <1>1, BoundsAssumption DEF Frame
  <1>4. frames' = SetF(f)
    BY DEF HookYields, YieldedAt
  <1> HIDE DEF again
  <1>5. f \in Frame
    BY <1>1, <1>2, <1>3, ChangedFrame
  <1>6. /\ f.p = F.p /\ f.fresh = F.fresh /\ f.hooked = F.hooked /\ f.savedpc = A.pc
        /\ f.hookcalls = F.hookcalls /\ f.repeats = again /\ F.hookcalls \in Nat
    BY <1>1, <1>5 DEF Frame
  <1> HIDE DEF f
  <1>7. Entered(f) /\ Counted(f)
    <2>1. Counted(f)
      BY <1>1, <1>3, <1>6 DEF Counted
    <2>2. CASE A.pc = 1
      <3>1. Uncalled(f)
        BY <1>1, <1>3, <1>6, <2>2 DEF Counted, Uncalled
      <3> QED
        BY <1>2, <1>6, <2>1, <2>2, <3>1 DEF Entered, Executed
    <2>3. CASE A.pc # 1
      BY <1>2, <1>6, <2>1, <2>3 DEF Entered, Executed, Settled
    <2> QED
      BY <2>2, <2>3
  <1>8. /\ acts' = <<>> /\ status' = "hookyield" /\ hookcount' \in Nat \ {0}
        /\ UNCHANGED <<main, form, hook, signals>>
    BY DEF HookYields
  <1> QED
    BY <1>1, <1>4, <1>5, <1>6, <1>7, <1>8, LostStep

LEMMA YieldStep == ASSUME Inv, Yield PROVE Inv'
  <1>1. /\ frames # <<>> /\ A.phase = "mid" /\ F \in Frame /\ Consistent(F, A)
        /\ Counted(F)
    BY Acting DEF Yield
  <1>2. Waiting(F) /\ Counted(F)
    BY <1>1 DEF Consistent
  <1>3. SetF(F) = frames
    BY <1>1, LastInSeq DEF SetF, F, Inv, TypeOK
  <1>4. /\ frames' = SetF(F) /\ acts' = <<>> /\ status' = "callyield"
        /\ hookcount' \in Nat \ {0} /\ UNCHANGED <<main, form, hook, signals>>
    BY <1>3 DEF Yield, Inv, TypeOK
  <1> QED
    BY <1>1, <1>2, <1>4, LostStep

LEMMA ResumeStep == ASSUME Inv, Resume PROVE Inv'
  <1>1. acts = <<>> /\ frames # <<>> /\ status \in {"callyield", "hookyield"}
    BY DEF Resume, Inv, Nested, TypeOK
  <1>2. F \in Frame /\ SetF(F) = frames
    BY <1>1, Innermost, LastInSeq DEF SetF, F, Inv, TypeOK
  <1>3. Counted(F) /\ IF status = "hookyield" THEN Entered(F) ELSE Waiting(F)
    BY <1>1, Innermost DEF Inv, PcsSaved
  <1>4. /\ frames' = SetF(F) /\ status' = "running" /\ hookcount' \in Nat \ {0}
        /\ UNCHANGED <<main, form, hook, signals>>
        /\ acts' = IF status = "hookyield" THEN <<NewAct(Len(frames), "enter")>> ELSE <<>>
    BY <1>2 DEF Resume, Inv, TypeOK
  <1> QED
    BY <1>1, <1>2, <1>3, <1>4, LostStep

\* luaV_finishOp goes on at an instruction that is not the first one.
LEMMA FinishedFacts ==
    ASSUME NEW f, f.p \in Proto, f.savedpc \in Nat, Waiting(f),
           NEW n \in FinishedAt(f.p, f.savedpc)
    PROVE  n \in Nat /\ n # 1 /\ ValidPc(f.p, n)
  <1> DEFINE pc == f.savedpc - 1
  <1>1. ValidPc(f.p, pc) /\ Op(f.p, pc) \in Callers
    BY DEF Waiting, WaitsAt
  <1>2. pc \in Nat /\ pc # 0 /\ f.savedpc = pc + 1
    BY <1>1, CodeFacts
  <1> HIDE DEF pc
  <1>3. CASE Op(f.p, pc) \in Closers
    BY <1>1, <1>2, <1>3, CodeFacts DEF FinishedAt, Closers, pc
  <1>4. CASE Op(f.p, pc) \notin Closers
    <2>1. n \in Succ(f.p, pc)
      BY <1>1, <1>2, <1>4 DEF FinishedAt, Succ, Callers, Closers, pc
    <2>2. Op(f.p, pc) \notin Returns
      BY <1>1, <1>4 DEF Callers, Closers, Returns
    <2>3. n \in {pc + 1, pc + 2}
      BY <1>1, <1>2, <1>4 DEF FinishedAt, Callers, Closers, pc
    <2> QED
      BY <1>1, <1>2, <2>1, <2>2, <2>3, CodeFacts
  <1> QED
    BY <1>3, <1>4

LEMMA UnrollStep == ASSUME Inv, Unroll PROVE Inv'
  <1>1. acts = <<>> /\ frames # <<>> /\ status = "running"
    BY DEF Unroll
  <1>2. /\ F \in Frame /\ F.p \in Proto /\ Counted(F) /\ Waiting(F)
    BY <1>1, Innermost DEF Inv, PcsSaved
  <1>3. PICK n \in FinishedAt(F.p, F.savedpc) : frames' = SetF([F EXCEPT !.savedpc = n])
    BY DEF Unroll
  <1>4. n \in Nat /\ n # 1 /\ ValidPc(F.p, n)
    <2>1. F.savedpc \in Nat
      BY <1>2 DEF Frame
    <2> QED
      BY <1>2, <2>1, FinishedFacts
  <1> DEFINE f == [F EXCEPT !.savedpc = n]
  <1>5. f \in Frame
    BY <1>2, <1>4, ChangedFrame
  <1>6. /\ f.p = F.p /\ f.fresh = F.fresh /\ f.hooked = F.hooked /\ f.savedpc = n
        /\ f.hookcalls = F.hookcalls /\ f.repeats = F.repeats
    BY <1>2, <1>5 DEF Frame
  <1> HIDE DEF f
  <1>7. Entered(f) /\ Counted(f)
    BY <1>2, <1>4, <1>6 DEF Entered, Waiting, Settled, Counted
  <1>8. /\ frames' = SetF(f) /\ acts' = <<NewAct(Len(frames), "enter")>> /\ status' = "running"
        /\ hookcount' \in Nat \ {0} /\ UNCHANGED <<main, form, hook, signals>>
    BY <1>1, <1>3 DEF Unroll, Inv, TypeOK, f
  <1> QED
    BY <1>1, <1>5, <1>6, <1>7, <1>8, LostStep

\* The hook changes, and the functions learn of it unless an instruction waits.
LEMMA HookStep ==
    ASSUME Inv, frames # <<>>, frames' \in {frames, Settraps},
           UNCHANGED <<main, form, acts, status>>, hook' \in {"none", "user", "stop"},
           hookcount' \in Nat \ {0}, signals' \in Nat,
           acts # <<>> /\ A.phase # "mid" => frames' = Settraps /\ hook' = "stop"
    PROVE  Inv'
  <1>0. TypeOK /\ Nested /\ PcsSaved
    BY DEF Inv
  <1>1. /\ F = frames[Len(frames)] /\ DOMAIN frames = 1..Len(frames)
        /\ Len(frames) \in Nat \ {0} /\ Len(frames) \in DOMAIN frames
        /\ \A i \in DOMAIN frames : frames[i] \in Frame
    BY <1>0, Innermost, Elements
  <1>2. \A i \in DOMAIN frames : [frames[i] EXCEPT !.trap = TRUE] \in Frame
    BY <1>1, ChangedFrame
  <1>3. /\ frames' \in Seq(Frame) /\ frames' # <<>> /\ Len(frames') = Len(frames)
        /\ DOMAIN frames' = DOMAIN frames
        /\ \A i \in DOMAIN frames :
              frames'[i] = frames[i] \/ frames'[i] = [frames[i] EXCEPT !.trap = TRUE]
        /\ frames' = Settraps =>
              \A i \in DOMAIN frames : frames'[i] = [frames[i] EXCEPT !.trap = TRUE]
    <2>1. CASE frames' = frames
      <3>1. frames' = Settraps =>
               \A i \in DOMAIN frames : frames'[i] = [frames[i] EXCEPT !.trap = TRUE]
        BY DEF Settraps
      <3> QED
        BY <1>0, <2>1, <3>1 DEF TypeOK
    <2>2. CASE frames' = Settraps
      <3>1. frames' \in [1..Len(frames) -> Frame]
        BY <1>1, <1>2, <2>2 DEF Settraps
      <3>2. frames' \in Seq(Frame) /\ Len(frames') = Len(frames) /\ DOMAIN frames' = DOMAIN frames
        BY <1>1, <3>1
      <3>3. \A i \in DOMAIN frames : frames'[i] = [frames[i] EXCEPT !.trap = TRUE]
        BY <2>2 DEF Settraps
      <3> QED
        BY <1>1, <3>2, <3>3
    <2> QED
      BY <2>1, <2>2
  <1>4. \A i \in DOMAIN frames :
           /\ frames'[i].p = frames[i].p /\ frames'[i].savedpc = frames[i].savedpc
           /\ frames'[i].fresh = frames[i].fresh /\ frames'[i].hooked = frames[i].hooked
           /\ frames'[i].hookcalls = frames[i].hookcalls
           /\ frames'[i].repeats = frames[i].repeats
           /\ frames' = Settraps => frames'[i].trap
    <2> SUFFICES ASSUME NEW i \in DOMAIN frames
                 PROVE  /\ frames'[i].p = frames[i].p /\ frames'[i].savedpc = frames[i].savedpc
                        /\ frames'[i].fresh = frames[i].fresh
                        /\ frames'[i].hooked = frames[i].hooked
                        /\ frames'[i].hookcalls = frames[i].hookcalls
                        /\ frames'[i].repeats = frames[i].repeats
                        /\ frames' = Settraps => frames'[i].trap
      OBVIOUS
    <2>1. \A f \in Frame : LET g == [f EXCEPT !.trap = TRUE]
                           IN  /\ g.p = f.p /\ g.savedpc = f.savedpc /\ g.fresh = f.fresh
                               /\ g.hooked = f.hooked /\ g.hookcalls = f.hookcalls
                               /\ g.repeats = f.repeats /\ g.trap
      BY DEF Frame
    <2>2. frames[i] \in Frame
      BY <1>1
    <2>3. CASE frames' = Settraps
      <3>1. frames'[i] = [frames[i] EXCEPT !.trap = TRUE]
        BY <1>3, <2>3
      <3> QED
        BY <2>1, <2>2, <3>1
    <2>4. CASE frames' # Settraps
      <3>1. frames'[i] = frames[i]
        BY <2>4
      <3> QED
        BY <2>4, <3>1
    <2> QED
      BY <2>3, <2>4
  <1>5. F' = frames'[Len(frames)] /\ A' = A
    BY <1>3 DEF F, A, Last
  <1>6. TypeOK'
    BY <1>0, <1>3 DEF TypeOK, Frame
  <1>7. Nested'
    <2>1. \A k \in 1..Len(acts) - 1 : acts[k].ci + 1 \in DOMAIN frames
      <3>1. \A k \in 1..Len(acts) - 1 : k \in DOMAIN acts
        BY <1>0, Elements
      <3> QED
        BY <1>0, <1>1, <3>1, Elements, SMTT(30) DEF Nested
    <2>2. \A k \in 1..Len(acts) - 1 : frames'[acts[k].ci + 1].fresh
      BY <1>0, <1>4, <2>1 DEF Nested
    <2>3. 1 \in DOMAIN frames
      BY <1>1
    <2> QED
      BY <1>0, <1>3, <1>4, <1>5, <2>2, <2>3 DEF Nested
  <1>8. \A i \in DOMAIN frames :
           /\ Waiting(frames[i]) => Waiting(frames'[i])
           /\ Entered(frames[i]) => Entered(frames'[i])
    BY <1>4 DEF Waiting, Entered, WaitsAt, Settled, Uncalled
  <1>9. PcsSaved'
    <2>1. \A i \in DOMAIN frames : Counted(frames'[i])
      BY <1>0, <1>4 DEF PcsSaved, Counted
    <2>2. ASSUME NEW i \in 1..Len(frames) - 1
          PROVE  /\ Waiting(frames'[i])
                 /\ frames'[i + 1].fresh \/ Op(frames'[i].p, frames'[i].savedpc - 1) = "call"
      <3>1. i \in DOMAIN frames /\ i + 1 \in DOMAIN frames
        BY <1>1
      <3> QED
        BY <1>0, <1>4, <1>8, <3>1 DEF PcsSaved
    <2>3. ASSUME NEW k \in 1..Len(acts) - 1
          PROVE  acts[k].pc = frames'[acts[k].ci].savedpc - 1
      <3>1. k \in DOMAIN acts
        BY <1>0, Elements
      <3>2. acts[k].ci \in DOMAIN frames
        BY <1>0, <1>1, <3>1, Elements DEF Nested
      <3> QED
        BY <1>0, <1>4, <3>2 DEF PcsSaved
    <2>4. acts # <<>> => Consistent(F, A)'
      <3> SUFFICES ASSUME acts # <<>>
                   PROVE  Consistent(F, A)'
        BY <1>5
      <3>1. Consistent(F, A)
        BY <1>0 DEF PcsSaved
      <3>2. /\ F'.p = F.p /\ F'.savedpc = F.savedpc /\ F'.hooked = F.hooked
            /\ F'.hookcalls = F.hookcalls /\ F'.repeats = F.repeats
            /\ (frames' = Settraps => F'.trap)
            /\ (Waiting(F) => Waiting(F')) /\ (Entered(F) => Entered(F'))
        BY <1>1, <1>4, <1>5, <1>8
      <3>3. hook' = "stop" => "call" \in Mask'
        BY DEF Mask, Events
      <3>4. CASE A.phase = "mid"
        BY <1>5, <3>1, <3>2, <3>4 DEF Consistent, Waiting, WaitsAt, ValidPc, Settled
      <3>5. CASE A.phase # "mid"
        <4>1. frames' = Settraps /\ hook' = "stop"
          BY <3>5
        <4> QED
          BY <1>5, <3>1, <3>2, <3>3, <3>5, <4>1
             DEF Consistent, Executed, Entered, ValidPc, Settled, Uncalled
      <3> QED
        BY <3>4, <3>5
    <2>5. acts = <<>> => IF status = "hookyield" THEN Entered(F') ELSE Waiting(F')
      BY <1>0, <1>1, <1>5, <1>8 DEF PcsSaved
    <2> QED
      BY <1>3, <1>5, <2>1, <2>2, <2>3, <2>4, <2>5
         DEF PcsSaved, Entered, Waiting, WaitsAt, ValidPc, Settled, Counted, Uncalled
  <1> QED
    BY <1>6, <1>7, <1>9 DEF Inv

LEMMA SetHookStep == ASSUME Inv, NEW h \in {"none", "user"}, SetHook(h) PROVE Inv'
  <1>1. frames # <<>> /\ A.phase = "mid"
    BY Acting DEF SetHook
  <1>2. /\ UNCHANGED <<main, form, acts, status>> /\ hook' = h /\ frames' \in {frames, Settraps}
        /\ signals' \in Nat /\ hookcount' \in Nat \ {0}
    BY BoundsAssumption DEF SetHook, Inv, TypeOK
  <1> QED
    BY <1>1, <1>2, HookStep

LEMMA SignalStep == ASSUME Inv, Signal PROVE Inv'
  <1>1. /\ UNCHANGED <<main, form, acts, status>> /\ hook' = "stop" /\ frames' = Settraps
        /\ frames # <<>> /\ signals' \in Nat /\ hookcount' \in Nat \ {0}
    BY DEF Signal, Inv, TypeOK
  <1> QED
    BY <1>1, HookStep

-----------------------------------------------------------------------------
(* The invariant is inductive.                                             *)

LEMMA InitInv == ASSUME Init PROVE Inv
  <1>1. PICK e \in Entries :
           /\ form \in [Loaded[e] -> Forms] /\ frames = <<NewFrame(e, TRUE, FALSE)>>
           /\ signals = Signals[e]
    BY DEF Init
  <1> DEFINE x == NewFrame(e, TRUE, FALSE)
             a == NewAct(1, "enter")
  <1>2. /\ DOMAIN form = Loaded[e] /\ e \in DOMAIN form /\ DOMAIN form \subseteq Proto
        /\ signals \in Nat /\ form \in [DOMAIN form -> Forms]
    BY <1>1, ProgramAssumption, BoundsAssumption
  <1>3. x \in Frame /\ x.p = e /\ x.fresh /\ x.savedpc = 1 /\ x.hookcalls = 0 /\ x.repeats = 0
    BY <1>2, NewFrameFacts
  <1>4. a \in Activation /\ a.ci = 1 /\ a.phase = "enter"
    BY NewActFacts
  <1>5. frames = <<x>> /\ acts = <<a>> /\ status = "running"
    BY <1>1 DEF Init
  <1> HIDE DEF x, a
  <1>6. F = x /\ A = a /\ Len(frames) = 1 /\ Len(acts) = 1 /\ frames[1] = x /\ acts[1] = a
        /\ frames # <<>> /\ acts # <<>> /\ DOMAIN frames = {1} /\ DOMAIN acts = {1}
    BY <1>5 DEF F, A, Last
  <1>7. TypeOK
    <2>1. frames \in Seq(Frame) /\ acts \in Seq(Activation)
      BY <1>3, <1>4, <1>5
    <2>2. /\ main \in BOOLEAN /\ hook \in {"none", "user", "stop"} /\ hookcount \in Nat \ {0}
          /\ status \in {"running", "callyield", "hookyield"}
      BY BoundsAssumption DEF Init
    <2> QED
      BY <1>2, <2>1, <2>2 DEF TypeOK
  <1>8. \A k \in 1..Len(acts) - 1 : FALSE
    BY <1>6
  <1>9. \A i \in 1..Len(frames) - 1 : FALSE
    BY <1>6
  <1>10. Nested
    BY <1>3, <1>4, <1>5, <1>6, <1>8 DEF Nested
  <1>11. Consistent(F, A)
    <2>1. e \in Proto
      BY <1>2
    <2> QED
      BY <1>3, <1>4, <1>6, <2>1, EntryValid DEF Consistent, Entered, Uncalled
  <1>12. PcsSaved
    BY <1>3, <1>6, <1>8, <1>9, <1>11 DEF PcsSaved, Counted
  <1> QED
    BY <1>7, <1>10, <1>12 DEF Inv

LEMMA NextInv == ASSUME Inv, [Next]_vars PROVE Inv'
  <1>1. CASE UNCHANGED vars
    BY <1>1 DEF vars, Inv, TypeOK, Nested, PcsSaved, Frame, Consistent, Executed, Entered,
         Waiting, WaitsAt, ValidPc, Settled, Mask, F, A, Last
  <1>2. CASE Run
    <2>1. ASSUME NEW q \in DOMAIN form, ExecCall(q) \/ ExecTailCall(q) \/ Invoke(q)
          PROVE  Inv'
      BY <2>1, ExecCallStep, ExecTailCallStep, InvokeStep
    <2>2. ASSUME NEW h \in {"none", "user"}, SetHook(h)
          PROVE  Inv'
      BY <2>2, SetHookStep
    <2> QED
      BY <1>2, <2>1, <2>2, PrologueStep, FetchStep, TraceOffStep, TraceExecStep, HookYieldsStep,
         ExecSimpleStep, ExecCallsStep, ExecVarargPrepStep, ExecReturnStep, FinishStep,
         YieldStep, UnrollStep, FailStep, InterruptedStep DEF Run
  <1>3. CASE Resume
    BY <1>3, ResumeStep
  <1>4. CASE Signal
    BY <1>4, SignalStep
  <1> QED
    BY <1>1, <1>2, <1>3, <1>4 DEF Next

\* In every state of every program, the C activations nest like the functions that
\* they execute, and every function is at an instruction or has saved where it goes on.
THEOREM Invariance == Spec => []Inv
  BY InitInv, NextInv, PTL DEF Spec

-----------------------------------------------------------------------------
(* What the invariant implies.                                             *)

LEMMA InvMatches == ASSUME Inv PROVE ActivationsMatch
  <1> DEFINE n == Len(frames)
             m == Len(acts)
  <1>0. TypeOK /\ Nested
    BY DEF Inv
  <1>1. /\ DOMAIN acts = 1..m /\ m \in Nat /\ DOMAIN frames = 1..n /\ n \in Nat
        /\ \A k \in 1..m : acts[k].ci \in Nat /\ acts[k].ci # 0
    BY <1>0, Elements
  <1>2. \A k \in 1..m - 1 : /\ acts[k].phase = "mid" /\ acts[k].ci < n
                            /\ frames[acts[k].ci + 1].fresh
    BY <1>0 DEF Nested
  <1>3. \A k, l \in 1..m : k < l => acts[k].ci < acts[l].ci
    BY <1>0, <1>1 DEF Nested
  <1>4. m > 0 => acts[m].ci = n
    BY <1>0, <1>1, Innermost DEF Nested
  <1>5. \A i \in 1..n : m > 0 /\ acts[1].ci < i /\ frames[i].fresh
                           => \E k \in 1..m - 1 : i = acts[k].ci + 1
    BY <1>0, <1>1 DEF Nested
  <1> HIDE DEF n, m
  <1>6. ASSUME NEW k \in 1..m - 1
        PROVE  /\ acts[k].phase = "mid" /\ acts[k].ci < acts[k + 1].ci /\ acts[k + 1].ci <= n
               /\ {i \in acts[k].ci + 1..acts[k + 1].ci : frames[i].fresh} = {acts[k].ci + 1}
    <2>1. k \in 1..m /\ k + 1 \in 1..m /\ 1 \in 1..m
      BY <1>1
    <2>2. acts[k].ci < acts[k + 1].ci
      BY <1>3, <2>1
    <2>3. acts[k + 1].ci <= n
      <3>1. CASE k + 1 = m
        BY <1>1, <1>4, <3>1
      <3>2. CASE k + 1 # m
        <4>1. k + 1 \in 1..m - 1
          BY <1>1, <3>2
        <4> QED
          BY <1>1, <1>2, <2>1, <4>1
      <3> QED
        BY <3>1, <3>2
    <2>4. acts[k].ci + 1 \in acts[k].ci + 1..acts[k + 1].ci
      BY <1>1, <2>1, <2>2
    <2>5. ASSUME NEW i \in acts[k].ci + 1..acts[k + 1].ci, frames[i].fresh
          PROVE  i = acts[k].ci + 1
      <3>1. acts[1].ci <= acts[k].ci
        BY <1>1, <1>3, <2>1
      <3>2. i \in 1..n /\ acts[1].ci < i /\ m > 0
        BY <1>1, <2>1, <2>3, <3>1
      <3>3. PICK h \in 1..m - 1 : i = acts[h].ci + 1
        BY <1>5, <2>5, <3>2
      <3>4. h \in 1..m
        BY <1>1
      <3>5. acts[k].ci <= acts[h].ci /\ acts[h].ci < acts[k + 1].ci
        BY <1>1, <2>1, <3>3, <3>4
      <3>6. ~(h < k)
        BY <1>1, <1>3, <2>1, <3>4, <3>5
      <3>7. ~(k + 1 < h) /\ h # k + 1
        BY <1>1, <1>3, <2>1, <3>4, <3>5
      <3>8. h = k
        BY <1>1, <3>6, <3>7
      <3> QED
        BY <3>3, <3>8
    <2> QED
      BY <1>2, <2>2, <2>3, <2>4, <2>5
  <1> QED
    <2> SUFFICES ASSUME NEW k \in 1..m
                 PROVE  IF k = m THEN acts[k].ci = n
                        ELSE /\ acts[k].phase = "mid" /\ acts[k].ci < acts[k + 1].ci
                             /\ acts[k + 1].ci <= n
                             /\ {i \in acts[k].ci + 1..acts[k + 1].ci : frames[i].fresh}
                                   = {acts[k].ci + 1}
      BY <1>1 DEF ActivationsMatch, n, m
    <2>1. CASE k = m
      <3>1. m > 0
        BY <1>1
      <3> QED
        BY <1>4, <2>1, <3>1
    <2>2. CASE k # m
      <3>1. k \in 1..m - 1
        BY <1>1, <2>2
      <3> QED
        BY <1>6, <2>2, <3>1
    <2> QED
      BY <2>1, <2>2

LEMMA InvHooks == ASSUME Inv PROVE CallHookOnce
  <1> SUFFICES ASSUME NEW i \in DOMAIN frames
               PROVE  /\ Counted(frames[i])
                      /\ Begun(i) /\ frames[i].hooked => frames[i].hookcalls >= 1
    BY DEF CallHookOnce, Counted
  <1>1. DOMAIN frames = 1..Len(frames) /\ Len(frames) \in Nat
    BY Elements DEF Inv
  <1>2. Counted(frames[i])
    BY DEF Inv, PcsSaved
  <1>3. CASE i < Len(frames)
    <2>1. i \in 1..Len(frames) - 1
      BY <1>1, <1>3
    <2>2. Waiting(frames[i])
      BY <2>1 DEF Inv, PcsSaved
    <2> QED
      BY <1>2, <2>2 DEF Waiting, Settled
  <1>4. CASE i = Len(frames)
    <2>1. ASSUME In("exec"), F.p \in Vararg => A.pc > 1
          PROVE  Settled(F)
      <3>1. Executed(F, A)
        BY <2>1, Acting DEF Consistent
      <3> QED
        BY <2>1, <3>1 DEF Executed
    <2>2. F = frames[i]
      BY <1>4 DEF F, Last
    <2> QED
      BY <1>1, <1>2, <1>4, <2>1, <2>2 DEF Begun, Settled
  <1> QED
    BY <1>1, <1>3, <1>4

\* A return of generated code, or an error, ends or continues the C activation that
\* waits for it: the local ci of the running activation is L->ci, and every other
\* activation waits for exactly one fresh function.
THEOREM ActivationsAlwaysMatch == Spec => []ActivationsMatch
  BY Invariance, InvMatches, PTL

\* A function calls its call hook before its second instruction, and not again, whatever
\* form it and its caller are executed in and wherever it is entered again after a yield,
\* except for one more call after each count hook that yielded at its first instruction.
THEOREM HookCalledOnce == Spec => []CallHookOnce
  BY Invariance, InvHooks, PTL

-----------------------------------------------------------------------------
(* The refinement of LuaISA.                                               *)

\* The stack of LuaISA: every function waits, except perhaps the innermost one.
Abs == [i \in DOMAIN frames |-> AbstractFrame(i)]
WaitingAt(f) == ISA!At(f.p, f.savedpc - 1, TRUE)
AbsTop ==
    IF In("mid") \/ (acts = <<>> /\ status # "hookyield") THEN WaitingAt(F)
    ELSE ISA!At(F.p, IF In("fetch") \/ In("exec") THEN A.pc ELSE F.savedpc, FALSE)
AbsFrame == [p : Proto, pc : Int, mid : BOOLEAN]

LEMMA AtFacts ==
    ASSUME NEW p \in Proto, NEW pc \in Int, NEW mid \in BOOLEAN
    PROVE  LET x == ISA!At(p, pc, mid)
           IN  x \in AbsFrame /\ x.p = p /\ x.pc = pc /\ x.mid = mid
  BY DEF ISA!At, AbsFrame

AbsShape ==
    /\ Abs \in Seq(AbsFrame) /\ Len(Abs) = Len(frames) /\ DOMAIN Abs = 1..Len(frames)
    /\ Len(frames) \in Nat
    /\ \A i \in 1..Len(frames) - 1 : Abs[i] = WaitingAt(frames[i])
    /\ frames # <<>> => Abs[Len(frames)] = AbsTop /\ AbsTop \in AbsFrame

LEMMA AbsFacts == Inv => AbsShape
  <1> SUFFICES ASSUME Inv
               PROVE  AbsShape
    OBVIOUS
  <1>1. /\ DOMAIN frames = 1..Len(frames) /\ Len(frames) \in Nat
        /\ \A i \in DOMAIN frames : frames[i] \in Frame
    BY Elements DEF Inv
  <1>2. \A i \in DOMAIN frames : frames[i].p \in Proto /\ frames[i].savedpc - 1 \in Int
                                 /\ frames[i].savedpc \in Int
    BY <1>1 DEF Inv, TypeOK, Frame
  <1>3. acts # <<>> => A.pc \in Int
    BY Innermost DEF Inv, Activation
  <1>4. \A i \in 1..Len(frames) - 1 : Abs[i] = WaitingAt(frames[i])
    <2> SUFFICES ASSUME NEW i \in 1..Len(frames) - 1
                 PROVE  Abs[i] = WaitingAt(frames[i])
      OBVIOUS
    <2>1. i \in DOMAIN frames /\ i < Len(frames)
      BY <1>1
    <2>2. AbstractFrame(i) = WaitingAt(frames[i])
      BY <2>1 DEF AbstractFrame, WaitingAt, ISA!At
    <2> QED
      BY <2>1, <2>2 DEF Abs
  <1>5. frames # <<>> => Abs[Len(frames)] = AbsTop
    <2> SUFFICES ASSUME frames # <<>>
                 PROVE  AbstractFrame(Len(frames)) = AbsTop
      BY Innermost DEF Abs, Inv
    <2>1. F = frames[Len(frames)]
      BY DEF F, Last
    <2> QED
      BY <1>1, <2>1 DEF AbstractFrame, AbsTop, WaitingAt, ISA!At
  <1>6. frames # <<>> => AbsTop \in AbsFrame
    <2> SUFFICES ASSUME frames # <<>>
                 PROVE  AbsTop \in AbsFrame
      OBVIOUS
    <2>1. F.p \in Proto /\ F.savedpc - 1 \in Int /\ F.savedpc \in Int
      BY <1>2, Innermost DEF Inv
    <2>2. CASE In("mid") \/ (acts = <<>> /\ status # "hookyield")
      BY <2>1, <2>2, AtFacts DEF AbsTop, WaitingAt
    <2>3. CASE ~(In("mid") \/ (acts = <<>> /\ status # "hookyield")) /\ (In("fetch") \/ In("exec"))
      BY <1>3, <2>1, <2>3, AtFacts DEF AbsTop, In
    <2>4. CASE ~(In("mid") \/ (acts = <<>> /\ status # "hookyield"))
               /\ ~(In("fetch") \/ In("exec"))
      BY <2>1, <2>4, AtFacts DEF AbsTop
    <2> QED
      BY <2>2, <2>3, <2>4
  <1>7. \A i \in DOMAIN frames : Abs[i] \in AbsFrame
    <2> SUFFICES ASSUME NEW i \in DOMAIN frames
                 PROVE  Abs[i] \in AbsFrame
      OBVIOUS
    <2>1. CASE i = Len(frames)
      BY <1>1, <1>5, <1>6, <2>1
    <2>2. CASE i # Len(frames)
      <3>1. WaitingAt(frames[i]) \in AbsFrame
        BY <1>2, AtFacts DEF WaitingAt
      <3>2. i \in 1..Len(frames) - 1
        BY <1>1, <2>2
      <3> QED
        BY <1>4, <3>1, <3>2
    <2> QED
      BY <2>1, <2>2
  <1>8. Abs \in Seq(AbsFrame) /\ Len(Abs) = Len(frames) /\ DOMAIN Abs = 1..Len(frames)
    <2>1. DOMAIN Abs = 1..Len(frames)
      BY <1>1 DEF Abs
    <2>2. Abs \in [1..Len(frames) -> AbsFrame]
      BY <1>1, <1>7, <2>1 DEF Abs
    <2> QED
      BY <1>1, <2>1, <2>2
  <1> QED
    BY <1>1, <1>4, <1>5, <1>6, <1>8 DEF AbsShape

\* The actions of LuaISA, of this stack.
ASetTop(x) == [Abs EXCEPT ![Len(Abs)] = x]
ATop == Abs[Len(Abs)]

LEMMA ISAExecute ==
    ASSUME Abs # <<>>, Op(ATop.p, ATop.pc) \notin Returns,
           ATop.mid => Op(ATop.p, ATop.pc) \in Callers,
           NEW n \in Succ(ATop.p, ATop.pc), Abs' = ASetTop(ISA!At(ATop.p, n, FALSE))
    PROVE  ISA!ISANext
  BY DEF ISA!ISANext, ISA!Execute, ISA!Top, ISA!SetTop, Abs, ATop, ASetTop, ISA!Op, Op,
     ISA!Succ, Succ, ISA!Callers, Callers, ISA!Returns, Returns, ISA!Arg, Arg

LEMMA ISABegin ==
    ASSUME Abs # <<>>, ~ATop.mid, Op(ATop.p, ATop.pc) \in Callers,
           Abs' = ASetTop([ATop EXCEPT !.mid = TRUE])
    PROVE  ISA!ISANext
  BY DEF ISA!ISANext, ISA!Begin, ISA!Top, ISA!SetTop, Abs, ATop, ASetTop, ISA!Op, Op,
     ISA!Callers, Callers

LEMMA ISARepeat ==
    ASSUME Abs # <<>>, ATop.mid, Op(ATop.p, ATop.pc) \in Closers,
           Abs' = ASetTop([ATop EXCEPT !.mid = FALSE])
    PROVE  ISA!ISANext
  BY DEF ISA!ISANext, ISA!Repeat, ISA!Top, ISA!SetTop, Abs, ATop, ASetTop, ISA!Op, Op,
     ISA!Closers, Closers

LEMMA ISAInvoke ==
    ASSUME Abs # <<>>, Op(ATop.p, ATop.pc) \in Callers, ATop.mid \/ Op(ATop.p, ATop.pc) = "call",
           NEW q \in Proto,
           Abs' = Append(ASetTop([ATop EXCEPT !.mid = TRUE]), ISA!At(q, 1, FALSE))
    PROVE  ISA!ISANext
  <1>1. ISA!Invoke(q)
    BY DEF ISA!Invoke, ISA!Top, ISA!SetTop, Abs, ATop, ASetTop, ISA!Op, Op, ISA!Callers, Callers
  <1> QED
    BY <1>1 DEF ISA!ISANext

LEMMA ISATailCall ==
    ASSUME Abs # <<>>, ~ATop.mid, Op(ATop.p, ATop.pc) = "tailcall", NEW q \in Proto,
           Abs' = ASetTop(ISA!At(q, 1, FALSE))
    PROVE  ISA!ISANext
  <1>1. ISA!TailCall(q)
    BY DEF ISA!TailCall, ISA!Top, ISA!SetTop, Abs, ATop, ASetTop, ISA!Op, Op
  <1> QED
    BY <1>1 DEF ISA!ISANext

LEMMA ISAReturn ==
    ASSUME Abs # <<>>,
           \/ Op(ATop.p, ATop.pc) \in Returns
           \/ Op(ATop.p, ATop.pc) = "tailcall" /\ ATop.mid,
           NEW rest, rest = SubSeq(Abs, 1, Len(Abs) - 1),
           \/ Abs' = rest
           \/ /\ Len(rest) > 0 /\ Op(rest[Len(rest)].p, rest[Len(rest)].pc) = "call"
              /\ Abs' = [rest EXCEPT ![Len(rest)] =
                            ISA!At(rest[Len(rest)].p, rest[Len(rest)].pc + 1, FALSE)]
    PROVE  ISA!ISANext
  <1>1. ISA!Return
    BY DEF ISA!Return, ISA!Top, Abs, ATop, ISA!Op, Op, ISA!Returns, Returns
  <1> QED
    BY <1>1 DEF ISA!ISANext

LEMMA ISAThrow ==
    ASSUME NEW j \in 0..Len(Abs) - 1, j = 0 \/ Abs[j].mid, Abs' = SubSeq(Abs, 1, j)
    PROVE  ISA!ISANext
  <1>1. ISA!Throw(j)
    BY DEF ISA!Throw, Abs
  <1> QED
    BY <1>1 DEF ISA!ISANext, Abs

\* Sequences are equal when they have the same elements.
LEMMA SameElements ==
    ASSUME NEW S, NEW s \in Seq(S), NEW t \in Seq(S), Len(s) = Len(t),
           \A i \in 1..Len(s) : s[i] = t[i]
    PROVE  s = t
  OBVIOUS

LEMMA ASetTopFacts ==
    ASSUME Inv, frames # <<>>, NEW x \in AbsFrame
    PROVE  /\ ASetTop(x) \in Seq(AbsFrame) /\ Len(ASetTop(x)) = Len(frames)
           /\ ASetTop(x)[Len(frames)] = x
           /\ \A i \in 1..Len(frames) - 1 : ASetTop(x)[i] = Abs[i]
  <1>1. Abs \in Seq(AbsFrame) /\ Len(Abs) = Len(frames) /\ Len(frames) # 0
    BY AbsFacts DEF AbsShape, Inv, TypeOK
  <1>2. Abs # <<>>
    BY <1>1
  <1> QED
    BY <1>1, <1>2, LastReplaced DEF ASetTop

LEMMA AbsFactsAfter == Inv' => AbsShape'
  BY AbsFacts, PTL

\* What a step does to the stack of LuaISA, when only the innermost function moves.
LEMMA AbsMoves ==
    ASSUME Inv, Inv', frames # <<>>, Len(frames') = Len(frames),
           \A i \in 1..Len(frames) - 1 :
              frames'[i].p = frames[i].p /\ frames'[i].savedpc = frames[i].savedpc
    PROVE  /\ Abs # <<>> /\ ATop = AbsTop /\ Abs' = ASetTop(AbsTop')
           /\ AbsTop' = AbsTop => Abs' = Abs
  <1>1. AbsShape /\ AbsShape'
    BY AbsFacts, AbsFactsAfter
  <1>2. Len(frames) \in Nat \ {0} /\ frames' # <<>>
    <2>1. Len(frames) # 0 /\ frames \in Seq(Frame)
      BY DEF Inv, TypeOK
    <2>2. frames' \in Seq(Frame')
      BY DEF Inv, TypeOK
    <2> QED
      BY <2>1, <2>2
  <1>3. Abs \in Seq(AbsFrame) /\ Abs' \in Seq(AbsFrame) /\ Len(Abs) = Len(frames) /\ Len(Abs') = Len(frames)
    BY <1>1 DEF AbsShape, AbsFrame
  <1>4. /\ Abs # <<>> /\ ATop = AbsTop /\ AbsTop \in AbsFrame
        /\ Abs'[Len(frames)] = AbsTop' /\ AbsTop' \in AbsFrame
    BY <1>1, <1>2, <1>3 DEF AbsShape, ATop, AbsFrame
  <1>5. \A i \in 1..Len(frames) - 1 : Abs'[i] = Abs[i]
    <2> SUFFICES ASSUME NEW i \in 1..Len(frames) - 1
                 PROVE  Abs'[i] = Abs[i]
      OBVIOUS
    <2>1. Abs[i] = WaitingAt(frames[i]) /\ Abs'[i] = WaitingAt(frames'[i])
      BY <1>1 DEF AbsShape, WaitingAt
    <2> QED
      BY <2>1 DEF WaitingAt
  <1>6. Abs' = ASetTop(AbsTop')
    <2> DEFINE t == [Abs EXCEPT ![Len(Abs)] = AbsTop']
    <2>1. /\ t \in Seq(AbsFrame) /\ Len(t) = Len(Abs) /\ t[Len(Abs)] = AbsTop'
          /\ \A i \in 1..Len(Abs) - 1 : t[i] = Abs[i]
      BY <1>3, <1>4, LastReplaced
    <2> HIDE DEF t
    <2>2. \A i \in 1..Len(frames) : Abs'[i] = t[i]
      <3> SUFFICES ASSUME NEW i \in 1..Len(frames)
                   PROVE  Abs'[i] = t[i]
        OBVIOUS
      <3>1. i = Len(frames) \/ i \in 1..Len(frames) - 1
        BY <1>2
      <3> QED
        BY <1>3, <1>4, <1>5, <2>1, <3>1
    <2>3. Abs' = t
      BY <1>3, <2>1, <2>2, SameElements
    <2> QED
      BY <2>3 DEF t, ASetTop
  <1>7. AbsTop' = AbsTop => Abs' = Abs
    <2> SUFFICES ASSUME AbsTop' = AbsTop
                 PROVE  Abs' = Abs
      OBVIOUS
    <2>1. \A i \in 1..Len(frames) : Abs'[i] = Abs[i]
      <3> SUFFICES ASSUME NEW i \in 1..Len(frames)
                   PROVE  Abs'[i] = Abs[i]
        OBVIOUS
      <3>1. i = Len(frames) \/ i \in 1..Len(frames) - 1
        BY <1>2
      <3> QED
        BY <1>3, <1>4, <1>5, <3>1 DEF ATop
    <2> QED
      BY <1>3, <2>1, SameElements
  <1> QED
    BY <1>4, <1>6, <1>7

\* The innermost function of LuaISA, before a step of its activation, and after it.
LEMMA TopBefore ==
    ASSUME NEW phase, In(phase)
    PROVE  /\ phase = "mid" => AbsTop = WaitingAt(F)
           /\ phase \in {"fetch", "exec"} => AbsTop = ISA!At(F.p, A.pc, FALSE)
           /\ phase \in {"enter", "returning"} => AbsTop = ISA!At(F.p, F.savedpc, FALSE)
  BY DEF AbsTop, In

LEMMA TopAfter ==
    ASSUME Inv, acts # <<>>, NEW f, NEW a, frames' = SetF(f), acts' = SetA(a), status' = status
    PROVE  /\ frames # <<>> /\ Len(frames') = Len(frames) /\ acts' # <<>>
           /\ \A i \in 1..Len(frames) - 1 : frames'[i] = frames[i]
           /\ a.phase = "mid" => AbsTop' = WaitingAt(f)
           /\ a.phase \in {"fetch", "exec"} => AbsTop' = ISA!At(f.p, a.pc, FALSE)
           /\ a.phase \in {"enter", "returning"} => AbsTop' = ISA!At(f.p, f.savedpc, FALSE)
  <1>1. frames # <<>> /\ status = "running"
    BY DEF Inv, Nested
  <1>2. frames \in Seq(Frame \cup {f}) /\ acts \in Seq(Activation \cup {a})
    BY DEF Inv, TypeOK
  <1>3. /\ frames' # <<>> /\ Len(frames') = Len(frames) /\ frames'[Len(frames)] = f
        /\ \A i \in 1..Len(frames) - 1 : frames'[i] = frames[i]
    BY <1>1, <1>2, LastReplaced DEF SetF
  <1>4. acts' # <<>> /\ Len(acts') = Len(acts) /\ acts'[Len(acts)] = a
    BY <1>2, LastReplaced DEF SetA
  <1>5. F' = f /\ A' = a
    BY <1>3, <1>4 DEF F, A, Last
  <1> QED
    BY <1>1, <1>3, <1>4, <1>5 DEF AbsTop, In, WaitingAt

LEMMA AbsPrologue == ASSUME Inv, Inv', Prologue PROVE Abs' = Abs
  <1>1. /\ acts # <<>> /\ frames # <<>> /\ F \in Frame /\ A \in Activation
        /\ A.phase \in {"enter", "returning"} /\ Counted(F)
    BY Acting DEF Prologue
  <1> DEFINE g == IF CallsHook THEN CallHook(F) ELSE F
             f == [g EXCEPT !.trap = EntryTrap \/ @,
                            !.hooked = IF F.savedpc = 1 THEN "call" \in Mask ELSE @]
             a == [A EXCEPT !.phase = "fetch", !.pc = F.savedpc,
                            !.trap = EntryTrap /\ ~(F.savedpc = 1 /\ F.p \in Vararg)]
  <1>2. frames' = SetF(f) /\ acts' = SetA(a) /\ status' = status
    BY DEF Prologue
  <1>3. g \in Frame /\ g.p = F.p /\ g.savedpc = F.savedpc
    BY <1>1, CallHookFacts DEF Inv, Frame
  <1> HIDE DEF g
  <1>4. f.p = F.p /\ f.savedpc = F.savedpc
    BY <1>3 DEF Frame
  <1>5. a.phase = "fetch" /\ a.pc = F.savedpc
    BY <1>1 DEF Activation
  <1> HIDE DEF f, a
  <1>6. AbsTop = ISA!At(F.p, F.savedpc, FALSE)
    BY TopBefore DEF Prologue
  <1>7. /\ Len(frames') = Len(frames) /\ AbsTop' = ISA!At(f.p, a.pc, FALSE)
        /\ \A i \in 1..Len(frames) - 1 : frames'[i] = frames[i]
    BY <1>1, <1>2, <1>5, TopAfter
  <1> QED
    BY <1>1, <1>4, <1>5, <1>6, <1>7, AbsMoves

\* Fetching an instruction is no step of LuaISA.
LEMMA AbsFetch == ASSUME Inv, Inv', Fetch \/ TraceOff \/ TraceExec PROVE Abs' = Abs
  <1>1. /\ acts # <<>> /\ frames # <<>> /\ F \in Frame /\ A \in Activation /\ In("fetch")
    BY Acting DEF Fetch, TraceOff, TraceExec
  <1>2. AbsTop = ISA!At(F.p, A.pc, FALSE)
    BY <1>1, TopBefore
  <1>3. PICK f, a : /\ frames' = SetF(f) /\ acts' = SetA(a) /\ f.p = F.p
                    /\ a.phase = "exec" /\ a.pc = A.pc
    <2>1. CASE Fetch
      <3>1. SetF(F) = frames
        BY <1>1, LastInSeq DEF SetF, F, Inv, TypeOK
      <3>2. frames' = SetF(F) /\ acts' = SetA([A EXCEPT !.phase = "exec"])
        BY <2>1, <3>1 DEF Fetch
      <3> QED
        BY <1>1, <3>2 DEF Activation
    <2>2. CASE TraceOff
      <3> DEFINE f == [F EXCEPT !.trap = FALSE]
                 a == [A EXCEPT !.phase = "exec", !.trap = FALSE]
      <3>1. frames' = SetF(f) /\ acts' = SetA(a)
        BY <2>2 DEF TraceOff
      <3>2. f.p = F.p /\ a.phase = "exec" /\ a.pc = A.pc
        BY <1>1 DEF Activation, Frame
      <3> HIDE DEF f, a
      <3> QED
        BY <3>1, <3>2
    <2>3. CASE TraceExec
      <3> DEFINE f == [F EXCEPT !.savedpc = A.pc + 1, !.hookyield = @ /\ ~CountHook]
                 a == [A EXCEPT !.phase = "exec"]
      <3>1. frames' = SetF(f) /\ acts' = SetA(a)
        BY <2>3 DEF TraceExec
      <3>2. f.p = F.p /\ a.phase = "exec" /\ a.pc = A.pc
        BY <1>1 DEF Activation, Frame
      <3> HIDE DEF f, a
      <3> QED
        BY <3>1, <3>2
    <2> QED
      BY <2>1, <2>2, <2>3
  <1>4. status' = status
    BY DEF Fetch, TraceOff, TraceExec
  <1>5. /\ Len(frames') = Len(frames) /\ AbsTop' = ISA!At(f.p, a.pc, FALSE)
        /\ \A i \in 1..Len(frames) - 1 : frames'[i] = frames[i]
    BY <1>1, <1>3, <1>4, TopAfter
  <1> QED
    BY <1>1, <1>2, <1>3, <1>5, AbsMoves

LEMMA AbsLost ==
    ASSUME Inv, Inv', frames # <<>>, NEW f, frames' = SetF(f), f.p = F.p,
           AbsTop' = AbsTop
    PROVE  Abs' = Abs
  <1>1. frames \in Seq(Frame \cup {f})
    BY DEF Inv, TypeOK
  <1>2. Len(frames') = Len(frames) /\ \A i \in 1..Len(frames) - 1 : frames'[i] = frames[i]
    BY <1>1, LastReplaced DEF SetF
  <1> QED
    BY <1>2, AbsMoves

LEMMA AbsHookYields == ASSUME Inv, Inv', HookYields PROVE Abs' = Abs
  <1>1. acts # <<>> /\ frames # <<>> /\ F \in Frame /\ In("fetch")
    BY Acting DEF HookYields
  <1>2. AbsTop = ISA!At(F.p, A.pc, FALSE)
    BY <1>1, TopBefore
  <1> DEFINE f == [F EXCEPT !.savedpc = A.pc, !.hookyield = TRUE,
                            !.repeats = IF A.pc = 1 /\ @ < MaxHookCalls - 1
                                        THEN @ + 1 ELSE @]
  <1>3. f.p = F.p /\ f.savedpc = A.pc
    BY <1>1 DEF Frame
  <1>4. frames' = SetF(f) /\ acts' = <<>> /\ status' = "hookyield"
    BY DEF HookYields, YieldedAt
  <1> HIDE DEF f
  <1>5. F' = f
    <2>1. frames \in Seq(Frame \cup {f})
      BY DEF Inv, TypeOK
    <2>2. Len(frames') = Len(frames) /\ frames'[Len(frames)] = f
      BY <1>1, <1>4, <2>1, LastReplaced DEF SetF
    <2> QED
      BY <2>2 DEF F, Last
  <1>6. AbsTop' = ISA!At(f.p, f.savedpc, FALSE)
    BY <1>4, <1>5 DEF AbsTop, In
  <1> QED
    BY <1>1, <1>2, <1>3, <1>4, <1>6, AbsLost

LEMMA AbsYield == ASSUME Inv, Inv', Yield PROVE Abs' = Abs
  <1>1. frames # <<>> /\ In("mid") /\ SetF(F) = frames
    BY Acting, LastInSeq DEF Yield, SetF, F, Inv, TypeOK
  <1>2. AbsTop = WaitingAt(F)
    BY <1>1, TopBefore
  <1>3. frames' = frames /\ acts' = <<>> /\ status' = "callyield"
    BY DEF Yield
  <1>4. F' = F
    BY <1>3 DEF F, Last
  <1>5. AbsTop' = WaitingAt(F)
    BY <1>3, <1>4 DEF AbsTop, In, WaitingAt
  <1> QED
    BY <1>1, <1>2, <1>3, <1>5, AbsLost

LEMMA AbsResume == ASSUME Inv, Inv', Resume PROVE Abs' = Abs
  <1>1. frames # <<>> /\ acts = <<>> /\ status \in {"callyield", "hookyield"}
    BY DEF Resume, Inv, Nested, TypeOK
  <1>2. SetF(F) = frames
    BY <1>1, LastInSeq DEF SetF, F, Inv, TypeOK
  <1>3. frames' = frames /\ status' = "running"
    BY DEF Resume
  <1>4. F' = F
    BY <1>3 DEF F, Last
  <1>5. AbsTop' = AbsTop
    <2>1. CASE status = "hookyield"
      <3>1. acts' = <<NewAct(Len(frames), "enter")>>
        BY <2>1 DEF Resume
      <3>2. acts' # <<>> /\ A'.phase = "enter"
        BY <3>1 DEF A, Last, NewAct
      <3> QED
        BY <1>1, <1>3, <1>4, <2>1, <3>2 DEF AbsTop, In
    <2>2. CASE status = "callyield"
      <3>1. acts' = <<>>
        BY <2>2 DEF Resume
      <3> QED
        BY <1>1, <1>3, <1>4, <2>2, <3>1 DEF AbsTop, In, WaitingAt
    <2> QED
      BY <1>1, <2>1, <2>2
  <1> QED
    BY <1>1, <1>2, <1>3, <1>5, AbsLost

\* Traps and hooks do not show in LuaISA.
LEMMA AbsHooks ==
    ASSUME Inv, Inv', frames # <<>>, frames' \in {frames, Settraps}, UNCHANGED <<acts, status>>
    PROVE  Abs' = Abs
  <1>1. /\ DOMAIN frames = 1..Len(frames) /\ Len(frames) \in Nat \ {0}
        /\ \A i \in DOMAIN frames : frames[i] \in Frame
    BY Elements DEF Inv, TypeOK
  <1>2. \A f \in Frame : [f EXCEPT !.trap = TRUE].p = f.p
                         /\ [f EXCEPT !.trap = TRUE].savedpc = f.savedpc
    BY DEF Frame
  <1>3. /\ Len(frames') = Len(frames)
        /\ \A i \in 1..Len(frames) :
              frames'[i].p = frames[i].p /\ frames'[i].savedpc = frames[i].savedpc
    <2>1. CASE frames' = frames
      BY <2>1
    <2>2. CASE frames' = Settraps
      <3>1. DOMAIN frames' = 1..Len(frames)
        BY <1>1, <2>2 DEF Settraps
      <3>2. \A i \in 1..Len(frames) : frames'[i] = [frames[i] EXCEPT !.trap = TRUE]
        BY <1>1, <2>2 DEF Settraps
      <3>3. frames' \in Seq(Frame')
        BY DEF Inv, TypeOK
      <3>4. Len(frames') = Len(frames)
        BY <1>1, <3>1, <3>3
      <3> QED
        BY <1>1, <1>2, <3>2, <3>4
    <2> QED
      BY <2>1, <2>2
  <1>4. F'.p = F.p /\ F'.savedpc = F.savedpc /\ A' = A
    <2>1. F = frames[Len(frames)] /\ F' = frames'[Len(frames)]
      BY <1>3 DEF F, Last
    <2>2. Len(frames) \in 1..Len(frames)
      BY <1>1
    <2> QED
      BY <1>3, <2>1, <2>2 DEF A, Last
  <1>5. AbsTop' = AbsTop
    BY <1>4 DEF AbsTop, In, WaitingAt
  <1> QED
    BY <1>1, <1>3, <1>5, AbsMoves

\* An activation that executes an instruction, or that waits in one, is there in LuaISA.
LEMMA TopHere ==
    ASSUME Inv, In("exec") \/ In("mid")
    PROVE  /\ AbsTop.p = F.p /\ AbsTop.pc = A.pc /\ F.p \in Proto /\ ValidPc(F.p, A.pc)
           /\ In("exec") => ~AbsTop.mid /\ AbsTop = ISA!At(F.p, A.pc, FALSE)
           /\ In("mid") => /\ AbsTop.mid /\ Here \in Callers
                           /\ AbsTop = ISA!At(F.p, A.pc, TRUE)
  <1>1. F.p \in Proto /\ Consistent(F, A)
    BY Acting
  <1>2. CASE In("exec")
    <2>1. A.phase = "exec"
      BY <1>2 DEF In
    <2>2. AbsTop = ISA!At(F.p, A.pc, FALSE) /\ ValidPc(F.p, A.pc) /\ ~In("mid")
      BY <1>1, <1>2, <2>1, TopBefore DEF Consistent, Executed, In
    <2> QED
      BY <1>1, <1>2, <2>2 DEF ISA!At
  <1>3. CASE In("mid")
    <2>1. A.phase = "mid" /\ ~In("exec")
      BY <1>3 DEF In
    <2>2. A.pc = F.savedpc - 1 /\ WaitsAt(F.p, A.pc)
      BY <1>1, <2>1 DEF Consistent, Waiting
    <2>3. AbsTop = ISA!At(F.p, A.pc, TRUE)
      BY <1>3, <2>2, TopBefore DEF WaitingAt
    <2> QED
      BY <1>1, <2>1, <2>2, <2>3 DEF ISA!At, WaitsAt, Here
  <1> QED
    BY <1>2, <1>3

LEMMA AtWaits ==
    ASSUME NEW p, NEW pc
    PROVE  /\ [ISA!At(p, pc, FALSE) EXCEPT !.mid = TRUE] = ISA!At(p, pc, TRUE)
           /\ [ISA!At(p, pc, TRUE) EXCEPT !.mid = TRUE] = ISA!At(p, pc, TRUE)
           /\ [ISA!At(p, pc, TRUE) EXCEPT !.mid = FALSE] = ISA!At(p, pc, FALSE)
  <1> DEFINE yes == TRUE
             no == FALSE
  <1> HIDE DEF yes, no
  <1>1. [ISA!At(p, pc, no) EXCEPT !.mid = yes] = ISA!At(p, pc, yes)
    BY DEF ISA!At
  <1>2. [ISA!At(p, pc, yes) EXCEPT !.mid = yes] = ISA!At(p, pc, yes)
    BY DEF ISA!At
  <1>3. [ISA!At(p, pc, yes) EXCEPT !.mid = no] = ISA!At(p, pc, no)
    BY DEF ISA!At
  <1> QED
    BY <1>1, <1>2, <1>3 DEF yes, no

LEMMA AbsLands ==
    ASSUME Inv, Inv', In("exec") \/ In("mid"), Here \notin Returns, NEW n \in Succ(F.p, A.pc),
           NEW f, NEW a, frames' = SetF(f), acts' = SetA(a), f.p = F.p,
           a.phase \in {"fetch", "exec"}, a.pc = n, status' = status
    PROVE  ISA!ISANext
  <1>1. acts # <<>>
    BY DEF In
  <1>2. /\ frames # <<>> /\ Len(frames') = Len(frames) /\ AbsTop' = ISA!At(f.p, a.pc, FALSE)
        /\ \A i \in 1..Len(frames) - 1 : frames'[i] = frames[i]
    BY <1>1, TopAfter
  <1>3. Abs # <<>> /\ ATop = AbsTop /\ Abs' = ASetTop(AbsTop')
    BY <1>2, AbsMoves
  <1>4. /\ ATop.p = F.p /\ ATop.pc = A.pc /\ (In("exec") => ~ATop.mid)
        /\ (In("mid") => Here \in Callers)
    BY <1>3, TopHere
  <1>5. Abs' = ASetTop(ISA!At(F.p, n, FALSE))
    BY <1>2, <1>3
  <1> QED
    BY <1>3, <1>4, <1>5, ISAExecute DEF Here

LEMMA AbsExecSimple == ASSUME Inv, Inv', ExecSimple PROVE ISA!ISANext
  <1>1. /\ In("exec") /\ Here \notin Returns /\ status' = status /\ frames' = frames
        /\ acts # <<>> /\ frames # <<>> /\ F.p \in Proto /\ F.p \in DOMAIN form
        /\ A \in Activation /\ ValidPc(F.p, A.pc)
    BY Acting, TopHere DEF ExecSimple
  <1>2. PICK n \in NextPc(F.p, A.pc) :
           acts' = SetA(Landing(n, IF UpdatesTrap(F.p, A.pc, n) THEN F.trap ELSE A.trap))
    BY DEF ExecSimple
  <1>3. n \in Succ(F.p, A.pc)
    BY <1>1, FormsFollowISA DEF Here, Inv, TypeOK
  <1> DEFINE a == Landing(n, IF UpdatesTrap(F.p, A.pc, n) THEN F.trap ELSE A.trap)
  <1>4. a.phase \in {"fetch", "exec"} /\ a.pc = n
    BY <1>1 DEF Landing, GoTo, Activation
  <1>5. SetF(F) = frames
    BY <1>1, LastInSeq DEF SetF, F, Inv, TypeOK
  <1>6. frames' = SetF(F) /\ acts' = SetA(a)
    BY <1>1, <1>2, <1>5
  <1> HIDE DEF a
  <1> QED
    BY <1>1, <1>3, <1>4, <1>6, AbsLands

LEMMA AbsFinish == ASSUME Inv, Inv', Finish PROVE ISA!ISANext
  <1>1. /\ In("mid") /\ status' = status /\ frames' = frames
        /\ acts # <<>> /\ frames # <<>> /\ F.p \in Proto /\ F.p \in DOMAIN form
        /\ A \in Activation /\ ValidPc(F.p, A.pc) /\ Here \in Callers
    BY Acting, TopHere DEF Finish
  <1>2. PICK n \in NextPc(F.p, A.pc) : acts' = SetA(Landing(n, F.trap))
    BY DEF Finish
  <1>3. Here \notin Returns
    BY <1>1 DEF Finish, Callers, Returns
  <1>4. n \in Succ(F.p, A.pc)
    BY <1>1, <1>3, FormsFollowISA DEF Here, Inv, TypeOK
  <1> DEFINE a == Landing(n, F.trap)
  <1>5. a.phase \in {"fetch", "exec"} /\ a.pc = n
    BY <1>1 DEF Landing, GoTo, Activation
  <1>6. SetF(F) = frames
    BY <1>1, LastInSeq DEF SetF, F, Inv, TypeOK
  <1>7. frames' = SetF(F) /\ acts' = SetA(a)
    BY <1>1, <1>2, <1>6
  <1> HIDE DEF a
  <1> QED
    BY <1>1, <1>3, <1>4, <1>5, <1>7, AbsLands

LEMMA AbsExecVarargPrep == ASSUME Inv, Inv', ExecVarargPrep PROVE ISA!ISANext
  <1>1. /\ In("exec") /\ Here = "varargprep" /\ status' = status
        /\ F \in Frame /\ A \in Activation /\ Counted(F)
    BY Acting DEF ExecVarargPrep
  <1> DEFINE g == IF F.trap THEN CallHook(F) ELSE F
             f == [g EXCEPT !.savedpc = SavedPc(A.pc)]
             a == GoTo(A.pc + 1, F.trap)
  <1>2. frames' = SetF(f) /\ acts' = SetA(a)
    BY DEF ExecVarargPrep
  <1>3. g \in Frame /\ g.p = F.p
    BY <1>1, CallHookFacts DEF Inv, Frame
  <1> HIDE DEF g
  <1>4. f.p = F.p
    BY <1>3 DEF Frame
  <1>5. a.phase = "fetch" /\ a.pc = A.pc + 1
    BY <1>1 DEF GoTo, Activation
  <1>6. A.pc + 1 \in Succ(F.p, A.pc) /\ Here \notin Returns
    BY <1>1 DEF Succ, Here, Returns
  <1> HIDE DEF f, a
  <1> QED
    BY <1>1, <1>2, <1>4, <1>5, <1>6, AbsLands

LEMMA AbsExecCalls == ASSUME Inv, Inv', ExecCalls PROVE ISA!ISANext
  <1>1. /\ In("exec") /\ Here \in Callers /\ status' = status /\ acts # <<>>
        /\ F \in Frame /\ A \in Activation
    BY Acting DEF ExecCalls
  <1> DEFINE f == [F EXCEPT !.savedpc = SavedPc(A.pc)]
             a == [A EXCEPT !.phase = "mid"]
  <1>2. frames' = SetF(f) /\ acts' = SetA(a)
    BY DEF ExecCalls
  <1>3. f.p = F.p /\ f.savedpc = A.pc + 1 /\ a.phase = "mid" /\ A.pc \in Nat
    BY <1>1 DEF Frame, Activation, SavedPc
  <1> HIDE DEF f, a
  <1>4. /\ frames # <<>> /\ Len(frames') = Len(frames) /\ AbsTop' = WaitingAt(f)
        /\ \A i \in 1..Len(frames) - 1 : frames'[i] = frames[i]
    BY <1>1, <1>2, <1>3, TopAfter
  <1>5. Abs # <<>> /\ ATop = AbsTop /\ Abs' = ASetTop(AbsTop')
    BY <1>4, AbsMoves
  <1>6. /\ AbsTop = ISA!At(F.p, A.pc, FALSE) /\ AbsTop.p = F.p /\ AbsTop.pc = A.pc
        /\ ~AbsTop.mid
    BY <1>1, TopHere
  <1>7. WaitingAt(f) = ISA!At(F.p, A.pc, TRUE)
    <2>1. f.savedpc - 1 = A.pc
      BY <1>3
    <2> QED
      BY <1>3, <2>1 DEF WaitingAt
  <1>8. WaitingAt(f) = [ATop EXCEPT !.mid = TRUE]
    <2>1. ATop = ISA!At(F.p, A.pc, FALSE)
      BY <1>5, <1>6
    <2> QED
      BY <1>7, <2>1, AtWaits
  <1>9. Op(ATop.p, ATop.pc) \in Callers
    BY <1>1, <1>5, <1>6 DEF Here
  <1>10. Abs' = ASetTop([ATop EXCEPT !.mid = TRUE])
    BY <1>4, <1>5, <1>8
  <1> QED
    BY <1>5, <1>6, <1>9, <1>10, ISABegin

LEMMA AbsExecTailCall ==
    ASSUME Inv, Inv', NEW q \in DOMAIN form, ExecTailCall(q)
    PROVE  ISA!ISANext
  <1>1. /\ In("exec") /\ Here = "tailcall" /\ status' = status /\ acts # <<>>
        /\ F \in Frame /\ A \in Activation /\ q \in Proto
    BY Acting DEF ExecTailCall, Inv, TypeOK
  <1> DEFINE f == [F EXCEPT !.p = q, !.savedpc = 1, !.hookcalls = 0,
                           !.repeats = 0]
             a == [A EXCEPT !.phase = "enter"]
  <1>2. frames' = SetF(f) /\ acts' = SetA(a)
    BY DEF ExecTailCall
  <1>3. f.p = q /\ f.savedpc = 1 /\ a.phase = "enter"
    BY <1>1 DEF Frame, Activation
  <1> HIDE DEF f, a
  <1>4. /\ frames # <<>> /\ Len(frames') = Len(frames)
        /\ AbsTop' = ISA!At(f.p, f.savedpc, FALSE)
        /\ \A i \in 1..Len(frames) - 1 : frames'[i] = frames[i]
    BY <1>1, <1>2, <1>3, TopAfter
  <1>5. Abs # <<>> /\ ATop = AbsTop /\ Abs' = ASetTop(AbsTop')
    BY <1>4, AbsMoves
  <1>6. ~ATop.mid /\ Op(ATop.p, ATop.pc) = "tailcall"
    BY <1>1, <1>5, TopHere DEF Here
  <1>7. Abs' = ASetTop(ISA!At(q, 1, FALSE))
    BY <1>3, <1>4, <1>5
  <1> QED
    BY <1>1, <1>5, <1>6, <1>7, ISATailCall

LEMMA AbsPush ==
    ASSUME Inv, Inv', (In("exec") /\ Here = "call") \/ In("mid"), NEW q \in Proto,
           NEW g \in Frame, NEW x \in Frame, frames' = Append(SetF(g), x),
           g.p = F.p, g.savedpc - 1 = A.pc, x.p = q, x.savedpc = 1,
           acts' # <<>>, A'.phase = "enter", status' = status
    PROVE  ISA!ISANext
  <1>1. AbsShape /\ AbsShape'
    BY AbsFacts, AbsFactsAfter
  <1>2. frames # <<>> /\ Len(frames) \in Nat \ {0}
    BY Acting, Elements DEF Inv, TypeOK
  <1>3. /\ frames' # <<>> /\ Len(frames') = Len(frames) + 1
        /\ frames'[Len(frames) + 1] = x /\ frames'[Len(frames)] = g
        /\ \A i \in 1..Len(frames) - 1 : frames'[i] = frames[i]
    BY <1>2, Pushed DEF Inv
  <1>4. Abs \in Seq(AbsFrame) /\ Len(Abs) = Len(frames) /\ Abs # <<>> /\ ATop = AbsTop
    BY <1>1, <1>2 DEF AbsShape, ATop
  <1>5. Abs' \in Seq(AbsFrame) /\ Len(Abs') = Len(frames) + 1
    BY <1>1, <1>3 DEF AbsShape, AbsFrame
  <1>6. Abs'[Len(frames) + 1] = ISA!At(q, 1, FALSE)
    <2>1. F' = x
      BY <1>3 DEF F, Last
    <2>2. AbsTop' = ISA!At(q, 1, FALSE)
      BY <2>1 DEF AbsTop, In
    <2> QED
      BY <1>1, <1>3, <2>2 DEF AbsShape
  <1>7. Abs'[Len(frames)] = ISA!At(F.p, A.pc, TRUE)
    <2>1. Len(frames) \in 1..Len(frames') - 1
      BY <1>2, <1>3
    <2>2. Abs'[Len(frames)] = WaitingAt(g)
      BY <1>1, <1>3, <2>1 DEF AbsShape, WaitingAt
    <2> QED
      BY <2>2 DEF WaitingAt
  <1>8. \A i \in 1..Len(frames) - 1 : Abs'[i] = Abs[i]
    <2> SUFFICES ASSUME NEW i \in 1..Len(frames) - 1
                 PROVE  Abs'[i] = Abs[i]
      OBVIOUS
    <2>1. i \in 1..Len(frames') - 1
      BY <1>2, <1>3
    <2>2. Abs[i] = WaitingAt(frames[i]) /\ Abs'[i] = WaitingAt(frames'[i])
      BY <1>1, <2>1 DEF AbsShape, WaitingAt
    <2> QED
      BY <1>3, <2>2
  <1>9. /\ ATop.p = F.p /\ ATop.pc = A.pc /\ F.p \in Proto /\ A.pc \in Int
        /\ [ATop EXCEPT !.mid = TRUE] = ISA!At(F.p, A.pc, TRUE)
        /\ Here \in Callers /\ (ATop.mid \/ Here = "call")
    <2>1. F.p \in Proto /\ A.pc \in Int
      <3>1. F.p \in Proto /\ ValidPc(F.p, A.pc)
        BY TopHere
      <3> QED
        BY <3>1, CodeFacts
    <2>2. ATop \in {ISA!At(F.p, A.pc, FALSE), ISA!At(F.p, A.pc, TRUE)}
      BY <1>4, TopHere
    <2>3. [ATop EXCEPT !.mid = TRUE] = ISA!At(F.p, A.pc, TRUE)
      BY <2>2, AtWaits
    <2> QED
      BY <1>4, <2>1, <2>3, TopHere DEF Callers
  <1> DEFINE y == ISA!At(F.p, A.pc, TRUE)
             z == ISA!At(q, 1, FALSE)
             s == ASetTop(y)
             t == Append(s, z)
  <1>10. y \in AbsFrame /\ z \in AbsFrame
    <2>1. y \in AbsFrame
      BY <1>9, AtFacts
    <2>2. z \in AbsFrame
      BY DEF ISA!At, AbsFrame
    <2> QED
      BY <2>1, <2>2
  <1>11. /\ s \in Seq(AbsFrame) /\ Len(s) = Len(frames) /\ s[Len(frames)] = y
         /\ \A i \in 1..Len(frames) - 1 : s[i] = Abs[i]
    BY <1>2, <1>10, ASetTopFacts
  <1> HIDE DEF s, y, z
  <1>12. t \in Seq(AbsFrame) /\ Len(t) = Len(frames) + 1 /\ t[Len(frames) + 1] = z
    BY <1>10, <1>11
  <1>13. \A i \in 1..Len(frames) : t[i] = s[i]
    BY <1>11
  <1> HIDE DEF t
  <1>14. \A i \in 1..Len(frames) + 1 : Abs'[i] = t[i]
    <2> SUFFICES ASSUME NEW i \in 1..Len(frames) + 1
                 PROVE  Abs'[i] = t[i]
      OBVIOUS
    <2>1. i \in 1..Len(frames) - 1 \/ i = Len(frames) \/ i = Len(frames) + 1
      BY <1>2, LastTwo
    <2>2. CASE i = Len(frames) + 1
      BY <1>6, <1>12, <2>2 DEF z
    <2>3. CASE i = Len(frames)
      <3>1. i \in 1..Len(frames)
        BY <1>2, <2>3
      <3> QED
        BY <1>7, <1>11, <1>13, <2>3, <3>1 DEF y
    <2>4. CASE i \in 1..Len(frames) - 1
      <3>1. i \in 1..Len(frames)
        BY <1>2, <2>4
      <3> QED
        BY <1>8, <1>11, <1>13, <2>4, <3>1
    <2> QED
      BY <2>1, <2>2, <2>3, <2>4
  <1>15. Abs' = t
    BY <1>5, <1>12, <1>14, SameElements
  <1>16. Abs' = Append(ASetTop([ATop EXCEPT !.mid = TRUE]), ISA!At(q, 1, FALSE))
    BY <1>9, <1>15 DEF t, s, y, z
  <1> QED
    BY <1>4, <1>9, <1>16, ISAInvoke DEF Here

LEMMA AbsExecCall == ASSUME Inv, Inv', NEW q \in DOMAIN form, ExecCall(q) PROVE ISA!ISANext
  <1>1. /\ In("exec") /\ Here = "call" /\ status' = status /\ acts # <<>>
        /\ F \in Frame /\ A \in Activation /\ q \in Proto
    BY Acting DEF ExecCall, Inv, TypeOK
  <1>2. PICK stale \in BOOLEAN :
           frames' = Append(SetF([F EXCEPT !.savedpc = SavedPc(A.pc)]), NewFrame(q, FALSE, stale))
    BY DEF ExecCall
  <1> DEFINE a == [A EXCEPT !.ci = A.ci + 1, !.phase = "enter"]
             g == [F EXCEPT !.savedpc = SavedPc(A.pc)]
             x == NewFrame(q, FALSE, stale)
  <1>3. SavedPc(A.pc) \in Nat /\ A.pc \in Nat
    BY <1>1 DEF SavedPc, Activation
  <1>4. g \in Frame
    BY <1>1, <1>3, ChangedFrame
  <1>5. g.p = F.p /\ g.savedpc - 1 = A.pc
    BY <1>1, <1>3 DEF Frame, SavedPc
  <1>6. x \in Frame /\ x.p = q /\ x.savedpc = 1
    BY NewFrameFacts
  <1>7. acts' = SetA(a) /\ frames' = Append(SetF(g), x)
    BY <1>2 DEF ExecCall
  <1>8. a.phase = "enter"
    BY <1>1 DEF Activation
  <1> HIDE DEF a, g, x
  <1>9. acts' # <<>> /\ A' = a
    <2>1. acts \in Seq(Activation \cup {a})
      BY DEF Inv, TypeOK
    <2>2. acts' # <<>> /\ Len(acts') = Len(acts) /\ acts'[Len(acts)] = a
      BY <1>1, <1>7, <2>1, LastReplaced DEF SetA
    <2> QED
      BY <2>2 DEF A, Last
  <1> QED
    BY <1>1, <1>4, <1>5, <1>6, <1>7, <1>8, <1>9, AbsPush

LEMMA AbsInvoke == ASSUME Inv, Inv', NEW q \in DOMAIN form, Invoke(q) PROVE ISA!ISANext
  <1>1. /\ In("mid") /\ status' = status /\ acts # <<>> /\ frames # <<>> /\ Len(frames) \in Nat
        /\ F \in Frame /\ Consistent(F, A) /\ A.phase = "mid" /\ q \in Proto
    BY Acting DEF Invoke, Inv, TypeOK
  <1>2. PICK stale \in BOOLEAN : frames' = Append(frames, NewFrame(q, TRUE, stale))
    BY DEF Invoke
  <1> DEFINE a == NewAct(Len(frames) + 1, "enter")
             x == NewFrame(q, TRUE, stale)
  <1>3. F.savedpc - 1 = A.pc
    BY <1>1 DEF Consistent
  <1>4. x \in Frame /\ x.p = q /\ x.savedpc = 1
    BY NewFrameFacts
  <1>5. SetF(F) = frames
    BY <1>1, LastInSeq DEF SetF, F, Inv, TypeOK
  <1>6. acts' = Append(acts, a) /\ frames' = Append(SetF(F), x)
    BY <1>2, <1>5 DEF Invoke
  <1>7. a.phase = "enter"
    BY <1>1, NewActFacts
  <1> HIDE DEF a, x
  <1>8. acts' # <<>> /\ A' = a
    <2>1. acts \in Seq(Activation \cup {a})
      BY DEF Inv, TypeOK
    <2>2. Len(acts') = Len(acts) + 1 /\ acts'[Len(acts) + 1] = a /\ acts' # <<>>
      BY <1>6, <2>1
    <2> QED
      BY <2>2 DEF A, Last
  <1> QED
    BY <1>1, <1>3, <1>4, <1>6, <1>7, <1>8, AbsPush

\* The activations that are left after a return or an error wait, or there are none.
LEMMA LeftActs ==
    ASSUME Inv, acts # <<>>, NEW l \in 0..Len(acts) - 1, acts' = SubSeq(acts, 1, l)
    PROVE  acts' = <<>> \/ (acts' # <<>> /\ A'.phase = "mid")
  <1>1. acts \in Seq(Activation) /\ Len(acts) \in Nat \ {0} /\ l \in 0..Len(acts)
    BY Elements DEF Inv, TypeOK
  <1>2. Len(acts') = l /\ (acts' = <<>> <=> l = 0) /\ \A k \in 1..l : acts'[k] = acts[k]
    BY <1>1, Prefix
  <1>3. CASE l = 0
    BY <1>2, <1>3
  <1>4. CASE l # 0
    <2>1. l \in 1..l /\ l \in 1..Len(acts) - 1
      BY <1>1, <1>4
    <2>2. acts[l].phase = "mid"
      BY <2>1 DEF Inv, Nested
    <2>3. A' = acts[l]
      BY <1>2, <2>1 DEF A, Last
    <2> QED
      BY <1>2, <1>4, <2>2, <2>3
  <1> QED
    BY <1>3, <1>4

\* What is left of the stack of LuaISA, when its last function waits.
LEMMA AbsDrop ==
    ASSUME Inv, Inv', NEW j \in 0..Len(frames) - 1, frames # <<>>,
           frames' = SubSeq(frames, 1, j), status' = "running",
           acts' = <<>> \/ (acts' # <<>> /\ A'.phase = "mid")
    PROVE  /\ Abs' = SubSeq(Abs, 1, j) /\ Len(Abs) = Len(frames)
           /\ j = 0 \/ Abs[j].mid
  <1>1. AbsShape /\ AbsShape'
    BY AbsFacts, AbsFactsAfter
  <1>2. /\ Abs \in Seq(AbsFrame) /\ Len(Abs) = Len(frames) /\ Len(frames) \in Nat
        /\ \A i \in 1..Len(frames) - 1 : Abs[i] = WaitingAt(frames[i])
    BY <1>1 DEF AbsShape
  <1>3. j \in 0..Len(frames) /\ \A i \in 1..j : i \in 1..Len(frames) - 1
    BY <1>2
  <1>4. /\ Len(frames') = j /\ (frames' = <<>> <=> j = 0)
        /\ \A i \in 1..j : frames'[i] = frames[i]
    <2>1. frames \in Seq(Frame)
      BY DEF Inv, TypeOK
    <2> QED
      BY <1>3, <2>1, Prefix
  <1>5. Abs' \in Seq(AbsFrame) /\ Len(Abs') = j
    BY <1>1, <1>4 DEF AbsShape, AbsFrame
  <1>6. \A i \in 1..j - 1 : Abs'[i] = WaitingAt(frames'[i])
    BY <1>1, <1>4 DEF AbsShape, WaitingAt
  <1>7. j # 0 => Abs'[j] = WaitingAt(frames'[j])
    <2> SUFFICES ASSUME j # 0
                 PROVE  Abs'[j] = WaitingAt(frames'[j])
      OBVIOUS
    <2>1. F' = frames'[j]
      BY <1>4 DEF F, Last
    <2>2. AbsTop' = WaitingAt(F')
      BY DEF AbsTop, In, WaitingAt
    <2>3. Abs'[Len(frames')] = AbsTop'
      BY <1>1, <1>4 DEF AbsShape
    <2> QED
      BY <1>4, <2>1, <2>2, <2>3
  <1>8. /\ SubSeq(Abs, 1, j) \in Seq(AbsFrame) /\ Len(SubSeq(Abs, 1, j)) = j
        /\ \A i \in 1..j : SubSeq(Abs, 1, j)[i] = Abs[i]
    <2>1. j \in 0..Len(Abs)
      BY <1>2, <1>3
    <2> QED
      BY <1>2, <2>1, Prefix
  <1>9. \A i \in 1..j : Abs'[i] = SubSeq(Abs, 1, j)[i]
    <2> SUFFICES ASSUME NEW i \in 1..j
                 PROVE  Abs'[i] = SubSeq(Abs, 1, j)[i]
      OBVIOUS
    <2>1. i = j \/ i \in 1..j - 1
      OBVIOUS
    <2>2. Abs'[i] = WaitingAt(frames'[i])
      BY <1>6, <1>7, <2>1
    <2>3. Abs[i] = WaitingAt(frames[i]) /\ frames'[i] = frames[i]
      BY <1>2, <1>3, <1>4
    <2> QED
      BY <1>8, <2>2, <2>3
  <1>10. Abs' = SubSeq(Abs, 1, j)
    BY <1>5, <1>8, <1>9, SameElements
  <1>11. j = 0 \/ Abs[j].mid
    <2> SUFFICES ASSUME j # 0
                 PROVE  Abs[j].mid
      OBVIOUS
    <2>1. j \in 1..Len(frames) - 1
      OBVIOUS
    <2>2. Abs[j] = WaitingAt(frames[j])
      BY <1>2, <2>1
    <2> QED
      BY <2>2 DEF WaitingAt, ISA!At
  <1> QED
    BY <1>2, <1>10, <1>11

LEMMA AbsUnwind ==
    ASSUME Inv, Inv', acts # <<>>, NEW j \in 0..Len(frames) - 1, Unwind(j), status' = status
    PROVE  ISA!ISANext
  <1>1. frames # <<>> /\ status = "running" /\ frames[1].fresh
    BY DEF Inv, Nested
  <1>2. frames[j + 1].fresh
    BY <1>1 DEF Unwind
  <1> DEFINE left == Len(acts) - FreshAbove(j)
  <1>3. left \in Int /\ left < Len(acts) /\ Len(acts) \in Nat
    BY <1>2, LeftAfter, Elements DEF Inv
  <1>4. frames' = SubSeq(frames, 1, j) /\ acts' = IF left > 0 THEN SubSeq(acts, 1, left) ELSE <<>>
    BY DEF Unwind
  <1> HIDE DEF left
  <1>5. acts' = <<>> \/ (acts' # <<>> /\ A'.phase = "mid")
    <2>1. CASE left > 0
      <3>1. left \in 0..Len(acts) - 1 /\ acts' = SubSeq(acts, 1, left)
        BY <1>3, <1>4, <2>1
      <3> QED
        BY <3>1, LeftActs
    <2>2. CASE ~(left > 0)
      BY <1>4, <2>2
    <2> QED
      BY <2>1, <2>2
  <1>6. Abs' = SubSeq(Abs, 1, j) /\ Len(Abs) = Len(frames) /\ (j = 0 \/ Abs[j].mid)
    BY <1>1, <1>4, <1>5, AbsDrop
  <1> QED
    BY <1>6, ISAThrow

LEMMA AbsFail == ASSUME Inv, Inv', Fail \/ Interrupted PROVE ISA!ISANext
  <1>1. acts # <<>>
    BY DEF Fail, Interrupted, HookPoint, In
  <1>2. PICK j \in 0..Len(frames) - 1 : Unwind(j)
    BY DEF Fail, Interrupted
  <1>3. status' = status
    BY DEF Fail, Interrupted
  <1> QED
    BY <1>1, <1>2, <1>3, AbsUnwind

\* luaV_finishOp completes an instruction, or has it executed again.
LEMMA AbsUnroll == ASSUME Inv, Inv', Unroll PROVE ISA!ISANext
  <1>1. acts = <<>> /\ frames # <<>> /\ status = "running" /\ status' = status
    BY DEF Unroll
  <1>2. F \in Frame /\ F.p \in Proto /\ Waiting(F)
    BY <1>1, Innermost DEF Inv, PcsSaved
  <1>3. PICK n \in FinishedAt(F.p, F.savedpc) : frames' = SetF([F EXCEPT !.savedpc = n])
    BY DEF Unroll
  <1> DEFINE f == [F EXCEPT !.savedpc = n]
             pc == F.savedpc - 1
  <1>4. f.p = F.p /\ f.savedpc = n
    BY <1>2 DEF Frame
  <1>5. frames' = SetF(f) /\ acts' # <<>> /\ A'.phase = "enter"
    <2>1. acts' = <<NewAct(Len(frames), "enter")>>
      BY DEF Unroll
    <2>2. acts' # <<>> /\ A'.phase = "enter"
      BY <2>1 DEF A, Last, NewAct
    <2> QED
      BY <1>3, <2>2
  <1> HIDE DEF f
  <1>6. /\ Len(frames') = Len(frames) /\ frames'[Len(frames)] = f
        /\ \A i \in 1..Len(frames) - 1 : frames'[i] = frames[i]
    <2>1. frames \in Seq(Frame \cup {f})
      BY DEF Inv, TypeOK
    <2> QED
      BY <1>1, <1>5, <2>1, LastReplaced DEF SetF
  <1>7. F' = f
    BY <1>6 DEF F, Last
  <1>8. AbsTop' = ISA!At(F.p, n, FALSE)
    BY <1>4, <1>5, <1>7 DEF AbsTop, In
  <1>9. AbsTop = ISA!At(F.p, pc, TRUE)
    BY <1>1 DEF AbsTop, WaitingAt
  <1>10. Abs # <<>> /\ ATop = AbsTop /\ Abs' = ASetTop(AbsTop')
    BY <1>1, <1>6, AbsMoves
  <1>11. ValidPc(F.p, pc) /\ Op(F.p, pc) \in Callers /\ pc \in Nat /\ F.savedpc = pc + 1
    <2>1. ValidPc(F.p, pc) /\ Op(F.p, pc) \in Callers
      BY <1>2 DEF Waiting, WaitsAt
    <2> QED
      BY <1>2, <2>1, CodeFacts DEF Frame
  <1>12. ATop.p = F.p /\ ATop.pc = pc /\ ATop.mid
    BY <1>9, <1>10 DEF ISA!At
  <1> HIDE DEF pc
  <1>13. CASE Op(F.p, pc) \in Closers
    <2>1. n = pc
      BY <1>11, <1>13 DEF FinishedAt, Closers, pc
    <2>2. [ATop EXCEPT !.mid = FALSE] = ISA!At(F.p, n, FALSE)
      BY <1>9, <1>10, <2>1, AtWaits
    <2>3. Abs' = ASetTop([ATop EXCEPT !.mid = FALSE])
      BY <1>8, <1>10, <2>2
    <2> QED
      BY <1>10, <1>12, <1>13, <2>3, ISARepeat
  <1>14. CASE Op(F.p, pc) \notin Closers
    <2>1. n \in Succ(F.p, pc)
      BY <1>11, <1>14 DEF FinishedAt, Succ, Callers, Closers, pc
    <2>2. Op(F.p, pc) \notin Returns
      BY <1>11, <1>14 DEF Callers, Closers, Returns
    <2>3. Abs' = ASetTop(ISA!At(ATop.p, n, FALSE))
      BY <1>8, <1>10, <1>12
    <2> QED
      BY <1>10, <1>11, <1>12, <2>1, <2>2, <2>3, ISAExecute
  <1> QED
    BY <1>13, <1>14

LEMMA AbsExecReturn == ASSUME Inv, Inv', ExecReturn PROVE ISA!ISANext
  <1> DEFINE n == Len(frames)
             rest == SubSeq(Abs, 1, n - 1)
  <1>1. /\ acts # <<>> /\ frames # <<>> /\ A.ci = n /\ status = "running"
        /\ F \in Frame /\ A \in Activation /\ n \in Nat \ {0}
    <2>1. /\ acts # <<>> /\ frames # <<>> /\ A.ci = n /\ status = "running"
          /\ F \in Frame /\ A \in Activation
      BY Acting DEF ExecReturn
    <2> QED
      BY <2>1 DEF Inv, TypeOK
  <1>2. status' = "running" /\ frames' = SubSeq(frames, 1, n - 1)
    BY <1>1 DEF ExecReturn
  <1>3. AbsShape /\ AbsShape'
    BY AbsFacts, AbsFactsAfter
  <1>4. Abs \in Seq(AbsFrame) /\ Len(Abs) = n /\ Abs # <<>> /\ ATop = AbsTop
    BY <1>1, <1>3 DEF AbsShape, ATop
  <1>5. \/ Op(ATop.p, ATop.pc) \in Returns
        \/ Op(ATop.p, ATop.pc) = "tailcall" /\ ATop.mid
    <2>1. In("exec") \/ In("mid")
      BY DEF ExecReturn
    <2>2. ATop.p = F.p /\ ATop.pc = A.pc /\ (In("mid") => ATop.mid)
      BY <1>4, <2>1, TopHere
    <2> QED
      BY <2>2 DEF ExecReturn, Here, Returns
  <1>6. n - 1 \in 0..n - 1 /\ n - 1 \in 0..n
    BY <1>1
  <1>7. CASE F.fresh
    <2>1. acts' = SubSeq(acts, 1, Len(acts) - 1)
      BY <1>7 DEF ExecReturn
    <2>2. Len(acts) - 1 \in 0..Len(acts) - 1
      BY <1>1 DEF Inv, TypeOK
    <2>3. acts' = <<>> \/ (acts' # <<>> /\ A'.phase = "mid")
      BY <1>1, <2>1, <2>2, LeftActs
    <2>4. Abs' = rest
      BY <1>1, <1>2, <1>6, <2>3, AbsDrop
    <2> QED
      BY <1>4, <1>5, <2>4, ISAReturn
  <1>8. CASE ~F.fresh
    <2>1. PICK trap \in ReturnTraps :
             acts' = SetA([A EXCEPT !.ci = A.ci - 1, !.trap = trap, !.phase = AfterReturn(F.p)])
      BY <1>8 DEF ExecReturn
    <2> DEFINE a == [A EXCEPT !.ci = A.ci - 1, !.trap = trap, !.phase = AfterReturn(F.p)]
               f == frames[n - 1]
               x == ISA!At(f.p, f.savedpc, FALSE)
    <2>2. a.phase \in {"returning", "enter"}
      BY <1>1 DEF AfterReturn, Activation
    <2>3. acts' = SetA(a)
      BY <2>1
    <2> HIDE DEF a
    <2>4. acts' # <<>> /\ A' = a
      <3>1. acts \in Seq(Activation \cup {a})
        BY DEF Inv, TypeOK
      <3>2. acts' # <<>> /\ Len(acts') = Len(acts) /\ acts'[Len(acts)] = a
        BY <1>1, <2>3, <3>1, LastReplaced DEF SetA
      <3> QED
        BY <3>2 DEF A, Last
    <2>5. n > 1 /\ F = frames[n] /\ DOMAIN frames = 1..n /\ frames \in Seq(Frame)
      <3>1. F = frames[n] /\ DOMAIN frames = 1..n /\ frames \in Seq(Frame)
        BY <1>1, Innermost DEF Inv, TypeOK
      <3>2. n # 1
        BY <1>1, <1>8, <3>1 DEF Inv, Nested
      <3> QED
        BY <1>1, <3>1, <3>2
    <2>6. /\ Waiting(f) /\ Op(f.p, f.savedpc - 1) = "call"
      <3>1. n - 1 \in 1..n - 1 /\ n - 1 + 1 = n
        BY <1>1, <2>5
      <3> QED
        BY <1>8, <2>5, <3>1 DEF Inv, PcsSaved
    <2>7. f \in Frame /\ f.p \in Proto /\ f.savedpc \in Int
      <3>1. n - 1 \in DOMAIN frames
        BY <1>1, <2>5
      <3>2. f \in Frame
        BY <3>1, Elements DEF Inv
      <3> QED
        BY <3>2 DEF Frame, Inv, TypeOK
    <2> HIDE DEF n
    <2>8. /\ Len(frames') = n - 1 /\ frames' # <<>>
          /\ \A i \in 1..n - 1 : frames'[i] = frames[i]
      <3>1. n - 1 \in 0..Len(frames) /\ n - 1 # 0
        BY <1>1, <2>5 DEF n
      <3> DEFINE prefix == SubSeq(frames, 1, n - 1)
      <3>2. Len(prefix) = n - 1 /\ (\A i \in 1..n - 1 : prefix[i] = frames[i])
        BY <2>5, <3>1, Prefix
      <3>3. prefix # <<>>
        BY <2>5, <3>1, Prefix
      <3>4. frames' = prefix
        BY <1>2
      <3> QED
        BY <3>2, <3>3, <3>4
    <2>9. n - 1 \in 1..n - 1
      BY <1>1, <2>5
    <2>10. F' = f
      BY <2>8, <2>9 DEF F, Last
    <2>11. AbsTop' = x
      BY <2>2, <2>4, <2>10 DEF AbsTop, In
    <2>12. Abs' \in Seq(AbsFrame) /\ Len(Abs') = n - 1 /\ Abs'[n - 1] = x
      BY <1>3, <2>8, <2>11 DEF AbsShape, AbsFrame
    <2>13. \A i \in 1..n - 1 : Abs[i] = WaitingAt(frames[i])
      BY <1>3 DEF AbsShape, n
    <2>14. \A i \in 1..n - 2 : Abs'[i] = Abs[i]
      <3> SUFFICES ASSUME NEW i \in 1..n - 2
                   PROVE  Abs'[i] = Abs[i]
        OBVIOUS
      <3>1. i \in 1..Len(frames') - 1 /\ i \in 1..n - 1
        BY <1>1, <2>8
      <3>2. Abs'[i] = WaitingAt(frames'[i])
        BY <1>3, <3>1 DEF AbsShape, WaitingAt
      <3> QED
        BY <2>8, <2>13, <3>1, <3>2
    <2>15. /\ rest \in Seq(AbsFrame) /\ Len(rest) = n - 1 /\ rest # <<>>
           /\ \A i \in 1..n - 1 : rest[i] = Abs[i]
      <3>1. n - 1 \in 0..Len(Abs) /\ n - 1 # 0
        BY <1>1, <1>4, <2>5
      <3> QED
        BY <1>4, <3>1, Prefix
    <2>16. rest[n - 1] = WaitingAt(f)
      BY <2>9, <2>13, <2>15
    <2> HIDE DEF rest, f
    <2>17. /\ rest[n - 1].p = f.p /\ rest[n - 1].pc = f.savedpc - 1
      BY <2>16 DEF WaitingAt, ISA!At
    <2>18. x \in AbsFrame
      BY <2>7 DEF ISA!At, AbsFrame
    <2> HIDE DEF x
    <2> DEFINE t == [rest EXCEPT ![Len(rest)] = x]
    <2>19. /\ t \in Seq(AbsFrame) /\ Len(t) = n - 1 /\ t[n - 1] = x
           /\ \A i \in 1..n - 2 : t[i] = rest[i]
      <3>1. /\ t \in Seq(AbsFrame) /\ Len(t) = Len(rest) /\ t[Len(rest)] = x
            /\ \A i \in 1..Len(rest) - 1 : t[i] = rest[i]
        BY <2>15, <2>18, LastReplaced
      <3>2. Len(rest) - 1 = n - 2
        BY <1>1, <2>15
      <3> QED
        BY <2>15, <3>1, <3>2
    <2> HIDE DEF t
    <2>20. \A i \in 1..n - 1 : Abs'[i] = t[i]
      <3> SUFFICES ASSUME NEW i \in 1..n - 1
                   PROVE  Abs'[i] = t[i]
        OBVIOUS
      <3>1. i = n - 1 \/ i \in 1..n - 2
        BY <1>1
      <3>2. CASE i = n - 1
        BY <2>12, <2>19, <3>2
      <3>3. CASE i \in 1..n - 2
        BY <2>14, <2>15, <2>19, <3>3
      <3> QED
        BY <3>1, <3>2, <3>3
    <2>21. Abs' = t
      BY <2>12, <2>19, <2>20, SameElements
    <2>22. x = ISA!At(rest[Len(rest)].p, rest[Len(rest)].pc + 1, FALSE)
      <3>1. f.savedpc - 1 + 1 = f.savedpc
        BY <2>7
      <3>2. rest[Len(rest)].p = f.p /\ rest[Len(rest)].pc + 1 = f.savedpc
        BY <2>15, <2>17, <3>1
      <3> QED
        BY <3>2 DEF x
    <2>23. Op(rest[Len(rest)].p, rest[Len(rest)].pc) = "call" /\ Len(rest) > 0
      BY <2>5, <2>6, <2>15, <2>17, <1>1
    <2>24. Abs' = [rest EXCEPT ![Len(rest)] =
                      ISA!At(rest[Len(rest)].p, rest[Len(rest)].pc + 1, FALSE)]
      BY <2>21, <2>22 DEF t
    <2>25. rest = SubSeq(Abs, 1, Len(Abs) - 1)
      BY <1>4 DEF rest
    <2> QED
      BY <1>4, <1>5, <2>23, <2>24, <2>25, ISAReturn
  <1> QED
    BY <1>7, <1>8

LEMMA AbsInit == ASSUME Init PROVE ISA!ISAInit
  <1>1. PICK e \in Entries : frames = <<NewFrame(e, TRUE, FALSE)>>
    BY DEF Init
  <1>2. acts = <<NewAct(1, "enter")>> /\ status = "running"
    BY DEF Init
  <1>3. Len(frames) = 1 /\ frames[1].p = e /\ frames[1].savedpc = 1 /\ DOMAIN frames = {1}
    BY <1>1 DEF NewFrame
  <1>4. A.phase = "enter" /\ acts # <<>>
    BY <1>2 DEF A, Last, NewAct
  <1>5. AbstractFrame(1) = ISA!At(e, 1, FALSE)
    BY <1>3, <1>4 DEF AbstractFrame, In, ISA!At
  <1> DEFINE x == ISA!At(e, 1, FALSE)
  <1>6. Abs = <<x>>
    <2>1. AbstractFrame(1) = x
      BY <1>5
    <2> HIDE DEF x
    <2>2. Abs = [i \in {1} |-> AbstractFrame(i)]
      BY <1>3 DEF Abs
    <2>3. Abs = [i \in {1} |-> x]
      BY <2>1, <2>2
    <2>4. [i \in {1} |-> x] = <<x>>
      OBVIOUS
    <2> QED
      BY <2>3, <2>4
  <1> QED
    BY <1>6 DEF ISA!ISAInit, Abs

LEMMA AbsNext == ASSUME Inv, Inv', [Next]_vars PROVE [ISA!ISANext]_Abs
  <1>1. CASE UNCHANGED vars
    BY <1>1 DEF vars, Abs, AbstractFrame, In, F, A, Last
  <1>2. CASE Run
    <2>1. ASSUME NEW q \in DOMAIN form, ExecCall(q) \/ ExecTailCall(q) \/ Invoke(q)
          PROVE  ISA!ISANext
      BY <2>1, AbsExecCall, AbsExecTailCall, AbsInvoke
    <2>2. ASSUME NEW h \in {"none", "user"}, SetHook(h)
          PROVE  Abs' = Abs
      <3>1. frames # <<>> /\ frames' \in {frames, Settraps} /\ UNCHANGED <<acts, status>>
        BY <2>2, Acting DEF SetHook
      <3> QED
        BY <3>1, AbsHooks
    <2> QED
      BY <1>2, <2>1, <2>2, AbsPrologue, AbsFetch, AbsHookYields, AbsExecSimple, AbsExecCalls,
         AbsExecVarargPrep, AbsExecReturn, AbsFinish, AbsYield, AbsUnroll, AbsFail DEF Run
  <1>3. CASE Resume
    BY <1>3, AbsResume
  <1>4. CASE Signal
    <2>1. frames # <<>> /\ frames' \in {frames, Settraps} /\ UNCHANGED <<acts, status>>
      BY <1>4 DEF Signal
    <2> QED
      BY <2>1, AbsHooks
  <1> QED
    BY <1>1, <1>2, <1>3, <1>4 DEF Next

\* The interpreter, generated gotos and generated switches, in any mixture, with their
\* own copies of ci, pc and trap, execute functions as lopcodes.h describes.
THEOREM CodeImplementsISA == Spec => ImplementsISA
  <1>1. Inv /\ Inv' /\ [Next]_vars => [ISA!ISANext]_Abs
    BY AbsNext
  <1>2. Init => ISA!ISAInit
    BY AbsInit
  <1>3. Inv /\ Inv' /\ [Next]_vars => [ISA!ISANext]_[i \in DOMAIN frames |-> AbstractFrame(i)]
    BY <1>1 DEF Abs
  <1> QED
    BY <1>2, <1>3, Invariance, PTL DEF Spec, ImplementsISA, ISA!ISASpec

=============================================================================
