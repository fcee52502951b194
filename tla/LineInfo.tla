------------------------------- MODULE LineInfo -----------------------------
(***************************************************************************)
(* Which source line an instruction comes from.  The code generator        *)
(* (lcode.c) stores the difference of an instruction to the one before it  *)
(* in a byte, and an absolute line where that does not fit, or after some  *)
(* instructions; the debug interface (ldebug.c) adds up the differences    *)
(* from the absolute line before.                                          *)
(***************************************************************************)
EXTENDS Integers, Sequences, SequencesExt

CONSTANTS
    LIMLINEDIFF,   \* differences below it fit
    MAXIWTHABS,    \* instructions without absolute line information
    Lines,         \* the lines of a function
    linedefined,   \* the first one
    MaxCode        \* bound: instructions of a function

ASSUME LineConstants ==
    /\ LIMLINEDIFF \in Nat \ {0} /\ MAXIWTHABS \in Nat \ {0}
    /\ Lines \subseteq Int /\ linedefined \in Int

ABSLINEINFO == -LIMLINEDIFF

\* fs: the fields of FuncState and Proto for lines; lines: what should be stored
VARIABLES fs, lines
lineVars == <<fs, lines>>

Abs(n) == IF n < 0 THEN -n ELSE n

LineInit ==
    /\ fs = [lineinfo |-> <<>>, abslineinfo |-> <<>>, previousline |-> linedefined, iwthabs |-> 0]
    /\ lines = <<>>

\* The instruction at pc is the last one, and the arrays end with it.
savelineinfo(g, pc, line) ==
    LET linedif == line - g.previousline
        absolute == Abs(linedif) >= LIMLINEDIFF \/ g.iwthabs >= MAXIWTHABS
    IN  [lineinfo |-> Append(g.lineinfo, IF absolute THEN ABSLINEINFO ELSE linedif),
         abslineinfo |-> IF absolute THEN Append(g.abslineinfo, [pc |-> pc, line |-> line])
                         ELSE g.abslineinfo,
         previousline |-> line,
         iwthabs |-> IF absolute THEN 1 ELSE g.iwthabs + 1]

NotForced(g) == [g EXCEPT !.abslineinfo = Front(@), !.iwthabs = 0]   \* variant
\* The next line information is forced to be absolute, too.
RemoveAbs(g) == [g EXCEPT !.abslineinfo = Front(@), !.iwthabs = MAXIWTHABS + 1]
removelastlineinfo(g) ==
    LET last == g.lineinfo[Len(g.lineinfo)]
        rest == [g EXCEPT !.lineinfo = Front(@)]
    IN  IF last # ABSLINEINFO
        THEN [rest EXCEPT !.previousline = @ - last, !.iwthabs = @ - 1]
        ELSE RemoveAbs(rest)

\* luaK_code emits an instruction.
luaK_code(line) ==
    /\ Len(lines) < MaxCode
    /\ fs' = savelineinfo(fs, Len(lines), line)
    /\ lines' = Append(lines, line)

\* luaK_fixline gives the last instruction another line.
luaK_fixline(line) ==
    /\ lines # <<>>
    /\ fs' = savelineinfo(removelastlineinfo(fs), Len(lines) - 1, line)
    /\ lines' = Append(Front(lines), line)

\* jumponcond replaces an OP_NOT at the end with a test and a jump.
ReplaceNot(line) ==
    /\ lines # <<>> /\ Len(lines) < MaxCode
    /\ LET removed == removelastlineinfo(fs)
           test == savelineinfo(removed, Len(lines) - 1, line)
       IN  fs' = savelineinfo(test, Len(lines), line)
    /\ lines' = Front(lines) \o <<line, line>>

LineNext == \E line \in Lines : luaK_code(line) \/ luaK_fixline(line) \/ ReplaceNot(line)

LineSpec == LineInit /\ [][LineNext]_lineVars

-----------------------------------------------------------------------------
(* ldebug.c: pc counts from 0, and sequences from 1.                       *)

\* The base of the instruction at pc: the last absolute line at or before it.  The search
\* goes up from an estimate.
Estimate(pc) == (pc \div MAXIWTHABS) - 1
IsLater(i, pc) == i + 1 < Len(fs.abslineinfo) /\ pc >= fs.abslineinfo[i + 2].pc
BaseIndex(pc) ==
    CHOOSE i \in Estimate(pc)..Len(fs.abslineinfo) :
        ~IsLater(i, pc) /\ \A j \in Estimate(pc)..i - 1 : IsLater(j, pc)
getbaseline(pc) ==
    IF fs.abslineinfo = <<>> \/ pc < fs.abslineinfo[1].pc
    THEN [pc |-> -1, line |-> linedefined]
    ELSE fs.abslineinfo[BaseIndex(pc) + 1]

\* Adding up the differences from one instruction to another.
AddUp(line, from, to) ==
    LET upto[pc \in from..to] ==
            IF pc = from THEN line ELSE upto[pc - 1] + fs.lineinfo[pc + 1]
    IN  upto[to]
luaG_getfuncline(pc) ==
    LET base == getbaseline(pc) IN AddUp(base.line, base.pc, pc)

\* Are the instructions at oldpc and at newpc, after it, of different lines?
changedline(oldpc, newpc) ==
    IF /\ newpc - oldpc < MAXIWTHABS \div 2
       /\ \A pc \in oldpc + 1..newpc : fs.lineinfo[pc + 1] # ABSLINEINFO
    THEN AddUp(0, oldpc, newpc) # 0
    ELSE luaG_getfuncline(oldpc) # luaG_getfuncline(newpc)

\* The next line, for the active lines of a function
nextline(currentline, pc) ==
    IF fs.lineinfo[pc + 1] # ABSLINEINFO THEN currentline + fs.lineinfo[pc + 1]
    ELSE luaG_getfuncline(pc)

-----------------------------------------------------------------------------
\* The debug interface finds the line that the code generator meant for each instruction,
\* although lines were changed and instructions removed, and sees where it changes; the
\* estimate of getbaseline never is beyond the base (ldebug.c getbaseline, changedline).
LinesAreRight ==
    \A pc \in 0..Len(lines) - 1 :
        /\ Estimate(pc) >= 0 => /\ Estimate(pc) < Len(fs.abslineinfo)
                                /\ fs.abslineinfo[Estimate(pc) + 1].pc <= pc
        /\ luaG_getfuncline(pc) = lines[pc + 1]
        /\ nextline(IF pc = 0 THEN linedefined ELSE lines[pc], pc) = lines[pc + 1]
        /\ \A oldpc \in 0..pc - 1 : changedline(oldpc, pc) = (lines[oldpc + 1] # lines[pc + 1])

-----------------------------------------------------------------------------
(* The inductive invariant, of the fields of fs and the lines ls.          *)

AbsLineInfo == [pc : Nat, line : Int]
LineBefore(ls, i) == IF i = 1 THEN linedefined ELSE ls[i - 1]
\* Where an absolute line is expected at the latest, after the k-th one.
Forced(abs, k) == IF k = 0 THEN MAXIWTHABS ELSE abs[k].pc + MAXIWTHABS

LinesStored(info, abs, ls) ==
    \A i \in 1..Len(ls) :
        IF info[i] = ABSLINEINFO THEN \E k \in 1..Len(abs) : abs[k].pc = i - 1
        ELSE info[i] = ls[i] - LineBefore(ls, i)
AbsStored(info, abs, ls) ==
    \A k \in 1..Len(abs) :
        /\ abs[k].pc < Len(ls)
        /\ abs[k].line = ls[abs[k].pc + 1] /\ info[abs[k].pc + 1] = ABSLINEINFO
        /\ \A j \in 1..k - 1 : abs[j].pc < abs[k].pc
        /\ abs[k].pc <= Forced(abs, k - 1)
\* The counter says how long ago the last one was, unless the next one is forced; then
\* nobody looks at previousline.
Counted(iwthabs, abs, ls) ==
    IF iwthabs <= MAXIWTHABS THEN iwthabs + Forced(abs, Len(abs)) = Len(ls) + MAXIWTHABS
    ELSE Len(ls) <= Forced(abs, Len(abs))
LineTypes(g, ls) ==
    /\ ls \in Seq(Int)
    /\ g \in [lineinfo : Seq(Int), abslineinfo : Seq(AbsLineInfo),
              previousline : Int, iwthabs : Nat]
    /\ Len(g.lineinfo) = Len(ls)
LineInv(g, ls) ==
    /\ LineTypes(g, ls)
    /\ LinesStored(g.lineinfo, g.abslineinfo, ls) /\ AbsStored(g.lineinfo, g.abslineinfo, ls)
    /\ Counted(g.iwthabs, g.abslineinfo, ls)
    /\ g.iwthabs <= MAXIWTHABS => g.previousline = LineBefore(ls, Len(ls) + 1)
LineInvariant == LineInv(fs, lines) /\ fs.iwthabs <= MAXIWTHABS

=============================================================================
