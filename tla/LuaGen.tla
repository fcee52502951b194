------------------------------- MODULE LuaGen -------------------------------
(***************************************************************************)
(* The generational mode of lgc.c.  A young collection frees only young    *)
(* objects and visits only those old ones that may refer to them: objects  *)
(* touched since they became old, those that have just become old, and     *)
(* threads.  Ages are in the objects, and pointers into the lists of all   *)
(* objects divide these by age.  A collection is not incremental; the      *)
(* mutator runs between two of them, with barriers.  (After a bad major    *)
(* collection the collector may stay in incremental mode for a cycle; that *)
(* mode is in module LuaGC, and the way back from it is FullGen.)          *)
(*                                                                         *)
(* Every object has one reference, which is weak in weak tables.  A list   *)
(* is a set of objects with the order in which they are linked.            *)
(***************************************************************************)
EXTENDS Integers, FiniteSets

CONSTANTS
    Kind,          \* the kind of an object: table, weak, closure, upval, thread
    Programs,      \* the sets of objects that a program may have
    Finalizable,   \* the objects that may get a finalizer
    NULL,
    MaxStack       \* bound: objects on the stack of the main thread

Kinds == {"table", "weak", "closure", "upval", "thread"}
ASSUME ProgramsAssumption ==
    \A P \in Programs : NULL \notin P /\ \A o \in P : Kind[o] \in Kinds

VARIABLES
    Obj,       \* the objects of this program
    stack,     \* what the main thread and the registry refer to
    ref,       \* the reference of every object, or NULL
    mark,      \* its age, and its color or "free"
    g,         \* the lists of the global_State, and the pointers into them
    before     \* their links: <<x, y>> when x comes before y in a list
vars == <<Obj, stack, ref, mark, g, before>>

G_NEW == 0
G_SURVIVAL == 1
G_OLD0 == 2
G_OLD1 == 3
G_OLD == 4
G_TOUCHED1 == 5
G_TOUCHED2 == 6

Age(o) == mark[o].age
IsOldAge(a) == a > G_SURVIVAL
White(o) == mark[o].color = "white"
Black(o) == mark[o].color = "black"
Live == {o \in Obj : mark[o].color # "free"}
Thread(o) == Kind[o] = "thread"

\* Pointers into a list: the elements before one, and after; NULL is its end.
Upto(list, p) == {x \in list : p = NULL \/ <<x, p>> \in before}
Rest(list, p) == list \ Upto(list, p)
First(S) == IF S = {} THEN NULL ELSE CHOOSE x \in S : \A y \in S \ {x} : <<x, y>> \in before
NextOf(list, o) == First({x \in list : <<o, x>> \in before})
\* o becomes the first one of a list.
PutFirst(rel, o, list) ==
    {p \in rel : o # p[1] /\ o # p[2]} \cup ({o} \X (list \ {o}))

-----------------------------------------------------------------------------
(* Barriers.                                                               *)

\* reallymarkobject: a closed upvalue is visited at once.
Marked(S) == S \cup {ref[u] : u \in {o \in S : Kind[o] = "upval"}}
WhiteIn(S) == {o \in S \ {NULL} : White(o)}
ReallyMark(mk, S) ==
    [o \in Obj |-> IF o \notin S THEN mk[o]
                   ELSE [mk[o] EXCEPT !.color = IF Kind[o] = "upval" THEN "black" ELSE "gray"]]
ToVisit(S) == {o \in S : Kind[o] # "upval"}

StaysYoung(o, v, mk) == mk                                   \* variant
\* In generational mode what an old object refers to becomes old.
Aged(o, v, mk) == IF IsOldAge(Age(o)) THEN [mk EXCEPT ![v].age = G_OLD0] ELSE mk
\* luaC_objbarrier, after o has been made to refer to v.  (Black objects exist only
\* while the invariant must be kept.)
Barrier(o, v) ==
    LET S == WhiteIn(Marked({v}))
    IN  IF v # NULL /\ Black(o) /\ White(v)
        THEN /\ mark' = Aged(o, v, ReallyMark(mark, S))
             /\ g' = [g EXCEPT !.gray = @ \cup ToVisit(S)]
        ELSE UNCHANGED <<mark, g>>

\* luaC_barrierback.
BackBarrier(o, v) ==
    IF v # NULL /\ Black(o) /\ White(v)
    THEN /\ mark' = [mark EXCEPT ![o] = [age |-> IF IsOldAge(@.age) THEN G_TOUCHED1 ELSE @.age,
                                         color |-> "gray"]]
         /\ g' = [g EXCEPT !.grayagain = @ \cup {o}]
    ELSE UNCHANGED <<mark, g>>

-----------------------------------------------------------------------------
(* The mutator.                                                            *)

Newborn == [age |-> G_NEW, color |-> "white"]
\* luaC_newobj.
New(o) ==
    /\ o \notin Live /\ Kind[o] # "upval"
    /\ mark' = [mark EXCEPT ![o] = Newborn] /\ ref' = [ref EXCEPT ![o] = NULL]
    /\ g' = [g EXCEPT !.allgc = @ \cup {o}] /\ before' = PutFirst(before, o, g.allgc)
    /\ stack' = stack \cup {o} /\ Cardinality(stack') <= MaxStack /\ UNCHANGED Obj
\* luaF_initupvals: a closure and its upvalue.
NewClosure(f, u) ==
    /\ {f, u} \cap Live = {} /\ Kind[f] = "closure" /\ Kind[u] = "upval"
    /\ mark' = [mark EXCEPT ![f] = Newborn, ![u] = Newborn]
    /\ ref' = [ref EXCEPT ![f] = u, ![u] = NULL]
    /\ g' = [g EXCEPT !.allgc = @ \cup {f, u}]
    /\ before' = PutFirst(PutFirst(before, f, g.allgc), u, g.allgc \cup {f})
    /\ stack' = stack \cup {f} /\ Cardinality(stack') <= MaxStack /\ UNCHANGED Obj

Drop(o) == stack' = stack \ {o} /\ UNCHANGED <<Obj, ref, mark, g, before>>
\* What the program can load through o.
Content(o) == (IF Kind[o] = "closure" /\ ref[o] # NULL THEN {ref[ref[o]]} ELSE {ref[o]}) \ {NULL}
Load(o) == /\ stack' = stack \cup Content(o) /\ Cardinality(stack') <= MaxStack
           /\ UNCHANGED <<Obj, ref, mark, g, before>>

Refer(o, v) == ref' = [ref EXCEPT ![o] = v] /\ UNCHANGED <<Obj, stack, before>>
\* luaH_set, lua_setmetatable, OP_SETUPVAL, and a coroutine that pushes a value.
SetField(t, v) == Kind[t] \in {"table", "weak"} /\ Refer(t, v) /\ BackBarrier(t, v)
SetMetatable(t, v) == Kind[t] = "table" /\ Kind[v] = "table" /\ Refer(t, v) /\ Barrier(t, v)
SetUpvalue(f, v) == Kind[f] = "closure" /\ ref[f] # NULL /\ Refer(ref[f], v) /\ Barrier(ref[f], v)
Push(th, v) == Kind[th] = "thread" /\ Refer(th, v) /\ UNCHANGED <<mark, g>>

\* checkpointer.
Corrected(p, o) == IF p = o THEN NextOf(g.allgc, o) ELSE p
\* luaC_checkfinalizer.
CheckFinalizer(o) ==
    /\ o \in Finalizable /\ o \in g.allgc
    /\ g' = [g EXCEPT !.survival = Corrected(@, o), !.old1 = Corrected(@, o),
                      !.reallyold = Corrected(@, o), !.firstold1 = Corrected(@, o),
                      !.allgc = @ \ {o}, !.finobj = @ \cup {o}]
    /\ before' = PutFirst(before, o, g.finobj)
    /\ UNCHANGED <<Obj, stack, ref, mark>>

FirstOld1Kept(o) == g.firstold1                              \* variant
FirstOld1After(o) == IF Age(o) = G_OLD1 THEN o ELSE g.firstold1
\* udata2finalize and GCTM: the finalizer may keep its object.
CallFinalizer ==
    /\ g.tobefnz # {}
    /\ LET o == First(g.tobefnz) IN
       /\ g' = [g EXCEPT !.tobefnz = @ \ {o}, !.allgc = @ \cup {o}, !.firstold1 = FirstOld1After(o)]
       /\ before' = PutFirst(before, o, g.allgc)
       /\ stack' \in {stack, stack \cup {o}}
    /\ UNCHANGED <<Obj, ref, mark>>

-----------------------------------------------------------------------------
(* Marking.                                                                *)

\* Everything that is visited from S: only white objects are marked.
Visited(mk, S) ==
    LET more(V) == {ref[o] : o \in {x \in V : Kind[x] # "weak"}} \ {NULL}
        closed == {V \in SUBSET Obj : /\ S \subseteq V
                                      /\ {v \in more(V) : mk[v].color = "white"} \subseteq V}
    IN  {o \in Obj : \A V \in closed : o \in V}

\* clearbyvalues, of the weak tables of T: the values that are not marked.
Cleared(rf, mk, T, V) ==
    [o \in Obj |-> IF o \in T /\ Kind[o] = "weak" /\ rf[o] # NULL
                      /\ rf[o] \notin V /\ mk[rf[o]].color = "white" THEN NULL ELSE rf[o]]

\* The dying objects with a finalizer, up to `finobjold1', go to the end of
\* `tobefnz' (separatetobefnz).
Dying(mk, V, gl) == {o \in Upto(gl.finobj, gl.finobjold1) : mk[o].color = "white" /\ o \notin V}
Separated(gl, D) ==
    [gl EXCEPT !.finobj = @ \ D, !.tobefnz = @ \cup D,
               !.finobjsur = IF @ \in D THEN First(Rest(gl.finobj, @) \ D) ELSE @]
SeparatedLinks(gl, D) == {p \in before : p[1] \in D <=> p[2] \in D} \cup (gl.tobefnz \X D)

\* atomic, from the objects of S: what is marked, the references, and the lists.
Atomic(mk, gl, S) ==
    LET V == Visited(mk, S)
        r1 == Cleared(ref, mk, V, V)
        D == Dying(mk, V, gl)
        lists == Separated(gl, D)
        V2 == Visited(mk, V \cup {o \in lists.tobefnz : mk[o].color = "white"})
    IN  [visited |-> V2, ref |-> Cleared(r1, mk, V2 \ V, V2), g |-> lists,
         before |-> SeparatedLinks(gl, D)]
\* The links between the objects that are kept.
Kept(rel, alive) == {p \in rel : p[1] \in alive /\ p[2] \in alive}

-----------------------------------------------------------------------------
(* Young collections.                                                      *)

Old1In(list) == {o \in list : Age(o) = G_OLD1}
Range1(p, q) == Upto(Rest(g.allgc, p), q)
\* markold.
MarkOld == (IF g.firstold1 = NULL THEN {} ELSE Old1In(Range1(g.firstold1, g.reallyold)))
           \cup Old1In(Upto(g.finobj, g.finobjrold)) \cup Old1In(g.tobefnz)

\* What genlink, traversethread and the traversals of weak tables link to a gray
\* list, of the objects that were visited.
LinkedAgain(mk, o) == \/ mk[o].age = G_TOUCHED1 \/ Kind[o] = "weak"
                      \/ Thread(o) /\ IsOldAge(mk[o].age)
AfterVisit(mk, o) == [age |-> IF mk[o].age = G_TOUCHED2 THEN G_OLD ELSE mk[o].age,
                      color |-> IF LinkedAgain(mk, o) THEN "gray" ELSE "black"]

NextAge(age) == CASE age \in {G_SURVIVAL, G_OLD0} -> G_OLD1
                  [] age = G_OLD1 -> G_OLD
                  [] OTHER -> age
\* sweepgen, of one object.
Swept(m) == IF m.color = "white" THEN [m EXCEPT !.color = "free"]
            ELSE IF m.age = G_NEW THEN [age |-> G_SURVIVAL, color |-> "white"]
            ELSE [m EXCEPT !.age = NextAge(@)]

ForgottenTouched(m) == [age |-> G_OLD, color |-> "black"]      \* variant
\* correctgraylist, of a touched object.
AdvanceTouched(m) == [age |-> IF m.age = G_TOUCHED1 THEN G_TOUCHED2 ELSE G_OLD, color |-> "black"]
CorrectGray(o, m) ==
    IF m.color \in {"white", "free"} THEN m
    ELSE IF m.age \in {G_TOUCHED1, G_TOUCHED2} THEN AdvanceTouched(m)
    ELSE IF Thread(o) THEN m ELSE [m EXCEPT !.color = "black"]
StaysGray(o, m) == /\ m.color \notin {"white", "free"}
                   /\ m.age = G_TOUCHED2 \/ Thread(o)

\* The marks after markold, after atomic, after sweepgen and after finishgencycle.
OldMarked == LET old1 == MarkOld
             IN  [o \in Obj |-> IF o \in old1 THEN [mark[o] EXCEPT !.age = G_OLD] ELSE mark[o]]
YoungAtomic(mk) ==
    Atomic(mk, g, {o \in MarkOld : Black(o)} \cup g.gray \cup g.grayagain \cup WhiteIn(stack))
Propagated(mk, V) == [o \in Obj |-> IF o \in V THEN AfterVisit(mk, o) ELSE mk[o]]
Linked(mk, V) == {o \in V : LinkedAgain(mk, o)}
SweptMarks(mk, young) == [o \in Obj |-> IF o \in young THEN Swept(mk[o]) ELSE mk[o]]
Corrects(mk, linked) == [o \in Obj |-> IF o \in linked THEN CorrectGray(o, mk[o]) ELSE mk[o]]

\* The parts of a list that sweepgen goes through.
Nursery(list, survival) == Upto(list, survival)
Surviving(list, survival, old1) == Upto(Rest(list, survival), old1)
YoungIn(gl) ==
    Nursery(gl.allgc, gl.survival) \cup Surviving(gl.allgc, gl.survival, gl.old1)
    \cup Nursery(gl.finobj, gl.finobjsur) \cup Surviving(gl.finobj, gl.finobjsur, gl.finobjold1)
    \cup gl.tobefnz

\* youngcollection, without the finalizers (callallpendingfinalizers).
YoungCollection ==
    LET mk1 == OldMarked
        a == YoungAtomic(mk1)
        linked == Linked(mk1, a.visited)
        mk3 == SweptMarks(Propagated(mk1, a.visited), YoungIn(a.g))
        mk4 == Corrects(mk3, linked)
        young1 == Nursery(g.allgc, g.survival) \cup Surviving(g.allgc, g.survival, g.old1)
        alive == {o \in Obj : mk3[o].color # "free"}
        firstOld(list, survival, old1) ==
            First((Surviving(list, survival, old1) \cap alive) \cup Rest(list, old1))
    IN  /\ mark' = mk4 /\ ref' = a.ref /\ UNCHANGED <<Obj, stack>>
        /\ before' = Kept(a.before, alive)
        /\ g' = [a.g EXCEPT
               !.allgc = @ \cap alive, !.survival = First(a.g.allgc \cap alive), !.reallyold = g.old1,
               !.old1 = firstOld(g.allgc, g.survival, g.old1),
               !.firstold1 = First({o \in young1 : mk3[o].age = G_OLD1}),
               !.finobj = @ \cap alive, !.finobjsur = First(a.g.finobj \cap alive),
               !.finobjold1 = firstOld(a.g.finobj, a.g.finobjsur, g.finobjold1),
               !.finobjrold = g.finobjold1, !.tobefnz = @ \cap alive,
               !.gray = {}, !.grayagain = {o \in linked : StaysGray(o, mk4[o])}]

-----------------------------------------------------------------------------
(* Major collections.                                                      *)

\* enterinc: everything is white and new, and no pointer divides the lists.
Whitened == [o \in Obj |-> IF o \in Live THEN Newborn ELSE mark[o]]
NoPointers(gl) == [gl EXCEPT !.survival = NULL, !.old1 = NULL, !.reallyold = NULL,
                             !.finobjsur = NULL, !.finobjold1 = NULL, !.finobjrold = NULL]
\* A cycle up to its atomic step, from the pause (restartcollection, atomic).
Cycle == Atomic(Whitened, NoPointers(g), stack \cup g.tobefnz)
AllOld(V) ==
    [o \in Obj |-> IF o \in V THEN [age |-> G_OLD, color |-> IF Thread(o) THEN "gray" ELSE "black"]
                   ELSE [mark[o] EXCEPT !.color = "free"]]

\* fullgen: enterinc and entergen, which ends with atomic2gen.
FullGen ==
    LET a == Cycle
        threads == {o \in a.visited : Thread(o)}
        allgc == a.g.allgc \cap a.visited
        finobj == a.g.finobj \cap a.visited
    IN  /\ mark' = AllOld(a.visited)
        /\ ref' = a.ref /\ UNCHANGED <<Obj, stack>> /\ before' = Kept(a.before, a.visited)
        /\ g' = [a.g EXCEPT
               !.allgc = allgc, !.finobj = finobj, !.firstold1 = NULL,
               !.survival = First(allgc), !.old1 = First(allgc), !.reallyold = First(allgc),
               !.finobjsur = First(finobj), !.finobjold1 = First(finobj),
               !.finobjrold = First(finobj), !.gray = {}, !.grayagain = threads]

-----------------------------------------------------------------------------
Init ==
    /\ Obj \in Programs
    /\ stack = {} /\ ref = [o \in Obj |-> NULL]
    /\ mark = [o \in Obj |-> [age |-> G_NEW, color |-> "free"]]
    /\ before = {}
    /\ g = [allgc |-> {}, survival |-> NULL, old1 |-> NULL, reallyold |-> NULL,
            firstold1 |-> NULL, finobj |-> {}, finobjsur |-> NULL, finobjold1 |-> NULL,
            finobjrold |-> NULL, tobefnz |-> {}, gray |-> {}, grayagain |-> {}]

Mutator ==
    \/ \E o \in Obj : New(o) \/ \E u \in Obj : NewClosure(o, u)
    \/ \E o \in stack :
          \/ Drop(o) \/ Load(o) \/ CheckFinalizer(o)
          \/ \E v \in stack : SetField(o, v) \/ SetMetatable(o, v) \/ SetUpvalue(o, v) \/ Push(o, v)

Next == Mutator \/ CallFinalizer \/ YoungCollection \/ FullGen

Spec == Init /\ [][Next]_vars

-----------------------------------------------------------------------------
(* Properties.                                                             *)

\* Young collections free nothing that the program can still reach, and leave no
\* reference in a weak table to what they free.
Reachable ==
    LET closed == {V \in SUBSET Obj : /\ stack \cup g.tobefnz \subseteq V
                                      /\ \A o \in V : ref[o] \in V \cup {NULL}}
    IN  {o \in Obj : \A V \in closed : o \in V}
NoneFreedYoung == Reachable \subseteq Live

\* The generational invariant: an old object that no later collection visits refers
\* to old objects only.
OldRefersToOld ==
    \A o \in Live : Age(o) = G_OLD /\ o \notin g.gray \cup g.grayagain /\ ref[o] # NULL
                    => IsOldAge(Age(ref[o]))

\* The pointers find the objects that the next young collection must visit or may
\* free: those that have just become old, and the young ones.
PointersDivideAges ==
    /\ Old1In(g.allgc) \cup Old1In(g.finobj) \subseteq MarkOld
    /\ \A o \in Rest(g.allgc, g.old1) \cup Rest(g.finobj, g.finobjold1) : ~White(o)

-----------------------------------------------------------------------------
(* The inductive invariant, in named parts.  What makes OldRefersToOld     *)
(* inductive is where an object waits that a barrier has found, and that   *)
(* an object needs two collections to become old.                          *)

Colors == {"white", "gray", "black", "free"}
Pointer == Obj \cup {NULL}
Types ==
    /\ Obj \in Programs
    /\ ref \in [Obj -> Pointer]
    /\ mark \in [Obj -> [age : G_NEW..G_TOUCHED2, color : Colors]]
    /\ before \in SUBSET (Obj \X Obj)
    /\ g \in [allgc : SUBSET Obj, survival : Pointer, old1 : Pointer, reallyold : Pointer,
              firstold1 : Pointer, finobj : SUBSET Obj, finobjsur : Pointer, finobjold1 : Pointer,
              finobjrold : Pointer, tobefnz : SUBSET Obj, gray : SUBSET Obj, grayagain : SUBSET Obj]

\* Each allocated object is in one list, and each list is a sequence.
InOrder(rel, list) ==
    /\ \A x, y \in list : <<x, y>> \in rel => <<y, x>> \notin rel
    /\ \A x, y, z \in list : <<x, y>> \in rel /\ <<y, z>> \in rel => <<x, z>> \in rel
    /\ \A S \in SUBSET list : S # {} => \E x \in S : \A y \in S \ {x} : <<x, y>> \in rel
Lists ==
    /\ Live = g.allgc \cup g.finobj \cup g.tobefnz
    /\ g.allgc \cap g.finobj = {} /\ g.allgc \cap g.tobefnz = {} /\ g.finobj \cap g.tobefnz = {}
    /\ InOrder(before, g.allgc) /\ InOrder(before, g.finobj) /\ InOrder(before, g.tobefnz)

\* The pointers are in order, and what each part of a list may hold.
Divided(list, survival, old1, reallyold) ==
    /\ {survival, old1, reallyold} \subseteq list \cup {NULL}
    /\ Rest(list, reallyold) \subseteq Rest(list, old1)
    /\ Rest(list, old1) \subseteq Rest(list, survival)
    /\ \A o \in Rest(list, survival) : Age(o) # G_NEW
    /\ \A o \in Rest(list, old1) : ~White(o) /\ Age(o) # G_OLD0
    /\ \A o \in Rest(list, reallyold) : Age(o) # G_OLD1
Pointers ==
    /\ Divided(g.allgc, g.survival, g.old1, g.reallyold)
    /\ Divided(g.finobj, g.finobjsur, g.finobjold1, g.finobjrold)
    /\ g.firstold1 \in g.allgc \cup {NULL}
    /\ Old1In(g.allgc) \subseteq Rest(g.allgc, g.firstold1)

\* What refers to what: nothing that is freed, and only closures to upvalues.
References ==
    /\ \A o \in Live : ref[o] # NULL =>
          ref[o] \in Live /\ (Kind[o] = "closure" <=> Kind[ref[o]] = "upval")
    /\ \A o \in stack \cup g.finobj \cup g.tobefnz : o \in Live /\ Kind[o] # "upval"

\* Between collections the young objects are white, and what waits for the next one
\* is in a gray list.
GrayLists ==
    /\ \A o \in Live : White(o) <=> ~IsOldAge(Age(o))
    /\ \A o \in Live : mark[o].color = "gray" => o \in g.gray \cup g.grayagain
    /\ \A o \in Live : Age(o) = G_TOUCHED1 => o \in g.grayagain /\ mark[o].color = "gray"
    /\ \A o \in Live : Age(o) = G_TOUCHED2 => o \in g.grayagain /\ Black(o)
    /\ \A o \in Live : Age(o) = G_OLD0 => o \in g.gray /\ mark[o].color = "gray"
    /\ \A o \in Live : Age(o) = G_OLD /\ Thread(o) => o \in g.grayagain
    /\ \A o \in g.gray : o \in Live /\ Age(o) = G_OLD0
    /\ \A o \in g.grayagain : o \in Live /\
          (Age(o) \in {G_TOUCHED1, G_TOUCHED2} \/ (Thread(o) /\ Age(o) \in {G_OLD1, G_OLD}))

\* An object that will be old after the next collection refers to none that is new.
NextOldRefersToNoNew ==
    \A o \in Live : Age(o) \in {G_OLD1, G_TOUCHED2} /\ ~Thread(o) /\ ref[o] # NULL
                    => Age(ref[o]) # G_NEW

IInv == Types /\ Lists /\ Pointers /\ References /\ GrayLists /\ OldRefersToOld
        /\ NextOldRefersToNoNew

=============================================================================
