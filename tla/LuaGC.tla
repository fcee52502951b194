------------------------------- MODULE LuaGC -------------------------------
(***************************************************************************)
(* The incremental collector of lgc.c running against a Lua program.       *)
(*                                                                         *)
(* Objects are members of Obj, each of a fixed kind.  What an object       *)
(* refers to is a set of entries <<key, value>>; stack slots, upvalues of  *)
(* closures, user values and array items are entries with the key NC (a    *)
(* key that is not collectable).  The collector works one `singlestep' at  *)
(* a time and the program (the mutator) runs between two steps; `atomic'   *)
(* is cut into its own steps, with the mutator stopped.                    *)
(*                                                                         *)
(* Gray lists are sets: their order is abstracted, every order is allowed. *)
(***************************************************************************)
EXTENDS Naturals, FiniteSets

CONSTANTS
    Obj,          \* the objects that may be allocated
    NC,           \* a value or key that is not collectable, and NULL
    Main,         \* the main thread
    Kind,         \* [Obj -> Kinds]
    MaxStack,     \* bound: values on the stack of one thread
    MaxEntries,   \* bound: entries of any other object
    Heaps,        \* bound: the sets of objects that may be allocated together
    Modes,        \* the weak modes that `__mode' may give to a table
    Weakable,     \* the tables that may be given a metatable with __mode
    GCAllowed,    \* the objects that may be given a metatable with __gc
    FullKinds     \* the `isemergency' arguments luaC_fullgc is called with

Kinds == {"thread", "table", "closure", "udata", "upval", "string"}

ASSUME ConstantsAssumption ==
    /\ NC \notin Obj
    /\ Kind \in [Obj -> Kinds]
    /\ Main \in Obj /\ Kind[Main] = "thread"
    /\ MaxStack \in Nat /\ MaxEntries \in Nat
    /\ Modes \subseteq {"strong", "weakvalue", "ephemeron", "allweak"}
    /\ "strong" \in Modes
    /\ Weakable \subseteq {o \in Obj : Kind[o] = "table"}
    /\ GCAllowed \subseteq {o \in Obj : Kind[o] \in {"table", "udata"}}
    /\ FullKinds \subseteq BOOLEAN

Val == Obj \cup {NC}

States == {"propagate", "enteratomic", "atomic", "swpallgc", "swpfinobj",
           "swptobefnz", "swpend", "callfin", "pause"}

Whites == {"white0", "white1"}

\* The steps of `atomic', and of the `sweeptolive' that ends it.
AtomicSteps == {"none", "marked", "remarked", "again", "converge", "separate",
                "resurrect", "reconverge", "clear", "tolive"}

VARIABLES
    list,         \* the list that links each object, or "free"
    entry,        \* what each object refers to
    mode,         \* the weak mode of each table
    home,         \* the thread of an open upvalue; NC when it is closed
    twups,        \* global_State.twups: threads with open upvalues
    color,        \* the mark of each object
    currentwhite,
    gcstate,
    atomicstep,   \* where `atomic' is; "none" when the mutator may run
    gray, grayagain, weak, allweak, ephemeron,
    saved,        \* locals of atomic: the original `grayagain'
    origweak,     \* ... and `weak', `allweak' before resurrection
    origall,
    round,        \* locals of convergeephemerons: the tables still to visit
    changed,      \* ... and whether a visit marked something
    tosweep,      \* the objects at and after `sweepgc'
    full,         \* the part of luaC_fullgc that is running, or "no"
    gcemergency,
    finalizing    \* the object whose finalizer is running, or NC

heap == <<list, entry, mode, home>>
marks == <<color, gray, grayagain, weak, allweak, ephemeron, twups>>
locals == <<saved, origweak, origall, round, changed>>
control == <<currentwhite, gcstate, atomicstep, tosweep, full, gcemergency>>
vars == <<heap, marks, locals, control, finalizing>>

-----------------------------------------------------------------------------
(* Colours, states and references.                                         *)

Allocated(o) == list[o] # "free"
IsWhite(x) == x # NC /\ color[x] \in Whites
IsBlack(o) == color[o] = "black"
IsGray(o) == color[o] = "gray"

OtherWhite == IF currentwhite = "white0" THEN "white1" ELSE "white0"
IsDead(o) == color[o] = OtherWhite


KeepInvariant == gcstate \in {"propagate", "enteratomic", "atomic"}
IsSweepPhase == gcstate \in {"swpallgc", "swpfinobj", "swptobefnz", "swpend"}

Values(ent, o) == {e[2] : e \in ent[o]} \ {NC}
Keys(ent, o) == {e[1] : e \in ent[o]} \ {NC}
OpenUpvals(hm, th) == {u \in Obj : Kind[u] = "upval" /\ hm[u] = th}

Contents(ent, S) == UNION {Values(ent, u) : u \in S}

\* Every object that o refers to: a thread also links its open upvalues, whose
\* values are slots of its stack.
Refs(o) == Values(entry, o) \cup Keys(entry, o)
           \cup OpenUpvals(home, o) \cup Contents(entry, OpenUpvals(home, o))

\* Objects that are visited when they are marked never enter a gray list.
LeafKinds == {"string", "upval"}

-----------------------------------------------------------------------------
(* Marking: reallymarkobject for every white object of a set, the barriers *)
(* and the traversals.  The order of the objects does not matter.          *)

WhiteIn(col, S) == {o \in S : col[o] \in Whites}

\* Marking a white upvalue also marks its content.
Touched(col, ent, S) ==
    LET W == WhiteIn(col, S)
        ups == {u \in W : Kind[u] = "upval"}
    IN  W \cup WhiteIn(col, Contents(ent, ups))

\* Strings and closed upvalues have nothing left to visit.
MarkedAs(hm, o) ==
    IF Kind[o] = "string" \/ (Kind[o] = "upval" /\ hm[o] = NC)
    THEN "black" ELSE "gray"

ReallyMark(col, ent, hm, S) ==
    [o \in Obj |-> IF o \in Touched(col, ent, S) THEN MarkedAs(hm, o)
                                                 ELSE col[o]]

ToVisit(col, ent, S) == {o \in Touched(col, ent, S) : Kind[o] \notin LeafKinds}

BarrierForgotten(col, ent, hm, o, S) == color' = col /\ gray' = gray   \* variant

\* luaC_barrier_: o, of colour col[o], now refers to the objects of S.
Barrier(col, ent, hm, o, S) ==
    LET needed == col[o] = "black" /\ WhiteIn(col, S) # {}
    IN  /\ color' = IF ~needed THEN col
                    ELSE IF KeepInvariant THEN ReallyMark(col, ent, hm, S)
                    ELSE [col EXCEPT ![o] = currentwhite]
        /\ gray' = IF needed /\ KeepInvariant
                   THEN gray \cup ToVisit(col, ent, S) ELSE gray

BackBarrierForgotten(o, S) == UNCHANGED <<color, grayagain>>  \* variant
BackBarrierUnlinked(o, S) ==                                 \* variant
    LET needed == IsBlack(o) /\ WhiteIn(color, S) # {}
    IN  /\ color' = IF needed THEN [color EXCEPT ![o] = "gray"] ELSE color
        /\ UNCHANGED grayagain

\* luaC_barrierback_
BarrierBack(o, S) ==
    LET needed == IsBlack(o) /\ WhiteIn(color, S) # {}
    IN  /\ color' = IF needed THEN [color EXCEPT ![o] = "gray"] ELSE color
        /\ grayagain' = IF needed THEN grayagain \cup {o} ELSE grayagain

-----------------------------------------------------------------------------
(* The mutator.  It works on the values of the stacks it can name: the     *)
(* main thread's and those of the coroutines the main thread holds.        *)

MutatorRuns == atomicstep = "none" /\ (full = "no" \/ finalizing # NC)

OnStack(th) == Values(entry, th) \cup Contents(entry, OpenUpvals(home, th))
Upvals(S) == {u \in S : Kind[u] = "upval"}

Threads == {th \in {Main} \cup OnStack(Main) : Kind[th] = "thread"}
HasRoom(th) == Cardinality(entry[th] \cup OpenUpvals(home, th)) < MaxStack
Fits(o) == \E H \in Heaps : {x \in Obj : Allocated(x)} \cup {o} \subseteq H
Push(ent, th, v) == [ent EXCEPT ![th] = @ \cup {<<NC, v>>}]

\* luaC_newobj: a new object is white, linked in allgc and on the stack.
New(th, o) ==
    /\ HasRoom(th) /\ list[o] = "free" /\ Kind[o] \notin LeafKinds /\ Fits(o)
    /\ list' = [list EXCEPT ![o] = "allgc"]
    /\ color' = [color EXCEPT ![o] = currentwhite]
    /\ entry' = Push(entry, th, o)
    /\ UNCHANGED <<mode, home, gray, grayagain, twups>>

\* internshrstr: an interned string is reused as long as it is not freed, so
\* a dead one has to be resurrected.
InternNotResurrected(o) == ~Allocated(o)                     \* variant
InternWhitens(o) == ~Allocated(o) \/ IsDead(o)
Intern(th, o) ==
    /\ HasRoom(th) /\ Kind[o] = "string" /\ Fits(o)
    /\ list' = [list EXCEPT ![o] = "allgc"]
    /\ color' = IF InternWhitens(o) THEN [color EXCEPT ![o] = currentwhite] ELSE color
    /\ entry' = Push(entry, th, o)
    /\ UNCHANGED <<mode, home, gray, grayagain, twups>>

\* Read a field, a key, an upvalue, a user value or a slot of another stack:
\* reading needs no barrier, even through a weak table.
Load(th, o, v) ==
    /\ HasRoom(th)
    /\ \/ v \in Refs(o) /\ Kind[v] # "upval"
       \/ v \in Contents(entry, Upvals(Values(entry, o)))
    /\ entry' = Push(entry, th, v)
    /\ UNCHANGED <<list, mode, home, color, gray, grayagain, twups>>

Pop(th, v) ==
    /\ <<NC, v>> \in entry[th]
    /\ entry' = [entry EXCEPT ![th] = @ \ {<<NC, v>>}]
    /\ UNCHANGED <<list, mode, home, color, gray, grayagain, twups>>

\* t[k] = v for a table on the stack; a new key counts for the barrier too.
SetTable(t, k, v) ==
    /\ Kind[t] = "table"
    /\ entry' = [entry EXCEPT ![t] =
                    {e \in @ : k = NC \/ e[1] # k} \cup {<<k, v>>}]
    /\ Cardinality(entry'[t]) <= MaxEntries
    /\ BarrierBack(t, {k, v} \ {NC})
    /\ UNCHANGED <<list, mode, home, gray, twups>>

\* t[k] = nil
ClearEntry(t, e) ==
    /\ Kind[t] = "table"
    /\ entry' = [entry EXCEPT ![t] = @ \ {e}]
    /\ UNCHANGED <<list, mode, home, color, gray, grayagain, twups>>

\* Replace one slot of o, or fill a free one (<<NC, NC>>).
PutSlot(o, old, v) ==
    /\ Upvals({old[2]} \ {NC}) = {}
    /\ entry' = [entry EXCEPT ![o] = (@ \ {old}) \cup {<<NC, v>>}]
    /\ Cardinality(entry'[o]) <= MaxEntries

\* lua_setiuservalue
SetUserValue(o, old, v) ==
    /\ Kind[o] = "udata"
    /\ PutSlot(o, old, v)
    /\ BarrierBack(o, {v})
    /\ UNCHANGED <<list, mode, home, gray, twups>>

\* lua_replace and lua_setupvalue on an upvalue of a C closure
SetClosureSlot(o, old, v) ==
    /\ Kind[o] = "closure"
    /\ PutSlot(o, old, v)
    /\ Barrier(color, entry', home, o, {v})
    /\ UNCHANGED <<list, mode, home, grayagain, twups>>

LinkInTwups(th) == twups \cup {th}

\* OP_CLOSURE capturing a local that has no upvalue yet: the stack slot of v
\* becomes the cell of the new open upvalue u.
OpenUpval(th, cl, u, v) ==
    /\ Kind[cl] = "closure"
    /\ Kind[u] = "upval" /\ list[u] = "free" /\ Fits(u)
    /\ <<NC, v>> \in entry[th]
    /\ Cardinality(entry[cl]) < MaxEntries
    /\ list' = [list EXCEPT ![u] = "allgc"]
    /\ home' = [home EXCEPT ![u] = th]
    /\ entry' = [entry EXCEPT ![th] = @ \ {<<NC, v>>},
                              ![u] = {<<NC, v>>},
                              ![cl] = @ \cup {<<NC, u>>}]
    /\ twups' = LinkInTwups(th)
    /\ Barrier([color EXCEPT ![u] = currentwhite], entry', home', cl, {u})
    /\ UNCHANGED <<mode, grayagain>>

\* ... capturing a local that already has one, or an upvalue of a closure.
ShareUpval(th, cl, u) ==
    /\ Kind[cl] = "closure"
    /\ u \in OpenUpvals(home, th) \cup Upvals(Contents(entry, OnStack(th)))
    /\ Cardinality(entry[cl]) < MaxEntries
    /\ entry' = [entry EXCEPT ![cl] = @ \cup {<<NC, u>>}]
    /\ Barrier(color, entry', home, cl, {u})
    /\ UNCHANGED <<list, mode, home, grayagain, twups>>

\* OP_SETUPVAL
SetUpval(cl, u, v) ==
    /\ Kind[cl] = "closure" /\ u \in Upvals(Values(entry, cl))
    /\ entry' = [entry EXCEPT ![u] = {<<NC, v>>}]
    /\ Barrier(color, entry', home, u, {v})
    /\ UNCHANGED <<list, mode, home, grayagain, twups>>

\* One upvalue of luaF_closeupval: it leaves its thread and, when it is
\* marked, becomes black.
CloseUpval(th, u) ==
    /\ Kind[u] = "upval" /\ home[u] = th
    /\ home' = [home EXCEPT ![u] = NC]
    /\ Barrier(IF IsWhite(u) THEN color ELSE [color EXCEPT ![u] = "black"],
               entry, home', u, Values(entry, u))
    /\ UNCHANGED <<list, entry, mode, grayagain, twups>>

\* setmetatable with another __mode; the table keeps its colour and its list.
SetMode(t, m) ==
    /\ t \in Weakable /\ m # mode[t]
    /\ mode' = [mode EXCEPT ![t] = m]
    /\ UNCHANGED <<list, entry, home, color, gray, grayagain, twups>>

\* luaC_checkfinalizer: an object that gets a metatable with __gc leaves
\* allgc, also when it is the next one to be swept.
CheckFinalizer(o) ==
    /\ o \in GCAllowed /\ list[o] = "allgc"
    /\ list' = [list EXCEPT ![o] = "finobj"]
    /\ color' = IF IsSweepPhase THEN [color EXCEPT ![o] = currentwhite] ELSE color
    /\ tosweep' = tosweep \ {o}
    /\ UNCHANGED <<entry, mode, home, gray, grayagain, twups>>

Mutate ==
    \E th \in Threads : LET here == OnStack(th) IN
        \/ /\ \/ \E o \in Obj : New(th, o) \/ Intern(th, o)
              \/ \E o \in here, v \in Obj : Load(th, o, v)
              \/ \E v \in here : Pop(th, v)
              \/ \E t, v \in here, k \in here \cup {NC} : SetTable(t, k, v)
              \/ \E t \in here : \E e \in entry[t] : ClearEntry(t, e)
              \/ \E o, v \in here : \E old \in entry[o] \cup {<<NC, NC>>} :
                    SetUserValue(o, old, v) \/ SetClosureSlot(o, old, v)
              \/ \E cl, v \in here, u \in Obj : OpenUpval(th, cl, u, v)
              \/ \E cl \in here, u \in Obj : ShareUpval(th, cl, u)
              \/ \E cl, v \in here, u \in Obj : SetUpval(cl, u, v)
              \/ \E u \in Obj : CloseUpval(th, u)
              \/ \E t \in here, m \in Modes : SetMode(t, m)
           /\ UNCHANGED tosweep
        \/ \E o \in here : CheckFinalizer(o)

Mutator ==
    /\ MutatorRuns /\ Mutate
    /\ UNCHANGED <<weak, allweak, ephemeron, locals, currentwhite, gcstate,
                   atomicstep, full, gcemergency, finalizing>>

-----------------------------------------------------------------------------
(* Visiting gray objects: propagatemark.                                   *)

\* o leaves the list it was in, the objects of S are marked, and o goes to
\* the list `dest', or to none and stays black.
Visit(o, S, dest) ==
    LET col == [color EXCEPT ![o] = IF dest = "none" THEN "black" ELSE "gray"]
    IN  /\ color' = ReallyMark(col, entry, home, S)
        /\ gray' = (gray \ {o}) \cup ToVisit(col, entry, S)
        /\ grayagain' = grayagain \cup {x \in {o} : dest = "grayagain"}
        /\ weak' = weak \cup {x \in {o} : dest = "weak"}
        /\ allweak' = allweak \cup {x \in {o} : dest = "allweak"}
        /\ ephemeron' = ephemeron \cup {x \in {o} : dest = "ephemeron"}

\* Closures, userdata and strong tables: everything is marked.
VisitStrong(o) ==
    /\ \/ Kind[o] \in {"closure", "udata"}
       \/ Kind[o] = "table" /\ mode[o] = "strong"
    /\ Visit(o, Values(entry, o) \cup Keys(entry, o), "none")
    /\ UNCHANGED twups

\* A thread has no barriers, so outside `atomic' it is kept to be visited
\* again; `remarkupvals' may have removed it from twups.
VisitThread(th) ==
    /\ Kind[th] = "thread"
    /\ Visit(th, OnStack(th) \cup OpenUpvals(home, th),
             IF gcstate = "propagate" THEN "grayagain" ELSE "none")
    /\ twups' = IF gcstate = "atomic" /\ OpenUpvals(home, th) # {}
                THEN LinkInTwups(th) ELSE twups

ClearsGray(x) == x # NC /\ ~IsBlack(x) /\ Kind[x] # "string"  \* variant
KeepsDying(x) ==                                             \* variant
    IsWhite(x) /\ Kind[x] # "string" /\ list[x] # "finobj"

\* iscleared, apart from its marking of strings.
IsCleared(x) == IsWhite(x) /\ Kind[x] # "string"
StringsIn(S) == {x \in S : IsWhite(x) /\ Kind[x] = "string"}

\* Weak values: keys are marked.  An array part is taken to hold white values;
\* without one the values are read up to the first that can be cleared, which
\* marks the strings before it.
VisitWeakValue(t) ==
    LET array == \E e \in entry[t] : e[1] = NC
        clears == array \/ \E v \in Values(entry, t) : IsCleared(v)
        strings == StringsIn(Values(entry, t))
    IN  /\ Kind[t] = "table" /\ mode[t] = "weakvalue"
        /\ \E read \in SUBSET strings :
              /\ array => read = {}
              /\ ~clears => read = strings
              /\ Visit(t, Keys(entry, t) \cup read,
                       IF gcstate = "atomic" /\ clears THEN "weak" ELSE "grayagain")
        /\ UNCHANGED twups

\* Weak keys: the value of an entry is marked when its key is not white.  The
\* entries whose key is not marked yet are read first (the order in the table
\* is arbitrary; in another order the next visit marks less).
OpenEntries(t) == {e \in entry[t] : ~IsCleared(e[1])}
ShutEntries(t) == entry[t] \ OpenEntries(t)
EphemeronMarks(t) ==
    ({e[2] : e \in OpenEntries(t)} \ {NC}) \cup StringsIn(Keys(entry, t))
ListedTooEarly(t) ==                                         \* variant
    IF \E e \in ShutEntries(t) : IsWhite(e[2]) THEN "ephemeron"
    ELSE IF ShutEntries(t) # {} THEN "allweak"
    ELSE "none"
EphemeronList(t) ==
    IF gcstate = "propagate" THEN "grayagain"
    ELSE IF \E e \in ShutEntries(t) : IsWhite(e[2]) THEN "ephemeron"
    ELSE IF ShutEntries(t) # {} THEN "allweak"
    ELSE "none"

VisitEphemeron(t) ==
    /\ Kind[t] = "table" /\ mode[t] = "ephemeron"
    /\ Visit(t, EphemeronMarks(t), EphemeronList(t))
    /\ UNCHANGED twups

VisitAllWeak(t) ==
    /\ Kind[t] = "table" /\ mode[t] = "allweak"
    /\ Visit(t, {}, "allweak")
    /\ UNCHANGED twups

PropagateMark ==
    \E o \in gray :
        VisitStrong(o) \/ VisitThread(o) \/ VisitWeakValue(o)
        \/ VisitEphemeron(o) \/ VisitAllWeak(o)

-----------------------------------------------------------------------------
(* The steps of the collector.                                             *)

\* GCTM stops the collector while a finalizer runs (lgc.c:909-918). A finalizer that
\* restarts it with collectgarbage("restart") (lapi.c:1140) is left out.
CollectorRuns == finalizing = NC

InList(l) == {o \in Obj : list[o] = l}

\* restartcollection
Start ==
    /\ gcstate = "pause"
    /\ gcstate' = "propagate"
    /\ LET roots == {Main} \cup InList("tobefnz")
       IN  /\ color' = ReallyMark(color, entry, home, roots)
           /\ gray' = ToVisit(color, entry, roots)
    /\ grayagain' = {} /\ weak' = {} /\ allweak' = {} /\ ephemeron' = {}
    /\ UNCHANGED <<heap, twups, locals, currentwhite, atomicstep, tosweep, full,
                   gcemergency>>

Propagate ==
    /\ gcstate = "propagate" /\ PropagateMark
    /\ UNCHANGED <<heap, locals, control>>

EndPropagate ==
    /\ gcstate = "propagate" /\ gray = {}
    /\ gcstate' = "enteratomic"
    /\ UNCHANGED <<heap, marks, locals, currentwhite, atomicstep, tosweep, full,
                   gcemergency>>

\* The first lines of atomic.
EnterAtomic ==
    /\ gcstate = "enteratomic"
    /\ gcstate' = "atomic" /\ atomicstep' = "marked"
    /\ saved' = grayagain /\ grayagain' = {}
    /\ color' = ReallyMark(color, entry, home, {Main})
    /\ gray' = gray \cup ToVisit(color, entry, {Main})
    /\ UNCHANGED <<heap, weak, allweak, ephemeron, twups, origweak, origall,
                   round, changed, currentwhite, tosweep, full, gcemergency>>

AtomicPropagate ==
    /\ gcstate = "atomic" /\ PropagateMark
    /\ UNCHANGED <<heap, locals, control>>

Step(from, to) ==
    /\ atomicstep = from /\ gray = {}
    /\ atomicstep' = to
    /\ UNCHANGED <<currentwhite, full, gcemergency>>

NotRemarked(threads) == {}                                   \* variant
RemarkedValues(threads) ==
    Contents(entry, {u \in Obj : home[u] \in threads /\ ~IsWhite(u)})

\* remarkupvals: the threads that are not marked, or have no open upvalues,
\* leave twups; the values of the upvalues that are marked are marked.
RemarkUpvals ==
    LET keep == {th \in twups : ~IsWhite(th) /\ OpenUpvals(home, th) # {}}
        S == RemarkedValues(twups \ keep)
    IN  /\ Step("marked", "remarked")
        /\ twups' = keep
        /\ color' = ReallyMark(color, entry, home, S)
        /\ gray' = ToVisit(color, entry, S)
        /\ UNCHANGED <<heap, grayagain, weak, allweak, ephemeron, locals,
                       gcstate, tosweep>>

\* The objects kept for the atomic phase are visited again.
VisitAgain ==
    /\ Step("remarked", "again")
    /\ gray' = saved /\ saved' = {}
    /\ UNCHANGED <<heap, color, grayagain, weak, allweak, ephemeron, twups,
                   origweak, origall, round, changed, gcstate, tosweep>>

\* convergeephemerons, before and after resurrection
Converge(from, to) ==
    /\ Step(from, to)
    /\ round' = ephemeron /\ ephemeron' = {} /\ changed' = FALSE
    /\ UNCHANGED <<heap, color, gray, grayagain, weak, allweak, twups, saved,
                   origweak, origall, gcstate, tosweep>>

Converging == atomicstep \in {"converge", "reconverge"}

\* One table of the round; what it marks is propagated before the next one.
ConvergeTable(t) ==
    /\ Converging /\ gray = {} /\ t \in round
    /\ Visit(t, EphemeronMarks(t), EphemeronList(t))
    /\ round' = round \ {t}
    /\ changed' = (changed \/ \E e \in OpenEntries(t) : IsWhite(e[2]))
    /\ UNCHANGED <<heap, twups, saved, origweak, origall, control>>

OneRound == FALSE                                            \* variant
MustRepeat == changed

\* A round that marked nothing is the last one.
EndRound ==
    /\ Converging /\ round = {}
    /\ IF MustRepeat
       THEN Converge(atomicstep, atomicstep)
       ELSE /\ Step(atomicstep,
                    IF atomicstep = "converge" THEN "separate" ELSE "clear")
            /\ UNCHANGED <<heap, marks, locals, gcstate, tosweep>>

\* clearbyvalues and clearbykeys over the tables of L: entries go, and strings
\* are marked because they are never removed for being weak.
ClearedEntries(ent, L, part) ==
    [o \in Obj |-> {e \in ent[o] : o \in L => ~IsCleared(e[part])}]
ClearedMarks(col, ent, L, part) ==
    [o \in Obj |-> IF /\ Kind[o] = "string" /\ col[o] \in Whites
                      /\ \E t \in L : \E e \in ent[t] : e[part] = o
                   THEN "black" ELSE col[o]]

\* Weak values are cleared first; then separatetobefnz and markbeingfnz give
\* the unreachable objects with a finalizer a last life.
Separate ==
    LET tables == weak \cup allweak
        col == ClearedMarks(color, entry, tables, 2)
        dying == {o \in InList("finobj") : IsWhite(o)}
        roots == InList("tobefnz") \cup dying
    IN  /\ Step("separate", "resurrect")
        /\ entry' = ClearedEntries(entry, tables, 2)
        /\ origweak' = weak /\ origall' = allweak
        /\ list' = [o \in Obj |-> IF o \in dying THEN "tobefnz" ELSE list[o]]
        /\ color' = ReallyMark(col, entry', home, roots)
        /\ gray' = ToVisit(col, entry', roots)
        /\ UNCHANGED <<mode, home, grayagain, weak, allweak, ephemeron, twups,
                       saved, round, changed, gcstate, tosweep>>

\* The end of atomic: weak keys are cleared, then the values of the tables
\* that resurrection added, and the whites are exchanged.  entersweep follows.
Flip ==
    LET byKey == ephemeron \cup allweak
        byValue == (weak \ origweak) \cup (allweak \ origall)
        kept == ClearedEntries(entry, byKey, 1)
    IN  /\ atomicstep = "clear" /\ gray = {}
        /\ entry' = ClearedEntries(kept, byValue, 2)
        /\ color' = ClearedMarks(ClearedMarks(color, entry, byKey, 1),
                                 kept, byValue, 2)
        /\ currentwhite' = OtherWhite
        /\ gcstate' = "swpallgc" /\ atomicstep' = "tolive"
        /\ tosweep' = InList("allgc")
        /\ origweak' = {} /\ origall' = {} /\ changed' = FALSE
        /\ UNCHANGED <<list, mode, home, gray, grayagain, weak, allweak, ephemeron,
                       twups, saved, round, full, gcemergency>>

Atomic ==
    \/ AtomicPropagate \/ RemarkUpvals \/ VisitAgain
    \/ Converge("again", "converge") \/ Converge("resurrect", "reconverge")
    \/ \E t \in round : ConvergeTable(t)
    \/ EndRound \/ Separate \/ Flip

-----------------------------------------------------------------------------
(* Sweeping, finalizers and full collections.                              *)

UpvalNotUnlinked(o) == [u \in Obj |-> IF home[u] = o THEN NC ELSE home[u]]  \* variant
HomeWithout(o) == [u \in Obj |-> IF u = o \/ home[u] = o THEN NC ELSE home[u]]

\* freeobj: a thread closes its open upvalues, an open upvalue leaves its thread.
\* (What is free has no mark; white0 stands for that.)
Free(o) ==
    /\ list' = [list EXCEPT ![o] = "free"]
    /\ entry' = [entry EXCEPT ![o] = {}]
    /\ mode' = [mode EXCEPT ![o] = "strong"]
    /\ home' = HomeWithout(o)
    /\ LET marked == {u \in OpenUpvals(home, o) : ~IsWhite(u)}
           whitened == {u \in marked : WhiteIn(color, Values(entry, u)) # {}}
       IN  color' = [u \in Obj |-> IF u = o THEN "white0"
                                   ELSE IF u \in whitened THEN currentwhite
                                   ELSE IF u \in marked THEN "black" ELSE color[u]]

\* One object of sweeplist.  The steps of sweeptolive end at a live object.
SweepOne(o) ==
    /\ IsSweepPhase /\ o \in tosweep
    /\ IF IsDead(o)
       THEN Free(o) /\ UNCHANGED atomicstep
       ELSE /\ color' = [color EXCEPT ![o] = currentwhite]
            /\ atomicstep' = "none"
            /\ UNCHANGED heap
    /\ tosweep' = tosweep \ {o}
    /\ UNCHANGED <<gray, grayagain, weak, allweak, ephemeron, twups, locals,
                   currentwhite, gcstate, full, gcemergency>>

\* sweepstep at the end of a list (where sweeptolive would end too), and the
\* step after the last one.
NextSweep ==
    /\ IsSweepPhase /\ tosweep = {}
    /\ gcstate' = CASE gcstate = "swpallgc" -> "swpfinobj"
                    [] gcstate = "swpfinobj" -> "swptobefnz"
                    [] gcstate = "swptobefnz" -> "swpend"
                    [] OTHER -> "callfin"
    /\ tosweep' = CASE gcstate = "swpallgc" -> InList("finobj")
                    [] gcstate = "swpfinobj" -> InList("tobefnz")
                    [] OTHER -> {}
    /\ atomicstep' = "none"
    /\ UNCHANGED <<heap, marks, locals, currentwhite, full, gcemergency>>

StillQueued(o) == list                                       \* variant
Dequeue(o) == [list EXCEPT ![o] = "allgc"]

\* GCTM: the object is normal again and goes on the stack for its finalizer,
\* if the metatable still has one.
CallFinalizer(o) ==
    /\ gcstate = "callfin" /\ ~gcemergency /\ list[o] = "tobefnz"
    /\ list' = Dequeue(o)
    /\ \/ entry' = Push(entry, Main, o) /\ finalizing' = o
       \/ UNCHANGED <<entry, finalizing>>
    /\ UNCHANGED <<mode, home, marks, locals, control>>

\* The finalizer returns, normally or with an error.
FinalizerReturns ==
    /\ finalizing # NC /\ MutatorRuns
    /\ entry' = [entry EXCEPT ![Main] = @ \ {<<NC, finalizing>>}]
    /\ finalizing' = NC
    /\ UNCHANGED <<list, mode, home, marks, locals, control>>

MayEndCycle == gcemergency \/ InList("tobefnz") = {}

\* No finalizers left, or an emergency that may not run them.
EndCycle ==
    /\ gcstate = "callfin" /\ MayEndCycle
    /\ gcstate' = "pause"
    /\ full' = IF full = "drain" THEN "collect" ELSE "no"
    /\ gcemergency' = (gcemergency /\ full = "drain")
    /\ UNCHANGED <<heap, marks, locals, currentwhite, atomicstep, tosweep>>

NoDrain == "collect"                                         \* variant
FirstPart == IF gcstate = "pause" THEN "collect" ELSE "drain"

\* luaC_fullgc: a mark phase that has begun is given up by sweeping everything
\* back to white, the cycle is drained and a whole one runs.
FullGC(emergency) ==
    /\ full = "no" /\ atomicstep = "none"
    /\ full' = FirstPart
    /\ gcemergency' = emergency
    /\ IF KeepInvariant
       THEN gcstate' = "swpallgc" /\ atomicstep' = "tolive" /\ tosweep' = InList("allgc")
       ELSE UNCHANGED <<gcstate, atomicstep, tosweep>>
    /\ UNCHANGED <<heap, marks, locals, currentwhite>>

SingleStep ==
    \/ Start \/ Propagate \/ EndPropagate \/ EnterAtomic \/ Atomic
    \/ \E o \in tosweep : SweepOne(o)
    \/ NextSweep \/ EndCycle

Collector ==
    /\ CollectorRuns
    /\ \/ (SingleStep \/ \E e \in FullKinds : FullGC(e)) /\ UNCHANGED finalizing
       \/ \E o \in Obj : CallFinalizer(o)

-----------------------------------------------------------------------------
Init ==
    /\ list = [o \in Obj |-> IF o = Main THEN "allgc" ELSE "free"]
    /\ entry = [o \in Obj |-> {}]
    /\ mode = [o \in Obj |-> "strong"]
    /\ home = [o \in Obj |-> NC]
    /\ twups = {} /\ color = [o \in Obj |-> "white0"] /\ currentwhite = "white0"
    /\ gcstate = "pause" /\ atomicstep = "none"
    /\ gray = {} /\ grayagain = {} /\ weak = {} /\ allweak = {} /\ ephemeron = {}
    /\ saved = {} /\ origweak = {} /\ origall = {} /\ round = {}
    /\ changed = FALSE /\ tosweep = {}
    /\ full = "no" /\ gcemergency = FALSE /\ finalizing = NC

Next == Mutator \/ Collector \/ FinalizerReturns

Spec == Init /\ [][Next]_vars

-----------------------------------------------------------------------------
(* Properties.                                                             *)

\* Every variable stays in its domain.
Domains ==
    /\ list \in [Obj -> {"free", "allgc", "finobj", "tobefnz"}]
    /\ entry \in [Obj -> SUBSET (Val \X Val)]
    /\ mode \in [Obj -> Modes]
    /\ home \in [Obj -> Val]
    /\ color \in [Obj -> Whites \cup {"gray", "black"}]
    /\ currentwhite \in Whites
    /\ gcstate \in States
    /\ atomicstep \in AtomicSteps
    /\ twups \cup gray \cup grayagain \cup weak \cup allweak \cup ephemeron
         \subseteq Obj
    /\ saved \cup origweak \cup origall \cup round \cup tosweep \subseteq Obj
    /\ changed \in BOOLEAN
    /\ full \in {"no", "drain", "collect"} /\ gcemergency \in BOOLEAN
    /\ finalizing \in Val

\* The phases of a cycle and the lists agree: only a sweep has objects to sweep,
\* the locals of atomic are empty outside of the steps that use them, and "atomic"
\* may assert that no table was put in `ephemeron' or `weak' before it began.
Phases ==
    /\ atomicstep = "tolive" => gcstate = "swpallgc"
    /\ gcstate = "atomic" <=> atomicstep \notin {"none", "tolive"}
    /\ ~IsSweepPhase => tosweep = {}
    /\ atomicstep \notin {"marked", "remarked"} => saved = {}
    /\ ~Converging => round = {}
    /\ gcstate \in {"propagate", "enteratomic"} => weak = {} /\ ephemeron = {}

TypeOK == Domains /\ Phases

\* freeobj: what has been freed holds nothing, and an open upvalue never refers to
\* the stack of a thread that has been freed.
FreedIsUnlinked ==
    \A o \in Obj :
        /\ ~Allocated(o) => entry[o] = {} /\ home[o] = NC
        /\ home[o] # NC => Kind[home[o]] = "thread" /\ Allocated(home[o])

Live == {o \in Obj : Allocated(o) /\ ~IsDead(o)}

\* An object that is neither free nor condemned never refers to one that is:
\* whatever the program can still reach through any chain of strong or weak
\* references has not been freed and will not be by the sweep in progress.
NoDangling == \A o \in Live : Refs(o) \subseteq Live

\* The main invariant of lgc.h: while marking, a black object never points to a
\* white one.
TriColor ==
    KeepInvariant =>
        \A o \in Obj : Allocated(o) /\ IsBlack(o) => \A r \in Refs(o) : ~IsWhite(r)

GrayLists == gray \cup grayagain \cup weak \cup allweak \cup ephemeron \cup saved \cup round

\* Its second half: while marking, the gray objects are the members of the gray
\* lists and the open upvalues.
GrayListed ==
    KeepInvariant =>
        /\ \A o \in Obj : Allocated(o) /\ IsGray(o) =>
              o \in GrayLists \/ (Kind[o] = "upval" /\ home[o] # NC)
        /\ \A o \in GrayLists : Allocated(o) /\ IsGray(o)

\* The assertion of luaC_barrier_: outside of the two phases that handle it, no
\* object is black, so no barrier can be needed.  All is white between cycles.
WhiteBetweenCycles ==
    gcstate \in {"callfin", "pause"} =>
        \A o \in Obj : Allocated(o) => color[o] = currentwhite

\* traversethread and luaF_findupval: a live thread with open upvalues is in
\* twups, so that remarkupvals will find it; a dead one never stays there.
UpvalsHaveThread ==
    /\ twups \subseteq {o \in Obj : Allocated(o)}
    /\ atomicstep \in {"none", "marked"} =>
          \A u \in Live : home[u] # NC /\ home[u] \in Live => home[u] \in twups

\* An open upvalue that survives a collection keeps its value even when its
\* thread is being collected, "too late for the barrier to act".
OpenUpvalValues ==
    IsSweepPhase =>
        \A u \in Live : home[u] # NC => Values(entry, u) \subseteq Live

\* What the program can still name: strong references, the keys of tables with
\* weak values, the values that an ephemeron holds for keys in the set, and strings,
\* which "are 'values', so are never weak".
NeverWeak(S) == {x \in S : Kind[x] = "string"}
HeldEntries(S, o) ==
    {e \in entry[o] : e[1] \in S \cup {NC} \/ Kind[e[1]] = "string"}
Held(S, o) ==
    CASE mode[o] = "strong" -> Refs(o)
      [] mode[o] = "weakvalue" -> Keys(entry, o) \cup NeverWeak(Refs(o))
      [] mode[o] = "ephemeron" ->
            ({e[2] : e \in HeldEntries(S, o)} \ {NC}) \cup NeverWeak(Refs(o))
      [] mode[o] = "allweak" -> NeverWeak(Refs(o))

\* The least set of objects with the roots and all that its members hold.
Closed(S) == \A o \in S : Held(S, o) \subseteq S
Reach(roots) ==
    LET closed == {S \in SUBSET {o \in Obj : Allocated(o)} : roots \subseteq S /\ Closed(S)}
    IN  {o \in Obj : \A S \in closed : o \in S}

ToSurvive == Reach({Main} \cup InList("tobefnz"))

\* atomic: in a collection that the program did not disturb, "at this point, all
\* strongly accessible objects are marked" (and what a previous cycle left to be
\* finalized), and no other.  Strings that only weak tables hold are marked later.
ExactMarking ==
    full = "collect" /\ atomicstep = "separate" =>
        LET marked == {o \in Obj : Allocated(o) /\ ~IsWhite(o)}
        IN  marked \subseteq ToSurvive /\ ToSurvive \ marked = NeverWeak(ToSurvive \ marked)

\* luaC_fullgc: when the finalizers are about to run, no garbage is left, but for
\* strings that were in an entry of a weak table when it was removed, unless a
\* table with weak values keeps its keys until the cycle after the removal.
FullCollectsGarbage ==
    full = "collect" /\ gcstate = "swpend" /\ (\A o \in Obj : mode[o] # "weakvalue") =>
        \A o \in Obj : Allocated(o) /\ Kind[o] # "string" => o \in ToSurvive

\* iscleared: the collector removes an entry of a weak table only for a key or a
\* value that was really collected; for keys, being finalized does not count.
ClearedAreDead ==
    \A t \in Obj : \A e \in entry[t] \ entry'[t] :
        \E x \in {e[1], e[2]} : x # NC /\ x \notin ToSurvive

\* ... but a value leaves the weak tables before its finalizer can run, except
\* for tables that are themselves resurrected.
WeakValuesClean ==
    \A t \in Reach({Main}) : mode[t] \in {"weakvalue", "allweak"} =>
        Values(entry, t) \cap InList("tobefnz") = {}

\* The atomic phase removes from weak tables what is dead, nothing that is alive,
\* and no value that is only being finalized stays in one.
WeakClearing ==
    [][/\ atomicstep \in {"separate", "clear"} => ClearedAreDead
       /\ gcstate = "atomic" /\ gcstate' = "swpallgc" => WeakValuesClean']_vars

\* luaC_fullgc comes to an end, if the finalizers that it calls do.
Fairness == WF_vars(full # "no" /\ Collector) /\ WF_vars(FinalizerReturns)
FairSpec == Spec /\ Fairness
FullTerminates == (full # "no") ~> (full = "no")

-----------------------------------------------------------------------------
(* The inductive invariant, in named parts.  None of NoDangling, TriColor  *)
(* or GrayListed is inductive alone: what saves an object at the end of    *)
(* `atomic' is the list in which its referrer waits.                       *)

\* What refers to what: only tables have keys, only closures hold upvalues, strings
\* refer to nothing.
HeapShape ==
    /\ list[Main] = "allgc" /\ ~IsDead(Main)
    /\ \A o \in Obj : list[o] \in {"finobj", "tobefnz"} => o \in GCAllowed
    /\ \A o \in Obj : home[o] # NC => Kind[o] = "upval"
    /\ \A o \in Obj : \A e \in entry[o] :
          /\ Kind[o] # "string"
          /\ e[1] # NC => Kind[o] = "table" /\ Kind[e[1]] # "upval"
          /\ e[2] # NC /\ Kind[e[2]] = "upval" => Kind[o] = "closure"

\* Objects are condemned by the flip and gone at the end of the sweep.
DeadAreSwept ==
    \A o \in Obj : Allocated(o) /\ IsDead(o) =>
        gcstate = "swpallgc" /\ o \in tosweep /\ list[o] = "allgc"

\* What the sweep has not whitened yet is in front of it.
MarkedAreSwept ==
    /\ IsSweepPhase => tosweep \subseteq {o \in Obj : Allocated(o)}
    /\ ~KeepInvariant => \A o \in Obj : Allocated(o) /\ ~IsWhite(o) =>
          \/ o \in tosweep
          \/ gcstate = "swpallgc" /\ list[o] \in {"finobj", "tobefnz"}
          \/ gcstate = "swpfinobj" /\ list[o] = "tobefnz"

\* While marking, an object is in one gray list (it has one field `gclist').
OneList ==
    KeepInvariant =>
        /\ \A o \in gray :
              o \notin grayagain \cup weak \cup allweak \cup ephemeron \cup saved \cup round
        /\ \A o \in grayagain : o \notin weak \cup allweak \cup ephemeron \cup saved \cup round
        /\ \A o \in weak : o \notin allweak \cup ephemeron \cup saved \cup round
        /\ \A o \in allweak : o \notin ephemeron \cup saved \cup round
        /\ \A o \in ephemeron : o \notin saved \cup round
        /\ \A o \in saved : o \notin round

\* While marking, the lists that hold tables only, and the main thread; what is visited
\* when it is marked waits in no list.
MarkLists ==
    KeepInvariant =>
        /\ ~IsWhite(Main)
        /\ \A t \in weak \cup allweak \cup ephemeron \cup round : Kind[t] = "table"
        /\ \A o \in gray \cup grayagain \cup saved : Kind[o] \notin LeafKinds
        /\ gcstate # "atomic" => \A th \in Obj :
              Kind[th] = "thread" /\ Allocated(th) => ~IsBlack(th)

\* In atomic, what each list still owes to its members.
Resurrected == atomicstep \in {"resurrect", "reconverge", "clear"}
Converged == (Converging /\ ~changed) \/ atomicstep \in {"separate", "clear"}
AtomicLists ==
    gcstate = "atomic" =>
        /\ \A o \in grayagain : Kind[o] = "table" /\ \A r \in Refs(o) : ~IsWhite(r)
        /\ \A t \in weak : \A k \in Keys(entry, t) : ~IsWhite(k)
        /\ Resurrected =>
              /\ \A t \in origweak \cup origall : \A v \in Values(entry, t) : ~IsWhite(v)
              /\ \A o \in Obj : list[o] \in {"finobj", "tobefnz"} => ~IsWhite(o)
        /\ Converged =>
              /\ gray = {}
              /\ \A t \in ephemeron : \A e \in OpenEntries(t) : ~IsWhite(e[2])

\* The open upvalues, whose colour no list records.
UpvalLists ==
    /\ twups \subseteq {th \in Obj : Kind[th] = "thread" /\ Allocated(th) /\ ~IsDead(th)}
    /\ atomicstep \in {"none", "tolive", "marked"} =>
          \A u \in Live : home[u] # NC /\ home[u] \in Live => home[u] \in twups
    /\ gcstate = "atomic" /\ atomicstep # "marked" =>
          /\ \A th \in twups : ~IsWhite(th)
          /\ \A u \in Live : home[u] # NC /\ IsBlack(home[u]) => home[u] \in twups
          /\ \A u \in Live : home[u] # NC /\ IsGray(u) =>
                \/ home[u] \in gray \cup saved
                \/ \A v \in Values(entry, u) : ~IsWhite(v)

IInv ==
    /\ TypeOK /\ HeapShape /\ FreedIsUnlinked /\ NoDangling
    /\ DeadAreSwept /\ MarkedAreSwept
    /\ TriColor /\ GrayListed /\ OneList /\ MarkLists /\ AtomicLists /\ UpvalLists

=============================================================================
