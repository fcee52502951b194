---------------------------- MODULE LuaGCProofs ----------------------------
(***************************************************************************)
(* The incremental collector, for every heap, every bound and every        *)
(* interleaving of the program with the collector.  Three parts: type      *)
(* correctness and what the operations of the program keep; safety, from   *)
(* an inductive invariant; and exactness: a full collection marks what the *)
(* program can reach and frees the rest.  Reachability is the least closed *)
(* set, so that exactness needs no induction: every mark stays within that *)
(* set, and what is marked when the gray lists are empty is closed.        *)
(***************************************************************************)
EXTENDS LuaGC, TLAPS

Colors == Whites \cup {"gray", "black"}

\* reallymarkobject for a set S: what turns gray or black, and why.
LEMMA MarkFacts ==
    ASSUME NEW col \in [Obj -> Colors], NEW ent \in [Obj -> SUBSET (Val \X Val)],
           NEW hm \in [Obj -> Val], NEW S \in SUBSET Obj,
           \A u \in Obj : Kind[u] = "upval" => \A v \in Values(ent, u) : Kind[v] # "upval"
    PROVE  LET new == ReallyMark(col, ent, hm, S) IN
           /\ new \in [Obj -> Colors]
           /\ \A o \in Obj : new[o] = col[o] \/ (col[o] \in Whites /\ new[o] \in {"gray", "black"})
           /\ \A o \in S : new[o] \notin Whites
           /\ \A o \in Obj : new[o] = "black" /\ col[o] # "black" =>
                 Kind[o] = "string" \/ (Kind[o] = "upval" /\ hm[o] = NC)
           /\ \A o \in Obj : new[o] \notin Whites /\ col[o] \in Whites /\ Kind[o] = "upval" =>
                 \A v \in Values(ent, o) : new[v] \notin Whites
           /\ \A o \in Obj : new[o] = "gray" /\ col[o] # "gray" =>
                 o \in ToVisit(col, ent, S) \/ (Kind[o] = "upval" /\ hm[o] # NC)
           /\ \A o \in ToVisit(col, ent, S) :
                 o \in Obj /\ new[o] = "gray" /\ col[o] \in Whites /\ Kind[o] \notin LeafKinds
<1> DEFINE new == ReallyMark(col, ent, hm, S)
           T == Touched(col, ent, S)
<1>1. T \subseteq Obj /\ \A o \in T : col[o] \in Whites
  BY DEF Touched, WhiteIn, Contents, Values, Val
<1>2. \A o \in Obj : new[o] = IF o \in T THEN MarkedAs(hm, o) ELSE col[o]
  BY DEF ReallyMark
<1>3. \A o \in Obj : MarkedAs(hm, o) \in {"gray", "black"}
  BY DEF MarkedAs
<1>4. \A o \in Obj : new[o] \in Colors
  BY <1>2, <1>3 DEF Colors
<1>5. new \in [Obj -> Colors]
  BY <1>4 DEF ReallyMark
<1>6. \A o \in S : new[o] \notin Whites
  BY <1>2, <1>3 DEF Touched, WhiteIn, Whites
<1>7. \A o \in T : Kind[o] = "upval" => \A v \in Values(ent, o) : v \in Obj /\ (v \in T \/ col[v] \notin Whites)
  BY DEF Touched, WhiteIn, Contents, Values, Val
<1>8. \A o \in Obj : new[o] \notin Whites /\ col[o] \in Whites /\ Kind[o] = "upval" =>
                 \A v \in Values(ent, o) : new[v] \notin Whites
  BY <1>2, <1>3, <1>7 DEF Whites
<1>9. \A o \in Obj : new[o] = col[o] \/ (col[o] \in Whites /\ new[o] \in {"gray", "black"})
  BY <1>1, <1>2, <1>3
<1>10. \A o \in Obj : new[o] = "black" /\ col[o] # "black" =>
                 Kind[o] = "string" \/ (Kind[o] = "upval" /\ hm[o] = NC)
  BY <1>2 DEF MarkedAs
<1>11. \A o \in Obj : new[o] = "gray" /\ col[o] # "gray" =>
                 o \in ToVisit(col, ent, S) \/ (Kind[o] = "upval" /\ hm[o] # NC)
  BY <1>2 DEF MarkedAs, ToVisit, LeafKinds
<1>12. \A o \in ToVisit(col, ent, S) :
                 o \in Obj /\ new[o] = "gray" /\ col[o] \in Whites /\ Kind[o] \notin LeafKinds
  BY <1>1, <1>2 DEF MarkedAs, ToVisit, LeafKinds
<1> QED
  BY <1>5, <1>6, <1>8, <1>9, <1>10, <1>11, <1>12

\* References are objects.
LEMMA RefTypes ==
    ASSUME NEW ent \in [Obj -> SUBSET (Val \X Val)], NEW hm \in [Obj -> Val]
    PROVE  /\ \A o \in Obj : Values(ent, o) \subseteq Obj /\ Keys(ent, o) \subseteq Obj
           /\ \A S \in SUBSET Obj : Contents(ent, S) \subseteq Obj
           /\ \A th : OpenUpvals(hm, th) \subseteq Obj
<1>1. \A o \in Obj : ent[o] \subseteq Val \X Val
  OBVIOUS
<1>2. \A o \in Obj : Values(ent, o) \subseteq Obj /\ Keys(ent, o) \subseteq Obj
  BY <1>1 DEF Values, Keys, Val
<1>3. \A S \in SUBSET Obj : Contents(ent, S) \subseteq Obj
  BY <1>2 DEF Contents
<1> QED
  BY <1>2, <1>3 DEF OpenUpvals

\* Marking yields colours and objects to visit.
LEMMA MarkTypes ==
    ASSUME NEW col \in [Obj -> Colors], NEW ent \in [Obj -> SUBSET (Val \X Val)],
           NEW hm \in [Obj -> Val], NEW S \in SUBSET Obj
    PROVE  /\ ReallyMark(col, ent, hm, S) \in [Obj -> Colors]
           /\ ToVisit(col, ent, S) \subseteq Obj
<1>1. \A o \in Obj : MarkedAs(hm, o) \in Colors
  BY DEF MarkedAs, Colors
<1>2. ReallyMark(col, ent, hm, S) \in [Obj -> Colors]
  BY <1>1 DEF ReallyMark
<1>3. Touched(col, ent, S) \subseteq Obj
  BY RefTypes DEF Touched, WhiteIn
<1> QED
  BY <1>2, <1>3 DEF ToVisit

\* luaC_barrier_ yields colours and gray objects.
LEMMA BarrierTypes ==
    ASSUME Domains, NEW col \in [Obj -> Colors], NEW ent \in [Obj -> SUBSET (Val \X Val)],
           NEW hm \in [Obj -> Val], NEW o \in Obj, NEW S \in SUBSET Obj,
           Barrier(col, ent, hm, o, S)
    PROVE  color' \in [Obj -> Colors] /\ gray' \subseteq Obj
<1>1. currentwhite \in Colors
  BY DEF Domains, Colors
<1> QED
  BY <1>1, MarkTypes DEF Barrier, Domains

\* luaC_barrierback_ does too.
LEMMA BackTypes ==
    ASSUME Domains, NEW o \in Obj, NEW S, BarrierBack(o, S)
    PROVE  color' \in [Obj -> Colors] /\ grayagain' \subseteq Obj
  BY DEF BarrierBack, Domains, Colors

\* So does the visit of an object, whatever list it goes to.
LEMMA VisitTypes ==
    ASSUME Domains, NEW o \in Obj, NEW S \in SUBSET Obj, NEW dest, Visit(o, S, dest)
    PROVE  /\ color' \in [Obj -> Colors]
           /\ gray' \subseteq Obj /\ grayagain' \subseteq Obj /\ weak' \subseteq Obj
           /\ allweak' \subseteq Obj /\ ephemeron' \subseteq Obj
<1> DEFINE col == [color EXCEPT ![o] = IF dest = "none" THEN "black" ELSE "gray"]
<1>1. col \in [Obj -> Colors]
  BY DEF Domains, Colors
<1>2. ReallyMark(col, entry, home, S) \in [Obj -> Colors] /\ ToVisit(col, entry, S) \subseteq Obj
  <2> HIDE DEF col
  <2> QED
    BY <1>1, MarkTypes DEF Domains
<1> QED
  BY <1>2 DEF Visit, Domains

\* What an action of the mutator may change, and the domains it has to respect.
MutatedDomains ==
    /\ list \in [Obj -> {"free", "allgc", "finobj", "tobefnz"}]
    /\ entry \in [Obj -> SUBSET (Val \X Val)]
    /\ mode \in [Obj -> Modes]
    /\ home \in [Obj -> Val]
    /\ color \in [Obj -> Colors]
    /\ twups \subseteq Obj /\ gray \subseteq Obj /\ grayagain \subseteq Obj
    /\ tosweep \subseteq Obj

\* The operations of the program respect the domains, and put nothing in front of
\* the sweep.
LEMMA MutateTypes ==
    ASSUME Domains, Mutate
    PROVE  MutatedDomains' /\ tosweep' \subseteq tosweep
<1> USE ConstantsAssumption DEF Domains, Colors
<1>1. PICK th \in Threads : LET here == OnStack(th) IN
        \/ /\ \/ \E o \in Obj : New(th, o) \/ Intern(th, o)
              \/ \E o \in here, v \in Obj : Load(th, o, v)
              \/ \E v \in here : Pop(th, v)
              \/ \E t, v \in here, k \in here \cup {NC} : SetTable(t, k, v)
              \/ \E t \in here : \E e \in entry[t] : ClearEntry(t, e)
              \/ \E o, v \in here : \E old \in entry[o] \cup {<<NC, NC>>} :
                    SetUserValue(o, old, v) \/ SetClosureSlot(o, old, v)
              \/ \E cl, v \in here, u \in Obj : OpenUpval(th, cl, u, v)
              \/ \E cl \in here, u \in Obj : ShareUpval(th, cl, u)
              \/ \E cl, v \in here, u \in Obj : SetUpval(cl, u, v)
              \/ \E u \in Obj : CloseUpval(th, u)
              \/ \E t \in here, m \in Modes : SetMode(t, m)
           /\ UNCHANGED tosweep
        \/ \E o \in here : CheckFinalizer(o)
  BY DEF Mutate
<1> DEFINE here == OnStack(th)
<1>2. OnStack(Main) \subseteq Obj
  BY RefTypes DEF OnStack
<1>3. th \in Obj
  BY <1>2 DEF Threads
<1>4. here \subseteq Obj
  BY <1>3, RefTypes DEF OnStack
<1>5. \A v \in Val : Push(entry, th, v) \in [Obj -> SUBSET (Val \X Val)]
  <2> TAKE v \in Val
  <2>1. <<NC, v>> \in Val \X Val
    BY DEF Val
  <2> QED
    BY <1>3, <2>1 DEF Push
<1> HIDE DEF here
<1>a. CASE (\E o \in Obj : New(th, o) \/ Intern(th, o)) /\ UNCHANGED tosweep
  <2>1. PICK o \in Obj : New(th, o) \/ Intern(th, o)
    BY <1>a
  <2>2. /\ list' = [list EXCEPT ![o] = "allgc"] /\ entry' = Push(entry, th, o)
        /\ color' \in {color, [color EXCEPT ![o] = currentwhite]}
        /\ UNCHANGED <<mode, home, gray, grayagain, twups>>
    BY <2>1 DEF New, Intern
  <2>3. entry' \in [Obj -> SUBSET (Val \X Val)]
    BY <2>2, <1>5 DEF Val
  <2> QED
    <3>1. color' \in [Obj -> Colors] /\ list' \in [Obj -> {"free", "allgc", "finobj", "tobefnz"}]
      BY <2>2
    <3> QED
      BY <2>2, <2>3, <3>1, <1>a DEF MutatedDomains
<1>b. CASE (\E o \in here, v \in Obj : Load(th, o, v)) /\ UNCHANGED tosweep
  <2>1. PICK o \in here, v \in Obj : Load(th, o, v)
    BY <1>b
  <2>2. entry' = Push(entry, th, v) /\ v \in Val
    BY <2>1 DEF Load, Val
  <2> QED
    BY <2>1, <2>2, <1>5, <1>b DEF Load, MutatedDomains
<1>c. CASE (\E v \in here : Pop(th, v)) /\ UNCHANGED tosweep
  BY <1>c, <1>3 DEF Pop, MutatedDomains
<1>d. CASE (\E t, v \in here, k \in here \cup {NC} : SetTable(t, k, v)) /\ UNCHANGED tosweep
  <2>1. PICK t \in here, v \in here, k \in here \cup {NC} : SetTable(t, k, v)
    BY <1>d
  <2>2. entry' \in [Obj -> SUBSET (Val \X Val)]
    BY <2>1, <1>4 DEF SetTable, Val
  <2>3. color' \in [Obj -> Colors] /\ grayagain' \subseteq Obj
    BY <2>1, <1>4, BackTypes DEF SetTable
  <2> QED
    BY <2>1, <2>2, <2>3, <1>d DEF SetTable, MutatedDomains
<1>e. CASE (\E t \in here : \E e \in entry[t] : ClearEntry(t, e)) /\ UNCHANGED tosweep
  BY <1>e, <1>4 DEF ClearEntry, MutatedDomains
<1>f. CASE (\E o, v \in here : \E old \in entry[o] \cup {<<NC, NC>>} :
                    SetUserValue(o, old, v) \/ SetClosureSlot(o, old, v)) /\ UNCHANGED tosweep
  <2>1. PICK o \in here, v \in here : \E old \in entry[o] \cup {<<NC, NC>>} :
                    SetUserValue(o, old, v) \/ SetClosureSlot(o, old, v)
    BY <1>f
  <2>2. PICK old \in entry[o] \cup {<<NC, NC>>} :
                    SetUserValue(o, old, v) \/ SetClosureSlot(o, old, v)
    BY <2>1
  <2>3. entry' \in [Obj -> SUBSET (Val \X Val)]
    BY <2>2, <1>4 DEF SetUserValue, SetClosureSlot, PutSlot, Val
  <2>4. CASE SetUserValue(o, old, v)
    <3>1. color' \in [Obj -> Colors] /\ grayagain' \subseteq Obj
      BY <2>4, BackTypes, <1>4 DEF SetUserValue
    <3> QED
      BY <3>1, <2>3, <2>4, <1>f DEF SetUserValue, MutatedDomains
  <2>5. CASE SetClosureSlot(o, old, v)
    <3>1. Barrier(color, entry', home, o, {v}) /\ {v} \in SUBSET Obj /\ o \in Obj
      BY <2>5, <1>4 DEF SetClosureSlot
    <3>2. color' \in [Obj -> Colors] /\ gray' \subseteq Obj
      BY <3>1, <2>3, BarrierTypes
    <3> QED
      BY <3>2, <2>3, <2>5, <1>f DEF SetClosureSlot, MutatedDomains
  <2> QED
    BY <2>2, <2>4, <2>5
<1>g. CASE (\E cl, v \in here, u \in Obj : OpenUpval(th, cl, u, v)) /\ UNCHANGED tosweep
  <2>1. PICK cl \in here, v \in here, u \in Obj : OpenUpval(th, cl, u, v)
    BY <1>g
  <2>2. /\ list' \in [Obj -> {"free", "allgc", "finobj", "tobefnz"}]
        /\ home' \in [Obj -> Val] /\ twups' \subseteq Obj
    BY <2>1, <1>3 DEF OpenUpval, Val, LinkInTwups
  <2>3. entry' \in [Obj -> SUBSET (Val \X Val)]
    BY <2>1, <1>3, <1>4 DEF OpenUpval, Val
  <2>4. [color EXCEPT ![u] = currentwhite] \in [Obj -> Colors]
    BY DEF Whites
  <2>5. Barrier([color EXCEPT ![u] = currentwhite], entry', home', cl, {u}) /\ cl \in Obj
    BY <2>1, <1>4 DEF OpenUpval
  <2>6. color' \in [Obj -> Colors] /\ gray' \subseteq Obj
    <3> {u} \in SUBSET Obj
      OBVIOUS
    <3> QED
      BY <2>2, <2>3, <2>4, <2>5, BarrierTypes
  <2> QED
    BY <2>1, <2>2, <2>3, <2>6, <1>g DEF OpenUpval, MutatedDomains
<1>h. CASE (\E cl \in here, u \in Obj : ShareUpval(th, cl, u)) /\ UNCHANGED tosweep
  <2>1. PICK cl \in here, u \in Obj : ShareUpval(th, cl, u)
    BY <1>h
  <2>2. entry' \in [Obj -> SUBSET (Val \X Val)]
    BY <2>1, <1>4 DEF ShareUpval, Val
  <2>3. Barrier(color, entry', home, cl, {u}) /\ {u} \in SUBSET Obj /\ cl \in Obj
    BY <2>1, <1>4 DEF ShareUpval
  <2>4. color' \in [Obj -> Colors] /\ gray' \subseteq Obj
    BY <2>2, <2>3, BarrierTypes
  <2> QED
    BY <2>1, <2>2, <2>4, <1>h DEF ShareUpval, MutatedDomains
<1>i. CASE (\E cl, v \in here, u \in Obj : SetUpval(cl, u, v)) /\ UNCHANGED tosweep
  <2>1. PICK cl \in here, v \in here, u \in Obj : SetUpval(cl, u, v)
    BY <1>i
  <2>2. entry' \in [Obj -> SUBSET (Val \X Val)]
    BY <2>1, <1>4 DEF SetUpval, Val
  <2>3. Barrier(color, entry', home, u, {v}) /\ {v} \in SUBSET Obj
    BY <2>1, <1>4 DEF SetUpval
  <2>4. color' \in [Obj -> Colors] /\ gray' \subseteq Obj
    BY <2>2, <2>3, BarrierTypes
  <2> QED
    BY <2>1, <2>2, <2>4, <1>i DEF SetUpval, MutatedDomains
<1>j. CASE (\E u \in Obj : CloseUpval(th, u)) /\ UNCHANGED tosweep
  <2>1. PICK u \in Obj : CloseUpval(th, u)
    BY <1>j
  <2> DEFINE col == IF IsWhite(u) THEN color ELSE [color EXCEPT ![u] = "black"]
  <2>2. home' \in [Obj -> Val] /\ entry' = entry /\ col \in [Obj -> Colors]
    BY <2>1 DEF CloseUpval, Val
  <2>3. Barrier(col, entry', home', u, Values(entry, u)) /\ Values(entry, u) \in SUBSET Obj
    BY <2>1, RefTypes, <2>2 DEF CloseUpval
  <2>4. color' \in [Obj -> Colors] /\ gray' \subseteq Obj
    <3> HIDE DEF col
    <3> QED BY <2>2, <2>3, BarrierTypes
  <2> QED
    BY <2>1, <2>2, <2>4, <1>j DEF CloseUpval, MutatedDomains
<1>k. CASE (\E t \in here, m \in Modes : SetMode(t, m)) /\ UNCHANGED tosweep
  BY <1>k, <1>4 DEF SetMode, MutatedDomains
<1>l. CASE \E o \in here : CheckFinalizer(o)
  BY <1>l, <1>4 DEF CheckFinalizer, MutatedDomains
<1> QED
  BY <1>1, <1>a, <1>b, <1>c, <1>d, <1>e, <1>f, <1>g, <1>h, <1>i, <1>j, <1>k, <1>l DEF here

\* A step of the program.
LEMMA MutatorTypes ==
    ASSUME TypeOK, Mutator
    PROVE  TypeOK'
<1>1. MutatedDomains' /\ tosweep' \subseteq tosweep
  BY MutateTypes DEF TypeOK, Mutator
<1>2. Domains'
  BY <1>1 DEF Domains, TypeOK, Mutator, MutatedDomains, Colors, locals
<1>3. Phases'
  BY <1>1 DEF Phases, TypeOK, Mutator, locals, IsSweepPhase, Converging
<1> QED
  BY <1>2, <1>3 DEF TypeOK

\* Visiting an object of a set.
LEMMA SomeVisit ==
    ASSUME Domains, NEW t \in Obj,
           \/ VisitStrong(t) \/ VisitThread(t) \/ VisitWeakValue(t)
           \/ VisitEphemeron(t) \/ VisitAllWeak(t)
    PROVE  /\ \E S \in SUBSET Obj : \E dest : Visit(t, S, dest)
           /\ twups' \subseteq Obj
           /\ gcstate = "propagate" => weak' = weak /\ ephemeron' = ephemeron
<1> USE ConstantsAssumption DEF Domains
<1>1. Values(entry, t) \in SUBSET Obj /\ Keys(entry, t) \in SUBSET Obj
  BY RefTypes
<1>2. CASE VisitStrong(t)
  <2>1. Values(entry, t) \cup Keys(entry, t) \in SUBSET Obj
    BY <1>1
  <2>2. weak' = weak /\ ephemeron' = ephemeron
    BY <1>2 DEF VisitStrong, Visit
  <2> QED
    BY <1>2, <2>1, <2>2 DEF VisitStrong
<1>3. CASE VisitThread(t)
  <2>1. OnStack(t) \cup OpenUpvals(home, t) \in SUBSET Obj
    BY RefTypes DEF OnStack
  <2>2. gcstate = "propagate" => weak' = weak /\ ephemeron' = ephemeron
    BY <1>3 DEF VisitThread, Visit
  <2> QED
    BY <1>3, <2>1, <2>2 DEF VisitThread, LinkInTwups
<1>4. CASE VisitWeakValue(t)
  <2>1. PICK read \in SUBSET Obj, dest \in {"weak", "grayagain"} :
            /\ Visit(t, Keys(entry, t) \cup read, dest)
            /\ gcstate = "propagate" => dest = "grayagain"
    BY <1>4, <1>1 DEF VisitWeakValue, StringsIn
  <2>2. Keys(entry, t) \cup read \in SUBSET Obj
    BY <1>1
  <2>3. gcstate = "propagate" => weak' = weak /\ ephemeron' = ephemeron
    BY <2>1 DEF Visit
  <2> QED
    BY <1>4, <2>1, <2>2, <2>3 DEF VisitWeakValue
<1>5. CASE VisitEphemeron(t)
  <2>1. EphemeronMarks(t) \in SUBSET Obj
    BY <1>1 DEF EphemeronMarks, OpenEntries, StringsIn, Val
  <2>2. gcstate = "propagate" => weak' = weak /\ ephemeron' = ephemeron
    BY <1>5 DEF VisitEphemeron, Visit, EphemeronList
  <2> QED
    BY <1>5, <2>1, <2>2 DEF VisitEphemeron
<1>6. CASE VisitAllWeak(t)
  <2>1. weak' = weak /\ ephemeron' = ephemeron
    BY <1>6 DEF VisitAllWeak, Visit
  <2> QED
    BY <1>6, <2>1 DEF VisitAllWeak
<1> QED
  BY <1>2, <1>3, <1>4, <1>5, <1>6

\* propagatemark.
LEMMA PropagateTypes ==
    ASSUME TypeOK, PropagateMark, gcstate # "enteratomic", UNCHANGED <<heap, locals, control, finalizing>>
    PROVE  TypeOK'
<1> USE DEF TypeOK
<1>1. PICK t \in gray :
            \/ VisitStrong(t) \/ VisitThread(t) \/ VisitWeakValue(t)
            \/ VisitEphemeron(t) \/ VisitAllWeak(t)
  BY DEF PropagateMark
<1>2. t \in Obj
  BY DEF Domains
<1>v. PICK S \in SUBSET Obj : \E dest : Visit(t, S, dest)
  BY <1>1, <1>2, SomeVisit
<1>3. PICK dest : Visit(t, S, dest)
  BY <1>v
<1>4. /\ color' \in [Obj -> Colors]
      /\ gray' \subseteq Obj /\ grayagain' \subseteq Obj /\ weak' \subseteq Obj
      /\ allweak' \subseteq Obj /\ ephemeron' \subseteq Obj /\ twups' \subseteq Obj
  BY <1>1, <1>2, <1>3, SomeVisit, VisitTypes
<1>5. Domains'
  BY <1>4 DEF Domains, heap, locals, control, Colors
<1>6. gcstate = "propagate" => weak' = weak /\ ephemeron' = ephemeron
  BY <1>1, <1>2, SomeVisit
<1>7. Phases'
  BY <1>6 DEF Phases, locals, control, IsSweepPhase, Converging, PropagateMark
<1> QED
  BY <1>5, <1>7

\* The steps of singlestep.
LEMMA CollectorTypes ==
    ASSUME TypeOK, SingleStep, UNCHANGED finalizing
    PROVE  TypeOK'
<1> USE ConstantsAssumption DEF TypeOK
<1>1. \A S \in SUBSET Obj :
        /\ ReallyMark(color, entry, home, S) \in [Obj -> Colors]
        /\ ToVisit(color, entry, S) \subseteq Obj
  BY MarkTypes DEF Domains, Colors
<1>2. \A l : InList(l) \subseteq Obj
  BY DEF InList
<1>a. CASE Start
  <2> DEFINE roots == {Main} \cup InList("tobefnz")
  <2>1. roots \in SUBSET Obj
    BY <1>2
  <2>2. color' \in [Obj -> Colors] /\ gray' \subseteq Obj
    BY <2>1, <1>1, <1>a DEF Start
  <2> QED
    <3>1. Domains'
      BY <2>2, <1>a DEF Start, Domains, heap, locals, Colors, States
    <3>2. Phases'
      BY <2>2, <1>a DEF Start, Domains, Phases, heap, locals, States, AtomicSteps, IsSweepPhase, Converging
    <3> QED
      BY <3>1, <3>2
<1>b. CASE Propagate
  BY <1>b, PropagateTypes DEF Propagate
<1>c. CASE EndPropagate
  BY <1>c DEF EndPropagate, Domains, Phases, heap, marks, locals, States, IsSweepPhase, Converging
<1>d. CASE EnterAtomic
  <2>1. color' \in [Obj -> Colors] /\ gray' \subseteq Obj
    <3>1. {Main} \in SUBSET Obj
      OBVIOUS
    <3> QED
      BY <3>1, <1>1, <1>d DEF EnterAtomic, Domains
  <2> QED
    <3>1. Domains'
      BY <2>1, <1>d DEF EnterAtomic, Domains, heap, Colors, States, AtomicSteps
    <3>2. Phases'
      BY <2>1, <1>d DEF EnterAtomic, Phases, IsSweepPhase, Converging
    <3> QED
      BY <3>1, <3>2
<1>e. CASE AtomicPropagate
  BY <1>e, PropagateTypes DEF AtomicPropagate
<1>f. CASE RemarkUpvals
  <2>1. \A threads : RemarkedValues(threads) \in SUBSET Obj
    BY RefTypes DEF RemarkedValues, Domains
  <2>2. color' \in [Obj -> Colors] /\ gray' \subseteq Obj /\ twups' \subseteq Obj
    BY <2>1, <1>1, <1>f DEF RemarkUpvals, Domains
  <2> QED
    BY <2>2, <1>f DEF RemarkUpvals, Step, Domains, Phases, heap, locals, AtomicSteps, IsSweepPhase, Converging, Colors
<1>g. CASE VisitAgain
  BY <1>g DEF VisitAgain, Step, Domains, Phases, heap, AtomicSteps, IsSweepPhase, Converging
<1>h. \A from, to \in AtomicSteps :
          Converge(from, to) /\ from \notin {"none", "tolive", "marked", "remarked"}
            /\ to \in {"converge", "reconverge"} => TypeOK'
  <2> SUFFICES ASSUME NEW from \in AtomicSteps, NEW to \in AtomicSteps, Converge(from, to),
                      from \notin {"none", "tolive", "marked", "remarked"},
                      to \in {"converge", "reconverge"}
               PROVE  TypeOK'
    OBVIOUS
  <2>1. Domains'
    BY DEF Converge, Step, Domains, heap
  <2>2. Phases'
    BY DEF Converge, Step, Phases, AtomicSteps, IsSweepPhase, Converging
  <2> QED
    BY <2>1, <2>2
<1>i. CASE Converge("again", "converge") \/ Converge("resurrect", "reconverge")
  BY <1>h, <1>i DEF AtomicSteps
<1>j. CASE \E t \in round : ConvergeTable(t)
  <2>1. PICK t \in round : ConvergeTable(t)
    BY <1>j
  <2>2. t \in Obj
    BY DEF Domains
  <2>3. EphemeronMarks(t) \in SUBSET Obj
    BY <2>2, RefTypes DEF EphemeronMarks, OpenEntries, StringsIn, Domains, Val
  <2>4. /\ color' \in [Obj -> Colors]
        /\ gray' \subseteq Obj /\ grayagain' \subseteq Obj /\ weak' \subseteq Obj
        /\ allweak' \subseteq Obj /\ ephemeron' \subseteq Obj
    BY <2>1, <2>2, <2>3, VisitTypes DEF ConvergeTable
  <2>5. Domains'
    BY <2>1, <2>4 DEF ConvergeTable, Domains, heap, control, Colors
  <2> QED
    BY <2>1, <2>5 DEF ConvergeTable, Phases, heap, control, IsSweepPhase, Converging
<1>k. CASE EndRound
  <2>1. CASE MustRepeat
    BY <1>k, <2>1, <1>h DEF EndRound, Converging, Domains
  <2>2. CASE ~MustRepeat
    BY <1>k, <2>2 DEF EndRound, Step, Domains, Phases, heap, marks, locals, AtomicSteps, IsSweepPhase, Converging
  <2> QED
    BY <2>1, <2>2
<1>l. CASE Separate
  <2> DEFINE tables == weak \cup allweak
             col == ClearedMarks(color, entry, tables, 2)
             dying == {o \in InList("finobj") : IsWhite(o)}
             roots == InList("tobefnz") \cup dying
  <2>1. entry' \in [Obj -> SUBSET (Val \X Val)]
    BY <1>l DEF Separate, ClearedEntries, Domains
  <2>2. col \in [Obj -> Colors]
    BY DEF ClearedMarks, Domains, Colors
  <2>3. roots \in SUBSET Obj
    BY <1>2
  <2>4. color' = ReallyMark(col, entry', home, roots) /\ gray' = ToVisit(col, entry', roots)
    BY <1>l DEF Separate
  <2>5. color' \in [Obj -> Colors] /\ gray' \subseteq Obj
    <3> HIDE DEF col, roots
    <3> QED BY <2>1, <2>2, <2>3, <2>4, MarkTypes DEF Domains
  <2>6. list' \in [Obj -> {"free", "allgc", "finobj", "tobefnz"}]
    BY <1>l DEF Separate, Domains
  <2> QED
    <3>1. Domains'
      BY <2>1, <2>5, <2>6, <1>l DEF Separate, Step, Domains, AtomicSteps, Colors
    <3>2. Phases'
      BY <2>1, <2>5, <2>6, <1>l DEF Separate, Step, Phases, IsSweepPhase, Converging
    <3> QED
      BY <3>1, <3>2
<1>m. CASE Flip
  <2>1. entry' \in [Obj -> SUBSET (Val \X Val)]
    BY <1>m DEF Flip, ClearedEntries, Domains
  <2>2. color' \in [Obj -> Colors]
    BY <1>m DEF Flip, ClearedMarks, Domains, Colors
  <2> QED
    <3>1. Domains'
      BY <2>1, <2>2, <1>2, <1>m DEF Flip, Domains, AtomicSteps, States, Colors, OtherWhite, Whites
    <3>2. Phases'
      BY <2>1, <2>2, <1>2, <1>m DEF Flip, Phases, IsSweepPhase, Converging
    <3> QED
      BY <3>1, <3>2
<1>n. CASE \E o \in tosweep : SweepOne(o)
  <2>1. PICK o \in tosweep : SweepOne(o)
    BY <1>n
  <2>2. o \in Obj
    BY DEF Domains
  <2>3. CASE IsDead(o)
    <3>1. Free(o) /\ UNCHANGED atomicstep
      BY <2>1, <2>3 DEF SweepOne
    <3>2. color' \in [Obj -> Colors]
      BY <3>1 DEF Free, Domains, Colors, Whites
    <3> QED
      BY <3>1, <3>2, <2>1, <2>2 DEF Free, HomeWithout, SweepOne, Domains, Phases, locals, IsSweepPhase, Converging, Colors, Val
  <2>4. CASE ~IsDead(o)
    <3>1. color' \in [Obj -> Colors]
      BY <2>1, <2>4 DEF SweepOne, Domains, Colors
    <3> QED
      BY <3>1, <2>1, <2>4 DEF SweepOne, Domains, Phases, heap, locals, IsSweepPhase, Converging, Colors, AtomicSteps
  <2> QED
    BY <2>3, <2>4
<1>o. CASE NextSweep
  <2>1. gcstate' \in States /\ tosweep' \subseteq Obj
    BY <1>o, <1>2 DEF NextSweep, States
  <2>2. Domains'
    BY <1>o, <2>1 DEF NextSweep, Domains, heap, marks, locals, AtomicSteps
  <2>3. Phases'
    BY <1>o DEF NextSweep, Phases, locals, marks, IsSweepPhase, Converging
  <2> QED
    BY <2>2, <2>3
<1>p. CASE EndCycle
  BY <1>p DEF EndCycle, Domains, Phases, heap, marks, locals, IsSweepPhase, Converging, States
<1> QED
  BY <1>a, <1>b, <1>c, <1>d, <1>e, <1>f, <1>g, <1>i, <1>j, <1>k, <1>l, <1>m, <1>n, <1>o, <1>p
  DEF SingleStep, Atomic

\* The state that lua_newstate leaves.
LEMMA InitTypes ==
    ASSUME Init
    PROVE  TypeOK
<1>1. Domains
  <2>1. entry \in [Obj -> SUBSET (Val \X Val)]
    BY DEF Init
  <2>2. /\ list \in [Obj -> {"free", "allgc", "finobj", "tobefnz"}]
        /\ mode \in [Obj -> Modes] /\ home \in [Obj -> Val]
        /\ color \in [Obj -> Whites \cup {"gray", "black"}]
    BY ConstantsAssumption DEF Init, Val, Whites
  <2> QED
    BY <2>1, <2>2 DEF Init, Domains, States, AtomicSteps, Whites, Val
<1>2. Phases
  BY DEF Init, Phases, IsSweepPhase, Converging
<1> QED
  BY <1>1, <1>2 DEF TypeOK

\* All steps.
LEMMA StepTypes ==
    ASSUME TypeOK, [Next]_vars
    PROVE  TypeOK'
<1>1. CASE Mutator
  BY <1>1, MutatorTypes
<1>2. CASE SingleStep /\ UNCHANGED finalizing
  BY <1>2, CollectorTypes
<1>3. CASE (\E e \in FullKinds : FullGC(e)) /\ UNCHANGED finalizing
  <2>1. PICK e \in FullKinds : FullGC(e)
    BY <1>3
  <2>2. e \in BOOLEAN
    BY ConstantsAssumption
  <2>3. InList("allgc") \subseteq Obj
    BY DEF InList
  <2>4. Domains'
    BY <2>1, <2>2, <2>3, <1>3 DEF FullGC, FirstPart, TypeOK, Domains, heap, marks, locals, States, AtomicSteps
  <2> QED
    BY <2>1, <2>4 DEF FullGC, TypeOK, Phases, heap, marks, locals, IsSweepPhase, Converging, KeepInvariant
<1>4. CASE \E o \in Obj : CallFinalizer(o)
  <2>1. PICK o \in Obj : CallFinalizer(o)
    BY <1>4
  <2>2. entry' \in [Obj -> SUBSET (Val \X Val)]
    <3>1. <<NC, o>> \in Val \X Val
      BY DEF Val
    <3> QED
      BY <2>1, <3>1, ConstantsAssumption DEF CallFinalizer, Push, TypeOK, Domains
  <2>3. Domains'
    BY <2>1, <2>2 DEF CallFinalizer, Dequeue, TypeOK, Domains, marks, locals, control, Val
  <2> QED
    BY <2>1, <2>3 DEF CallFinalizer, TypeOK, Phases, marks, locals, control, IsSweepPhase, Converging
<1>5. CASE FinalizerReturns
  <2>1. entry' \in [Obj -> SUBSET (Val \X Val)]
    BY <1>5, ConstantsAssumption DEF FinalizerReturns, TypeOK, Domains
  <2>2. Domains'
    BY <1>5, <2>1 DEF FinalizerReturns, TypeOK, Domains, marks, locals, control, Val
  <2> QED
    BY <1>5, <2>2 DEF FinalizerReturns, TypeOK, Phases, marks, locals, control, IsSweepPhase, Converging
<1>6. CASE UNCHANGED vars
  BY <1>6 DEF vars, heap, marks, locals, control, TypeOK, Domains, Phases, IsSweepPhase, Converging
<1> QED
  BY <1>1, <1>2, <1>3, <1>4, <1>5, <1>6 DEF Next, Collector

\* Type correctness: every variable stays in its domain, and the phases of the
\* collector and its lists agree, for every heap and in every interleaving.
THEOREM TypeCorrect == Spec => []TypeOK
<1>1. Init => TypeOK
  BY InitTypes
<1>2. TypeOK /\ [Next]_vars => TypeOK'
  BY StepTypes
<1> QED
  BY <1>1, <1>2, PTL DEF Spec

-----------------------------------------------------------------------------
(* No operation of the program breaks the inductive invariant.  What every *)
(* operation does to the heap, the sweep, the marks and the lists is stated *)
(* once, in the Careful conditions; each operation, with its barrier, is    *)
(* shown to meet them.                                                      *)

\* What it is to refer to x, one reference at a time.
Ref(ent, hm, o, x) ==
    \/ x # NC /\ \E e \in ent[o] : x = e[1] \/ x = e[2]
    \/ \E u \in Obj : /\ Kind[u] = "upval" /\ hm[u] = o
                      /\ x = u \/ (x # NC /\ \E e \in ent[u] : x = e[2])
RefsOf(ent, hm, o) == Values(ent, o) \cup Keys(ent, o)
    \cup OpenUpvals(hm, o) \cup Contents(ent, OpenUpvals(hm, o))

\* Refs, as unions of sets, and Ref, one reference at a time, agree.
LEMMA RefsMeaning ==
    \A ent, hm, o, x : x \in RefsOf(ent, hm, o) <=> Ref(ent, hm, o, x)
<1> TAKE ent, hm, o, x
<1>1. \A p : x \in Values(ent, p) <=> x # NC /\ \E e \in ent[p] : x = e[2]
  BY DEF Values
<1>2. x \in Keys(ent, o) <=> x # NC /\ \E e \in ent[o] : x = e[1]
  BY DEF Keys
<1>3. x \in Contents(ent, OpenUpvals(hm, o)) <=>
          \E u \in Obj : Kind[u] = "upval" /\ hm[u] = o /\ x \in Values(ent, u)
  BY DEF Contents, OpenUpvals
<1> QED
  BY <1>1, <1>2, <1>3 DEF RefsOf, Ref, OpenUpvals

\* What is referred to is an object.
LEMMA RefsTyped ==
    ASSUME NEW ent \in [Obj -> SUBSET (Val \X Val)], NEW hm, NEW o \in Obj, NEW x,
           Ref(ent, hm, o, x)
    PROVE  x \in Obj
  BY DEF Ref, Val

RefersTo(o, x) == Ref(entry, home, o, x)

\* The same for the state, before and after a step.
LEMMA RefersMeaning ==
    /\ \A o, x : x \in Refs(o) <=> RefersTo(o, x)
    /\ \A o, x : (x \in Refs(o))' <=> RefersTo(o, x)'
  BY RefsMeaning DEF Refs, RefsOf, RefersTo

-----------------------------------------------------------------------------
(* The operations of the program.  G holds the references that one makes.  *)

Undisturbed ==
    UNCHANGED <<weak, allweak, ephemeron, saved, round, currentwhite, gcstate, atomicstep>>

Shape(o, e) ==
    /\ Kind[o] # "string"
    /\ e[1] # NC => Kind[o] = "table" /\ Kind[e[1]] # "upval"
    /\ e[2] # NC /\ Kind[e[2]] = "upval" => Kind[o] = "closure"

CarefulHeap(G) ==
    /\ \A o \in Obj : Allocated(o) => Allocated(o)'
    /\ \A o \in Obj : ~Allocated(o)' => entry[o]' \subseteq entry[o] /\ home[o]' = home[o]
    /\ list[Main]' = list[Main]
    /\ \A o \in Obj : list'[o] \in {list[o], "allgc"} \/ o \in GCAllowed
    /\ \A o \in Obj : \A e \in entry[o]' : e \in entry[o] \/ Shape(o, e)
    /\ \A o \in Obj : home[o]' \notin {NC, home[o]} =>
          Kind[o] = "upval" /\ Kind[home[o]'] = "thread" /\ Allocated(home[o]')
    /\ \A o \in Obj : \A x : RefersTo(o, x)' => RefersTo(o, x) \/ <<o, x>> \in G
    /\ \A o, x : <<o, x>> \in G => x \in Live'
    /\ \A o \in Obj : o \in Live => o \in Live'
    /\ \A o \in Live' : o \notin Live => ~Allocated(o) \/ Kind[o] = "string"

CarefulSweep ==
    /\ tosweep' \subseteq tosweep
    /\ \A o \in Obj : Allocated(o)' /\ (IsDead(o)' \/ (~KeepInvariant /\ ~IsWhite(o)')) =>
          /\ Allocated(o) /\ list[o]' = list[o] /\ (o \in tosweep => o \in tosweep')
          /\ IsDead(o)' => IsDead(o)
          /\ ~IsWhite(o)' => ~IsWhite(o)

CarefulUpvals ==
    /\ twups \subseteq twups'
    /\ \A th \in twups' : th \in twups \/ (Kind[th] = "thread" /\ th \in Live')
    /\ \A u \in Obj : home[u]' # NC => home[u]' = home[u] \/ home[u]' \in twups'

CarefulMarks(G) ==
    KeepInvariant =>
        /\ \A o \in Obj : Allocated(o) /\ ~IsWhite(o) => ~IsWhite(o)'
        /\ \A o, x : <<o, x>> \in G /\ IsBlack(o)' => ~IsWhite(x)'
        /\ \A o \in Obj : Allocated(o)' /\ IsBlack(o)' =>
              \/ Allocated(o) /\ IsBlack(o)
              \/ Kind[o] # "thread" /\ \A x : RefersTo(o, x)' => ~IsWhite(x)'
        /\ \A o \in Obj : Allocated(o)' /\ IsGray(o)' =>
              \/ Allocated(o) /\ IsGray(o) /\ home[o]' = home[o]
              \/ o \in gray' \cup grayagain'
              \/ Kind[o] = "upval" /\ home[o]' # NC

CarefulLists ==
    KeepInvariant =>
        /\ gray \subseteq gray' /\ grayagain \subseteq grayagain'
        /\ gray' = gray \/ grayagain' = grayagain
        /\ \A o \in GrayLists : IsGray(o)'
        /\ \A o \in (gray' \ gray) \cup (grayagain' \ grayagain) :
              /\ IsGray(o)' /\ Allocated(o)' /\ (IsGray(o) => ~Allocated(o))
              /\ Kind[o] \notin LeafKinds

\* What every operation of the program has in common is enough for the invariant.
LEMMA CarefulKeeps ==
    ASSUME IInv, TypeOK', Undisturbed, gcstate # "atomic", NEW G,
           CarefulHeap(G), CarefulSweep, CarefulUpvals, CarefulMarks(G), CarefulLists
    PROVE  IInv'
<1> USE ConstantsAssumption
<1> USE DEF IInv
<1>w. currentwhite' = currentwhite /\ gcstate' = gcstate /\ atomicstep' = atomicstep
  BY DEF Undisturbed
<1>k. KeepInvariant' <=> KeepInvariant
  BY <1>w DEF KeepInvariant
<1>m. Main \in Live
  BY DEF HeapShape, Live, Allocated
<1>1. FreedIsUnlinked'
  <2>1. \A o \in Obj : ~Allocated(o)' => entry[o]' = {} /\ home[o]' = NC
    BY DEF CarefulHeap, FreedIsUnlinked
  <2>2. \A o \in Obj : home[o]' # NC => Kind[home[o]'] = "thread" /\ Allocated(home[o])'
    BY DEF CarefulHeap, FreedIsUnlinked, TypeOK, Domains, Val
  <2> QED
    BY <2>1, <2>2 DEF FreedIsUnlinked
<1>2. HeapShape'
  <2>1. list'[Main] = "allgc" /\ ~IsDead(Main)'
    BY <1>m DEF CarefulHeap, HeapShape, Live
  <2>2. \A o \in Obj : home'[o] # NC => Kind[o] = "upval"
    BY DEF CarefulHeap, HeapShape
  <2>4. \A o \in Obj : list'[o] \in {"finobj", "tobefnz"} => o \in GCAllowed
    BY DEF CarefulHeap, HeapShape
  <2>3. \A o \in Obj : \A e \in entry'[o] : Shape(o, e)
    BY DEF CarefulHeap, HeapShape, Shape
  <2> QED
    BY <2>1, <2>2, <2>3, <2>4 DEF HeapShape, Shape
<1>f. \A o \in Obj : ~Allocated(o) \/ Kind[o] = "string" => \A x : ~RefersTo(o, x)
  BY DEF HeapShape, FreedIsUnlinked, RefersTo, Ref
<1>3. NoDangling'
  <2> SUFFICES ASSUME NEW o \in Live', NEW x, RefersTo(o, x)'
               PROVE  x \in Live'
    BY RefersMeaning DEF NoDangling
  <2>1. o \in Obj
    BY DEF Live
  <2>2. CASE <<o, x>> \in G
    BY <2>2 DEF CarefulHeap
  <2>3. CASE RefersTo(o, x) /\ o \in Live
    <3>1. x \in Live
      BY <2>3, RefersMeaning DEF NoDangling
    <3> QED
      BY <3>1 DEF CarefulHeap, Live
  <2>4. CASE RefersTo(o, x) /\ o \notin Live
    BY <2>1, <2>4, <1>f DEF CarefulHeap
  <2> QED
    BY <2>1, <2>2, <2>3, <2>4 DEF CarefulHeap
<1>4. DeadAreSwept'
  BY <1>w DEF DeadAreSwept, CarefulSweep
<1>5. MarkedAreSwept'
  <2>1. (IsSweepPhase => tosweep \subseteq {o \in Obj : Allocated(o)})'
    BY <1>w DEF MarkedAreSwept, CarefulSweep, CarefulHeap, IsSweepPhase
  <2> QED
    BY <2>1, <1>w, <1>k DEF MarkedAreSwept, CarefulSweep
<1>d. KeepInvariant => \A o \in Obj : Allocated(o) => o \in Live
  BY DEF DeadAreSwept, KeepInvariant, Live
<1>6. TriColor'
  <2> SUFFICES ASSUME KeepInvariant, NEW o \in Obj, Allocated(o)', IsBlack(o)', NEW x, RefersTo(o, x)'
               PROVE  ~IsWhite(x)'
    BY <1>k, RefersMeaning DEF TriColor
  <2>1. CASE <<o, x>> \in G
    BY <2>1 DEF CarefulMarks
  <2>2. CASE Allocated(o) /\ IsBlack(o) /\ RefersTo(o, x)
    <3>1. x \in Live /\ ~IsWhite(x)
      BY <2>2, <1>d, RefersMeaning DEF NoDangling, TriColor
    <3> QED
      BY <3>1 DEF CarefulMarks, Live
  <2> QED
    BY <2>1, <2>2 DEF CarefulMarks, CarefulHeap
<1>7. GrayListed'
  <2> SUFFICES ASSUME KeepInvariant PROVE GrayListed'
    BY <1>k DEF GrayListed
  <2>1. GrayLists \subseteq GrayLists'
    BY DEF CarefulLists, GrayLists, Undisturbed
  <2>2. \A o \in GrayLists' : Allocated(o)' /\ IsGray(o)'
    BY DEF CarefulLists, CarefulHeap, GrayLists, GrayListed, Undisturbed, TypeOK, Domains
  <2>3. \A o \in Obj : Allocated(o)' /\ IsGray(o)' =>
            o \in GrayLists' \/ (Kind[o] = "upval" /\ home[o]' # NC)
    BY <2>1 DEF CarefulMarks, GrayListed, GrayLists
  <2> QED
    BY <2>2, <2>3 DEF GrayListed
<1>8. OneList'
  <2> SUFFICES ASSUME KeepInvariant PROVE OneList'
    BY <1>k DEF OneList
  <2>1. \A o \in GrayLists : IsGray(o) /\ Allocated(o)
    BY DEF GrayListed
  <2>2. \A o \in (gray' \ gray) \cup (grayagain' \ grayagain) : o \notin GrayLists
    BY <2>1 DEF CarefulLists
  <2>3. \A o \in gray' : o \notin grayagain'
    BY <2>1, <2>2 DEF OneList, CarefulLists, GrayLists
  <2>4. \A o \in gray' \cup grayagain' : o \notin weak \cup allweak \cup ephemeron \cup saved \cup round
    BY <2>2 DEF OneList, GrayLists
  <2>5. \A o \in gray' \cup grayagain' : o \notin (weak \cup allweak \cup ephemeron \cup saved \cup round)'
    BY <2>4 DEF Undisturbed
  <2>6. /\ \A o \in weak' : o \notin (allweak \cup ephemeron \cup saved \cup round)'
        /\ \A o \in allweak' : o \notin (ephemeron \cup saved \cup round)'
        /\ \A o \in ephemeron' : o \notin (saved \cup round)'
        /\ \A o \in saved' : o \notin round'
    BY DEF OneList, Undisturbed
  <2> QED
    BY <2>3, <2>5, <2>6 DEF OneList
<1>9. MarkLists'
  <2> SUFFICES ASSUME KeepInvariant PROVE MarkLists'
    BY <1>k DEF MarkLists
  <2>1. ~IsWhite(Main)'
    BY <1>m DEF MarkLists, CarefulMarks, Live
  <2>2. \A t \in (weak \cup allweak \cup ephemeron \cup round)' : Kind[t] = "table"
    BY DEF MarkLists, Undisturbed
  <2>3. \A th \in Obj : Kind[th] = "thread" /\ Allocated(th)' => ~IsBlack(th)'
    BY DEF MarkLists, CarefulMarks
  <2>4. \A o \in (gray \cup grayagain \cup saved)' : Kind[o] \notin LeafKinds
    BY DEF MarkLists, CarefulLists, Undisturbed
  <2> QED
    BY <2>1, <2>2, <2>3, <2>4 DEF MarkLists
<1>10. AtomicLists'
  BY <1>w DEF AtomicLists
<1>11. UpvalLists'
  <2>1. twups' \subseteq {th \in Obj : Kind[th] = "thread" /\ Allocated(th)' /\ ~IsDead(th)'}
    BY DEF UpvalLists, CarefulUpvals, CarefulHeap, Live
  <2>2. \A u \in Live' : home[u]' # NC /\ home[u]' \in Live' => home[u]' \in twups'
    <3> SUFFICES ASSUME NEW u \in Live', home[u]' # NC, home[u]' \in Live', home[u]' = home[u]
                 PROVE  home[u] \in twups'
      BY DEF CarefulUpvals, Live
    <3>1. u \in Obj /\ Kind[u] = "upval" /\ Allocated(u) /\ Kind[home[u]] = "thread" /\ Allocated(home[u])
      BY DEF HeapShape, FreedIsUnlinked, Live
    <3>2. u \in Live /\ home[u] \in Live
      BY <3>1 DEF CarefulHeap
    <3>3. atomicstep \in {"none", "tolive", "marked"}
      BY DEF TypeOK, Phases
    <3> QED
      BY <3>2, <3>3 DEF UpvalLists, CarefulUpvals
  <2> QED
    BY <2>1, <2>2, <1>w DEF UpvalLists
<1> QED
  BY <1>1, <1>2, <1>3, <1>4, <1>5, <1>6, <1>7, <1>8, <1>9, <1>10, <1>11

Careful(G) ==
    CarefulHeap(G) /\ CarefulSweep /\ CarefulUpvals /\ CarefulMarks(G) /\ CarefulLists

\* What the program can name is live.
LEMMA StackFacts ==
    ASSUME IInv, NEW th \in Threads
    PROVE  /\ th \in Live /\ th \in Obj /\ Kind[th] = "thread"
           /\ \A v \in OnStack(th) : v \in Live /\ v \in Obj /\ Kind[v] # "upval"
<1> USE DEF IInv
<1>1. \A t \in Live : \A v \in OnStack(t) : v \in Live /\ v \in Obj
  BY DEF NoDangling, Refs, OnStack, Live
<1>2. Main \in Live
  BY ConstantsAssumption DEF HeapShape, Live, Allocated
<1>3. th \in Live /\ Kind[th] = "thread"
  BY <1>1, <1>2, ConstantsAssumption DEF Threads
<1>4. \A v \in OnStack(th) : Kind[v] # "upval"
  <2> TAKE v \in OnStack(th)
  <2>1. PICK p \in Obj : v \in Values(entry, p) /\ (p = th \/ Kind[p] = "upval")
    BY <1>3 DEF OnStack, Contents, OpenUpvals, Live
  <2>2. PICK e \in entry[p] : v = e[2] /\ v # NC
    BY <2>1 DEF Values
  <2> QED
    BY <1>3, <2>1, <2>2 DEF HeapShape
<1> QED
  BY <1>1, <1>3, <1>4 DEF Live

\* Entries that come in at one place, or only go.
LEMMA OneEntry ==
    ASSUME IInv, NEW o \in Obj, NEW k, NEW v, home' = home, Kind[o] # "upval",
           \A p \in Obj : \A f \in entry'[p] : f \in entry[p] \/ (p = o /\ f = <<k, v>>)
    PROVE  \A p \in Obj : \A x : RefersTo(p, x)' =>
               RefersTo(p, x) \/ (p = o /\ x \in {k, v} \ {NC})
  BY ConstantsAssumption DEF RefersTo, Ref

\* Entries only go, and upvalues only close.
LEMMA NoEntry ==
    ASSUME IInv, \A u \in Obj : home'[u] \in {home[u], NC},
           \A p \in Obj : entry'[p] \subseteq entry[p]
    PROVE  \A p \in Obj : p # NC => \A x : RefersTo(p, x)' => RefersTo(p, x)
  BY DEF RefersTo, Ref

\* The program leaves the marks alone, as far as they matter.
LEMMA SameMarks ==
    ASSUME IInv, Undisturbed, UNCHANGED <<list, home, color, gray, grayagain, twups, tosweep>>,
           NEW G, KeepInvariant => \A o, x : <<o, x>> \in G /\ IsBlack(o) => ~IsWhite(x)
    PROVE  /\ Live' = Live /\ \A o : Allocated(o)' = Allocated(o)
           /\ CarefulSweep /\ CarefulUpvals /\ CarefulMarks(G) /\ CarefulLists
<1>1. Live' = Live /\ \A o : Allocated(o)' = Allocated(o)
  BY DEF Live, Allocated, IsDead, OtherWhite, Undisturbed
<1>2. CarefulSweep /\ CarefulUpvals
  BY <1>1 DEF CarefulSweep, CarefulUpvals, IsDead, IsWhite, OtherWhite, Undisturbed
<1>3. CarefulMarks(G)
  BY <1>1 DEF CarefulMarks, IsBlack, IsGray, IsWhite
<1>4. CarefulLists
  BY DEF CarefulLists, IsGray, IInv, GrayListed
<1> QED
  BY <1>1, <1>2, <1>3, <1>4

\* A thread needs no barrier because it is never black before the atomic phase.
LEMMA ThreadsNotBlack ==
    ASSUME IInv, gcstate # "atomic", KeepInvariant, NEW th \in Live, Kind[th] = "thread"
    PROVE  ~IsBlack(th)
  BY DEF IInv, MarkLists, Live

\* Reading puts a live value on a stack, which needs no barrier.
LEMMA LoadKeeps ==
    ASSUME IInv, NEW th \in Threads, NEW o \in OnStack(th), NEW v \in Obj, Load(th, o, v),
           Undisturbed, UNCHANGED tosweep, gcstate # "atomic"
    PROVE  Careful({<<th, v>>})
<1> USE ConstantsAssumption
<1>1. /\ th \in Live /\ th \in Obj /\ Kind[th] = "thread"
      /\ o \in Live /\ o \in Obj
  BY StackFacts
<1>2. v \in Live /\ Kind[v] # "upval"
  <2>1. CASE v \in Refs(o) /\ Kind[v] # "upval"
    BY <1>1, <2>1 DEF IInv, NoDangling
  <2>2. CASE v \in Contents(entry, Upvals(Values(entry, o)))
    <3>1. PICK u \in Values(entry, o) : Kind[u] = "upval" /\ v \in Values(entry, u)
      BY <2>2 DEF Contents, Upvals
    <3>2. u \in Live
      BY <1>1, <3>1 DEF IInv, NoDangling, Refs
    <3>3. v \in Live
      BY <3>1, <3>2 DEF IInv, NoDangling, Refs
    <3>4. PICK e \in entry[u] : v = e[2] /\ v # NC
      BY <3>1 DEF Values
    <3> QED
      BY <3>1, <3>2, <3>3, <3>4 DEF IInv, HeapShape, Live
  <2> QED
    BY <2>1, <2>2 DEF Load
<1>3. \A p \in Obj : \A f \in entry'[p] : f \in entry[p] \/ (p = th /\ f = <<NC, v>>)
  BY <1>1 DEF Load, Push, IInv, TypeOK, Domains
<1>4. \A p \in Obj : \A x : RefersTo(p, x)' => RefersTo(p, x) \/ (p = th /\ x = v)
  <2>1. home' = home /\ Kind[th] # "upval"
    BY <1>1 DEF Load
  <2> QED
    BY <1>1, <1>3, <2>1, OneEntry
<1>5. UNCHANGED <<list, home, color, gray, grayagain, twups, tosweep>>
  BY DEF Load
<1>6. KeepInvariant => ~IsBlack(th)
  BY <1>1, ThreadsNotBlack
<1>7. /\ Live' = Live /\ \A p : Allocated(p)' = Allocated(p)
      /\ CarefulSweep /\ CarefulUpvals /\ CarefulMarks({<<th, v>>}) /\ CarefulLists
  BY <1>5, <1>6, SameMarks
<1>8. CarefulHeap({<<th, v>>})
  <2>1. \A p \in Obj : \A f \in entry'[p] : f \in entry[p] \/ Shape(p, f)
    BY <1>1, <1>2, <1>3 DEF Shape
  <2>2. \A p \in Obj : ~Allocated(p)' => entry'[p] \subseteq entry[p]
    BY <1>1, <1>3, <1>7 DEF Live
  <2> QED
    BY <1>2, <1>4, <1>5, <1>7, <2>1, <2>2 DEF CarefulHeap
<1> QED
  BY <1>7, <1>8 DEF Careful

\* Operations that only remove references.
LEMMA RemoveKeeps ==
    ASSUME IInv, UNCHANGED <<list, home, color, gray, grayagain, twups, tosweep>>,
           Undisturbed, \A p \in Obj : entry'[p] \subseteq entry[p]
    PROVE  Careful({})
<1>1. /\ Live' = Live /\ \A p : Allocated(p)' = Allocated(p)
      /\ CarefulSweep /\ CarefulUpvals /\ CarefulMarks({}) /\ CarefulLists
  BY SameMarks
<1>2. \A p \in Obj : \A x : RefersTo(p, x)' => RefersTo(p, x)
  BY NoEntry, ConstantsAssumption
<1>3. CarefulHeap({})
  BY <1>1, <1>2 DEF CarefulHeap
<1> QED
  BY <1>1, <1>3 DEF Careful

\* Allocation, and strings that are found in the string table.
LEMMA NewKeeps ==
    ASSUME IInv, NEW th \in Threads, NEW o \in Obj, New(th, o) \/ Intern(th, o),
           Undisturbed, UNCHANGED tosweep, gcstate # "atomic"
    PROVE  Careful({<<th, o>>})
<1> USE ConstantsAssumption
<1>1. th \in Live /\ th \in Obj /\ Kind[th] = "thread" /\ Kind[o] # "upval"
  BY StackFacts DEF New, Intern, LeafKinds
<1>2. /\ list' = [list EXCEPT ![o] = "allgc"] /\ entry' = Push(entry, th, o)
      /\ UNCHANGED <<mode, home, gray, grayagain, twups>>
      /\ \/ color' = [color EXCEPT ![o] = currentwhite] /\ (~Allocated(o) \/ (IsDead(o) /\ Kind[o] = "string"))
         \/ color' = color /\ Allocated(o) /\ ~IsDead(o) /\ Kind[o] = "string"
  BY DEF New, Intern, InternWhitens, Allocated
<1>3. \A p \in Obj : \A f \in entry'[p] : f \in entry[p] \/ (p = th /\ f = <<NC, o>>)
  BY <1>1, <1>2 DEF Push, IInv, TypeOK, Domains
<1>4. \A p \in Obj : \A x : RefersTo(p, x)' => RefersTo(p, x) \/ (p = th /\ x = o)
  <2>1. home' = home /\ Kind[th] # "upval"
    BY <1>1, <1>2
  <2> QED
    BY <1>1, <1>3, <2>1, OneEntry
<1>5. /\ \A p \in Obj : p # o => Allocated(p)' = Allocated(p) /\ color'[p] = color[p]
      /\ Allocated(o)' /\ ~IsDead(o)'
      /\ OtherWhite' = OtherWhite
      /\ IsDead(o) /\ Allocated(o) => color'[o] = currentwhite
  BY <1>2 DEF Allocated, IsDead, OtherWhite, Undisturbed, IInv, TypeOK, Domains, Whites
<1>6. CarefulHeap({<<th, o>>})
  <2>1. \A p \in Obj : \A f \in entry'[p] : f \in entry[p] \/ Shape(p, f)
    BY <1>1, <1>3 DEF Shape
  <2>2. \A p \in Obj : ~Allocated(p)' => entry'[p] \subseteq entry[p]
    BY <1>1, <1>3, <1>5 DEF Live
  <2>3. Live' = Live \cup {o}
    BY <1>5 DEF Live, IsDead
  <2>4. list'[Main] = list[Main] /\ \A p \in Obj : list'[p] \in {list[p], "allgc"}
    BY <1>2 DEF IInv, HeapShape, TypeOK, Domains
  <2> QED
    BY <1>2, <1>4, <1>5, <2>1, <2>2, <2>3, <2>4 DEF CarefulHeap, Live
<1>7. CarefulSweep
  <2>1. \A p \in Obj : p # o => (IsDead(p)' <=> IsDead(p)) /\ (IsWhite(p)' <=> IsWhite(p)) /\ list'[p] = list[p]
    BY <1>2, <1>5 DEF IsDead, IsWhite, IInv, TypeOK, Domains
  <2>2. ~IsWhite(o)' => Allocated(o) /\ ~IsWhite(o) /\ list'[o] = list[o]
    <3>1. ~IsWhite(o)' => color' = color /\ Allocated(o) /\ Kind[o] = "string"
      BY <1>2 DEF IsWhite, IInv, TypeOK, Domains
    <3>2. Kind[o] = "string" => o \notin GCAllowed
      OBVIOUS
    <3> QED
      BY <1>2, <3>1, <3>2 DEF IsWhite, IInv, HeapShape, TypeOK, Domains, Allocated
  <2> QED
    BY <1>5, <2>1, <2>2 DEF CarefulSweep
<1>8. CarefulUpvals
  BY <1>2 DEF CarefulUpvals
<1>a. KeepInvariant => \A p \in Obj : Allocated(p) => color'[p] = color[p]
  BY <1>2, <1>5 DEF IInv, DeadAreSwept, KeepInvariant
<1>9. CarefulMarks({<<th, o>>})
  <2> SUFFICES ASSUME KeepInvariant PROVE CarefulMarks({<<th, o>>})
    BY DEF CarefulMarks
  <2>1. ~IsBlack(th)'
    BY <1>1, <1>a, ThreadsNotBlack DEF IsBlack, Live
  <2>2. \A p \in Obj : Allocated(p)' /\ ~Allocated(p) => ~IsBlack(p)' /\ ~IsGray(p)'
    BY <1>2, <1>5 DEF IsBlack, IsGray, IInv, TypeOK, Domains, Whites
  <2> QED
    BY <1>2, <1>a, <2>1, <2>2 DEF CarefulMarks, IsBlack, IsGray, IsWhite
<1>10. CarefulLists
  BY <1>2, <1>a DEF CarefulLists, IsGray, IInv, GrayListed, TypeOK, Domains, GrayLists
<1> QED
  BY <1>6, <1>7, <1>8, <1>9, <1>10 DEF Careful

-----------------------------------------------------------------------------
(* The barriers.                                                           *)

\* luaC_barrier_ for an object o that now refers to the objects of S.
LEMMA BarrierFacts ==
    ASSUME NEW col \in [Obj -> Colors], NEW ent \in [Obj -> SUBSET (Val \X Val)],
           NEW hm \in [Obj -> Val], NEW o \in Obj, NEW S \in SUBSET Obj,
           Barrier(col, ent, hm, o, S), currentwhite \in Whites,
           \A u \in Obj : Kind[u] = "upval" => \A v \in Values(ent, u) : Kind[v] # "upval"
    PROVE  /\ color' \in [Obj -> Colors]
           /\ ~KeepInvariant =>
                 /\ gray' = gray
                 /\ \A p \in Obj : color'[p] = col[p] \/ (col[p] = "black" /\ color'[p] = currentwhite)
           /\ KeepInvariant =>
                 /\ \A p \in Obj : color'[p] = col[p] \/ (col[p] \in Whites /\ color'[p] \in {"gray", "black"})
                 /\ color'[o] = "black" => \A x \in S : color'[x] \notin Whites
                 /\ \A p \in Obj : color'[p] = "black" /\ col[p] # "black" =>
                       \/ Kind[p] = "string"
                       \/ Kind[p] = "upval" /\ hm[p] = NC /\ \A v \in Values(ent, p) : color'[v] \notin Whites
                 /\ \A p \in Obj : color'[p] = "gray" /\ col[p] # "gray" =>
                       p \in gray' \/ (Kind[p] = "upval" /\ hm[p] # NC)
                 /\ gray \subseteq gray'
                 /\ \A p \in gray' \ gray :
                       /\ p \in Obj /\ color'[p] = "gray" /\ col[p] \in Whites /\ Kind[p] \notin LeafKinds
                       /\ p \in S \/ \E u \in S : Kind[u] = "upval" /\ p \in Values(ent, u)
<1> DEFINE needed == col[o] = "black" /\ WhiteIn(col, S) # {}
           new == ReallyMark(col, ent, hm, S)
<1>1. CASE ~needed
  BY <1>1 DEF Barrier, WhiteIn
<1>2. CASE needed /\ ~KeepInvariant
  <2>1. color' = [col EXCEPT ![o] = currentwhite] /\ gray' = gray
    BY <1>2 DEF Barrier
  <2> QED
    BY <1>2, <2>1 DEF Colors
<1>3. CASE needed /\ KeepInvariant
  <2>1. color' = new /\ gray' = gray \cup ToVisit(col, ent, S)
    BY <1>3 DEF Barrier
  <2>2. /\ new \in [Obj -> Colors]
        /\ \A p \in Obj : new[p] = col[p] \/ (col[p] \in Whites /\ new[p] \in {"gray", "black"})
        /\ \A p \in S : new[p] \notin Whites
        /\ \A p \in Obj : new[p] = "black" /\ col[p] # "black" =>
              Kind[p] = "string" \/ (Kind[p] = "upval" /\ hm[p] = NC)
        /\ \A p \in Obj : new[p] \notin Whites /\ col[p] \in Whites /\ Kind[p] = "upval" =>
              \A v \in Values(ent, p) : new[v] \notin Whites
        /\ \A p \in Obj : new[p] = "gray" /\ col[p] # "gray" =>
              p \in ToVisit(col, ent, S) \/ (Kind[p] = "upval" /\ hm[p] # NC)
        /\ \A p \in ToVisit(col, ent, S) :
              p \in Obj /\ new[p] = "gray" /\ col[p] \in Whites /\ Kind[p] \notin LeafKinds
    BY MarkFacts
  <2>3. \A p \in ToVisit(col, ent, S) : p \in S \/ \E u \in S : Kind[u] = "upval" /\ p \in Values(ent, u)
    BY DEF ToVisit, Touched, WhiteIn, Contents
  <2> HIDE DEF new
  <2>4. \A p \in Obj : new[p] = "black" /\ col[p] # "black" =>
                       \/ Kind[p] = "string"
                       \/ Kind[p] = "upval" /\ hm[p] = NC /\ \A v \in Values(ent, p) : new[v] \notin Whites
    BY <2>2 DEF Whites
  <2> QED
    BY <1>3, <2>1, <2>2, <2>3, <2>4
<1> QED
  BY <1>1, <1>2, <1>3

\* A barrier after o, whose colour was col[o], got references to S.  Threads and open
\* upvalues may get some at the same time.
Stored(col, o, S, G) ==
    /\ Undisturbed /\ UNCHANGED <<grayagain, tosweep>>
    /\ col \in [Obj -> Colors] /\ o \in Obj /\ S \in SUBSET Obj
    /\ Barrier(col, entry', home', o, S) /\ Kind[o] # "thread"
    /\ \A p \in Obj : Allocated(p) => list'[p] = list[p]
    /\ \A p \in S : Allocated(p)'
    /\ \A u \in S : Kind[u] = "upval" => \A v \in Values(entry', u) : Allocated(v)'
    /\ \A p \in Obj : \A f \in entry'[p] : Shape(p, f)
    /\ \A p \in Obj : home'[p] # NC => Kind[home'[p]] = "thread"
    /\ \A p \in Obj :
          \/ col[p] = color[p] /\ (Allocated(p)' => Allocated(p))
          \/ ~Allocated(p) /\ col[p] = currentwhite
          \/ p = o /\ Kind[p] = "upval" /\ home'[p] = NC /\ col[p] = "black"
              /\ color[p] \notin Whites /\ S = Values(entry', p) /\ Allocated(p)
    /\ \A p \in Obj : Allocated(p) /\ col[p] = "gray" => home'[p] = home[p]
    /\ \A p, x : <<p, x>> \in G =>
          \/ p = o /\ x \in S
          \/ p \in Obj /\ Kind[p] = "thread" /\ (KeepInvariant => col[p] # "black")
          \/ p \in Obj /\ Kind[p] = "upval" /\ home'[p] # NC /\ col[p] # "black"

\* After a store and luaC_barrier_ the marks are as they should be.
LEMMA BarrierKeeps ==
    ASSUME IInv, TypeOK', gcstate # "atomic", NEW col, NEW o, NEW S, NEW G, Stored(col, o, S, G)
    PROVE  /\ \A p \in Obj : p \in Live => p \in Live'
           /\ \A p \in Obj : Allocated(p)' /\ ~Allocated(p) => p \in Live'
           /\ \A p \in Live' : p \notin Live => ~Allocated(p)
           /\ CarefulSweep /\ CarefulMarks(G) /\ CarefulLists
<1> USE ConstantsAssumption DEF Stored
<1>w. /\ currentwhite' = currentwhite /\ OtherWhite' = OtherWhite /\ currentwhite # OtherWhite
      /\ currentwhite \in Whites /\ OtherWhite \in Whites /\ color \in [Obj -> Colors]
      /\ \A c \in {"gray", "black"} : c \notin Whites
  BY DEF Undisturbed, OtherWhite, IInv, TypeOK, Domains, Whites, Colors
<1>u. \A u \in Obj : Kind[u] = "upval" => \A v \in Values(entry', u) : Kind[v] # "upval"
  BY DEF Shape, Values
<1>t. entry' \in [Obj -> SUBSET (Val \X Val)] /\ home' \in [Obj -> Val]
  BY DEF TypeOK, Domains
<1>b. /\ ~KeepInvariant =>
                 /\ gray' = gray
                 /\ \A p \in Obj : color'[p] = col[p] \/ (col[p] = "black" /\ color'[p] = currentwhite)
      /\ KeepInvariant =>
                 /\ \A p \in Obj : color'[p] = col[p] \/ (col[p] \in Whites /\ color'[p] \in {"gray", "black"})
                 /\ color'[o] = "black" => \A x \in S : color'[x] \notin Whites
                 /\ \A p \in Obj : color'[p] = "black" /\ col[p] # "black" =>
                       \/ Kind[p] = "string"
                       \/ Kind[p] = "upval" /\ home'[p] = NC /\ \A v \in Values(entry', p) : color'[v] \notin Whites
                 /\ \A p \in Obj : color'[p] = "gray" /\ col[p] # "gray" =>
                       p \in gray' \/ (Kind[p] = "upval" /\ home'[p] # NC)
                 /\ gray \subseteq gray'
                 /\ \A p \in gray' \ gray :
                       /\ p \in Obj /\ color'[p] = "gray" /\ col[p] \in Whites /\ Kind[p] \notin LeafKinds
                       /\ p \in S \/ \E u \in S : Kind[u] = "upval" /\ p \in Values(entry', u)
  BY <1>w, <1>u, <1>t, BarrierFacts
<1>1. \A p \in Obj : color'[p] = OtherWhite /\ Allocated(p)' => Allocated(p) /\ color[p] = OtherWhite
  BY <1>w, <1>b
<1>2. \A p \in Obj : color[p] = OtherWhite /\ Allocated(p) => color'[p] = OtherWhite
  BY <1>w, <1>b DEF IInv, DeadAreSwept, KeepInvariant, IsDead
<1>3. \A p \in Obj : color'[p] \notin Whites /\ ~KeepInvariant /\ Allocated(p)' => Allocated(p) /\ color[p] \notin Whites
  BY <1>w, <1>b
<1>4. /\ \A p \in Obj : p \in Live => p \in Live'
      /\ \A p \in Obj : Allocated(p)' /\ ~Allocated(p) => p \in Live'
      /\ \A p \in Live' : p \notin Live => ~Allocated(p)
  BY <1>1, <1>2, <1>w DEF Live, IsDead, Allocated
<1>5. CarefulSweep
  BY <1>1, <1>3, <1>w DEF CarefulSweep, IsDead, IsWhite
<1>6. CarefulMarks(G)
  <2> SUFFICES ASSUME KeepInvariant PROVE CarefulMarks(G)
    BY DEF CarefulMarks
  <2>1. \A p \in Obj : Allocated(p) /\ ~IsWhite(p) => ~IsWhite(p)'
    BY <1>w, <1>b DEF IsWhite
  <2>2. \A p, x : <<p, x>> \in G /\ IsBlack(p)' => ~IsWhite(x)'
    <3> SUFFICES ASSUME NEW p, NEW x, <<p, x>> \in G, color'[p] = "black" PROVE p = o /\ x \in S
      BY <1>b DEF IsBlack, IsWhite
    <3> QED
      BY <1>b DEF LeafKinds
  <2>3. \A p \in Obj : Allocated(p)' /\ IsBlack(p)' =>
              \/ Allocated(p) /\ IsBlack(p)
              \/ Kind[p] # "thread" /\ \A x : RefersTo(p, x)' => ~IsWhite(x)'
    <3> SUFFICES ASSUME NEW p \in Obj, Allocated(p)', color'[p] = "black", ~(Allocated(p) /\ color[p] = "black"),
                        NEW x, Ref(entry', home', p, x)
                 PROVE  Kind[p] # "thread" /\ ~IsWhite(x)'
      BY <1>b, <1>w DEF IsBlack, RefersTo
    <3>1. \/ Kind[p] = "string"
          \/ Kind[p] = "upval" /\ home'[p] = NC /\ \A v \in Values(entry', p) : color'[v] \notin Whites
      BY <1>b, <1>w
    <3>2. Kind[p] = "upval" /\ x \in Values(entry', p)
      BY <3>1 DEF Ref, Shape, Values
    <3> QED
      BY <3>1, <3>2 DEF IsWhite
  <2>4. \A p \in Obj : Allocated(p)' /\ IsGray(p)' =>
              \/ Allocated(p) /\ IsGray(p) /\ home[p]' = home[p]
              \/ p \in gray' \cup grayagain'
              \/ Kind[p] = "upval" /\ home[p]' # NC
    BY <1>b, <1>w DEF IsGray
  <2> QED
    BY <2>1, <2>2, <2>3, <2>4 DEF CarefulMarks
<1>7. CarefulLists
  <2> SUFFICES ASSUME KeepInvariant PROVE CarefulLists
    BY DEF CarefulLists
  <2>1. \A p \in GrayLists : p \in Obj /\ Allocated(p) /\ color[p] = "gray" /\ Kind[p] \notin LeafKinds
    BY DEF IInv, GrayListed, GrayLists, MarkLists, TypeOK, Domains, IsGray, LeafKinds
  <2>2. \A p \in GrayLists : IsGray(p)'
    BY <2>1, <1>b, <1>w DEF IsGray, LeafKinds
  <2>3. \A p \in gray' \ gray : IsGray(p)' /\ Allocated(p)' /\ (IsGray(p) => ~Allocated(p)) /\ Kind[p] \notin LeafKinds
    BY <1>b, <1>w DEF IsGray
  <2> QED
    BY <2>2, <2>3, <1>b DEF CarefulLists
<1> QED
  BY <1>4, <1>5, <1>6, <1>7

\* luaC_barrierback_ for a table or a userdata that now refers to the objects of S.
LEMMA BackKeeps ==
    ASSUME IInv, Undisturbed, UNCHANGED <<list, home, gray, twups, tosweep>>,
           NEW o \in Obj, Allocated(o), Kind[o] \in {"table", "udata"},
           NEW S \in SUBSET Obj, BarrierBack(o, S),
           NEW G, \A p, x : <<p, x>> \in G => p = o /\ x \in S
    PROVE  /\ Live' = Live /\ \A p : Allocated(p)' = Allocated(p)
           /\ CarefulSweep /\ CarefulUpvals /\ CarefulMarks(G) /\ CarefulLists
<1>w. /\ OtherWhite' = OtherWhite /\ OtherWhite \in Whites /\ color \in [Obj -> Colors]
      /\ \A c \in {"gray", "black"} : c \notin Whites
  BY DEF Undisturbed, OtherWhite, IInv, TypeOK, Domains, Whites, Colors
<1>1. \/ color' = color /\ grayagain' = grayagain /\ (color[o] = "black" => \A x \in S : color[x] \notin Whites)
      \/ color' = [color EXCEPT ![o] = "gray"] /\ grayagain' = grayagain \cup {o} /\ color[o] = "black"
  BY DEF BarrierBack, WhiteIn, IsBlack
<1>2. \A p \in Obj : \/ color'[p] = color[p]
                     \/ p = o /\ color[p] = "black" /\ color'[p] = "gray" /\ p \in grayagain'
  BY <1>1, <1>w
<1>3. Live' = Live /\ \A p : Allocated(p)' = Allocated(p)
  BY <1>2, <1>w DEF Live, Allocated, IsDead
<1>4. CarefulSweep /\ CarefulUpvals
  BY <1>2, <1>3, <1>w DEF CarefulSweep, CarefulUpvals, IsDead, IsWhite
<1>5. CarefulMarks(G)
  <2>1. \A p, x : <<p, x>> \in G /\ IsBlack(p)' => ~IsWhite(x)'
    BY <1>1, <1>w DEF IsBlack, IsWhite
  <2>2. \A p \in Obj : /\ ~IsWhite(p) => ~IsWhite(p)'
                       /\ IsBlack(p)' => IsBlack(p)
                       /\ IsGray(p)' => IsGray(p) \/ p \in grayagain'
    BY <1>2, <1>w DEF IsBlack, IsGray, IsWhite
  <2> QED
    BY <1>3, <2>1, <2>2 DEF CarefulMarks
<1>6. CarefulLists
  <2> SUFFICES ASSUME KeepInvariant PROVE CarefulLists
    BY DEF CarefulLists
  <2>1. \A p \in GrayLists : p \in Obj /\ IsGray(p)
    BY DEF IInv, GrayListed, GrayLists, TypeOK, Domains
  <2>2. \A p \in GrayLists : IsGray(p)'
    BY <1>2, <2>1 DEF IsGray
  <2>3. \A p \in grayagain' \ grayagain : IsGray(p)' /\ Allocated(p)' /\ ~IsGray(p) /\ Kind[p] \notin LeafKinds
    BY <1>1, <1>w, <1>3 DEF IsGray, LeafKinds
  <2> QED
    BY <1>1, <2>2, <2>3 DEF CarefulLists
<1> QED
  BY <1>3, <1>4, <1>5, <1>6

\* A store into a table and luaC_barrierback_.
LEMMA SetTableKeeps ==
    ASSUME IInv, NEW th \in Threads, NEW t \in OnStack(th), NEW v \in OnStack(th),
           NEW k \in OnStack(th) \cup {NC}, SetTable(t, k, v), Undisturbed, UNCHANGED tosweep
    PROVE  \E G : Careful(G)
<1> DEFINE G == {<<t, x>> : x \in {k, v} \ {NC}}
<1>1. /\ t \in Live /\ t \in Obj /\ Kind[t] = "table"
      /\ \A x \in {k, v} \ {NC} : x \in Live /\ x \in Obj /\ Kind[x] # "upval"
  BY StackFacts DEF SetTable
<1>2. \A p \in Obj : \A f \in entry'[p] : f \in entry[p] \/ (p = t /\ f = <<k, v>>)
  BY <1>1 DEF SetTable, IInv, TypeOK, Domains
<1>3. \A p \in Obj : \A x : RefersTo(p, x)' => RefersTo(p, x) \/ (p = t /\ x \in {k, v} \ {NC})
  <2>1. home' = home /\ Kind[t] # "upval"
    BY <1>1 DEF SetTable
  <2> QED
    BY <1>1, <1>2, <2>1, OneEntry
<1>4. /\ Live' = Live /\ \A p : Allocated(p)' = Allocated(p)
      /\ CarefulSweep /\ CarefulUpvals /\ CarefulMarks(G) /\ CarefulLists
  <2>1. {k, v} \ {NC} \in SUBSET Obj /\ Allocated(t) /\ Kind[t] \in {"table", "udata"}
    BY <1>1 DEF Live
  <2>2. BarrierBack(t, {k, v} \ {NC}) /\ UNCHANGED <<list, home, gray, twups, tosweep>>
    BY DEF SetTable
  <2>3. \A p, x : <<p, x>> \in G => p = t /\ x \in {k, v} \ {NC}
    OBVIOUS
  <2> HIDE DEF G
  <2> QED
    BY <1>1, <2>1, <2>2, <2>3, BackKeeps
<1>5. CarefulHeap(G)
  <2>1. \A p \in Obj : \A f \in entry'[p] : f \in entry[p] \/ Shape(p, f)
    BY <1>1, <1>2 DEF Shape
  <2>2. \A p \in Obj : ~Allocated(p)' => entry'[p] \subseteq entry[p]
    BY <1>1, <1>2, <1>4 DEF Live
  <2>3. \A p, x : <<p, x>> \in G => x \in Live
    BY <1>1
  <2>4. UNCHANGED <<list, home>>
    BY DEF SetTable
  <2> QED
    BY <1>3, <1>4, <2>1, <2>2, <2>3, <2>4 DEF CarefulHeap
<1> QED
  BY <1>4, <1>5 DEF Careful

\* lua_setiuservalue.
LEMMA SetUserValueKeeps ==
    ASSUME IInv, NEW th \in Threads, NEW o \in OnStack(th), NEW v \in OnStack(th),
           NEW old, SetUserValue(o, old, v), Undisturbed, UNCHANGED tosweep
    PROVE  \E G : Careful(G)
<1>1. /\ o \in Live /\ o \in Obj /\ Kind[o] = "udata"
      /\ v \in Live /\ v \in Obj /\ Kind[v] # "upval"
  BY StackFacts DEF SetUserValue
<1>2. \A p \in Obj : \A f \in entry'[p] : f \in entry[p] \/ (p = o /\ f = <<NC, v>>)
  BY <1>1 DEF SetUserValue, PutSlot, IInv, TypeOK, Domains
<1>3. \A p \in Obj : \A x : RefersTo(p, x)' => RefersTo(p, x) \/ (p = o /\ x = v)
  <2>1. home' = home /\ Kind[o] # "upval"
    BY <1>1 DEF SetUserValue
  <2> QED
    BY <1>1, <1>2, <2>1, OneEntry
<1>4. /\ Live' = Live /\ \A p : Allocated(p)' = Allocated(p)
      /\ CarefulSweep /\ CarefulUpvals /\ CarefulMarks({<<o, v>>}) /\ CarefulLists
  <2>1. {v} \in SUBSET Obj /\ Allocated(o) /\ Kind[o] \in {"table", "udata"}
    BY <1>1 DEF Live
  <2>2. BarrierBack(o, {v}) /\ UNCHANGED <<list, home, gray, twups, tosweep>>
    BY DEF SetUserValue
  <2>3. \A p, x : <<p, x>> \in {<<o, v>>} => p = o /\ x \in {v}
    OBVIOUS
  <2> QED
    BY <1>1, <2>1, <2>2, <2>3, BackKeeps
<1>5. CarefulHeap({<<o, v>>})
  <2>1. \A p \in Obj : \A f \in entry'[p] : f \in entry[p] \/ Shape(p, f)
    BY <1>1, <1>2 DEF Shape
  <2>2. \A p \in Obj : ~Allocated(p)' => entry'[p] \subseteq entry[p]
    BY <1>1, <1>2, <1>4 DEF Live
  <2>3. UNCHANGED <<list, home>>
    BY DEF SetUserValue
  <2> QED
    BY <1>1, <1>3, <1>4, <2>1, <2>2, <2>3 DEF CarefulHeap
<1> QED
  BY <1>4, <1>5 DEF Careful

\* An operation whose objects are all allocated before it: o gets <<NC, x>> and keeps `rest'.
SlotStored(o, x, rest, G) ==
    /\ Undisturbed /\ UNCHANGED <<list, home, twups, grayagain, tosweep>>
    /\ o \in Live /\ Kind[o] # "thread" /\ x \in Live
    /\ \A f \in rest : f \in entry[o]
    /\ Shape(o, <<NC, x>>)
    /\ entry' = [entry EXCEPT ![o] = rest \cup {<<NC, x>>}]
    /\ Barrier(color, entry', home, o, {x})
    /\ \A p, y : <<p, y>> \in G => y = x /\ (p = o \/ (p \in Obj /\ Allocated(p) /\ Kind[p] = "thread"))
    /\ \A p \in Obj : \A y : RefersTo(p, y)' => RefersTo(p, y) \/ <<p, y>> \in G

\* A store of existing objects into o and luaC_barrier_.
LEMMA SlotKeeps ==
    ASSUME IInv, TypeOK', gcstate # "atomic", NEW o, NEW x, NEW rest, NEW G, SlotStored(o, x, rest, G)
    PROVE  Careful(G)
<1> USE ConstantsAssumption DEF SlotStored
<1>1. o \in Obj /\ x \in Obj /\ {x} \in SUBSET Obj /\ Allocated(o) /\ Allocated(x)
  BY DEF Live
<1>2. \A p \in Obj : \A f \in entry'[p] : f \in entry[p] \/ (p = o /\ f = <<NC, x>>)
  BY <1>1 DEF IInv, TypeOK, Domains
<1>3. \A p \in Obj : \A f \in entry'[p] : Shape(p, f)
  BY <1>2 DEF IInv, HeapShape, Shape
<1>4. \A p \in Obj : Allocated(p)' <=> Allocated(p)
  BY DEF Allocated
<1>5. Kind[x] = "upval" => \A v \in Values(entry', x) : Allocated(v)'
  <2> SUFFICES ASSUME Kind[x] = "upval", NEW v \in Values(entry', x) PROVE Allocated(v)'
    OBVIOUS
  <2>1. v \in Values(entry, x)
    BY <1>1, <1>2 DEF Values, Shape
  <2>2. v \in Live
    BY <2>1 DEF IInv, NoDangling, Refs
  <2> QED
    BY <1>4, <2>2 DEF Live
<1>6. \A p \in Obj : home'[p] # NC => Kind[home'[p]] = "thread"
  BY DEF IInv, FreedIsUnlinked
<1>7. \A p, y : <<p, y>> \in G =>
          \/ p = o /\ y \in {x}
          \/ p \in Obj /\ Kind[p] = "thread" /\ (KeepInvariant => color[p] # "black")
  BY DEF IsBlack, IInv, MarkLists
<1>8. /\ \A p \in Obj : p \in Live => p \in Live'
      /\ \A p \in Live' : p \notin Live => ~Allocated(p)
      /\ CarefulSweep /\ CarefulMarks(G) /\ CarefulLists
  <2>1. color \in [Obj -> Colors] /\ Barrier(color, entry', home', o, {x})
    BY DEF IInv, TypeOK, Domains, Colors
  <2>2. Stored(color, o, {x}, G)
    <3>1. /\ \A p \in Obj : Allocated(p) => list'[p] = list[p]
          /\ \A p \in Obj : Allocated(p) /\ color[p] = "gray" => home'[p] = home[p]
          /\ \A p \in Obj : color[p] = color[p] /\ (Allocated(p)' => Allocated(p))
      BY <1>4
    <3>2. \A p \in {x} : Allocated(p)'
      BY <1>1, <1>4
    <3>3. \A u \in {x} : Kind[u] = "upval" => \A v \in Values(entry', u) : Allocated(v)'
      BY <1>5
    <3> QED
      BY <1>1, <1>3, <1>6, <1>7, <2>1, <3>1, <3>2, <3>3 DEF Stored
  <2> QED
    BY <2>2, BarrierKeeps
<1>9. CarefulHeap(G)
  <2>1. \A p \in Obj : ~Allocated(p)' => entry'[p] \subseteq entry[p]
    BY <1>1, <1>2, <1>4
  <2>2. \A p, y : <<p, y>> \in G => y \in Live'
    BY <1>1, <1>8
  <2> QED
    BY <1>3, <1>4, <1>8, <2>1, <2>2 DEF CarefulHeap
<1>10. CarefulUpvals
  BY DEF CarefulUpvals
<1> QED
  BY <1>8, <1>9, <1>10 DEF Careful

\* lua_replace and lua_setupvalue on a C closure.
LEMMA SetClosureSlotKeeps ==
    ASSUME IInv, TypeOK', gcstate # "atomic", NEW th \in Threads, NEW o \in OnStack(th), NEW v \in OnStack(th),
           NEW old, SetClosureSlot(o, old, v), Undisturbed, UNCHANGED tosweep
    PROVE  Careful({<<o, v>>})
<1> DEFINE rest == entry[o] \ {old}
<1>1. /\ o \in Live /\ o \in Obj /\ Kind[o] = "closure"
      /\ v \in Live /\ v \in Obj /\ Kind[v] # "upval"
  BY StackFacts DEF SetClosureSlot
<1>2. /\ entry' = [entry EXCEPT ![o] = rest \cup {<<NC, v>>}]
      /\ Barrier(color, entry', home, o, {v})
      /\ UNCHANGED <<list, home, twups, grayagain, tosweep>>
  BY DEF SetClosureSlot, PutSlot
<1>3. \A p \in Obj : \A f \in entry'[p] : f \in entry[p] \/ (p = o /\ f = <<NC, v>>)
  BY <1>1, <1>2 DEF IInv, TypeOK, Domains
<1>4. \A p \in Obj : \A x : RefersTo(p, x)' => RefersTo(p, x) \/ (p = o /\ x = v)
  <2>1. home' = home /\ Kind[o] # "upval"
    BY <1>1, <1>2
  <2> QED
    BY <1>1, <1>3, <2>1, OneEntry
<1>5. Shape(o, <<NC, v>>)
  BY <1>1 DEF Shape
<1>6. \A f \in rest : f \in entry[o]
  OBVIOUS
<1>7. \A p \in Obj : \A x : RefersTo(p, x)' => RefersTo(p, x) \/ <<p, x>> \in {<<o, v>>}
  BY <1>4
<1>8. \A p, y : <<p, y>> \in {<<o, v>>} => y = v /\ p = o
  OBVIOUS
<1>9. SlotStored(o, v, rest, {<<o, v>>})
  BY <1>1, <1>2, <1>5, <1>6, <1>7, <1>8 DEF SlotStored
<1> HIDE DEF rest
<1> QED
  BY <1>9, SlotKeeps

\* A new closure refers to an upvalue that exists.
LEMMA ShareUpvalKeeps ==
    ASSUME IInv, TypeOK', gcstate # "atomic", NEW th \in Threads, NEW cl \in OnStack(th), NEW u \in Obj,
           ShareUpval(th, cl, u), Undisturbed, UNCHANGED tosweep
    PROVE  Careful({<<cl, u>>})
<1>1. cl \in Live /\ cl \in Obj /\ Kind[cl] = "closure" /\ th \in Live
  BY StackFacts DEF ShareUpval
<1>2. /\ entry' = [entry EXCEPT ![cl] = entry[cl] \cup {<<NC, u>>}]
      /\ Barrier(color, entry', home, cl, {u})
      /\ UNCHANGED <<list, home, twups, grayagain, tosweep>>
  BY <1>1 DEF ShareUpval, IInv, TypeOK, Domains
<1>u. u \in Live
  <2>1. CASE u \in OpenUpvals(home, th)
    BY <1>1, <2>1 DEF IInv, NoDangling, Refs
  <2>2. CASE u \in Upvals(Contents(entry, OnStack(th)))
    <3>1. PICK c \in OnStack(th) : u \in Values(entry, c)
      BY <2>2 DEF Upvals, Contents
    <3>2. c \in Live
      BY <3>1, StackFacts
    <3> QED
      BY <3>1, <3>2 DEF IInv, NoDangling, Refs
  <2> QED
    BY <2>1, <2>2 DEF ShareUpval
<1>3. \A p \in Obj : \A f \in entry'[p] : f \in entry[p] \/ (p = cl /\ f = <<NC, u>>)
  BY <1>1, <1>2 DEF IInv, TypeOK, Domains
<1>4. \A p \in Obj : \A x : RefersTo(p, x)' => RefersTo(p, x) \/ (p = cl /\ x = u)
  BY <1>1, <1>2, <1>3, OneEntry, ConstantsAssumption
<1>5. Shape(cl, <<NC, u>>)
  BY <1>1 DEF Shape
<1>7. \A p \in Obj : \A x : RefersTo(p, x)' => RefersTo(p, x) \/ <<p, x>> \in {<<cl, u>>}
  BY <1>4
<1>8. \A p, y : <<p, y>> \in {<<cl, u>>} => y = u /\ p = cl
  OBVIOUS
<1>9. SlotStored(cl, u, entry[cl], {<<cl, u>>})
  BY <1>1, <1>2, <1>u, <1>5, <1>7, <1>8 DEF SlotStored
<1> QED
  BY <1>9, SlotKeeps

\* OP_SETUPVAL.
LEMMA SetUpvalKeeps ==
    ASSUME IInv, TypeOK', gcstate # "atomic", NEW th \in Threads, NEW cl \in OnStack(th), NEW v \in OnStack(th),
           NEW u \in Obj, SetUpval(cl, u, v), Undisturbed, UNCHANGED tosweep
    PROVE  \E G : Careful(G)
<1> USE ConstantsAssumption
<1>g. PICK h : h = home[u]
  OBVIOUS
<1> DEFINE G == {<<u, v>>} \cup {<<p, v>> : p \in {h} \ {NC}}
<1>1. /\ cl \in Live /\ cl \in Obj /\ v \in Live /\ v \in Obj /\ Kind[v] # "upval"
  BY StackFacts
<1>2. /\ entry' = [entry EXCEPT ![u] = {} \cup {<<NC, v>>}]
      /\ Barrier(color, entry', home, u, {v})
      /\ UNCHANGED <<list, home, twups, grayagain, tosweep>>
  BY DEF SetUpval
<1>u. u \in Live /\ Kind[u] = "upval"
  <2>1. u \in Values(entry, cl) /\ Kind[u] = "upval"
    BY DEF SetUpval, Upvals
  <2> QED
    BY <1>1, <2>1 DEF IInv, NoDangling, Refs
<1>h. h # NC => h \in Obj /\ Allocated(h) /\ Kind[h] = "thread"
  BY <1>u, <1>g DEF IInv, FreedIsUnlinked, TypeOK, Domains, Val
<1>3. \A p \in Obj : entry'[p] = IF p = u THEN {<<NC, v>>} ELSE entry[p]
  BY <1>2 DEF IInv, TypeOK, Domains
<1>4. \A p \in Obj : \A x : RefersTo(p, x)' => RefersTo(p, x) \/ <<p, x>> \in G
  <2> SUFFICES ASSUME NEW p \in Obj, NEW x, Ref(entry', home, p, x) PROVE Ref(entry, home, p, x) \/ <<p, x>> \in G
    BY <1>2 DEF RefersTo
  <2>1. CASE x # NC /\ \E e \in entry'[p] : x = e[1] \/ x = e[2]
    BY <1>3, <2>1 DEF Ref
  <2>2. CASE \E w \in Obj : /\ Kind[w] = "upval" /\ home[w] = p
                            /\ x = w \/ (x # NC /\ \E e \in entry'[w] : x = e[2])
    <3>1. PICK w \in Obj : /\ Kind[w] = "upval" /\ home[w] = p
                           /\ x = w \/ (x # NC /\ \E e \in entry'[w] : x = e[2])
      BY <2>2
    <3>2. CASE w = u
      BY <1>3, <1>g, <3>1, <3>2 DEF Ref
    <3>3. CASE w # u
      BY <1>3, <3>1, <3>3 DEF Ref
    <3> QED
      BY <3>2, <3>3
  <2> QED
    BY <2>1, <2>2 DEF Ref
<1>5. Shape(u, <<NC, v>>) /\ Kind[u] # "thread"
  BY <1>1, <1>u DEF Shape
<1>6. \A p, y : <<p, y>> \in G => y = v /\ (p = u \/ (p \in Obj /\ Allocated(p) /\ Kind[p] = "thread"))
  BY <1>h
<1> HIDE DEF G
<1>7. SlotStored(u, v, {}, G)
  BY <1>1, <1>2, <1>u, <1>4, <1>5, <1>6 DEF SlotStored
<1>8. Careful(G)
  BY <1>7, SlotKeeps
<1> QED
  BY <1>8

\* A stack slot becomes the cell of a new upvalue, linked in twups.
LEMMA OpenUpvalKeeps ==
    ASSUME IInv, TypeOK', gcstate # "atomic", NEW th \in Threads, NEW cl \in OnStack(th), NEW v \in OnStack(th),
           NEW u \in Obj, OpenUpval(th, cl, u, v), Undisturbed, UNCHANGED tosweep
    PROVE  Careful({<<cl, u>>, <<th, u>>, <<u, v>>})
<1> USE ConstantsAssumption
<1> DEFINE G == {<<cl, u>>, <<th, u>>, <<u, v>>}
           col == [color EXCEPT ![u] = currentwhite]
<1>1. /\ th \in Live /\ th \in Obj /\ Kind[th] = "thread" /\ Allocated(th)
      /\ cl \in Live /\ cl \in Obj /\ Kind[cl] = "closure" /\ Allocated(cl)
      /\ v \in Live /\ v \in Obj /\ Kind[v] # "upval" /\ Allocated(v)
      /\ Kind[u] = "upval" /\ ~Allocated(u) /\ entry[u] = {} /\ home[u] = NC
  BY StackFacts DEF OpenUpval, Live, Allocated, IInv, FreedIsUnlinked
<1>2. /\ \A p \in Obj : home'[p] = IF p = u THEN th ELSE home[p]
      /\ \A p \in Obj : list'[p] = IF p = u THEN "allgc" ELSE list[p]
      /\ \A p \in Obj : Allocated(p)' <=> p = u \/ Allocated(p)
      /\ twups' = twups \cup {th} /\ UNCHANGED <<grayagain, tosweep>>
      /\ Barrier(col, entry', home', cl, {u}) /\ <<NC, v>> \in entry[th]
  BY DEF OpenUpval, LinkInTwups, Allocated, IInv, TypeOK, Domains
<1>3. /\ \A f \in entry'[th] : f \in entry[th]
      /\ \A f \in entry'[cl] : f \in entry[cl] \/ f = <<NC, u>>
      /\ entry'[u] = {<<NC, v>>}
      /\ \A p \in Obj \ {th, cl, u} : entry'[p] = entry[p]
  BY <1>1 DEF OpenUpval, IInv, TypeOK, Domains
<1>4. \A p \in Obj : \A f \in entry'[p] : Shape(p, f)
  <2>1. \A p \in Obj : \A f \in entry[p] : Shape(p, f)
    BY DEF IInv, HeapShape, Shape
  <2> QED
    BY <1>1, <1>3, <2>1 DEF Shape
<1>5. \A p \in Obj : \A x : RefersTo(p, x)' => RefersTo(p, x) \/ <<p, x>> \in G
  <2> SUFFICES ASSUME NEW p \in Obj, NEW x, Ref(entry', home', p, x) PROVE Ref(entry, home, p, x) \/ <<p, x>> \in G
    BY DEF RefersTo
  <2>1. CASE x # NC /\ \E e \in entry'[p] : x = e[1] \/ x = e[2]
    BY <1>1, <1>3, <2>1 DEF Ref
  <2>2. CASE \E w \in Obj : /\ Kind[w] = "upval" /\ home'[w] = p
                            /\ x = w \/ (x # NC /\ \E e \in entry'[w] : x = e[2])
    <3>1. PICK w \in Obj : /\ Kind[w] = "upval" /\ home'[w] = p
                           /\ x = w \/ (x # NC /\ \E e \in entry'[w] : x = e[2])
      BY <2>2
    <3>2. CASE w = u
      <4>1. p = th /\ (x = u \/ x = v)
        BY <1>2, <1>3, <3>1, <3>2
      <4> QED
        BY <1>1, <1>2, <4>1 DEF Ref
    <3>3. CASE w # u
      BY <1>1, <1>2, <1>3, <3>1, <3>3 DEF Ref
    <3> QED
      BY <3>2, <3>3
  <2> QED
    BY <2>1, <2>2 DEF Ref
<1>6. /\ \A p \in Obj : p # u => col[p] = color[p]
      /\ col[u] = currentwhite /\ col \in [Obj -> Colors] /\ currentwhite # "black"
  BY DEF IInv, TypeOK, Domains, Colors, Whites
<1> HIDE DEF col
<1>7. Stored(col, cl, {u}, G)
  <2>1. \A p, x : <<p, x>> \in G =>
          \/ p = cl /\ x \in {u}
          \/ p \in Obj /\ Kind[p] = "thread" /\ (KeepInvariant => col[p] # "black")
          \/ p \in Obj /\ Kind[p] = "upval" /\ home'[p] # NC /\ col[p] # "black"
    <3>1. KeepInvariant => col[th] # "black"
      BY <1>1, <1>6, ThreadsNotBlack DEF IsBlack
    <3>2. home'[u] # NC
      BY <1>1, <1>2
    <3> QED
      BY <1>1, <1>6, <3>1, <3>2
  <2>2. /\ \A p \in Obj : Allocated(p) => list'[p] = list[p]
        /\ \A p \in {u} : Allocated(p)'
    BY <1>1, <1>2
  <2>3. \A w \in {u} : Kind[w] = "upval" => \A x \in Values(entry', w) : Allocated(x)'
    BY <1>1, <1>2, <1>3 DEF Values
  <2>4. \A p \in Obj : home'[p] # NC => Kind[home'[p]] = "thread"
    BY <1>1, <1>2 DEF IInv, FreedIsUnlinked
  <2>5. \A p \in Obj : \/ col[p] = color[p] /\ (Allocated(p)' => Allocated(p))
                       \/ ~Allocated(p) /\ col[p] = currentwhite
    BY <1>1, <1>2, <1>6
  <2>6. \A p \in Obj : Allocated(p) /\ col[p] = "gray" => home'[p] = home[p]
    BY <1>1, <1>2
  <2>7. {u} \in SUBSET Obj /\ Kind[cl] # "thread" /\ cl \in Obj
    BY <1>1
  <2> HIDE DEF G
  <2> QED
    BY <1>2, <1>4, <1>6, <2>1, <2>2, <2>3, <2>4, <2>5, <2>6, <2>7 DEF Stored
<1>8. /\ \A p \in Obj : p \in Live => p \in Live'
      /\ \A p \in Obj : Allocated(p)' /\ ~Allocated(p) => p \in Live'
      /\ \A p \in Live' : p \notin Live => ~Allocated(p)
      /\ CarefulSweep /\ CarefulMarks(G) /\ CarefulLists
  BY <1>7, BarrierKeeps
<1>9. CarefulHeap(G)
  <2>1. \A p \in Obj : ~Allocated(p)' => entry'[p] \subseteq entry[p] /\ home'[p] = home[p]
    BY <1>1, <1>2, <1>3
  <2>2. \A p, y : <<p, y>> \in G => y \in Live'
    BY <1>1, <1>2, <1>8
  <2>3. /\ list'[Main] = list[Main]
        /\ \A p \in Obj : list'[p] \in {list[p], "allgc"}
    BY <1>1, <1>2
  <2>4. \A p \in Obj : home'[p] \notin {NC, home[p]} =>
           Kind[p] = "upval" /\ Kind[home'[p]] = "thread" /\ Allocated(home'[p])
    BY <1>1, <1>2
  <2> QED
    BY <1>2, <1>4, <1>5, <1>8, <2>1, <2>2, <2>3, <2>4 DEF CarefulHeap
<1>10. CarefulUpvals
  BY <1>1, <1>2, <1>8 DEF CarefulUpvals
<1> QED
  BY <1>8, <1>9, <1>10 DEF Careful

\* luaF_closeupval blackens an upvalue and marks its value.
LEMMA CloseUpvalKeeps ==
    ASSUME IInv, TypeOK', gcstate # "atomic", NEW th \in Threads, NEW u \in Obj,
           CloseUpval(th, u), Undisturbed, UNCHANGED tosweep
    PROVE  Careful({})
<1> USE ConstantsAssumption
<1> DEFINE col == IF IsWhite(u) THEN color ELSE [color EXCEPT ![u] = "black"]
           S == Values(entry, u)
<1>1. th \in Live /\ th \in Obj /\ Allocated(th)
  BY StackFacts DEF Live
<1>2. /\ Kind[u] = "upval" /\ home[u] = th /\ Allocated(u)
      /\ \A p \in Obj : home'[p] = IF p = u THEN NC ELSE home[p]
      /\ UNCHANGED <<list, entry, twups, grayagain, tosweep>>
      /\ Barrier(col, entry', home', u, S)
  BY <1>1 DEF CloseUpval, IInv, TypeOK, Domains, FreedIsUnlinked
<1>3. \A p \in Obj : \A x : RefersTo(p, x)' => RefersTo(p, x)
  BY <1>2, NoEntry
<1>4. /\ \A p \in Obj : p # u => col[p] = color[p]
      /\ col[u] = color[u] \/ (col[u] = "black" /\ color[u] \notin Whites)
      /\ col[u] # "gray"
      /\ col \in [Obj -> Colors]
  BY DEF IInv, TypeOK, Domains, Colors, Whites, IsWhite
<1>5. S \in SUBSET Obj
  BY RefTypes DEF IInv, TypeOK, Domains
<1> HIDE DEF col
<1>6. Stored(col, u, S, {})
  <2>1. \A p \in Obj : Allocated(p)' <=> Allocated(p)
    BY <1>2 DEF Allocated
  <2>2. \A p \in S : Allocated(p)'
    <3>1. u \in Live => \A p \in S : p \in Live
      BY DEF IInv, NoDangling, Refs
    <3>2. RefersTo(th, u) /\ u \in Live
      BY <1>1, <1>2, RefersMeaning DEF Ref, RefersTo, IInv, NoDangling
    <3> QED
      BY <1>5, <2>1, <3>1, <3>2 DEF Live
  <2>3. \A p \in Obj : \A f \in entry'[p] : Shape(p, f)
    BY <1>2 DEF IInv, HeapShape, Shape
  <2>4. \A w \in S : Kind[w] = "upval" => \A x \in Values(entry', w) : Allocated(x)'
    BY <1>2, <2>3 DEF Values, Shape
  <2>5. \A p \in Obj : home'[p] # NC => Kind[home'[p]] = "thread"
    BY <1>2 DEF IInv, FreedIsUnlinked
  <2>6. \A p \in Obj :
              \/ col[p] = color[p] /\ (Allocated(p)' => Allocated(p))
              \/ ~Allocated(p) /\ col[p] = currentwhite
              \/ p = u /\ Kind[p] = "upval" /\ home'[p] = NC /\ col[p] = "black"
                  /\ color[p] \notin Whites /\ S = Values(entry', p) /\ Allocated(p)
    BY <1>2, <1>4, <2>1
  <2>7. \A p \in Obj : Allocated(p) /\ col[p] = "gray" => home'[p] = home[p]
    BY <1>2, <1>4
  <2>8. \A p \in Obj : Allocated(p) => list'[p] = list[p]
    BY <1>2
  <2> HIDE DEF S
  <2> QED
    BY <1>2, <1>4, <1>5, <2>2, <2>3, <2>4, <2>5, <2>6, <2>7, <2>8 DEF Stored
<1>7. \A p : Allocated(p)' <=> Allocated(p)
  BY <1>2 DEF Allocated
<1>8. /\ \A p \in Obj : p \in Live => p \in Live'
      /\ \A p \in Live' : p \notin Live => ~Allocated(p)
      /\ CarefulSweep /\ CarefulMarks({}) /\ CarefulLists
  <2>1. PICK cl, s : cl = col /\ s = S
    OBVIOUS
  <2>2. Stored(cl, u, s, {})
    BY <1>6, <2>1
  <2> QED
    BY <2>2, BarrierKeeps
<1>9. CarefulHeap({})
  BY <1>2, <1>3, <1>7, <1>8 DEF CarefulHeap
<1>10. CarefulUpvals
  BY <1>2 DEF CarefulUpvals
<1> QED
  BY <1>8, <1>9, <1>10 DEF Careful

\* luaC_checkfinalizer moves an object, and whitens it when the sweep might miss it.
LEMMA CheckFinalizerKeeps ==
    ASSUME IInv, gcstate # "atomic", NEW th \in Threads, NEW o \in OnStack(th), CheckFinalizer(o), Undisturbed
    PROVE  Careful({})
<1> USE ConstantsAssumption
<1>w. /\ currentwhite \in Whites /\ OtherWhite \in Whites /\ currentwhite # OtherWhite
      /\ OtherWhite' = OtherWhite /\ color \in [Obj -> Colors]
  BY DEF Undisturbed, OtherWhite, IInv, TypeOK, Domains, Whites, Colors
<1>1. /\ o \in Live /\ o \in Obj /\ Allocated(o) /\ ~IsDead(o)
      /\ Kind[o] \in {"table", "udata"} /\ o # Main
  BY StackFacts DEF CheckFinalizer, Live
<1>2. /\ \A p \in Obj : list'[p] = IF p = o THEN "finobj" ELSE list[p]
      /\ \A p \in Obj : Allocated(p)' <=> Allocated(p)
      /\ tosweep' = tosweep \ {o} /\ o \in GCAllowed
      /\ UNCHANGED <<entry, home, gray, grayagain, twups>>
  BY <1>1 DEF CheckFinalizer, IInv, TypeOK, Domains, Allocated
<1>3. \A p \in Obj : \/ color'[p] = color[p] /\ (p = o => ~IsSweepPhase)
                     \/ IsSweepPhase /\ p = o /\ color'[p] = currentwhite
                     \/ p # o /\ color'[p] = color[p]
  BY <1>w DEF CheckFinalizer
<1>4. \A p \in Obj : p \in Live' <=> p \in Live
  BY <1>1, <1>2, <1>3, <1>w DEF Live, IsDead, Allocated
<1>5. \A p \in Obj : \A x : RefersTo(p, x)' => RefersTo(p, x)
  BY <1>2 DEF RefersTo
<1>6. CarefulHeap({})
  BY <1>1, <1>2, <1>4, <1>5 DEF CarefulHeap, Live
<1>7. CarefulSweep
  <2>1. ~IsDead(o)' /\ (~KeepInvariant => IsWhite(o)')
    <3>1. CASE IsSweepPhase
      BY <1>1, <1>3, <1>w, <3>1 DEF IsDead, IsWhite
    <3>2. CASE ~IsSweepPhase /\ ~KeepInvariant
      <4>1. IsWhite(o)
        BY <1>1, <3>2 DEF IInv, MarkedAreSwept, IsSweepPhase, TypeOK, Phases
      <4> QED
        BY <1>1, <1>3, <1>w, <3>2, <4>1 DEF IsDead, IsWhite
    <3>3. CASE ~IsSweepPhase /\ KeepInvariant
      BY <1>1, <1>3, <1>w, <3>3 DEF IsDead
    <3> QED
      BY <3>1, <3>2, <3>3
  <2>2. \A p \in Obj : p # o => (IsDead(p)' <=> IsDead(p)) /\ (IsWhite(p)' <=> IsWhite(p)) /\ list'[p] = list[p]
    BY <1>2, <1>3, <1>w DEF IsDead, IsWhite
  <2> QED
    BY <1>2, <2>1, <2>2 DEF CarefulSweep
<1>8. CarefulUpvals
  BY <1>2 DEF CarefulUpvals
<1>9. CarefulMarks({}) /\ CarefulLists
  <2> SUFFICES ASSUME KeepInvariant PROVE CarefulMarks({}) /\ CarefulLists
    BY DEF CarefulMarks, CarefulLists
  <2>1. \A p \in Obj : color'[p] = color[p]
    BY <1>3 DEF KeepInvariant, IsSweepPhase
  <2>2. CarefulMarks({})
    BY <1>2, <2>1 DEF CarefulMarks, IsBlack, IsGray, IsWhite
  <2> QED
    BY <1>2, <2>1, <2>2 DEF CarefulLists, IsGray, IInv, GrayListed, TypeOK, Domains, GrayLists
<1> QED
  BY <1>6, <1>7, <1>8, <1>9 DEF Careful

\* No operation of the program can break the invariant.
LEMMA MutatorKeeps ==
    ASSUME IInv, TypeOK', Mutator
    PROVE  IInv'
<1>1. PICK th \in Threads : LET here == OnStack(th) IN
        \/ /\ \/ \E o \in Obj : New(th, o) \/ Intern(th, o)
              \/ \E o \in here, v \in Obj : Load(th, o, v)
              \/ \E v \in here : Pop(th, v)
              \/ \E t, v \in here, k \in here \cup {NC} : SetTable(t, k, v)
              \/ \E t \in here : \E e \in entry[t] : ClearEntry(t, e)
              \/ \E o, v \in here : \E old \in entry[o] \cup {<<NC, NC>>} :
                    SetUserValue(o, old, v) \/ SetClosureSlot(o, old, v)
              \/ \E cl, v \in here, u \in Obj : OpenUpval(th, cl, u, v)
              \/ \E cl \in here, u \in Obj : ShareUpval(th, cl, u)
              \/ \E cl, v \in here, u \in Obj : SetUpval(cl, u, v)
              \/ \E u \in Obj : CloseUpval(th, u)
              \/ \E t \in here, m \in Modes : SetMode(t, m)
           /\ UNCHANGED tosweep
        \/ \E o \in here : CheckFinalizer(o)
  BY DEF Mutator, Mutate
<1> DEFINE here == OnStack(th)
<1>2. Undisturbed /\ gcstate # "atomic"
  BY DEF Mutator, MutatorRuns, Undisturbed, locals, IInv, TypeOK, Phases
<1>3. \A G : Careful(G) => IInv'
  BY <1>2, CarefulKeeps DEF Careful
<1>t. entry \in [Obj -> SUBSET (Val \X Val)]
  BY DEF IInv, TypeOK, Domains
<1>a. CASE (\E o \in Obj : New(th, o) \/ Intern(th, o)) /\ UNCHANGED tosweep
  BY <1>a, <1>2, <1>3, NewKeeps
<1>b. CASE (\E o \in here, v \in Obj : Load(th, o, v)) /\ UNCHANGED tosweep
  BY <1>b, <1>2, <1>3, LoadKeeps
<1>c. CASE (\E v \in here : Pop(th, v)) /\ UNCHANGED tosweep
  <2>1. /\ UNCHANGED <<list, home, color, gray, grayagain, twups, tosweep>>
        /\ \A p \in Obj : entry'[p] \subseteq entry[p]
    BY <1>c, <1>t DEF Pop
  <2> QED
    BY <2>1, <1>2, <1>3, RemoveKeeps
<1>d. CASE (\E t, v \in here, k \in here \cup {NC} : SetTable(t, k, v)) /\ UNCHANGED tosweep
  <2>1. PICK t \in here, v \in here, k \in here \cup {NC} : SetTable(t, k, v)
    BY <1>d
  <2>2. \E G : Careful(G)
    BY <1>d, <1>2, <2>1, SetTableKeeps
  <2> QED
    BY <1>3, <2>2
<1>e. CASE (\E t \in here : \E e \in entry[t] : ClearEntry(t, e)) /\ UNCHANGED tosweep
  <2>1. /\ UNCHANGED <<list, home, color, gray, grayagain, twups, tosweep>>
        /\ \A p \in Obj : entry'[p] \subseteq entry[p]
    BY <1>e, <1>t DEF ClearEntry
  <2> QED
    BY <2>1, <1>2, <1>3, RemoveKeeps
<1>f. CASE (\E o, v \in here : \E old \in entry[o] \cup {<<NC, NC>>} :
                    SetUserValue(o, old, v) \/ SetClosureSlot(o, old, v)) /\ UNCHANGED tosweep
  <2>1. PICK o \in here, v \in here : \E old \in entry[o] \cup {<<NC, NC>>} :
                    SetUserValue(o, old, v) \/ SetClosureSlot(o, old, v)
    BY <1>f
  <2>2. PICK old : SetUserValue(o, old, v) \/ SetClosureSlot(o, old, v)
    BY <2>1
  <2>3. CASE SetUserValue(o, old, v)
    <3>1. \E G : Careful(G)
      BY <1>f, <1>2, <2>3, SetUserValueKeeps
    <3> QED
      BY <1>3, <3>1
  <2>4. CASE SetClosureSlot(o, old, v)
    BY <1>f, <1>2, <1>3, <2>4, SetClosureSlotKeeps
  <2> QED
    BY <2>2, <2>3, <2>4
<1>g. CASE (\E cl, v \in here, u \in Obj : OpenUpval(th, cl, u, v)) /\ UNCHANGED tosweep
  <2>1. PICK cl \in here, v \in here, u \in Obj : OpenUpval(th, cl, u, v)
    BY <1>g
  <2> QED
    BY <1>g, <1>2, <1>3, <2>1, OpenUpvalKeeps
<1>h. CASE (\E cl \in here, u \in Obj : ShareUpval(th, cl, u)) /\ UNCHANGED tosweep
  BY <1>h, <1>2, <1>3, ShareUpvalKeeps
<1>i. CASE (\E cl, v \in here, u \in Obj : SetUpval(cl, u, v)) /\ UNCHANGED tosweep
  <2>1. PICK cl \in here, v \in here, u \in Obj : SetUpval(cl, u, v)
    BY <1>i
  <2>2. \E G : Careful(G)
    BY <1>i, <1>2, <2>1, SetUpvalKeeps
  <2> QED
    BY <1>3, <2>2
<1>j. CASE (\E u \in Obj : CloseUpval(th, u)) /\ UNCHANGED tosweep
  BY <1>j, <1>2, <1>3, CloseUpvalKeeps
<1>k. CASE (\E t \in here, m \in Modes : SetMode(t, m)) /\ UNCHANGED tosweep
  <2>1. /\ UNCHANGED <<list, home, color, gray, grayagain, twups, tosweep>>
        /\ \A p \in Obj : entry'[p] \subseteq entry[p]
    BY <1>k, <1>t DEF SetMode
  <2> QED
    BY <2>1, <1>2, <1>3, RemoveKeeps
<1>l. CASE \E o \in here : CheckFinalizer(o)
  BY <1>l, <1>2, <1>3, CheckFinalizerKeeps
<1> QED
  BY <1>1, <1>a, <1>b, <1>c, <1>d, <1>e, <1>f, <1>g, <1>h, <1>i, <1>j, <1>k, <1>l DEF here

\* Nor can the return of a finalizer, or the start of one when all is white.
LEMMA FinalizerReturnsKeeps ==
    ASSUME IInv, TypeOK', FinalizerReturns
    PROVE  IInv'
<1>1. Undisturbed /\ gcstate # "atomic"
  BY DEF FinalizerReturns, MutatorRuns, Undisturbed, locals, marks, control, IInv, TypeOK, Phases
<1>2. /\ UNCHANGED <<list, home, color, gray, grayagain, twups, tosweep>>
      /\ \A p \in Obj : entry'[p] \subseteq entry[p]
  BY DEF FinalizerReturns, marks, control, IInv, TypeOK, Domains
<1> QED
  BY <1>1, <1>2, RemoveKeeps, CarefulKeeps DEF Careful

\* GCTM puts an object back when all is white.
LEMMA CallFinalizerKeeps ==
    ASSUME IInv, TypeOK', NEW o \in Obj, CallFinalizer(o)
    PROVE  IInv'
<1> USE ConstantsAssumption
<1>1. Undisturbed /\ gcstate = "callfin"
  BY DEF CallFinalizer, Undisturbed, locals, marks, control
<1>2. /\ \A p \in Obj : list'[p] = IF p = o THEN "allgc" ELSE list[p]
      /\ \A p \in Obj : Allocated(p)' <=> Allocated(p)
      /\ UNCHANGED <<home, color, gray, grayagain, twups, tosweep>>
      /\ list[o] = "tobefnz"
  BY DEF CallFinalizer, Dequeue, marks, control, IInv, TypeOK, Domains, Allocated
<1>3. \A p \in Obj : Live' = Live
  BY <1>1, <1>2 DEF Live, IsDead, OtherWhite, Undisturbed
<1>4. o \in Live /\ Main \in Live /\ list[Main] = "allgc" /\ Kind[o] \in {"table", "udata"} /\ o \in GCAllowed
  BY <1>1, <1>2 DEF IInv, HeapShape, DeadAreSwept, Live, Allocated
<1>5. \A p \in Obj : \A f \in entry'[p] : f \in entry[p] \/ (p = Main /\ f = <<NC, o>>)
  BY DEF CallFinalizer, Push, IInv, TypeOK, Domains
<1>6. \A p \in Obj : \A x : RefersTo(p, x)' => RefersTo(p, x) \/ (p = Main /\ x = o)
  <2>1. home' = home /\ Kind[Main] # "upval"
    BY <1>2
  <2> QED
    BY <1>5, <2>1, OneEntry
<1>7. CarefulHeap({<<Main, o>>})
  <2>1. \A p \in Obj : \A f \in entry'[p] : f \in entry[p] \/ Shape(p, f)
    BY <1>4, <1>5 DEF Shape
  <2>2. \A p \in Obj : ~Allocated(p)' => entry'[p] \subseteq entry[p]
    BY <1>2, <1>4, <1>5 DEF Live
  <2>3. list'[Main] = list[Main] /\ \A p \in Obj : list'[p] \in {list[p], "allgc"}
    BY <1>2, <1>4
  <2> QED
    BY <1>2, <1>3, <1>4, <1>6, <2>1, <2>2, <2>3 DEF CarefulHeap
<1>8. CarefulSweep
  <2>1. \A p \in Obj : Allocated(p) => IsWhite(p) /\ ~IsDead(p)
    BY <1>1 DEF IInv, MarkedAreSwept, DeadAreSwept, KeepInvariant, TypeOK, Phases, IsSweepPhase
  <2> QED
    BY <1>1, <1>2, <2>1 DEF CarefulSweep, IsDead, IsWhite, OtherWhite, Undisturbed
<1>9. CarefulUpvals /\ CarefulMarks({<<Main, o>>}) /\ CarefulLists
  BY <1>1, <1>2 DEF CarefulUpvals, CarefulMarks, CarefulLists, KeepInvariant
<1> QED
  BY <1>1, <1>7, <1>8, <1>9, CarefulKeeps

-----------------------------------------------------------------------------
(* Marking.                                                                *)

\* Nothing is freed, condemned or pardoned.
LEMMA HeapKept ==
    ASSUME IInv, UNCHANGED <<list, entry, home, currentwhite>>,
           \A o \in Obj : Allocated(o) => (IsDead(o)' <=> IsDead(o))
    PROVE  /\ HeapShape' /\ FreedIsUnlinked' /\ NoDangling' /\ Live' = Live
           /\ \A o : Allocated(o)' <=> Allocated(o)
           /\ \A o : Refs(o)' = Refs(o)
<1>1. \A o : (Allocated(o)' <=> Allocated(o)) /\ Refs(o)' = Refs(o)
  BY DEF Allocated, Refs, OpenUpvals
<1>2. Live' = Live
  BY <1>1 DEF Live
<1>3. NoDangling'
  BY <1>1, <1>2 DEF IInv, NoDangling
<1>4. FreedIsUnlinked'
  BY <1>1 DEF IInv, FreedIsUnlinked
<1>5. HeapShape'
  BY ConstantsAssumption DEF IInv, HeapShape, Allocated
<1> QED
  BY <1>1, <1>2, <1>3, <1>4, <1>5

\* What is true of every object while marking.
LEMMA WhileMarking ==
    ASSUME IInv, KeepInvariant
    PROVE  /\ \A o \in Obj : Allocated(o) => ~IsDead(o) /\ o \in Live
           /\ \A o \in Obj : Allocated(o) => \A r \in Refs(o) : r \in Obj /\ Allocated(r)
           /\ \A o \in GrayLists : o \in Obj /\ Allocated(o) /\ IsGray(o) /\ Kind[o] \notin LeafKinds
<1>1. \A o \in Obj : Allocated(o) => ~IsDead(o) /\ o \in Live
  BY DEF IInv, DeadAreSwept, KeepInvariant, Live
<1>2. \A o \in Obj : Allocated(o) => \A r \in Refs(o) : r \in Obj /\ Allocated(r)
  BY <1>1 DEF IInv, NoDangling, Live
<1>3. \A o \in GrayLists : o \in Obj /\ Allocated(o) /\ IsGray(o) /\ Kind[o] \notin LeafKinds
  BY DEF IInv, GrayListed, GrayLists, MarkLists, TypeOK, Domains, LeafKinds
<1> QED
  BY <1>1, <1>2, <1>3

\* Marking, with what it means for references.
LEMMA MarkStep ==
    ASSUME NEW col \in [Obj -> Colors], NEW ent \in [Obj -> SUBSET (Val \X Val)], NEW hm \in [Obj -> Val],
           NEW S \in SUBSET Obj, color' = ReallyMark(col, ent, hm, S),
           \A o \in Obj : \A e \in ent[o] : Shape(o, e),
           \A u \in Obj : hm[u] # NC => Kind[hm[u]] = "thread"
    PROVE  /\ color' \in [Obj -> Colors]
           /\ \A p \in Obj : color'[p] = col[p] \/ (col[p] \in Whites /\ color'[p] \in {"gray", "black"})
           /\ \A p \in S : color'[p] \notin Whites
           /\ \A p \in Obj : color'[p] = "black" /\ col[p] # "black" =>
                 Kind[p] \in LeafKinds /\ \A x : Ref(ent, hm, p, x) => color'[x] \notin Whites
           /\ \A p \in Obj : color'[p] \notin Whites /\ col[p] \in Whites /\ Kind[p] = "upval" =>
                 \A v \in Values(ent, p) : color'[v] \notin Whites
           /\ \A p \in Obj : color'[p] = "gray" /\ col[p] # "gray" =>
                 p \in ToVisit(col, ent, S) \/ (Kind[p] = "upval" /\ hm[p] # NC)
           /\ \A p \in ToVisit(col, ent, S) :
                 /\ p \in Obj /\ color'[p] = "gray" /\ col[p] \in Whites /\ Kind[p] \notin LeafKinds
                 /\ p \in S \/ \E u \in S : Kind[u] = "upval" /\ p \in Values(ent, u)
<1> DEFINE new == ReallyMark(col, ent, hm, S)
<1>1. \A u \in Obj : Kind[u] = "upval" => \A v \in Values(ent, u) : Kind[v] # "upval"
  BY DEF Shape, Values
<1>2. /\ new \in [Obj -> Colors]
      /\ \A p \in Obj : new[p] = col[p] \/ (col[p] \in Whites /\ new[p] \in {"gray", "black"})
      /\ \A p \in S : new[p] \notin Whites
      /\ \A p \in Obj : new[p] = "black" /\ col[p] # "black" =>
            Kind[p] = "string" \/ (Kind[p] = "upval" /\ hm[p] = NC)
      /\ \A p \in Obj : new[p] \notin Whites /\ col[p] \in Whites /\ Kind[p] = "upval" =>
            \A v \in Values(ent, p) : new[v] \notin Whites
      /\ \A p \in Obj : new[p] = "gray" /\ col[p] # "gray" =>
            p \in ToVisit(col, ent, S) \/ (Kind[p] = "upval" /\ hm[p] # NC)
      /\ \A p \in ToVisit(col, ent, S) :
            p \in Obj /\ new[p] = "gray" /\ col[p] \in Whites /\ Kind[p] \notin LeafKinds
  BY <1>1, MarkFacts
<1>3. \A p \in ToVisit(col, ent, S) : p \in S \/ \E u \in S : Kind[u] = "upval" /\ p \in Values(ent, u)
  BY DEF ToVisit, Touched, WhiteIn, Contents
<1> HIDE DEF new
<1>4. \A p \in Obj : new[p] = "black" /\ col[p] # "black" =>
          Kind[p] \in LeafKinds /\ \A x : Ref(ent, hm, p, x) => new[x] \notin Whites
  <2> SUFFICES ASSUME NEW p \in Obj, new[p] = "black", col[p] # "black"
               PROVE  Kind[p] \in LeafKinds /\ \A x : Ref(ent, hm, p, x) => new[x] \notin Whites
    OBVIOUS
  <2>1. CASE Kind[p] = "string"
    BY <2>1, ConstantsAssumption DEF Ref, Shape, LeafKinds
  <2>2. CASE Kind[p] = "upval"
    <3>1. \A v \in Values(ent, p) : new[v] \notin Whites
      BY <1>2, <2>2 DEF Whites
    <3>2. \A x : Ref(ent, hm, p, x) => x \in Values(ent, p)
      BY <2>2, ConstantsAssumption DEF Ref, Shape, Values
    <3> QED
      BY <2>2, <3>1, <3>2 DEF LeafKinds
  <2> QED
    BY <1>2, <2>1, <2>2
<1> QED
  BY <1>2, <1>3, <1>4 DEF new

-----------------------------------------------------------------------------
(* Visiting a gray object.                                                 *)

Visited(o, S, dest) ==
    /\ Visit(o, S, dest)
    /\ UNCHANGED <<list, entry, home, currentwhite, gcstate, atomicstep, tosweep, saved, origweak, origall>>
    /\ gcstate \in {"propagate", "atomic"}
    /\ \/ o \in gray /\ round' = round
       \/ o \in round /\ round' = round \ {o}
    /\ S \subseteq Refs(o)
    /\ dest \in {"none", "grayagain", "weak", "allweak", "ephemeron"}
    /\ dest \in {"weak", "allweak", "ephemeron"} => Kind[o] = "table"
    /\ gcstate = "propagate" /\ Kind[o] = "thread" => dest # "none"
    /\ dest = "none" => \A r \in Refs(o) : ~IsWhite(r)'

\* The colours after a visit, and who is in a list.
LEMMA VisitFacts ==
    ASSUME IInv, TypeOK', NEW o, NEW S, NEW dest, Visited(o, S, dest)
    PROVE  /\ o \in Obj /\ Allocated(o) /\ color[o] = "gray" /\ Kind[o] \notin LeafKinds
           /\ color'[o] = IF dest = "none" THEN "black" ELSE "gray"
           /\ \A p \in Obj : p # o => color'[p] = color[p] \/ (color[p] \in Whites /\ color'[p] \in {"gray", "black"})
           /\ \A x \in Obj : color[x] \notin Whites => color'[x] \notin Whites
           /\ \A p \in S : color'[p] \notin Whites
           /\ \A p \in Obj : p # o /\ color'[p] = "black" /\ color[p] # "black" =>
                 Kind[p] \in LeafKinds /\ \A x : RefersTo(p, x) => color'[x] \notin Whites
           /\ \A p \in Obj : color'[p] \notin Whites /\ color[p] \in Whites /\ Kind[p] = "upval" =>
                 \A v \in Values(entry, p) : color'[v] \notin Whites
           /\ \A p \in Obj : p # o /\ color'[p] = "gray" /\ color[p] # "gray" =>
                 p \in gray' \/ (Kind[p] = "upval" /\ home[p] # NC)
           /\ \A p \in gray : p # o => p \in gray'
           /\ \A p \in gray' : p \in gray \/
                 (p \in Obj /\ Allocated(p) /\ color'[p] = "gray" /\ color[p] \in Whites /\ Kind[p] \notin LeafKinds)
           /\ o \notin gray'
<1> USE ConstantsAssumption
<1> DEFINE col == [color EXCEPT ![o] = IF dest = "none" THEN "black" ELSE "gray"]
<1>k. KeepInvariant
  BY DEF Visited, KeepInvariant
<1>1. o \in Obj /\ Allocated(o) /\ color[o] = "gray" /\ Kind[o] \notin LeafKinds
  <2>1. o \in GrayLists
    BY DEF Visited, GrayLists
  <2> QED
    BY <1>k, <2>1, WhileMarking DEF IsGray
<1>w. color \in [Obj -> Colors] /\ \A c \in {"gray", "black"} : c \notin Whites
  BY DEF IInv, TypeOK, Domains, Colors, Whites
<1>2. /\ col \in [Obj -> Colors]
      /\ col[o] = IF dest = "none" THEN "black" ELSE "gray"
      /\ \A p \in Obj : p # o => col[p] = color[p]
  BY <1>1, <1>w DEF Colors
<1>3. color' = ReallyMark(col, entry, home, S) /\ gray' = (gray \ {o}) \cup ToVisit(col, entry, S)
  BY DEF Visited, Visit
<1>4. S \in SUBSET Obj /\ \A p \in S : Allocated(p)
  BY <1>k, <1>1, WhileMarking DEF Visited
<1>5. /\ entry \in [Obj -> SUBSET (Val \X Val)] /\ home \in [Obj -> Val]
      /\ \A p \in Obj : \A e \in entry[p] : Shape(p, e)
      /\ \A u \in Obj : home[u] # NC => Kind[home[u]] = "thread"
  BY DEF IInv, TypeOK, Domains, HeapShape, Shape, FreedIsUnlinked
<1> HIDE DEF col
<1>6. /\ \A p \in Obj : color'[p] = col[p] \/ (col[p] \in Whites /\ color'[p] \in {"gray", "black"})
      /\ \A p \in S : color'[p] \notin Whites
      /\ \A p \in Obj : color'[p] = "black" /\ col[p] # "black" =>
            Kind[p] \in LeafKinds /\ \A x : RefersTo(p, x) => color'[x] \notin Whites
      /\ \A p \in Obj : color'[p] \notin Whites /\ col[p] \in Whites /\ Kind[p] = "upval" =>
            \A v \in Values(entry, p) : color'[v] \notin Whites
      /\ \A p \in Obj : color'[p] = "gray" /\ col[p] # "gray" =>
            p \in ToVisit(col, entry, S) \/ (Kind[p] = "upval" /\ home[p] # NC)
      /\ \A p \in ToVisit(col, entry, S) :
            /\ p \in Obj /\ color'[p] = "gray" /\ col[p] \in Whites /\ Kind[p] \notin LeafKinds
            /\ p \in S \/ \E u \in S : Kind[u] = "upval" /\ p \in Values(entry, u)
  BY <1>2, <1>3, <1>4, <1>5, MarkStep DEF RefersTo
<1>7. \A p \in ToVisit(col, entry, S) : p # o /\ Allocated(p) /\ color[p] \in Whites
  <2> SUFFICES ASSUME NEW p \in ToVisit(col, entry, S) PROVE p # o /\ Allocated(p) /\ color[p] \in Whites
    OBVIOUS
  <2>1. p # o /\ color[p] \in Whites
    BY <1>2, <1>6, <1>w
  <2>2. Allocated(p)
    <3>1. CASE p \in S
      BY <1>4, <3>1
    <3>2. CASE \E u \in S : Kind[u] = "upval" /\ p \in Values(entry, u)
      <4>1. PICK u \in S : p \in Values(entry, u)
        BY <3>2
      <4> QED
        BY <1>k, <1>4, <4>1, WhileMarking DEF Refs
    <3> QED
      BY <1>6, <3>1, <3>2
  <2> QED
    BY <2>1, <2>2
<1> QED
  BY <1>1, <1>2, <1>3, <1>6, <1>7, <1>w

\* A visit keeps what is true in every part of a cycle.
LEMMA VisitKeeps ==
    ASSUME IInv, TypeOK', NEW o, NEW S, NEW dest, Visited(o, S, dest)
    PROVE  /\ HeapShape' /\ FreedIsUnlinked' /\ NoDangling' /\ DeadAreSwept' /\ MarkedAreSwept'
           /\ TriColor' /\ GrayListed' /\ OneList' /\ MarkLists'
           /\ Live' = Live /\ \A p : Refs(p)' = Refs(p)
<1> USE ConstantsAssumption
<1>f. /\ o \in Obj /\ Allocated(o) /\ color[o] = "gray" /\ Kind[o] \notin LeafKinds
      /\ color'[o] = IF dest = "none" THEN "black" ELSE "gray"
      /\ \A p \in Obj : p # o => color'[p] = color[p] \/ (color[p] \in Whites /\ color'[p] \in {"gray", "black"})
      /\ \A x \in Obj : color[x] \notin Whites => color'[x] \notin Whites
      /\ \A p \in S : color'[p] \notin Whites
      /\ \A p \in Obj : p # o /\ color'[p] = "black" /\ color[p] # "black" =>
            Kind[p] \in LeafKinds /\ \A x : RefersTo(p, x) => color'[x] \notin Whites
      /\ \A p \in Obj : color'[p] \notin Whites /\ color[p] \in Whites /\ Kind[p] = "upval" =>
            \A v \in Values(entry, p) : color'[v] \notin Whites
      /\ \A p \in Obj : p # o /\ color'[p] = "gray" /\ color[p] # "gray" =>
            p \in gray' \/ (Kind[p] = "upval" /\ home[p] # NC)
      /\ \A p \in gray : p # o => p \in gray'
      /\ \A p \in gray' : p \in gray \/
            (p \in Obj /\ Allocated(p) /\ color'[p] = "gray" /\ color[p] \in Whites /\ Kind[p] \notin LeafKinds)
      /\ o \notin gray'
  BY VisitFacts
<1>w. /\ \A c \in {"gray", "black"} : c \notin Whites
      /\ OtherWhite' = OtherWhite /\ OtherWhite \in Whites /\ color \in [Obj -> Colors]
  BY DEF Visited, OtherWhite, IInv, TypeOK, Domains, Whites, Colors
<1>k. KeepInvariant /\ KeepInvariant' /\ gcstate' = gcstate
  BY DEF Visited, KeepInvariant
<1>m. /\ \A p \in Obj : Allocated(p) => ~IsDead(p) /\ p \in Live
      /\ \A p \in Obj : Allocated(p) => \A r \in Refs(p) : r \in Obj /\ Allocated(r)
      /\ \A p \in GrayLists : p \in Obj /\ Allocated(p) /\ IsGray(p) /\ Kind[p] \notin LeafKinds
  BY <1>k, WhileMarking
<1>1. \A p \in Obj : Allocated(p) => (IsDead(p)' <=> IsDead(p))
  <2> SUFFICES ASSUME NEW p \in Obj, Allocated(p), IsDead(p)' PROVE IsDead(p)
    BY <1>m
  <2>1. color'[p] \in Whites
    BY <1>w DEF IsDead
  <2>2. color'[p] = color[p]
    BY <1>f, <1>w, <2>1
  <2> QED
    BY <2>2, <1>w DEF IsDead
<1>2. /\ HeapShape' /\ FreedIsUnlinked' /\ NoDangling' /\ Live' = Live
      /\ \A p : Allocated(p)' <=> Allocated(p)
      /\ \A p : Refs(p)' = Refs(p)
  BY <1>1, HeapKept DEF Visited
<1>3. DeadAreSwept'
  BY <1>1, <1>2, <1>m DEF DeadAreSwept
<1>4. MarkedAreSwept'
  BY <1>k DEF MarkedAreSwept, KeepInvariant, IsSweepPhase
<1>5. TriColor'
  <2> SUFFICES ASSUME NEW p \in Obj, Allocated(p), color'[p] = "black", NEW r \in Refs(p)
               PROVE  ~IsWhite(r)'
    BY <1>2 DEF TriColor, IsBlack
  <2>1. CASE p = o
    BY <2>1, <1>f DEF Visited
  <2>2. CASE p # o /\ color[p] = "black"
    BY <2>2, <1>k, <1>f, <1>m DEF IInv, TriColor, IsBlack, IsWhite
  <2>3. CASE p # o /\ color[p] # "black"
    BY <2>3, <1>f, RefersMeaning DEF IsWhite
  <2> QED
    BY <2>1, <2>2, <2>3
<1>6. GrayListed'
  <2>1. \A p \in GrayLists' : Allocated(p)' /\ IsGray(p)'
    <3> SUFFICES ASSUME NEW p \in GrayLists' PROVE Allocated(p) /\ color'[p] = "gray"
      BY <1>2 DEF IsGray
    <3>1. CASE p = o
      <4>1. CASE dest # "none"
        BY <1>f, <3>1, <4>1
      <4>2. CASE dest = "none"
        <5>1. o \in GrayLists' /\ o \in gray \cup round /\ o \notin gray'
          BY <1>f, <3>1 DEF Visited
        <5>2. o \notin grayagain \cup weak \cup allweak \cup ephemeron \cup saved
          BY <1>k, <5>1 DEF IInv, OneList
        <5>3. o \notin round'
          BY <1>k, <5>1 DEF Visited, IInv, OneList
        <5> QED
          BY <4>2, <5>1, <5>2, <5>3 DEF Visited, Visit, GrayLists
      <4> QED
        BY <4>1, <4>2
    <3>2. CASE p # o /\ p \in GrayLists
      BY <1>m, <1>f, <1>w, <3>2 DEF IsGray
    <3>3. CASE p # o /\ p \notin GrayLists
      <4>1. p \in gray'
        BY <3>3 DEF Visited, Visit, GrayLists
      <4> QED
        BY <1>f, <3>3, <4>1 DEF GrayLists
    <3> QED
      BY <3>1, <3>2, <3>3
  <2>2. \A p \in Obj : Allocated(p)' /\ IsGray(p)' => p \in GrayLists' \/ (Kind[p] = "upval" /\ home'[p] # NC)
    <3> SUFFICES ASSUME NEW p \in Obj, Allocated(p), color'[p] = "gray"
                 PROVE  p \in GrayLists' \/ (Kind[p] = "upval" /\ home[p] # NC)
      BY <1>2 DEF IsGray, Visited
    <3>1. CASE p = o
      <4>1. dest # "none"
        BY <1>f, <3>1
      <4> QED
        BY <3>1, <4>1 DEF Visited, Visit, GrayLists
    <3>2. CASE p # o /\ color[p] = "gray"
      <4>1. p \in GrayLists \/ (Kind[p] = "upval" /\ home[p] # NC)
        BY <1>k, <3>2 DEF IInv, GrayListed, IsGray
      <4> QED
        BY <1>f, <3>2, <4>1 DEF Visited, Visit, GrayLists
    <3>3. CASE p # o /\ color[p] # "gray"
      BY <1>f, <3>3 DEF GrayLists
    <3> QED
      BY <3>1, <3>2, <3>3
  <2> QED
    BY <2>1, <2>2 DEF GrayListed
<1>7. OneList'
  <2>1. \A p \in GrayLists : color[p] \notin Whites
    BY <1>m, <1>w DEF IsGray
  <2>2. \A p \in gray' : p \in gray \/ p \notin GrayLists
    BY <1>f, <2>1
  <2>3. /\ \A p : p \in grayagain' <=> p \in grayagain \/ (p = o /\ dest = "grayagain")
        /\ \A p : p \in weak' <=> p \in weak \/ (p = o /\ dest = "weak")
        /\ \A p : p \in allweak' <=> p \in allweak \/ (p = o /\ dest = "allweak")
        /\ \A p : p \in ephemeron' <=> p \in ephemeron \/ (p = o /\ dest = "ephemeron")
        /\ saved' = saved
        /\ \/ o \in gray /\ round' = round
           \/ o \in round /\ round' = round \ {o}
    BY DEF Visited, Visit
  <2>4. \A p \in gray : p \notin grayagain \cup weak \cup allweak \cup ephemeron \cup saved \cup round
    BY <1>k DEF IInv, OneList
  <2>5. \A p \in gray' :
              p \notin grayagain' \cup weak' \cup allweak' \cup ephemeron' \cup saved' \cup round'
    <3> SUFFICES ASSUME NEW p \in gray', p # o
                 PROVE  p \notin grayagain \cup weak \cup allweak \cup ephemeron \cup saved \cup round
      BY <1>f, <2>3
    <3> QED
      BY <2>2, <2>4 DEF GrayLists
  <2>6. o \notin grayagain \cup weak \cup allweak \cup ephemeron \cup saved
    BY <1>k, <2>3, <2>4 DEF IInv, OneList
  <2>7. o \notin round'
    BY <2>3, <2>4
  <2> QED
    BY <1>k, <2>3, <2>5, <2>6, <2>7 DEF IInv, OneList
<1>8. MarkLists'
  <2>1. ~IsWhite(Main)'
    BY <1>f, <1>k DEF IInv, MarkLists, IsWhite
  <2>2. \A t \in weak' \cup allweak' \cup ephemeron' \cup round' : Kind[t] = "table"
    BY <1>k DEF IInv, MarkLists, Visited, Visit
  <2>3. \A p \in gray' \cup grayagain' \cup saved' : Kind[p] \notin LeafKinds
    BY <1>k, <1>f DEF IInv, MarkLists, Visited, Visit
  <2>4. gcstate # "atomic" => \A th \in Obj : Kind[th] = "thread" /\ Allocated(th) => color'[th] # "black"
    BY <1>k, <1>f DEF IInv, MarkLists, Visited, LeafKinds, IsBlack
  <2> QED
    BY <1>2, <1>k, <2>1, <2>2, <2>3, <2>4 DEF MarkLists, IsBlack
<1> QED
  BY <1>2, <1>3, <1>4, <1>5, <1>6, <1>7, <1>8

\* What a visit owes to the lists that `atomic' relies on.
Owed(o, S, dest) ==
    /\ twups \subseteq twups' /\ \A th \in twups' : th \in twups \/ (th = o /\ Kind[o] = "thread")
    /\ gcstate = "propagate" => twups' = twups
    /\ gcstate = "atomic" =>
          /\ dest = "grayagain" => Kind[o] = "table" /\ \A r \in Refs(o) : color'[r] \notin Whites
          /\ dest = "weak" => \A k \in Keys(entry, o) : color'[k] \notin Whites
          /\ Kind[o] = "thread" =>
                /\ dest = "none" /\ Contents(entry, OpenUpvals(home, o)) \subseteq S
                /\ OpenUpvals(home, o) # {} => o \in twups'

\* With what a visit owes to the lists, they stay true.
LEMMA VisitLists ==
    ASSUME IInv, TypeOK', NEW o, NEW S, NEW dest, Visited(o, S, dest), Owed(o, S, dest),
           gcstate = "atomic" /\ Converged' =>
              gray' = {} /\ \A t \in ephemeron' : \A e \in OpenEntries(t)' : ~IsWhite(e[2])'
    PROVE  AtomicLists' /\ UpvalLists'
<1> USE ConstantsAssumption
<1>f. /\ o \in Obj /\ Allocated(o) /\ color[o] = "gray" /\ Kind[o] \notin LeafKinds
      /\ color'[o] = IF dest = "none" THEN "black" ELSE "gray"
      /\ \A p \in Obj : p # o => color'[p] = color[p] \/ (color[p] \in Whites /\ color'[p] \in {"gray", "black"})
      /\ \A x \in Obj : color[x] \notin Whites => color'[x] \notin Whites
      /\ \A p \in S : color'[p] \notin Whites
      /\ \A p \in Obj : p # o /\ color'[p] = "black" /\ color[p] # "black" =>
            Kind[p] \in LeafKinds /\ \A x : RefersTo(p, x) => color'[x] \notin Whites
      /\ \A p \in Obj : color'[p] \notin Whites /\ color[p] \in Whites /\ Kind[p] = "upval" =>
            \A v \in Values(entry, p) : color'[v] \notin Whites
      /\ \A p \in gray : p # o => p \in gray'
  BY VisitFacts
<1>k. KeepInvariant /\ gcstate' = gcstate /\ atomicstep' = atomicstep
  BY DEF Visited, KeepInvariant
<1>w. /\ \A c \in {"gray", "black"} : c \notin Whites
      /\ color \in [Obj -> Colors]
  BY DEF IInv, TypeOK, Domains, Whites, Colors
<1>m. /\ \A p \in Obj : Allocated(p) => ~IsDead(p) /\ p \in Live
      /\ \A p \in Obj : Allocated(p) => \A r \in Refs(p) : r \in Obj /\ Allocated(r)
      /\ \A p \in GrayLists : p \in Obj /\ Allocated(p) /\ IsGray(p) /\ Kind[p] \notin LeafKinds
  BY <1>k, WhileMarking
<1>v. /\ Live' = Live /\ \A p : Refs(p)' = Refs(p)
      /\ list' = list /\ entry' = entry /\ home' = home
  BY VisitKeeps DEF Visited
<1>1. AtomicLists'
  <2> SUFFICES ASSUME gcstate = "atomic" PROVE AtomicLists'
    BY <1>k DEF AtomicLists
  <2>1. \A p \in grayagain' : Kind[p] = "table" /\ \A r \in Refs(p)' : ~IsWhite(r)'
    <3> SUFFICES ASSUME NEW p \in grayagain' PROVE Kind[p] = "table" /\ \A r \in Refs(p) : color'[r] \notin Whites
      BY <1>v DEF IsWhite
    <3>1. CASE p = o /\ dest = "grayagain"
      BY <3>1 DEF Owed
    <3>2. CASE p \in grayagain
      <4>1. Kind[p] = "table" /\ \A r \in Refs(p) : ~IsWhite(r)
        BY <3>2 DEF IInv, AtomicLists
      <4>2. \A r \in Refs(p) : r \in Obj
        BY <1>m, <3>2 DEF GrayLists
      <4> QED
        BY <4>1, <4>2, <1>f DEF IsWhite
    <3> QED
      BY <3>1, <3>2 DEF Visited, Visit
  <2>2. \A t \in weak' : \A k \in Keys(entry, t) : ~IsWhite(k)'
    <3> SUFFICES ASSUME NEW t \in weak', NEW k \in Keys(entry, t) PROVE color'[k] \notin Whites
      BY DEF IsWhite
    <3>1. CASE t = o /\ dest = "weak"
      BY <3>1 DEF Owed
    <3>2. CASE t \in weak
      <4>1. ~IsWhite(k) /\ k \in Obj /\ k # NC
        BY <1>m, <3>2 DEF IInv, AtomicLists, GrayLists, Refs
      <4> QED
        BY <4>1, <1>f DEF IsWhite
    <3> QED
      BY <3>1, <3>2 DEF Visited, Visit
  <2>3. Resurrected =>
              /\ \A t \in origweak \cup origall : \A v \in Values(entry, t) : ~IsWhite(v)'
              /\ \A p \in Obj : list[p] \in {"finobj", "tobefnz"} => ~IsWhite(p)'
    <3> SUFFICES ASSUME Resurrected
                 PROVE /\ \A t \in origweak \cup origall : \A v \in Values(entry, t) : ~IsWhite(v)'
                       /\ \A p \in Obj : list[p] \in {"finobj", "tobefnz"} => ~IsWhite(p)'
      OBVIOUS
    <3>1. \A t \in origweak \cup origall : \A v \in Values(entry, t) : ~IsWhite(v) /\ v \in Obj
      <4>1. \A t \in origweak \cup origall : t \in Obj
        BY DEF IInv, TypeOK, Domains
      <4>2. \A t \in Obj : Values(entry, t) \subseteq Obj
        BY RefTypes DEF IInv, TypeOK, Domains
      <4> QED
        BY <4>1, <4>2 DEF IInv, AtomicLists
    <3>2. \A p \in Obj : list[p] \in {"finobj", "tobefnz"} => ~IsWhite(p)
      BY DEF IInv, AtomicLists
    <3> QED
      BY <3>1, <3>2, <1>f DEF IsWhite
  <2> QED
    BY <1>k, <1>v, <2>1, <2>2, <2>3 DEF AtomicLists, Resurrected, Visited
<1>2. UpvalLists'
  <2>1. twups' \subseteq {th \in Obj : Kind[th] = "thread" /\ Allocated(th)' /\ ~IsDead(th)'}
    <3>1. \A th \in twups' : th \in Live /\ Kind[th] = "thread"
      BY <1>m, <1>f DEF Owed, IInv, UpvalLists, Live
    <3> QED
      BY <3>1, <1>v DEF Live
  <2>2. atomicstep' \in {"none", "tolive", "marked"} =>
           \A u \in Live' : home'[u] # NC /\ home'[u] \in Live' => home'[u] \in twups'
    BY <1>k, <1>v DEF Owed, IInv, UpvalLists
  <2>3. ASSUME gcstate = "atomic", atomicstep # "marked"
        PROVE  /\ \A th \in twups' : ~IsWhite(th)'
               /\ \A u \in Live' : home'[u] # NC /\ color'[home'[u]] = "black" => home'[u] \in twups'
               /\ \A u \in Live' : home'[u] # NC /\ IsGray(u)' =>
                     \/ home'[u] \in gray' \cup saved'
                     \/ \A v \in Values(entry', u) : ~IsWhite(v)'
    <3>1. \A th \in twups' : ~IsWhite(th)'
      BY <1>f, <1>w, <2>3, <2>1 DEF Owed, IInv, UpvalLists, IsWhite
    <3>h. \A u \in Live : home[u] # NC =>
              /\ u \in Obj /\ Allocated(u) /\ Kind[u] = "upval" /\ u # o
              /\ home[u] \in Obj /\ Kind[home[u]] = "thread" /\ Allocated(home[u])
      BY <1>f DEF Live, IInv, HeapShape, FreedIsUnlinked, TypeOK, Domains, Val, LeafKinds
    <3>2. \A u \in Live' : home'[u] # NC /\ color'[home'[u]] = "black" => home'[u] \in twups'
      <4> SUFFICES ASSUME NEW u \in Live, home[u] # NC, color'[home[u]] = "black"
                   PROVE  home[u] \in twups'
        BY <1>v DEF IsBlack
      <4>1. CASE home[u] = o
        BY <3>h, <4>1, <2>3 DEF Owed, OpenUpvals
      <4>2. CASE home[u] # o
        <5>1. color[home[u]] = "black"
          BY <3>h, <4>2, <1>f DEF LeafKinds
        <5> QED
          BY <2>3, <5>1 DEF Owed, IInv, UpvalLists, IsBlack
      <4> QED
        BY <4>1, <4>2
    <3>3. \A u \in Live' : home'[u] # NC /\ IsGray(u)' =>
                     \/ home'[u] \in gray' \cup saved'
                     \/ \A v \in Values(entry', u) : ~IsWhite(v)'
      <4> SUFFICES ASSUME NEW u \in Live, home[u] # NC, color'[u] = "gray", home[u] \notin gray' \cup saved,
                          NEW v \in Values(entry, u)
                   PROVE  color'[v] \notin Whites
        BY <1>v DEF IsGray, IsWhite, Visited
      <4>1. CASE color[u] \in Whites
        BY <3>h, <4>1, <1>f, <1>w
      <4>2. CASE color[u] = "gray" /\ home[u] = o
        BY <3>h, <4>2, <2>3, <1>f DEF Owed, Contents, OpenUpvals
      <4>3. CASE color[u] = "gray" /\ home[u] # o
        <5>1. home[u] \notin gray \cup saved
          BY <4>3, <1>f
        <5>2. ~IsWhite(v)
          BY <2>3, <4>3, <5>1 DEF IInv, UpvalLists, IsGray
        <5>3. v \in Obj /\ v # NC
          BY <1>m, <3>h DEF Refs
        <5> QED
          BY <5>2, <5>3, <1>f DEF IsWhite
      <4> QED
        BY <4>1, <4>2, <4>3, <3>h, <1>f, <1>w
    <3> QED
      BY <3>1, <3>2, <3>3
  <2> QED
    BY <1>k, <2>1, <2>2, <2>3 DEF UpvalLists, IsBlack
<1> QED
  BY <1>1, <1>2

\* A visit marks what it has to mark, and unmarks nothing.
LEMMA VisitMarks ==
    ASSUME Domains, NEW o \in Obj, NEW S \in SUBSET Obj, NEW dest, Visit(o, S, dest)
    PROVE  /\ \A p \in S : color'[p] \notin Whites
           /\ \A p \in Obj : color[p] \notin Whites => color'[p] \notin Whites
<1> DEFINE col == [color EXCEPT ![o] = IF dest = "none" THEN "black" ELSE "gray"]
<1>1. \A p \in Obj : color[p] \notin Whites => col[p] \notin Whites
  BY DEF Domains, Whites
<1>2. color' = ReallyMark(col, entry, home, S)
  BY DEF Visit
<1> HIDE DEF col
<1>3. \A p \in Obj : color'[p] = IF p \in Touched(col, entry, S) THEN MarkedAs(home, p) ELSE col[p]
  BY <1>2 DEF ReallyMark
<1>4. \A p \in Obj : MarkedAs(home, p) \notin Whites
  BY DEF MarkedAs, Whites
<1>5. \A p \in S : p \in Touched(col, entry, S) \/ col[p] \notin Whites
  BY DEF Touched, WhiteIn
<1> QED
  BY <1>1, <1>3, <1>4, <1>5

\* Only threads are linked by open upvalues, only tables have keys.
LEMMA RefsByKind ==
    ASSUME IInv, NEW o \in Obj
    PROVE  /\ Kind[o] # "thread" => Refs(o) = Values(entry, o) \cup Keys(entry, o)
           /\ Kind[o] # "table" => Keys(entry, o) = {}
           /\ Values(entry, o) \subseteq Obj /\ Keys(entry, o) \subseteq Obj
           /\ Refs(o) \subseteq Obj /\ OnStack(o) \subseteq Obj
           /\ Refs(o) = OnStack(o) \cup OpenUpvals(home, o) \cup Keys(entry, o)
<1> USE ConstantsAssumption
<1>1. Kind[o] # "thread" => OpenUpvals(home, o) = {} /\ Contents(entry, OpenUpvals(home, o)) = {}
  BY DEF IInv, FreedIsUnlinked, OpenUpvals, Contents
<1>2. Kind[o] # "table" => Keys(entry, o) = {}
  BY DEF IInv, HeapShape, Keys
<1>3. Values(entry, o) \subseteq Obj /\ Keys(entry, o) \subseteq Obj /\ Refs(o) \subseteq Obj /\ OnStack(o) \subseteq Obj
  BY RefTypes DEF IInv, TypeOK, Domains, Refs, OnStack
<1>4. Refs(o) = OnStack(o) \cup OpenUpvals(home, o) \cup Keys(entry, o)
  BY DEF Refs, OnStack
<1> QED
  BY <1>1, <1>2, <1>3, <1>4 DEF Refs

\* Each of the five kinds of visit is one that pays what it owes.
LEMMA PropagateVisits ==
    ASSUME IInv, TypeOK', NEW o \in gray, gcstate \in {"propagate", "atomic"},
           UNCHANGED <<heap, locals, control>>,
           \/ VisitStrong(o) \/ VisitThread(o) \/ VisitWeakValue(o)
           \/ VisitEphemeron(o) \/ VisitAllWeak(o)
    PROVE  \E S, dest : Visited(o, S, dest) /\ Owed(o, S, dest)
<1> USE ConstantsAssumption
<1>k. KeepInvariant
  BY DEF KeepInvariant
<1>o. o \in Obj /\ Kind[o] \notin LeafKinds
  BY <1>k, WhileMarking DEF GrayLists
<1>r. /\ Kind[o] # "thread" => Refs(o) = Values(entry, o) \cup Keys(entry, o)
      /\ Kind[o] # "table" => Keys(entry, o) = {}
      /\ Values(entry, o) \subseteq Obj /\ Keys(entry, o) \subseteq Obj
      /\ Refs(o) \subseteq Obj /\ OnStack(o) \subseteq Obj
      /\ Refs(o) = OnStack(o) \cup OpenUpvals(home, o) \cup Keys(entry, o)
  BY <1>o, RefsByKind
<1>v. \A S, dest :
        /\ Visit(o, S, dest) /\ S \subseteq Refs(o)
        /\ dest \in {"none", "grayagain", "weak", "allweak", "ephemeron"}
        /\ dest \in {"weak", "allweak", "ephemeron"} => Kind[o] = "table"
        /\ gcstate = "propagate" /\ Kind[o] = "thread" => dest # "none"
        /\ dest = "none" => \A r \in Refs(o) : color'[r] \notin Whites
        => Visited(o, S, dest)
  BY DEF Visited, heap, locals, control, IsWhite
<1>m. \A S, dest : Visit(o, S, dest) /\ S \subseteq Refs(o) =>
          /\ \A p \in S : color'[p] \notin Whites
          /\ \A p \in Obj : color[p] \notin Whites => color'[p] \notin Whites
  <2> SUFFICES ASSUME NEW S, NEW dest, Visit(o, S, dest), S \subseteq Refs(o)
               PROVE  /\ \A p \in S : color'[p] \notin Whites
                      /\ \A p \in Obj : color[p] \notin Whites => color'[p] \notin Whites
    OBVIOUS
  <2>1. S \in SUBSET Obj /\ Domains
    BY <1>r DEF IInv, TypeOK
  <2> QED
    BY <1>o, <2>1, VisitMarks
<1>a. CASE VisitStrong(o)
  <2> DEFINE S == Values(entry, o) \cup Keys(entry, o)
  <2>1. Visit(o, S, "none") /\ S \subseteq Refs(o) /\ Refs(o) \subseteq S /\ twups' = twups /\ Kind[o] # "thread"
    BY <1>a, <1>r DEF VisitStrong
  <2>2. Visited(o, S, "none")
    <3> HIDE DEF S
    <3>1. \A r \in Refs(o) : color'[r] \notin Whites
      BY <1>m, <2>1
    <3> QED
      BY <2>1, <3>1 DEF Visited, heap, locals, control, IsWhite
  <2>3. Owed(o, S, "none")
    BY <2>1 DEF Owed
  <2> QED
    BY <2>2, <2>3
<1>b. CASE VisitThread(o)
  <2> DEFINE S == OnStack(o) \cup OpenUpvals(home, o)
             dest == IF gcstate = "propagate" THEN "grayagain" ELSE "none"
  <2>1. /\ Visit(o, S, dest) /\ S \subseteq Refs(o) /\ Refs(o) \subseteq S /\ Kind[o] = "thread"
        /\ dest \in {"none", "grayagain"}
        /\ gcstate = "propagate" => dest # "none"
        /\ gcstate = "atomic" => dest = "none"
        /\ twups' = IF gcstate = "atomic" /\ OpenUpvals(home, o) # {} THEN twups \cup {o} ELSE twups
    BY <1>b, <1>r DEF VisitThread, LinkInTwups
  <2>2. Visited(o, S, dest)
    <3> HIDE DEF S, dest
    <3> QED BY <1>v, <1>m, <2>1
  <2>3. Owed(o, S, dest)
    BY <2>1 DEF Owed, OnStack
  <2> QED
    BY <2>2, <2>3
<1>c. CASE VisitWeakValue(o)
  <2> DEFINE array == \E e \in entry[o] : e[1] = NC
             clears == array \/ \E v \in Values(entry, o) : IsCleared(v)
             strings == StringsIn(Values(entry, o))
             dest == IF gcstate = "atomic" /\ clears THEN "weak" ELSE "grayagain"
  <2>1. PICK read \in SUBSET strings :
              /\ ~clears => read = strings
              /\ Visit(o, Keys(entry, o) \cup read, dest)
    BY <1>c DEF VisitWeakValue
  <2> DEFINE S == Keys(entry, o) \cup read
  <2>2. S \subseteq Refs(o) /\ Kind[o] = "table" /\ dest \in {"weak", "grayagain"} /\ twups' = twups
    BY <1>c, <1>r, <2>1 DEF VisitWeakValue, StringsIn
  <2>3. Visited(o, S, dest)
    <3> HIDE DEF S, dest
    <3> QED BY <1>v, <2>1, <2>2 DEF S
  <2>4. \A p \in S : color'[p] \notin Whites
    <3> HIDE DEF dest
    <3> QED BY <1>m, <2>1, <2>2
  <2>5. gcstate = "atomic" /\ dest = "grayagain" => \A r \in Refs(o) : color'[r] \notin Whites
    <3> SUFFICES ASSUME ~clears, NEW v \in Values(entry, o) PROVE color'[v] \notin Whites
      BY <1>r, <2>2, <2>4
    <3>1. CASE color[v] \notin Whites
      <4> HIDE DEF dest
      <4> QED BY <1>m, <1>r, <2>1, <2>2, <3>1
    <3>2. CASE color[v] \in Whites
      <4>1. v \in strings
        BY <1>r, <3>2 DEF IsCleared, StringsIn, IsWhite
      <4> QED
        BY <2>1, <2>4, <4>1
    <3> QED
      BY <3>1, <3>2
  <2>6. Owed(o, S, dest)
    <3> HIDE DEF dest
    <3> QED BY <2>2, <2>4, <2>5 DEF Owed
  <2> QED
    <3> HIDE DEF S, dest
    <3> QED BY <2>3, <2>6
<1>d. CASE VisitEphemeron(o)
  <2> DEFINE S == EphemeronMarks(o)
             dest == EphemeronList(o)
  <2>1. Visit(o, S, dest) /\ Kind[o] = "table" /\ twups' = twups
    BY <1>d DEF VisitEphemeron
  <2>2. S \subseteq Refs(o)
    BY <1>r, <2>1 DEF EphemeronMarks, OpenEntries, StringsIn, Values
  <2>3. /\ dest \in {"none", "grayagain", "allweak", "ephemeron"}
        /\ gcstate = "atomic" => dest # "grayagain"
        /\ dest = "none" => ShutEntries(o) = {}
    BY DEF EphemeronList
  <2>4. dest = "none" => \A r \in Refs(o) : color'[r] \notin Whites
    <3> HIDE DEF dest
    <3> SUFFICES ASSUME ShutEntries(o) = {}, NEW r \in Refs(o) PROVE color'[r] \notin Whites
      BY <2>3
    <3>1. PICK e \in entry[o] : r \in {e[1], e[2]} /\ r # NC
      BY <1>r, <2>1 DEF Values, Keys
    <3>2. e \in OpenEntries(o)
      BY <3>1 DEF ShutEntries
    <3>3. CASE r = e[2]
      BY <1>m, <2>1, <2>2, <3>1, <3>2, <3>3 DEF EphemeronMarks
    <3>4. CASE r = e[1] /\ color[r] \notin Whites
      BY <1>m, <1>r, <2>1, <2>2, <3>4
    <3>5. CASE r = e[1] /\ color[r] \in Whites
      <4>1. r \in StringsIn(Keys(entry, o))
        BY <3>1, <3>2, <3>5 DEF OpenEntries, IsCleared, IsWhite, StringsIn, Keys
      <4> QED
        BY <1>m, <2>1, <2>2, <4>1 DEF EphemeronMarks
    <3> QED
      BY <3>1, <3>3, <3>4, <3>5
  <2>5. Visited(o, S, dest)
    <3> HIDE DEF S, dest
    <3> QED BY <1>v, <2>1, <2>2, <2>3, <2>4
  <2>6. Owed(o, S, dest)
    <3> HIDE DEF S, dest
    <3> QED BY <2>1, <2>3 DEF Owed
  <2> QED
    BY <2>5, <2>6
<1>e. CASE VisitAllWeak(o)
  <2>1. Visit(o, {}, "allweak") /\ Kind[o] = "table" /\ twups' = twups
    BY <1>e DEF VisitAllWeak
  <2>2. Visited(o, {}, "allweak")
    BY <1>v, <2>1
  <2>3. Owed(o, {}, "allweak")
    BY <2>1 DEF Owed
  <2> QED
    BY <2>2, <2>3
<1> QED
  BY <1>a, <1>b, <1>c, <1>d, <1>e

\* propagatemark.
LEMMA PropagateKeeps ==
    ASSUME IInv, TypeOK', PropagateMark, gcstate \in {"propagate", "atomic"}, UNCHANGED <<heap, locals, control>>
    PROVE  IInv'
<1>1. PICK o \in gray :
            \/ VisitStrong(o) \/ VisitThread(o) \/ VisitWeakValue(o)
            \/ VisitEphemeron(o) \/ VisitAllWeak(o)
  BY DEF PropagateMark
<1>2. PICK S, dest : Visited(o, S, dest) /\ Owed(o, S, dest)
  BY <1>1, PropagateVisits
<1>3. gcstate = "atomic" => ~Converged'
  BY DEF locals, control, Converged, Converging, IInv, AtomicLists
<1>4. AtomicLists' /\ UpvalLists'
  BY <1>2, <1>3, VisitLists
<1> QED
  BY <1>2, <1>4, VisitKeeps DEF IInv

\* When a round of convergeephemerons marks no value, all it can mark is strings.
LEMMA ConvergeTableKeeps ==
    ASSUME IInv, TypeOK', NEW t \in round, ConvergeTable(t)
    PROVE  IInv'
<1> USE ConstantsAssumption
<1> DEFINE S == EphemeronMarks(t)
           dest == EphemeronList(t)
<1>k. /\ gcstate = "atomic" /\ gcstate' = gcstate /\ atomicstep' = atomicstep /\ atomicstep # "marked"
      /\ KeepInvariant /\ gray = {}
  BY DEF ConvergeTable, Converging, control, KeepInvariant, IInv, TypeOK, Phases
<1>o. t \in Obj /\ Kind[t] = "table" /\ color[t] = "gray"
  BY <1>k, WhileMarking DEF GrayLists, IInv, MarkLists, IsGray
<1>r. /\ Refs(t) = Values(entry, t) \cup Keys(entry, t)
      /\ Values(entry, t) \subseteq Obj /\ Keys(entry, t) \subseteq Obj
  BY <1>o, RefsByKind
<1>1. Visit(t, S, dest) /\ S \subseteq Refs(t) /\ S \subseteq Obj
  BY <1>r DEF ConvergeTable, EphemeronMarks, OpenEntries, StringsIn, Values
<1>2. /\ dest \in {"none", "allweak", "ephemeron"}
      /\ dest = "none" => ShutEntries(t) = {}
  BY <1>k DEF EphemeronList
<1>m. /\ \A p \in S : color'[p] \notin Whites
      /\ \A p \in Obj : color[p] \notin Whites => color'[p] \notin Whites
  <2> HIDE DEF S, dest
  <2> QED
    BY <1>o, <1>1, VisitMarks DEF IInv, TypeOK
<1>3. dest = "none" => \A r \in Refs(t) : color'[r] \notin Whites
  <2> HIDE DEF dest
  <2> SUFFICES ASSUME ShutEntries(t) = {}, NEW r \in Refs(t) PROVE color'[r] \notin Whites
    BY <1>2
  <2>1. PICK e \in entry[t] : r \in {e[1], e[2]} /\ r # NC
    BY <1>r DEF Values, Keys
  <2>2. e \in OpenEntries(t)
    BY <2>1 DEF ShutEntries
  <2>3. CASE r = e[2]
    BY <1>m, <2>1, <2>2, <2>3 DEF EphemeronMarks
  <2>4. CASE r = e[1] /\ color[r] \notin Whites
    BY <1>m, <1>r, <2>4
  <2>5. CASE r = e[1] /\ color[r] \in Whites
    <3>1. r \in StringsIn(Keys(entry, t))
      BY <2>1, <2>2, <2>5 DEF OpenEntries, IsCleared, IsWhite, StringsIn, Keys
    <3> QED
      BY <1>m, <3>1 DEF EphemeronMarks
  <2> QED
    BY <2>1, <2>3, <2>4, <2>5
<1>4. Visited(t, S, dest) /\ Owed(t, S, dest)
  <2> HIDE DEF S, dest
  <2>1. /\ UNCHANGED <<list, entry, home, currentwhite, gcstate, atomicstep, tosweep, saved, origweak, origall>>
        /\ twups' = twups /\ round' = round \ {t}
    BY DEF ConvergeTable, heap, control
  <2> QED
    BY <1>k, <1>o, <1>1, <1>2, <1>3, <2>1 DEF Visited, Owed, IsWhite
<1>5. Converged' => gray' = {} /\ \A q \in ephemeron' : \A e \in OpenEntries(q)' : ~IsWhite(e[2])'
  <2> SUFFICES ASSUME Converged'
               PROVE  gray' = {} /\ \A q \in ephemeron' : \A e \in OpenEntries(q)' : ~IsWhite(e[2])'
    OBVIOUS
  <2>1. ~changed' /\ ~changed
    BY DEF Converged, Converging, ConvergeTable, control
  <2>2. \A e \in OpenEntries(t) : ~IsWhite(e[2])
    BY <2>1 DEF ConvergeTable
  <2>3. \A q \in ephemeron : \A e \in OpenEntries(q) : ~IsWhite(e[2])
    BY <1>k, <2>1 DEF IInv, AtomicLists, Converged, ConvergeTable
  <2> DEFINE col == [color EXCEPT ![t] = IF dest = "none" THEN "black" ELSE "gray"]
  <2>4. /\ \A p \in Obj : p # t => col[p] = color[p]
        /\ col[t] \notin Whites
    BY <1>o DEF IInv, TypeOK, Domains, Whites
  <2>5. \A p \in S : p \in Obj /\ (color[p] \notin Whites \/ Kind[p] = "string")
    BY <1>1, <2>2 DEF EphemeronMarks, StringsIn, IsWhite
  <2>6. /\ color' = ReallyMark(col, entry, home, S)
        /\ gray' = (gray \ {t}) \cup ToVisit(col, entry, S)
        /\ ephemeron' = ephemeron \cup {x \in {t} : dest = "ephemeron"}
    BY <1>1 DEF Visit
  <2> HIDE DEF col, S
  <2>7. \A p \in Touched(col, entry, S) : Kind[p] = "string"
    BY <2>4, <2>5 DEF Touched, WhiteIn, Contents
  <2>8. ToVisit(col, entry, S) = {}
    BY <2>7 DEF ToVisit, LeafKinds
  <2>9. \A p \in Obj : Kind[p] # "string" /\ p # t => color'[p] = color[p]
    BY <2>4, <2>6, <2>7 DEF ReallyMark
  <2>10. color'[t] \notin Whites
    BY <2>4, <2>6, <2>7, <1>o DEF ReallyMark
  <2>11. \A q \in Obj : \A e \in entry[q] : IsCleared(e[1])' <=> IsCleared(e[1])
    <3> SUFFICES ASSUME NEW x \in Val PROVE IsCleared(x)' <=> IsCleared(x)
      BY DEF IInv, TypeOK, Domains
    <3> QED
      BY <2>9, <2>10, <1>o DEF IsCleared, IsWhite, Val, Whites
  <2>12. \A q \in Obj : OpenEntries(q)' = OpenEntries(q)
    <3> SUFFICES ASSUME NEW q \in Obj PROVE OpenEntries(q)' = OpenEntries(q)
      OBVIOUS
    <3>1. entry'[q] = entry[q]
      BY DEF ConvergeTable, heap
    <3> QED
      BY <2>11, <3>1 DEF OpenEntries
  <2>13. \A q \in ephemeron' : q \in Obj /\ \A e \in OpenEntries(q) : ~IsWhite(e[2])
    BY <1>o, <2>2, <2>3, <2>6 DEF IInv, TypeOK, Domains
  <2>14. \A q \in ephemeron' : \A e \in OpenEntries(q) : ~IsWhite(e[2])'
    <3> SUFFICES ASSUME NEW q \in ephemeron', NEW e \in OpenEntries(q) PROVE ~IsWhite(e[2])'
      OBVIOUS
    <3>1. e \in entry[q] /\ q \in Obj /\ ~IsWhite(e[2])
      BY <2>13 DEF OpenEntries
    <3>2. e[2] \in Val
      BY <3>1 DEF IInv, TypeOK, Domains
    <3> QED
      BY <1>m, <3>1, <3>2 DEF IsWhite, Val
  <2> QED
    BY <1>k, <2>6, <2>8, <2>12, <2>13, <2>14
<1>6. AtomicLists' /\ UpvalLists'
  <2> HIDE DEF S, dest
  <2> QED
    BY <1>4, <1>5, VisitLists
<1> QED
  <2> HIDE DEF S, dest
  <2> QED
    BY <1>4, <1>6, VisitKeeps DEF IInv

-----------------------------------------------------------------------------
(* Marking roots.                                                          *)

\* Marking live roots outside of the sweep.
LEMMA RootsFacts ==
    ASSUME IInv, gcstate # "swpallgc", NEW S \in SUBSET Obj, \A p \in S : p \in Live,
           color' = ReallyMark(color, entry, home, S), UNCHANGED currentwhite
    PROVE  /\ \A p \in Obj : color'[p] = color[p] \/ (color[p] \in Whites /\ color'[p] \in {"gray", "black"})
           /\ \A p \in S : color'[p] \notin Whites
           /\ \A p \in Obj : color'[p] = "black" /\ color[p] # "black" =>
                 Kind[p] \in LeafKinds /\ \A x : RefersTo(p, x) => color'[x] \notin Whites
           /\ \A p \in Obj : color'[p] \notin Whites /\ color[p] \in Whites /\ Kind[p] = "upval" =>
                 \A v \in Values(entry, p) : color'[v] \notin Whites
           /\ \A p \in Obj : color'[p] = "gray" /\ color[p] # "gray" =>
                 p \in ToVisit(color, entry, S) \/ (Kind[p] = "upval" /\ home[p] # NC)
           /\ \A p \in ToVisit(color, entry, S) :
                 p \in Obj /\ Allocated(p) /\ color'[p] = "gray" /\ color[p] \in Whites /\ Kind[p] \notin LeafKinds
           /\ \A p \in Obj : Allocated(p) => (IsDead(p)' <=> IsDead(p))
<1> USE ConstantsAssumption
<1>1. /\ color \in [Obj -> Colors] /\ entry \in [Obj -> SUBSET (Val \X Val)] /\ home \in [Obj -> Val]
      /\ \A p \in Obj : \A e \in entry[p] : Shape(p, e)
      /\ \A u \in Obj : home[u] # NC => Kind[home[u]] = "thread"
  BY DEF IInv, TypeOK, Domains, Colors, HeapShape, Shape, FreedIsUnlinked
<1>2. /\ \A p \in Obj : color'[p] = color[p] \/ (color[p] \in Whites /\ color'[p] \in {"gray", "black"})
      /\ \A p \in S : color'[p] \notin Whites
      /\ \A p \in Obj : color'[p] = "black" /\ color[p] # "black" =>
            Kind[p] \in LeafKinds /\ \A x : RefersTo(p, x) => color'[x] \notin Whites
      /\ \A p \in Obj : color'[p] \notin Whites /\ color[p] \in Whites /\ Kind[p] = "upval" =>
            \A v \in Values(entry, p) : color'[v] \notin Whites
      /\ \A p \in Obj : color'[p] = "gray" /\ color[p] # "gray" =>
            p \in ToVisit(color, entry, S) \/ (Kind[p] = "upval" /\ home[p] # NC)
      /\ \A p \in ToVisit(color, entry, S) :
            /\ p \in Obj /\ color'[p] = "gray" /\ color[p] \in Whites /\ Kind[p] \notin LeafKinds
            /\ p \in S \/ \E u \in S : Kind[u] = "upval" /\ p \in Values(entry, u)
  BY <1>1, MarkStep DEF RefersTo
<1>3. \A p \in ToVisit(color, entry, S) : Allocated(p)
  <2> SUFFICES ASSUME NEW p \in ToVisit(color, entry, S), p \notin S PROVE Allocated(p)
    BY DEF Live
  <2>1. PICK u \in S : p \in Values(entry, u)
    BY <1>2
  <2> QED
    BY <2>1 DEF IInv, NoDangling, Refs, Live
<1>4. \A p \in Obj : Allocated(p) => (IsDead(p)' <=> IsDead(p))
  <2>1. OtherWhite' = OtherWhite /\ OtherWhite \in Whites /\ \A c \in {"gray", "black"} : c \notin Whites
    BY DEF OtherWhite, IInv, TypeOK, Domains, Whites
  <2>2. \A p \in Obj : Allocated(p) => ~IsDead(p)
    BY DEF IInv, DeadAreSwept
  <2> QED
    BY <1>2, <2>1, <2>2 DEF IsDead
<1> QED
  BY <1>2, <1>3, <1>4

\* restartcollection: nothing but roots is marked.
LEMMA StartKeeps ==
    ASSUME IInv, TypeOK', Start
    PROVE  IInv'
<1> USE ConstantsAssumption
<1> DEFINE S == {Main} \cup InList("tobefnz")
<1>p. gcstate = "pause" /\ gcstate' = "propagate" /\ atomicstep = "none" /\ atomicstep' = "none"
  BY DEF Start, IInv, TypeOK, Phases
<1>a. \A p \in Obj : Allocated(p) => IsWhite(p) /\ p \in Live
  BY <1>p DEF IInv, DeadAreSwept, MarkedAreSwept, KeepInvariant, IsSweepPhase, TypeOK, Phases, Live
<1>s. S \in SUBSET Obj /\ \A p \in S : p \in Live
  BY <1>a DEF InList, Allocated, IInv, HeapShape
<1>u. /\ UNCHANGED <<list, entry, home, twups, currentwhite, tosweep>>
      /\ color' = ReallyMark(color, entry, home, S) /\ gray' = ToVisit(color, entry, S)
      /\ grayagain' = {} /\ weak' = {} /\ allweak' = {} /\ ephemeron' = {}
      /\ saved' = {} /\ round' = {}
  BY <1>p DEF Start, heap, locals, IInv, TypeOK, Phases, Converging
<1> HIDE DEF S
<1>f. /\ \A p \in Obj : color'[p] = color[p] \/ (color[p] \in Whites /\ color'[p] \in {"gray", "black"})
      /\ \A p \in S : color'[p] \notin Whites
      /\ \A p \in Obj : color'[p] = "black" /\ color[p] # "black" =>
            Kind[p] \in LeafKinds /\ \A x : RefersTo(p, x) => color'[x] \notin Whites
      /\ \A p \in Obj : color'[p] = "gray" /\ color[p] # "gray" =>
            p \in ToVisit(color, entry, S) \/ (Kind[p] = "upval" /\ home[p] # NC)
      /\ \A p \in ToVisit(color, entry, S) :
            p \in Obj /\ Allocated(p) /\ color'[p] = "gray" /\ color[p] \in Whites /\ Kind[p] \notin LeafKinds
      /\ \A p \in Obj : Allocated(p) => (IsDead(p)' <=> IsDead(p))
  BY <1>p, <1>s, <1>u, RootsFacts
<1>w. \A c \in {"gray", "black"} : c \notin Whites
  BY DEF Whites
<1>1. /\ HeapShape' /\ FreedIsUnlinked' /\ NoDangling' /\ Live' = Live
      /\ \A p : Allocated(p)' <=> Allocated(p)
      /\ \A p : Refs(p)' = Refs(p)
  BY <1>f, <1>u, HeapKept
<1>2. DeadAreSwept'
  BY <1>1, <1>f, <1>a DEF DeadAreSwept, Live
<1>3. MarkedAreSwept'
  BY <1>p DEF MarkedAreSwept, KeepInvariant, IsSweepPhase
<1>4. TriColor'
  BY <1>1, <1>f, <1>a, <1>w, RefersMeaning DEF TriColor, IsBlack, IsWhite
<1>5. GrayListed'
  <2>1. GrayLists' = gray'
    BY <1>u DEF GrayLists
  <2>2. \A p \in Obj : Allocated(p)' /\ IsGray(p)' => p \in gray' \/ (Kind[p] = "upval" /\ home'[p] # NC)
    BY <1>1, <1>f, <1>a, <1>u, <1>w DEF IsGray, IsWhite
  <2>3. \A p \in gray' : Allocated(p)' /\ IsGray(p)'
    BY <1>1, <1>f, <1>u DEF IsGray
  <2> QED
    BY <2>1, <2>2, <2>3 DEF GrayListed
<1>6. OneList'
  BY <1>u DEF OneList
<1>7. MarkLists'
  <2>1. ~IsWhite(Main)'
    BY <1>f DEF IsWhite, S
  <2>2. \A p \in Obj : Kind[p] = "thread" /\ Allocated(p)' => ~IsBlack(p)'
    BY <1>1, <1>f, <1>a, <1>w DEF IsBlack, IsWhite, LeafKinds
  <2> QED
    BY <1>u, <1>f, <2>1, <2>2 DEF MarkLists
<1>8. AtomicLists' /\ UpvalLists'
  BY <1>1, <1>p, <1>u, <1>f DEF AtomicLists, UpvalLists, IInv
<1> QED
  BY <1>1, <1>2, <1>3, <1>4, <1>5, <1>6, <1>7, <1>8 DEF IInv

\* Roots that are marked in atomic; the gray lists stay as they are, or `saved' takes over.
AtomicRoots(S) ==
    /\ UNCHANGED <<list, entry, home, currentwhite, tosweep, weak, allweak, ephemeron, round>>
    /\ KeepInvariant /\ gcstate' = "atomic"
    /\ S \in SUBSET Obj /\ \A p \in S : p \in Live
    /\ color' = ReallyMark(color, entry, home, S) /\ gray' = gray \cup ToVisit(color, entry, S)
    /\ \/ UNCHANGED <<grayagain, saved>>
       \/ saved = {} /\ saved' = grayagain /\ grayagain' = {}

\* Such roots disturb none of the lists.
LEMMA AtomicRootsKeep ==
    ASSUME IInv, TypeOK', NEW S, AtomicRoots(S)
    PROVE  /\ HeapShape' /\ FreedIsUnlinked' /\ NoDangling' /\ DeadAreSwept' /\ MarkedAreSwept'
           /\ TriColor' /\ GrayListed' /\ OneList' /\ MarkLists'
           /\ Live' = Live /\ \A p : Refs(p)' = Refs(p)
<1> USE ConstantsAssumption
<1>k. KeepInvariant /\ KeepInvariant' /\ gcstate # "swpallgc"
  BY DEF AtomicRoots, KeepInvariant
<1>m. /\ \A p \in Obj : Allocated(p) => ~IsDead(p) /\ p \in Live
      /\ \A p \in Obj : Allocated(p) => \A r \in Refs(p) : r \in Obj /\ Allocated(r)
      /\ \A p \in GrayLists : p \in Obj /\ Allocated(p) /\ IsGray(p) /\ Kind[p] \notin LeafKinds
  BY <1>k, WhileMarking
<1>f. /\ \A p \in Obj : color'[p] = color[p] \/ (color[p] \in Whites /\ color'[p] \in {"gray", "black"})
      /\ \A p \in Obj : color'[p] = "black" /\ color[p] # "black" =>
            Kind[p] \in LeafKinds /\ \A x : RefersTo(p, x) => color'[x] \notin Whites
      /\ \A p \in Obj : color'[p] = "gray" /\ color[p] # "gray" =>
            p \in ToVisit(color, entry, S) \/ (Kind[p] = "upval" /\ home[p] # NC)
      /\ \A p \in ToVisit(color, entry, S) :
            p \in Obj /\ Allocated(p) /\ color'[p] = "gray" /\ color[p] \in Whites /\ Kind[p] \notin LeafKinds
      /\ \A p \in Obj : Allocated(p) => (IsDead(p)' <=> IsDead(p))
  BY <1>k, RootsFacts DEF AtomicRoots
<1>w. \A c \in {"gray", "black"} : c \notin Whites
  BY DEF Whites
<1>1. /\ HeapShape' /\ FreedIsUnlinked' /\ NoDangling' /\ Live' = Live
      /\ \A p : Allocated(p)' <=> Allocated(p)
      /\ \A p : Refs(p)' = Refs(p)
  BY <1>f, HeapKept DEF AtomicRoots
<1>2. DeadAreSwept'
  BY <1>1, <1>f, <1>m DEF DeadAreSwept
<1>3. MarkedAreSwept'
  BY <1>k DEF MarkedAreSwept, KeepInvariant, IsSweepPhase
<1>4. TriColor'
  <2> SUFFICES ASSUME NEW p \in Obj, Allocated(p), color'[p] = "black", NEW r \in Refs(p)
               PROVE  color'[r] \notin Whites
    BY <1>1 DEF TriColor, IsBlack, IsWhite
  <2>1. CASE color[p] = "black"
    <3>1. ~IsWhite(r) /\ r \in Obj
      BY <2>1, <1>k, <1>m DEF IInv, TriColor, IsBlack
    <3> QED
      BY <3>1, <1>f, <1>w DEF IsWhite
  <2>2. CASE color[p] # "black"
    BY <2>2, <1>f, RefersMeaning
  <2> QED
    BY <2>1, <2>2
<1>g. \A p : /\ p \in GrayLists' <=> p \in GrayLists \/ p \in ToVisit(color, entry, S)
             /\ p \in gray' <=> p \in gray \/ p \in ToVisit(color, entry, S)
  BY DEF AtomicRoots, GrayLists
<1>5. GrayListed'
  <2>2. \A p \in Obj : Allocated(p)' /\ IsGray(p)' => p \in GrayLists' \/ (Kind[p] = "upval" /\ home'[p] # NC)
    <3> SUFFICES ASSUME NEW p \in Obj, Allocated(p), color'[p] = "gray"
                 PROVE  p \in GrayLists' \/ (Kind[p] = "upval" /\ home[p] # NC)
      BY <1>1 DEF IsGray, AtomicRoots
    <3>1. CASE color[p] = "gray"
      BY <1>g, <1>k, <3>1 DEF IInv, GrayListed, IsGray
    <3>2. CASE color[p] # "gray"
      BY <1>g, <1>f, <3>2
    <3> QED
      BY <3>1, <3>2
  <2>3. \A p \in GrayLists' : Allocated(p)' /\ IsGray(p)'
    BY <1>1, <1>f, <1>g, <1>m, <1>w DEF IsGray
  <2> QED
    BY <2>2, <2>3 DEF GrayListed
<1>6. OneList'
  <2>1. \A p \in ToVisit(color, entry, S) : p \notin GrayLists
    BY <1>f, <1>m, <1>w DEF IsGray
  <2>2. \A p \in gray' : p \notin grayagain' \cup weak' \cup allweak' \cup ephemeron' \cup saved' \cup round'
    <3> SUFFICES ASSUME NEW p \in gray'
                 PROVE  p \notin grayagain \cup weak \cup allweak \cup ephemeron \cup saved \cup round
      BY DEF AtomicRoots
    <3> QED
      BY <1>g, <1>k, <2>1 DEF IInv, OneList, GrayLists
  <2> QED
    BY <1>k, <2>2 DEF IInv, OneList, AtomicRoots
<1>7. MarkLists'
  <2>1. ~IsWhite(Main)'
    BY <1>f, <1>k, <1>w DEF IInv, MarkLists, IsWhite
  <2> QED
    BY <1>k, <1>f, <2>1 DEF IInv, MarkLists, AtomicRoots
<1> QED
  BY <1>1, <1>2, <1>3, <1>4, <1>5, <1>6, <1>7

-----------------------------------------------------------------------------
(* The steps of `atomic': what the gray lists still owe is paid before the *)
(* whites are exchanged.                                                   *)

\* What `atomic' finds when it begins.
LEMMA EnterAtomicKeeps ==
    ASSUME IInv, TypeOK', EnterAtomic
    PROVE  IInv'
<1> USE ConstantsAssumption
<1>1. /\ gcstate = "enteratomic" /\ atomicstep = "none" /\ gcstate' = "atomic" /\ atomicstep' = "marked"
      /\ saved = {} /\ weak = {} /\ weak' = {} /\ saved' = grayagain /\ grayagain' = {}
  BY DEF EnterAtomic, IInv, TypeOK, Phases
<1>2. AtomicRoots({Main})
  <2>1. Main \in Live
    BY DEF IInv, HeapShape, Live, Allocated
  <2> QED
    BY <1>1, <2>1 DEF AtomicRoots, EnterAtomic, heap, KeepInvariant
<1>3. /\ HeapShape' /\ FreedIsUnlinked' /\ NoDangling' /\ DeadAreSwept' /\ MarkedAreSwept'
      /\ TriColor' /\ GrayListed' /\ OneList' /\ MarkLists'
      /\ Live' = Live
  BY <1>2, AtomicRootsKeep
<1>4. AtomicLists'
  BY <1>1 DEF AtomicLists, Resurrected, Converged, Converging
<1>5. UpvalLists'
  <2>1. twups' = twups /\ home' = home
    BY DEF EnterAtomic, heap
  <2>2. twups' \subseteq {th \in Obj : Kind[th] = "thread" /\ Allocated(th)' /\ ~IsDead(th)'}
    <3>1. \A th \in twups' : Kind[th] = "thread" /\ th \in Live'
      BY <1>3, <2>1 DEF IInv, UpvalLists, Live
    <3> QED
      BY <3>1 DEF Live
  <2>3. \A u \in Live' : home'[u] # NC /\ home'[u] \in Live' => home'[u] \in twups'
    BY <1>1, <1>3, <2>1 DEF IInv, UpvalLists
  <2> QED
    BY <1>1, <2>2, <2>3 DEF UpvalLists
<1> QED
  BY <1>3, <1>4, <1>5 DEF IInv

\* After remarkupvals every open upvalue that is marked has a marked value, or a thread
\* that is still to be visited.
LEMMA RemarkUpvalsKeeps ==
    ASSUME IInv, TypeOK', RemarkUpvals
    PROVE  IInv'
<1> USE ConstantsAssumption
<1>k. gcstate = "atomic" /\ gcstate' = "atomic" /\ atomicstep = "marked" /\ atomicstep' = "remarked"
  BY DEF RemarkUpvals, Step, IInv, TypeOK, Phases
<1> DEFINE keep == {th \in twups : ~IsWhite(th) /\ OpenUpvals(home, th) # {}}
           S == RemarkedValues(twups \ keep)
<1>1. /\ twups' = keep /\ color' = ReallyMark(color, entry, home, S) /\ gray' = ToVisit(color, entry, S)
      /\ UNCHANGED <<list, entry, home, grayagain, weak, allweak, ephemeron, saved, round,
                     currentwhite, tosweep>>
      /\ gray = {}
  BY DEF RemarkUpvals, Step, heap, locals
<1>i. KeepInvariant
  BY <1>k DEF KeepInvariant
<1>m. /\ \A p \in Obj : Allocated(p) => ~IsDead(p) /\ p \in Live
      /\ \A p \in Obj : Allocated(p) => \A r \in Refs(p) : r \in Obj /\ Allocated(r)
      /\ \A p \in GrayLists : p \in Obj /\ Allocated(p) /\ IsGray(p) /\ Kind[p] \notin LeafKinds
  BY <1>i, WhileMarking
<1>h. \A u \in Live : home[u] # NC =>
          /\ u \in Obj /\ Allocated(u) /\ Kind[u] = "upval"
          /\ home[u] \in Obj /\ Kind[home[u]] = "thread" /\ Allocated(home[u]) /\ home[u] \in Live
  BY <1>m DEF Live, IInv, HeapShape, FreedIsUnlinked, TypeOK, Domains, Val
<1>s. \A u \in Live : home[u] # NC /\ home[u] \in twups \ keep /\ ~IsWhite(u) =>
          \A v \in Values(entry, u) : v \in S
  BY DEF RemarkedValues, Contents, Live
<1>2. S \in SUBSET Obj /\ \A p \in S : p \in Live
  <2> SUFFICES ASSUME NEW p \in S PROVE p \in Obj /\ p \in Live
    OBVIOUS
  <2>1. PICK u \in Obj : home[u] \in twups /\ p \in Values(entry, u)
    BY DEF RemarkedValues, Contents
  <2>2. home[u] # NC
    BY <2>1 DEF IInv, TypeOK, Domains
  <2>3. Allocated(u)
    BY <2>2 DEF IInv, FreedIsUnlinked
  <2>4. p \in Refs(u)
    BY <2>1 DEF Refs
  <2> QED
    BY <1>m, <2>3, <2>4
<1>3. AtomicRoots(S)
  <2> HIDE DEF S
  <2> QED
    BY <1>1, <1>2, <1>k, <1>i DEF AtomicRoots
<1>4. /\ HeapShape' /\ FreedIsUnlinked' /\ NoDangling' /\ DeadAreSwept' /\ MarkedAreSwept'
      /\ TriColor' /\ GrayListed' /\ OneList' /\ MarkLists'
      /\ Live' = Live /\ \A p : Refs(p)' = Refs(p)
  BY <1>3, AtomicRootsKeep
<1>f. /\ \A p \in Obj : color'[p] = color[p] \/ (color[p] \in Whites /\ color'[p] \in {"gray", "black"})
      /\ \A p \in S : color'[p] \notin Whites
      /\ \A p \in Obj : color'[p] = "black" /\ color[p] # "black" => Kind[p] \in LeafKinds
      /\ \A p \in Obj : color'[p] \notin Whites /\ color[p] \in Whites /\ Kind[p] = "upval" =>
            \A v \in Values(entry, p) : color'[v] \notin Whites
  <2> HIDE DEF S
  <2> QED
    BY <1>1, <1>2, <1>k, RootsFacts
<1>w. \A c \in {"gray", "black"} : c \notin Whites
  BY DEF Whites
<1>p. \A p \in Obj : ~IsWhite(p) => ~IsWhite(p)'
  BY <1>f, <1>w DEF IsWhite
<1> HIDE DEF S
<1>5. AtomicLists'
  <2>1. \A p \in grayagain' : Kind[p] = "table" /\ \A r \in Refs(p)' : ~IsWhite(r)'
    <3> SUFFICES ASSUME NEW p \in grayagain PROVE Kind[p] = "table" /\ \A r \in Refs(p) : ~IsWhite(r)'
      BY <1>1, <1>4
    <3>1. Kind[p] = "table" /\ \A r \in Refs(p) : ~IsWhite(r) /\ r \in Obj
      BY <1>k, <1>m DEF IInv, AtomicLists, GrayLists
    <3> QED
      BY <3>1, <1>p
  <2>2. \A t \in weak' : \A x \in Keys(entry', t) : ~IsWhite(x)'
    <3> SUFFICES ASSUME NEW t \in weak, NEW x \in Keys(entry, t) PROVE ~IsWhite(x)'
      BY <1>1
    <3>1. ~IsWhite(x) /\ x \in Obj
      BY <1>k, <1>m DEF IInv, AtomicLists, GrayLists, Refs
    <3> QED
      BY <3>1, <1>p
  <2> QED
    BY <1>k, <2>1, <2>2 DEF AtomicLists, Resurrected, Converged, Converging
<1>6. UpvalLists'
  <2>1. twups' \subseteq {th \in Obj : Kind[th] = "thread" /\ Allocated(th)' /\ ~IsDead(th)'}
    <3>1. \A th \in twups' : Kind[th] = "thread" /\ th \in Live'
      BY <1>1, <1>4 DEF IInv, UpvalLists, Live
    <3> QED
      BY <3>1 DEF Live
  <2>2. \A th \in twups' : ~IsWhite(th)'
    BY <1>1, <1>p DEF IInv, UpvalLists
  <2>t. \A u \in Live : home[u] # NC => home[u] \in twups
    BY <1>h, <1>k DEF IInv, UpvalLists
  <2>k. \A u \in Live : home[u] # NC => (home[u] \in keep <=> ~IsWhite(home[u]))
    BY <2>t, <1>h DEF OpenUpvals
  <2>3. \A u \in Live' : home'[u] # NC /\ color'[home'[u]] = "black" => home'[u] \in twups'
    <3> SUFFICES ASSUME NEW u \in Live, home[u] # NC, color'[home[u]] = "black"
                 PROVE  home[u] \in keep
      BY <1>1, <1>4 DEF IsBlack
    <3>1. color[home[u]] = "black"
      BY <1>f, <1>h DEF LeafKinds
    <3> QED
      BY <2>k, <3>1, <1>h, <1>w DEF IsWhite
  <2>4. \A u \in Live' : home'[u] # NC /\ IsGray(u)' =>
                \/ home'[u] \in gray' \cup saved'
                \/ \A v \in Values(entry', u) : ~IsWhite(v)'
    <3> SUFFICES ASSUME NEW u \in Live, home[u] # NC, color'[u] = "gray", home[u] \notin saved,
                        NEW v \in Values(entry, u)
                 PROVE  color'[v] \notin Whites
      BY <1>1, <1>4 DEF IsGray, IsWhite
    <3>v. v \in Obj /\ v \in Refs(u) /\ v # NC
      BY <1>m, <1>h DEF Refs
    <3>1. CASE color[u] \in Whites
      BY <3>1, <1>h, <1>f, <1>w
    <3>2. CASE color[u] \notin Whites /\ home[u] \notin keep
      BY <3>2, <2>t, <1>s, <1>f DEF IsWhite
    <3>3. CASE color[u] \notin Whites /\ home[u] \in keep
      <4>1. color[home[u]] \notin Whites
        BY <2>k, <3>3, <1>h DEF IsWhite
      <4>2. v \in Refs(home[u])
        BY <1>h DEF Refs, Contents, OpenUpvals
      <4>3. color[home[u]] = "black"
        <5> SUFFICES ASSUME color[home[u]] = "gray" PROVE FALSE
          BY <4>1, <1>h DEF IInv, TypeOK, Domains
        <5>1. home[u] \in GrayLists
          BY <1>i, <1>h DEF IInv, GrayListed, IsGray
        <5>2. Kind[home[u]] = "thread"
          BY <1>h
        <5>3. home[u] \notin grayagain
          BY <1>k, <5>2 DEF IInv, AtomicLists
        <5> QED
          BY <1>1, <1>i, <5>1, <5>2, <5>3 DEF IInv, MarkLists, GrayLists
      <4>4. ~IsWhite(v)
        BY <1>i, <1>h, <4>2, <4>3 DEF IInv, TriColor, IsBlack
      <4> QED
        BY <4>4, <3>v, <1>p DEF IsWhite
    <3> QED
      BY <3>1, <3>2, <3>3
  <2> QED
    BY <1>k, <2>1, <2>2, <2>3, <2>4 DEF UpvalLists, IsBlack
<1> QED
  BY <1>4, <1>5, <1>6 DEF IInv

\* Steps that only move objects between gray lists, or change the phase.
LEMMA SameColours ==
    ASSUME IInv, KeepInvariant, KeepInvariant', UNCHANGED <<list, entry, home, currentwhite, color>>,
           \A p : p \in GrayLists' <=> p \in GrayLists
    PROVE  /\ HeapShape' /\ FreedIsUnlinked' /\ NoDangling' /\ DeadAreSwept' /\ MarkedAreSwept'
           /\ TriColor' /\ GrayListed'
           /\ Live' = Live /\ \A p : Refs(p)' = Refs(p)
<1>m. \A p \in Obj : Allocated(p) => ~IsDead(p)
  BY WhileMarking
<1>1. \A p \in Obj : Allocated(p) => (IsDead(p)' <=> IsDead(p))
  BY DEF IsDead, OtherWhite
<1>2. /\ HeapShape' /\ FreedIsUnlinked' /\ NoDangling' /\ Live' = Live
      /\ \A p : Allocated(p)' <=> Allocated(p)
      /\ \A p : Refs(p)' = Refs(p)
  BY <1>1, HeapKept
<1>3. DeadAreSwept'
  BY <1>1, <1>2, <1>m DEF DeadAreSwept
<1>4. MarkedAreSwept'
  BY DEF MarkedAreSwept, KeepInvariant, IsSweepPhase
<1>5. TriColor' /\ GrayListed'
  BY <1>2 DEF IInv, TriColor, GrayListed, IsBlack, IsGray, IsWhite
<1> QED
  BY <1>2, <1>3, <1>4, <1>5

\* The objects of grayagain become gray again.
LEMMA VisitAgainKeeps ==
    ASSUME IInv, TypeOK', VisitAgain
    PROVE  IInv'
<1>k. /\ gcstate = "atomic" /\ gcstate' = "atomic" /\ atomicstep = "remarked" /\ atomicstep' = "again"
      /\ KeepInvariant /\ KeepInvariant'
  BY DEF VisitAgain, Step, IInv, TypeOK, Phases, KeepInvariant
<1>1. /\ UNCHANGED <<list, entry, home, currentwhite, color, grayagain, weak, allweak, ephemeron, round, twups>>
      /\ gray = {} /\ gray' = saved /\ saved' = {}
  BY DEF VisitAgain, Step, heap
<1>2. /\ HeapShape' /\ FreedIsUnlinked' /\ NoDangling' /\ DeadAreSwept' /\ MarkedAreSwept'
      /\ TriColor' /\ GrayListed'
      /\ Live' = Live /\ \A p : Refs(p)' = Refs(p)
  <2>1. \A p : p \in GrayLists' <=> p \in GrayLists
    BY <1>1 DEF GrayLists
  <2> QED
    BY <1>1, <1>k, <2>1, SameColours
<1>3. OneList' /\ MarkLists'
  BY <1>1, <1>k DEF IInv, OneList, MarkLists, IsWhite
<1>4. AtomicLists'
  BY <1>1, <1>2, <1>k DEF IInv, AtomicLists, IsWhite, Resurrected, Converged, Converging
<1>5. UpvalLists'
  BY <1>1, <1>2, <1>k DEF IInv, UpvalLists, IsWhite, IsBlack, IsGray, IsDead, OtherWhite, Allocated
<1> QED
  BY <1>2, <1>3, <1>4, <1>5 DEF IInv

\* A new round of convergeephemerons owes nothing yet: no table is in `ephemeron'.
LEMMA ConvergeKeeps ==
    ASSUME IInv, TypeOK', NEW from, NEW to, Converge(from, to), round = {}, gcstate = "atomic",
           atomicstep # "marked", to \in {"converge", "reconverge"},
           to = "reconverge" => from \in {"resurrect", "reconverge"}
    PROVE  IInv'
<1>k. /\ gcstate' = "atomic" /\ atomicstep = from /\ atomicstep' = to
      /\ KeepInvariant /\ KeepInvariant'
  BY DEF Converge, Step, KeepInvariant
<1>1. /\ UNCHANGED <<list, entry, home, currentwhite, color, grayagain, weak, allweak, gray, saved, twups,
                     origweak, origall>>
      /\ gray = {} /\ round' = ephemeron /\ ephemeron' = {}
  BY DEF Converge, Step, heap
<1>2. /\ HeapShape' /\ FreedIsUnlinked' /\ NoDangling' /\ DeadAreSwept' /\ MarkedAreSwept'
      /\ TriColor' /\ GrayListed'
      /\ Live' = Live /\ \A p : Refs(p)' = Refs(p)
  <2>1. \A p : p \in GrayLists' <=> p \in GrayLists
    BY <1>1 DEF GrayLists
  <2> QED
    BY <1>1, <1>k, <2>1, SameColours
<1>3. OneList' /\ MarkLists'
  BY <1>1, <1>k DEF IInv, OneList, MarkLists, IsWhite
<1>4. AtomicLists'
  BY <1>1, <1>2, <1>k DEF IInv, AtomicLists, IsWhite, Resurrected, Converged, Converging
<1>5. UpvalLists'
  BY <1>1, <1>2, <1>k DEF IInv, UpvalLists, IsWhite, IsBlack, IsGray, IsDead, OtherWhite, Allocated
<1> QED
  BY <1>2, <1>3, <1>4, <1>5 DEF IInv

\* The last round of convergeephemerons changed nothing, so nothing is owed.
LEMMA EndRoundKeeps ==
    ASSUME IInv, TypeOK', EndRound
    PROVE  IInv'
<1>k. /\ gcstate = "atomic" /\ atomicstep \in {"converge", "reconverge"} /\ round = {}
  BY DEF EndRound, Converging, IInv, TypeOK, Phases
<1>1. CASE changed
  <2>1. Converge(atomicstep, atomicstep)
    BY <1>1 DEF EndRound, MustRepeat
  <2>2. PICK s : s = atomicstep
    OBVIOUS
  <2>3. Converge(s, s)
    BY <2>1, <2>2
  <2> QED
    BY <1>k, <2>2, <2>3, ConvergeKeeps
<1>2. CASE ~changed
  <2>1. /\ UNCHANGED <<heap, marks, locals, gcstate, currentwhite>> /\ gcstate' = "atomic"
        /\ KeepInvariant /\ KeepInvariant'
        /\ atomicstep' = IF atomicstep = "converge" THEN "separate" ELSE "clear"
    BY <1>2, <1>k DEF EndRound, MustRepeat, Step, KeepInvariant
  <2>2. /\ HeapShape' /\ FreedIsUnlinked' /\ NoDangling' /\ DeadAreSwept' /\ MarkedAreSwept'
        /\ TriColor' /\ GrayListed'
        /\ Live' = Live /\ \A p : Refs(p)' = Refs(p)
    <3>1. \A p : p \in GrayLists' <=> p \in GrayLists
      BY <2>1 DEF GrayLists, marks, locals
    <3> QED
      BY <2>1, <3>1, SameColours DEF heap, marks
  <2>3. OneList' /\ MarkLists'
    BY <2>1, <1>k DEF IInv, OneList, MarkLists, IsWhite, IsBlack, Allocated, KeepInvariant, heap, marks, locals
  <2>4. \A t \in Obj : OpenEntries(t)' = OpenEntries(t)
    BY <2>1 DEF OpenEntries, IsCleared, IsWhite, heap, marks
  <2>5. AtomicLists'
    <3>1. Converged /\ (Resurrected' => Resurrected)
      BY <1>2, <1>k, <2>1 DEF Converged, Converging, Resurrected
    <3> QED
      BY <2>1, <2>2, <2>4, <3>1, <1>k
      DEF IInv, TypeOK, Domains, AtomicLists, IsWhite, heap, marks, locals
  <2>6. UpvalLists'
    BY <2>1, <2>2, <1>k DEF IInv, UpvalLists, IsWhite, IsBlack, IsGray, IsDead, OtherWhite, Allocated, heap, marks, locals
  <2> QED
    BY <2>2, <2>3, <2>5, <2>6 DEF IInv
<1> QED
  BY <1>1, <1>2 DEF IInv, TypeOK, Domains

\* The end of propagation.
LEMMA EndPropagateKeeps ==
    ASSUME IInv, TypeOK', EndPropagate
    PROVE  IInv'
<1>1. /\ UNCHANGED <<heap, marks, locals, currentwhite, atomicstep>>
      /\ gcstate = "propagate" /\ gcstate' = "enteratomic"
      /\ KeepInvariant /\ KeepInvariant'
  BY DEF EndPropagate, KeepInvariant
<1>2. /\ HeapShape' /\ FreedIsUnlinked' /\ NoDangling' /\ DeadAreSwept' /\ MarkedAreSwept'
      /\ TriColor' /\ GrayListed'
      /\ Live' = Live /\ \A p : Refs(p)' = Refs(p)
  <2>1. \A p : p \in GrayLists' <=> p \in GrayLists
    BY <1>1 DEF GrayLists, marks, locals
  <2> QED
    BY <1>1, <2>1, SameColours DEF heap, marks
<1>3. OneList' /\ MarkLists'
  BY <1>1 DEF IInv, OneList, MarkLists, IsWhite, IsBlack, Allocated, heap, marks, locals
<1>4. AtomicLists' /\ UpvalLists'
  BY <1>1, <1>2 DEF IInv, AtomicLists, UpvalLists, IsDead, OtherWhite, Allocated, heap, marks
<1> QED
  BY <1>2, <1>3, <1>4 DEF IInv

-----------------------------------------------------------------------------
(* Clearing, resurrection and the exchange of the whites.                  *)

\* References only go, and what is freed is freed for good.
LEMMA ShapeKept ==
    ASSUME IInv, \A p \in Obj : entry'[p] \subseteq entry[p],
           \A p \in Obj : home'[p] \in {home[p], NC},
           list'[Main] = list[Main], ~IsDead(Main)',
           \A p \in Obj : list'[p] \in {list[p], "free"} \/ (p \in GCAllowed /\ list[p] # "free"),
           \A p \in Obj : list'[p] = "free" =>
              \/ list[p] = "free"
              \/ entry'[p] = {} /\ home'[p] = NC /\ \A u \in Obj : home'[u] # p
    PROVE  /\ HeapShape' /\ FreedIsUnlinked'
           /\ \A p \in Obj : \A x : RefersTo(p, x)' => RefersTo(p, x)
<1> USE ConstantsAssumption
<1>1. \A p \in Obj : \A x : RefersTo(p, x)' => RefersTo(p, x)
  BY NoEntry
<1>2. FreedIsUnlinked'
  <2>1. \A p \in Obj : ~Allocated(p)' => entry'[p] = {} /\ home'[p] = NC
    BY DEF IInv, FreedIsUnlinked, Allocated
  <2>2. \A p \in Obj : home'[p] # NC => Kind[home'[p]] = "thread" /\ list'[home'[p]] # "free"
    <3> SUFFICES ASSUME NEW p \in Obj, home'[p] # NC
                 PROVE  Kind[home'[p]] = "thread" /\ list'[home'[p]] # "free"
      OBVIOUS
    <3>1. /\ home'[p] = home[p] /\ Kind[home[p]] = "thread" /\ list[home[p]] # "free" /\ home[p] \in Obj
      BY DEF IInv, FreedIsUnlinked, Allocated, TypeOK, Domains, Val
    <3> QED
      BY <3>1
  <2> QED
    BY <2>1, <2>2 DEF FreedIsUnlinked, Allocated
<1>3. HeapShape'
  <2>1. \A p \in Obj : list'[p] \in {"finobj", "tobefnz"} => p \in GCAllowed
    BY DEF IInv, HeapShape
  <2>2. \A p \in Obj : \A e \in entry'[p] : Shape(p, e)
    BY DEF IInv, HeapShape, Shape
  <2>3. \A p \in Obj : home'[p] # NC => Kind[p] = "upval"
    BY DEF IInv, HeapShape
  <2> QED
    BY <2>1, <2>2, <2>3 DEF IInv, HeapShape, Shape
<1> QED
  BY <1>1, <1>2, <1>3

\* clearbyvalues and clearbykeys remove entries only, and mark only strings.
LEMMA ClearFacts ==
    ASSUME NEW col \in [Obj -> Colors], NEW ent \in [Obj -> SUBSET (Val \X Val)], NEW L, NEW part
    PROVE  /\ ClearedEntries(ent, L, part) \in [Obj -> SUBSET (Val \X Val)]
           /\ \A p \in Obj : \A e : e \in ClearedEntries(ent, L, part)[p] <=>
                 e \in ent[p] /\ (p \in L => ~IsCleared(e[part]))
           /\ ClearedMarks(col, ent, L, part) \in [Obj -> Colors]
           /\ \A p \in Obj : \/ ClearedMarks(col, ent, L, part)[p] = col[p]
                             \/ Kind[p] = "string" /\ col[p] \in Whites
                                   /\ ClearedMarks(col, ent, L, part)[p] = "black"
           /\ \A p \in Obj : \A t \in L : \A e \in ent[t] :
                 Kind[p] = "string" /\ e[part] = p => ClearedMarks(col, ent, L, part)[p] \notin Whites
<1>1. \A p \in Obj : ClearedEntries(ent, L, part)[p] = {e \in ent[p] : p \in L => ~IsCleared(e[part])}
  BY DEF ClearedEntries
<1>2. ClearedEntries(ent, L, part) \in [Obj -> SUBSET (Val \X Val)]
  BY DEF ClearedEntries
<1>3. \A p \in Obj : ClearedMarks(col, ent, L, part)[p] =
          IF Kind[p] = "string" /\ col[p] \in Whites /\ \E t \in L : \E e \in ent[t] : e[part] = p
          THEN "black" ELSE col[p]
  BY DEF ClearedMarks
<1>4. ClearedMarks(col, ent, L, part) \in [Obj -> Colors]
  BY DEF ClearedMarks, Colors
<1>5. "black" \notin Whites
  BY DEF Whites
<1> QED
  BY <1>1, <1>2, <1>3, <1>4, <1>5

\* Weak values go, then the objects to be finalized come back.
LEMMA SeparateKeeps ==
    ASSUME IInv, TypeOK', Separate
    PROVE  IInv'
<1> USE ConstantsAssumption
<1> DEFINE tables == weak \cup allweak
           col == ClearedMarks(color, entry, tables, 2)
           dying == {o \in InList("finobj") : IsWhite(o)}
           roots == InList("tobefnz") \cup dying
<1>k. /\ gcstate = "atomic" /\ gcstate' = "atomic" /\ atomicstep = "separate" /\ atomicstep' = "resurrect"
      /\ KeepInvariant /\ KeepInvariant'
      /\ gray = {} /\ saved = {} /\ round = {} /\ saved' = {} /\ round' = {}
  BY DEF Separate, Step, IInv, TypeOK, Phases, KeepInvariant, Converging
<1>m. /\ \A p \in Obj : Allocated(p) => ~IsDead(p) /\ p \in Live
      /\ \A p \in Obj : Allocated(p) => \A r \in Refs(p) : r \in Obj /\ Allocated(r)
      /\ \A p \in GrayLists : p \in Obj /\ Allocated(p) /\ IsGray(p) /\ Kind[p] \notin LeafKinds
  BY <1>k, WhileMarking
<1>t. /\ color \in [Obj -> Colors] /\ entry \in [Obj -> SUBSET (Val \X Val)] /\ home \in [Obj -> Val]
      /\ \A p \in Obj : \A e \in entry[p] : Shape(p, e)
      /\ \A u \in Obj : home[u] # NC => Kind[home[u]] = "thread"
      /\ \A c \in {"gray", "black"} : c \notin Whites
  BY DEF IInv, TypeOK, Domains, Colors, HeapShape, Shape, FreedIsUnlinked, Whites
<1>u. /\ UNCHANGED <<home, grayagain, weak, allweak, ephemeron, twups, currentwhite>>
      /\ entry' = ClearedEntries(entry, tables, 2)
      /\ origweak' = weak /\ origall' = allweak
      /\ \A p \in Obj : list'[p] = IF p \in dying THEN "tobefnz" ELSE list[p]
      /\ color' = ReallyMark(col, entry', home, roots)
      /\ gray' = ToVisit(col, entry', roots)
  BY DEF Separate, Step
<1>c. /\ entry' \in [Obj -> SUBSET (Val \X Val)]
      /\ \A p \in Obj : \A e : e \in entry'[p] <=> e \in entry[p] /\ (p \in tables => ~IsCleared(e[2]))
      /\ col \in [Obj -> Colors]
      /\ \A p \in Obj : col[p] = color[p] \/ (Kind[p] = "string" /\ color[p] \in Whites /\ col[p] = "black")
      /\ \A p \in Obj : \A t \in tables : \A e \in entry[t] :
            Kind[p] = "string" /\ e[2] = p => col[p] \notin Whites
  <2> HIDE DEF tables
  <2> QED
    BY <1>t, <1>u, ClearFacts
<1>s. /\ roots \in SUBSET Obj /\ \A p \in roots : Allocated(p)
      /\ \A p \in dying : list[p] = "finobj" /\ p \in Obj
      /\ \A p \in Obj : list[p] = "tobefnz" => p \in roots
      /\ \A p \in Obj : list[p] = "finobj" /\ IsWhite(p) => p \in roots /\ p \in dying
  BY DEF InList, Allocated
<1> HIDE DEF col, roots, dying
<1>e. \A p \in Obj : \A e \in entry'[p] : Shape(p, e)
  BY <1>t, <1>c
<1>r. /\ \A p \in Obj : color'[p] = col[p] \/ (col[p] \in Whites /\ color'[p] \in {"gray", "black"})
      /\ \A p \in roots : color'[p] \notin Whites
      /\ \A p \in Obj : color'[p] = "black" /\ col[p] # "black" =>
            Kind[p] \in LeafKinds /\ \A x : RefersTo(p, x)' => color'[x] \notin Whites
      /\ \A p \in Obj : color'[p] \notin Whites /\ col[p] \in Whites /\ Kind[p] = "upval" =>
            \A v \in Values(entry', p) : color'[v] \notin Whites
      /\ \A p \in Obj : color'[p] = "gray" /\ col[p] # "gray" =>
            p \in gray' \/ (Kind[p] = "upval" /\ home[p] # NC)
      /\ \A p \in gray' :
            /\ p \in Obj /\ color'[p] = "gray" /\ col[p] \in Whites /\ Kind[p] \notin LeafKinds
            /\ p \in roots \/ \E u \in roots : Kind[u] = "upval" /\ p \in Values(entry', u)
  <2>1. PICK cl, ent, S : cl = col /\ ent = entry' /\ S = roots
    OBVIOUS
  <2>2. /\ cl \in [Obj -> Colors] /\ ent \in [Obj -> SUBSET (Val \X Val)]
        /\ S \in SUBSET Obj /\ color' = ReallyMark(cl, ent, home, S)
        /\ gray' = ToVisit(cl, ent, S)
        /\ \A o \in Obj : \A e \in ent[o] : Shape(o, e)
    BY <1>c, <1>s, <1>u, <1>e, <2>1
  <2>3. /\ \A p \in Obj : color'[p] = cl[p] \/ (cl[p] \in Whites /\ color'[p] \in {"gray", "black"})
        /\ \A p \in S : color'[p] \notin Whites
        /\ \A p \in Obj : color'[p] = "black" /\ cl[p] # "black" =>
              Kind[p] \in LeafKinds /\ \A x : Ref(ent, home, p, x) => color'[x] \notin Whites
        /\ \A p \in Obj : color'[p] \notin Whites /\ cl[p] \in Whites /\ Kind[p] = "upval" =>
              \A v \in Values(ent, p) : color'[v] \notin Whites
        /\ \A p \in Obj : color'[p] = "gray" /\ cl[p] # "gray" =>
              p \in ToVisit(cl, ent, S) \/ (Kind[p] = "upval" /\ home[p] # NC)
        /\ \A p \in ToVisit(cl, ent, S) :
              /\ p \in Obj /\ color'[p] = "gray" /\ cl[p] \in Whites /\ Kind[p] \notin LeafKinds
              /\ p \in S \/ \E u \in S : Kind[u] = "upval" /\ p \in Values(ent, u)
    BY <1>t, <2>2, MarkStep
  <2>4. \A p, x : RefersTo(p, x)' <=> Ref(ent, home, p, x)
    BY <1>u, <2>1 DEF RefersTo
  <2> QED
    BY <2>1, <2>2, <2>3, <2>4
<1>f. /\ \A p \in Obj : color'[p] = color[p] \/ (color[p] \in Whites /\ color'[p] \in {"gray", "black"})
      /\ \A p \in Obj : color'[p] = "black" /\ color[p] # "black" =>
            Kind[p] \in LeafKinds /\ \A x : RefersTo(p, x)' => color'[x] \notin Whites
      /\ \A p \in Obj : color'[p] \notin Whites /\ color[p] \in Whites /\ Kind[p] = "upval" =>
            \A v \in Values(entry', p) : color'[v] \notin Whites
      /\ \A p \in Obj : color'[p] = "gray" /\ color[p] # "gray" =>
            p \in gray' \/ (Kind[p] = "upval" /\ home[p] # NC)
      /\ \A p \in gray' :
            p \in Obj /\ Allocated(p) /\ color'[p] = "gray" /\ color[p] \in Whites /\ Kind[p] \notin LeafKinds
  <2>1. \A p \in Obj : color'[p] = color[p] \/ (color[p] \in Whites /\ color'[p] \in {"gray", "black"})
    BY <1>r, <1>c, <1>t
  <2>2. \A p \in Obj : color'[p] = "black" /\ color[p] # "black" =>
            Kind[p] \in LeafKinds /\ \A x : RefersTo(p, x)' => color'[x] \notin Whites
    <3> SUFFICES ASSUME NEW p \in Obj, color'[p] = "black", color[p] # "black", col[p] = "black"
                 PROVE  Kind[p] \in LeafKinds /\ \A x : ~RefersTo(p, x)'
      BY <1>r
    <3>1. Kind[p] = "string"
      BY <1>c
    <3>2. \A u \in Obj : home'[u] # p
      BY <1>u, <1>t, <3>1
    <3> QED
      BY <1>e, <3>1, <3>2 DEF Shape, RefersTo, Ref, LeafKinds
  <2>3. \A p \in Obj : color'[p] \notin Whites /\ color[p] \in Whites /\ Kind[p] = "upval" =>
            \A v \in Values(entry', p) : color'[v] \notin Whites
    BY <1>r, <1>c
  <2>4. \A p \in Obj : color'[p] = "gray" /\ color[p] # "gray" =>
            p \in gray' \/ (Kind[p] = "upval" /\ home[p] # NC)
    BY <1>r, <1>c
  <2>5. \A p \in gray' :
            p \in Obj /\ Allocated(p) /\ color'[p] = "gray" /\ color[p] \in Whites /\ Kind[p] \notin LeafKinds
    <3> SUFFICES ASSUME NEW p \in gray' PROVE Allocated(p) /\ color[p] \in Whites
      BY <1>r
    <3>1. color[p] \in Whites
      BY <1>r, <1>c, <1>t
    <3>2. ASSUME NEW u \in roots, p \in Values(entry', u) PROVE Allocated(p)
      <4>1. p \in Values(entry, u) /\ u \in Obj /\ Allocated(u)
        BY <1>c, <1>s, <3>2 DEF Values
      <4> QED
        BY <4>1, <1>m DEF Refs
    <3> QED
      BY <1>r, <1>s, <3>1, <3>2
  <2> QED
    BY <2>1, <2>2, <2>3, <2>4, <2>5
<1>p. \A p \in Obj : color[p] \notin Whites => color'[p] \notin Whites
  BY <1>f
<1>a. \A p \in Obj : Allocated(p)' <=> Allocated(p)
  BY <1>u, <1>s DEF Allocated
<1>d. \A p \in Obj : Allocated(p) => ~IsDead(p)'
  <2>1. OtherWhite' = OtherWhite /\ OtherWhite \in Whites
    BY <1>u DEF OtherWhite, IInv, TypeOK, Domains, Whites
  <2> QED
    BY <2>1, <1>f, <1>m, <1>t DEF IsDead
<1>l. \A p \in Obj : p \in Live' <=> Allocated(p)
  BY <1>a, <1>d DEF Live
<1>1. /\ HeapShape' /\ FreedIsUnlinked'
      /\ \A p \in Obj : \A x : RefersTo(p, x)' => RefersTo(p, x)
  <2>1. /\ \A p \in Obj : entry'[p] \subseteq entry[p]
        /\ \A p \in Obj : home'[p] \in {home[p], NC}
    BY <1>c, <1>u
  <2>2. Allocated(Main) /\ list[Main] = "allgc"
    BY DEF IInv, HeapShape, Allocated
  <2>3. /\ list'[Main] = list[Main] /\ ~IsDead(Main)'
        /\ \A p \in Obj : list'[p] \in {list[p], "free"} \/ (p \in GCAllowed /\ list[p] # "free")
        /\ \A p \in Obj : list'[p] = "free" => list[p] = "free"
    BY <1>u, <1>s, <1>d, <2>2 DEF IInv, HeapShape
  <2> QED
    BY <2>1, <2>3, ShapeKept
<1>2. NoDangling'
  <2> SUFFICES ASSUME NEW o \in Obj, Allocated(o), NEW x, RefersTo(o, x)' PROVE x \in Live'
    BY <1>l, RefersMeaning DEF NoDangling, Live
  <2>1. x \in Refs(o)
    BY <1>1, RefersMeaning
  <2> QED
    BY <1>m, <1>l, <2>1
<1>3. DeadAreSwept' /\ MarkedAreSwept'
  BY <1>k, <1>a, <1>d DEF DeadAreSwept, MarkedAreSwept, KeepInvariant, IsSweepPhase
<1>n. \A p \in Obj : \A x : Allocated(p) /\ RefersTo(p, x)' => x \in Refs(p) /\ x \in Obj /\ x # NC
  BY <1>1, <1>m, RefersMeaning
<1>4. TriColor'
  <2> SUFFICES ASSUME NEW p \in Obj, Allocated(p), color'[p] = "black", NEW r, RefersTo(p, r)'
               PROVE  color'[r] \notin Whites
    BY <1>a, RefersMeaning DEF TriColor, IsBlack, IsWhite
  <2>1. CASE color[p] = "black"
    <3>1. ~IsWhite(r) /\ r \in Obj /\ r # NC
      BY <2>1, <1>k, <1>n DEF IInv, TriColor, IsBlack
    <3> QED
      BY <3>1, <1>p DEF IsWhite
  <2>2. CASE color[p] # "black"
    BY <2>2, <1>f
  <2> QED
    BY <2>1, <2>2
<1>g. \A p : p \in GrayLists' <=> p \in GrayLists \/ p \in gray'
  BY <1>k, <1>u DEF GrayLists
<1>5. GrayListed'
  <2>1. \A p \in Obj : Allocated(p)' /\ IsGray(p)' => p \in GrayLists' \/ (Kind[p] = "upval" /\ home'[p] # NC)
    <3> SUFFICES ASSUME NEW p \in Obj, Allocated(p), color'[p] = "gray"
                 PROVE  p \in GrayLists' \/ (Kind[p] = "upval" /\ home[p] # NC)
      BY <1>a, <1>u DEF IsGray
    <3>1. CASE color[p] = "gray"
      BY <1>g, <1>k, <3>1 DEF IInv, GrayListed, IsGray
    <3>2. CASE color[p] # "gray"
      BY <1>g, <1>f, <3>2
    <3> QED
      BY <3>1, <3>2
  <2>2. \A p \in GrayLists' : Allocated(p)' /\ IsGray(p)'
    BY <1>a, <1>f, <1>g, <1>m, <1>t DEF IsGray
  <2> QED
    BY <2>1, <2>2 DEF GrayListed
<1>6. OneList'
  <2>1. \A p \in gray' : p \notin GrayLists
    BY <1>f, <1>m, <1>t DEF IsGray
  <2> QED
    BY <1>k, <1>u, <2>1 DEF IInv, OneList, GrayLists
<1>7. MarkLists'
  BY <1>k, <1>u, <1>f, <1>p DEF IInv, MarkLists, IsWhite
<1>8. AtomicLists'
  <2>1. \A p \in grayagain' : Kind[p] = "table" /\ \A r \in Refs(p)' : ~IsWhite(r)'
    <3> SUFFICES ASSUME NEW p \in grayagain PROVE Kind[p] = "table" /\ \A r : RefersTo(p, r)' => color'[r] \notin Whites
      BY <1>u, RefersMeaning DEF IsWhite
    <3>1. Kind[p] = "table" /\ \A r \in Refs(p) : ~IsWhite(r)
      BY <1>k DEF IInv, AtomicLists
    <3>2. p \in Obj /\ Allocated(p)
      BY <1>m DEF GrayLists
    <3> QED
      BY <3>1, <3>2, <1>n, <1>p DEF IsWhite
  <2>2. \A t \in weak' : \A x \in Keys(entry', t) : ~IsWhite(x)'
    <3> SUFFICES ASSUME NEW t \in weak, NEW x \in Keys(entry', t) PROVE color'[x] \notin Whites
      BY <1>u DEF IsWhite
    <3>0. t \in Obj /\ Allocated(t)
      BY <1>m DEF GrayLists
    <3>1. x \in Keys(entry, t)
      BY <1>c, <3>0 DEF Keys
    <3>2. ~IsWhite(x) /\ x \in Obj /\ x # NC
      BY <1>k, <1>m, <3>0, <3>1 DEF IInv, AtomicLists, Refs
    <3> QED
      BY <3>2, <1>p DEF IsWhite
  <2>3. \A t \in origweak' \cup origall' : \A v \in Values(entry', t) : ~IsWhite(v)'
    <3> SUFFICES ASSUME NEW t \in tables, NEW v \in Values(entry', t) PROVE color'[v] \notin Whites
      BY <1>u DEF IsWhite
    <3>0. t \in Obj /\ Allocated(t)
      BY <1>m DEF GrayLists
    <3>1. PICK e \in entry'[t] : v = e[2] /\ v # NC
      BY DEF Values
    <3>2. e \in entry[t] /\ ~IsCleared(v) /\ v \in Obj
      BY <1>c, <1>t, <3>0, <3>1 DEF Val
    <3>3. col[v] \notin Whites
      BY <1>c, <1>t, <3>1, <3>2 DEF IsCleared, IsWhite
    <3> QED
      BY <3>2, <3>3, <1>r, <1>t
  <2>4. \A p \in Obj : list'[p] \in {"finobj", "tobefnz"} => ~IsWhite(p)'
    <3> SUFFICES ASSUME NEW p \in Obj, list'[p] \in {"finobj", "tobefnz"} PROVE color'[p] \notin Whites
      BY DEF IsWhite
    <3>1. p \in roots \/ (list[p] = "finobj" /\ ~IsWhite(p))
      BY <1>u, <1>s
    <3> QED
      BY <3>1, <1>r, <1>p DEF IsWhite
  <2> QED
    BY <1>k, <2>1, <2>2, <2>3, <2>4 DEF AtomicLists, Converged, Converging
<1>9. UpvalLists'
  <2>1. twups' \subseteq {th \in Obj : Kind[th] = "thread" /\ Allocated(th)' /\ ~IsDead(th)'}
    BY <1>u, <1>a, <1>d DEF IInv, UpvalLists
  <2>2. \A th \in twups' : ~IsWhite(th)'
    BY <1>u, <1>p, <1>k DEF IInv, UpvalLists, IsWhite
  <2>h. \A u \in Obj : home[u] # NC => home[u] \in Obj /\ Kind[home[u]] = "thread"
    BY <1>t DEF Val
  <2>3. \A u \in Live' : home'[u] # NC /\ color'[home'[u]] = "black" => home'[u] \in twups'
    <3> SUFFICES ASSUME NEW u \in Obj, Allocated(u), home[u] # NC, color'[home[u]] = "black"
                 PROVE  home[u] \in twups
      BY <1>u, <1>l DEF Live
    <3>1. color[home[u]] = "black"
      BY <2>h, <1>f DEF LeafKinds
    <3> QED
      BY <3>1, <1>m, <1>k DEF IInv, UpvalLists, IsBlack
  <2>4. \A u \in Live' : home'[u] # NC /\ IsGray(u)' =>
                \/ home'[u] \in gray' \cup saved'
                \/ \A v \in Values(entry', u) : ~IsWhite(v)'
    <3> SUFFICES ASSUME NEW u \in Obj, Allocated(u), home[u] # NC, color'[u] = "gray",
                        NEW v \in Values(entry', u)
                 PROVE  color'[v] \notin Whites
      BY <1>u, <1>l DEF IsGray, IsWhite, Live
    <3>1. CASE color[u] \in Whites
      BY <3>1, <1>f, <1>t DEF IInv, HeapShape
    <3>2. CASE color[u] = "gray"
      <4>1. v \in Values(entry, u)
        BY <1>c DEF Values
      <4>2. ~IsWhite(v)
        BY <4>1, <3>2, <1>k, <1>m DEF IInv, UpvalLists, IsGray
      <4>3. v \in Obj /\ v # NC
        BY <4>1, <1>m DEF Refs
      <4> QED
        BY <4>2, <4>3, <1>p DEF IsWhite
    <3> QED
      BY <3>1, <3>2, <1>f, <1>t
  <2> QED
    BY <1>k, <2>1, <2>2, <2>3, <2>4 DEF UpvalLists, IsBlack
<1> QED
  BY <1>1, <1>2, <1>3, <1>4, <1>5, <1>6, <1>7, <1>8, <1>9 DEF IInv

\* The heart of the collector: when the whites are exchanged, what is not condemned
\* refers to nothing that is.  Each gray list has its own reason.
LEMMA FlipKeeps ==
    ASSUME IInv, TypeOK', Flip
    PROVE  IInv'
<1> USE ConstantsAssumption
<1> DEFINE byKey == ephemeron \cup allweak
           byValue == (weak \ origweak) \cup (allweak \ origall)
           kept == ClearedEntries(entry, byKey, 1)
           mid == ClearedMarks(color, entry, byKey, 1)
<1>k. /\ gcstate = "atomic" /\ gcstate' = "swpallgc" /\ atomicstep = "clear" /\ atomicstep' = "tolive"
      /\ KeepInvariant /\ ~KeepInvariant'
      /\ gray = {} /\ saved = {} /\ round = {}
      /\ Resurrected /\ Converged
  BY DEF Flip, IInv, TypeOK, Phases, KeepInvariant, Converging, Resurrected, Converged
<1>m. /\ \A p \in Obj : Allocated(p) => ~IsDead(p) /\ p \in Live
      /\ \A p \in Obj : Allocated(p) => \A r \in Refs(p) : r \in Obj /\ Allocated(r)
      /\ \A p \in GrayLists : p \in Obj /\ Allocated(p) /\ IsGray(p) /\ Kind[p] \notin LeafKinds
  BY <1>k, WhileMarking
<1>t. /\ color \in [Obj -> Colors] /\ entry \in [Obj -> SUBSET (Val \X Val)] /\ home \in [Obj -> Val]
      /\ \A p \in Obj : \A e \in entry[p] : Shape(p, e)
      /\ \A u \in Obj : home[u] # NC => home[u] \in Obj /\ Kind[home[u]] = "thread" /\ Kind[u] = "upval"
      /\ \A c \in {"gray", "black"} : c \notin Whites
  BY DEF IInv, TypeOK, Domains, Colors, HeapShape, Shape, FreedIsUnlinked, Whites, Val
<1>u. /\ UNCHANGED <<list, home, twups>>
      /\ entry' = ClearedEntries(kept, byValue, 2)
      /\ color' = ClearedMarks(mid, kept, byValue, 2)
      /\ tosweep' = InList("allgc") /\ currentwhite' = OtherWhite
  BY DEF Flip
<1>c1. /\ kept \in [Obj -> SUBSET (Val \X Val)]
       /\ \A p \in Obj : \A e : e \in kept[p] <=> e \in entry[p] /\ (p \in byKey => ~IsCleared(e[1]))
       /\ mid \in [Obj -> Colors]
       /\ \A p \in Obj : mid[p] = color[p] \/ (Kind[p] = "string" /\ color[p] \in Whites /\ mid[p] = "black")
       /\ \A p \in Obj : \A t \in byKey : \A e \in entry[t] :
             Kind[p] = "string" /\ e[1] = p => mid[p] \notin Whites
  <2> HIDE DEF byKey
  <2> QED
    BY <1>t, ClearFacts
<1> HIDE DEF kept, mid
<1>c2. /\ \A p \in Obj : \A e : e \in entry'[p] <=> e \in kept[p] /\ (p \in byValue => ~IsCleared(e[2]))
       /\ \A p \in Obj : color'[p] = mid[p] \/ (Kind[p] = "string" /\ mid[p] \in Whites /\ color'[p] = "black")
       /\ \A p \in Obj : \A t \in byValue : \A e \in kept[t] :
             Kind[p] = "string" /\ e[2] = p => color'[p] \notin Whites
  <2> HIDE DEF byValue
  <2> QED
    BY <1>c1, <1>u, ClearFacts
<1>c. /\ \A p \in Obj : color'[p] = color[p] \/ (Kind[p] = "string" /\ color[p] \in Whites /\ color'[p] = "black")
      /\ \A p \in Obj : color[p] \notin Whites => color'[p] \notin Whites
      /\ \A p \in Obj : \A e \in entry'[p] :
            /\ e \in entry[p] /\ e[1] \in Val /\ e[2] \in Val
            /\ p \in byKey => ~IsCleared(e[1]) /\ (e[1] # NC => color'[e[1]] \notin Whites)
            /\ p \in byValue /\ e[2] # NC => color'[e[2]] \notin Whites
  <2>1. /\ \A p \in Obj : color'[p] = color[p] \/ (Kind[p] = "string" /\ color[p] \in Whites /\ color'[p] = "black")
        /\ \A p \in Obj : mid[p] \notin Whites => color'[p] \notin Whites
        /\ \A p \in Obj : color[p] \notin Whites => mid[p] \notin Whites
    BY <1>c1, <1>c2, <1>t
  <2>2. ASSUME NEW p \in Obj, NEW e \in entry'[p]
        PROVE  /\ e \in entry[p] /\ e[1] \in Val /\ e[2] \in Val
               /\ p \in byKey => ~IsCleared(e[1]) /\ (e[1] # NC => color'[e[1]] \notin Whites)
               /\ p \in byValue /\ e[2] # NC => color'[e[2]] \notin Whites
    <3>1. /\ e \in kept[p] /\ e \in entry[p] /\ e[1] \in Val /\ e[2] \in Val
          /\ p \in byValue => ~IsCleared(e[2])
          /\ p \in byKey => ~IsCleared(e[1])
      BY <1>c1, <1>c2, <1>t
    <3>2. ASSUME p \in byKey, e[1] # NC PROVE color'[e[1]] \notin Whites
      <4>1. e[1] \in Obj /\ (color[e[1]] \notin Whites \/ Kind[e[1]] = "string")
        BY <3>1, <3>2 DEF IsCleared, IsWhite, Val
      <4>2. mid[e[1]] \notin Whites
        BY <4>1, <3>1, <3>2, <2>1, <1>c1
      <4> QED
        BY <4>1, <4>2, <2>1
    <3>3. ASSUME p \in byValue, e[2] # NC PROVE color'[e[2]] \notin Whites
      <4>1. e[2] \in Obj /\ (color[e[2]] \notin Whites \/ Kind[e[2]] = "string")
        BY <3>1, <3>3 DEF IsCleared, IsWhite, Val
      <4> QED
        BY <4>1, <3>1, <3>3, <2>1, <1>c2
    <3> QED
      BY <3>1, <3>2, <3>3
  <2> QED
    BY <2>1, <2>2
<1>a. \A p : Allocated(p)' <=> Allocated(p)
  BY <1>u DEF Allocated
<1>d. \A p \in Obj : Allocated(p) => (IsDead(p)' <=> color'[p] \in Whites)
  <2>1. /\ OtherWhite' = currentwhite /\ OtherWhite # currentwhite
        /\ Whites = {OtherWhite, currentwhite}
    BY <1>u DEF OtherWhite, IInv, TypeOK, Domains, Whites
  <2> QED
    BY <2>1, <1>c, <1>m, <1>t DEF IsDead
<1>l. \A p : p \in Live' <=> p \in Obj /\ Allocated(p) /\ color'[p] \notin Whites
  BY <1>a, <1>d DEF Live
<1>1. /\ HeapShape' /\ FreedIsUnlinked'
      /\ \A p \in Obj : \A x : RefersTo(p, x)' => RefersTo(p, x)
  <2>1. /\ \A p \in Obj : entry'[p] \subseteq entry[p]
        /\ \A p \in Obj : home'[p] \in {home[p], NC}
        /\ \A p \in Obj : list'[p] = list[p]
    BY <1>c, <1>u
  <2>2. ~IsDead(Main)'
    <3>1. Allocated(Main) /\ color[Main] \notin Whites
      BY <1>k DEF IInv, HeapShape, Allocated, MarkLists, IsWhite
    <3> QED
      BY <3>1, <1>d, <1>c
  <2> QED
    BY <2>1, <2>2, ShapeKept
<1>2. NoDangling'
  <2> SUFFICES ASSUME NEW o \in Obj, Allocated(o), color'[o] \notin Whites, NEW x, RefersTo(o, x)'
               PROVE  x \in Live'
    BY <1>l, RefersMeaning DEF NoDangling
  <2>1. x \in Refs(o) /\ x \in Obj /\ x # NC /\ Allocated(x)
    BY <1>1, <1>m, RefersMeaning
  <2> SUFFICES color'[x] \notin Whites
    BY <2>1, <1>l
  <2>a. Kind[o] # "thread" => \E e \in entry'[o] : x = e[1] \/ x = e[2]
    <3>1. \A u \in Obj : Kind[o] # "thread" => home'[u] # o
      BY <1>t, <1>u
    <3> QED
      BY <3>1 DEF RefersTo, Ref
  <2>2. CASE color[o] \in Whites
    <3>1. Kind[o] = "string"
      BY <2>2, <1>c
    <3> QED
      BY <3>1, <2>a, <1>c, <1>t DEF Shape
  <2>3. CASE color[o] = "black"
    BY <2>3, <2>1, <1>k, <1>c DEF IInv, TriColor, IsBlack, IsWhite
  <2>4. CASE color[o] = "gray" /\ o \in grayagain
    BY <2>4, <2>1, <1>k, <1>c DEF IInv, AtomicLists, IsWhite
  <2>5. CASE color[o] = "gray" /\ o \in weak \cup allweak \cup ephemeron
    <3>1. Kind[o] = "table"
      BY <2>5, <1>k DEF IInv, MarkLists
    <3>2. PICK e \in entry'[o] : x = e[1] \/ x = e[2]
      BY <2>a, <3>1
    <3>e. /\ e \in entry[o] /\ e[1] \in Val /\ e[2] \in Val
          /\ o \in byKey => ~IsCleared(e[1]) /\ (e[1] # NC => color'[e[1]] \notin Whites)
          /\ o \in byValue /\ e[2] # NC => color'[e[2]] \notin Whites
      BY <1>c, <3>2
    <3>3. CASE x = e[1] /\ o \in byKey
      BY <3>3, <3>e, <2>1
    <3>4. CASE x = e[1] /\ o \in weak
      <4>1. x \in Keys(entry, o)
        BY <3>4, <3>e, <2>1 DEF Keys
      <4>2. ~IsWhite(x)
        BY <4>1, <3>4, <1>k DEF IInv, AtomicLists
      <4> QED
        BY <4>2, <2>1, <1>c DEF IsWhite
    <3>5. CASE x = e[2] /\ o \in byValue
      BY <3>5, <3>e, <2>1
    <3>6. CASE x = e[2] /\ o \in origweak \cup origall
      <4>1. x \in Values(entry, o)
        BY <3>6, <3>e, <2>1 DEF Values
      <4>2. ~IsWhite(x)
        BY <4>1, <3>6, <1>k DEF IInv, AtomicLists
      <4> QED
        BY <4>2, <2>1, <1>c DEF IsWhite
    <3>7. CASE x = e[2] /\ o \in ephemeron
      <4>1. e \in OpenEntries(o)
        BY <3>7, <3>e DEF OpenEntries
      <4>2. ~IsWhite(e[2])
        BY <4>1, <3>7, <1>k DEF IInv, AtomicLists
      <4> QED
        BY <4>2, <3>7, <2>1, <1>c DEF IsWhite
    <3> QED
      BY <2>5, <3>2, <3>3, <3>4, <3>5, <3>6, <3>7
  <2>6. CASE color[o] = "gray" /\ Kind[o] = "upval" /\ home[o] # NC
    <3>1. PICK e \in entry'[o] : x = e[1] \/ x = e[2]
      BY <2>a, <2>6
    <3>2. x = e[2] /\ e \in entry[o]
      BY <3>1, <1>c, <1>t, <2>1, <2>6 DEF Shape
    <3>3. x \in Values(entry, o)
      BY <3>2, <2>1 DEF Values
    <3>4. ~IsWhite(x)
      BY <3>3, <2>6, <1>k, <1>m DEF IInv, UpvalLists, IsGray
    <3> QED
      BY <3>4, <2>1, <1>c DEF IsWhite
  <2>7. color[o] \in Whites \/ color[o] = "black" \/ color[o] = "gray"
    BY <1>t DEF Colors
  <2>8. color[o] = "gray" =>
          o \in grayagain \cup weak \cup allweak \cup ephemeron \/ (Kind[o] = "upval" /\ home[o] # NC)
    BY <1>k DEF IInv, GrayListed, GrayLists, IsGray
  <2> QED
    BY <2>2, <2>3, <2>4, <2>5, <2>6, <2>7, <2>8
<1>3. DeadAreSwept'
  <2> SUFFICES ASSUME NEW o \in Obj, Allocated(o), color'[o] \in Whites PROVE list[o] = "allgc"
    BY <1>k, <1>u, <1>a, <1>d DEF DeadAreSwept, InList
  <2>1. color[o] \in Whites
    BY <1>c
  <2>2. list[o] \notin {"finobj", "tobefnz"}
    BY <2>1, <1>k, ConstantsAssumption DEF IInv, AtomicLists, IsWhite
  <2> QED
    BY <2>2 DEF Allocated, IInv, TypeOK, Domains
<1>4. MarkedAreSwept'
  <2>1. tosweep' \subseteq {o \in Obj : Allocated(o)}
    BY <1>u DEF InList, Allocated
  <2>2. \A o \in Obj : Allocated(o) => o \in tosweep' \/ list[o] \in {"finobj", "tobefnz"}
    BY <1>u DEF InList, Allocated, IInv, TypeOK, Domains
  <2> QED
    BY <1>k, <1>a, <1>u, <2>1, <2>2 DEF MarkedAreSwept
<1>5. TriColor' /\ GrayListed' /\ OneList' /\ MarkLists' /\ AtomicLists'
  BY <1>k DEF TriColor, GrayListed, OneList, MarkLists, AtomicLists
<1>6. UpvalLists'
  <2>1. twups' \subseteq {th \in Obj : Kind[th] = "thread" /\ Allocated(th)' /\ ~IsDead(th)'}
    <3>1. \A th \in twups : Kind[th] = "thread" /\ th \in Obj /\ Allocated(th) /\ ~IsWhite(th)
      BY <1>k DEF IInv, UpvalLists
    <3> QED
      BY <3>1, <1>u, <1>a, <1>c, <1>d DEF IsWhite
  <2>2. \A u \in Live' : home'[u] # NC /\ home'[u] \in Live' => home'[u] \in twups'
    <3> SUFFICES ASSUME NEW u \in Obj, Allocated(u), home[u] # NC, color'[home[u]] \notin Whites
                 PROVE  home[u] \in twups
      BY <1>u, <1>l
    <3>1. color[home[u]] \notin Whites /\ home[u] \in Obj /\ Kind[home[u]] = "thread" /\ Allocated(home[u])
      BY <1>t, <1>c DEF IInv, FreedIsUnlinked
    <3>2. color[home[u]] = "black"
      <4> SUFFICES ASSUME color[home[u]] = "gray" PROVE FALSE
        BY <3>1, <1>t DEF Colors
      <4>1. home[u] \in GrayLists
        BY <3>1, <1>k DEF IInv, GrayListed, IsGray
      <4>2. home[u] \notin grayagain
        BY <3>1, <1>k DEF IInv, AtomicLists
      <4> QED
        BY <3>1, <4>1, <4>2, <1>k DEF IInv, MarkLists, GrayLists
    <3> QED
      BY <3>2, <1>k, <1>m DEF IInv, UpvalLists, IsBlack
  <2> QED
    BY <1>k, <2>1, <2>2 DEF UpvalLists
<1> QED
  BY <1>1, <1>2, <1>3, <1>4, <1>5, <1>6 DEF IInv

-----------------------------------------------------------------------------
(* Sweeping.                                                               *)

\* Half of the invariant is about marking.
LEMMA NotMarking ==
    ASSUME ~KeepInvariant'
    PROVE  TriColor' /\ GrayListed' /\ OneList' /\ MarkLists' /\ AtomicLists'
  BY DEF KeepInvariant, TriColor, GrayListed, OneList, MarkLists, AtomicLists

\* Outside of `atomic', the live threads with open upvalues are in twups.
LEMMA UpvalsKept ==
    ASSUME IInv, gcstate # "atomic", gcstate' # "atomic", TypeOK', twups' = twups,
           \A u \in Obj : home'[u] \in {home[u], NC},
           \A p \in Obj : p \in Live' <=> p \in Live
    PROVE  UpvalLists'
<1>1. atomicstep \in {"none", "tolive"} /\ atomicstep' \in {"none", "tolive"}
  BY DEF IInv, TypeOK, Domains, Phases, AtomicSteps
<1>2. twups' \subseteq {th \in Obj : Kind[th] = "thread" /\ Allocated(th)' /\ ~IsDead(th)'}
  <2>1. \A th \in twups : th \in Obj /\ Kind[th] = "thread" /\ th \in Live
    BY DEF IInv, UpvalLists, Live
  <2>2. \A th \in twups' : th \in Obj /\ Kind[th] = "thread" /\ th \in Live'
    BY <2>1
  <2> QED
    BY <2>2 DEF Live
<1>3. \A u \in Live' : home'[u] # NC /\ home'[u] \in Live' => home'[u] \in twups'
  <2> SUFFICES ASSUME NEW u \in Obj, u \in Live', home'[u] # NC, home'[u] \in Live' PROVE home'[u] \in twups
    BY DEF Live
  <2>1. u \in Live /\ home'[u] = home[u]
    OBVIOUS
  <2>2. home[u] \in Obj /\ home[u] # NC
    BY <2>1 DEF IInv, TypeOK, Domains, Val
  <2> QED
    BY <1>1, <2>1, <2>2 DEF IInv, UpvalLists
<1> QED
  BY <1>1, <1>2, <1>3 DEF UpvalLists

\* A condemned object is freed: nothing live refers to it.
LEMMA SweepDeadKeeps ==
    ASSUME IInv, TypeOK', NEW o \in Obj, SweepOne(o), IsDead(o)
    PROVE  IInv'
<1> USE ConstantsAssumption
<1>k. /\ IsSweepPhase /\ ~KeepInvariant' /\ ~KeepInvariant /\ gcstate' = gcstate
      /\ gcstate # "atomic" /\ IsSweepPhase'
  BY DEF SweepOne, IsSweepPhase, KeepInvariant
<1>o. o \in tosweep /\ Allocated(o) /\ o # Main /\ o \notin Live
  BY <1>k DEF SweepOne, IInv, MarkedAreSwept, HeapShape, Live
<1>t. /\ color \in [Obj -> Colors] /\ currentwhite \in Whites /\ OtherWhite \in Whites
      /\ currentwhite # OtherWhite /\ OtherWhite' = OtherWhite /\ OtherWhite # "black"
      /\ "black" \notin Whites
      /\ \A p \in Obj : home[p] = o => p # NC /\ Kind[p] = "upval"
  BY DEF SweepOne, OtherWhite, IInv, TypeOK, Domains, Whites, Colors, HeapShape
<1>u. /\ \A p \in Obj : list'[p] = IF p = o THEN "free" ELSE list[p]
      /\ \A p \in Obj : entry'[p] = IF p = o THEN {} ELSE entry[p]
      /\ \A p \in Obj : home'[p] = IF p = o \/ home[p] = o THEN NC ELSE home[p]
      /\ tosweep' = tosweep \ {o} /\ twups' = twups /\ currentwhite' = currentwhite
  BY DEF SweepOne, Free, HomeWithout, IInv, TypeOK, Domains
<1>c. \A p \in Obj : p # o =>
          \/ color'[p] = color[p]
          \/ color[p] \notin Whites /\ color'[p] \in {currentwhite, "black"}
  BY DEF SweepOne, Free, OpenUpvals, IsWhite
<1>a. \A p \in Obj : Allocated(p)' <=> Allocated(p) /\ p # o
  BY <1>u DEF Allocated
<1>d. \A p \in Obj : p # o => (IsDead(p)' <=> IsDead(p))
  BY <1>c, <1>t DEF IsDead
<1>l. \A p \in Obj : p \in Live' <=> p \in Live
  BY <1>a, <1>d, <1>o DEF Live
<1>1. /\ HeapShape' /\ FreedIsUnlinked'
      /\ \A p \in Obj : \A x : RefersTo(p, x)' => RefersTo(p, x)
  <2>1. /\ \A p \in Obj : entry'[p] \subseteq entry[p]
        /\ \A p \in Obj : home'[p] \in {home[p], NC}
        /\ list'[Main] = list[Main] /\ ~IsDead(Main)'
        /\ \A p \in Obj : list'[p] \in {list[p], "free"} \/ (p \in GCAllowed /\ list[p] # "free")
    BY <1>u, <1>o, <1>d DEF IInv, HeapShape
  <2>2. \A p \in Obj : list'[p] = "free" =>
              \/ list[p] = "free"
              \/ entry'[p] = {} /\ home'[p] = NC /\ \A u \in Obj : home'[u] # p
    BY <1>u
  <2> QED
    BY <2>1, <2>2, ShapeKept
<1>2. NoDangling'
  <2> SUFFICES ASSUME NEW p \in Obj, p \in Live, NEW x, RefersTo(p, x) PROVE x \in Live'
    BY <1>1, <1>l, RefersMeaning DEF NoDangling, Live
  <2>1. x \in Live /\ x \in Obj
    BY RefersMeaning DEF IInv, NoDangling, Live
  <2> QED
    BY <2>1, <1>l
<1>3. DeadAreSwept'
  BY <1>k, <1>a, <1>d, <1>u DEF IInv, DeadAreSwept
<1>4. MarkedAreSwept'
  <2>1. tosweep' \subseteq {p \in Obj : Allocated(p)'}
    BY <1>k, <1>a, <1>u DEF IInv, MarkedAreSwept
  <2>2. \A p \in Obj : p # o /\ ~IsWhite(p)' => ~IsWhite(p)
    BY <1>c DEF IsWhite
  <2> QED
    BY <1>k, <1>a, <1>u, <2>1, <2>2 DEF IInv, MarkedAreSwept
<1>5. UpvalLists'
  BY <1>k, <1>l, <1>u, UpvalsKept
<1> QED
  BY <1>k, <1>1, <1>2, <1>3, <1>4, <1>5, NotMarking DEF IInv

\* A surviving object is white again.
LEMMA SweepLiveKeeps ==
    ASSUME IInv, TypeOK', NEW o \in Obj, SweepOne(o), ~IsDead(o)
    PROVE  IInv'
<1>k. /\ IsSweepPhase /\ ~KeepInvariant' /\ ~KeepInvariant /\ gcstate' = gcstate
      /\ gcstate # "atomic" /\ IsSweepPhase'
  BY DEF SweepOne, IsSweepPhase, KeepInvariant
<1>u. /\ UNCHANGED <<list, entry, home, twups, currentwhite>>
      /\ \A p \in Obj : color'[p] = IF p = o THEN currentwhite ELSE color[p]
      /\ tosweep' = tosweep \ {o}
  BY DEF SweepOne, heap, IInv, TypeOK, Domains
<1>t. currentwhite \in Whites /\ currentwhite # OtherWhite /\ OtherWhite' = OtherWhite
  BY <1>u DEF OtherWhite, IInv, TypeOK, Domains, Whites
<1>d. \A p \in Obj : IsDead(p)' <=> IsDead(p)
  BY <1>u, <1>t DEF IsDead
<1>1. /\ HeapShape' /\ FreedIsUnlinked' /\ NoDangling' /\ Live' = Live
      /\ \A p : Allocated(p)' <=> Allocated(p)
  BY <1>d, <1>u, HeapKept
<1>2. DeadAreSwept'
  BY <1>k, <1>1, <1>d, <1>u DEF IInv, DeadAreSwept
<1>3. MarkedAreSwept'
  <2>1. \A p \in Obj : ~IsWhite(p)' => ~IsWhite(p) /\ (p # NC => p # o)
    BY <1>u, <1>t DEF IsWhite
  <2> QED
    BY <1>k, <1>1, <1>u, <2>1, ConstantsAssumption DEF IInv, MarkedAreSwept
<1>4. UpvalLists'
  BY <1>k, <1>1, <1>u, UpvalsKept
<1> QED
  BY <1>k, <1>1, <1>2, <1>3, <1>4, NotMarking DEF IInv

\* Only the phase of the sweep changes; nothing condemned is left.
LEMMA PhaseKeeps ==
    ASSUME IInv, TypeOK', UNCHANGED <<list, entry, home, twups, currentwhite, color>>,
           gcstate # "atomic", gcstate' # "atomic", ~KeepInvariant',
           \A p \in Obj : Allocated(p) => ~IsDead(p), MarkedAreSwept'
    PROVE  IInv'
<1>d. \A p \in Obj : IsDead(p)' <=> IsDead(p)
  BY DEF IsDead, OtherWhite
<1>1. /\ HeapShape' /\ FreedIsUnlinked' /\ NoDangling' /\ Live' = Live
      /\ \A p : Allocated(p)' <=> Allocated(p)
  BY <1>d, HeapKept
<1>2. DeadAreSwept'
  BY <1>1, <1>d DEF DeadAreSwept
<1>3. UpvalLists'
  BY <1>1, UpvalsKept
<1> QED
  BY <1>1, <1>2, <1>3, NotMarking DEF IInv

\* sweepgc moves to the next list when nothing condemned is left.
LEMMA NextSweepKeeps ==
    ASSUME IInv, TypeOK', NextSweep
    PROVE  IInv'
<1>1. /\ UNCHANGED <<list, entry, home, twups, currentwhite, color>>
      /\ gcstate # "atomic" /\ gcstate' # "atomic" /\ ~KeepInvariant' /\ ~KeepInvariant
  BY DEF NextSweep, heap, marks, IsSweepPhase, KeepInvariant
<1>2. \A p \in Obj : Allocated(p) => ~IsDead(p)
  BY DEF NextSweep, IInv, DeadAreSwept
<1>3. MarkedAreSwept'
  <2>1. (IsSweepPhase => tosweep \subseteq {p \in Obj : Allocated(p)})'
    BY <1>1 DEF NextSweep, InList, Allocated
  <2>2. \A p \in Obj : Allocated(p)' /\ ~IsWhite(p)' =>
          \/ p \in tosweep'
          \/ gcstate' = "swpallgc" /\ list'[p] \in {"finobj", "tobefnz"}
          \/ gcstate' = "swpfinobj" /\ list'[p] = "tobefnz"
    <3> SUFFICES ASSUME NEW p \in Obj, Allocated(p), ~IsWhite(p)
                 PROVE  p \in tosweep' \/ (gcstate' = "swpfinobj" /\ list[p] = "tobefnz")
      BY <1>1 DEF Allocated, IsWhite
    <3>1. \/ gcstate = "swpallgc" /\ list[p] \in {"finobj", "tobefnz"}
          \/ gcstate = "swpfinobj" /\ list[p] = "tobefnz"
      BY <1>1 DEF NextSweep, IInv, MarkedAreSwept
    <3> QED
      BY <3>1 DEF NextSweep, InList
  <2> QED
    BY <2>1, <2>2 DEF MarkedAreSwept
<1> QED
  BY <1>1, <1>2, <1>3, PhaseKeeps

\* The end of a cycle.
LEMMA EndCycleKeeps ==
    ASSUME IInv, TypeOK', EndCycle
    PROVE  IInv'
<1>1. /\ UNCHANGED <<list, entry, home, twups, currentwhite, color, tosweep>>
      /\ gcstate = "callfin" /\ gcstate' = "pause" /\ ~KeepInvariant' /\ ~KeepInvariant
  BY DEF EndCycle, heap, marks, KeepInvariant
<1>2. \A p \in Obj : Allocated(p) => ~IsDead(p)
  BY <1>1 DEF IInv, DeadAreSwept
<1>3. MarkedAreSwept'
  BY <1>1 DEF IInv, MarkedAreSwept, IsSweepPhase, Allocated, IsWhite
<1> QED
  BY <1>1, <1>2, <1>3, PhaseKeeps

\* The invariant says nothing of `full', `gcemergency' and `finalizing'.
LEMMA SameState ==
    ASSUME IInv, TypeOK',
           UNCHANGED <<heap, marks, locals, currentwhite, gcstate, atomicstep, tosweep>>
    PROVE  IInv'
<1> USE DEF heap, marks, locals
<1>d. \A p \in Obj : IsDead(p)' <=> IsDead(p)
  BY DEF IsDead, OtherWhite
<1>1. /\ HeapShape' /\ FreedIsUnlinked' /\ NoDangling' /\ Live' = Live
      /\ \A p : Allocated(p)' <=> Allocated(p)
      /\ \A p : Refs(p)' = Refs(p)
  BY <1>d, HeapKept
<1>2. DeadAreSwept' /\ MarkedAreSwept'
  BY <1>1, <1>d DEF IInv, DeadAreSwept, MarkedAreSwept, IsSweepPhase, KeepInvariant, IsWhite
<1>3. TriColor' /\ GrayListed' /\ OneList' /\ MarkLists'
  BY <1>1 DEF IInv, TriColor, GrayListed, OneList, MarkLists, KeepInvariant, IsWhite, IsBlack, IsGray, GrayLists
<1>4. AtomicLists'
  <2>1. \A t \in Obj : OpenEntries(t)' = OpenEntries(t)
    BY DEF OpenEntries, IsCleared, IsWhite
  <2> QED
    BY <1>1, <2>1 DEF IInv, TypeOK, Domains, AtomicLists, Resurrected, Converged, Converging, IsWhite
<1>5. UpvalLists'
  BY <1>1, <1>d DEF IInv, UpvalLists, IsWhite, IsBlack, IsGray
<1> QED
  BY <1>1, <1>2, <1>3, <1>4, <1>5 DEF IInv

\* A mark phase that luaC_fullgc gives up is swept from the first object.
LEMMA FullGCKeeps ==
    ASSUME IInv, TypeOK', NEW e, FullGC(e)
    PROVE  IInv'
<1>1. CASE ~KeepInvariant
  BY <1>1, SameState DEF FullGC
<1>2. CASE KeepInvariant
  <2>1. /\ UNCHANGED <<list, entry, home, twups, currentwhite, color>>
        /\ gcstate # "atomic" /\ gcstate' = "swpallgc" /\ ~KeepInvariant'
        /\ tosweep' = InList("allgc")
    BY <1>2 DEF FullGC, heap, marks, KeepInvariant, IInv, TypeOK, Phases
  <2>2. \A p \in Obj : Allocated(p) => ~IsDead(p)
    BY <1>2, WhileMarking
  <2>3. MarkedAreSwept'
    BY <2>1 DEF MarkedAreSwept, InList, Allocated, IInv, TypeOK, Domains
  <2> QED
    BY <2>1, <2>2, <2>3, PhaseKeeps
<1> QED
  BY <1>1, <1>2

-----------------------------------------------------------------------------
(* The invariant.                                                          *)

\* The steps of singlestep.
LEMMA CollectorKeeps ==
    ASSUME IInv, TypeOK', SingleStep, UNCHANGED finalizing
    PROVE  IInv'
<1>a. CASE Start
  BY <1>a, StartKeeps
<1>b. CASE Propagate
  BY <1>b, PropagateKeeps DEF Propagate
<1>c. CASE EndPropagate
  BY <1>c, EndPropagateKeeps
<1>d. CASE EnterAtomic
  BY <1>d, EnterAtomicKeeps
<1>e. CASE AtomicPropagate
  BY <1>e, PropagateKeeps DEF AtomicPropagate
<1>f. CASE RemarkUpvals
  BY <1>f, RemarkUpvalsKeeps
<1>g. CASE VisitAgain
  BY <1>g, VisitAgainKeeps
<1>h. CASE Converge("again", "converge")
  <2>1. gcstate = "atomic" /\ atomicstep = "again" /\ round = {}
    BY <1>h DEF Converge, Step, IInv, TypeOK, Phases, Converging
  <2> QED
    BY <1>h, <2>1, ConvergeKeeps
<1>i. CASE Converge("resurrect", "reconverge")
  <2>1. gcstate = "atomic" /\ atomicstep = "resurrect" /\ round = {}
    BY <1>i DEF Converge, Step, IInv, TypeOK, Phases, Converging
  <2> QED
    BY <1>i, <2>1, ConvergeKeeps
<1>j. CASE \E t \in round : ConvergeTable(t)
  BY <1>j, ConvergeTableKeeps
<1>k. CASE EndRound
  BY <1>k, EndRoundKeeps
<1>l. CASE Separate
  BY <1>l, SeparateKeeps
<1>m. CASE Flip
  BY <1>m, FlipKeeps
<1>n. CASE \E o \in tosweep : SweepOne(o)
  <2>1. PICK o \in tosweep : SweepOne(o)
    BY <1>n
  <2>2. o \in Obj
    BY DEF IInv, TypeOK, Domains
  <2> QED
    BY <2>1, <2>2, SweepDeadKeeps, SweepLiveKeeps
<1>o. CASE NextSweep
  BY <1>o, NextSweepKeeps
<1>p. CASE EndCycle
  BY <1>p, EndCycleKeeps
<1> QED
  BY <1>a, <1>b, <1>c, <1>d, <1>e, <1>f, <1>g, <1>h, <1>i, <1>j, <1>k, <1>l, <1>m, <1>n, <1>o, <1>p
  DEF SingleStep, Atomic

\* The state that lua_newstate leaves.
LEMMA InitInvariant ==
    ASSUME Init
    PROVE  IInv
<1> USE ConstantsAssumption
<1>1. TypeOK
  BY InitTypes
<1>i. /\ \A o \in Obj : list[o] = IF o = Main THEN "allgc" ELSE "free"
      /\ \A o \in Obj : entry[o] = {} /\ home[o] = NC /\ color[o] = "white0"
      /\ OtherWhite = "white1" /\ gcstate = "pause" /\ atomicstep = "none"
      /\ twups = {} /\ ~KeepInvariant /\ ~IsSweepPhase
  BY DEF Init, OtherWhite, KeepInvariant, IsSweepPhase
<1>2. \A o \in Obj : ~IsDead(o) /\ IsWhite(o)
  BY <1>i DEF IsDead, IsWhite, Whites
<1>3. HeapShape /\ FreedIsUnlinked
  BY <1>i, <1>2 DEF HeapShape, FreedIsUnlinked
<1>4. NoDangling
  <2>1. \A o \in Obj : \A x : ~RefersTo(o, x)
    BY <1>i DEF RefersTo, Ref
  <2> QED
    BY <2>1, RefersMeaning DEF NoDangling, Live
<1>5. DeadAreSwept /\ MarkedAreSwept
  BY <1>i, <1>2 DEF DeadAreSwept, MarkedAreSwept
<1>6. TriColor /\ GrayListed /\ OneList /\ MarkLists /\ AtomicLists /\ UpvalLists
  BY <1>i DEF TriColor, GrayListed, OneList, MarkLists, AtomicLists, UpvalLists, Live
<1> QED
  BY <1>1, <1>3, <1>4, <1>5, <1>6 DEF IInv

\* All steps.
LEMMA StepInvariant ==
    ASSUME IInv, [Next]_vars
    PROVE  IInv'
<1>t. TypeOK'
  BY StepTypes DEF IInv
<1>1. CASE Mutator
  BY <1>1, <1>t, MutatorKeeps
<1>2. CASE SingleStep /\ UNCHANGED finalizing
  BY <1>2, <1>t, CollectorKeeps
<1>3. CASE \E e \in FullKinds : FullGC(e)
  BY <1>3, <1>t, FullGCKeeps
<1>4. CASE \E o \in Obj : CallFinalizer(o)
  BY <1>4, <1>t, CallFinalizerKeeps
<1>5. CASE FinalizerReturns
  BY <1>5, <1>t, FinalizerReturnsKeeps
<1>6. CASE UNCHANGED vars
  BY <1>6, <1>t, SameState DEF vars, control
<1> QED
  BY <1>1, <1>2, <1>3, <1>4, <1>5, <1>6 DEF Next, Collector

\* The inductive invariant holds in every state of the collector and its program.
THEOREM Inductive == Spec => []IInv
<1>1. Init => IInv
  BY InitInvariant
<1>2. IInv /\ [Next]_vars => IInv'
  BY StepInvariant
<1> QED
  BY <1>1, <1>2, PTL DEF Spec

\* No object that is neither free nor condemned refers to one that is: nothing
\* that the program can still reach is freed, with any number of objects,
\* threads, weak tables, finalizers and full collections.
THEOREM Safe == Spec => []NoDangling
<1>1. IInv => NoDangling
  BY DEF IInv
<1> QED
  BY <1>1, Inductive, PTL

\* The barriers keep the main invariant of lgc.h: while marking, no black object
\* refers to a white one.
THEOREM BarriersKeepTriColor == Spec => []TriColor
<1>1. IInv => TriColor
  BY DEF IInv
<1> QED
  BY <1>1, Inductive, PTL

\* While marking, the gray objects are the members of the gray lists and the open
\* upvalues: no object waits for a visit that will not come.
THEOREM GrayAreListed == Spec => []GrayListed
<1>1. IInv => GrayListed
  BY DEF IInv
<1> QED
  BY <1>1, Inductive, PTL

\* The assertion of luaC_barrier_: a cycle ends with every object white again.
THEOREM CyclesEndWhite == Spec => []WhiteBetweenCycles
<1>1. ASSUME IInv PROVE WhiteBetweenCycles
  <2> SUFFICES ASSUME gcstate \in {"callfin", "pause"}, NEW o \in Obj, Allocated(o)
               PROVE  color[o] = currentwhite
    BY DEF WhiteBetweenCycles
  <2>1. ~KeepInvariant /\ ~IsSweepPhase /\ gcstate \notin {"swpallgc", "swpfinobj"}
    BY DEF KeepInvariant, IsSweepPhase
  <2>2. tosweep = {}
    BY <2>1, <1>1 DEF IInv, TypeOK, Phases
  <2>3. IsWhite(o)
    BY <2>1, <2>2, <1>1 DEF IInv, MarkedAreSwept
  <2>4. ~IsDead(o)
    BY <2>1, <1>1 DEF IInv, DeadAreSwept
  <2> QED
    BY <2>3, <2>4, <1>1 DEF IsWhite, IsDead, OtherWhite, Whites, IInv, TypeOK, Domains
<1> QED
  BY <1>1, Inductive, PTL

\* freeobj: a freed object is linked by nothing, and no open upvalue refers to the stack of a
\* freed thread.
THEOREM FreedObjectsUnlinked == Spec => []FreedIsUnlinked
<1>1. IInv => FreedIsUnlinked
  BY DEF IInv
<1> QED
  BY <1>1, Inductive, PTL

\* remarkupvals finds every live thread with open upvalues in twups, and no dead one.
THEOREM TwupsComplete == Spec => []UpvalsHaveThread
<1>1. ASSUME IInv PROVE UpvalsHaveThread
  <2>1. twups \subseteq {o \in Obj : Allocated(o)}
    BY <1>1 DEF IInv, UpvalLists
  <2> QED
    BY <2>1, <1>1 DEF IInv, UpvalLists, UpvalsHaveThread
<1> QED
  BY <1>1, Inductive, PTL

\* An open upvalue that survives keeps its value, also when its thread is collected.
THEOREM UpvalsKeepValues == Spec => []OpenUpvalValues
<1>1. ASSUME IInv PROVE OpenUpvalValues
  <2>1. \A u \in Live : Values(entry, u) \subseteq Live
    BY <1>1 DEF IInv, NoDangling, Refs
  <2> QED
    BY <2>1 DEF OpenUpvalValues
<1> QED
  BY <1>1, Inductive, PTL

-----------------------------------------------------------------------------
(* Reachability.                                                           *)

\* What it is for o to hold x, where the members of S are held.
Holds(md, ent, hm, S, o, x) ==
    /\ Ref(ent, hm, o, x)
    /\ \/ md[o] = "strong"
       \/ Kind[x] = "string"
       \/ md[o] = "weakvalue" /\ \E e \in ent[o] : e[1] = x /\ x # NC
       \/ md[o] = "ephemeron" /\ \E e \in ent[o] :
             e[2] = x /\ (e[1] \in S \cup {NC} \/ Kind[e[1]] = "string")
Holding(S, o, x) == Holds(mode, entry, home, S, o, x)

\* Held, as a set, and Holding, one reference at a time, agree.
LEMMA HeldMeaning ==
    ASSUME IInv, NEW S, NEW o \in Obj, NEW x
    PROVE  x \in Held(S, o) <=> Holding(S, o, x)
<1>m. mode[o] \in {"strong", "weakvalue", "ephemeron", "allweak"}
  BY ConstantsAssumption DEF IInv, TypeOK, Domains
<1>r. x \in Refs(o) <=> RefersTo(o, x)
  BY RefersMeaning
<1>1. CASE mode[o] = "strong"
  BY <1>1, <1>r DEF Held, Holding, Holds, RefersTo
<1>2. CASE mode[o] = "weakvalue"
  <2>1. x \in Keys(entry, o) <=> x # NC /\ \E e \in entry[o] : e[1] = x
    BY DEF Keys
  <2>2. x \in Keys(entry, o) => x \in Refs(o)
    BY DEF Refs
  <2>3. x \in Held(S, o) <=> x \in Keys(entry, o) \/ (x \in Refs(o) /\ Kind[x] = "string")
    BY <1>2 DEF Held, NeverWeak
  <2> QED
    BY <1>2, <1>r, <2>1, <2>2, <2>3 DEF Holding, Holds, RefersTo
<1>3. CASE mode[o] = "ephemeron"
  <2>1. x \in {e[2] : e \in HeldEntries(S, o)} \ {NC} <=>
          x # NC /\ \E e \in entry[o] : e[2] = x /\ (e[1] \in S \cup {NC} \/ Kind[e[1]] = "string")
    BY DEF HeldEntries
  <2>2. x \in {e[2] : e \in HeldEntries(S, o)} \ {NC} => x \in Refs(o)
    BY DEF HeldEntries, Refs, Values
  <2>3. x \in Held(S, o) <=> x \in {e[2] : e \in HeldEntries(S, o)} \ {NC}
                             \/ (x \in Refs(o) /\ Kind[x] = "string")
    BY <1>3 DEF Held, NeverWeak
  <2>4. x \in Refs(o) => x # NC
    BY RefTypes, ConstantsAssumption DEF IInv, TypeOK, Domains, Refs
  <2> QED
    BY <1>3, <1>r, <2>1, <2>2, <2>3, <2>4 DEF Holding, Holds, RefersTo
<1>4. CASE mode[o] = "allweak"
  BY <1>4, <1>r DEF Held, NeverWeak, Holding, Holds, RefersTo
<1> QED
  BY <1>m, <1>1, <1>2, <1>3, <1>4

Roots == {Main} \cup InList("tobefnz")

\* ToSurvive holds the roots and what its members hold; it is alive; and it is within
\* every set that has the roots and what those members hold that are in both.
Least ==
    /\ Roots \subseteq ToSurvive /\ ToSurvive \subseteq Live
    /\ \A o \in ToSurvive : \A x : Holding(ToSurvive, o, x) => x \in ToSurvive
    /\ \A C : /\ Roots \subseteq C
              /\ \A o \in C \cap ToSurvive : \A x \in ToSurvive :
                    Holding(C \cap ToSurvive, o, x) => x \in C
              => ToSurvive \subseteq C

LEMMA SurvivorsLeast == IInv => Least
<1> SUFFICES ASSUME IInv PROVE Least
  OBVIOUS
<1> USE ConstantsAssumption
<1> DEFINE heap0 == {o \in Obj : Allocated(o)}
           closed == {S \in SUBSET heap0 : Roots \subseteq S /\ Closed(S)}
           R == ToSurvive
<1>1. R = {o \in Obj : \A S \in closed : o \in S}
  BY DEF ToSurvive, Reach, Roots
<1>h. \A S, o, x : o \in Obj => (x \in Held(S, o) <=> Holding(S, o, x))
  BY HeldMeaning
<1>m. \A S, T, o, x : Holding(S, o, x) /\ S \subseteq T => Holding(T, o, x)
  BY DEF Holding, Holds
<1>d. \A S, o, x : o \in Live /\ Holding(S, o, x) => x \in Live
  BY RefersMeaning DEF IInv, NoDangling, Holding, Holds, RefersTo
<1>r. Roots \subseteq Live
  BY DEF Roots, InList, Live, Allocated, IInv, HeapShape, DeadAreSwept
<1>2. Live \in closed
  <2>1. Closed(Live)
    BY <1>h, <1>d DEF Closed, Live
  <2> QED
    BY <1>r, <2>1 DEF Live
<1> HIDE DEF R
<1>3. Roots \subseteq R /\ R \subseteq Live
  BY <1>1, <1>2, <1>r DEF Live
<1>4. \A o \in R : \A x : Holding(R, o, x) => x \in R
  <2> SUFFICES ASSUME NEW o \in R, NEW x, Holding(R, o, x) PROVE x \in R
    OBVIOUS
  <2>1. ASSUME NEW S \in closed PROVE x \in S
    <3>1. R \subseteq S /\ o \in Obj
      BY <1>1
    <3>2. x \in Held(S, o)
      BY <3>1, <1>h, <1>m
    <3> QED
      BY <3>1, <3>2 DEF Closed
  <2>2. x \in Obj
    BY <2>1, <1>2
  <2> QED
    BY <1>1, <2>1, <2>2
<1>5. ASSUME NEW C, Roots \subseteq C,
             \A o \in C \cap R : \A x \in R : Holding(C \cap R, o, x) => x \in C
      PROVE  R \subseteq C
  <2>1. \A o \in C \cap R : \A x : Holding(C \cap R, o, x) => x \in C \cap R
    BY <1>4, <1>5, <1>m
  <2>2. C \cap R \subseteq heap0 /\ Roots \subseteq C \cap R
    BY <1>3, <1>5 DEF Live
  <2>3. Closed(C \cap R)
    BY <2>1, <2>2, <1>h DEF Closed
  <2> QED
    BY <1>1, <2>2, <2>3
<1> QED
  BY <1>3, <1>4, <1>5 DEF Least, R

LEMMA SurvivorsLeastNext == IInv' => Least'
<1>1. (IInv => Least)'
  BY SurvivorsLeast, PTL
<1> QED
  BY <1>1

\* A step that leaves the heap alone leaves what survives alone.
LEMMA SameSurvivors ==
    ASSUME UNCHANGED heap
    PROVE  /\ ToSurvive' = ToSurvive
           /\ \A S, o, x : Holding(S, o, x)' <=> Holding(S, o, x)
           /\ \A o : Allocated(o)' <=> Allocated(o)
<1>1. UNCHANGED <<list, entry, mode, home>>
  BY DEF heap
<1>2. \A o : Refs(o)' = Refs(o)
  BY <1>1 DEF Refs, OpenUpvals
<1>3. \A S, o : Held(S, o)' = Held(S, o)
  BY <1>1, <1>2 DEF Held, HeldEntries
<1>4. \A S : Closed(S)' <=> Closed(S)
  BY <1>3 DEF Closed
<1> QED
  BY <1>1, <1>4 DEF ToSurvive, Reach, InList, Allocated, Holding

-----------------------------------------------------------------------------
(* What a full collection adds to the invariant: nothing else runs, so the *)
(* modes of the listed tables stay what they were, and no mark leaves the  *)
(* objects that survive.                                                   *)

Marked == {o \in Obj : ~IsWhite(o)}
Collecting == full = "collect" /\ KeepInvariant
NoWeakValues == \A o \in Marked : Allocated(o) => mode[o] # "weakvalue"

WeakAreTables == \A o \in Obj : mode[o] # "strong" => Kind[o] = "table"
FinalizerAlone == finalizing # NC => gcstate = "callfin"
ListModes ==
    Collecting =>
        /\ \A t \in weak : mode[t] = "weakvalue"
        /\ \A t \in ephemeron \cup round : mode[t] = "ephemeron"
        /\ \A t \in allweak : \/ mode[t] = "allweak"
                              \/ mode[t] = "ephemeron" /\ Values(entry, t) \subseteq Marked
RootsMarked == Collecting => InList("tobefnz") \subseteq Marked
MarkedReached ==
    Collecting /\ (Resurrected => NoWeakValues) =>
        \A o \in Marked : Allocated(o) /\ (Resurrected => Kind[o] # "string") => o \in ToSurvive
SweptReached ==
    full = "collect" /\ IsSweepPhase /\ (\A o \in Live : mode[o] # "weakvalue") =>
        \A o \in Live : Kind[o] # "string" => o \in ToSurvive
Exact == ListModes /\ RootsMarked /\ MarkedReached /\ SweptReached
EInv == WeakAreTables /\ FinalizerAlone /\ Exact

\* Only a full collection that is marking or sweeping is concerned.
LEMMA NotCollecting ==
    ASSUME full' # "collect" \/ (~KeepInvariant' /\ ~IsSweepPhase')
    PROVE  Exact'
  BY DEF Exact, Collecting, ListModes, RootsMarked, MarkedReached, SweptReached

\* Marking objects that survive marks only objects that survive.
LEMMA MarkedFrom ==
    ASSUME IInv, WeakAreTables, NEW col, NEW S \in SUBSET Obj, S \subseteq ToSurvive,
           color' = ReallyMark(col, entry, home, S),
           \A p \in Obj : col[p] \notin Whites => color[p] \notin Whites
    PROVE  \A p \in Obj : color'[p] \notin Whites => color[p] \notin Whites \/ p \in ToSurvive
<1>l. \A o \in ToSurvive : \A x : Holding(ToSurvive, o, x) => x \in ToSurvive
  BY SurvivorsLeast DEF Least
<1>1. \A u \in S : Kind[u] = "upval" => Values(entry, u) \subseteq ToSurvive
  <2> SUFFICES ASSUME NEW u \in S, Kind[u] = "upval", NEW v \in Values(entry, u) PROVE v \in ToSurvive
    OBVIOUS
  <2>1. mode[u] = "strong" /\ Ref(entry, home, u, v)
    BY DEF WeakAreTables, Ref, Values
  <2> QED
    BY <1>l, <2>1 DEF Holding, Holds
<1>2. Touched(col, entry, S) \subseteq ToSurvive
  BY <1>1 DEF Touched, WhiteIn, Contents
<1>3. \A p \in Obj : color'[p] = IF p \in Touched(col, entry, S) THEN MarkedAs(home, p) ELSE col[p]
  BY DEF ReallyMark
<1> QED
  BY <1>2, <1>3

\* A visit that marks what the object holds, and lists it by its mode.
VisitExact(o, S, dest) ==
    /\ Visit(o, S, dest) /\ S \subseteq Refs(o)
    /\ \A x \in S : Holding(Marked, o, x)
    /\ dest = "weak" => mode[o] = "weakvalue"
    /\ dest = "ephemeron" => mode[o] = "ephemeron"
    /\ dest = "allweak" => \/ mode[o] = "allweak"
                           \/ mode[o] = "ephemeron" /\ Values(entry, o) \subseteq Marked'

LEMMA ExactVisitKeeps ==
    ASSUME IInv, IInv', EInv, UNCHANGED heap, UNCHANGED <<gcstate, atomicstep, full>>,
           KeepInvariant, NEW o \in gray \cup round, NEW S, NEW dest, VisitExact(o, S, dest),
           round' \subseteq round
    PROVE  Exact'
<1> USE ConstantsAssumption
<1>k. /\ Collecting' <=> Collecting
      /\ Resurrected' <=> Resurrected
      /\ ~IsSweepPhase' /\ mode' = mode /\ entry' = entry /\ home' = home /\ list' = list
  BY DEF Collecting, KeepInvariant, Resurrected, IsSweepPhase, heap
<1>h. /\ ToSurvive' = ToSurvive
      /\ \A p : Allocated(p)' <=> Allocated(p)
  BY SameSurvivors
<1>w. /\ \A p \in Obj : Allocated(p) => \A r \in Refs(p) : r \in Obj /\ Allocated(r)
      /\ o \in Obj /\ Allocated(o) /\ IsGray(o) /\ Kind[o] \notin LeafKinds
  BY WhileMarking DEF GrayLists
<1>s. S \in SUBSET Obj /\ Domains /\ Visit(o, S, dest)
  BY <1>w DEF VisitExact, IInv, TypeOK
<1>v. \A p \in Obj : color[p] \notin Whites => color'[p] \notin Whites
  BY <1>s, <1>w, VisitMarks
<1>m. Marked \subseteq Marked' /\ \A p \in Obj : p \in Marked' <=> color'[p] \notin Whites
  BY <1>v DEF Marked, IsWhite
<1>n. NoWeakValues' => NoWeakValues
  BY <1>k, <1>h, <1>m DEF NoWeakValues
<1>1. ListModes'
  <2> SUFFICES ASSUME Collecting PROVE ListModes'
    BY <1>k DEF ListModes
  <2>1. /\ weak' = weak \cup {x \in {o} : dest = "weak"}
        /\ allweak' = allweak \cup {x \in {o} : dest = "allweak"}
        /\ ephemeron' = ephemeron \cup {x \in {o} : dest = "ephemeron"}
    BY <1>s DEF Visit
  <2>2. /\ \A t \in weak' : mode[t] = "weakvalue"
        /\ \A t \in ephemeron' \cup round' : mode[t] = "ephemeron"
    BY <2>1 DEF EInv, Exact, ListModes, VisitExact
  <2>3. \A t \in allweak' : \/ mode[t] = "allweak"
                            \/ mode[t] = "ephemeron" /\ Values(entry, t) \subseteq Marked'
    BY <2>1, <1>m DEF EInv, Exact, ListModes, VisitExact
  <2> QED
    BY <1>k, <2>2, <2>3 DEF ListModes, Values
<1>2. RootsMarked'
  BY <1>k, <1>m DEF EInv, Exact, RootsMarked, InList
<1>3. MarkedReached'
  <2> SUFFICES ASSUME Collecting, Resurrected => NoWeakValues,
                      NEW p \in Obj, color'[p] \notin Whites, Allocated(p), Resurrected => Kind[p] # "string"
               PROVE  p \in ToSurvive
    BY <1>k, <1>h, <1>m, <1>n DEF MarkedReached, Marked
  <2>r. \A q \in Marked : Allocated(q) /\ (Resurrected => Kind[q] # "string") => q \in ToSurvive
    BY DEF EInv, Exact, MarkedReached
  <2>1. o \in ToSurvive
    BY <2>r, <1>w DEF Marked, IsWhite, IsGray, LeafKinds, Whites
  <2>2. \A x \in S : Holding(ToSurvive, o, x)
    <3> SUFFICES ASSUME NEW x \in S PROVE Holding(ToSurvive, o, x)
      OBVIOUS
    <3>1. Holding(Marked, o, x)
      BY DEF VisitExact
    <3>2. \A e \in entry[o] : e[1] \in Marked => e[1] \in ToSurvive \/ Kind[e[1]] = "string"
      <4> SUFFICES ASSUME NEW e \in entry[o], e[1] \in Marked, Kind[e[1]] # "string" PROVE e[1] \in ToSurvive
        OBVIOUS
      <4>1. e[1] \in Keys(entry, o)
        BY DEF Keys, Marked
      <4>2. Allocated(e[1])
        BY <4>1, <1>w DEF Refs
      <4> QED
        BY <4>2, <2>r
    <3> QED
      BY <3>1, <3>2 DEF Holding, Holds
  <2>3. S \subseteq ToSurvive
    BY <2>1, <2>2, SurvivorsLeast DEF Least
  <2> DEFINE col == [color EXCEPT ![o] = IF dest = "none" THEN "black" ELSE "gray"]
  <2>4. color' = ReallyMark(col, entry, home, S)
    BY <1>s DEF Visit
  <2>5. \A q \in Obj : col[q] \notin Whites => color[q] \notin Whites
    BY <1>w, <1>s DEF IsGray, Whites, Domains
  <2>6. color[p] \notin Whites \/ p \in ToSurvive
    <3> HIDE DEF col
    <3> QED BY <2>3, <2>4, <2>5, <1>s, MarkedFrom DEF EInv
  <2> QED
    BY <2>6, <2>r DEF Marked, IsWhite
<1>4. SweptReached'
  BY <1>k DEF SweptReached
<1> QED
  BY <1>1, <1>2, <1>3, <1>4 DEF Exact

\* The visit of a table with weak keys marks what it holds.
LEMMA EphemeronExact ==
    ASSUME IInv, NEW o \in Obj, Kind[o] = "table", mode[o] = "ephemeron",
           Visit(o, EphemeronMarks(o), EphemeronList(o))
    PROVE  VisitExact(o, EphemeronMarks(o), EphemeronList(o))
<1> USE ConstantsAssumption
<1> DEFINE S == EphemeronMarks(o)
           dest == EphemeronList(o)
<1>r. /\ Refs(o) = Values(entry, o) \cup Keys(entry, o)
      /\ Values(entry, o) \subseteq Obj /\ Keys(entry, o) \subseteq Obj
      /\ \A e \in entry[o] : e[1] \in Val /\ e[2] \in Val
  BY RefsByKind DEF IInv, TypeOK, Domains
<1>1. S \subseteq Refs(o)
  BY <1>r DEF EphemeronMarks, OpenEntries, StringsIn, Values
<1>o. \A e \in OpenEntries(o) : e \in entry[o] /\ (e[1] \in Marked \cup {NC} \/ Kind[e[1]] = "string")
  BY <1>r DEF OpenEntries, IsCleared, Marked, Val
<1>2. \A x \in S : Holding(Marked, o, x)
  <2> SUFFICES ASSUME NEW x \in S PROVE Holding(Marked, o, x)
    OBVIOUS
  <2>1. Ref(entry, home, o, x)
    BY <1>1, RefersMeaning DEF RefersTo
  <2>2. CASE x \in StringsIn(Keys(entry, o))
    BY <2>1, <2>2 DEF StringsIn, Holding, Holds
  <2>3. CASE \E e \in OpenEntries(o) : x = e[2]
    BY <2>1, <2>3, <1>o DEF Holding, Holds
  <2> QED
    BY <2>2, <2>3 DEF EphemeronMarks
<1>3. dest # "weak"
  BY DEF EphemeronList
<1>4. dest = "allweak" => Values(entry, o) \subseteq Marked'
  <2> SUFFICES ASSUME dest = "allweak", NEW v \in Values(entry, o) PROVE v \in Marked'
    OBVIOUS
  <2>v. /\ \A p \in S : color'[p] \notin Whites
        /\ \A p \in Obj : color[p] \notin Whites => color'[p] \notin Whites
    <3> HIDE DEF S, dest
    <3> QED BY <1>1, <1>r, VisitMarks DEF IInv, TypeOK, S, dest
  <2>1. PICK e \in entry[o] : v = e[2] /\ v # NC
    BY DEF Values
  <2>2. CASE e \in OpenEntries(o)
    BY <2>v, <2>1, <2>2, <1>r DEF EphemeronMarks, Marked, IsWhite
  <2>3. CASE e \in ShutEntries(o)
    <3>1. ~IsWhite(e[2])
      BY <2>3 DEF EphemeronList
    <3> QED
      BY <2>v, <2>1, <3>1, <1>r DEF Marked, IsWhite
  <2> QED
    BY <2>2, <2>3 DEF ShutEntries
<1> QED
  BY <1>1, <1>2, <1>3, <1>4 DEF VisitExact

\* So do the other visits.
LEMMA PropagateExact ==
    ASSUME IInv, IInv', EInv, PropagateMark, gcstate \in {"propagate", "atomic"},
           UNCHANGED <<heap, locals, control>>
    PROVE  Exact'
<1> USE ConstantsAssumption
<1>1. PICK o \in gray :
            \/ VisitStrong(o) \/ VisitThread(o) \/ VisitWeakValue(o)
            \/ VisitEphemeron(o) \/ VisitAllWeak(o)
  BY DEF PropagateMark
<1>k. KeepInvariant /\ UNCHANGED heap /\ UNCHANGED <<gcstate, atomicstep, full>> /\ round' = round
  BY DEF KeepInvariant, control, locals
<1>o. o \in Obj
  BY DEF IInv, TypeOK, Domains
<1>r. /\ Kind[o] # "thread" => Refs(o) = Values(entry, o) \cup Keys(entry, o)
      /\ Values(entry, o) \subseteq Obj /\ Keys(entry, o) \subseteq Obj
      /\ Refs(o) = OnStack(o) \cup OpenUpvals(home, o) \cup Keys(entry, o)
  BY <1>o, RefsByKind
<1>h. \A x \in Refs(o) : /\ mode[o] = "strong" => Holding(Marked, o, x)
                         /\ Kind[x] = "string" => Holding(Marked, o, x)
                         /\ mode[o] = "weakvalue" /\ x \in Keys(entry, o) => Holding(Marked, o, x)
  BY RefersMeaning DEF RefersTo, Holding, Holds, Keys
<1>2. \E S, dest : VisitExact(o, S, dest)
  <2>a. CASE VisitStrong(o)
    <3> DEFINE S == Values(entry, o) \cup Keys(entry, o)
    <3>1. Visit(o, S, "none") /\ S \subseteq Refs(o)
      BY <2>a DEF VisitStrong, Refs
    <3>2. mode[o] = "strong"
      BY <2>a, <1>o DEF VisitStrong, EInv, WeakAreTables
    <3> HIDE DEF S
    <3>3. VisitExact(o, S, "none")
      BY <3>1, <3>2, <1>h DEF VisitExact
    <3> QED
      BY <3>3
  <2>b. CASE VisitThread(o)
    <3> DEFINE S == OnStack(o) \cup OpenUpvals(home, o)
               dest == IF gcstate = "propagate" THEN "grayagain" ELSE "none"
    <3>1. Visit(o, S, dest) /\ S \subseteq Refs(o) /\ dest \in {"grayagain", "none"}
      BY <2>b, <1>r DEF VisitThread
    <3>2. mode[o] = "strong"
      BY <2>b, <1>o DEF VisitThread, EInv, WeakAreTables
    <3> HIDE DEF S, dest
    <3>3. VisitExact(o, S, dest)
      BY <3>1, <3>2, <1>h DEF VisitExact
    <3> QED
      BY <3>3
  <2>c. CASE VisitWeakValue(o)
    <3> DEFINE clears == (\E e \in entry[o] : e[1] = NC) \/ \E v \in Values(entry, o) : IsCleared(v)
               dest == IF gcstate = "atomic" /\ clears THEN "weak" ELSE "grayagain"
    <3>1. PICK read \in SUBSET StringsIn(Values(entry, o)) : Visit(o, Keys(entry, o) \cup read, dest)
      BY <2>c DEF VisitWeakValue
    <3> DEFINE S == Keys(entry, o) \cup read
    <3>2. S \subseteq Refs(o) /\ dest \in {"weak", "grayagain"} /\ mode[o] = "weakvalue"
      BY <2>c, <3>1 DEF VisitWeakValue, StringsIn, Refs
    <3>3. \A x \in S : x \in Keys(entry, o) \/ Kind[x] = "string"
      BY DEF StringsIn
    <3>4. Visit(o, S, dest)
      BY <3>1
    <3> HIDE DEF S, dest
    <3>5. VisitExact(o, S, dest)
      BY <3>2, <3>3, <3>4, <1>h DEF VisitExact
    <3> QED
      BY <3>5
  <2>d. CASE VisitEphemeron(o)
    BY <2>d, <1>o, EphemeronExact DEF VisitEphemeron
  <2>e. CASE VisitAllWeak(o)
    <3>1. VisitExact(o, {}, "allweak")
      BY <2>e DEF VisitAllWeak, VisitExact
    <3> QED
      BY <3>1
  <2> QED
    BY <1>1, <2>a, <2>b, <2>c, <2>d, <2>e
<1> QED
  BY <1>2, <1>k, ExactVisitKeeps

\* And the visits of convergeephemerons.
LEMMA ConvergeTableExact ==
    ASSUME IInv, IInv', EInv, NEW t \in round, ConvergeTable(t)
    PROVE  Exact'
<1>k. /\ gcstate = "atomic" /\ KeepInvariant /\ KeepInvariant'
      /\ UNCHANGED heap /\ UNCHANGED <<gcstate, atomicstep, full>> /\ round' \subseteq round
  BY DEF ConvergeTable, Converging, control, KeepInvariant, IInv, TypeOK, Phases
<1>1. CASE full = "collect"
  <2>1. t \in Obj /\ Kind[t] = "table" /\ mode[t] = "ephemeron"
    BY <1>1, <1>k DEF IInv, TypeOK, Domains, MarkLists, EInv, Exact, ListModes, Collecting
  <2>2. VisitExact(t, EphemeronMarks(t), EphemeronList(t))
    BY <2>1, EphemeronExact DEF ConvergeTable
  <2> QED
    BY <2>2, <1>k, ExactVisitKeeps
<1>2. CASE full # "collect"
  BY <1>2, <1>k, NotCollecting
<1> QED
  BY <1>1, <1>2

\* A step that changes neither the heap nor the colours, nor lists a table.
LEMMA SameExact ==
    ASSUME IInv, EInv, UNCHANGED heap, UNCHANGED <<color, currentwhite, full>>,
           KeepInvariant' => KeepInvariant, Resurrected' <=> Resurrected,
           IsSweepPhase' => IsSweepPhase,
           weak' \subseteq weak, allweak' \subseteq allweak,
           ephemeron' \cup round' \subseteq ephemeron \cup round
    PROVE  Exact'
<1>h. /\ ToSurvive' = ToSurvive
      /\ \A p : Allocated(p)' <=> Allocated(p)
      /\ UNCHANGED <<list, entry, mode, home>>
  BY SameSurvivors DEF heap
<1>m. Marked' = Marked /\ (Collecting' => Collecting) /\ (NoWeakValues' <=> NoWeakValues) /\ Live' = Live
  BY <1>h DEF Marked, IsWhite, Collecting, NoWeakValues, Live, IsDead, OtherWhite
<1>1. ListModes'
  <2>1. \A t : Values(entry, t)' = Values(entry, t)
    BY <1>h
  <2> QED
    BY <1>h, <1>m, <2>1 DEF EInv, Exact, ListModes
<1>2. RootsMarked'
  BY <1>h, <1>m DEF EInv, Exact, RootsMarked, InList
<1>3. MarkedReached'
  BY <1>h, <1>m DEF EInv, Exact, MarkedReached
<1>4. SweptReached'
  BY <1>h, <1>m DEF EInv, Exact, SweptReached
<1> QED
  BY <1>1, <1>2, <1>3, <1>4 DEF Exact

\* Roots are marked: at the start, when `atomic' begins, and for open upvalues.
LEMMA RootsExact ==
    ASSUME IInv, EInv, UNCHANGED heap, NEW S \in SUBSET Obj, S \subseteq ToSurvive,
           color' = ReallyMark(color, entry, home, S),
           ~Resurrected', ~IsSweepPhase', ~Resurrected,
           Collecting' => \/ Collecting /\ UNCHANGED <<weak, allweak, ephemeron, round>>
                          \/ /\ \A o \in Obj : Allocated(o) => IsWhite(o)
                             /\ InList("tobefnz") \subseteq S
                             /\ weak' = {} /\ allweak' = {} /\ ephemeron' = {} /\ round' = {}
    PROVE  Exact'
<1> USE ConstantsAssumption
<1>h. /\ ToSurvive' = ToSurvive
      /\ \A p : Allocated(p)' <=> Allocated(p)
      /\ UNCHANGED <<list, entry, mode, home>>
      /\ InList("tobefnz")' = InList("tobefnz")
  BY SameSurvivors DEF heap, InList
<1>f. /\ \A p \in Obj : color'[p] \notin Whites => color[p] \notin Whites \/ p \in ToSurvive
      /\ \A p \in Obj : color[p] \notin Whites => color'[p] \notin Whites
      /\ \A p \in S : color'[p] \notin Whites
  <2>1. \A p \in Obj : color'[p] \notin Whites => color[p] \notin Whites \/ p \in ToSurvive
    <3>1. PICK col : col = color
      OBVIOUS
    <3>2. color' = ReallyMark(col, entry, home, S)
      BY <3>1
    <3>3. \A p \in Obj : col[p] \notin Whites => color[p] \notin Whites
      BY <3>1
    <3> QED
      BY <3>2, <3>3, MarkedFrom DEF EInv
  <2>2. \A p \in Obj : color'[p] = IF p \in Touched(color, entry, S) THEN MarkedAs(home, p) ELSE color[p]
    BY DEF ReallyMark
  <2>3. \A p \in Obj : MarkedAs(home, p) \notin Whites
    BY DEF MarkedAs, Whites
  <2>4. \A p \in S : p \in Touched(color, entry, S) \/ color[p] \notin Whites
    BY DEF Touched, WhiteIn
  <2> QED
    BY <2>1, <2>2, <2>3, <2>4
<1>m. /\ Marked \subseteq Marked'
      /\ \A p \in Marked' : p \in Marked \/ p \in ToSurvive
      /\ S \subseteq Marked'
  BY <1>f DEF Marked, IsWhite
<1>1. ListModes'
  <2> SUFFICES ASSUME Collecting' PROVE ListModes'
    BY DEF ListModes
  <2>1. \A t : Values(entry, t)' = Values(entry, t)
    BY <1>h
  <2>2. CASE weak' = {} /\ allweak' = {} /\ ephemeron' = {} /\ round' = {}
    BY <2>2 DEF ListModes
  <2>3. CASE Collecting /\ UNCHANGED <<weak, allweak, ephemeron, round>>
    <3>1. \A t \in allweak : mode[t] = "allweak" \/ (mode[t] = "ephemeron" /\ Values(entry, t) \subseteq Marked')
      BY <2>3, <1>m DEF EInv, Exact, ListModes
    <3> QED
      BY <2>1, <2>3, <3>1, <1>h DEF EInv, Exact, ListModes
  <2> QED
    BY <2>2, <2>3
<1>2. RootsMarked'
  BY <1>h, <1>m DEF EInv, Exact, RootsMarked
<1>3. MarkedReached'
  <2> SUFFICES ASSUME Collecting', NEW p \in Marked', Allocated(p) PROVE p \in ToSurvive
    BY <1>h DEF MarkedReached
  <2>1. CASE Collecting
    BY <2>1, <1>m DEF EInv, Exact, MarkedReached
  <2>2. CASE \A o \in Obj : Allocated(o) => IsWhite(o)
    BY <2>2, <1>m DEF Marked
  <2> QED
    BY <2>1, <2>2
<1>4. SweptReached'
  BY DEF SweptReached
<1> QED
  BY <1>1, <1>2, <1>3, <1>4 DEF Exact

\* restartcollection
LEMMA StartExact ==
    ASSUME IInv, EInv, Start
    PROVE  Exact'
<1>p. /\ gcstate = "pause" /\ gcstate' = "propagate" /\ atomicstep = "none" /\ atomicstep' = "none"
      /\ round' = {}
  BY DEF Start, IInv, TypeOK, Phases, locals, Converging
<1>a. \A p \in Obj : Allocated(p) => IsWhite(p)
  BY <1>p DEF IInv, MarkedAreSwept, KeepInvariant, IsSweepPhase, TypeOK, Phases
<1>s. Roots \in SUBSET Obj /\ Roots \subseteq ToSurvive /\ InList("tobefnz") \subseteq Roots
  BY SurvivorsLeast, ConstantsAssumption DEF Least, Roots, InList
<1>1. /\ UNCHANGED heap /\ color' = ReallyMark(color, entry, home, Roots)
      /\ weak' = {} /\ allweak' = {} /\ ephemeron' = {}
  BY DEF Start, Roots
<1>2. ~Resurrected' /\ ~IsSweepPhase' /\ ~Resurrected
  BY <1>p DEF Resurrected, IsSweepPhase
<1> QED
  BY <1>p, <1>a, <1>s, <1>1, <1>2, RootsExact

\* The first lines of atomic.
LEMMA EnterAtomicExact ==
    ASSUME IInv, EInv, EnterAtomic
    PROVE  Exact'
<1>p. gcstate = "enteratomic" /\ gcstate' = "atomic" /\ atomicstep = "none" /\ atomicstep' = "marked"
  BY DEF EnterAtomic, IInv, TypeOK, Phases
<1>s. {Main} \in SUBSET Obj /\ {Main} \subseteq ToSurvive
  BY SurvivorsLeast, ConstantsAssumption DEF Least, Roots
<1>1. /\ UNCHANGED heap /\ color' = ReallyMark(color, entry, home, {Main})
      /\ UNCHANGED <<weak, allweak, ephemeron, round, full>>
  BY DEF EnterAtomic
<1>2. ~Resurrected' /\ ~IsSweepPhase' /\ ~Resurrected /\ (Collecting' => Collecting)
  BY <1>p, <1>1 DEF Resurrected, IsSweepPhase, Collecting, KeepInvariant
<1> QED
  BY <1>s, <1>1, <1>2, RootsExact

\* remarkupvals marks only the values of upvalues that are marked.
LEMMA RemarkUpvalsExact ==
    ASSUME IInv, EInv, RemarkUpvals
    PROVE  Exact'
<1> USE ConstantsAssumption
<1> DEFINE keep == {th \in twups : ~IsWhite(th) /\ OpenUpvals(home, th) # {}}
           S == RemarkedValues(twups \ keep)
<1>p. /\ gcstate = "atomic" /\ gcstate' = "atomic" /\ atomicstep = "marked" /\ atomicstep' = "remarked"
      /\ UNCHANGED heap /\ color' = ReallyMark(color, entry, home, S)
      /\ UNCHANGED <<weak, allweak, ephemeron, round, full>>
  BY DEF RemarkUpvals, Step, IInv, TypeOK, Phases, locals
<1>2. ~Resurrected' /\ ~IsSweepPhase' /\ ~Resurrected /\ (Collecting' => Collecting)
  BY <1>p DEF Resurrected, IsSweepPhase, Collecting, KeepInvariant
<1>3. CASE full # "collect"
  BY <1>p, <1>3, <1>2, NotCollecting
<1>4. CASE full = "collect"
  <2>1. S \in SUBSET Obj
    BY RefTypes DEF IInv, TypeOK, Domains, RemarkedValues
  <2>2. S \subseteq ToSurvive
    <3> SUFFICES ASSUME NEW v \in S PROVE v \in ToSurvive
      OBVIOUS
    <3>1. PICK u \in Obj : home[u] \in twups /\ ~IsWhite(u) /\ v \in Values(entry, u)
      BY DEF RemarkedValues, Contents
    <3>2. home[u] # NC /\ Allocated(u)
      BY <3>1 DEF IInv, TypeOK, Domains, FreedIsUnlinked
    <3>3. u \in ToSurvive
      BY <1>p, <1>4, <1>2, <3>1, <3>2 DEF EInv, Exact, MarkedReached, Collecting, KeepInvariant, Marked
    <3>4. mode[u] = "strong"
      BY <3>2 DEF IInv, HeapShape, EInv, WeakAreTables
    <3>5. Holding(ToSurvive, u, v)
      BY <3>1, <3>4 DEF Holding, Holds, Ref, Values
    <3> QED
      BY <3>3, <3>5, SurvivorsLeast DEF Least
  <2>3. Collecting
    BY <1>4, <1>p DEF Collecting, KeepInvariant
  <2> HIDE DEF S
  <2> QED
    BY <2>1, <2>2, <2>3, <1>p, <1>2, RootsExact
<1> QED
  BY <1>3, <1>4

-----------------------------------------------------------------------------
(* When the gray lists are paid, all that survives is marked.              *)

\* Strings refer to nothing, and only their values are referred to by upvalues.
LEMMA LeafRefs ==
    ASSUME IInv, NEW o \in Obj, NEW x, Ref(entry, home, o, x)
    PROVE  /\ Kind[o] # "string"
           /\ Kind[o] = "upval" => x \in Values(entry, o)
           /\ x \in Obj /\ x \in Refs(o)
<1> USE ConstantsAssumption
<1>1. \A u \in Obj : home[u] = o => Kind[o] = "thread"
  BY DEF IInv, FreedIsUnlinked
<1>2. \A e \in entry[o] : Kind[o] # "string" /\ (e[1] # NC => Kind[o] = "table")
  BY DEF IInv, HeapShape
<1>3. x \in Obj
  BY RefsTyped DEF IInv, TypeOK, Domains
<1>4. x \in Refs(o)
  BY RefersMeaning DEF RefersTo
<1> QED
  BY <1>1, <1>2, <1>3, <1>4 DEF Ref, Values

\* Nothing is forgotten: what is marked is closed, but for strings.
LEMMA AllMarked ==
    ASSUME IInv, EInv, full = "collect", atomicstep \in {"separate", "clear"}
    PROVE  \A o \in ToSurvive : Kind[o] # "string" => o \in Marked
<1> USE ConstantsAssumption
<1> DEFINE C == {o \in Obj : o \in Marked \/ Kind[o] = "string"}
           R == ToSurvive
<1>k. /\ gcstate = "atomic" /\ KeepInvariant /\ Collecting /\ Converged /\ atomicstep # "marked"
      /\ gray = {} /\ saved = {} /\ round = {}
  BY DEF IInv, TypeOK, Phases, KeepInvariant, Collecting, Converged, Converging, AtomicLists
<1>l. Roots \subseteq R /\ R \subseteq Live
  BY SurvivorsLeast DEF Least
<1>1. Roots \subseteq C
  BY <1>k DEF Roots, IInv, MarkLists, Marked, EInv, Exact, RootsMarked
<1>2. ASSUME NEW o \in C \cap R, NEW x \in R, Holding(C \cap R, o, x), Kind[x] # "string"
      PROVE  x \in Marked
  <2>0. /\ Ref(entry, home, o, x) /\ x \in Obj /\ x \in Refs(o) /\ o \in Marked /\ Allocated(o)
        /\ Kind[o] = "upval" => x \in Values(entry, o)
    BY <1>2, <1>l, LeafRefs DEF Holding, Holds, Live
  <2>a. \A r \in Obj : ~IsWhite(r) => r \in Marked
    BY DEF Marked
  <2>c. IsBlack(o) \/ IsGray(o)
    BY <2>0 DEF Marked, IsWhite, IsBlack, IsGray, IInv, TypeOK, Domains
  <2>1. CASE IsBlack(o)
    BY <2>0, <2>1, <2>a, <1>k DEF IInv, TriColor
  <2>2. CASE o \in grayagain
    BY <2>0, <2>2, <2>a, <1>k DEF IInv, AtomicLists
  <2>3. CASE o \in weak
    <3>1. mode[o] = "weakvalue"
      BY <2>3, <1>k DEF EInv, Exact, ListModes
    <3>2. x \in Keys(entry, o)
      BY <3>1, <1>2 DEF Holding, Holds, Keys
    <3> QED
      BY <2>0, <2>3, <2>a, <3>2, <1>k DEF IInv, AtomicLists
  <2>4. CASE o \in allweak
    <3>1. mode[o] = "ephemeron" /\ Values(entry, o) \subseteq Marked
      BY <2>4, <1>2, <1>k DEF EInv, Exact, ListModes, Holding, Holds
    <3>2. x \in Values(entry, o)
      BY <2>0, <3>1, <1>2 DEF Holding, Holds, Values
    <3> QED
      BY <3>1, <3>2
  <2>5. CASE o \in ephemeron
    <3>1. mode[o] = "ephemeron"
      BY <2>5, <1>k DEF EInv, Exact, ListModes
    <3>2. PICK e \in entry[o] : e[2] = x /\ (e[1] \in (C \cap R) \cup {NC} \/ Kind[e[1]] = "string")
      BY <3>1, <1>2 DEF Holding, Holds
    <3>3. ~IsCleared(e[1])
      BY <3>2 DEF IsCleared, Marked, IsWhite
    <3>4. e \in OpenEntries(o)
      BY <3>2, <3>3 DEF OpenEntries
    <3> QED
      BY <2>5, <2>0, <2>a, <3>2, <3>4, <1>k DEF IInv, AtomicLists
  <2>6. CASE Kind[o] = "upval" /\ home[o] # NC /\ IsGray(o)
    <3>1. o \in Live
      BY <1>l
    <3>2. \A v \in Values(entry, o) : ~IsWhite(v)
      BY <2>6, <3>1, <1>k DEF IInv, UpvalLists
    <3> QED
      BY <2>0, <2>6, <2>a, <3>2
  <2>7. IsGray(o) => o \in GrayLists \/ (Kind[o] = "upval" /\ home[o] # NC)
    BY <2>0, <1>k DEF IInv, GrayListed
  <2> QED
    BY <2>c, <2>1, <2>2, <2>3, <2>4, <2>5, <2>6, <2>7, <1>k DEF GrayLists
<1>3. \A o \in C \cap R : \A x \in R : Holding(C \cap R, o, x) => x \in C
  BY <1>2, <1>l DEF Live
<1>4. R \subseteq C
  <2> HIDE DEF C
  <2> QED
    BY <1>1, <1>3, SurvivorsLeast DEF Least
<1> QED
  BY <1>4

\* The least set is kept, but for strings, when every reference within it is.
LEMMA SurvivorsKept ==
    ASSUME IInv, IInv', Roots \subseteq Roots',
           \A o \in ToSurvive : \A x \in ToSurvive : \A S, T :
              /\ Holding(S, o, x) /\ Kind[o] # "string" /\ Kind[x] # "string"
              /\ S \subseteq ToSurvive
              /\ \A y \in S : y \in T \/ Kind[y] = "string"
              => Holds(mode', entry', home', T, o, x)
    PROVE  \A o \in ToSurvive : Kind[o] # "string" => o \in ToSurvive'
<1> DEFINE C == ToSurvive' \cup {o \in Obj : Kind[o] = "string"}
<1>l. /\ Roots' \subseteq ToSurvive'
      /\ \A o \in ToSurvive' : \A x : Holds(mode', entry', home', ToSurvive', o, x) => x \in ToSurvive'
  BY SurvivorsLeastNext DEF Least, Holding
<1>1. Roots \subseteq C
  BY <1>l
<1>2. \A o \in C \cap ToSurvive : \A x \in ToSurvive : Holding(C \cap ToSurvive, o, x) => x \in C
  <2> SUFFICES ASSUME NEW o \in C \cap ToSurvive, NEW x \in ToSurvive,
                      Holding(C \cap ToSurvive, o, x), Kind[x] # "string"
               PROVE  x \in ToSurvive'
    BY SurvivorsLeast DEF Least, Live
  <2>1. Kind[o] # "string"
    BY LeafRefs, SurvivorsLeast DEF Holding, Holds, Least, Live
  <2>2. \A y \in C \cap ToSurvive : y \in ToSurvive' \/ Kind[y] = "string"
    OBVIOUS
  <2>3. Holds(mode', entry', home', ToSurvive', o, x)
    BY <2>1, <2>2
  <2> QED
    BY <2>1, <2>3, <1>l
<1>3. ToSurvive \subseteq C
  <2> HIDE DEF C
  <2> QED
    BY <1>1, <1>2, SurvivorsLeast DEF Least
<1> QED
  BY <1>3

-----------------------------------------------------------------------------
(* Weak tables lose nothing that leads to what survives.                   *)

\* An entry that is kept, and the entries of strong objects, still hold.
LEMMA KeptHolds ==
    ASSUME IInv, UNCHANGED <<mode, home>>,
           NEW o \in Obj, NEW x, NEW S, NEW T, Holding(S, o, x), Kind[x] # "string",
           \A y \in S : y \in T \/ Kind[y] = "string",
           \A p \in Obj : Kind[p] # "table" \/ mode[p] = "strong" => entry'[p] = entry[p],
           mode[o] # "weakvalue",
           \A e \in entry[o] : /\ mode[o] = "ephemeron" /\ e[2] = x
                               /\ e[1] \in S \cup {NC} \/ Kind[e[1]] = "string"
                               => e \in entry'[o]
    PROVE  Holds(mode', entry', home', T, o, x)
<1> USE ConstantsAssumption
<1>1. CASE mode[o] = "strong"
  <2>1. Ref(entry', home, o, x)
    BY <1>1 DEF Holding, Holds, Ref
  <2> QED
    BY <2>1, <1>1 DEF Holds
<1>2. CASE mode[o] = "ephemeron"
  <2>1. PICK e \in entry[o] : e[2] = x /\ (e[1] \in S \cup {NC} \/ Kind[e[1]] = "string")
    BY <1>2 DEF Holding, Holds
  <2>2. e \in entry'[o] /\ (e[1] \in T \cup {NC} \/ Kind[e[1]] = "string")
    BY <2>1, <1>2
  <2>3. x # NC
    BY LeafRefs DEF Holding, Holds
  <2> QED
    BY <2>1, <2>2, <2>3, <1>2 DEF Holds, Ref
<1> QED
  BY <1>1, <1>2 DEF Holding, Holds

\* The objects to be finalized come back after the weak values are cleared.
LEMMA SeparateExact ==
    ASSUME IInv, IInv', EInv, Separate
    PROVE  Exact'
<1> USE ConstantsAssumption
<1> DEFINE tables == weak \cup allweak
           col == ClearedMarks(color, entry, tables, 2)
           dying == {o \in InList("finobj") : IsWhite(o)}
           roots == InList("tobefnz") \cup dying
<1>k. /\ gcstate = "atomic" /\ gcstate' = "atomic" /\ atomicstep = "separate" /\ atomicstep' = "resurrect"
      /\ KeepInvariant /\ KeepInvariant' /\ Resurrected' /\ ~Resurrected /\ ~IsSweepPhase'
      /\ UNCHANGED <<mode, home, weak, allweak, ephemeron, round, full, currentwhite>>
  BY DEF Separate, Step, IInv, TypeOK, Phases, KeepInvariant, Resurrected, IsSweepPhase
<1>0. CASE full # "collect"
  BY <1>0, <1>k, NotCollecting
<1>z. CASE full = "collect"
  <2>c. Collecting /\ Collecting'
    BY <1>z, <1>k DEF Collecting
  <2>t. color \in [Obj -> Colors] /\ entry \in [Obj -> SUBSET (Val \X Val)]
    BY DEF IInv, TypeOK, Domains, Colors
  <2>u. /\ entry' = ClearedEntries(entry, tables, 2)
        /\ \A p \in Obj : list'[p] = IF p \in dying THEN "tobefnz" ELSE list[p]
        /\ color' = ReallyMark(col, entry', home, roots)
    BY DEF Separate, Step
  <2>e. /\ \A p \in Obj : \A e : e \in entry'[p] <=> e \in entry[p] /\ (p \in tables => ~IsCleared(e[2]))
        /\ \A p \in Obj : col[p] = color[p] \/ (Kind[p] = "string" /\ color[p] \in Whites /\ col[p] = "black")
    <3> HIDE DEF tables
    <3> QED
      BY <2>t, <2>u, ClearFacts
  <2>s. /\ roots \in SUBSET Obj /\ roots \subseteq Roots'
        /\ \A p \in roots : Kind[p] # "upval"
        /\ Roots \subseteq Roots'
    BY <2>u DEF InList, Roots, IInv, HeapShape
  <2>a. \A p \in Obj : Allocated(p)' <=> Allocated(p)
    BY <2>u DEF Allocated, InList
  <2> HIDE DEF col
  <2>m. /\ \A p \in Obj : color[p] \notin Whites => color'[p] \notin Whites
        /\ \A p \in Obj : color'[p] \notin Whites => p \in roots \/ col[p] \notin Whites
    <3>1. Touched(col, entry', roots) \subseteq roots
      BY <2>s DEF Touched, WhiteIn, Contents
    <3>2. \A p \in Obj : color'[p] = IF p \in Touched(col, entry', roots) THEN MarkedAs(home, p) ELSE col[p]
      BY <2>u DEF ReallyMark
    <3>3. \A p \in Obj : MarkedAs(home, p) \notin Whites
      BY DEF MarkedAs, Whites
    <3>4. "black" \notin Whites
      BY DEF Whites
    <3> QED
      BY <2>e, <3>1, <3>2, <3>3, <3>4
  <2>n. Marked \subseteq Marked'
    BY <2>m DEF Marked, IsWhite
  <2>1. ListModes'
    <3>1. \A t \in allweak : Values(entry', t) \subseteq Values(entry, t)
      BY <2>e DEF Values, IInv, TypeOK, Domains
    <3> QED
      BY <1>k, <2>c, <2>n, <3>1 DEF EInv, Exact, ListModes, Values
  <2>2. RootsMarked'
    BY <1>k DEF IInv, AtomicLists, RootsMarked, InList, Marked
  <2>3. MarkedReached'
    <3> SUFFICES ASSUME NoWeakValues', NEW p \in Marked', Allocated(p), Kind[p] # "string"
                 PROVE  p \in ToSurvive'
      BY <1>k, <2>a DEF MarkedReached, Marked
    <3>w. \A q \in Marked : Allocated(q) => mode[q] # "weakvalue"
      BY <1>k, <2>n, <2>a DEF NoWeakValues, Marked
    <3>1. \A q \in ToSurvive : Kind[q] # "string" => q \in ToSurvive'
      <4>1. ASSUME NEW o \in ToSurvive, NEW x \in ToSurvive, NEW S, NEW T,
                   Holding(S, o, x), Kind[o] # "string", Kind[x] # "string",
                   S \subseteq ToSurvive, \A y \in S : y \in T \/ Kind[y] = "string"
            PROVE  Holds(mode', entry', home', T, o, x)
        <5>o. o \in Obj /\ Allocated(o) /\ o \in Marked
          BY <1>k, <1>z, <4>1, AllMarked, SurvivorsLeast DEF Least, Live
        <5>1. mode[o] # "weakvalue"
          BY <5>o, <3>w
        <5>2. \A q \in tables : Kind[q] = "table" /\ mode[q] # "strong"
          BY <1>k, <2>c DEF IInv, MarkLists, EInv, Exact, ListModes
        <5>3. \A q \in Obj : Kind[q] # "table" \/ mode[q] = "strong" => entry'[q] = entry[q]
          <6> SUFFICES ASSUME NEW q \in Obj, q \notin tables PROVE entry'[q] = entry[q]
            BY <5>2
          <6>1. \A e : e \in entry'[q] <=> e \in entry[q]
            BY <2>e
          <6> QED
            BY <6>1, <2>t, <2>u DEF ClearedEntries
        <5>4. \A e \in entry[o] : mode[o] = "ephemeron" => e \in entry'[o]
          <6> SUFFICES ASSUME NEW e \in entry[o], mode[o] = "ephemeron", o \in tables
                       PROVE  ~IsCleared(e[2])
            BY <5>o, <2>e
          <6>1. Values(entry, o) \subseteq Marked
            BY <2>c DEF EInv, Exact, ListModes
          <6> QED
            BY <6>1 DEF Values, IsCleared, Marked, IsWhite
        <5> QED
          BY <1>k, <4>1, <5>o, <5>1, <5>3, <5>4, KeptHolds
      <4> QED
        BY <2>s, <4>1, SurvivorsKept
    <3>2. CASE p \in roots
      BY <2>s, <3>2, SurvivorsLeastNext DEF Least
    <3>3. CASE p \in Marked
      BY <1>k, <2>c, <3>1, <3>3 DEF EInv, Exact, MarkedReached
    <3>4. p \in roots \/ p \in Marked
      BY <2>m, <2>e DEF Marked, IsWhite
    <3> QED
      BY <3>2, <3>3, <3>4
  <2>4. SweptReached'
    BY <1>k DEF SweptReached
  <2> QED
    BY <2>1, <2>2, <2>3, <2>4 DEF Exact
<1> QED
  BY <1>0, <1>z

\* The whites are exchanged: what is not marked is condemned.
LEMMA FlipExact ==
    ASSUME IInv, IInv', EInv, Flip
    PROVE  Exact'
<1> USE ConstantsAssumption
<1> DEFINE byKey == ephemeron \cup allweak
           byValue == (weak \ origweak) \cup (allweak \ origall)
           kept == ClearedEntries(entry, byKey, 1)
           mid == ClearedMarks(color, entry, byKey, 1)
<1>k. /\ gcstate = "atomic" /\ gcstate' = "swpallgc" /\ atomicstep = "clear"
      /\ KeepInvariant /\ ~KeepInvariant' /\ Resurrected
      /\ UNCHANGED <<list, mode, home, full>> /\ currentwhite' = OtherWhite
  BY DEF Flip, IInv, TypeOK, Phases, KeepInvariant, Resurrected
<1>v. ListModes' /\ RootsMarked' /\ MarkedReached'
  BY <1>k DEF ListModes, RootsMarked, MarkedReached, Collecting
<1> SUFFICES ASSUME full = "collect", \A q \in Live' : mode[q] # "weakvalue",
                    NEW p \in Live', Kind[p] # "string"
             PROVE  p \in ToSurvive'
  BY <1>k, <1>v DEF Exact, SweptReached
<1>c. Collecting
  BY <1>k DEF Collecting
<1>t. color \in [Obj -> Colors] /\ entry \in [Obj -> SUBSET (Val \X Val)] /\ currentwhite \in Whites
  BY DEF IInv, TypeOK, Domains, Colors
<1>u. /\ entry' = ClearedEntries(kept, byValue, 2)
      /\ color' = ClearedMarks(mid, kept, byValue, 2)
  BY DEF Flip
<1>c1. /\ kept \in [Obj -> SUBSET (Val \X Val)]
       /\ \A q \in Obj : \A e : e \in kept[q] <=> e \in entry[q] /\ (q \in byKey => ~IsCleared(e[1]))
       /\ mid \in [Obj -> Colors]
       /\ \A q \in Obj : mid[q] = color[q] \/ (Kind[q] = "string" /\ color[q] \in Whites /\ mid[q] = "black")
  <2> HIDE DEF byKey
  <2> QED
    BY <1>t, ClearFacts
<1> HIDE DEF kept, mid
<1>c2. /\ entry' \in [Obj -> SUBSET (Val \X Val)]
       /\ \A q \in Obj : \A e : e \in entry'[q] <=> e \in kept[q] /\ (q \in byValue => ~IsCleared(e[2]))
       /\ \A q \in Obj : color'[q] = mid[q] \/ (Kind[q] = "string" /\ mid[q] \in Whites /\ color'[q] = "black")
  <2> HIDE DEF byValue
  <2> QED
    BY <1>c1, <1>u, ClearFacts
<1>e. /\ \A q \in Obj : \A e : e \in entry'[q] <=> /\ e \in entry[q]
                                                   /\ q \in byKey => ~IsCleared(e[1])
                                                   /\ q \in byValue => ~IsCleared(e[2])
      /\ \A q \in Obj : Kind[q] # "string" => color'[q] = color[q]
  BY <1>c1, <1>c2
<1>l. \A q \in Obj : Kind[q] # "string" /\ Allocated(q) => (q \in Live' <=> q \in Marked)
  <2>1. OtherWhite' = currentwhite /\ Whites = {currentwhite, OtherWhite} /\ currentwhite # OtherWhite
    BY <1>k, <1>t DEF OtherWhite, Whites
  <2>2. \A q \in Obj : Allocated(q) => color[q] # OtherWhite
    BY <1>k, WhileMarking DEF IsDead
  <2> QED
    BY <1>k, <1>e, <2>1, <2>2 DEF Live, Allocated, IsDead, Marked, IsWhite
<1>w. \A q \in Marked : Allocated(q) => mode[q] # "weakvalue"
  <2> SUFFICES ASSUME NEW q \in Marked, Allocated(q), mode[q] = "weakvalue" PROVE FALSE
    OBVIOUS
  <2>1. Kind[q] # "string"
    BY DEF Marked, EInv, WeakAreTables
  <2> QED
    BY <2>1, <1>l DEF Marked
<1>1. p \in Obj /\ Allocated(p) /\ p \in Marked
  BY <1>k, <1>l DEF Live, Allocated
<1>2. p \in ToSurvive
  BY <1>1, <1>c, <1>k, <1>w DEF EInv, Exact, MarkedReached, NoWeakValues
<1>3. \A q \in ToSurvive : Kind[q] # "string" => q \in ToSurvive'
  <2>m. \A q \in ToSurvive : q \in Obj /\ Allocated(q) /\ (Kind[q] # "string" => q \in Marked)
    BY <1>k, AllMarked, SurvivorsLeast DEF Least, Live
  <2>1. ASSUME NEW o \in ToSurvive, NEW x \in ToSurvive, NEW S, NEW T,
               Holding(S, o, x), Kind[o] # "string", Kind[x] # "string",
               S \subseteq ToSurvive, \A y \in S : y \in T \/ Kind[y] = "string"
        PROVE  Holds(mode', entry', home', T, o, x)
    <3>1. mode[o] # "weakvalue"
      BY <2>m, <2>1, <1>w
    <3>2. \A q \in weak \cup byKey : Kind[q] = "table" /\ mode[q] # "strong"
      BY <1>k, <1>c DEF IInv, MarkLists, EInv, Exact, ListModes
    <3>3. \A q \in Obj : Kind[q] # "table" \/ mode[q] = "strong" => entry'[q] = entry[q]
      <4> SUFFICES ASSUME NEW q \in Obj, q \notin weak \cup byKey PROVE entry'[q] = entry[q]
        BY <3>2
      <4>1. \A e : e \in entry'[q] <=> e \in entry[q]
        BY <1>e
      <4> QED
        BY <4>1, <1>t, <1>c2
    <3>4. \A e \in entry[o] : /\ mode[o] = "ephemeron" /\ e[2] = x
                              /\ e[1] \in S \cup {NC} \/ Kind[e[1]] = "string"
                              => e \in entry'[o]
      <4> SUFFICES ASSUME NEW e \in entry[o], e[2] = x, e[1] \in S \cup {NC} \/ Kind[e[1]] = "string"
                   PROVE  e \in entry'[o]
        OBVIOUS
      <4>1. ~IsCleared(e[2])
        BY <2>m, <2>1 DEF IsCleared, Marked
      <4>2. ~IsCleared(e[1])
        BY <2>m, <2>1 DEF IsCleared, Marked, IsWhite
      <4> QED
        BY <1>e, <2>m, <4>1, <4>2
    <3> QED
      BY <1>k, <2>m, <2>1, <3>1, <3>3, <3>4, KeptHolds
  <2>2. Roots \subseteq Roots'
    BY <1>k DEF Roots, InList
  <2> QED
    BY <2>1, <2>2, SurvivorsKept
<1> QED
  BY <1>2, <1>3

-----------------------------------------------------------------------------
(* The sweep frees what does not survive, and nothing that leads to it.    *)

\* A dead object.
LEMMA FreeExact ==
    ASSUME IInv, IInv', EInv, IsSweepPhase, NEW o \in Obj, Allocated(o), IsDead(o), Free(o),
           UNCHANGED <<full, gcstate, currentwhite>>
    PROVE  Exact'
<1> USE ConstantsAssumption
<1>k. ~KeepInvariant'
  BY DEF IsSweepPhase, KeepInvariant
<1>v. ListModes' /\ RootsMarked' /\ MarkedReached'
  BY <1>k DEF ListModes, RootsMarked, MarkedReached, Collecting
<1>t. /\ list \in [Obj -> {"free", "allgc", "finobj", "tobefnz"}] /\ entry \in [Obj -> SUBSET (Val \X Val)]
      /\ mode \in [Obj -> Modes] /\ color \in [Obj -> Colors] /\ currentwhite \in Whites
  BY DEF IInv, TypeOK, Domains, Colors
<1>u. \A p \in Obj : p # o => /\ list'[p] = list[p] /\ entry'[p] = entry[p] /\ mode'[p] = mode[p]
                              /\ home'[p] = IF home[p] = o THEN NC ELSE home[p]
  BY <1>t DEF Free, HomeWithout
<1>d. list[o] = "allgc" /\ o \notin Live
  BY DEF IInv, DeadAreSwept, Live
<1>l. \A p \in Live' : p \in Live /\ p # o /\ mode'[p] = mode[p]
  <2> SUFFICES ASSUME NEW p \in Live' PROVE p \in Live /\ p # o
    BY <1>u, <1>d DEF Live
  <2>1. p # o
    BY <1>t DEF Live, Allocated, Free
  <2>2. color'[p] = color[p] \/ color[p] \notin Whites
    BY <2>1 DEF Free, Live, IsWhite, OpenUpvals
  <2>3. OtherWhite' = OtherWhite /\ OtherWhite \in Whites
    BY DEF OtherWhite, Whites
  <2> QED
    BY <2>1, <2>2, <2>3, <1>u DEF Live, Allocated, IsDead
<1>1. \A p \in ToSurvive : Kind[p] # "string" => p \in ToSurvive'
  <2>l. \A p \in ToSurvive : p \in Obj /\ p # o /\ p \in Live
    BY <1>d, SurvivorsLeast DEF Least, Live
  <2>1. ASSUME NEW p \in ToSurvive, NEW x \in ToSurvive, NEW S, NEW T,
               Holding(S, p, x), Kind[x] # "string",
               \A y \in S : y \in T \/ Kind[y] = "string"
        PROVE  Holds(mode', entry', home', T, p, x)
    <3>1. mode'[p] = mode[p] /\ entry'[p] = entry[p]
      BY <2>l, <1>u
    <3>2. \A u \in Obj : Kind[u] = "upval" /\ home[u] = p => u # o
      <4> SUFFICES ASSUME NEW u \in Obj, Kind[u] = "upval", home[u] = p PROVE u \in Live
        BY <1>d
      <4>1. Ref(entry, home, p, u)
        BY DEF Ref
      <4> QED
        BY <2>l, <4>1, LeafRefs DEF IInv, NoDangling
    <3>3. \A u \in Obj : Kind[u] = "upval" /\ home[u] = p => home'[u] = p /\ entry'[u] = entry[u]
      BY <3>2, <2>l, <1>u
    <3>4. Ref(entry', home', p, x)
      BY <2>1, <3>1, <3>3 DEF Holding, Holds, Ref
    <3> QED
      BY <2>1, <3>1, <3>4 DEF Holding, Holds
  <2>2. Roots \subseteq Roots'
    BY <1>d, <1>u DEF Roots, InList
  <2> QED
    BY <2>1, <2>2, SurvivorsKept
<1>2. SweptReached'
  <2> SUFFICES ASSUME full = "collect", \A q \in Live' : mode'[q] # "weakvalue",
                      NEW p \in Live', Kind[p] # "string"
               PROVE  p \in ToSurvive'
    BY DEF SweptReached
  <2>1. CASE \A q \in Live : mode[q] # "weakvalue"
    BY <2>1, <1>1, <1>l DEF EInv, Exact, SweptReached
  <2>2. CASE \E q \in Live : mode[q] = "weakvalue"
    <3>1. PICK q \in Live : mode[q] = "weakvalue"
      BY <2>2
    <3>2. q \in Obj /\ q # o /\ Kind[q] # "upval" /\ list'[q] = list[q] /\ mode'[q] = "weakvalue"
      BY <3>1, <1>d, <1>u DEF Live, EInv, WeakAreTables
    <3>3. color'[q] = color[q]
      BY <3>2 DEF Free, OpenUpvals
    <3>4. q \in Live'
      BY <3>2, <3>3 DEF Live, Allocated, IsDead, OtherWhite
    <3> QED
      BY <3>2, <3>4
  <2> QED
    BY <2>1, <2>2
<1> QED
  BY <1>v, <1>2 DEF Exact

\* One object of a list.
LEMMA SweepExact ==
    ASSUME IInv, IInv', EInv, NEW o \in tosweep, SweepOne(o)
    PROVE  Exact'
<1>o. o \in Obj /\ Allocated(o) /\ IsSweepPhase /\ UNCHANGED <<full, gcstate, currentwhite>>
  BY DEF SweepOne, IInv, TypeOK, Domains, MarkedAreSwept
<1>1. CASE IsDead(o)
  BY <1>o, <1>1, FreeExact DEF SweepOne
<1>2. CASE ~IsDead(o)
  <2>1. UNCHANGED heap /\ color' = [color EXCEPT ![o] = currentwhite]
    BY <1>2 DEF SweepOne
  <2>2. ToSurvive' = ToSurvive /\ (\A p : Allocated(p)' <=> Allocated(p)) /\ mode' = mode
    BY <2>1, SameSurvivors DEF heap
  <2>3. Live' = Live
    <3>1. OtherWhite' = OtherWhite /\ currentwhite # OtherWhite
      BY <1>o DEF OtherWhite, IInv, TypeOK, Domains, Whites
    <3>2. \A p \in Obj : color'[p] = IF p = o THEN currentwhite ELSE color[p]
      BY <2>1 DEF IInv, TypeOK, Domains
    <3> QED
      BY <2>2, <1>2, <3>1, <3>2 DEF Live, IsDead
  <2>4. SweptReached'
    BY <1>o, <2>2, <2>3 DEF EInv, Exact, SweptReached
  <2>5. ~KeepInvariant'
    BY <1>o DEF IsSweepPhase, KeepInvariant
  <2> QED
    BY <2>4, <2>5 DEF Exact, ListModes, RootsMarked, MarkedReached, Collecting
<1> QED
  BY <1>1, <1>2

-----------------------------------------------------------------------------
(* All steps.                                                              *)

\* Only tables are ever weak, and a finalizer runs between two cycles.
LEMMA WeakKept ==
    ASSUME IInv, EInv, [Next]_vars
    PROVE  WeakAreTables' /\ FinalizerAlone'
<1> USE ConstantsAssumption
<1>t. mode \in [Obj -> Modes]
  BY DEF IInv, TypeOK, Domains
<1>1. CASE Mutator
  <2>1. mode' = mode \/ \E t \in Weakable, m \in Modes : mode' = [mode EXCEPT ![t] = m]
    <3>1. PICK th \in Threads :
              \/ \E o \in Obj : New(th, o) \/ Intern(th, o)
              \/ \E o \in OnStack(th), v \in Obj : Load(th, o, v)
              \/ \E v \in OnStack(th) : Pop(th, v)
              \/ \E t, v \in OnStack(th), k \in OnStack(th) \cup {NC} : SetTable(t, k, v)
              \/ \E t \in OnStack(th) : \E e \in entry[t] : ClearEntry(t, e)
              \/ \E o, v \in OnStack(th) : \E old \in entry[o] \cup {<<NC, NC>>} :
                    SetUserValue(o, old, v) \/ SetClosureSlot(o, old, v)
              \/ \E cl, v \in OnStack(th), u \in Obj : OpenUpval(th, cl, u, v)
              \/ \E cl \in OnStack(th), u \in Obj : ShareUpval(th, cl, u)
              \/ \E cl, v \in OnStack(th), u \in Obj : SetUpval(cl, u, v)
              \/ \E u \in Obj : CloseUpval(th, u)
              \/ \E t \in OnStack(th), m \in Modes : SetMode(t, m)
              \/ \E o \in OnStack(th) : CheckFinalizer(o)
      BY <1>1, Zenon DEF Mutator, Mutate
    <3>2. CASE \E t \in OnStack(th), m \in Modes : SetMode(t, m)
      BY <3>2 DEF SetMode
    <3>3. CASE ~\E t \in OnStack(th), m \in Modes : SetMode(t, m)
      BY <3>1, <3>3, Zenon DEF New, Intern, Load, Pop, SetTable, ClearEntry, SetUserValue,
         SetClosureSlot, OpenUpval, ShareUpval, SetUpval, CloseUpval, CheckFinalizer
    <3> QED
      BY <3>2, <3>3
  <2>2. finalizing' = finalizing /\ gcstate' = gcstate
    BY <1>1 DEF Mutator
  <2> QED
    BY <1>t, <2>1, <2>2 DEF EInv, WeakAreTables, FinalizerAlone
<1>2. CASE SingleStep /\ UNCHANGED finalizing /\ CollectorRuns
  <2>1. mode' = mode \/ \E o \in tosweep : mode' = [mode EXCEPT ![o] = "strong"]
    BY <1>2 DEF SingleStep, Start, Propagate, EndPropagate, EnterAtomic, Atomic, AtomicPropagate,
         RemarkUpvals, VisitAgain, Converge, ConvergeTable, EndRound, Separate, Flip, SweepOne,
         Free, NextSweep, EndCycle, heap
  <2> QED
    BY <1>2, <1>t, <2>1 DEF EInv, WeakAreTables, FinalizerAlone, CollectorRuns
<1>3. CASE (\E e \in FullKinds : FullGC(e)) /\ UNCHANGED finalizing /\ CollectorRuns
  BY <1>3 DEF FullGC, heap, EInv, WeakAreTables, FinalizerAlone, CollectorRuns
<1>4. CASE \E o \in Obj : CallFinalizer(o)
  BY <1>4 DEF CallFinalizer, control, EInv, WeakAreTables, FinalizerAlone
<1>5. CASE FinalizerReturns
  BY <1>5 DEF FinalizerReturns, EInv, WeakAreTables, FinalizerAlone
<1>6. CASE UNCHANGED vars
  BY <1>6 DEF vars, heap, control, EInv, WeakAreTables, FinalizerAlone
<1> QED
  BY <1>1, <1>2, <1>3, <1>4, <1>5, <1>6 DEF Next, Collector

\* The steps of the collector.
LEMMA SingleStepExact ==
    ASSUME IInv, IInv', EInv, SingleStep
    PROVE  Exact'
<1>a. CASE Start
  BY <1>a, StartExact
<1>b. CASE Propagate
  BY <1>b, PropagateExact DEF Propagate
<1>c. CASE EndPropagate
  <2>1. gcstate = "propagate" /\ gcstate' = "enteratomic" /\ UNCHANGED <<heap, marks, locals, full, atomicstep, currentwhite>>
    BY <1>c DEF EndPropagate
  <2> QED
    BY <2>1, SameExact DEF marks, locals, KeepInvariant, IsSweepPhase, Resurrected
<1>d. CASE EnterAtomic
  BY <1>d, EnterAtomicExact
<1>e. CASE AtomicPropagate
  BY <1>e, PropagateExact DEF AtomicPropagate
<1>f. CASE RemarkUpvals
  BY <1>f, RemarkUpvalsExact
<1>g. CASE VisitAgain
  <2>1. /\ UNCHANGED <<heap, color, currentwhite, full, gcstate, weak, allweak, ephemeron, round>>
        /\ atomicstep = "remarked" /\ atomicstep' = "again"
    BY <1>g DEF VisitAgain, Step
  <2> QED
    BY <2>1, SameExact DEF KeepInvariant, IsSweepPhase, Resurrected
<1>h. ASSUME NEW from, NEW to, Converge(from, to), <<from, to>> \in {<<"again", "converge">>,
              <<"resurrect", "reconverge">>, <<"converge", "converge">>, <<"reconverge", "reconverge">>}
      PROVE  Exact'
  <2>1. /\ UNCHANGED <<heap, color, currentwhite, full, gcstate, weak, allweak>>
        /\ atomicstep = from /\ atomicstep' = to /\ ephemeron' = {} /\ round' = ephemeron
    BY <1>h DEF Converge, Step
  <2>2. Resurrected' <=> Resurrected
    BY <1>h, <2>1 DEF Resurrected
  <2> QED
    BY <2>1, <2>2, SameExact DEF KeepInvariant, IsSweepPhase
<1>j. CASE \E t \in round : ConvergeTable(t)
  BY <1>j, ConvergeTableExact
<1>k. CASE EndRound
  <2>1. CASE MustRepeat
    <3>1. Converge(atomicstep, atomicstep) /\ atomicstep \in {"converge", "reconverge"}
      BY <1>k, <2>1 DEF EndRound, Converging
    <3> QED
      BY <3>1, <1>h
  <2>2. CASE ~MustRepeat
    <3>1. /\ UNCHANGED <<heap, color, currentwhite, full, gcstate, weak, allweak, ephemeron, round>>
          /\ atomicstep \in {"converge", "reconverge"}
          /\ atomicstep' = IF atomicstep = "converge" THEN "separate" ELSE "clear"
      BY <1>k, <2>2 DEF EndRound, Step, Converging, marks, locals
    <3>2. Resurrected' <=> Resurrected
      BY <3>1 DEF Resurrected
    <3> QED
      BY <3>1, <3>2, SameExact DEF KeepInvariant, IsSweepPhase
  <2> QED
    BY <2>1, <2>2
<1>l. CASE Separate
  BY <1>l, SeparateExact
<1>m. CASE Flip
  BY <1>m, FlipExact
<1>n. CASE \E o \in tosweep : SweepOne(o)
  BY <1>n, SweepExact
<1>o. CASE NextSweep
  <2>1. /\ IsSweepPhase /\ UNCHANGED <<heap, marks, locals, currentwhite, full>> /\ atomicstep' = "none"
        /\ gcstate' \in {"swpfinobj", "swptobefnz", "swpend", "callfin"}
    BY <1>o DEF NextSweep
  <2>2. ~KeepInvariant' /\ ~Resurrected' /\ ~Resurrected
    BY <2>1 DEF KeepInvariant, IsSweepPhase, Resurrected, IInv, TypeOK, Phases
  <2> QED
    BY <2>1, <2>2, SameExact DEF marks, locals
<1>p. CASE EndCycle
  <2>1. gcstate' = "pause"
    BY <1>p DEF EndCycle
  <2> QED
    BY <2>1, NotCollecting DEF KeepInvariant, IsSweepPhase
<1> QED
  BY <1>a, <1>b, <1>c, <1>d, <1>e, <1>f, <1>g, <1>h, <1>j, <1>k, <1>l, <1>m, <1>n, <1>o, <1>p
  DEF SingleStep, Atomic

\* While a full collection marks or sweeps, the program does not run.
LEMMA ExactStep ==
    ASSUME IInv, IInv', EInv, [Next]_vars
    PROVE  EInv'
<1>w. WeakAreTables' /\ FinalizerAlone'
  BY WeakKept
<1>q. gcstate = "callfin" /\ gcstate' = gcstate => Exact'
  BY NotCollecting DEF KeepInvariant, IsSweepPhase
<1>1. CASE Mutator
  <2>1. gcstate' = gcstate /\ full' = full /\ (full = "no" \/ finalizing # NC)
    BY <1>1 DEF Mutator, MutatorRuns
  <2>2. full = "no" \/ gcstate = "callfin"
    BY <2>1 DEF EInv, FinalizerAlone
  <2> QED
    BY <1>w, <1>q, <2>1, <2>2, NotCollecting DEF EInv
<1>2. CASE SingleStep
  BY <1>2, <1>w, SingleStepExact DEF EInv
<1>3. CASE \E e \in FullKinds : FullGC(e)
  <2>1. full' # "collect" \/ (gcstate = "pause" /\ gcstate' = gcstate)
    BY <1>3 DEF FullGC, FirstPart, KeepInvariant
  <2> QED
    BY <1>w, <2>1, NotCollecting DEF EInv, KeepInvariant, IsSweepPhase
<1>4. CASE \E o \in Obj : CallFinalizer(o)
  <2>1. gcstate = "callfin" /\ gcstate' = gcstate
    BY <1>4 DEF CallFinalizer, control
  <2> QED
    BY <1>w, <1>q, <2>1 DEF EInv
<1>5. CASE FinalizerReturns
  <2>1. gcstate = "callfin" /\ gcstate' = gcstate
    BY <1>5 DEF FinalizerReturns, control, EInv, FinalizerAlone
  <2> QED
    BY <1>w, <1>q, <2>1 DEF EInv
<1>6. CASE UNCHANGED vars
  BY <1>6, <1>w, SameExact
  DEF vars, marks, locals, control, EInv, KeepInvariant, IsSweepPhase, Resurrected
<1> QED
  BY <1>1, <1>2, <1>3, <1>4, <1>5, <1>6 DEF Next, Collector

\* With the inductive invariant, what a full collection adds to it.
LEMMA ExactAlways == Spec => [](IInv /\ EInv)
<1>1. Init => IInv /\ EInv
  <2>1. Init => EInv
    BY DEF Init, EInv, WeakAreTables, FinalizerAlone, Exact, ListModes, RootsMarked,
       MarkedReached, SweptReached, Collecting
  <2> QED
    BY <2>1, InitInvariant
<1>2. IInv /\ EInv /\ [Next]_vars => (IInv /\ EInv)'
  BY StepInvariant, ExactStep
<1> QED
  BY <1>1, <1>2, PTL DEF Spec

\* In a full collection `atomic' marks all that the program can reach, through any
\* chain of strong references, ephemerons and open upvalues, and nothing else.
THEOREM MarksExactly == Spec => []ExactMarking
<1>1. ASSUME IInv, EInv PROVE ExactMarking
  <2> DEFINE marked == {o \in Obj : Allocated(o) /\ ~IsWhite(o)}
  <2> SUFFICES ASSUME full = "collect", atomicstep = "separate"
               PROVE  marked \subseteq ToSurvive /\ ToSurvive \ marked = NeverWeak(ToSurvive \ marked)
    BY DEF ExactMarking
  <2>1. Collecting /\ ~Resurrected
    BY <1>1 DEF IInv, TypeOK, Phases, Collecting, KeepInvariant, Resurrected
  <2>2. marked \subseteq ToSurvive
    BY <1>1, <2>1 DEF EInv, Exact, MarkedReached, Marked
  <2>3. \A o \in ToSurvive : o \notin marked => Kind[o] = "string"
    BY <1>1, AllMarked, SurvivorsLeast DEF Least, Live, Marked
  <2> QED
    BY <2>2, <2>3 DEF NeverWeak
<1> QED
  BY <1>1, ExactAlways, PTL

\* A full collection leaves no garbage, whatever was going on when it began: with any
\* number of cycles of references, ephemerons, finalizers and resurrected objects.
THEOREM FullCollectionLeavesNoGarbage == Spec => []FullCollectsGarbage
<1>1. ASSUME IInv, EInv PROVE FullCollectsGarbage
  <2> SUFFICES ASSUME full = "collect", gcstate = "swpend", \A o \in Obj : mode[o] # "weakvalue",
                      NEW o \in Obj, Allocated(o), Kind[o] # "string"
               PROVE  o \in ToSurvive
    BY DEF FullCollectsGarbage
  <2>1. o \in Live
    BY <1>1 DEF IInv, DeadAreSwept, Live
  <2> QED
    BY <1>1, <2>1 DEF EInv, Exact, SweptReached, IsSweepPhase, Live
<1> QED
  BY <1>1, ExactAlways, PTL

=============================================================================
