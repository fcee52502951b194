---------------------------- MODULE LuaGenProofs ----------------------------
(***************************************************************************)
(* The generational mode is safe: a young collection frees nothing that is *)
(* reachable, for every set of objects, every order of the lists and every *)
(* sequence of operations and collections.                                 *)
(***************************************************************************)
EXTENDS LuaGen, TLAPS

-----------------------------------------------------------------------------
(* Lists.                                                                  *)

\* What follows p in a list whose links are rel.
After(rel, list, p) == {x \in list : p # NULL /\ <<x, p>> \notin rel}

LEMMA RestIsAfter == \A list, p : Rest(list, p) = After(before, list, p)
  BY DEF Rest, Upto, After
LEMMA RestIsAfterNext == \A list, p : Rest(list, p)' = After(before', list, p)
  BY DEF Rest, Upto, After

\* A list with fewer objects is a list.
LEMMA PartInOrder ==
    ASSUME NEW rel, NEW new, NEW list, NEW part \in SUBSET list, InOrder(rel, list),
           \A x, y \in part : <<x, y>> \in new <=> <<x, y>> \in rel
    PROVE  InOrder(new, part)
<1>1. \A S \in SUBSET part : S # {} => \E x \in S : \A y \in S \ {x} : <<x, y>> \in new
  BY DEF InOrder
<1> QED
  BY <1>1 DEF InOrder

LEMMA PutFirstPairs ==
    ASSUME NEW rel, NEW o, NEW list, NEW x, NEW y
    PROVE  <<x, y>> \in PutFirst(rel, o, list) <=>
              \/ <<x, y>> \in rel /\ x # o /\ y # o
              \/ x = o /\ y \in list \ {o}
  BY DEF PutFirst

\* An object in front of a list.
LEMMA PutFirstInOrder ==
    ASSUME NEW rel, NEW list, NEW o, o \notin list, InOrder(rel, list)
    PROVE  InOrder(PutFirst(rel, o, list), list \cup {o})
<1> DEFINE new == PutFirst(rel, o, list)
<1>0. \A x, y : <<x, y>> \in new <=> (<<x, y>> \in rel /\ x # o /\ y # o) \/ (x = o /\ y \in list)
  BY PutFirstPairs
<1> HIDE DEF new
<1>1. \A x, y \in list \cup {o} : <<x, y>> \in new => <<y, x>> \notin new
  BY <1>0 DEF InOrder
<1>2. \A x, y, z \in list \cup {o} : <<x, y>> \in new /\ <<y, z>> \in new => <<x, z>> \in new
  BY <1>0 DEF InOrder
<1>3. ASSUME NEW S \in SUBSET (list \cup {o}), S # {}
      PROVE  \E x \in S : \A y \in S \ {x} : <<x, y>> \in new
  <2>1. CASE o \in S
    BY <2>1, <1>0
  <2>2. CASE o \notin S
    <3>1. PICK x \in S : \A y \in S \ {x} : <<x, y>> \in rel
      BY <2>2, <1>3 DEF InOrder
    <3> QED
      BY <3>1, <2>2, <1>0
  <2> QED
    BY <2>1, <2>2
<1> QED
  BY <1>1, <1>2, <1>3 DEF InOrder, new

LEMMA PutFirstOthers ==
    ASSUME NEW rel, NEW list, NEW other, NEW o, o \notin other, InOrder(rel, other)
    PROVE  InOrder(PutFirst(rel, o, list), other)
<1>1. \A x, y \in other : <<x, y>> \in PutFirst(rel, o, list) <=> <<x, y>> \in rel
  BY PutFirstPairs
<1> QED
  BY <1>1, PartInOrder

\* What follows a pointer stays the same.
LEMMA PutFirstAfter ==
    ASSUME NEW rel, NEW list, NEW o, o \notin list, NEW p \in list \cup {NULL}
    PROVE  After(PutFirst(rel, o, list), list \cup {o}, p) = After(rel, list, p)
<1>0. \A x, y : <<x, y>> \in PutFirst(rel, o, list) <=>
                  (<<x, y>> \in rel /\ x # o /\ y # o) \/ (x = o /\ y \in list)
  BY PutFirstPairs
<1> QED
  BY <1>0 DEF After
LEMMA PutFirstAfterOthers ==
    ASSUME NEW rel, NEW list, NEW other, NEW o, o \notin other, NEW p \in other \cup {NULL}
    PROVE  After(PutFirst(rel, o, list), other, p) = After(rel, other, p)
<1>0. \A x, y : <<x, y>> \in PutFirst(rel, o, list) <=>
                  (<<x, y>> \in rel /\ x # o /\ y # o) \/ (x = o /\ y \in list \ {o})
  BY PutFirstPairs
<1> QED
  BY <1>0 DEF After

\* First.
LEMMA FirstIs ==
    ASSUME NEW list, InOrder(before, list), NEW S \in SUBSET list, S # {}
    PROVE  First(S) \in S /\ \A y \in S \ {First(S)} : <<First(S), y>> \in before
<1>1. \E x \in S : \A y \in S \ {x} : <<x, y>> \in before
  BY DEF InOrder
<1> QED
  BY <1>1 DEF First

\* What follows the first object of the end of a list is that end.
LEMMA AfterFirst ==
    ASSUME NEW list, InOrder(before, list), NULL \notin list, NEW S \in SUBSET list,
           \A x \in S, y \in list : <<x, y>> \in before => y \in S,
           NEW rel, NEW part, S \subseteq part, part \subseteq list,
           \A x, y \in part : <<x, y>> \in rel <=> <<x, y>> \in before
    PROVE  First(S) \in S \cup {NULL} /\ After(rel, part, First(S)) = S
<1>1. CASE S = {}
  BY <1>1 DEF First, After
<1>2. CASE S # {}
  <2> DEFINE f == First(S)
  <2>1. f \in S /\ \A y \in S \ {f} : <<f, y>> \in before
    BY <1>2, FirstIs
  <2> HIDE DEF f
  <2>2. f # NULL /\ f \in part /\ f \in list
    BY <2>1
  <2>3. \A x \in part : <<x, f>> \in before <=> x \notin S
    <3>1. ASSUME NEW x \in part, <<x, f>> \in before, x \in S PROVE FALSE
      BY <3>1, <2>1, <2>2 DEF InOrder
    <3>2. ASSUME NEW x \in part, x \notin S PROVE <<x, f>> \in before
      <4>1. \E z \in {x, f} : \A y \in {x, f} \ {z} : <<z, y>> \in before
        <5>1. {x, f} \in SUBSET list /\ {x, f} # {}
          BY <2>2
        <5> QED
          BY <5>1 DEF InOrder
      <4>2. <<f, x>> \notin before
        BY <3>2, <2>1
      <4> QED
        BY <4>1, <4>2, <3>2, <2>1
    <3> QED
      BY <3>1, <3>2
  <2>4. After(rel, part, f) = S
    BY <2>2, <2>3 DEF After
  <2> QED
    BY <2>1, <2>4 DEF f
<1> QED
  BY <1>1, <1>2

-----------------------------------------------------------------------------
(* The program.                                                            *)

\* Marks, one object at a time.
Mark(a, c) == [age |-> a, color |-> c]
Ages == G_NEW..G_TOUCHED2
Marks == [age : Ages, color : Colors]

LEMMA AgeValues == Ages = {0, 1, 2, 3, 4, 5, 6}
  BY DEF Ages, G_NEW, G_TOUCHED2
LEMMA MarkTypes ==
    ASSUME Types, NEW o \in Obj
    PROVE  /\ Age(o) \in Ages /\ mark[o].color \in Colors /\ mark[o] = Mark(Age(o), mark[o].color)
           /\ o # NULL /\ Kind[o] \in Kinds /\ NULL \notin Obj
<1>1. mark[o] \in [age : Ages, color : Colors]
  BY DEF Types, Ages
<1> QED
  BY <1>1, ProgramsAssumption DEF Types, Age, Mark

LEMMA LiveObj == Live \subseteq Obj
  BY DEF Live

\* luaC_barrier marks the object that an old one refers to now; it becomes old.
LEMMA BarrierFacts ==
    ASSUME IInv, NEW o \in Live, NEW v \in Live, Kind[v] # "upval", Barrier(o, v)
    PROVE  \/ UNCHANGED <<mark, g>> /\ ~(Black(o) /\ White(v))
           \/ /\ Black(o) /\ White(v)
              /\ mark' = [mark EXCEPT ![v] = Mark(G_OLD0, "gray")]
              /\ g' = [g EXCEPT !.gray = @ \cup {v}]
<1>1. v \in Obj /\ o \in Obj /\ v # NULL /\ mark \in [Obj -> Marks]
  BY LiveObj, MarkTypes DEF IInv, Types, Marks, Ages
<1>2. CASE Black(o) /\ White(v)
  <2>1. WhiteIn(Marked({v})) = {v} /\ ToVisit({v}) = {v}
    BY <1>1, <1>2 DEF WhiteIn, Marked, ToVisit
  <2>2. IsOldAge(Age(o))
    BY <1>2 DEF IInv, GrayLists, Black, White
  <2>3. Aged(o, v, ReallyMark(mark, {v})) = [mark EXCEPT ![v] = Mark(G_OLD0, "gray")]
    <3>1. ReallyMark(mark, {v}) = [mark EXCEPT ![v] = [@ EXCEPT !.color = "gray"]]
      BY <1>1 DEF ReallyMark
    <3>2. mark[v] = Mark(Age(v), mark[v].color)
      BY <1>1, MarkTypes DEF IInv
    <3>3. Aged(o, v, ReallyMark(mark, {v})) = [ReallyMark(mark, {v}) EXCEPT ![v].age = G_OLD0]
      BY <2>2 DEF Aged
    <3>4. [mark[v] EXCEPT !.color = "gray"] = Mark(Age(v), "gray")
      BY <3>2 DEF Mark
    <3>5. [Mark(Age(v), "gray") EXCEPT !.age = G_OLD0] = Mark(G_OLD0, "gray")
      BY DEF Mark
    <3>6. ReallyMark(mark, {v}) = [mark EXCEPT ![v] = Mark(Age(v), "gray")]
      BY <1>1, <3>1, <3>4
    <3> QED
      BY <1>1, <3>3, <3>6, <3>5
  <2> QED
    BY <1>1, <1>2, <2>1, <2>3 DEF Barrier
<1>3. CASE ~(Black(o) /\ White(v))
  BY <1>3 DEF Barrier
<1> QED
  BY <1>2, <1>3

LEMMA BackBarrierFacts ==
    ASSUME IInv, NEW o \in Live, NEW v \in Live, BackBarrier(o, v)
    PROVE  \/ UNCHANGED <<mark, g>> /\ ~(Black(o) /\ White(v))
           \/ /\ Black(o) /\ White(v)
              /\ mark' = [mark EXCEPT ![o] = Mark(G_TOUCHED1, "gray")]
              /\ g' = [g EXCEPT !.grayagain = @ \cup {o}]
<1>1. v \in Obj /\ o \in Obj /\ v # NULL
  BY LiveObj, MarkTypes DEF IInv
<1>2. CASE Black(o) /\ White(v)
  <2>2. IsOldAge(mark[o].age)
    BY <1>2 DEF IInv, GrayLists, Black, White, Age
  <2> QED
    BY <1>1, <1>2, <2>2 DEF BackBarrier, Mark
<1>3. CASE ~(Black(o) /\ White(v))
  BY <1>3 DEF BackBarrier
<1> QED
  BY <1>2, <1>3

-----------------------------------------------------------------------------
(* The invariant of the lists, of any links, marks and pointers.           *)

DividedBy(rel, mk, list, survival, old1, reallyold) ==
    /\ {survival, old1, reallyold} \subseteq list \cup {NULL}
    /\ After(rel, list, reallyold) \subseteq After(rel, list, old1)
    /\ After(rel, list, old1) \subseteq After(rel, list, survival)
    /\ \A o \in After(rel, list, survival) : mk[o].age # G_NEW
    /\ \A o \in After(rel, list, old1) : mk[o].color # "white" /\ mk[o].age # G_OLD0
    /\ \A o \in After(rel, list, reallyold) : mk[o].age # G_OLD1
FirstFound(rel, mk, list, firstold1) ==
    /\ firstold1 \in list \cup {NULL}
    /\ \A o \in list : mk[o].age = G_OLD1 => o \in After(rel, list, firstold1)
PointersOf(rel, mk, gl) ==
    /\ DividedBy(rel, mk, gl.allgc, gl.survival, gl.old1, gl.reallyold)
    /\ DividedBy(rel, mk, gl.finobj, gl.finobjsur, gl.finobjold1, gl.finobjrold)
    /\ FirstFound(rel, mk, gl.allgc, gl.firstold1)
ListsOf(rel, live, gl) ==
    /\ live = gl.allgc \cup gl.finobj \cup gl.tobefnz
    /\ gl.allgc \cap gl.finobj = {} /\ gl.allgc \cap gl.tobefnz = {}
    /\ gl.finobj \cap gl.tobefnz = {}
    /\ InOrder(rel, gl.allgc) /\ InOrder(rel, gl.finobj) /\ InOrder(rel, gl.tobefnz)

LEMMA DividedIs ==
    ASSUME NEW list, NEW p, NEW q, NEW r
    PROVE  Divided(list, p, q, r) <=> DividedBy(before, mark, list, p, q, r)
  BY RestIsAfter DEF Divided, DividedBy, Age, White
LEMMA PointersIs == Pointers <=> PointersOf(before, mark, g)
<1>1. Divided(g.allgc, g.survival, g.old1, g.reallyold)
        <=> DividedBy(before, mark, g.allgc, g.survival, g.old1, g.reallyold)
  BY DividedIs
<1>2. Divided(g.finobj, g.finobjsur, g.finobjold1, g.finobjrold)
        <=> DividedBy(before, mark, g.finobj, g.finobjsur, g.finobjold1, g.finobjrold)
  BY DividedIs
<1>3. Old1In(g.allgc) \subseteq Rest(g.allgc, g.firstold1)
        <=> \A o \in g.allgc : mark[o].age = G_OLD1 => o \in After(before, g.allgc, g.firstold1)
  BY RestIsAfter DEF Old1In, Age
<1> QED
  BY <1>1, <1>2, <1>3 DEF Pointers, PointersOf, FirstFound
LEMMA PointersNext == Pointers' <=> PointersOf(before', mark', g')
<1>1. (Pointers <=> PointersOf(before, mark, g))'
  BY PointersIs, PTL
<1> QED
  BY <1>1
LEMMA ListsIs == Lists <=> ListsOf(before, Live, g)
  BY DEF Lists, ListsOf
LEMMA ListsNext == Lists' <=> ListsOf(before', Live', g')
<1>1. (Lists <=> ListsOf(before, Live, g))'
  BY ListsIs, PTL
<1> QED
  BY <1>1

\* The lists and their pointers.
SameLinks(gl) ==
    /\ gl.allgc = g.allgc /\ gl.survival = g.survival /\ gl.old1 = g.old1
    /\ gl.reallyold = g.reallyold /\ gl.firstold1 = g.firstold1 /\ gl.finobj = g.finobj
    /\ gl.finobjsur = g.finobjsur /\ gl.finobjold1 = g.finobjold1
    /\ gl.finobjrold = g.finobjrold /\ gl.tobefnz = g.tobefnz

\* Marks of which no object is new, and none behind `old1' is marked.
LEMMA MarksDivided ==
    ASSUME NEW rel, NEW mk, NEW new, NEW list, NEW p, NEW q, NEW r,
           DividedBy(rel, mk, list, p, q, r),
           \A o \in list : \/ new[o] = mk[o]
                           \/ mk[o].color = "white" /\ new[o] = Mark(G_OLD0, "gray")
                           \/ new[o] = Mark(G_TOUCHED1, "gray")
    PROVE  DividedBy(rel, new, list, p, q, r)
<1>1. \A s : After(rel, list, s) \subseteq list
  BY DEF After
<1> QED
  BY <1>1 DEF DividedBy, Mark, G_NEW, G_OLD0, G_OLD1, G_TOUCHED1

\* No mark that a barrier sets concerns an object behind `old1', and none is new.
LEMMA MarksKeepLists ==
    ASSUME Types, Lists, Pointers, SameLinks(g'), before' = before, Live' = Live,
           \A o \in Live : \/ mark'[o] = mark[o]
                           \/ White(o) /\ mark'[o] = Mark(G_OLD0, "gray")
                           \/ mark'[o] = Mark(G_TOUCHED1, "gray")
    PROVE  Lists' /\ Pointers'
<1>1. Lists'
  BY ListsNext, ListsIs DEF ListsOf, SameLinks
<1>2. g.allgc \subseteq Live /\ g.finobj \subseteq Live
  BY DEF Lists
<1>m. ASSUME NEW list \in SUBSET Live, NEW p, NEW q, NEW r, DividedBy(before, mark, list, p, q, r)
      PROVE  DividedBy(before, mark', list, p, q, r)
  <2>1. \A o \in list : \/ mark'[o] = mark[o]
                        \/ mark[o].color = "white" /\ mark'[o] = Mark(G_OLD0, "gray")
                        \/ mark'[o] = Mark(G_TOUCHED1, "gray")
    BY DEF White
  <2> QED
    BY <1>m, <2>1, MarksDivided
<1>3. DividedBy(before, mark', g.allgc, g.survival, g.old1, g.reallyold)
  BY <1>2, <1>m, PointersIs DEF PointersOf
<1>4. DividedBy(before, mark', g.finobj, g.finobjsur, g.finobjold1, g.finobjrold)
  BY <1>2, <1>m, PointersIs DEF PointersOf
<1>5. FirstFound(before, mark', g.allgc, g.firstold1)
  BY <1>2, PointersIs DEF PointersOf, FirstFound, Mark, G_OLD0, G_OLD1, G_TOUCHED1
<1> QED
  BY <1>1, <1>3, <1>4, <1>5, PointersNext DEF PointersOf, SameLinks

-----------------------------------------------------------------------------
(* Stores.                                                                 *)

Listed == g.gray \cup g.grayagain
GTypes(gl) ==
    /\ {gl.survival, gl.old1, gl.reallyold, gl.firstold1, gl.finobjsur, gl.finobjold1,
        gl.finobjrold} \subseteq Pointer
    /\ gl.allgc \subseteq Obj /\ gl.finobj \subseteq Obj /\ gl.tobefnz \subseteq Obj
    /\ gl.gray \subseteq Obj /\ gl.grayagain \subseteq Obj

\* One more object in a gray list.
LEMMA GrayAdded ==
    ASSUME Types, UNCHANGED Obj, NEW o \in Obj,
           g' = [g EXCEPT !.gray = @ \cup {o}] \/ g' = [g EXCEPT !.grayagain = @ \cup {o}]
    PROVE  /\ SameLinks(g') /\ g.gray \subseteq g'.gray /\ g.grayagain \subseteq g'.grayagain
           /\ g' \in [allgc : SUBSET Obj, survival : Pointer, old1 : Pointer, reallyold : Pointer,
              firstold1 : Pointer, finobj : SUBSET Obj, finobjsur : Pointer, finobjold1 : Pointer,
              finobjrold : Pointer, tobefnz : SUBSET Obj, gray : SUBSET Obj, grayagain : SUBSET Obj]
           /\ g' = [g EXCEPT !.gray = @ \cup {o}] =>
                 g'.gray = g.gray \cup {o} /\ g'.grayagain = g.grayagain
           /\ g' = [g EXCEPT !.grayagain = @ \cup {o}] =>
                 g'.gray = g.gray /\ g'.grayagain = g.grayagain \cup {o}
<1> DEFINE GSet == [allgc : SUBSET Obj, survival : Pointer, old1 : Pointer, reallyold : Pointer,
              firstold1 : Pointer, finobj : SUBSET Obj, finobjsur : Pointer, finobjold1 : Pointer,
              finobjrold : Pointer, tobefnz : SUBSET Obj, gray : SUBSET Obj, grayagain : SUBSET Obj]
<1>1. g \in GSet
  BY DEF Types
<1>2. CASE g' = [g EXCEPT !.gray = @ \cup {o}]
  <2>1. g.gray \cup {o} \in SUBSET Obj
    BY <1>1
  <2>2. g' \in GSet
    BY <1>1, <1>2, <2>1
  <2>3. SameLinks(g') /\ g'.grayagain = g.grayagain /\ g'.gray = g.gray \cup {o}
    BY <1>1, <1>2 DEF SameLinks
  <2> QED
    BY <2>2, <2>3
<1>3. CASE g' = [g EXCEPT !.grayagain = @ \cup {o}]
  <2>1. g.grayagain \cup {o} \in SUBSET Obj
    BY <1>1
  <2>2. g' \in GSet
    BY <1>1, <1>3, <2>1
  <2>3. SameLinks(g') /\ g'.gray = g.gray /\ g'.grayagain = g.grayagain \cup {o}
    BY <1>1, <1>3 DEF SameLinks
  <2> QED
    BY <2>2, <2>3
<1> QED
  BY <1>2, <1>3

\* What a store may do to the marks and the gray lists.
Quiet(o, v) == UNCHANGED <<mark, g>> /\ (Thread(o) \/ ~(Black(o) /\ White(v)))
Forward(o, v) ==
    /\ Black(o) /\ White(v) /\ mark' = [mark EXCEPT ![v] = Mark(G_OLD0, "gray")]
    /\ g' = [g EXCEPT !.gray = @ \cup {v}]
Backward(o, v) ==
    /\ ~Thread(o) /\ Black(o) /\ White(v) /\ mark' = [mark EXCEPT ![o] = Mark(G_TOUCHED1, "gray")]
    /\ g' = [g EXCEPT !.grayagain = @ \cup {o}]

LEMMA StoreKeeps ==
    ASSUME IInv, NEW o \in Live, NEW v \in Live, Kind[o] # "closure", Kind[v] # "upval",
           ref' = [ref EXCEPT ![o] = v], UNCHANGED <<Obj, stack, before>>,
           Quiet(o, v) \/ Forward(o, v) \/ Backward(o, v)
    PROVE  IInv'
<1>0. o \in Obj /\ v \in Obj /\ NULL \notin Obj /\ Live \subseteq Obj
  BY MarkTypes, LiveObj DEF IInv
<1>t. Types /\ Lists /\ Pointers /\ References /\ GrayLists /\ OldRefersToOld /\ NextOldRefersToNoNew
  BY DEF IInv
<1>r. \A x \in Obj : ref'[x] = IF x = o THEN v ELSE ref[x]
  BY <1>0, <1>t DEF Types
<1>1. /\ mark' \in [Obj -> [age : Ages, color : Colors]] /\ SameLinks(g')
      /\ g.gray \subseteq g'.gray /\ g.grayagain \subseteq g'.grayagain
      /\ g' \in [allgc : SUBSET Obj, survival : Pointer, old1 : Pointer, reallyold : Pointer,
              firstold1 : Pointer, finobj : SUBSET Obj, finobjsur : Pointer, finobjold1 : Pointer,
              finobjrold : Pointer, tobefnz : SUBSET Obj, gray : SUBSET Obj, grayagain : SUBSET Obj]
  <2>1. Mark(G_OLD0, "gray") \in [age : Ages, color : Colors]
        /\ Mark(G_TOUCHED1, "gray") \in [age : Ages, color : Colors]
    BY AgeValues DEF Mark, Colors, G_OLD0, G_TOUCHED1
  <2>2. mark \in [Obj -> [age : Ages, color : Colors]]
    BY <1>t DEF Types, Ages
  <2>3. CASE Quiet(o, v)
    BY <2>2, <2>3, <1>t DEF Quiet, SameLinks, Types
  <2>4. CASE Forward(o, v)
    BY <2>1, <2>2, <2>4, <1>0, <1>t, GrayAdded DEF Forward
  <2>5. CASE Backward(o, v)
    BY <2>1, <2>2, <2>5, <1>0, <1>t, GrayAdded DEF Backward
  <2> QED
    BY <2>3, <2>4, <2>5
<1>2. Types'
  <2>1. Pointer' = Pointer
    BY DEF Pointer
  <2>2. ref' \in [Obj -> Pointer]
    BY <1>0, <1>t DEF Types, Pointer
  <2> QED
    BY <1>1, <1>t, <2>1, <2>2 DEF Types, Ages
\* The marks, one object at a time.
<1>m. \A x \in Obj : \/ mark'[x] = mark[x]
                     \/ Forward(o, v) /\ x = v /\ mark'[x] = Mark(G_OLD0, "gray")
                     \/ Backward(o, v) /\ x = o /\ mark'[x] = Mark(G_TOUCHED1, "gray")
  BY <1>0, <1>t DEF Types, Quiet, Forward, Backward
<1>l. Live' = Live
  <2>1. \A x \in Obj : mark'[x].color = "free" <=> mark[x].color = "free"
    BY <1>m DEF Mark, Forward, Backward, White, Black
  <2> QED
    BY <2>1 DEF Live
<1>3. Lists' /\ Pointers'
  <2>1. \A x \in Live : \/ mark'[x] = mark[x]
                        \/ White(x) /\ mark'[x] = Mark(G_OLD0, "gray")
                        \/ mark'[x] = Mark(G_TOUCHED1, "gray")
    BY <1>m, <1>0 DEF Forward
  <2> QED
    BY <1>1, <1>l, <1>t, <2>1, MarksKeepLists
<1>4. References'
  <2>1. \A x \in Live : ref'[x] # NULL =>
          ref'[x] \in Live /\ (Kind[x] = "closure" <=> Kind[ref'[x]] = "upval")
    BY <1>r, <1>t, <1>0 DEF References
  <2> QED
    BY <2>1, <1>1, <1>l, <1>t DEF References, SameLinks
<1>a. \A x \in Live : \/ mark'[x] = mark[x] /\ Age(x)' = Age(x) /\ (White(x)' <=> White(x))
                      \/ /\ Forward(o, v) /\ x = v /\ Age(x)' = G_OLD0 /\ ~White(x)'
                         /\ mark'[x].color = "gray"
                      \/ /\ Backward(o, v) /\ x = o /\ Age(x)' = G_TOUCHED1 /\ ~White(x)'
                         /\ mark'[x].color = "gray"
  BY <1>m, <1>0 DEF Age, White, Mark
<1>f. /\ Forward(o, v) => Age(v)' = G_OLD0 /\ mark'[v].color = "gray"
      /\ Backward(o, v) => Age(o)' = G_TOUCHED1 /\ mark'[o].color = "gray"
  <2>1. Forward(o, v) => mark'[v] = Mark(G_OLD0, "gray")
    BY <1>0, <1>t DEF Forward, Types
  <2>2. Backward(o, v) => mark'[o] = Mark(G_TOUCHED1, "gray")
    BY <1>0, <1>t DEF Backward, Types
  <2> QED
    BY <2>1, <2>2 DEF Age, Mark
<1>g. /\ \A x \in g'.gray : x \in g.gray \/ (Forward(o, v) /\ x = v)
      /\ \A x \in g'.grayagain : x \in g.grayagain \/ (Backward(o, v) /\ x = o)
      /\ Forward(o, v) => v \in g'.gray
      /\ Backward(o, v) => o \in g'.grayagain
  BY <1>0, <1>t, GrayAdded DEF Quiet, Forward, Backward
\* Who is in a gray list is not black, or white, and was not marked now.
<1>b. /\ Forward(o, v) => v \notin g.gray /\ v \notin g.grayagain
      /\ Forward(o, v) \/ Backward(o, v) => o \notin g.gray /\ IsOldAge(Age(o)) /\ ~White(o)
      /\ \A x \in g.gray \cup g.grayagain : ~White(x)
  <2>1. \A x \in g.gray \cup g.grayagain : ~White(x)
    BY <1>t DEF GrayLists, IsOldAge, G_SURVIVAL, G_OLD0, G_OLD1, G_OLD, G_TOUCHED1, G_TOUCHED2
  <2>2. Black(o) => o \notin g.gray /\ IsOldAge(Age(o)) /\ ~White(o)
    BY <1>t DEF GrayLists, Black, White
  <2> QED
    BY <2>1, <2>2 DEF Forward, Backward
<1>5. GrayLists'
  <2> USE DEF IsOldAge, G_SURVIVAL, G_OLD0, G_OLD1, G_OLD, G_TOUCHED1, G_TOUCHED2
  <2>1. \A x \in Live : White(x)' <=> ~IsOldAge(Age(x)')
    BY <1>a, <1>t DEF GrayLists
  <2>2. \A x \in Live : mark'[x].color = "gray" => x \in g'.gray \cup g'.grayagain
    BY <1>a, <1>g, <1>1, <1>t DEF GrayLists
  <2>3. \A x \in Live : Age(x)' = G_TOUCHED1 => x \in g'.grayagain /\ mark'[x].color = "gray"
    BY <1>a, <1>g, <1>1, <1>t DEF GrayLists
  <2>4. \A x \in Live : Age(x)' = G_TOUCHED2 => x \in g'.grayagain /\ Black(x)'
    BY <1>a, <1>g, <1>1, <1>t DEF GrayLists, Black
  <2>5. \A x \in Live : Age(x)' = G_OLD0 => x \in g'.gray /\ mark'[x].color = "gray"
    BY <1>a, <1>g, <1>1, <1>t DEF GrayLists
  <2>6. \A x \in Live : Age(x)' = G_OLD /\ Thread(x) => x \in g'.grayagain
    BY <1>a, <1>g, <1>1, <1>t DEF GrayLists
  <2>7. \A x \in g'.gray : x \in Live /\ Age(x)' = G_OLD0
    BY <1>a, <1>b, <1>f, <1>g, <1>t DEF GrayLists
  <2>8. \A x \in g'.grayagain : x \in Live /\
          (Age(x)' \in {G_TOUCHED1, G_TOUCHED2} \/ (Thread(x) /\ Age(x)' \in {G_OLD1, G_OLD}))
    BY <1>a, <1>b, <1>f, <1>g, <1>t DEF GrayLists
  <2> QED
    BY <2>1, <2>2, <2>3, <2>4, <2>5, <2>6, <2>7, <2>8, <1>l DEF GrayLists, Thread
\* An old object that is black refers to what is not white; what was old stays old.
<1>6. OldRefersToOld'
  <2> SUFFICES ASSUME NEW x \in Live, Age(x)' = G_OLD, x \notin g'.gray \cup g'.grayagain, ref'[x] # NULL
               PROVE  IsOldAge(mark'[ref'[x]].age)
    BY <1>l DEF OldRefersToOld, Age
  <2> USE DEF IsOldAge, G_SURVIVAL, G_OLD0, G_OLD1, G_OLD, G_TOUCHED1, G_TOUCHED2
  <2>1. Age(x) = G_OLD /\ x \notin g.gray \cup g.grayagain
    BY <1>a, <1>1
  <2>2. \A y \in Live : IsOldAge(Age(y)) => IsOldAge(mark'[y].age)
    BY <1>a DEF Age
  <2>3. CASE x # o
    BY <2>1, <2>2, <2>3, <1>r, <1>0, <1>t DEF OldRefersToOld, References
  <2>4. CASE x = o
    <3>1. ref'[x] = v
      BY <2>4, <1>r, <1>0
    <3>2. CASE Quiet(o, v)
      <4>1. ~Thread(o) /\ mark[o].color # "gray" /\ ~White(o)
        BY <2>1, <2>4, <1>t, <1>0 DEF GrayLists
      <4>2. Black(o)
        BY <4>1, <1>t, <1>0 DEF Types, Colors, Black, White, Live
      <4>3. ~White(v)
        BY <3>2, <4>1, <4>2 DEF Quiet
      <4> QED
        BY <3>1, <4>3, <2>2, <1>t DEF GrayLists
    <3>3. CASE Forward(o, v)
      <4>1. mark'[v] = Mark(G_OLD0, "gray")
        BY <3>3, <1>0, <1>t DEF Forward, Types
      <4> QED
        BY <4>1, <3>1 DEF Age, Mark
    <3>4. CASE Backward(o, v)
      BY <3>4, <1>g, <2>4
    <3> QED
      BY <3>2, <3>3, <3>4
  <2> QED
    BY <2>3, <2>4
<1>7. NextOldRefersToNoNew'
  <2> SUFFICES ASSUME NEW x \in Live, Age(x)' \in {G_OLD1, G_TOUCHED2}, ~Thread(x), ref'[x] # NULL
               PROVE  mark'[ref'[x]].age # G_NEW
    BY <1>l DEF NextOldRefersToNoNew, Thread, Age
  <2> USE DEF IsOldAge, G_NEW, G_SURVIVAL, G_OLD0, G_OLD1, G_OLD, G_TOUCHED1, G_TOUCHED2
  <2>1. Age(x) = Age(x)'
    BY <1>a
  <2>2. \A y \in Live : Age(y) # G_NEW => mark'[y].age # G_NEW
    BY <1>a DEF Age
  <2>3. CASE x # o
    BY <2>1, <2>2, <2>3, <1>r, <1>0, <1>t DEF NextOldRefersToNoNew, References
  <2>4. CASE x = o
    <3>1. ref'[x] = v
      BY <2>4, <1>r, <1>0
    <3>2. CASE Quiet(o, v)
      <4>1. o \in Live /\ Age(o) \in {G_OLD1, G_TOUCHED2}
        BY <2>1, <2>4
      <4>2. ~White(o)
        BY <4>1, <1>t DEF GrayLists
      <4>3. Black(o) => ~White(v)
        BY <3>2, <2>4 DEF Quiet
      <4>4. CASE mark[o].color = "gray"
        BY <4>4, <4>1, <1>t, <2>4 DEF GrayLists, Black
      <4>5. CASE Black(o)
        BY <4>3, <4>5, <2>2, <3>1, <1>t DEF GrayLists
      <4> QED
        BY <4>2, <4>4, <4>5, <1>t, <1>0 DEF Types, Colors, Black, White, Live
    <3>3. CASE Forward(o, v)
      <4>1. mark'[v] = Mark(G_OLD0, "gray")
        BY <3>3, <1>0, <1>t DEF Forward, Types
      <4> QED
        BY <4>1, <3>1 DEF Age, Mark
    <3>4. CASE Backward(o, v)
      <4>1. mark'[o] = Mark(G_TOUCHED1, "gray")
        BY <3>4, <1>0, <1>t DEF Backward, Types
      <4> QED
        BY <4>1, <2>4 DEF Age, Mark
    <3> QED
      BY <3>2, <3>3, <3>4
  <2> QED
    BY <2>3, <2>4
<1> QED
  BY <1>2, <1>3, <1>4, <1>5, <1>6, <1>7 DEF IInv

LEMMA SetFieldKeeps ==
    ASSUME IInv, NEW t \in stack, NEW v \in stack, SetField(t, v)
    PROVE  IInv'
<1>1. t \in Live /\ v \in Live /\ Kind[v] # "upval" /\ Kind[t] \in {"table", "weak"}
  BY DEF IInv, References, SetField
<1>2. BackBarrier(t, v) /\ ref' = [ref EXCEPT ![t] = v] /\ UNCHANGED <<Obj, stack, before>>
  BY DEF SetField, Refer
<1>3. Quiet(t, v) \/ Backward(t, v)
  BY <1>1, <1>2, BackBarrierFacts DEF Quiet, Backward, Thread
<1> QED
  BY <1>1, <1>2, <1>3, StoreKeeps
LEMMA SetMetatableKeeps ==
    ASSUME IInv, NEW t \in stack, NEW v \in stack, SetMetatable(t, v)
    PROVE  IInv'
<1>1. t \in Live /\ v \in Live /\ Kind[v] # "upval" /\ Kind[t] = "table"
  BY DEF IInv, References, SetMetatable
<1>2. Barrier(t, v) /\ ref' = [ref EXCEPT ![t] = v] /\ UNCHANGED <<Obj, stack, before>>
  BY DEF SetMetatable, Refer
<1>3. Quiet(t, v) \/ Forward(t, v)
  BY <1>1, <1>2, BarrierFacts DEF Quiet, Forward
<1> QED
  BY <1>1, <1>2, <1>3, StoreKeeps
LEMMA SetUpvalueKeeps ==
    ASSUME IInv, NEW f \in stack, NEW v \in stack, SetUpvalue(f, v)
    PROVE  IInv'
<1> DEFINE u == ref[f]
<1>1. u \in Live /\ v \in Live /\ Kind[v] # "upval" /\ Kind[u] = "upval"
  BY DEF IInv, References, SetUpvalue
<1>2. Barrier(u, v) /\ ref' = [ref EXCEPT ![u] = v] /\ UNCHANGED <<Obj, stack, before>>
  BY DEF SetUpvalue, Refer
<1> HIDE DEF u
<1>3. Quiet(u, v) \/ Forward(u, v)
  BY <1>1, <1>2, BarrierFacts DEF Quiet, Forward
<1> QED
  BY <1>1, <1>2, <1>3, StoreKeeps
LEMMA PushKeeps ==
    ASSUME IInv, NEW th \in stack, NEW v \in stack, Push(th, v)
    PROVE  IInv'
<1>1. th \in Live /\ v \in Live /\ Kind[v] # "upval" /\ Kind[th] = "thread"
  BY DEF IInv, References, Push
<1>2. ref' = [ref EXCEPT ![th] = v] /\ UNCHANGED <<Obj, stack, before, mark, g>>
  BY DEF Push, Refer
<1>3. Quiet(th, v)
  BY <1>1, <1>2 DEF Quiet, Thread
<1> QED
  BY <1>1, <1>2, <1>3, StoreKeeps

-----------------------------------------------------------------------------
(* The stack, and objects that change lists.                               *)

LEMMA SameMarks ==
    ASSUME IInv, UNCHANGED <<Obj, ref, mark>>, g'.gray = g.gray, g'.grayagain = g.grayagain,
           \A o \in stack' \cup g'.finobj \cup g'.tobefnz : o \in Live /\ Kind[o] # "upval"
    PROVE  References' /\ GrayLists' /\ OldRefersToOld' /\ NextOldRefersToNoNew'
<1>1. Live' = Live
  BY DEF Live
<1>2. \A o : Age(o)' = Age(o) /\ (White(o)' <=> White(o)) /\ (Black(o)' <=> Black(o)) /\ Thread(o)' = Thread(o)
  BY DEF Age, White, Black, Thread
<1>3. \A o : mark'[ref'[o]].age = Age(ref[o])
  BY DEF Age
<1>4. References'
  BY <1>1 DEF IInv, References
<1>5. GrayLists'
  BY <1>1 DEF IInv, GrayLists, Age, White, Black, Thread
<1>6. OldRefersToOld'
  BY <1>1 DEF IInv, OldRefersToOld, Age
<1>7. NextOldRefersToNoNew'
  BY <1>1 DEF IInv, NextOldRefersToNoNew, Age, Thread
<1> QED
  BY <1>4, <1>5, <1>6, <1>7

LEMMA StackKeeps ==
    ASSUME IInv, UNCHANGED <<Obj, ref, mark, g, before>>,
           \A o \in stack' : o \in Live /\ Kind[o] # "upval"
    PROVE  IInv'
<1>1. References' /\ GrayLists' /\ OldRefersToOld' /\ NextOldRefersToNoNew'
  <2>1. \A o \in stack' \cup g'.finobj \cup g'.tobefnz : o \in Live /\ Kind[o] # "upval"
    BY DEF IInv, References
  <2> QED
    BY <2>1, SameMarks
<1>2. Live' = Live
  BY DEF Live
<1>3. Lists'
  BY <1>2, ListsIs, ListsNext DEF IInv
<1>4. Pointers'
  BY PointersIs, PointersNext DEF IInv
<1>5. Types'
  BY DEF IInv, Types, Pointer
<1> QED
  BY <1>1, <1>3, <1>4, <1>5 DEF IInv
LEMMA LoadKeeps ==
    ASSUME IInv, NEW o \in stack, Load(o)
    PROVE  IInv'
<1>1. \A x \in Content(o) : x \in Live /\ Kind[x] # "upval"
  <2>1. o \in Live /\ (ref[o] # NULL => ref[o] \in Live)
    BY DEF IInv, References
  <2>2. CASE Kind[o] = "closure" /\ ref[o] # NULL
    <3>1. ref[o] \in Live /\ Kind[ref[o]] = "upval"
      BY <2>1, <2>2 DEF IInv, References
    <3> QED
      BY <2>2, <3>1 DEF IInv, References, Content
  <2>3. CASE ~(Kind[o] = "closure" /\ ref[o] # NULL)
    BY <2>1, <2>3 DEF IInv, References, Content
  <2> QED
    BY <2>2, <2>3
<1>2. \A x \in stack' : x \in Live /\ Kind[x] # "upval"
  BY <1>1 DEF Load, IInv, References
<1> QED
  BY <1>2, StackKeeps DEF Load
LEMMA DropKeeps ==
    ASSUME IInv, NEW o \in stack, Drop(o)
    PROVE  IInv'
<1>1. \A x \in stack' : x \in Live /\ Kind[x] # "upval"
  BY DEF Drop, IInv, References
<1> QED
  BY <1>1, StackKeeps DEF Drop

\* An object in front of a list that the pointers divide.
LEMMA FrontDivided ==
    ASSUME NEW rel, NEW mk, NEW new, NEW list, NEW o, o \notin list,
           NEW p, NEW q, NEW r, DividedBy(rel, mk, list, p, q, r),
           \A x \in list : new[x] = mk[x]
    PROVE  DividedBy(PutFirst(rel, o, list), new, list \cup {o}, p, q, r)
<1>1. \A s \in list \cup {NULL} :
          After(PutFirst(rel, o, list), list \cup {o}, s) = After(rel, list, s)
  BY PutFirstAfter
<1>2. \A s : After(rel, list, s) \subseteq list
  BY DEF After
<1>3. p \in list \cup {NULL} /\ q \in list \cup {NULL} /\ r \in list \cup {NULL}
  BY DEF DividedBy
<1> QED
  BY <1>1, <1>2, <1>3 DEF DividedBy
LEMMA OthersDivided ==
    ASSUME NEW rel, NEW mk, NEW new, NEW list, NEW other, NEW o, o \notin other,
           NEW p, NEW q, NEW r, DividedBy(rel, mk, other, p, q, r),
           \A x \in other : new[x] = mk[x]
    PROVE  DividedBy(PutFirst(rel, o, list), new, other, p, q, r)
<1>1. \A s \in other \cup {NULL} :
          After(PutFirst(rel, o, list), other, s) = After(rel, other, s)
  BY PutFirstAfterOthers
<1>2. \A s : After(rel, other, s) \subseteq other
  BY DEF After
<1>3. p \in other \cup {NULL} /\ q \in other \cup {NULL} /\ r \in other \cup {NULL}
  BY DEF DividedBy
<1> QED
  BY <1>1, <1>2, <1>3 DEF DividedBy
LEMMA FrontFound ==
    ASSUME NEW rel, NEW mk, NEW new, NEW list, NEW o, o \notin list, o # NULL,
           NEW f, FirstFound(rel, mk, list, f), NULL \notin list,
           \A x \in list : new[x] = mk[x]
    PROVE  FirstFound(PutFirst(rel, o, list), new, list \cup {o},
                      IF new[o].age = G_OLD1 THEN o ELSE f)
<1>1. CASE new[o].age = G_OLD1
  <2>1. \A x \in list \cup {o} : <<x, o>> \notin PutFirst(rel, o, list)
    BY PutFirstPairs
  <2> QED
    BY <1>1, <2>1 DEF FirstFound, After
<1>2. CASE new[o].age # G_OLD1
  BY <1>2, PutFirstAfter DEF FirstFound
<1> QED
  BY <1>1, <1>2

\* An object that leaves a list: the pointers to it go to the next one.
LEMMA CorrectedAfter ==
    ASSUME InOrder(before, g.allgc), NULL \notin g.allgc, NEW o \in g.allgc,
           NEW rel, \A x, y \in g.allgc \ {o} : <<x, y>> \in rel <=> <<x, y>> \in before,
           NEW p \in g.allgc \cup {NULL}
    PROVE  /\ Corrected(p, o) \in (g.allgc \ {o}) \cup {NULL}
           /\ After(rel, g.allgc \ {o}, Corrected(p, o)) = After(before, g.allgc, p) \ {o}
<1>1. CASE p # o
  BY <1>1 DEF Corrected, After
<1>2. CASE p = o
  <2> DEFINE T == {x \in g.allgc : <<o, x>> \in before}
  <2>1. o \notin T
    BY DEF InOrder
  <2>2. \A x \in T, y \in g.allgc : <<x, y>> \in before => y \in T
    BY DEF InOrder
  <2>3. T \subseteq g.allgc \ {o}
    BY <2>1
  <2>4. First(T) \in T \cup {NULL} /\ After(rel, g.allgc \ {o}, First(T)) = T
    <3> DEFINE list == g.allgc
               part == g.allgc \ {o}
    <3>1. T \in SUBSET list /\ T \subseteq part /\ part \subseteq list
      BY <2>3
    <3>2. \A x \in T, y \in list : <<x, y>> \in before => y \in T
      BY <2>2
    <3> HIDE DEF T
    <3> QED
      BY <3>1, <3>2, AfterFirst
  <2>5. \A x \in g.allgc \ {o} : <<x, o>> \notin before <=> <<o, x>> \in before
    <3>1. ASSUME NEW x \in g.allgc \ {o}
          PROVE  \E z \in {x, o} : \A y \in {x, o} \ {z} : <<z, y>> \in before
      <4>1. {x, o} \in SUBSET g.allgc /\ {x, o} # {}
        OBVIOUS
      <4> QED
        BY <4>1 DEF InOrder
    <3> QED
      BY <3>1 DEF InOrder
  <2>6. After(before, g.allgc, p) \ {o} = T
    BY <1>2, <2>1, <2>5 DEF After
  <2>7. Corrected(p, o) = First(T)
    BY <1>2 DEF Corrected, NextOf
  <2> HIDE DEF T
  <2> QED
    BY <2>3, <2>4, <2>6, <2>7
<1> QED
  BY <1>1, <1>2
LEMMA CorrectedDivided ==
    ASSUME InOrder(before, g.allgc), NULL \notin g.allgc, NEW o \in g.allgc,
           NEW rel, \A x, y \in g.allgc \ {o} : <<x, y>> \in rel <=> <<x, y>> \in before,
           PointersOf(before, mark, g)
    PROVE  /\ DividedBy(rel, mark, g.allgc \ {o}, Corrected(g.survival, o), Corrected(g.old1, o),
                        Corrected(g.reallyold, o))
           /\ FirstFound(rel, mark, g.allgc \ {o}, Corrected(g.firstold1, o))
<1>1. \A p \in g.allgc \cup {NULL} :
          /\ Corrected(p, o) \in (g.allgc \ {o}) \cup {NULL}
          /\ After(rel, g.allgc \ {o}, Corrected(p, o)) = After(before, g.allgc, p) \ {o}
  BY CorrectedAfter
<1> QED
  BY <1>1 DEF PointersOf, DividedBy, FirstFound

\* New objects are white and new, and refer to each other only.
LEMMA NewObjects ==
    ASSUME References, GrayLists, OldRefersToOld, NextOldRefersToNoNew, Live \subseteq Obj,
           NEW S \in SUBSET Obj, S \cap Live = {}, Live' = Live \cup S, UNCHANGED Obj,
           \A o \in Obj \ S : mark'[o] = mark[o] /\ ref'[o] = ref[o],
           \A o \in S : /\ mark'[o] = Newborn
                        /\ ref'[o] # NULL => ref'[o] \in S /\ (Kind[o] = "closure" <=> Kind[ref'[o]] = "upval"),
           g'.gray = g.gray, g'.grayagain = g.grayagain, g'.finobj = g.finobj, g'.tobefnz = g.tobefnz,
           \A o \in stack' : o \in Live \cup S /\ Kind[o] # "upval"
    PROVE  References' /\ GrayLists' /\ OldRefersToOld' /\ NextOldRefersToNoNew'
<1> USE DEF IsOldAge, G_NEW, G_SURVIVAL, G_OLD0, G_OLD1, G_OLD, G_TOUCHED1, G_TOUCHED2
<1>1. \A o \in Live : /\ Age(o)' = Age(o) /\ (White(o)' <=> White(o)) /\ (Black(o)' <=> Black(o))
                      /\ mark'[o].color = mark[o].color /\ ref'[o] = ref[o] /\ o \in Obj \ S
  BY DEF Age, White, Black
<1>2. \A o \in S : /\ Age(o)' = G_NEW /\ White(o)' /\ mark'[o].color = "white"
  BY DEF Age, White, Newborn
<1>3. References'
  BY <1>1 DEF References
<1>4. GrayLists'
  BY <1>1, <1>2 DEF GrayLists, Thread
<1>5. OldRefersToOld'
  <2> SUFFICES ASSUME NEW o \in Live \cup S, Age(o)' = G_OLD, o \notin g'.gray \cup g'.grayagain, ref'[o] # NULL
               PROVE  IsOldAge(mark'[ref'[o]].age)
    BY DEF OldRefersToOld, Age
  <2>1. o \in Live
    BY <1>2
  <2>2. ref[o] \in Live /\ IsOldAge(Age(ref[o]))
    BY <1>1, <2>1 DEF OldRefersToOld, References
  <2>3. ref'[o] = ref[o] /\ mark'[ref[o]] = mark[ref[o]]
    BY <1>1, <2>1, <2>2
  <2> QED
    BY <2>2, <2>3 DEF Age
<1>6. NextOldRefersToNoNew'
  <2> SUFFICES ASSUME NEW o \in Live \cup S, Age(o)' \in {G_OLD1, G_TOUCHED2}, ~Thread(o), ref'[o] # NULL
               PROVE  mark'[ref'[o]].age # G_NEW
    BY DEF NextOldRefersToNoNew, Age, Thread
  <2>1. o \in Live
    BY <1>2
  <2>2. ref[o] \in Live /\ Age(ref[o]) # G_NEW
    BY <1>1, <2>1 DEF NextOldRefersToNoNew, References
  <2>3. ref'[o] = ref[o] /\ mark'[ref[o]] = mark[ref[o]]
    BY <1>1, <2>1, <2>2
  <2> QED
    BY <2>2, <2>3 DEF Age
<1> QED
  BY <1>3, <1>4, <1>5, <1>6

-----------------------------------------------------------------------------
(* New objects, and finalizers.                                            *)

GSet == [allgc : SUBSET Obj, survival : Pointer, old1 : Pointer, reallyold : Pointer,
         firstold1 : Pointer, finobj : SUBSET Obj, finobjsur : Pointer, finobjold1 : Pointer,
         finobjrold : Pointer, tobefnz : SUBSET Obj, gray : SUBSET Obj, grayagain : SUBSET Obj]
LEMMA NewbornType == Newborn \in [age : Ages, color : Colors]
  BY AgeValues DEF Newborn, Colors, G_NEW

LEMMA NewKeeps ==
    ASSUME IInv, NEW o \in Obj, New(o)
    PROVE  IInv'
<1>0. NULL \notin Obj /\ o # NULL /\ Live \subseteq Obj /\ o \notin Live
  BY MarkTypes, LiveObj DEF IInv, New
<1>t. Types /\ Lists /\ Pointers /\ References /\ GrayLists /\ OldRefersToOld /\ NextOldRefersToNoNew
  BY DEF IInv
<1>g. g \in GSet /\ UNCHANGED Obj /\ mark \in [Obj -> [age : Ages, color : Colors]]
      /\ ref \in [Obj -> Pointer]
  BY <1>t DEF Types, GSet, Ages, New
<1>1. /\ g'.allgc = g.allgc \cup {o} /\ g'.survival = g.survival /\ g'.old1 = g.old1
      /\ g'.reallyold = g.reallyold /\ g'.firstold1 = g.firstold1 /\ g'.finobj = g.finobj
      /\ g'.finobjsur = g.finobjsur /\ g'.finobjold1 = g.finobjold1
      /\ g'.finobjrold = g.finobjrold /\ g'.tobefnz = g.tobefnz
      /\ g'.gray = g.gray /\ g'.grayagain = g.grayagain /\ g' \in GSet
  BY <1>g DEF New, GSet
<1>2. Types'
  <2>1. mark' \in [Obj -> [age : Ages, color : Colors]]
    BY <1>g, NewbornType DEF New
  <2>2. ref' \in [Obj -> Pointer]
    BY <1>g DEF New, Pointer
  <2>3. before' \in SUBSET (Obj \X Obj)
    <3>1. before \subseteq Obj \X Obj /\ g.allgc \subseteq Obj
      BY <1>t, <1>g DEF Types, GSet
    <3> QED
      BY <3>1 DEF New, PutFirst
  <2> QED
    BY <2>1, <2>2, <2>3, <1>1, <1>g, <1>t DEF Types, Ages, GSet, Pointer
<1>m. /\ \A x \in Obj \ {o} : mark'[x] = mark[x] /\ ref'[x] = ref[x]
      /\ mark'[o] = Newborn /\ ref'[o] = NULL
  BY <1>g DEF New
<1>l. Live' = Live \cup {o}
  BY <1>m, <1>g DEF Live, Newborn
<1>3. Lists'
  <2>1. o \notin g.allgc /\ o \notin g.finobj /\ o \notin g.tobefnz
    BY <1>0, <1>t DEF Lists
  <2>2. before' = PutFirst(before, o, g.allgc)
    BY DEF New
  <2>3. InOrder(before', g.allgc \cup {o}) /\ InOrder(before', g.finobj) /\ InOrder(before', g.tobefnz)
    BY <1>t, <2>1, <2>2, PutFirstInOrder, PutFirstOthers DEF Lists
  <2> QED
    BY <2>1, <2>3, <1>1, <1>l, <1>t, ListsNext DEF ListsOf, Lists
<1>4. Pointers'
  <2>1. o \notin g.allgc /\ o \notin g.finobj /\ NULL \notin g.allgc
    BY <1>0, <1>t DEF Lists
  <2>2. before' = PutFirst(before, o, g.allgc)
    BY DEF New
  <2>3. PointersOf(before, mark, g)
    BY <1>t, PointersIs
  <2>4. \A x \in g.allgc \cup g.finobj : mark'[x] = mark[x]
    BY <1>m, <1>0, <1>t DEF Lists
  <2>5. DividedBy(before', mark', g.allgc \cup {o}, g.survival, g.old1, g.reallyold)
    BY <2>1, <2>2, <2>3, <2>4, FrontDivided DEF PointersOf
  <2>6. DividedBy(before', mark', g.finobj, g.finobjsur, g.finobjold1, g.finobjrold)
    BY <2>1, <2>2, <2>3, <2>4, OthersDivided DEF PointersOf
  <2>7. FirstFound(before', mark', g.allgc \cup {o}, g.firstold1)
    <3>1. mark'[o].age # G_OLD1
      BY <1>m DEF Newborn, G_NEW, G_OLD1
    <3>2. FirstFound(before', mark', g.allgc \cup {o}, IF mark'[o].age = G_OLD1 THEN o ELSE g.firstold1)
      BY <2>1, <2>2, <2>3, <2>4, <1>0, FrontFound DEF PointersOf
    <3> QED
      BY <3>1, <3>2
  <2> QED
    BY <2>5, <2>6, <2>7, <1>1, PointersNext DEF PointersOf
<1>5. References' /\ GrayLists' /\ OldRefersToOld' /\ NextOldRefersToNoNew'
  <2>1. \A x \in stack' : x \in Live \cup {o} /\ Kind[x] # "upval"
    BY <1>t DEF References, New
  <2> DEFINE S == {o}
  <2>2. S \in SUBSET Obj /\ S \cap Live = {} /\ Live' = Live \cup S
    BY <1>0, <1>l
  <2>3. /\ \A x \in Obj \ S : mark'[x] = mark[x] /\ ref'[x] = ref[x]
        /\ \A x \in S : mark'[x] = Newborn /\ ref'[x] = NULL
        /\ \A x \in stack' : x \in Live \cup S /\ Kind[x] # "upval"
    BY <2>1, <1>m
  <2> HIDE DEF S
  <2> QED
    BY <2>2, <2>3, <1>0, <1>1, <1>g, <1>t, NewObjects
<1> QED
  BY <1>2, <1>3, <1>4, <1>5 DEF IInv

LEMMA NewClosureKeeps ==
    ASSUME IInv, NEW f \in Obj, NEW u \in Obj, NewClosure(f, u)
    PROVE  IInv'
<1>0. NULL \notin Obj /\ f # NULL /\ u # NULL /\ f # u /\ Live \subseteq Obj /\ f \notin Live /\ u \notin Live
      /\ Kind[f] = "closure" /\ Kind[u] = "upval"
  BY MarkTypes, LiveObj DEF IInv, NewClosure
<1>t. Types /\ Lists /\ Pointers /\ References /\ GrayLists /\ OldRefersToOld /\ NextOldRefersToNoNew
  BY DEF IInv
<1>g. g \in GSet /\ UNCHANGED Obj /\ mark \in [Obj -> [age : Ages, color : Colors]]
      /\ ref \in [Obj -> Pointer]
  BY <1>t DEF Types, GSet, Ages, NewClosure
<1>1. /\ g'.allgc = g.allgc \cup {f, u} /\ g'.survival = g.survival /\ g'.old1 = g.old1
      /\ g'.reallyold = g.reallyold /\ g'.firstold1 = g.firstold1 /\ g'.finobj = g.finobj
      /\ g'.finobjsur = g.finobjsur /\ g'.finobjold1 = g.finobjold1
      /\ g'.finobjrold = g.finobjrold /\ g'.tobefnz = g.tobefnz
      /\ g'.gray = g.gray /\ g'.grayagain = g.grayagain /\ g' \in GSet
  BY <1>g DEF NewClosure, GSet
<1> DEFINE mid == PutFirst(before, f, g.allgc)
<1>b. before' = PutFirst(mid, u, g.allgc \cup {f})
  BY DEF NewClosure
<1>2. Types'
  <2>1. mark' \in [Obj -> [age : Ages, color : Colors]]
    BY <1>g, NewbornType DEF NewClosure
  <2>2. ref' \in [Obj -> Pointer]
    BY <1>g DEF NewClosure, Pointer
  <2>3. before' \in SUBSET (Obj \X Obj)
    <3>1. before \subseteq Obj \X Obj /\ g.allgc \subseteq Obj
      BY <1>t, <1>g DEF Types, GSet
    <3>2. mid \subseteq Obj \X Obj
      BY <3>1 DEF PutFirst
    <3> QED
      BY <3>1, <3>2, <1>b DEF PutFirst
  <2> QED
    BY <2>1, <2>2, <2>3, <1>1, <1>g, <1>t DEF Types, Ages, GSet, Pointer
<1>m. /\ \A x \in Obj \ {f, u} : mark'[x] = mark[x] /\ ref'[x] = ref[x]
      /\ mark'[f] = Newborn /\ ref'[f] = u /\ mark'[u] = Newborn /\ ref'[u] = NULL
  BY <1>g, <1>0 DEF NewClosure
<1>l. Live' = Live \cup {f, u}
  BY <1>m, <1>g DEF Live, Newborn
<1>s. /\ f \notin g.allgc /\ f \notin g.finobj /\ f \notin g.tobefnz
      /\ u \notin g.allgc \cup {f} /\ u \notin g.finobj /\ u \notin g.tobefnz
      /\ NULL \notin g.allgc /\ (g.allgc \cup {f}) \cup {u} = g.allgc \cup {f, u}
  BY <1>0, <1>t DEF Lists
<1> HIDE DEF mid
<1>3. Lists'
  <2>1. InOrder(mid, g.allgc \cup {f}) /\ InOrder(mid, g.finobj) /\ InOrder(mid, g.tobefnz)
    BY <1>s, <1>t, PutFirstInOrder, PutFirstOthers DEF Lists, mid
  <2>2. InOrder(before', (g.allgc \cup {f}) \cup {u}) /\ InOrder(before', g.finobj) /\ InOrder(before', g.tobefnz)
    BY <2>1, <1>s, <1>b, PutFirstInOrder, PutFirstOthers
  <2> QED
    BY <2>2, <1>s, <1>1, <1>l, <1>t, ListsNext DEF ListsOf, Lists
<1>4. Pointers'
  <2>1. PointersOf(before, mark, g)
    BY <1>t, PointersIs
  <2>2. \A x \in g.allgc \cup g.finobj : mark'[x] = mark[x]
    BY <1>m, <1>0, <1>t DEF Lists
  <2>3. mark'[f].age # G_OLD1 /\ mark'[u].age # G_OLD1
    BY <1>m DEF Newborn, G_NEW, G_OLD1
  <2>4. DividedBy(mid, mark', g.allgc \cup {f}, g.survival, g.old1, g.reallyold)
    BY <2>1, <2>2, <1>s, FrontDivided DEF PointersOf, mid
  <2>5. DividedBy(before', mark', (g.allgc \cup {f}) \cup {u}, g.survival, g.old1, g.reallyold)
    <3> DEFINE list == g.allgc \cup {f}
    <3>1. u \notin list /\ \A x \in list : mark'[x] = mark'[x]
      BY <1>s
    <3>2. DividedBy(mid, mark', list, g.survival, g.old1, g.reallyold)
      BY <2>4
    <3> HIDE DEF list
    <3>3. DividedBy(PutFirst(mid, u, list), mark', list \cup {u}, g.survival, g.old1, g.reallyold)
      BY <3>1, <3>2, FrontDivided
    <3> QED
      BY <3>3, <1>b DEF list
  <2>6. DividedBy(mid, mark', g.finobj, g.finobjsur, g.finobjold1, g.finobjrold)
    BY <2>1, <2>2, <1>s, OthersDivided DEF PointersOf, mid
  <2>7. DividedBy(before', mark', g.finobj, g.finobjsur, g.finobjold1, g.finobjrold)
    <3>1. u \notin g.finobj /\ \A x \in g.finobj : mark'[x] = mark'[x]
      BY <1>s
    <3> QED
      BY <3>1, <2>6, <1>b, OthersDivided
  <2>8. FirstFound(mid, mark', g.allgc \cup {f}, g.firstold1)
    <3>2. FirstFound(PutFirst(before, f, g.allgc), mark', g.allgc \cup {f},
                     IF mark'[f].age = G_OLD1 THEN f ELSE g.firstold1)
      BY <2>1, <2>2, <1>s, <1>0, FrontFound DEF PointersOf
    <3> QED
      BY <3>2, <2>3 DEF mid
  <2>9. FirstFound(before', mark', (g.allgc \cup {f}) \cup {u}, g.firstold1)
    <3> DEFINE list == g.allgc \cup {f}
    <3>1. u \notin list /\ u # NULL /\ NULL \notin list /\ \A x \in list : mark'[x] = mark'[x]
      BY <1>s, <1>0
    <3>2. FirstFound(mid, mark', list, g.firstold1)
      BY <2>8
    <3> HIDE DEF list
    <3>3. FirstFound(PutFirst(mid, u, list), mark', list \cup {u},
                     IF mark'[u].age = G_OLD1 THEN u ELSE g.firstold1)
      BY <3>1, <3>2, FrontFound
    <3> QED
      BY <3>3, <2>3, <1>b DEF list
  <2> QED
    BY <2>5, <2>7, <2>9, <1>1, <1>s, PointersNext DEF PointersOf
<1>5. References' /\ GrayLists' /\ OldRefersToOld' /\ NextOldRefersToNoNew'
  <2> DEFINE S == {f, u}
  <2>2. S \in SUBSET Obj /\ S \cap Live = {} /\ Live' = Live \cup S
    BY <1>0, <1>l
  <2>3. /\ \A x \in Obj \ S : mark'[x] = mark[x] /\ ref'[x] = ref[x]
        /\ \A x \in S : mark'[x] = Newborn /\
              (ref'[x] # NULL => ref'[x] \in S /\ (Kind[x] = "closure" <=> Kind[ref'[x]] = "upval"))
        /\ \A x \in stack' : x \in Live \cup S /\ Kind[x] # "upval"
    BY <1>m, <1>0, <1>t DEF References, NewClosure
  <2> HIDE DEF S
  <2> QED
    BY <2>2, <2>3, <1>0, <1>1, <1>g, <1>t, NewObjects
<1> QED
  BY <1>2, <1>3, <1>4, <1>5 DEF IInv

LEMMA CheckFinalizerKeeps ==
    ASSUME IInv, NEW o \in stack, CheckFinalizer(o)
    PROVE  IInv'
<1>t. Types /\ Lists /\ Pointers /\ References
  BY DEF IInv
<1>0. NULL \notin Obj /\ o \in g.allgc /\ o \in Live /\ o \in Obj /\ NULL \notin g.allgc /\ Live \subseteq Obj
      /\ o \notin g.finobj /\ o \notin g.tobefnz /\ NULL \notin g.finobj /\ Kind[o] # "upval"
  BY <1>t, MarkTypes, LiveObj DEF IInv, CheckFinalizer, Lists, References
<1>g. g \in GSet /\ UNCHANGED <<Obj, ref, mark, stack>>
  BY <1>t DEF Types, GSet, CheckFinalizer
<1>b. before' = PutFirst(before, o, g.finobj)
  BY DEF CheckFinalizer
<1>c. /\ \A x, y \in g.allgc \ {o} : <<x, y>> \in before' <=> <<x, y>> \in before
      /\ InOrder(before, g.allgc) /\ PointersOf(before, mark, g)
  BY <1>b, <1>t, PutFirstPairs, PointersIs DEF Lists
<1>d. /\ DividedBy(before', mark, g.allgc \ {o}, Corrected(g.survival, o), Corrected(g.old1, o),
                   Corrected(g.reallyold, o))
      /\ FirstFound(before', mark, g.allgc \ {o}, Corrected(g.firstold1, o))
  BY <1>0, <1>c, CorrectedDivided
<1>e. /\ Corrected(g.survival, o) \in Pointer /\ Corrected(g.old1, o) \in Pointer
      /\ Corrected(g.reallyold, o) \in Pointer /\ Corrected(g.firstold1, o) \in Pointer
  <2>1. g.allgc \subseteq Obj
    BY <1>g DEF GSet
  <2> QED
    BY <1>d, <2>1 DEF DividedBy, FirstFound, Pointer
<1>1. /\ g'.allgc = g.allgc \ {o} /\ g'.survival = Corrected(g.survival, o)
      /\ g'.old1 = Corrected(g.old1, o)
      /\ g'.reallyold = Corrected(g.reallyold, o) /\ g'.firstold1 = Corrected(g.firstold1, o)
      /\ g'.finobj = g.finobj \cup {o}
      /\ g'.finobjsur = g.finobjsur /\ g'.finobjold1 = g.finobjold1
      /\ g'.finobjrold = g.finobjrold /\ g'.tobefnz = g.tobefnz
      /\ g'.gray = g.gray /\ g'.grayagain = g.grayagain /\ g' \in GSet
  BY <1>g, <1>e, <1>0 DEF CheckFinalizer, GSet
<1>2. Types'
  <2>1. before' \in SUBSET (Obj \X Obj)
    <3>1. before \subseteq Obj \X Obj /\ g.finobj \subseteq Obj
      BY <1>t, <1>g DEF Types, GSet
    <3> QED
      BY <3>1, <1>b, <1>0 DEF PutFirst
  <2> QED
    BY <2>1, <1>1, <1>g, <1>t DEF Types, GSet, Pointer
<1>l. Live' = Live
  BY <1>g DEF Live
<1>3. Lists'
  <2>1. InOrder(before', g.allgc \ {o})
    BY <1>c, PartInOrder
  <2>2. InOrder(before', g.finobj \cup {o}) /\ InOrder(before', g.tobefnz)
    BY <1>0, <1>b, <1>t, PutFirstInOrder, PutFirstOthers DEF Lists
  <2> QED
    BY <2>1, <2>2, <1>0, <1>1, <1>l, <1>t, ListsNext DEF ListsOf, Lists
<1>4. Pointers'
  <2>1. DividedBy(before', mark, g.finobj \cup {o}, g.finobjsur, g.finobjold1, g.finobjrold)
    <3>1. \A x \in g.finobj : mark[x] = mark[x]
      OBVIOUS
    <3> QED
      BY <3>1, <1>0, <1>b, <1>c, FrontDivided DEF PointersOf
  <2> QED
    BY <2>1, <1>1, <1>d, <1>g, PointersNext DEF PointersOf
<1>5. References' /\ GrayLists' /\ OldRefersToOld' /\ NextOldRefersToNoNew'
  <2>1. \A x \in stack' \cup g'.finobj \cup g'.tobefnz : x \in Live /\ Kind[x] # "upval"
    BY <1>0, <1>1, <1>g, <1>t DEF References
  <2> QED
    BY <2>1, <1>1, <1>g, SameMarks
<1> QED
  BY <1>2, <1>3, <1>4, <1>5 DEF IInv

LEMMA CallFinalizerKeeps ==
    ASSUME IInv, CallFinalizer
    PROVE  IInv'
<1>t. Types /\ Lists /\ Pointers /\ References
  BY DEF IInv
<1> DEFINE o == First(g.tobefnz)
<1>f. o \in g.tobefnz
  BY <1>t, FirstIs DEF Lists, CallFinalizer
<1>b. before' = PutFirst(before, o, g.allgc) /\ stack' \subseteq stack \cup {o}
  BY DEF CallFinalizer
<1>e. g' = [g EXCEPT !.tobefnz = @ \ {o}, !.allgc = @ \cup {o}, !.firstold1 = FirstOld1After(o)]
  BY DEF CallFinalizer
<1> HIDE DEF o
<1>0. NULL \notin Obj /\ o # NULL /\ o \in Live /\ o \in Obj /\ NULL \notin g.allgc /\ Live \subseteq Obj
      /\ o \notin g.finobj /\ o \notin g.allgc /\ Kind[o] # "upval"
  BY <1>t, <1>f, MarkTypes, LiveObj DEF IInv, Lists, References
<1>g. g \in GSet /\ UNCHANGED <<Obj, ref, mark>>
  BY <1>t DEF Types, GSet, CallFinalizer
<1>1. /\ g'.allgc = g.allgc \cup {o} /\ g'.survival = g.survival /\ g'.old1 = g.old1
      /\ g'.reallyold = g.reallyold /\ g'.firstold1 = FirstOld1After(o) /\ g'.finobj = g.finobj
      /\ g'.finobjsur = g.finobjsur /\ g'.finobjold1 = g.finobjold1
      /\ g'.finobjrold = g.finobjrold /\ g'.tobefnz = g.tobefnz \ {o}
      /\ g'.gray = g.gray /\ g'.grayagain = g.grayagain /\ g' \in GSet
  <2>1. FirstOld1After(o) \in Pointer
    BY <1>0, <1>g DEF FirstOld1After, Pointer, GSet
  <2> QED
    BY <2>1, <1>e, <1>g, <1>0 DEF GSet
<1>2. Types'
  <2>1. before' \in SUBSET (Obj \X Obj)
    <3>1. before \subseteq Obj \X Obj /\ g.allgc \subseteq Obj
      BY <1>t, <1>g DEF Types, GSet
    <3> QED
      BY <3>1, <1>b, <1>0 DEF PutFirst
  <2> QED
    BY <2>1, <1>1, <1>g, <1>t DEF Types, GSet, Pointer
<1>l. Live' = Live
  BY <1>g DEF Live
<1>3. Lists'
  <2>1. InOrder(before', g.allgc \cup {o}) /\ InOrder(before', g.finobj)
    BY <1>0, <1>b, <1>t, PutFirstInOrder, PutFirstOthers DEF Lists
  <2>2. InOrder(before', g.tobefnz \ {o})
    <3>1. InOrder(before, g.tobefnz \ {o})
      <4>1. \A x, y \in g.tobefnz \ {o} : <<x, y>> \in before <=> <<x, y>> \in before
        OBVIOUS
      <4> QED
        BY <4>1, <1>t, PartInOrder DEF Lists
    <3> QED
      BY <3>1, <1>b, PutFirstOthers
  <2> QED
    BY <2>1, <2>2, <1>0, <1>f, <1>1, <1>l, <1>t, ListsNext DEF ListsOf, Lists
<1>4. Pointers'
  <2>0. PointersOf(before, mark, g) /\ \A x \in g.finobj \cup g.allgc : mark[x] = mark[x]
    BY <1>t, PointersIs
  <2>1. DividedBy(before', mark, g.finobj, g.finobjsur, g.finobjold1, g.finobjrold)
    BY <2>0, <1>0, <1>b, OthersDivided DEF PointersOf
  <2>2. DividedBy(before', mark, g.allgc \cup {o}, g.survival, g.old1, g.reallyold)
    BY <2>0, <1>0, <1>b, FrontDivided DEF PointersOf
  <2>3. FirstFound(before', mark, g.allgc \cup {o}, IF mark[o].age = G_OLD1 THEN o ELSE g.firstold1)
    BY <2>0, <1>0, <1>b, FrontFound DEF PointersOf
  <2> QED
    BY <2>1, <2>2, <2>3, <1>1, <1>g, PointersNext DEF PointersOf, FirstOld1After, Age
<1>5. References' /\ GrayLists' /\ OldRefersToOld' /\ NextOldRefersToNoNew'
  <2>1. \A x \in stack' \cup g'.finobj \cup g'.tobefnz : x \in Live /\ Kind[x] # "upval"
    BY <1>0, <1>1, <1>b, <1>t DEF References
  <2> QED
    BY <2>1, <1>1, <1>g, SameMarks
<1> QED
  BY <1>2, <1>3, <1>4, <1>5 DEF IInv

-----------------------------------------------------------------------------
(* Marking.                                                                *)

ClosedUnder(mk, V) ==
    \A o \in V : Kind[o] # "weak" /\ ref[o] # NULL /\ mk[ref[o]].color = "white" => ref[o] \in V
LEMMA VisitedFacts ==
    ASSUME ref \in [Obj -> Pointer], NEW mk, NEW S \in SUBSET Obj
    PROVE  /\ S \subseteq Visited(mk, S) /\ Visited(mk, S) \subseteq Obj
           /\ ClosedUnder(mk, Visited(mk, S))
           /\ \A W \in SUBSET Obj : S \subseteq W /\ ClosedUnder(mk, W) => Visited(mk, S) \subseteq W
<1> DEFINE V == Visited(mk, S)
<1>1. \A o : o \in V <=> o \in Obj /\ \A W \in SUBSET Obj : S \subseteq W /\ ClosedUnder(mk, W) => o \in W
  <2>1. \A W \in SUBSET Obj :
          {v \in {ref[o] : o \in {x \in W : Kind[x] # "weak"}} \ {NULL} : mk[v].color = "white"} \subseteq W
             <=> ClosedUnder(mk, W)
    BY DEF ClosedUnder
  <2> QED
    BY <2>1 DEF Visited
<1> HIDE DEF V
<1>2. ClosedUnder(mk, V)
  <2> SUFFICES ASSUME NEW o \in V, Kind[o] # "weak", ref[o] # NULL, mk[ref[o]].color = "white",
                      NEW W \in SUBSET Obj, S \subseteq W, ClosedUnder(mk, W)
               PROVE  ref[o] \in Obj /\ ref[o] \in W
    BY <1>1 DEF ClosedUnder, Pointer
  <2>1. o \in W /\ o \in Obj
    BY <1>1
  <2> QED
    BY <2>1 DEF ClosedUnder, Pointer
<1> QED
  BY <1>1, <1>2 DEF V

\* Marking leaves allocated objects that were white, or were to be visited.
LEMMA VisitedWhite ==
    ASSUME ref \in [Obj -> Pointer], NEW mk, NEW S \in SUBSET Obj
    PROVE  \A o \in Visited(mk, S) : o \in S \/ mk[o].color = "white"
<1> DEFINE W == S \cup {o \in Obj : mk[o].color = "white"}
<1>1. S \subseteq W /\ W \in SUBSET Obj /\ ClosedUnder(mk, W)
  BY DEF ClosedUnder, Pointer
<1>2. Visited(mk, S) \subseteq W
  BY <1>1, VisitedFacts
<1> QED
  BY <1>2

\* The fields that a collection finds and leaves.
HasFields(gl) ==
    gl \in [allgc : SUBSET Obj, survival : Pointer, old1 : Pointer, reallyold : Pointer,
           firstold1 : Pointer, finobj : SUBSET Obj, finobjsur : Pointer, finobjold1 : Pointer,
           finobjrold : Pointer, tobefnz : SUBSET Obj, gray : SUBSET Obj, grayagain : SUBSET Obj]
LEMMA SeparatedFields ==
    ASSUME NEW gl, HasFields(gl), NEW D
    PROVE  LET s == Separated(gl, D)
           IN  /\ s.allgc = gl.allgc /\ s.survival = gl.survival /\ s.old1 = gl.old1
               /\ s.reallyold = gl.reallyold /\ s.firstold1 = gl.firstold1
               /\ s.finobj = gl.finobj \ D /\ s.tobefnz = gl.tobefnz \cup D
               /\ s.finobjsur = (IF gl.finobjsur \in D THEN First(Rest(gl.finobj, gl.finobjsur) \ D)
                                 ELSE gl.finobjsur)
               /\ s.finobjold1 = gl.finobjold1 /\ s.finobjrold = gl.finobjrold
               /\ s.gray = gl.gray /\ s.grayagain = gl.grayagain
  BY DEF Separated, HasFields

\* atomic.
LEMMA AtomicFacts ==
    ASSUME ref \in [Obj -> Pointer], NEW mk, NEW gl, NEW S \in SUBSET Obj, HasFields(gl)
    PROVE  LET a == Atomic(mk, gl, S)
           IN  /\ S \subseteq a.visited /\ a.visited \subseteq Obj
               /\ \A o \in a.visited : o \in S \/ mk[o].color = "white"
               /\ a.ref \in [Obj -> Pointer] /\ \A o \in Obj : a.ref[o] \in {ref[o], NULL}
               /\ \A o \in a.visited : a.ref[o] # NULL /\ mk[a.ref[o]].color = "white"
                                       => a.ref[o] \in a.visited
               /\ \A o \in Obj : Kind[o] # "weak" => a.ref[o] = ref[o]
               /\ \E D \in SUBSET Upto(gl.finobj, gl.finobjold1) :
                     /\ a.g = Separated(gl, D) /\ a.before = SeparatedLinks(gl, D)
                     /\ \A o \in gl.tobefnz \cup D : mk[o].color = "white" => o \in a.visited
                     /\ \A o \in D : mk[o].color = "white"
<1> DEFINE V == Visited(mk, S)
           r1 == Cleared(ref, mk, V, V)
           D == Dying(mk, V, gl)
           fin == {o \in Separated(gl, D).tobefnz : mk[o].color = "white"}
           V2 == Visited(mk, V \cup fin)
           r2 == Cleared(r1, mk, V2 \ V, V2)
           a == Atomic(mk, gl, S)
<1>a. a = [visited |-> V2, ref |-> r2, g |-> Separated(gl, D), before |-> SeparatedLinks(gl, D)]
  BY DEF Atomic
<1>b. a.visited = V2 /\ a.ref = r2 /\ a.g = Separated(gl, D) /\ a.before = SeparatedLinks(gl, D)
  BY <1>a
<1>c. r1 = [o \in Obj |-> IF o \in V /\ Kind[o] = "weak" /\ ref[o] # NULL
                             /\ ref[o] \notin V /\ mk[ref[o]].color = "white" THEN NULL ELSE ref[o]]
  BY DEF Cleared
<1>d. r2 = [o \in Obj |-> IF o \in V2 \ V /\ Kind[o] = "weak" /\ r1[o] # NULL
                             /\ r1[o] \notin V2 /\ mk[r1[o]].color = "white" THEN NULL ELSE r1[o]]
  BY DEF Cleared
<1>e. D \subseteq Upto(gl.finobj, gl.finobjold1) /\ D \subseteq Obj /\ \A o \in D : mk[o].color = "white"
  BY DEF Dying, Upto, HasFields
<1>g. fin = {o \in Separated(gl, D).tobefnz : mk[o].color = "white"}
  OBVIOUS
<1> HIDE DEF V, r1, D, fin, V2, r2, a
<1>1. S \subseteq V /\ V \subseteq Obj /\ (\A o \in V : o \in S \/ mk[o].color = "white") /\ ClosedUnder(mk, V)
  BY VisitedFacts, VisitedWhite DEF V
<1>f. \A o \in gl.tobefnz \cup D : mk[o].color = "white" => o \in fin
  <2>1. Separated(gl, D).tobefnz = gl.tobefnz \cup D
    BY SeparatedFields
  <2> QED
    BY <2>1, <1>g
<1>h. fin \subseteq Obj /\ \A o \in fin : mk[o].color = "white"
  <2>1. Separated(gl, D).tobefnz = gl.tobefnz \cup D
    BY SeparatedFields
  <2> QED
    BY <2>1, <1>e, <1>g DEF HasFields
<1>2. /\ V \cup fin \subseteq V2 /\ V2 \subseteq Obj /\ ClosedUnder(mk, V2)
      /\ \A o \in V2 : o \in S \/ mk[o].color = "white"
  BY <1>1, <1>h, VisitedFacts, VisitedWhite DEF V2
<1>3. \A o \in Obj : r1[o] \in {ref[o], NULL} /\ r2[o] \in {r1[o], NULL}
  BY <1>c, <1>d
<1>4. r2 \in [Obj -> Pointer]
  <2>1. \A o \in Obj : r2[o] \in Pointer
    BY <1>3 DEF Pointer
  <2> QED
    BY <2>1, <1>d
<1>5. \A o \in V2 : r2[o] # NULL /\ mk[r2[o]].color = "white" => r2[o] \in V2
  <2> SUFFICES ASSUME NEW o \in V2, r2[o] # NULL, mk[r2[o]].color = "white"
               PROVE  r2[o] \in V2
    OBVIOUS
  <2>1. o \in Obj /\ r2[o] = r1[o] /\ r1[o] = ref[o]
    BY <1>2, <1>3
  <2>2. CASE Kind[o] # "weak"
    BY <2>1, <2>2, <1>2 DEF ClosedUnder
  <2>3. CASE Kind[o] = "weak" /\ o \in V
    BY <2>1, <2>3, <1>c, <1>2
  <2>4. CASE Kind[o] = "weak" /\ o \notin V
    BY <2>1, <2>4, <1>d
  <2> QED
    BY <2>2, <2>3, <2>4
<1>6. \A o \in Obj : Kind[o] # "weak" => r2[o] = ref[o]
  BY <1>c, <1>d
<1> QED
  BY <1>b, <1>e, <1>f, <1>1, <1>2, <1>3, <1>4, <1>5, <1>6 DEF a

-----------------------------------------------------------------------------
(* What a collection leaves of the lists.                                  *)

LEMMA SeparatedPairs ==
    ASSUME NEW gl, NEW D, NEW x, NEW y
    PROVE  <<x, y>> \in SeparatedLinks(gl, D) <=>
              \/ <<x, y>> \in before /\ (x \in D <=> y \in D)
              \/ x \in gl.tobefnz /\ y \in D
  BY DEF SeparatedLinks

\* The dying objects with a finalizer go behind the others of `tobefnz'.
LEMMA SeparatedLists ==
    ASSUME ListsOf(before, Live, g), NEW gl, HasFields(gl), gl.allgc = g.allgc,
           gl.finobj = g.finobj, gl.tobefnz = g.tobefnz, NEW D \in SUBSET g.finobj
    PROVE  ListsOf(SeparatedLinks(gl, D), Live, Separated(gl, D))
<1> DEFINE rel == SeparatedLinks(gl, D)
           T == g.tobefnz
<1>0. \A x, y : <<x, y>> \in rel <=> \/ <<x, y>> \in before /\ (x \in D <=> y \in D)
                                     \/ x \in T /\ y \in D
  BY SeparatedPairs
<1>1. /\ g.allgc \cap g.finobj = {} /\ g.allgc \cap T = {} /\ g.finobj \cap T = {}
      /\ Live = g.allgc \cup g.finobj \cup T
      /\ InOrder(before, g.allgc) /\ InOrder(before, g.finobj) /\ InOrder(before, T)
  BY DEF ListsOf
<1> HIDE DEF rel, T
<1>2. InOrder(rel, g.allgc)
  <2>1. \A x, y \in g.allgc : <<x, y>> \in rel <=> <<x, y>> \in before
    <3>1. g.allgc \cap D = {}
      BY <1>1
    <3> QED
      BY <1>0, <3>1
  <2> QED
    BY <1>1, <2>1, PartInOrder
<1>3. InOrder(rel, g.finobj \ D)
  <2>1. \A x, y \in g.finobj \ D : <<x, y>> \in rel <=> <<x, y>> \in before
    BY <1>0, <1>1
  <2> QED
    BY <1>1, <2>1, PartInOrder
<1>4. InOrder(rel, T)
  <2>1. \A x, y \in T : <<x, y>> \in rel <=> <<x, y>> \in before
    BY <1>0, <1>1
  <2> QED
    BY <1>1, <2>1, PartInOrder
<1>5. InOrder(rel, D)
  <2>1. \A x, y \in D : <<x, y>> \in rel <=> <<x, y>> \in before
    BY <1>0, <1>1
  <2> QED
    BY <1>1, <2>1, PartInOrder
<1>6. \A x \in T, y \in D : <<x, y>> \in rel /\ <<y, x>> \notin rel
  BY <1>0, <1>1
<1>7. InOrder(rel, T \cup D)
  <2>1. \A x, y \in T \cup D : <<x, y>> \in rel => <<y, x>> \notin rel
    BY <1>4, <1>5, <1>6 DEF InOrder
  <2>2. ASSUME NEW x \in T \cup D, NEW y \in T \cup D, NEW z \in T \cup D,
               <<x, y>> \in rel, <<y, z>> \in rel
        PROVE  <<x, z>> \in rel
    <3>1. CASE x \in T /\ z \in D
      BY <3>1, <1>6
    <3>2. CASE x \in T /\ z \in T
      <4>1. y \in T
        BY <2>2, <3>2, <1>6
      <4> QED
        BY <4>1, <3>2, <2>2, <1>4 DEF InOrder
    <3>3. CASE x \in D
      <4>1. y \in D
        BY <2>2, <3>3, <1>6
      <4>2. z \in D
        BY <2>2, <4>1, <1>6
      <4> QED
        BY <4>1, <4>2, <3>3, <2>2, <1>5 DEF InOrder
    <3> QED
      BY <3>1, <3>2, <3>3
  <2>3. ASSUME NEW S \in SUBSET (T \cup D), S # {}
        PROVE  \E x \in S : \A y \in S \ {x} : <<x, y>> \in rel
    <3>1. CASE S \cap T = {}
      <4>1. S \in SUBSET D
        BY <3>1
      <4> QED
        BY <4>1, <2>3, <1>5 DEF InOrder
    <3>2. CASE S \cap T # {}
      <4>1. PICK x \in S \cap T : \A y \in (S \cap T) \ {x} : <<x, y>> \in rel
        <5>1. S \cap T \in SUBSET T
          OBVIOUS
        <5> QED
          BY <5>1, <3>2, <1>4 DEF InOrder
      <4>2. \A y \in S \ {x} : <<x, y>> \in rel
        BY <4>1, <1>6
      <4> QED
        BY <4>1, <4>2
    <3> QED
      BY <3>1, <3>2
  <2> QED
    BY <2>1, <2>2, <2>3 DEF InOrder
<1>8. /\ Separated(gl, D).allgc = g.allgc /\ Separated(gl, D).finobj = g.finobj \ D
      /\ Separated(gl, D).tobefnz = T \cup D
  <2>1. /\ Separated(gl, D).allgc = gl.allgc /\ Separated(gl, D).finobj = gl.finobj \ D
        /\ Separated(gl, D).tobefnz = gl.tobefnz \cup D
    BY DEF Separated, HasFields
  <2> QED
    BY <2>1 DEF T
<1>9. /\ Live = g.allgc \cup (g.finobj \ D) \cup (T \cup D)
      /\ g.allgc \cap (g.finobj \ D) = {} /\ g.allgc \cap (T \cup D) = {}
      /\ (g.finobj \ D) \cap (T \cup D) = {}
  BY <1>1
<1> QED
  BY <1>2, <1>3, <1>7, <1>8, <1>9 DEF ListsOf, rel

\* The objects that are kept stay in their lists, in order.
LEMMA KeptLists ==
    ASSUME NEW rel, NEW live, NEW gl, ListsOf(rel, live, gl), NEW alive \in SUBSET live,
           NEW new, new.allgc = gl.allgc \cap alive, new.finobj = gl.finobj \cap alive,
           new.tobefnz = gl.tobefnz \cap alive
    PROVE  ListsOf(Kept(rel, alive), alive, new)
<1>1. \A x, y \in alive : <<x, y>> \in Kept(rel, alive) <=> <<x, y>> \in rel
  BY DEF Kept
<1>2. ASSUME NEW list, InOrder(rel, list)
      PROVE  InOrder(Kept(rel, alive), list \cap alive)
  <2>1. list \cap alive \in SUBSET list
    OBVIOUS
  <2>2. \A x, y \in list \cap alive : <<x, y>> \in Kept(rel, alive) <=> <<x, y>> \in rel
    BY <1>1
  <2> QED
    BY <1>2, <2>1, <2>2, PartInOrder
<1> QED
  BY <1>2 DEF ListsOf

-----------------------------------------------------------------------------
(* Major collections.                                                      *)

LEMMA MarkFields == \A age, c : Mark(age, c).age = age /\ Mark(age, c).color = c
  BY DEF Mark
LEMMA HasFieldsNow == Types => HasFields(g)
  BY DEF Types, HasFields
LEMMA NoPointersFields ==
    ASSUME Types
    PROVE  /\ HasFields(NoPointers(g)) /\ NoPointers(g).allgc = g.allgc
           /\ NoPointers(g).finobj = g.finobj /\ NoPointers(g).tobefnz = g.tobefnz
<1>1. NULL \in Pointer
  BY DEF Pointer
<1> QED
  BY <1>1 DEF Types, HasFields, NoPointers

\* A list in which everything is old, and its pointers.
LEMMA OldDivided ==
    ASSUME NEW list, InOrder(before, list), NULL \notin list, NEW rel, NEW mk,
           \A x, y \in list : <<x, y>> \in rel <=> <<x, y>> \in before,
           \A o \in list : mk[o].age = G_OLD /\ mk[o].color # "white"
    PROVE  /\ First(list) \in list \cup {NULL}
           /\ DividedBy(rel, mk, list, First(list), First(list), First(list))
<1>1. First(list) \in list \cup {NULL} /\ After(rel, list, First(list)) = list
  <2>1. list \in SUBSET list /\ \A x \in list, y \in list : <<x, y>> \in before => y \in list
    OBVIOUS
  <2> QED
    BY <2>1, AfterFirst
<1> QED
  BY <1>1 DEF DividedBy, G_NEW, G_OLD, G_OLD0, G_OLD1

\* The marks and references that a cycle from the pause leaves.
LEMMA CycleFacts ==
    ASSUME IInv
    PROVE  /\ stack \cup g.tobefnz \subseteq Cycle.visited /\ Cycle.visited \subseteq Live
           /\ Cycle.ref \in [Obj -> Pointer] /\ \A o \in Obj : Cycle.ref[o] \in {ref[o], NULL}
           /\ \A o \in Cycle.visited : Cycle.ref[o] # NULL => Cycle.ref[o] \in Cycle.visited
           /\ \E D \in SUBSET g.finobj :
                 /\ Cycle.g = Separated(NoPointers(g), D)
                 /\ Cycle.before = SeparatedLinks(NoPointers(g), D)
                 /\ g.tobefnz \cup D \subseteq Cycle.visited
<1> DEFINE mk == Whitened
           gl == NoPointers(g)
           S == stack \cup g.tobefnz
           a == Atomic(mk, gl, S)
<1>0. a = Cycle
  BY DEF Cycle
<1>1. S \in SUBSET Obj /\ S \subseteq Live /\ ref \in [Obj -> Pointer]
  BY LiveObj DEF IInv, Types, References
<1>2. \A o \in Live : mk[o].color = "white"
  BY LiveObj DEF Whitened, Newborn
<1>3. \A o \in Obj : mk[o].color = "white" => o \in Live
  BY DEF Whitened, Live
<1>4. HasFields(gl) /\ gl.finobj = g.finobj /\ gl.tobefnz = g.tobefnz
  BY NoPointersFields DEF IInv
<1> HIDE DEF mk, gl, S
<1>5. /\ S \subseteq a.visited /\ a.visited \subseteq Obj
      /\ \A o \in a.visited : o \in S \/ mk[o].color = "white"
      /\ a.ref \in [Obj -> Pointer] /\ \A o \in Obj : a.ref[o] \in {ref[o], NULL}
      /\ \A o \in a.visited : a.ref[o] # NULL /\ mk[a.ref[o]].color = "white"
                              => a.ref[o] \in a.visited
      /\ \E D \in SUBSET Upto(gl.finobj, gl.finobjold1) :
            /\ a.g = Separated(gl, D) /\ a.before = SeparatedLinks(gl, D)
            /\ \A o \in gl.tobefnz \cup D : mk[o].color = "white" => o \in a.visited
            /\ \A o \in D : mk[o].color = "white"
  BY <1>1, <1>4, AtomicFacts
<1> HIDE DEF a
<1>6. a.visited \subseteq Live
  BY <1>1, <1>3, <1>5
<1>7. ASSUME NEW o \in a.visited, a.ref[o] # NULL
      PROVE  a.ref[o] \in a.visited
  <2>1. o \in Live /\ a.ref[o] = ref[o] /\ ref[o] # NULL
    BY <1>5, <1>6, <1>7
  <2>2. ref[o] \in Live
    BY <2>1 DEF IInv, References
  <2> QED
    BY <2>1, <2>2, <1>2, <1>5
<1>8. \E D \in SUBSET g.finobj :
        /\ a.g = Separated(gl, D) /\ a.before = SeparatedLinks(gl, D)
        /\ g.tobefnz \cup D \subseteq a.visited
  <2>1. PICK D \in SUBSET Upto(gl.finobj, gl.finobjold1) :
            /\ a.g = Separated(gl, D) /\ a.before = SeparatedLinks(gl, D)
            /\ \A o \in gl.tobefnz \cup D : mk[o].color = "white" => o \in a.visited
            /\ \A o \in D : mk[o].color = "white"
    BY <1>5
  <2>2. D \in SUBSET g.finobj
    BY <2>1, <1>4 DEF Upto
  <2>3. g.tobefnz \subseteq Live /\ g.finobj \subseteq Live
    BY DEF IInv, Lists
  <2>4. \A o \in g.tobefnz \cup D : o \in a.visited
    BY <2>1, <2>2, <2>3, <1>2, <1>4
  <2> QED
    BY <2>1, <2>2, <2>4
<1> QED
  BY <1>0, <1>5, <1>6, <1>7, <1>8 DEF S, gl

LEMMA FullGenKeeps ==
    ASSUME IInv, FullGen
    PROVE  IInv'
<1> USE DEF IsOldAge, G_NEW, G_SURVIVAL, G_OLD0, G_OLD1, G_OLD, G_TOUCHED1, G_TOUCHED2
<1> DEFINE a == Cycle
           V == a.visited
           allgc == a.g.allgc \cap V
           finobj == a.g.finobj \cap V
           gl == NoPointers(g)
<1>1. /\ mark' = AllOld(V) /\ ref' = a.ref /\ UNCHANGED <<Obj, stack>>
      /\ before' = Kept(a.before, V)
      /\ g' = [a.g EXCEPT
               !.allgc = allgc, !.finobj = finobj, !.firstold1 = NULL,
               !.survival = First(allgc), !.old1 = First(allgc), !.reallyold = First(allgc),
               !.finobjsur = First(finobj), !.finobjold1 = First(finobj),
               !.finobjrold = First(finobj), !.gray = {}, !.grayagain = {o \in V : Thread(o)}]
  BY DEF FullGen
<1>2. /\ stack \cup g.tobefnz \subseteq V /\ V \subseteq Live
      /\ a.ref \in [Obj -> Pointer] /\ \A o \in Obj : a.ref[o] \in {ref[o], NULL}
      /\ \A o \in V : a.ref[o] # NULL => a.ref[o] \in V
  BY CycleFacts
<1>3. PICK D \in SUBSET g.finobj : /\ a.g = Separated(gl, D) /\ a.before = SeparatedLinks(gl, D)
                                   /\ g.tobefnz \cup D \subseteq V
  BY CycleFacts
<1>4. HasFields(gl) /\ gl.allgc = g.allgc /\ gl.finobj = g.finobj /\ gl.tobefnz = g.tobefnz
  BY NoPointersFields DEF IInv
<1> HIDE DEF gl, a
<1>5. /\ a.g.allgc = g.allgc /\ a.g.finobj = g.finobj \ D /\ a.g.tobefnz = g.tobefnz \cup D
      /\ HasFields(a.g)
  <2>1. a.g.allgc = g.allgc /\ a.g.finobj = g.finobj \ D /\ a.g.tobefnz = g.tobefnz \cup D
    BY <1>3, <1>4 DEF Separated, HasFields
  <2>2. Separated(gl, D) \in [allgc : SUBSET Obj, survival : Pointer, old1 : Pointer, reallyold : Pointer,
              firstold1 : Pointer, finobj : SUBSET Obj, finobjsur : Pointer, finobjold1 : Pointer,
              finobjrold : Pointer, tobefnz : SUBSET Obj, gray : SUBSET Obj, grayagain : SUBSET Obj]
    <3>1. g.finobj \subseteq Obj /\ g.tobefnz \subseteq Obj
      BY DEF IInv, Types
    <3>2. gl.finobjsur = NULL /\ NULL \notin D
      <4>1. gl.finobjsur = NULL
        BY DEF gl, NoPointers, IInv, Types
      <4>2. NULL \notin Obj
        BY ProgramsAssumption DEF IInv, Types
      <4> QED
        BY <4>1, <4>2, <3>1
    <3>3. Separated(gl, D) = [gl EXCEPT !.finobj = @ \ D, !.tobefnz = @ \cup D]
      BY <3>2, <1>4 DEF Separated, HasFields
    <3> QED
      BY <3>1, <3>3, <1>4 DEF HasFields
  <2> QED
    BY <2>1, <2>2, <1>3 DEF HasFields
<1>6. V \subseteq Obj /\ NULL \notin Obj
  BY <1>2, LiveObj, ProgramsAssumption DEF IInv, Types
<1>7. \A o \in V : mark'[o] = Mark(G_OLD, IF Thread(o) THEN "gray" ELSE "black")
  BY <1>1, <1>6 DEF AllOld, Mark
<1>8. \A o \in Obj \ V : mark'[o] = Mark(mark[o].age, "free")
  <2> SUFFICES ASSUME NEW o \in Obj \ V PROVE mark'[o] = Mark(mark[o].age, "free")
    OBVIOUS
  <2>1. mark[o] = Mark(mark[o].age, mark[o].color)
    BY MarkTypes DEF IInv, Age
  <2>2. mark'[o] = [mark[o] EXCEPT !.color = "free"]
    BY <1>1 DEF AllOld
  <2> QED
    BY <2>1, <2>2 DEF Mark
<1>9. \A o \in V : /\ Age(o)' = G_OLD /\ ~White(o)' /\ mark'[o].age = G_OLD
                   /\ mark'[o].color = (IF Thread(o) THEN "gray" ELSE "black")
                   /\ (mark'[o].color = "gray" <=> Thread(o))
  <2> SUFFICES ASSUME NEW o \in V
               PROVE  /\ mark'[o].age = G_OLD
                      /\ mark'[o].color = (IF Thread(o) THEN "gray" ELSE "black")
    BY DEF Age, White
  <2> QED
    BY <1>7, MarkFields
<1>10. Live' = V
  <2>1. \A o \in V : mark'[o].color # "free"
    BY <1>9
  <2>2. \A o \in Obj \ V : mark'[o].color = "free"
    BY <1>8, MarkFields
  <2> QED
    BY <2>1, <2>2, <1>1, <1>6 DEF Live
<1>f. /\ g'.allgc = allgc /\ g'.finobj = finobj /\ g'.firstold1 = NULL
      /\ g'.survival = First(allgc) /\ g'.old1 = First(allgc) /\ g'.reallyold = First(allgc)
      /\ g'.finobjsur = First(finobj) /\ g'.finobjold1 = First(finobj)
      /\ g'.finobjrold = First(finobj) /\ g'.gray = {} /\ g'.grayagain = {o \in V : Thread(o)}
      /\ g'.tobefnz = a.g.tobefnz
  BY <1>1, <1>5 DEF HasFields
<1>11. Lists'
  <2>1. ListsOf(before, Live, g)
    BY ListsIs DEF IInv
  <2>2. ListsOf(a.before, Live, a.g)
    BY <2>1, <1>3, <1>4, SeparatedLists
  <2>3. g'.allgc = a.g.allgc \cap V /\ g'.finobj = a.g.finobj \cap V /\ g'.tobefnz = a.g.tobefnz \cap V
    BY <1>f, <1>3, <1>5
  <2>4. V \in SUBSET Live
    BY <1>2
  <2>5. ListsOf(Kept(a.before, V), V, g')
    BY <2>2, <2>3, <2>4, KeptLists
  <2> QED
    BY <2>5, <1>1, <1>10, ListsNext
<1>12. /\ InOrder(before, allgc) /\ \A x, y \in allgc : <<x, y>> \in before' <=> <<x, y>> \in before
       /\ InOrder(before, finobj) /\ \A x, y \in finobj : <<x, y>> \in before' <=> <<x, y>> \in before
  <2>1. \A x, y \in V : <<x, y>> \in before' <=> <<x, y>> \in a.before
    BY <1>1 DEF Kept
  <2>2. \A x, y : <<x, y>> \in a.before <=> \/ <<x, y>> \in before /\ (x \in D <=> y \in D)
                                            \/ x \in g.tobefnz /\ y \in D
    BY <1>3, <1>4 DEF SeparatedLinks
  <2>3. allgc \in SUBSET g.allgc /\ finobj \in SUBSET g.finobj /\ allgc \cap D = {} /\ finobj \cap D = {}
    BY <1>5 DEF IInv, Lists
  <2>4. InOrder(before, allgc) /\ InOrder(before, finobj)
    <3>1. InOrder(before, g.allgc) /\ InOrder(before, g.finobj)
      BY DEF IInv, Lists
    <3> QED
      BY <3>1, <2>3, PartInOrder
  <2>5. \A x, y \in allgc : <<x, y>> \in before' <=> <<x, y>> \in before
    BY <2>1, <2>2, <2>3
  <2>6. \A x, y \in finobj : <<x, y>> \in before' <=> <<x, y>> \in before
    BY <2>1, <2>2, <2>3
  <2> QED
    BY <2>4, <2>5, <2>6
<1>13. /\ First(allgc) \in allgc \cup {NULL}
       /\ DividedBy(before', mark', allgc, First(allgc), First(allgc), First(allgc))
  <2>1. NULL \notin allgc /\ \A o \in allgc : mark'[o].age = G_OLD /\ mark'[o].color # "white"
    BY <1>6, <1>9
  <2> HIDE DEF allgc
  <2> QED
    BY <2>1, <1>12, OldDivided
<1>14. /\ First(finobj) \in finobj \cup {NULL}
       /\ DividedBy(before', mark', finobj, First(finobj), First(finobj), First(finobj))
  <2>1. NULL \notin finobj /\ \A o \in finobj : mark'[o].age = G_OLD /\ mark'[o].color # "white"
    BY <1>6, <1>9
  <2> HIDE DEF finobj
  <2> QED
    BY <2>1, <1>12, OldDivided
<1>15. Pointers'
  <2>1. FirstFound(before', mark', allgc, NULL)
    BY <1>9 DEF FirstFound
  <2> HIDE DEF allgc, finobj
  <2> QED
    BY <2>1, <1>13, <1>14, <1>f, PointersNext DEF PointersOf
<1>16. References'
  <2>1. ASSUME NEW o \in V, ref'[o] # NULL
        PROVE  ref'[o] \in V /\ (Kind[o] = "closure" <=> Kind[ref'[o]] = "upval")
    <3>1. ref'[o] = ref[o] /\ ref'[o] \in V /\ o \in Live /\ ref[o] # NULL
      BY <2>1, <1>1, <1>2, <1>6
    <3> QED
      BY <3>1 DEF IInv, References
  <2>2. \A o \in stack \cup g'.finobj \cup g'.tobefnz : o \in V /\ Kind[o] # "upval"
    <3>1. \A o \in stack \cup g.finobj \cup g.tobefnz : Kind[o] # "upval"
      BY DEF IInv, References
    <3> QED
      BY <3>1, <1>2, <1>3, <1>5, <1>f
  <2> QED
    BY <2>1, <2>2, <1>1, <1>10 DEF References
<1>17. GrayLists'
  BY <1>9, <1>10, <1>f DEF GrayLists, Black
<1>18. OldRefersToOld' /\ NextOldRefersToNoNew'
  <2>1. \A o \in V : ref'[o] # NULL => mark'[ref'[o]].age = G_OLD
    BY <1>1, <1>2, <1>9
  <2> QED
    BY <2>1, <1>9, <1>10 DEF OldRefersToOld, NextOldRefersToNoNew, Age
<1>19. Types'
  <2>1. mark' \in [Obj -> [age : Ages, color : Colors]]
    <3>1. \A o \in Obj : mark'[o] \in [age : Ages, color : Colors]
      <4> SUFFICES ASSUME NEW o \in Obj PROVE mark'[o] \in [age : Ages, color : Colors]
        OBVIOUS
      <4>1. mark[o].age \in Ages
        BY MarkTypes DEF IInv, Age
      <4>2. G_OLD \in Ages
        BY DEF Ages
      <4>3. {"gray", "black", "free"} \subseteq Colors
        BY DEF Colors
      <4>m. \A age \in Ages, c \in Colors : Mark(age, c) \in [age : Ages, color : Colors]
        BY DEF Mark
      <4>4. CASE o \in V
        BY <4>2, <4>3, <4>4, <4>m, <1>7
      <4>5. CASE o \notin V
        BY <4>1, <4>3, <4>5, <4>m, <1>8
      <4> QED
        BY <4>4, <4>5
    <3>2. mark' = [o \in Obj |-> mark'[o]]
      BY <1>1 DEF AllOld
    <3> QED
      BY <3>1, <3>2
  <2>2. before' \in SUBSET (Obj \X Obj)
    <3>1. a.before \subseteq Obj \X Obj
      <4>1. before \in SUBSET (Obj \X Obj) /\ g.tobefnz \subseteq Obj /\ g.finobj \subseteq Obj
        BY DEF IInv, Types
      <4>2. \A p \in a.before : p \in before \/ p \in gl.tobefnz \X D
        BY <1>3 DEF SeparatedLinks
      <4> QED
        BY <4>1, <4>2, <1>4
    <3> QED
      BY <3>1, <1>1 DEF Kept
  <2>3. First(allgc) \in Pointer /\ First(finobj) \in Pointer /\ NULL \in Pointer
    BY <1>6, <1>13, <1>14 DEF Pointer
  <2>4. HasFields(g')
    <3>1. allgc \in SUBSET Obj /\ finobj \in SUBSET Obj /\ {} \in SUBSET Obj
          /\ {o \in V : Thread(o)} \in SUBSET Obj
      BY <1>6
    <3> HIDE DEF allgc, finobj
    <3> QED
      BY <2>3, <3>1, <1>1, <1>5 DEF HasFields
  <2>5. Obj' = Obj /\ Pointer' = Pointer /\ ref' \in [Obj -> Pointer] /\ Obj \in Programs
    BY <1>1, <1>2 DEF IInv, Types, Pointer
  <2> QED
    BY <2>1, <2>2, <2>4, <2>5 DEF Types, HasFields, Ages
<1> QED
  BY <1>11, <1>15, <1>16, <1>17, <1>18, <1>19 DEF IInv

-----------------------------------------------------------------------------
(* Young collections.                                                      *)

\* The pointers find every object that has just become old.
LEMMA OldFound ==
    ASSUME IInv
    PROVE  \A o : o \in MarkOld <=> o \in Live /\ Age(o) = G_OLD1
<1>1. /\ Live = g.allgc \cup g.finobj \cup g.tobefnz
      /\ Divided(g.allgc, g.survival, g.old1, g.reallyold)
      /\ Divided(g.finobj, g.finobjsur, g.finobjold1, g.finobjrold)
      /\ Old1In(g.allgc) \subseteq Rest(g.allgc, g.firstold1)
  BY DEF IInv, Lists, Pointers
<1>2. Old1In(g.finobj) \subseteq Upto(g.finobj, g.finobjrold)
  BY <1>1 DEF Divided, Old1In, Rest
<1>3. Old1In(g.allgc) \subseteq Upto(g.allgc, g.reallyold)
  BY <1>1 DEF Divided, Old1In, Rest
<1>4. ASSUME NEW o \in Old1In(g.allgc)
      PROVE  g.firstold1 # NULL /\ o \in Old1In(Range1(g.firstold1, g.reallyold))
  <2>1. o \in Rest(g.allgc, g.firstold1) /\ o \in Upto(g.allgc, g.reallyold) /\ o \in g.allgc
    BY <1>1, <1>3 DEF Old1In
  <2>2. g.firstold1 # NULL
    BY <2>1 DEF Rest, Upto
  <2>3. o \in Range1(g.firstold1, g.reallyold)
    BY <2>1 DEF Range1, Upto
  <2> QED
    BY <2>2, <2>3 DEF Old1In
<1>5. Range1(g.firstold1, g.reallyold) \subseteq g.allgc /\ Upto(g.finobj, g.finobjrold) \subseteq g.finobj
  BY DEF Range1, Rest, Upto
<1>6. ASSUME NEW o \in MarkOld
      PROVE  o \in Live /\ Age(o) = G_OLD1
  BY <1>1, <1>5 DEF MarkOld, Old1In
<1>7. ASSUME NEW o \in Live, Age(o) = G_OLD1
      PROVE  o \in MarkOld
  <2>1. CASE o \in g.allgc
    BY <2>1, <1>4, <1>7 DEF MarkOld, Old1In
  <2>2. CASE o \in g.finobj
    BY <2>2, <1>2, <1>7 DEF MarkOld, Old1In
  <2>3. CASE o \in g.tobefnz
    BY <2>3, <1>7 DEF MarkOld, Old1In
  <2> QED
    BY <2>1, <2>2, <2>3, <1>1
<1> QED
  BY <1>6, <1>7

\* What sweepgen goes through is at least everything before `old1'.
LEMMA YoungPart ==
    ASSUME NEW list, NEW p, NEW q
    PROVE  /\ Nursery(list, p) \cup Surviving(list, p, q) \subseteq list
           /\ \A o \in list : o \notin Rest(list, q) => o \in Nursery(list, p) \cup Surviving(list, p, q)
  BY DEF Nursery, Surviving, Rest, Upto

\* The ages after markold.
LEMMA OldMarkedFacts ==
    ASSUME IInv
    PROVE  \A o \in Obj : OldMarked[o] = Mark(IF o \in MarkOld THEN G_OLD ELSE Age(o), mark[o].color)
<1> SUFFICES ASSUME NEW o \in Obj
             PROVE  OldMarked[o] = Mark(IF o \in MarkOld THEN G_OLD ELSE Age(o), mark[o].color)
  OBVIOUS
<1>1. mark[o] = Mark(Age(o), mark[o].color)
  BY MarkTypes DEF IInv
<1>2. OldMarked[o] = IF o \in MarkOld THEN [mark[o] EXCEPT !.age = G_OLD] ELSE mark[o]
  BY DEF OldMarked
<1>3. [Mark(Age(o), mark[o].color) EXCEPT !.age = G_OLD] = Mark(G_OLD, mark[o].color)
  BY DEF Mark
<1> QED
  BY <1>1, <1>2, <1>3

\* What a young collection starts from: every old object, except those that refer to
\* old objects only.
YoungRoots == {o \in MarkOld : Black(o)} \cup g.gray \cup g.grayagain \cup WhiteIn(stack)
LEMMA YoungRootsFacts ==
    ASSUME IInv
    PROVE  /\ YoungRoots \subseteq Live
           /\ \A o \in Live : IsOldAge(Age(o)) /\ (Thread(o) \/ Age(o) # G_OLD) => o \in YoungRoots
           /\ \A o \in Live : o \in g.gray \cup g.grayagain /\ Age(o) = G_OLD => Thread(o)
           /\ \A o \in stack : White(o) => o \in YoungRoots
<1> USE DEF IsOldAge, G_NEW, G_SURVIVAL, G_OLD0, G_OLD1, G_OLD, G_TOUCHED1, G_TOUCHED2
<1>1. YoungRoots \subseteq Live
  BY OldFound DEF IInv, YoungRoots, GrayLists, WhiteIn, References
<1>2. ASSUME NEW o \in Live, IsOldAge(Age(o)), Thread(o) \/ Age(o) # G_OLD
      PROVE  o \in YoungRoots
  <2>0. Age(o) \in {2, 3, 4, 5, 6}
    BY <1>2, LiveObj, MarkTypes, AgeValues DEF IInv
  <2>1. CASE Age(o) \in {G_OLD0, G_TOUCHED1, G_TOUCHED2}
    BY <2>1 DEF IInv, GrayLists, YoungRoots
  <2>2. CASE Age(o) = G_OLD
    BY <2>2, <1>2 DEF IInv, GrayLists, YoungRoots
  <2>3. CASE Age(o) = G_OLD1
    <3>1. o \in MarkOld /\ ~White(o)
      BY <2>3, <1>2, OldFound DEF IInv, GrayLists
    <3>2. mark[o].color \in {"black", "gray"}
      BY <3>1, <1>2, LiveObj, MarkTypes DEF IInv, White, Live, Colors
    <3>3. CASE mark[o].color = "black"
      BY <3>1, <3>3 DEF YoungRoots, Black
    <3>4. CASE mark[o].color = "gray"
      BY <3>4, <1>2 DEF IInv, GrayLists, YoungRoots
    <3> QED
      BY <3>2, <3>3, <3>4
  <2> QED
    BY <2>0, <2>1, <2>2, <2>3
<1>3. \A o \in Live : o \in g.gray \cup g.grayagain /\ Age(o) = G_OLD => Thread(o)
  BY DEF IInv, GrayLists
<1>4. \A o \in stack : White(o) => o \in YoungRoots
  <2>1. \A o \in stack : o # NULL
    BY LiveObj, MarkTypes DEF IInv, References
  <2> QED
    BY <2>1 DEF YoungRoots, WhiteIn
<1> QED
  BY <1>1, <1>2, <1>3, <1>4

LEMMA YoungAtomicFacts ==
    ASSUME IInv
    PROVE  LET a == YoungAtomic(OldMarked)
           IN  /\ YoungRoots \subseteq a.visited /\ a.visited \subseteq Live
               /\ \A o \in a.visited : o \in YoungRoots \/ White(o)
               /\ a.ref \in [Obj -> Pointer] /\ \A o \in Obj : a.ref[o] \in {ref[o], NULL}
               /\ \A o \in a.visited : a.ref[o] # NULL /\ White(a.ref[o]) => a.ref[o] \in a.visited
               /\ \E D \in SUBSET Upto(g.finobj, g.finobjold1) :
                     /\ a.g = Separated(g, D) /\ a.before = SeparatedLinks(g, D)
                     /\ \A o \in g.tobefnz \cup D : White(o) => o \in a.visited
                     /\ \A o \in D : White(o)
<1> DEFINE mk == OldMarked
           a == Atomic(mk, g, YoungRoots)
<1>0. a = YoungAtomic(OldMarked)
  BY DEF YoungAtomic, YoungRoots
<1>1. YoungRoots \subseteq Live /\ YoungRoots \in SUBSET Obj /\ ref \in [Obj -> Pointer] /\ HasFields(g)
  BY YoungRootsFacts, LiveObj, HasFieldsNow DEF IInv, Types
<1>2. \A o \in Obj : mk[o].color = mark[o].color
  BY OldMarkedFacts, MarkFields
<1> HIDE DEF mk
<1>3. /\ YoungRoots \subseteq a.visited /\ a.visited \subseteq Obj
      /\ \A o \in a.visited : o \in YoungRoots \/ mk[o].color = "white"
      /\ a.ref \in [Obj -> Pointer] /\ \A o \in Obj : a.ref[o] \in {ref[o], NULL}
      /\ \A o \in a.visited : a.ref[o] # NULL /\ mk[a.ref[o]].color = "white"
                              => a.ref[o] \in a.visited
      /\ \E D \in SUBSET Upto(g.finobj, g.finobjold1) :
            /\ a.g = Separated(g, D) /\ a.before = SeparatedLinks(g, D)
            /\ \A o \in g.tobefnz \cup D : mk[o].color = "white" => o \in a.visited
            /\ \A o \in D : mk[o].color = "white"
  BY <1>1, AtomicFacts
<1> HIDE DEF a
<1>4. \A o \in a.visited : o \in YoungRoots \/ White(o)
  BY <1>2, <1>3 DEF White
<1>5. a.visited \subseteq Live
  BY <1>1, <1>3, <1>4 DEF White, Live
<1>6. \A o \in a.visited : a.ref[o] # NULL /\ White(a.ref[o]) => a.ref[o] \in a.visited
  <2>1. \A o \in Obj : a.ref[o] # NULL => a.ref[o] \in Obj
    BY <1>3 DEF Pointer
  <2> QED
    BY <2>1, <1>2, <1>3 DEF White
<1>7. \E D \in SUBSET Upto(g.finobj, g.finobjold1) :
            /\ a.g = Separated(g, D) /\ a.before = SeparatedLinks(g, D)
            /\ \A o \in g.tobefnz \cup D : White(o) => o \in a.visited
            /\ \A o \in D : White(o)
  <2>1. PICK D \in SUBSET Upto(g.finobj, g.finobjold1) :
            /\ a.g = Separated(g, D) /\ a.before = SeparatedLinks(g, D)
            /\ \A o \in g.tobefnz \cup D : mk[o].color = "white" => o \in a.visited
            /\ \A o \in D : mk[o].color = "white"
    BY <1>3
  <2>2. \A o \in g.tobefnz \cup D : o \in Obj
    BY <2>1 DEF IInv, Types, Upto
  <2> QED
    BY <2>1, <2>2, <1>2 DEF White
<1> QED
  BY <1>0, <1>3, <1>4, <1>5, <1>6, <1>7

\* What the parts of a collection do to the mark of one object.
LEMMA AfterVisitIs ==
    \A mk, o : AfterVisit(mk, o) = Mark(IF mk[o].age = G_TOUCHED2 THEN G_OLD ELSE mk[o].age,
                                        IF LinkedAgain(mk, o) THEN "gray" ELSE "black")
  BY DEF AfterVisit, Mark
LEMMA SweptIs ==
    \A age, c : Swept(Mark(age, c)) = IF c = "white" THEN Mark(age, "free")
                                      ELSE IF age = G_NEW THEN Mark(G_SURVIVAL, "white")
                                      ELSE Mark(NextAge(age), c)
  BY DEF Swept, Mark
LEMMA CorrectGrayIs ==
    \A o, age, c :
       CorrectGray(o, Mark(age, c)) =
          IF c \in {"white", "free"} THEN Mark(age, c)
          ELSE IF age \in {G_TOUCHED1, G_TOUCHED2}
               THEN Mark(IF age = G_TOUCHED1 THEN G_TOUCHED2 ELSE G_OLD, "black")
          ELSE IF Thread(o) THEN Mark(age, c) ELSE Mark(age, "black")
  BY DEF CorrectGray, AdvanceTouched, Mark

\* A whole collection.
AgeAfter(age) == CASE age = G_NEW -> G_SURVIVAL
                   [] age \in {G_SURVIVAL, G_OLD0} -> G_OLD1
                   [] age = G_TOUCHED1 -> G_TOUCHED2
                   [] OTHER -> G_OLD
StaysLinked(o) == Thread(o) /\ IsOldAge(Age(o)) /\ Age(o) # G_TOUCHED1
ColorAfter(o) == IF Age(o) = G_NEW THEN "white" ELSE IF StaysLinked(o) THEN "gray" ELSE "black"
MarkAfter(o) == Mark(AgeAfter(Age(o)), ColorAfter(o))

\* mk1 to mk4 are the marks of an object o, visited, in the young part, and linked or not.
LEMMA LiveMark ==
    ASSUME NEW mk, NEW V, NEW young, NEW o \in Obj, mk[o].age \in Ages,
           Age(o) \in Ages, mk[o].age = (IF Age(o) = G_OLD1 THEN G_OLD ELSE Age(o)),
           mk[o].color # "white" \/ o \in V, mk[o].color # "free",
           o \in V \/ (Age(o) = G_OLD /\ ~Thread(o) /\ mk[o] = Mark(G_OLD, "black")),
           o \in young \/ ~(Age(o) \in {G_NEW, G_SURVIVAL, G_OLD0})
    PROVE  LET mk3 == SweptMarks(Propagated(mk, V), young)
               mk4 == Corrects(mk3, Linked(mk, V))
           IN  /\ mk4[o] = MarkAfter(o) /\ mk3[o].color # "free"
               /\ mk3[o].age = G_OLD1 <=> AgeAfter(Age(o)) = G_OLD1
               /\ o \in Linked(mk, V) /\ StaysGray(o, mk4[o]) <=>
                     o \in V /\ (Age(o) = G_TOUCHED1 \/ StaysLinked(o))
<1> USE DEF G_NEW, G_SURVIVAL, G_OLD0, G_OLD1, G_OLD, G_TOUCHED1, G_TOUCHED2
<1> DEFINE mk2 == Propagated(mk, V)
           mk3 == SweptMarks(mk2, young)
           linked == Linked(mk, V)
           mk4 == Corrects(mk3, linked)
<1>1. /\ mk2[o] = (IF o \in V THEN AfterVisit(mk, o) ELSE mk[o])
      /\ mk3[o] = (IF o \in young THEN Swept(mk2[o]) ELSE mk2[o])
      /\ mk4[o] = (IF o \in linked THEN CorrectGray(o, mk3[o]) ELSE mk3[o])
      /\ o \in linked <=> o \in V /\ LinkedAgain(mk, o)
  BY DEF Propagated, SweptMarks, Corrects, Linked
<1> HIDE DEF mk2, mk3, linked, mk4
<1>2. Age(o) \in {0, 1, 2, 3, 4, 5, 6}
  BY AgeValues
<1>v. ASSUME o \in V
      PROVE  mk2[o] = Mark(IF Age(o) \in {G_OLD1, G_TOUCHED2} THEN G_OLD ELSE Age(o),
                           IF LinkedAgain(mk, o) THEN "gray" ELSE "black")
  BY <1>1, <1>2, <1>v, AfterVisitIs
<1>l. LinkedAgain(mk, o) <=> \/ Age(o) = G_TOUCHED1 \/ Kind[o] = "weak"
                             \/ Thread(o) /\ IsOldAge(Age(o))
  BY <1>2 DEF LinkedAgain, IsOldAge
<1>3. CASE o \notin V
  <2>1. mk2[o] = Mark(G_OLD, "black") /\ o \notin linked /\ Age(o) = G_OLD /\ ~Thread(o)
    BY <1>3, <1>1
  <2>2. mk3[o] = Mark(G_OLD, "black")
    BY <2>1, <1>1, SweptIs DEF NextAge
  <2>3. mk4[o] = Mark(G_OLD, "black")
    BY <2>1, <2>2, <1>1
  <2>4. MarkAfter(o) = Mark(G_OLD, "black")
    BY <2>1 DEF MarkAfter, AgeAfter, ColorAfter, StaysLinked
  <2>5. AgeAfter(Age(o)) = G_OLD /\ mk3[o].age = G_OLD /\ mk3[o].color = "black"
    BY <2>1, <2>2, MarkFields DEF AgeAfter
  <2> QED
    BY <2>1, <2>3, <2>4, <2>5, <1>3 DEF mk2, mk3, mk4, linked
<1>4. CASE o \in V /\ Age(o) = G_NEW
  <2>1. mk3[o] = Mark(G_SURVIVAL, "white")
    BY <1>4, <1>1, <1>v, SweptIs
  <2>2. mk4[o] = Mark(G_SURVIVAL, "white")
    BY <2>1, <1>1, CorrectGrayIs
  <2>3. MarkAfter(o) = Mark(G_SURVIVAL, "white") /\ AgeAfter(Age(o)) = G_SURVIVAL /\ ~StaysLinked(o)
    BY <1>4 DEF MarkAfter, AgeAfter, ColorAfter, StaysLinked, IsOldAge
  <2>4. mk3[o].age = G_SURVIVAL /\ mk3[o].color = "white" /\ mk4[o].color = "white"
    BY <2>1, <2>2, MarkFields
  <2> QED
    BY <2>2, <2>3, <2>4, <1>4 DEF StaysGray, mk2, mk3, mk4, linked
<1>5. CASE o \in V /\ Age(o) \in {G_SURVIVAL, G_OLD0}
  <2> DEFINE c == IF LinkedAgain(mk, o) THEN "gray" ELSE "black"
  <2>1. mk3[o] = Mark(G_OLD1, c)
    <3>1. mk2[o] = Mark(Age(o), c)
      BY <1>5, <1>v
    <3> QED
      BY <3>1, <1>5, <1>1, SweptIs DEF NextAge
  <2>2. mk4[o] = Mark(G_OLD1, IF StaysLinked(o) THEN "gray" ELSE "black")
    <3>1. CASE LinkedAgain(mk, o)
      <4>1. o \in linked /\ mk3[o] = Mark(G_OLD1, "gray")
        BY <3>1, <2>1, <1>1, <1>5
      <4>2. CorrectGray(o, mk3[o]) = IF Thread(o) THEN Mark(G_OLD1, "gray") ELSE Mark(G_OLD1, "black")
        BY <4>1, CorrectGrayIs
      <4>3. Thread(o) => StaysLinked(o)
        BY <3>1, <1>5, <1>l DEF StaysLinked, Thread
      <4> QED
        BY <4>1, <4>2, <4>3, <1>1 DEF StaysLinked
    <3>2. CASE ~LinkedAgain(mk, o)
      BY <3>2, <2>1, <1>1, <1>l DEF StaysLinked
    <3> QED
      BY <3>1, <3>2
  <2>3. MarkAfter(o) = Mark(G_OLD1, IF StaysLinked(o) THEN "gray" ELSE "black") /\ AgeAfter(Age(o)) = G_OLD1
    BY <1>5 DEF MarkAfter, AgeAfter, ColorAfter
  <2>4. /\ mk3[o].age = G_OLD1 /\ mk3[o].color = c /\ mk4[o].age = G_OLD1
        /\ mk4[o].color = (IF StaysLinked(o) THEN "gray" ELSE "black")
    BY <2>1, <2>2, MarkFields
  <2>5. o \in linked /\ StaysGray(o, mk4[o]) <=> StaysLinked(o)
    BY <2>4, <1>5, <1>1, <1>l DEF StaysGray, StaysLinked, Thread
  <2> QED
    BY <2>2, <2>3, <2>4, <2>5, <1>5 DEF mk2, mk3, mk4, linked
<1>6. CASE o \in V /\ Age(o) \in {G_OLD1, G_OLD, G_TOUCHED2}
  <2> DEFINE c == IF LinkedAgain(mk, o) THEN "gray" ELSE "black"
  <2>1. mk3[o] = Mark(G_OLD, c)
    <3>1. mk2[o] = Mark(G_OLD, c)
      BY <1>6, <1>v
    <3> QED
      BY <3>1, <1>6, <1>1, SweptIs DEF NextAge
  <2>2. mk4[o] = Mark(G_OLD, IF StaysLinked(o) THEN "gray" ELSE "black")
    <3>1. CASE LinkedAgain(mk, o)
      <4>1. o \in linked /\ mk3[o] = Mark(G_OLD, "gray")
        BY <3>1, <2>1, <1>1, <1>6
      <4>2. CorrectGray(o, mk3[o]) = IF Thread(o) THEN Mark(G_OLD, "gray") ELSE Mark(G_OLD, "black")
        BY <4>1, CorrectGrayIs
      <4>3. Thread(o) => StaysLinked(o)
        BY <3>1, <1>6, <1>l DEF StaysLinked, Thread, IsOldAge
      <4> QED
        BY <4>1, <4>2, <4>3, <1>1 DEF StaysLinked
    <3>2. CASE ~LinkedAgain(mk, o)
      BY <3>2, <2>1, <1>1, <1>l DEF StaysLinked
    <3> QED
      BY <3>1, <3>2
  <2>3. MarkAfter(o) = Mark(G_OLD, IF StaysLinked(o) THEN "gray" ELSE "black") /\ AgeAfter(Age(o)) = G_OLD
    BY <1>6 DEF MarkAfter, AgeAfter, ColorAfter
  <2>4. /\ mk3[o].age = G_OLD /\ mk3[o].color = c /\ mk4[o].age = G_OLD
        /\ mk4[o].color = (IF StaysLinked(o) THEN "gray" ELSE "black")
    BY <2>1, <2>2, MarkFields
  <2>5. o \in linked /\ StaysGray(o, mk4[o]) <=> StaysLinked(o)
    BY <2>4, <1>6, <1>1, <1>l DEF StaysGray, StaysLinked, Thread, IsOldAge
  <2> QED
    BY <2>2, <2>3, <2>4, <2>5, <1>6 DEF mk2, mk3, mk4, linked
<1>7. CASE o \in V /\ Age(o) = G_TOUCHED1
  <2>1. mk2[o] = Mark(G_TOUCHED1, "gray") /\ o \in linked
    BY <1>7, <1>1, <1>v, <1>l
  <2>2. mk3[o] = Mark(G_TOUCHED1, "gray")
    BY <2>1, <1>1, SweptIs DEF NextAge
  <2>3. mk4[o] = Mark(G_TOUCHED2, "black")
    BY <2>1, <2>2, <1>1, CorrectGrayIs
  <2>4. MarkAfter(o) = Mark(G_TOUCHED2, "black") /\ AgeAfter(Age(o)) = G_TOUCHED2 /\ ~StaysLinked(o)
    BY <1>7 DEF MarkAfter, AgeAfter, ColorAfter, StaysLinked
  <2>5. mk3[o].age = G_TOUCHED1 /\ mk3[o].color = "gray" /\ mk4[o].age = G_TOUCHED2 /\ mk4[o].color = "black"
    BY <2>2, <2>3, MarkFields
  <2> QED
    BY <2>1, <2>3, <2>4, <2>5, <1>7 DEF StaysGray, mk2, mk3, mk4, linked
<1> QED
  BY <1>2, <1>3, <1>4, <1>5, <1>6, <1>7

\* The young part of the lists holds every object that is white or was made old by a
\* barrier.
LEMMA YoungCovers ==
    ASSUME IInv, NEW D, D \subseteq Upto(g.finobj, g.finobjold1)
    PROVE  LET young == YoungIn(Separated(g, D))
           IN  /\ young \subseteq Live
               /\ \A o \in Live : White(o) \/ Age(o) = G_OLD0 => o \in young
<1> DEFINE s == Separated(g, D)
           young == YoungIn(s)
           N == Nursery(s.allgc, s.survival) \cup Surviving(s.allgc, s.survival, s.old1)
           F == Nursery(s.finobj, s.finobjsur) \cup Surviving(s.finobj, s.finobjsur, s.finobjold1)
<1>1. /\ s.allgc = g.allgc /\ s.old1 = g.old1 /\ s.finobj = g.finobj \ D
      /\ s.finobjold1 = g.finobjold1 /\ s.tobefnz = g.tobefnz \cup D
  BY HasFieldsNow DEF IInv, Separated, HasFields
<1>2. young = N \cup F \cup s.tobefnz
  BY DEF YoungIn
<1>3. /\ N \subseteq s.allgc /\ \A o \in s.allgc : o \notin Rest(s.allgc, s.old1) => o \in N
      /\ F \subseteq s.finobj /\ \A o \in s.finobj : o \notin Rest(s.finobj, s.finobjold1) => o \in F
  BY YoungPart
<1> HIDE DEF s, N, F
<1>4. /\ Live = g.allgc \cup g.finobj \cup g.tobefnz
      /\ \A o \in Rest(g.allgc, g.old1) \cup Rest(g.finobj, g.finobjold1) : ~White(o) /\ Age(o) # G_OLD0
  BY DEF IInv, Lists, Pointers, Divided
<1>5. D \subseteq g.finobj /\ \A o \in g.finobj \ D : o \in Rest(g.finobj \ D, g.finobjold1)
                                                   => o \in Rest(g.finobj, g.finobjold1)
  BY DEF Rest, Upto
<1>6. young \subseteq Live
  BY <1>1, <1>2, <1>3, <1>4, <1>5
<1>7. \A o \in Live : White(o) \/ Age(o) = G_OLD0 => o \in young
  BY <1>1, <1>2, <1>3, <1>4, <1>5
<1> QED
  BY <1>6, <1>7 DEF s

\* The objects that a young collection frees.
Gone(V) == {o \in Live : White(o) /\ o \notin V}

LEMMA MarksAfter ==
    ASSUME IInv
    PROVE  LET V == YoungAtomic(OldMarked).visited
               mk3 == SweptMarks(Propagated(OldMarked, V), YoungIn(YoungAtomic(OldMarked).g))
               mk4 == Corrects(mk3, Linked(OldMarked, V))
           IN  /\ \A o \in Obj \ (Live \ Gone(V)) :
                     mk4[o] = Mark(Age(o), "free") /\ mk3[o] = mk4[o]
               /\ \A o \in Gone(V) : mk3[o].age # G_OLD1
               /\ \A o \in Live \ Gone(V) :
                     /\ mk4[o] = MarkAfter(o) /\ mk3[o].color # "free"
                     /\ mk3[o].age = G_OLD1 <=> AgeAfter(Age(o)) = G_OLD1
                     /\ o \in Linked(OldMarked, V) /\ StaysGray(o, mk4[o]) <=>
                           o \in V /\ (Age(o) = G_TOUCHED1 \/ StaysLinked(o))
<1> DEFINE mk == OldMarked
           a == YoungAtomic(OldMarked)
           V == a.visited
           young == YoungIn(a.g)
           mk3 == SweptMarks(Propagated(mk, V), young)
           mk4 == Corrects(mk3, Linked(mk, V))
<1>1. YoungRoots \subseteq V /\ V \subseteq Live /\ \A o \in V : o \in YoungRoots \/ White(o)
  BY YoungAtomicFacts
<1>2. young \subseteq Live /\ \A o \in Live : White(o) \/ Age(o) = G_OLD0 => o \in young
  <2>1. PICK D \in SUBSET Upto(g.finobj, g.finobjold1) : a.g = Separated(g, D)
    BY YoungAtomicFacts
  <2> QED
    BY <2>1, YoungCovers
<1> HIDE DEF a, young
<1>3. \A o \in Obj : mk[o] = Mark(IF o \in Live /\ Age(o) = G_OLD1 THEN G_OLD ELSE Age(o), mark[o].color)
  BY OldMarkedFacts, OldFound
<1> HIDE DEF mk
<1>m. \A o \in Obj :
        /\ mk3[o] = (IF o \in young THEN Swept(Propagated(mk, V)[o]) ELSE Propagated(mk, V)[o])
        /\ Propagated(mk, V)[o] = (IF o \in V THEN AfterVisit(mk, o) ELSE mk[o])
        /\ mk4[o] = (IF o \in Linked(mk, V) THEN CorrectGray(o, mk3[o]) ELSE mk3[o])
        /\ o \in Linked(mk, V) => o \in V
  BY DEF Propagated, SweptMarks, Corrects, Linked
<1>4. ASSUME NEW o \in Obj \ Live
      PROVE  mk3[o] = mk4[o] /\ mk4[o] = Mark(Age(o), "free")
  <2>1. mark[o].color = "free" /\ o \notin V /\ o \notin young
    BY <1>1, <1>2, <1>4 DEF Live
  <2> QED
    BY <2>1, <1>m, <1>3, <1>4
<1>5. ASSUME NEW o \in Gone(V)
      PROVE  mk3[o] = mk4[o] /\ mk4[o] = Mark(Age(o), "free") /\ Age(o) # G_OLD1
  <2>1. o \in Live /\ o \in Obj /\ White(o) /\ o \notin V
    BY LiveObj DEF Gone
  <2>2. Age(o) # G_OLD1
    BY <2>1 DEF IInv, GrayLists, IsOldAge, G_OLD1, G_SURVIVAL
  <2>3. mk[o] = Mark(Age(o), "white") /\ o \in young
    BY <2>1, <2>2, <1>2, <1>3 DEF White
  <2> QED
    BY <2>1, <2>2, <2>3, <1>m, SweptIs
<1>6. ASSUME NEW o \in Live \ Gone(V)
      PROVE  /\ mk4[o] = MarkAfter(o) /\ mk3[o].color # "free"
             /\ mk3[o].age = G_OLD1 <=> AgeAfter(Age(o)) = G_OLD1
             /\ o \in Linked(mk, V) /\ StaysGray(o, mk4[o]) <=>
                   o \in V /\ (Age(o) = G_TOUCHED1 \/ StaysLinked(o))
  <2>1. o \in Obj /\ o \in Live /\ Age(o) \in Ages /\ (White(o) => o \in V)
    BY LiveObj, MarkTypes DEF Gone, IInv
  <2>2. mk[o] = Mark(IF Age(o) = G_OLD1 THEN G_OLD ELSE Age(o), mark[o].color)
    BY <2>1, <1>3
  <2>3. /\ mk[o].age = (IF Age(o) = G_OLD1 THEN G_OLD ELSE Age(o)) /\ mk[o].age \in Ages
        /\ mk[o].color = mark[o].color /\ mk[o].color # "free" /\ (mk[o].color # "white" \/ o \in V)
    BY <2>1, <2>2, MarkFields DEF Live, White, Ages, G_NEW, G_OLD, G_TOUCHED2
  <2>4. o \in V \/ (Age(o) = G_OLD /\ ~Thread(o) /\ mk[o] = Mark(G_OLD, "black"))
    <3> SUFFICES ASSUME o \notin V
                 PROVE  Age(o) = G_OLD /\ ~Thread(o) /\ mk[o] = Mark(G_OLD, "black")
      OBVIOUS
    <3>1. ~White(o) /\ IsOldAge(Age(o)) /\ o \notin YoungRoots
      BY <2>1, <1>1 DEF IInv, GrayLists
    <3>2. Age(o) = G_OLD /\ ~Thread(o)
      BY <3>1, <2>1, YoungRootsFacts
    <3>3. mark[o].color # "gray"
      BY <3>1, <2>1 DEF IInv, GrayLists, YoungRoots
    <3>4. mark[o].color = "black"
      BY <3>1, <3>3, <2>1, MarkTypes DEF IInv, White, Live, Colors
    <3> QED
      BY <3>2, <3>4, <2>2 DEF G_OLD, G_OLD1
  <2>5. o \in young \/ ~(Age(o) \in {G_NEW, G_SURVIVAL, G_OLD0})
    <3>1. Age(o) \in {G_NEW, G_SURVIVAL} => White(o)
      BY <2>1 DEF IInv, GrayLists, IsOldAge, G_NEW, G_SURVIVAL
    <3> QED
      BY <3>1, <2>1, <1>2
  <2> HIDE DEF V
  <2> QED
    BY <2>1, <2>3, <2>4, <2>5, LiveMark
<1>7. \A o \in Gone(V) : mk3[o].age # G_OLD1
  BY <1>5, MarkFields
<1>8. \A o \in Obj \ (Live \ Gone(V)) : mk4[o] = Mark(Age(o), "free") /\ mk3[o] = mk4[o]
  BY <1>4, <1>5
<1> QED
  BY <1>6, <1>7, <1>8 DEF mk, a, young

\* What follows a pointer is the end of a list, and starts with what it points to.
LEMMA RestIsEnd ==
    ASSUME NEW list, InOrder(before, list), NEW p \in list \cup {NULL}
    PROVE  /\ \A x \in Rest(list, p), y \in list : <<x, y>> \in before => y \in Rest(list, p)
           /\ p # NULL => p \in Rest(list, p)
<1>1. ASSUME NEW x \in Rest(list, p), NEW y \in list, <<x, y>> \in before
      PROVE  y \in Rest(list, p)
  <2>1. p # NULL /\ p \in list /\ x \in list /\ <<x, p>> \notin before
    BY DEF Rest, Upto
  <2>2. <<y, p>> \notin before
    BY <1>1, <2>1 DEF InOrder
  <2> QED
    BY <2>1, <2>2 DEF Rest, Upto
<1>2. p # NULL => p \in Rest(list, p)
  BY DEF Rest, Upto, InOrder
<1> QED
  BY <1>1, <1>2

\* The new pointers: everything after the nursery has become old, and what was after
\* `old1' has been old for a collection.
LEMMA YoungDivided ==
    ASSUME NEW list, InOrder(before, list), NULL \notin list,
           NEW p, NEW q, NEW r, DividedBy(before, mark, list, p, q, r), NEW alive,
           NEW rel, \A x, y \in list \cap alive : <<x, y>> \in rel <=> <<x, y>> \in before,
           \A o \in list : ~White(o) => o \in alive, \A o \in list : Age(o) = G_SURVIVAL => White(o),
           NEW mk, \A o \in list \cap alive :
                      /\ mk[o].age # G_NEW /\ mk[o].age # G_OLD0
                      /\ Age(o) # G_NEW => mk[o].color # "white"
                      /\ mk[o].age = G_OLD1 => Age(o) \in {G_SURVIVAL, G_OLD0}
    PROVE  LET kept == list \cap alive
               next == First((Surviving(list, p, q) \cap alive) \cup Rest(list, q))
           IN  /\ First(kept) \in kept \cup {NULL} /\ next \in kept \cup {NULL} /\ q \in kept \cup {NULL}
               /\ DividedBy(rel, mk, kept, First(kept), next, q)
<1> DEFINE kept == list \cap alive
           E == Rest(list, p) \cap alive
           Q == Rest(list, q)
           next == First((Surviving(list, p, q) \cap alive) \cup Rest(list, q))
<1>1. /\ {p, q, r} \subseteq list \cup {NULL} /\ Q \subseteq Rest(list, p)
      /\ \A o \in Rest(list, p) : Age(o) # G_NEW
      /\ \A o \in Q : ~White(o) /\ Age(o) # G_OLD0
  BY RestIsAfter DEF DividedBy, Age, White
<1>2. Q \subseteq E /\ E \subseteq kept /\ kept \subseteq list
  BY <1>1 DEF Rest
<1>3. (Surviving(list, p, q) \cap alive) \cup Rest(list, q) = E
  BY <1>1, <1>2 DEF Surviving, Rest, Upto
<1>4. InOrder(before, kept) /\ NULL \notin kept
  <2>1. kept \in SUBSET list
    OBVIOUS
  <2> QED
    BY <2>1, PartInOrder
<1>r. \A x, y \in kept : <<x, y>> \in rel <=> <<x, y>> \in before
  OBVIOUS
<1>5. First(kept) \in kept \cup {NULL} /\ After(rel, kept, First(kept)) = kept
  <2>1. kept \in SUBSET kept /\ \A x \in kept, y \in kept : <<x, y>> \in before => y \in kept
    OBVIOUS
  <2> HIDE DEF kept
  <2> QED
    BY <2>1, <1>4, <1>r, AfterFirst
<1>6. next \in kept \cup {NULL} /\ After(rel, kept, next) = E
  <2>1. \A x \in E, y \in kept : <<x, y>> \in before => y \in E
    BY <1>1, RestIsEnd
  <2>2. E \in SUBSET kept /\ kept \subseteq kept
    BY <1>2
  <2> HIDE DEF kept, E
  <2>3. First(E) \in E \cup {NULL} /\ After(rel, kept, First(E)) = E
    BY <2>1, <2>2, <1>4, <1>r, AfterFirst
  <2> QED
    BY <2>2, <2>3, <1>3
<1>7. q \in kept \cup {NULL} /\ After(rel, kept, q) = Q
  <2>1. q \in kept \cup {NULL}
    BY <1>1, <1>2, RestIsEnd
  <2>2. \A x \in kept : q # NULL => (<<x, q>> \in rel <=> <<x, q>> \in before)
    BY <2>1
  <2>3. \A x : x \in After(rel, kept, q) <=> x \in Q
    BY <1>2, <2>1, <2>2 DEF After, Rest, Upto
  <2> QED
    BY <2>1, <2>3
<1>8. \A o \in kept : mk[o].age # G_NEW
  OBVIOUS
<1>9. \A o \in E : mk[o].color # "white" /\ mk[o].age # G_OLD0
  BY <1>1, <1>2
<1>10. \A o \in Q : mk[o].age # G_OLD1
  BY <1>1, <1>2
<1> HIDE DEF kept, E, Q, next
<1>11. DividedBy(rel, mk, kept, First(kept), next, q)
  BY <1>2, <1>5, <1>6, <1>7, <1>8, <1>9, <1>10 DEF DividedBy
<1> QED
  BY <1>5, <1>6, <1>7, <1>11 DEF kept, next

\* The first object that has become old: the others follow it.
LEMMA YoungFound ==
    ASSUME NEW list, InOrder(before, list), NULL \notin list, NEW F \in SUBSET list, NEW kept \in SUBSET list,
           F \subseteq kept, NEW rel, \A x, y \in kept : <<x, y>> \in rel <=> <<x, y>> \in before,
           NEW mk, \A o \in kept : mk[o].age = G_OLD1 => o \in F
    PROVE  FirstFound(rel, mk, kept, First(F))
<1>1. CASE F = {}
  BY <1>1 DEF FirstFound, First
<1>2. CASE F # {}
  <2>1. First(F) \in F /\ \A y \in F \ {First(F)} : <<First(F), y>> \in before
    BY <1>2, FirstIs
  <2> DEFINE f == First(F)
  <2> HIDE DEF f
  <2>2. f \in F /\ f # NULL /\ \A y \in F : <<y, f>> \notin before
    BY <2>1 DEF f, InOrder
  <2> QED
    BY <2>2 DEF FirstFound, After, f
<1> QED
  BY <1>1, <1>2

\* Dying objects leave the list of those with a finalizer, and `finobjsur' moves.
LEMMA SeparatedDivided ==
    ASSUME IInv, NEW D, D \subseteq Upto(g.finobj, g.finobjold1), \A o \in D : White(o)
    PROVE  LET s == Separated(g, D)
           IN  DividedBy(before, mark, g.finobj \ D, s.finobjsur, g.finobjold1, g.finobjrold)
<1> DEFINE list == g.finobj
           part == g.finobj \ D
           sur == Separated(g, D).finobjsur
<1>1. /\ DividedBy(before, mark, list, g.finobjsur, g.finobjold1, g.finobjrold)
      /\ InOrder(before, list) /\ NULL \notin list
  BY PointersIs, ProgramsAssumption DEF IInv, PointersOf, Lists, Types
<1>2. sur = (IF g.finobjsur \in D THEN First(Rest(g.finobj, g.finobjsur) \ D) ELSE g.finobjsur)
  BY HasFieldsNow DEF IInv, Separated, HasFields
<1> HIDE DEF sur
<1>3. /\ {g.finobjsur, g.finobjold1, g.finobjrold} \subseteq list \cup {NULL}
      /\ Rest(list, g.finobjrold) \subseteq Rest(list, g.finobjold1)
      /\ \A o \in Rest(list, g.finobjold1) : ~White(o)
      /\ Rest(list, g.finobjsur) \subseteq list
  BY <1>1, RestIsAfter DEF DividedBy, White, Rest
<1>4. g.finobjold1 \in part \cup {NULL} /\ g.finobjrold \in part \cup {NULL}
  BY <1>1, <1>3, RestIsEnd
<1>5. \A q \in part \cup {NULL} : After(before, part, q) = After(before, list, q) \ D
  BY DEF After
<1>6. sur \in part \cup {NULL} /\ After(before, part, sur) = After(before, list, g.finobjsur) \ D
  <2>1. CASE g.finobjsur \notin D
    BY <2>1, <1>2, <1>3, <1>5
  <2>2. CASE g.finobjsur \in D
    <3> DEFINE S == Rest(list, g.finobjsur) \ D
    <3>1. \A x \in S, y \in part : <<x, y>> \in before => y \in S
      BY <1>1, <1>3, RestIsEnd
    <3>2. S \in SUBSET part /\ part \subseteq part
      BY <1>3
    <3>3. InOrder(before, part) /\ NULL \notin part
      <4>1. part \in SUBSET list
        OBVIOUS
      <4> QED
        BY <4>1, <1>1, PartInOrder
    <3> HIDE DEF S
    <3>4. First(S) \in S \cup {NULL} /\ After(before, part, First(S)) = S
      BY <3>1, <3>2, <3>3, AfterFirst
    <3>5. sur = First(S)
      BY <2>2, <1>2 DEF S
    <3>6. S = After(before, list, g.finobjsur) \ D
      BY RestIsAfter DEF S
    <3> QED
      BY <3>2, <3>4, <3>5, <3>6
  <2> QED
    BY <2>1, <2>2
<1>7. /\ After(before, part, g.finobjold1) = After(before, list, g.finobjold1) \ D
      /\ After(before, part, g.finobjrold) = After(before, list, g.finobjrold) \ D
  BY <1>4, <1>5
<1>8. DividedBy(before, mark, part, sur, g.finobjold1, g.finobjrold)
  BY <1>1, <1>4, <1>6, <1>7 DEF DividedBy
<1> QED
  BY <1>8 DEF sur

LEMMA YoungKeeps ==
    ASSUME IInv, YoungCollection
    PROVE  IInv'
<1> DEFINE a == YoungAtomic(OldMarked)
           V == a.visited
           mk3 == SweptMarks(Propagated(OldMarked, V), YoungIn(a.g))
           linked == Linked(OldMarked, V)
           mk4 == Corrects(mk3, linked)
           alive == {o \in Obj : mk3[o].color # "free"}
           young1 == Nursery(g.allgc, g.survival) \cup Surviving(g.allgc, g.survival, g.old1)
           firstOld(list, survival, old1) ==
               First((Surviving(list, survival, old1) \cap alive) \cup Rest(list, old1))
<1>1. /\ mark' = mk4 /\ ref' = a.ref /\ UNCHANGED <<Obj, stack>>
      /\ before' = Kept(a.before, alive)
      /\ g' = [a.g EXCEPT
               !.allgc = @ \cap alive, !.survival = First(a.g.allgc \cap alive), !.reallyold = g.old1,
               !.old1 = firstOld(g.allgc, g.survival, g.old1),
               !.firstold1 = First({o \in young1 : mk3[o].age = G_OLD1}),
               !.finobj = @ \cap alive, !.finobjsur = First(a.g.finobj \cap alive),
               !.finobjold1 = firstOld(a.g.finobj, a.g.finobjsur, g.finobjold1),
               !.finobjrold = g.finobjold1, !.tobefnz = @ \cap alive,
               !.gray = {}, !.grayagain = {o \in linked : StaysGray(o, mk4[o])}]
  BY DEF YoungCollection
<1>2. /\ \A o \in Obj \ (Live \ Gone(V)) : mk4[o] = Mark(Age(o), "free") /\ mk3[o] = mk4[o]
      /\ \A o \in Gone(V) : mk3[o].age # G_OLD1
      /\ \A o \in Live \ Gone(V) :
            /\ mk4[o] = MarkAfter(o) /\ mk3[o].color # "free"
            /\ mk3[o].age = G_OLD1 <=> AgeAfter(Age(o)) = G_OLD1
            /\ o \in linked /\ StaysGray(o, mk4[o]) <=>
                  o \in V /\ (Age(o) = G_TOUCHED1 \/ StaysLinked(o))
  BY MarksAfter
<1>3. /\ YoungRoots \subseteq V /\ V \subseteq Live
      /\ \A o \in V : o \in YoungRoots \/ White(o)
      /\ a.ref \in [Obj -> Pointer] /\ \A o \in Obj : a.ref[o] \in {ref[o], NULL}
      /\ \A o \in V : a.ref[o] # NULL /\ White(a.ref[o]) => a.ref[o] \in V
  BY YoungAtomicFacts
<1>4. PICK D \in SUBSET Upto(g.finobj, g.finobjold1) :
         /\ a.g = Separated(g, D) /\ a.before = SeparatedLinks(g, D)
         /\ \A o \in g.tobefnz \cup D : White(o) => o \in V
         /\ \A o \in D : White(o)
  BY YoungAtomicFacts
<1>l. linked \subseteq V
  BY DEF Linked
<1> HIDE DEF a, mk3, linked, mk4
<1>5. alive = Live \ Gone(V)
  BY <1>2, LiveObj, MarkFields
<1>6. /\ alive \subseteq Live /\ alive \subseteq Obj /\ V \subseteq alive
      /\ \A o \in Live : ~White(o) => o \in alive
      /\ \A o \in alive : White(o) => o \in V
  BY <1>3, <1>5, LiveObj DEF Gone
<1>g. \A o \in Gone(V) : o \notin alive
  BY <1>5
<1> HIDE DEF alive, V
<1>7. D \subseteq g.finobj /\ HasFields(g)
  BY <1>4, HasFieldsNow DEF Upto, IInv
<1>8. /\ a.g.allgc = g.allgc /\ a.g.finobj = g.finobj \ D /\ a.g.tobefnz = g.tobefnz \cup D
      /\ a.g.finobjsur = Separated(g, D).finobjsur
  BY <1>4, <1>7 DEF Separated, HasFields
<1>m. \A o \in alive : mark'[o] = MarkAfter(o)
  BY <1>1, <1>2, <1>5
<1>n. \A o \in alive : /\ Age(o)' = AgeAfter(Age(o)) /\ mark'[o].age = AgeAfter(Age(o))
                       /\ mark'[o].color = ColorAfter(o)
  BY <1>m, MarkFields DEF MarkAfter, Age
<1>o. \A o \in alive : Age(o) \in {0, 1, 2, 3, 4, 5, 6} /\ o \in Obj /\ o \in Live /\ o # NULL
  BY <1>6, MarkTypes, AgeValues DEF IInv
<1>9. Live' = alive
  <2>1. \A o \in Obj : mark'[o].color # "free" <=> o \in alive
    <3>1. \A o \in Obj \ alive : mark'[o].color = "free"
      BY <1>1, <1>2, <1>5, MarkFields
    <3>2. \A o \in alive : mark'[o].color # "free"
      BY <1>n DEF ColorAfter
    <3> QED
      BY <3>1, <3>2
  <2> QED
    BY <2>1, <1>1, <1>6 DEF Live
<1>10. \A o : o \in g'.grayagain <=> o \in V /\ (Age(o) = G_TOUCHED1 \/ StaysLinked(o))
  <2>1. g'.grayagain = {o \in linked : StaysGray(o, mk4[o])}
    BY <1>1, <1>4, <1>7 DEF Separated, HasFields
  <2> QED
    BY <2>1, <1>2, <1>5, <1>6, <1>l
<1> USE DEF G_NEW, G_SURVIVAL, G_OLD0, G_OLD1, G_OLD, G_TOUCHED1, G_TOUCHED2
<1>11. \A o \in alive :
         /\ mark'[o].color = "white" <=> Age(o) = G_NEW
         /\ mark'[o].color = "gray" <=> StaysLinked(o)
         /\ mark'[o].color \in {"white", "gray", "black"}
  BY <1>n DEF ColorAfter, StaysLinked, IsOldAge
<1>12. \A o \in alive :
         /\ mark'[o].age \in {G_SURVIVAL, G_OLD1, G_OLD, G_TOUCHED2}
         /\ mark'[o].age = G_SURVIVAL <=> Age(o) = G_NEW
         /\ mark'[o].age = G_OLD1 <=> Age(o) \in {G_SURVIVAL, G_OLD0}
         /\ mark'[o].age = G_TOUCHED2 <=> Age(o) = G_TOUCHED1
         /\ mark'[o].age = G_OLD <=> Age(o) \in {G_OLD1, G_OLD, G_TOUCHED2}
  <2> SUFFICES ASSUME NEW o \in alive
               PROVE  LET age == AgeAfter(Age(o))
                      IN  /\ age \in {G_SURVIVAL, G_OLD1, G_OLD, G_TOUCHED2}
                          /\ age = G_SURVIVAL <=> Age(o) = G_NEW
                          /\ age = G_OLD1 <=> Age(o) \in {G_SURVIVAL, G_OLD0}
                          /\ age = G_TOUCHED2 <=> Age(o) = G_TOUCHED1
                          /\ age = G_OLD <=> Age(o) \in {G_OLD1, G_OLD, G_TOUCHED2}
    BY <1>n
  <2> QED
    BY <1>o DEF AgeAfter
\* Old objects that are not visited refer to old objects only.
<1>13. \A o \in alive : o \notin V => Age(o) = G_OLD /\ ~Thread(o) /\ o \notin g.gray \cup g.grayagain
  <2> SUFFICES ASSUME NEW o \in alive, o \notin V
               PROVE  Age(o) = G_OLD /\ ~Thread(o) /\ o \notin g.gray \cup g.grayagain
    OBVIOUS
  <2>1. o \notin YoungRoots /\ ~White(o) /\ o \in Live
    BY <1>3, <1>6
  <2>2. IsOldAge(Age(o))
    BY <2>1 DEF IInv, GrayLists
  <2> QED
    BY <2>1, <2>2, YoungRootsFacts DEF YoungRoots
<1>14. ASSUME NEW o \in alive, ref'[o] # NULL
       PROVE  /\ ref'[o] = ref[o] /\ ref[o] # NULL /\ ref[o] \in Live /\ ref'[o] \in alive
              /\ Kind[o] = "closure" <=> Kind[ref'[o]] = "upval"
  <2>1. ref'[o] = ref[o] /\ ref[o] # NULL /\ o \in Live
    BY <1>14, <1>1, <1>3, <1>o
  <2>2. ref[o] \in Live /\ (Kind[o] = "closure" <=> Kind[ref[o]] = "upval")
    BY <2>1 DEF IInv, References
  <2>3. ref[o] \in alive
    <3>1. CASE ~White(ref[o])
      BY <3>1, <2>2, <1>6
    <3>2. CASE White(ref[o]) /\ o \in V
      BY <3>2, <2>1, <1>1, <1>3, <1>6
    <3>3. CASE o \notin V
      <4>1. IsOldAge(Age(ref[o]))
        BY <3>3, <2>1, <1>13 DEF IInv, OldRefersToOld
      <4> QED
        BY <4>1, <2>2, <1>6 DEF IInv, GrayLists
    <3> QED
      BY <3>1, <3>2, <3>3
  <2> QED
    BY <2>1, <2>2, <2>3
<1>t. g'.tobefnz = (g.tobefnz \cup D) \cap alive /\ g'.finobj = (g.finobj \ D) \cap alive /\ g'.allgc = g.allgc \cap alive
  BY <1>1, <1>4, <1>7 DEF Separated, HasFields
<1>15. References'
  <2>1. \A o \in stack : o \in alive /\ Kind[o] # "upval"
    <3>1. \A o \in stack : o \in Live /\ Kind[o] # "upval" /\ (White(o) => o \in YoungRoots)
      BY YoungRootsFacts DEF IInv, References
    <3> QED
      BY <3>1, <1>3, <1>6
  <2>2. \A o \in g'.finobj \cup g'.tobefnz : o \in alive /\ Kind[o] # "upval"
    BY <1>t, <1>7 DEF IInv, References
  <2>3. \A o \in alive : ref'[o] # NULL =>
           ref'[o] \in alive /\ (Kind[o] = "closure" <=> Kind[ref'[o]] = "upval")
    BY <1>14
  <2> QED
    BY <2>1, <2>2, <2>3, <1>1, <1>9 DEF References
<1>16. GrayLists'
  <2>1. \A o \in alive : White(o)' <=> ~IsOldAge(mark'[o].age)
    BY <1>11, <1>12 DEF White, IsOldAge
  <2>2. \A o \in alive : StaysLinked(o) => o \in V /\ o \in g'.grayagain /\ IsOldAge(Age(o)) /\ Thread(o)
    BY <1>10, <1>13 DEF StaysLinked
  <2>3. \A o \in alive : mark'[o].color = "gray" => o \in g'.grayagain
    BY <1>11, <2>2
  <2>4. \A o \in alive : mark'[o].age = G_TOUCHED2 => o \in g'.grayagain /\ Black(o)'
    <3>1. \A o \in alive : Age(o) = G_TOUCHED1 => o \in V /\ ~StaysLinked(o) /\ Age(o) # G_NEW
      BY <1>13 DEF StaysLinked
    <3> QED
      BY <3>1, <1>10, <1>11, <1>12 DEF Black
  <2>5. \A o \in alive : mark'[o].age = G_OLD /\ Thread(o) => o \in g'.grayagain
    <3>1. \A o \in alive : Age(o) \in {G_OLD1, G_OLD, G_TOUCHED2} /\ Thread(o) => StaysLinked(o)
      BY DEF StaysLinked, IsOldAge
    <3> QED
      BY <3>1, <2>2, <1>12
  <2>6. \A o \in g'.grayagain : o \in alive /\
          (mark'[o].age = G_TOUCHED2 \/ (Thread(o) /\ mark'[o].age \in {G_OLD1, G_OLD}))
    <3>1. \A o \in g'.grayagain : o \in alive /\ (Age(o) = G_TOUCHED1 \/ StaysLinked(o))
      BY <1>6, <1>10
    <3>2. \A o \in alive : StaysLinked(o) => Thread(o) /\ Age(o) \in {G_OLD0, G_OLD1, G_OLD, G_TOUCHED2}
      BY <1>o DEF StaysLinked, IsOldAge
    <3> QED
      BY <3>1, <3>2, <1>12
  <2>7. g'.gray = {}
    BY <1>1, <1>4, <1>7 DEF Separated, HasFields
  <2>8. \A o \in alive : mark'[o].age # G_TOUCHED1 /\ mark'[o].age # G_OLD0
    BY <1>12
  <2> QED
    BY <2>1, <2>3, <2>4, <2>5, <2>6, <2>7, <2>8, <1>9 DEF GrayLists, Age, Thread
<1>17. OldRefersToOld'
  <2> SUFFICES ASSUME NEW o \in alive, mark'[o].age = G_OLD, o \notin g'.grayagain, ref'[o] # NULL
               PROVE  IsOldAge(mark'[ref'[o]].age)
    BY <1>9 DEF OldRefersToOld, Age
  <2>1. /\ ref'[o] = ref[o] /\ ref[o] # NULL /\ ref[o] \in Live /\ ref'[o] \in alive
        /\ Age(o) \in {G_OLD1, G_OLD, G_TOUCHED2} /\ o \in Live
    BY <1>14, <1>12, <1>6
  <2>2. ~Thread(o)
    BY <2>1, <1>10, <1>13 DEF StaysLinked, IsOldAge
  <2>3. Age(ref[o]) # G_NEW
    <3>1. CASE Age(o) \in {G_OLD1, G_TOUCHED2}
      BY <3>1, <2>1, <2>2 DEF IInv, NextOldRefersToNoNew
    <3>2. CASE Age(o) = G_OLD
      <4>1. o \notin g.gray \cup g.grayagain
        BY <3>2, <2>1, <2>2, YoungRootsFacts
      <4>2. IsOldAge(Age(ref[o]))
        BY <4>1, <3>2, <2>1 DEF IInv, OldRefersToOld
      <4> QED
        BY <4>2 DEF IsOldAge
    <3> QED
      BY <2>1, <3>1, <3>2
  <2>4. mark'[ref[o]].age \in {G_OLD1, G_OLD, G_TOUCHED2}
    BY <2>1, <2>3, <1>12
  <2> QED
    BY <2>1, <2>4 DEF IsOldAge
<1>18. NextOldRefersToNoNew'
  <2>1. \A o \in alive : ref'[o] # NULL => mark'[ref'[o]].age # G_NEW
    <3>1. \A o \in alive : ref'[o] # NULL => ref'[o] \in alive
      BY <1>14
    <3> QED
      BY <3>1, <1>12
  <2> QED
    BY <2>1, <1>9 DEF NextOldRefersToNoNew, Age
<1>19. Lists'
  <2>1. ListsOf(before, Live, g)
    BY ListsIs DEF IInv
  <2>2. ListsOf(a.before, Live, a.g)
    BY <2>1, <1>4, <1>7, SeparatedLists
  <2>3. g'.allgc = a.g.allgc \cap alive /\ g'.finobj = a.g.finobj \cap alive
        /\ g'.tobefnz = a.g.tobefnz \cap alive
    BY <1>t, <1>8
  <2>4. alive \in SUBSET Live
    BY <1>6
  <2>5. ListsOf(Kept(a.before, alive), alive, g')
    BY <2>2, <2>3, <2>4, KeptLists
  <2> QED
    BY <2>5, <1>1, <1>9, ListsNext
<1> DEFINE finobj == g.finobj \ D
           sur == a.g.finobjsur
<1>20. /\ InOrder(before, g.allgc) /\ InOrder(before, finobj) /\ NULL \notin g.allgc /\ NULL \notin finobj
       /\ DividedBy(before, mark, g.allgc, g.survival, g.old1, g.reallyold)
       /\ DividedBy(before, mark, finobj, sur, g.finobjold1, g.finobjrold)
  <2>1. InOrder(before, g.allgc) /\ InOrder(before, g.finobj)
    BY DEF IInv, Lists
  <2>2. NULL \notin Obj /\ g.allgc \subseteq Obj /\ g.finobj \subseteq Obj
    BY ProgramsAssumption DEF IInv, Types
  <2>3. InOrder(before, finobj)
    <3>1. finobj \in SUBSET g.finobj
      OBVIOUS
    <3> QED
      BY <3>1, <2>1, PartInOrder
  <2>4. DividedBy(before, mark, g.allgc, g.survival, g.old1, g.reallyold)
    BY PointersIs DEF IInv, PointersOf
  <2>5. DividedBy(before, mark, finobj, sur, g.finobjold1, g.finobjrold)
    <3>1. D \subseteq Upto(g.finobj, g.finobjold1) /\ \A o \in D : White(o)
      BY <1>4
    <3> QED
      BY <3>1, <1>8, SeparatedDivided
  <2> QED
    BY <2>1, <2>2, <2>3, <2>4, <2>5
<1>s. HasFields(a.g)
  <2>1. sur \in Pointer /\ sur = Separated(g, D).finobjsur
    <3>1. sur \in finobj \cup {NULL}
      BY <1>20 DEF DividedBy
    <3> QED
      BY <3>1, <1>8 DEF Pointer, IInv, Types
  <2>2. g.finobj \ D \in SUBSET Obj /\ g.tobefnz \cup D \in SUBSET Obj
    BY <1>7 DEF IInv, Types
  <2>3. Separated(g, D) = [g EXCEPT !.finobj = g.finobj \ D, !.tobefnz = g.tobefnz \cup D, !.finobjsur = sur]
    BY <2>1, <1>7 DEF Separated, HasFields
  <2> HIDE DEF sur
  <2>4. HasFields(Separated(g, D))
    BY <2>1, <2>2, <2>3, <1>7 DEF HasFields
  <2> QED
    BY <2>4, <1>4
<1>21. /\ \A x, y \in g.allgc \cap alive : <<x, y>> \in before' <=> <<x, y>> \in before
       /\ \A x, y \in finobj \cap alive : <<x, y>> \in before' <=> <<x, y>> \in before
  <2>1. \A x, y \in alive : <<x, y>> \in before' <=> <<x, y>> \in a.before
    BY <1>1 DEF Kept
  <2>2. \A x, y : <<x, y>> \in a.before <=> \/ <<x, y>> \in before /\ (x \in D <=> y \in D)
                                            \/ x \in g.tobefnz /\ y \in D
    BY <1>4 DEF SeparatedLinks
  <2>3. g.allgc \cap D = {} /\ finobj \cap D = {}
    BY <1>7 DEF IInv, Lists
  <2>4. \A x, y \in g.allgc : x \notin D /\ y \notin D
    BY <2>3
  <2>5. \A x, y \in finobj : x \notin D /\ y \notin D
    BY <2>3
  <2>6. \A x, y \in g.allgc \cap alive : <<x, y>> \in before' <=> <<x, y>> \in before
    BY <2>1, <2>2, <2>4
  <2>7. \A x, y \in finobj \cap alive : <<x, y>> \in before' <=> <<x, y>> \in before
    BY <2>1, <2>2, <2>5
  <2> QED
    BY <2>6, <2>7
<1>22. \A o \in Live : Age(o) = G_SURVIVAL => White(o)
  BY DEF IInv, GrayLists, IsOldAge
<1>23. \A o \in alive : /\ mark'[o].age # G_NEW /\ mark'[o].age # G_OLD0
                        /\ Age(o) # G_NEW => mark'[o].color # "white"
                        /\ mark'[o].age = G_OLD1 => Age(o) \in {G_SURVIVAL, G_OLD0}
  BY <1>11, <1>12
<1>24. g.allgc \subseteq Live /\ finobj \subseteq Live
  BY DEF IInv, Lists
<1> HIDE DEF finobj, sur
<1>25. LET kept == g.allgc \cap alive
           next == firstOld(g.allgc, g.survival, g.old1)
       IN  /\ First(kept) \in kept \cup {NULL} /\ next \in kept \cup {NULL} /\ g.old1 \in kept \cup {NULL}
           /\ DividedBy(before', mark', kept, First(kept), next, g.old1)
  <2>1. \A o \in g.allgc : (~White(o) => o \in alive) /\ (Age(o) = G_SURVIVAL => White(o))
    BY <1>6, <1>22, <1>24
  <2>2. \A o \in g.allgc \cap alive :
           /\ mark'[o].age # G_NEW /\ mark'[o].age # G_OLD0
           /\ Age(o) # G_NEW => mark'[o].color # "white"
           /\ mark'[o].age = G_OLD1 => Age(o) \in {G_SURVIVAL, G_OLD0}
    BY <1>23
  <2> QED
    BY <2>1, <2>2, <1>20, <1>21, YoungDivided
<1>26. LET kept == finobj \cap alive
           next == firstOld(finobj, sur, g.finobjold1)
       IN  /\ First(kept) \in kept \cup {NULL} /\ next \in kept \cup {NULL} /\ g.finobjold1 \in kept \cup {NULL}
           /\ DividedBy(before', mark', kept, First(kept), next, g.finobjold1)
  <2>1. \A o \in finobj : (~White(o) => o \in alive) /\ (Age(o) = G_SURVIVAL => White(o))
    BY <1>6, <1>22, <1>24
  <2>2. \A o \in finobj \cap alive :
           /\ mark'[o].age # G_NEW /\ mark'[o].age # G_OLD0
           /\ Age(o) # G_NEW => mark'[o].color # "white"
           /\ mark'[o].age = G_OLD1 => Age(o) \in {G_SURVIVAL, G_OLD0}
    BY <1>23
  <2> QED
    BY <2>1, <2>2, <1>20, <1>21, YoungDivided
<1> DEFINE F == {o \in young1 : mk3[o].age = G_OLD1}
<1>27. /\ F \subseteq g.allgc \cap alive
       /\ \A o \in g.allgc \cap alive : mark'[o].age = G_OLD1 => o \in F
  <2>1. /\ young1 \subseteq g.allgc
        /\ \A o \in g.allgc : o \notin Rest(g.allgc, g.old1) => o \in young1
    BY YoungPart
  <2> HIDE DEF young1
  <2>2. \A o \in Live : mk3[o].age = G_OLD1 => o \in alive
    BY <1>2, <1>5
  <2>3. \A o \in alive : mk3[o].age = G_OLD1 <=> AgeAfter(Age(o)) = G_OLD1
    BY <1>2, <1>5
  <2>4. \A o \in Rest(g.allgc, g.old1) : ~White(o) /\ Age(o) # G_OLD0
    BY DEF IInv, Pointers, Divided
  <2>5. ASSUME NEW o \in g.allgc \cap alive, mark'[o].age = G_OLD1
        PROVE  o \in F
    <3>1. Age(o) \in {G_SURVIVAL, G_OLD0} /\ o \in Live
      BY <2>5, <1>12, <1>6
    <3>2. o \notin Rest(g.allgc, g.old1)
      BY <3>1, <2>4, <1>22
    <3>3. o \in young1 /\ mk3[o].age = G_OLD1
      BY <2>1, <2>3, <2>5, <3>2, <1>n
    <3> QED
      BY <3>3
  <2>6. F \subseteq g.allgc \cap alive
    BY <2>1, <2>2, <1>24
  <2> QED
    BY <2>5, <2>6
<1> HIDE DEF F
<1>28. /\ FirstFound(before', mark', g.allgc \cap alive, First(F))
       /\ First(F) \in (g.allgc \cap alive) \cup {NULL}
  <2>1. g.allgc \cap alive \in SUBSET g.allgc /\ F \in SUBSET g.allgc
    BY <1>27
  <2>2. FirstFound(before', mark', g.allgc \cap alive, First(F))
    BY <2>1, <1>20, <1>21, <1>27, YoungFound
  <2> QED
    BY <2>2 DEF FirstFound
<1>g1. /\ g'.survival = First(g.allgc \cap alive) /\ g'.reallyold = g.old1
       /\ g'.old1 = firstOld(g.allgc, g.survival, g.old1) /\ g'.firstold1 = First(F)
       /\ g'.finobjsur = First(finobj \cap alive)
       /\ g'.finobjold1 = firstOld(finobj, sur, g.finobjold1) /\ g'.finobjrold = g.finobjold1
       /\ g'.allgc = g.allgc \cap alive /\ g'.finobj = finobj \cap alive
  <2>1. a.g.allgc = g.allgc /\ a.g.finobj = finobj /\ a.g.finobjsur = sur
    BY <1>8 DEF finobj, sur
  <2>2. HasFields(a.g)
    BY <1>s
  <2> QED
    BY <2>1, <2>2, <1>1 DEF HasFields, F
<1>29. Pointers'
  BY <1>25, <1>26, <1>28, <1>g1, PointersNext DEF PointersOf
<1>30. Types'
  <2>1. mark' \in [Obj -> [age : Ages, color : Colors]]
    <3>1. \A o \in Obj : mark'[o] \in [age : Ages, color : Colors]
      <4> SUFFICES ASSUME NEW o \in Obj PROVE mark'[o] \in [age : Ages, color : Colors]
        OBVIOUS
      <4>m. \A age \in Ages, c \in Colors : Mark(age, c) \in [age : Ages, color : Colors]
        BY DEF Mark
      <4>1. CASE o \in alive
        <5>1. mark'[o] = Mark(mark'[o].age, mark'[o].color)
          BY <4>1, <1>m, MarkFields DEF MarkAfter
        <5>2. mark'[o].age \in Ages /\ mark'[o].color \in Colors
          BY <4>1, <1>11, <1>12, AgeValues DEF Colors
        <5> QED
          BY <5>1, <5>2, <4>m
      <4>2. CASE o \notin alive
        <5>1. mark'[o] = Mark(Age(o), "free")
          BY <4>2, <1>1, <1>2, <1>5
        <5>2. Age(o) \in Ages /\ "free" \in Colors
          BY MarkTypes DEF IInv, Colors
        <5> QED
          BY <5>1, <5>2, <4>m
      <4> QED
        BY <4>1, <4>2
    <3>2. mark' = [o \in Obj |-> mark'[o]]
      BY <1>1 DEF mk4, Corrects
    <3> QED
      BY <3>1, <3>2
  <2>2. before' \in SUBSET (Obj \X Obj)
    <3>1. before \in SUBSET (Obj \X Obj) /\ g.tobefnz \subseteq Obj /\ D \subseteq Obj
      BY <1>7 DEF IInv, Types
    <3>2. \A p \in a.before : p \in before \/ p \in g.tobefnz \X D
      BY <1>4 DEF SeparatedLinks
    <3> QED
      BY <3>1, <3>2, <1>1 DEF Kept
  <2>3. /\ g'.survival \in Pointer /\ g'.reallyold \in Pointer /\ g'.old1 \in Pointer
        /\ g'.firstold1 \in Pointer /\ g'.finobjsur \in Pointer /\ g'.finobjold1 \in Pointer
        /\ g'.finobjrold \in Pointer
    <3>1. g.allgc \cap alive \subseteq Obj /\ finobj \cap alive \subseteq Obj
      BY <1>6
    <3> QED
      BY <3>1, <1>25, <1>26, <1>28, <1>g1 DEF Pointer
  <2>4. HasFields(g')
    <3>1. /\ g'.allgc \in SUBSET Obj /\ g'.finobj \in SUBSET Obj /\ g'.tobefnz \in SUBSET Obj
          /\ g'.grayagain \in SUBSET Obj
      BY <1>t, <1>6, <1>10
    <3>2. g' = [a.g EXCEPT !.allgc = g'.allgc, !.survival = g'.survival, !.reallyold = g'.reallyold,
                           !.old1 = g'.old1, !.firstold1 = g'.firstold1, !.finobj = g'.finobj,
                           !.finobjsur = g'.finobjsur, !.finobjold1 = g'.finobjold1,
                           !.finobjrold = g'.finobjrold, !.tobefnz = g'.tobefnz, !.gray = {},
                           !.grayagain = g'.grayagain]
      BY <1>1, <1>s DEF HasFields
    <3> QED
      BY <2>3, <3>1, <3>2, <1>s DEF HasFields
  <2>5. Obj' = Obj /\ Pointer' = Pointer /\ ref' \in [Obj -> Pointer] /\ Obj \in Programs
    BY <1>1, <1>3 DEF IInv, Types, Pointer
  <2> QED
    BY <2>1, <2>2, <2>4, <2>5 DEF Types, HasFields, Ages
<1> QED
  BY <1>15, <1>16, <1>17, <1>18, <1>19, <1>29, <1>30 DEF IInv

-----------------------------------------------------------------------------
(* The specification.                                                      *)

LEMMA InitInvariant == Init => IInv
<1> SUFFICES ASSUME Init PROVE IInv
  OBVIOUS
<1>1. Live = {} /\ stack = {} /\ ref = [o \in Obj |-> NULL] /\ before = {} /\ Obj \in Programs
  BY DEF Init, Live
<1>2. /\ g.allgc = {} /\ g.finobj = {} /\ g.tobefnz = {} /\ g.gray = {} /\ g.grayagain = {}
      /\ g.survival = NULL /\ g.old1 = NULL /\ g.reallyold = NULL /\ g.firstold1 = NULL
      /\ g.finobjsur = NULL /\ g.finobjold1 = NULL /\ g.finobjrold = NULL
  BY DEF Init
<1>3. Types
  <2>1. NULL \in Pointer
    BY DEF Pointer
  <2>2. mark \in [Obj -> [age : G_NEW..G_TOUCHED2, color : Colors]]
    BY DEF Init, G_NEW, G_TOUCHED2, Colors
  <2>3. g \in [allgc : SUBSET Obj, survival : Pointer, old1 : Pointer, reallyold : Pointer,
              firstold1 : Pointer, finobj : SUBSET Obj, finobjsur : Pointer, finobjold1 : Pointer,
              finobjrold : Pointer, tobefnz : SUBSET Obj, gray : SUBSET Obj, grayagain : SUBSET Obj]
    BY <2>1 DEF Init
  <2> QED
    BY <1>1, <2>1, <2>2, <2>3 DEF Types
<1>4. Lists
  BY <1>1, <1>2 DEF Lists, InOrder
<1>5. Pointers
  BY <1>2 DEF Pointers, Divided, Rest, Upto, Old1In
<1>6. References /\ GrayLists /\ OldRefersToOld /\ NextOldRefersToNoNew
  BY <1>1, <1>2 DEF References, GrayLists, OldRefersToOld, NextOldRefersToNoNew
<1> QED
  BY <1>3, <1>4, <1>5, <1>6 DEF IInv

LEMMA StepInvariant == IInv /\ [Next]_vars => IInv'
<1> SUFFICES ASSUME IInv, [Next]_vars PROVE IInv'
  OBVIOUS
<1>1. CASE Mutator
  <2>1. ASSUME NEW o \in Obj, New(o) PROVE IInv'
    BY <2>1, NewKeeps
  <2>2. ASSUME NEW o \in Obj, NEW u \in Obj, NewClosure(o, u) PROVE IInv'
    BY <2>2, NewClosureKeeps
  <2>3. ASSUME NEW o \in stack, Drop(o) PROVE IInv'
    BY <2>3, DropKeeps
  <2>4. ASSUME NEW o \in stack, Load(o) PROVE IInv'
    BY <2>4, LoadKeeps
  <2>5. ASSUME NEW o \in stack, CheckFinalizer(o) PROVE IInv'
    BY <2>5, CheckFinalizerKeeps
  <2>6. ASSUME NEW o \in stack, NEW v \in stack, SetField(o, v) PROVE IInv'
    BY <2>6, SetFieldKeeps
  <2>7. ASSUME NEW o \in stack, NEW v \in stack, SetMetatable(o, v) PROVE IInv'
    BY <2>7, SetMetatableKeeps
  <2>8. ASSUME NEW o \in stack, NEW v \in stack, SetUpvalue(o, v) PROVE IInv'
    BY <2>8, SetUpvalueKeeps
  <2>9. ASSUME NEW o \in stack, NEW v \in stack, Push(o, v) PROVE IInv'
    BY <2>9, PushKeeps
  <2> QED
    BY <1>1, <2>1, <2>2, <2>3, <2>4, <2>5, <2>6, <2>7, <2>8, <2>9 DEF Mutator
<1>2. CASE CallFinalizer
  BY <1>2, CallFinalizerKeeps
<1>3. CASE YoungCollection
  BY <1>3, YoungKeeps
<1>4. CASE FullGen
  BY <1>4, FullGenKeeps
<1>5. CASE UNCHANGED vars
  <2>1. \A o \in stack' : o \in Live /\ Kind[o] # "upval"
    BY <1>5 DEF vars, IInv, References
  <2>2. UNCHANGED <<Obj, ref, mark, g, before>>
    BY <1>5 DEF vars
  <2> QED
    BY <2>1, <2>2, StackKeeps
<1> QED
  BY <1>1, <1>2, <1>3, <1>4, <1>5 DEF Next

\* The inductive invariant, of every program, every order of its operations and every
\* choice of young and major collections.
THEOREM Invariance == Spec => []IInv
<1>1. Init => IInv
  BY InitInvariant
<1>2. IInv /\ [Next]_vars => IInv'
  BY StepInvariant
<1> QED
  BY <1>1, <1>2, PTL DEF Spec

\* What the program or a pending finalizer can reach is allocated: young collections,
\* which do not visit most old objects, free nothing in use (youngcollection, lgc.c).
THEOREM YoungFreesNoReachable == Spec => []NoneFreedYoung
<1>1. ASSUME IInv PROVE NoneFreedYoung
  <2>1. stack \cup g.tobefnz \subseteq Live /\ Live \in SUBSET Obj
    BY <1>1 DEF IInv, References, Live
  <2>2. \A o \in Live : ref[o] \in Live \cup {NULL}
    BY <1>1 DEF IInv, References
  <2> QED
    BY <2>1, <2>2 DEF NoneFreedYoung, Reachable
<1>2. IInv => NoneFreedYoung
  BY <1>1
<1> QED
  BY <1>2, Invariance, PTL

\* The generational invariant: an old object that waits in no gray list refers to old
\* objects only, after every barrier and every collection.
THEOREM Generational == Spec => []OldRefersToOld
<1>1. IInv => OldRefersToOld
  BY DEF IInv
<1> QED
  BY <1>1, Invariance, PTL

\* The pointers into the lists (`firstold1', `reallyold', `old1', and those of `finobj')
\* find what has just become old and leave no white object behind.
THEOREM PointersFindAges == Spec => []PointersDivideAges
<1>1. ASSUME IInv PROVE PointersDivideAges
  <2>1. Old1In(g.allgc) \cup Old1In(g.finobj) \subseteq MarkOld
    BY <1>1, OldFound DEF Old1In, IInv, Lists
  <2>2. \A o \in Rest(g.allgc, g.old1) \cup Rest(g.finobj, g.finobjold1) : ~White(o)
    BY <1>1 DEF IInv, Pointers, Divided
  <2> QED
    BY <2>1, <2>2 DEF PointersDivideAges
<1>2. IInv => PointersDivideAges
  BY <1>1
<1> QED
  BY <1>2, Invariance, PTL

=============================================================================
