----------------------------- MODULE ProtoProofs ----------------------------
(***************************************************************************)
(* Proofs about what the compiler leaves beside the code of a prototype:   *)
(* the function that was generated from it (AotBinding) and the lines of   *)
(* its instructions (LineInfo).                                            *)
(***************************************************************************)
EXTENDS AotBinding, LineInfo,
        NaturalsInduction, SequenceTheorems, WellFoundedInduction, TLAPS

-----------------------------------------------------------------------------
(* Part 1.  A module that is opened once gives every prototype the         *)
(* function that was compiled from it.                                     *)
(*                                                                         *)
(* The two traversals never meet: one is over when the other begins.  What *)
(* relates them is the sequence of the stacks of calls that the first one  *)
(* went through, of which the functions are the heads; the second one goes *)
(* through the same stacks.                                                *)


\* What the compiler makes of a source: every prototype is below the main function.
IsTree(tr) ==
    /\ Root \in DOMAIN tr
    /\ \A p \in DOMAIN tr : tr[p] \in Seq(DOMAIN tr)
    /\ \A S \in SUBSET DOMAIN tr :
          Root \in S /\ (\A p \in S : \A i \in DOMAIN tr[p] : tr[p][i] \in S)
              => S = DOMAIN tr

-----------------------------------------------------------------------------
(* The inductive invariant.                                                *)

Stacks(h) ==
    /\ h \in Seq(Seq(Protos)) /\ Len(h) = Len(functions) + 1 /\ h[1] = <<Root>>
    /\ \A i \in 1..Len(functions) :
          /\ h[i] # <<>> /\ functions[i] = Head(h[i])
          /\ h[i + 1] = tree[Head(h[i])] \o Tail(h[i])

\* Where each traversal is.
AtStack(h) ==
    /\ phase = "compile" => todo = h[Len(functions) + 1]
    /\ phase # "compile" => h[Len(functions) + 1] = <<>>
    /\ phase = "bind" => next_id <= Len(functions) /\ todo = h[next_id + 1]

TypeOK ==
    /\ tree \in Trees /\ todo \in Seq(Protos)
    /\ phase \in {"compile", "closed", "bind", "run", "exit"}
    /\ functions \in Seq(Protos) /\ next_id \in Nat /\ loads \in Nat
    /\ bound \in [Protos -> Nat \cup {NoFunction}]

\* The module is not open yet.
Unopened == loads = 0 => next_id = 0 /\ \A p \in Protos : bound[p] = NoFunction
Opened == /\ phase \in {"compile", "closed"} => loads = 0
          /\ phase \in {"bind", "run"} => loads # 0
          /\ phase = "run" => todo = <<>>

OwnCode ==
    \A p \in Protos : bound[p] # NoFunction =>
        bound[p] < Len(functions) /\ functions[bound[p] + 1] = p

\* No prototype is passed over.
Covered(p) == bound[p] # NoFunction \/ \E i \in DOMAIN todo : todo[i] = p
NoneSkipped ==
    phase \in {"bind", "run"} =>
        /\ Covered(Root)
        /\ \A p \in Protos : bound[p] # NoFunction => \A i \in DOMAIN tree[p] : Covered(tree[p][i])

Inv == /\ TypeOK /\ Unopened /\ Opened /\ OwnCode /\ NoneSkipped
       /\ \E h : Stacks(h) /\ AtStack(h)

-----------------------------------------------------------------------------
(* Sequences.                                                              *)

LEMMA HeadTail ==
    ASSUME NEW S, NEW s \in Seq(S), s # <<>>
    PROVE  /\ Head(s) \in S /\ Tail(s) \in Seq(S)
           /\ \A x : (\E i \in DOMAIN s : s[i] = x) => x = Head(s) \/ \E i \in DOMAIN Tail(s) : Tail(s)[i] = x
  <1>1. Head(s) \in S /\ Tail(s) \in Seq(S)
    OBVIOUS
  <1>2. ASSUME NEW i \in DOMAIN s, i # 1
        PROVE  \E j \in DOMAIN Tail(s) : Tail(s)[j] = s[i]
    <2>1. Len(s) \in Nat /\ DOMAIN s = 1..Len(s) /\ Len(Tail(s)) = Len(s) - 1
          /\ DOMAIN Tail(s) = 1..Len(s) - 1
      OBVIOUS
    <2>2. i - 1 \in DOMAIN Tail(s)
      BY <1>2, <2>1
    <2>3. Tail(s)[i - 1] = s[i]
      BY <1>2, <2>1, <2>2
    <2> QED
      BY <2>2, <2>3
  <1>3. s[1] = Head(s)
    OBVIOUS
  <1> QED
    BY <1>1, <1>2, <1>3

LEMMA Concatenated ==
    ASSUME NEW S, NEW s \in Seq(S), NEW t \in Seq(S), NEW w, w = s \o t
    PROVE  /\ w \in Seq(S)
           /\ \A i \in DOMAIN s : \E j \in DOMAIN w : w[j] = s[i]
           /\ \A i \in DOMAIN t : \E j \in DOMAIN w : w[j] = t[i]
  <1>1. s \o t \in Seq(S) /\ Len(s) \in Nat /\ Len(t) \in Nat /\ DOMAIN s = 1..Len(s)
        /\ DOMAIN t = 1..Len(t) /\ DOMAIN (s \o t) = 1..Len(s) + Len(t)
    OBVIOUS
  <1>2. \A i \in DOMAIN s : i \in DOMAIN (s \o t) /\ (s \o t)[i] = s[i]
    BY <1>1
  <1>3. \A i \in DOMAIN t : i + Len(s) \in DOMAIN (s \o t) /\ (s \o t)[i + Len(s)] = t[i]
    BY <1>1
  <1> QED
    BY <1>1, <1>2, <1>3

-----------------------------------------------------------------------------
(* The steps.                                                              *)

LEMMA CreateStep ==
    ASSUME Inv, CreateFunction, NoFunction \notin Nat, \A tr \in Trees : IsTree(tr)
    PROVE  Inv'
  <1>1. /\ phase = "compile" /\ todo # <<>> /\ functions' = Append(functions, Head(todo))
        /\ todo' = tree[Head(todo)] \o Tail(todo)
        /\ UNCHANGED <<tree, phase, next_id, bound, loads>>
    BY DEF CreateFunction, CreatedAfter, ChildrenFirst
  <1>2. /\ todo \in Seq(Protos) /\ functions \in Seq(Protos) /\ tree \in Trees
        /\ loads = 0 /\ Protos' = Protos
    BY <1>1 DEF Inv, TypeOK, Opened, Protos
  <1>3. Head(todo) \in Protos /\ Tail(todo) \in Seq(Protos) /\ tree[Head(todo)] \in Seq(Protos)
    BY <1>1, <1>2, HeadTail DEF IsTree, Protos
  <1>4. todo' \in Seq(Protos) /\ functions' \in Seq(Protos)
    BY <1>1, <1>2, <1>3, Concatenated
  <1>5. TypeOK'
    BY <1>1, <1>2, <1>4 DEF Inv, TypeOK, Protos
  <1>6. Unopened' /\ Opened' /\ OwnCode' /\ NoneSkipped'
    BY <1>1, <1>2 DEF Inv, Unopened, Opened, OwnCode, NoneSkipped
  <1>7. PICK h : Stacks(h) /\ AtStack(h)
    BY DEF Inv
  <1>8. PICK n \in Nat : n = Len(functions)
    BY <1>2
  <1>9. h \in Seq(Seq(Protos)) /\ Len(h) = n + 1 /\ h[n + 1] = todo /\ h[1] = <<Root>>
    BY <1>1, <1>7, <1>8 DEF Stacks, AtStack
  <1>10. PICK g : /\ g \in Seq(Seq(Protos)) /\ Len(g) = n + 2 /\ g[n + 2] = todo'
                  /\ \A i \in 1..n + 1 : g[i] = h[i]
    <2>1. LET k == Append(h, todo')
          IN  /\ k \in Seq(Seq(Protos)) /\ Len(k) = n + 2 /\ k[n + 2] = todo'
              /\ \A i \in 1..n + 1 : k[i] = h[i]
      BY <1>4, <1>8, <1>9
    <2> QED
      BY <2>1
  <1>11. /\ Len(functions') = n + 1 /\ functions'[n + 1] = Head(todo)
         /\ \A i \in 1..n : functions'[i] = functions[i]
    BY <1>1, <1>2, <1>3, <1>8
  <1>12. ASSUME NEW i \in 1..n + 1
         PROVE  /\ g[i] # <<>> /\ functions'[i] = Head(g[i])
                /\ g[i + 1] = tree[Head(g[i])] \o Tail(g[i])
    <2>1. CASE i = n + 1
      <3>1. g[i] = todo /\ functions'[i] = Head(todo) /\ g[i + 1] = todo'
        BY <1>9, <1>10, <1>11, <2>1
      <3> QED
        BY <1>1, <3>1
    <2>2. CASE i # n + 1
      <3>1. i \in 1..n /\ i \in 1..n + 1 /\ i + 1 \in 1..n + 1
        BY <1>8, <2>2
      <3> QED
        BY <1>7, <1>8, <1>10, <1>11, <3>1 DEF Stacks
    <2> QED
      BY <2>1, <2>2
  <1>13. Stacks(g)'
    <2>1. tree' = tree /\ g \in Seq(Seq(Protos')) /\ Len(g) = Len(functions') + 1 /\ g[1] = <<Root>>
      BY <1>1, <1>2, <1>9, <1>10, <1>11
    <2> QED
      BY <1>11, <1>12, <2>1 DEF Stacks
  <1>14. AtStack(g)'
    <2>1. Len(functions') + 1 = n + 2 /\ phase' = "compile"
      BY <1>1, <1>11
    <2> QED
      BY <1>10, <2>1 DEF AtStack
  <1> QED
    BY <1>5, <1>6, <1>13, <1>14 DEF Inv

LEMMA BindStep ==
    ASSUME Inv, BindMagic, NoFunction \notin Nat, \A tr \in Trees : IsTree(tr)
    PROVE  Inv'
  <1>1. /\ phase = "bind" /\ todo # <<>> /\ bound' = [bound EXCEPT ![Head(todo)] = next_id]
        /\ next_id' = next_id + 1 /\ todo' = tree[Head(todo)] \o Tail(todo)
        /\ UNCHANGED <<tree, phase, functions, loads>>
    BY DEF BindMagic, BoundAfter, ChildrenFirst
  <1>2. /\ todo \in Seq(Protos) /\ functions \in Seq(Protos) /\ tree \in Trees
        /\ loads # 0 /\ Protos' = Protos /\ next_id \in Nat
        /\ bound \in [Protos -> Nat \cup {NoFunction}]
    BY <1>1 DEF Inv, TypeOK, Opened, Protos
  <1>3. Head(todo) \in Protos /\ Tail(todo) \in Seq(Protos) /\ tree[Head(todo)] \in Seq(Protos)
    BY <1>1, <1>2, HeadTail DEF IsTree, Protos
  <1>4. todo' \in Seq(Protos) /\ bound' \in [Protos -> Nat \cup {NoFunction}]
    BY <1>1, <1>2, <1>3, Concatenated
  <1>5. TypeOK'
    BY <1>1, <1>2, <1>4 DEF Inv, TypeOK, Protos
  <1>6. Unopened' /\ Opened'
    BY <1>1, <1>2 DEF Inv, Opened, Unopened
  <1>7. PICK h : Stacks(h) /\ AtStack(h)
    BY DEF Inv
  <1>8. PICK n \in Nat : n = Len(functions)
    BY <1>2
  <1>9. next_id <= n /\ todo = h[next_id + 1] /\ h[n + 1] = <<>>
    BY <1>1, <1>7, <1>8 DEF AtStack
  <1>10. next_id + 1 \in 1..n
    BY <1>1, <1>2, <1>8, <1>9
  <1>11. functions[next_id + 1] = Head(todo) /\ todo' = h[next_id + 2]
    <2>1. /\ functions[next_id + 1] = Head(h[next_id + 1])
          /\ h[next_id + 1 + 1] = tree[Head(h[next_id + 1])] \o Tail(h[next_id + 1])
      BY <1>7, <1>8, <1>10 DEF Stacks
    <2>2. next_id + 1 + 1 = next_id + 2
      BY <1>2
    <2> QED
      BY <1>1, <1>9, <2>1, <2>2
  <1>12. Stacks(h)'
    BY <1>1, <1>2, <1>7 DEF Stacks
  <1>13. AtStack(h)'
    <2>1. next_id' <= n /\ todo' = h[next_id' + 1]
      <3>1. next_id' + 1 = next_id + 2
        BY <1>1, <1>2
      <3>2. next_id' <= n
        BY <1>1, <1>2, <1>8, <1>10
      <3> QED
        BY <1>11, <3>1, <3>2
    <2>2. Len(functions') = n /\ phase' = "bind"
      BY <1>1, <1>8
    <2> QED
      BY <1>9, <2>1, <2>2 DEF AtStack
  <1>14. OwnCode'
    <2> SUFFICES ASSUME NEW p \in Protos, bound'[p] # NoFunction
                 PROVE  bound'[p] < Len(functions) /\ functions[bound'[p] + 1] = p
      BY <1>1, <1>2 DEF OwnCode
    <2>1. CASE p = Head(todo)
      BY <1>1, <1>2, <1>8, <1>10, <1>11, <2>1
    <2>2. CASE p # Head(todo)
      BY <1>1, <1>2, <2>2 DEF Inv, OwnCode
    <2> QED
      BY <2>1, <2>2
  <1>0. PICK c \in Seq(Protos), r \in Seq(Protos) :
          c = tree[Head(todo)] /\ r = Tail(todo) /\ todo' = c \o r
    BY <1>1, <1>3
  <1>18. \A x : (\E i \in DOMAIN c : c[i] = x) \/ (\E i \in DOMAIN r : r[i] = x)
                => \E j \in DOMAIN todo' : todo'[j] = x
    <2>1. c \in Seq(Protos) /\ r \in Seq(Protos) /\ todo' = c \o r
      BY <1>0
    <2>2. PICK w : w = todo'
      OBVIOUS
    <2>3. /\ \A i \in DOMAIN c : \E j \in DOMAIN w : w[j] = c[i]
          /\ \A i \in DOMAIN r : \E j \in DOMAIN w : w[j] = r[i]
      <3>1. /\ c \in Seq(Protos) /\ r \in Seq(Protos) /\ w = c \o r
            /\ Len(c) \in Nat /\ Len(r) \in Nat /\ DOMAIN c = 1..Len(c) /\ DOMAIN r = 1..Len(r)
        BY <2>1, <2>2
      <3>2. /\ DOMAIN w = 1..Len(c) + Len(r)
            /\ \A i \in 1..Len(c) : w[i] = c[i]
            /\ \A i \in 1..Len(r) : w[i + Len(c)] = r[i]
        BY <3>1
      <3>3. \A i \in DOMAIN r : i + Len(c) \in DOMAIN w /\ w[i + Len(c)] = r[i]
        BY <3>1, <3>2
      <3>4. \A i \in DOMAIN c : i \in DOMAIN w /\ w[i] = c[i]
        BY <3>1, <3>2
      <3> QED
        BY <3>3, <3>4
    <2> QED
      BY <2>2, <2>3
  <1>15. ASSUME NEW p \in Protos, Covered(p)
         PROVE  Covered(p)'
    <2>1. CASE p = Head(todo)
      BY <1>1, <1>2, <2>1 DEF Covered
    <2>2. CASE p # Head(todo) /\ bound[p] # NoFunction
      BY <1>1, <1>2, <2>2 DEF Covered
    <2>3. CASE p # Head(todo) /\ \E i \in DOMAIN todo : todo[i] = p
      <3>1. \E i \in DOMAIN Tail(todo) : Tail(todo)[i] = p
        BY <1>1, <1>2, <2>3, HeadTail
      <3>2. \E i \in DOMAIN todo' : todo'[i] = p
        BY <1>0, <1>18, <3>1
      <3> QED
        BY <3>2 DEF Covered
    <2> QED
      BY <1>15, <2>1, <2>2, <2>3 DEF Covered
  <1>16. ASSUME NEW i \in DOMAIN c, NEW q, q = c[i]
         PROVE  bound'[q] # NoFunction \/ \E j \in DOMAIN todo' : todo'[j] = q
    BY <1>16, <1>18
  <1>17. NoneSkipped'
    <2>1. Root \in Protos /\ \A p \in Protos : \A i \in DOMAIN tree[p] : tree[p][i] \in Protos
      BY <1>2 DEF IsTree, Protos
    <2>2. Covered(Root)'
      BY <1>1, <1>15, <2>1 DEF Inv, NoneSkipped
    <2> SUFFICES ASSUME NEW p \in Protos, bound'[p] # NoFunction, NEW i \in DOMAIN tree[p]
                 PROVE  Covered(tree[p][i])'
      BY <1>1, <1>2, <2>2 DEF NoneSkipped
    <2>3. CASE p = Head(todo)
      <3>1. PICK q : q = tree[p][i]
        OBVIOUS
      <3>2. bound'[q] # NoFunction \/ \E j \in DOMAIN todo' : todo'[j] = q
        BY <1>16, <1>0, <2>3, <3>1
      <3> QED
        BY <1>1, <3>1, <3>2 DEF Covered
    <2>4. CASE p # Head(todo)
      <3>1. bound[p] # NoFunction
        BY <1>1, <1>2, <2>4
      <3> QED
        BY <1>1, <1>15, <2>1, <3>1 DEF Inv, NoneSkipped
    <2> QED
      BY <2>3, <2>4
  <1> QED
    BY <1>5, <1>6, <1>12, <1>13, <1>14, <1>17 DEF Inv

LEMMA OpenStep ==
    ASSUME Inv, LuaOpen, MaxLoads = 1, NoFunction \notin Nat, \A tr \in Trees : IsTree(tr)
    PROVE  Inv'
  <1>1. /\ phase \in {"closed", "run"} /\ loads < 1 /\ loads' = loads + 1
        /\ phase' = "bind" /\ todo' = <<Root>> /\ bound' = [p \in Protos |-> NoFunction]
        /\ UNCHANGED <<tree, functions, next_id>>
    BY DEF LuaOpen
  <1>2. /\ loads = 0 /\ next_id = 0 /\ tree \in Trees /\ Protos' = Protos
        /\ functions \in Seq(Protos)
    BY <1>1 DEF Inv, TypeOK, Unopened, Protos
  <1>3. Root \in Protos
    BY <1>2 DEF IsTree, Protos
  <1>4. TypeOK'
    BY <1>1, <1>2, <1>3 DEF Inv, TypeOK, Protos
  <1>5. Unopened' /\ Opened' /\ OwnCode'
    BY <1>1, <1>2 DEF Inv, Unopened, Opened, OwnCode
  <1>6. Covered(Root)'
    <2>1. 1 \in DOMAIN todo' /\ todo'[1] = Root
      BY <1>1
    <2> QED
      BY <2>1 DEF Covered
  <1>7. NoneSkipped'
    BY <1>1, <1>2, <1>6 DEF NoneSkipped
  <1>8. PICK h : Stacks(h) /\ AtStack(h)
    BY DEF Inv
  <1>9. Stacks(h)'
    BY <1>1, <1>2, <1>8 DEF Stacks
  <1>10. AtStack(h)'
    <2>1. h[1] = <<Root>> /\ h[Len(functions) + 1] = <<>> /\ Len(functions) \in Nat
      BY <1>1, <1>2, <1>8 DEF Stacks, AtStack, Inv, Opened
    <2> QED
      BY <1>1, <1>2, <2>1 DEF AtStack
  <1> QED
    BY <1>4, <1>5, <1>7, <1>9, <1>10 DEF Inv

LEMMA PhaseStep ==
    ASSUME Inv, Link \/ LuaOpenFails \/ CallMain \/ UNCHANGED bindingVars
    PROVE  Inv'
  <1>1. UNCHANGED <<tree, todo, functions, next_id, bound, loads>>
    BY DEF Link, LuaOpenFails, CallMain, bindingVars
  <1>2. \/ phase = "compile" /\ todo = <<>> /\ phase' = "closed"
        \/ phase = "bind" /\ todo = <<>> /\ phase' = "run"
        \/ phase \in {"closed", "run"} /\ phase' = "exit"
        \/ phase' = phase
    BY DEF Link, LuaOpenFails, CallMain, bindingVars
  <1>3. TypeOK' /\ Unopened' /\ OwnCode'
    BY <1>1, <1>2 DEF Inv, TypeOK, Unopened, OwnCode, Protos
  <1>4. Opened'
    BY <1>1, <1>2 DEF Inv, Opened
  <1>5. NoneSkipped'
    BY <1>1, <1>2 DEF Inv, NoneSkipped, Covered, Protos
  <1>6. PICK h : Stacks(h) /\ AtStack(h)
    BY DEF Inv
  <1>7. Stacks(h)'
    BY <1>1, <1>6 DEF Stacks, Protos
  <1>8. AtStack(h)'
    BY <1>1, <1>2, <1>6 DEF AtStack
  <1> QED
    BY <1>3, <1>4, <1>5, <1>7, <1>8 DEF Inv

LEMMA InitInv ==
    ASSUME BindingInit, \A tr \in Trees : IsTree(tr)
    PROVE  Inv
  <1>1. tree \in Trees /\ todo = <<Root>> /\ phase = "compile" /\ functions = <<>>
        /\ next_id = 0 /\ bound = [p \in Protos |-> NoFunction] /\ loads = 0
    BY DEF BindingInit
  <1>2. Root \in Protos
    BY <1>1 DEF IsTree, Protos
  <1>3. TypeOK /\ Unopened /\ Opened /\ OwnCode /\ NoneSkipped
    BY <1>1, <1>2 DEF TypeOK, Unopened, Opened, OwnCode, NoneSkipped
  <1> DEFINE h == <<todo>>
  <1>4. h \in Seq(Seq(Protos)) /\ Len(h) = 1 /\ h[1] = todo
    BY <1>1, <1>2
  <1> HIDE DEF h
  <1>5. Stacks(h) /\ AtStack(h)
    BY <1>1, <1>4 DEF Stacks, AtStack
  <1> QED
    BY <1>3, <1>5 DEF Inv

LEMMA Binds ==
    ASSUME Inv, \A tr \in Trees : IsTree(tr)
    PROVE  BoundToOwnCode
  <1> DEFINE S == {p \in Protos : bound[p] # NoFunction}
  <1>1. tree \in Trees /\ IsTree(tree) /\ functions \in Seq(Protos)
    BY DEF Inv, TypeOK
  <1>2. ASSUME phase = "run"
        PROVE  S = Protos
    <2>1. todo = <<>> /\ \A p \in Protos : Covered(p) => p \in S
      BY <1>2 DEF Inv, Opened, Covered
    <2>2. Root \in S /\ \A p \in S : \A i \in DOMAIN tree[p] : tree[p][i] \in S
      BY <1>1, <1>2, <2>1 DEF Inv, NoneSkipped, IsTree, Protos
    <2> QED
      BY <1>1, <2>2 DEF IsTree, Protos
  <1>3. ASSUME NEW p \in Protos, bound[p] # NoFunction
        PROVE  bound[p] <= Len(functions) /\ functions[bound[p] + 1] = p
    BY <1>1, <1>3 DEF Inv, OwnCode, TypeOK
  <1> QED
    BY <1>2, <1>3 DEF BoundToOwnCode

\* create_functions and bind_magic: whatever the tree of prototypes is, a module that
\* is opened once binds each of them, to its own code and within the table.
THEOREM BoundOnce ==
    ASSUME MaxLoads = 1, NoFunction \notin Nat, \A tr \in Trees : IsTree(tr)
    PROVE  BindingSpec => []BoundToOwnCode
  <1>1. BindingInit => Inv
    BY InitInv
  <1>2. Inv /\ [BindingNext]_bindingVars => Inv'
    BY CreateStep, BindStep, OpenStep, PhaseStep DEF BindingNext
  <1>3. Inv => BoundToOwnCode
    BY Binds
  <1> QED
    BY <1>1, <1>2, <1>3, PTL DEF BindingSpec

-----------------------------------------------------------------------------
(* Part 2.  The line of every instruction is found.  The invariant of      *)
(* LineInfo says what the two arrays hold and how far apart absolute lines *)
(* are; the estimate of getbaseline rests on the latter.                   *)
(*                                                                         *)
(* Numbers and sequences first.                                            *)

\* A set of natural numbers has a least one.
LEMMA LeastNat ==
    ASSUME NEW T \in SUBSET Nat, T # {}
    PROVE  \E n \in T : \A m \in T : n <= m
<1> DEFINE R == {ss \in Nat \X Nat : ss[1] < ss[2]}
<1>1. IsWellFoundedOn(R, Nat)
  BY NatLessThanWellFounded DEF OpToRel
<1> HIDE DEF R
<1>2. PICK n \in T : \A m \in T : ~ (<<m, n>> \in R)
  BY <1>1, WFMin
<1>3. \A m \in T : ~(m < n)
  BY <1>2 DEF R
<1> QED
  BY <1>3

LEMMA Times ==
    ASSUME NEW a \in Nat, NEW b \in Nat, NEW n \in Nat, a <= b
    PROVE  a * n <= b * n /\ (a + 1) * n = a * n + n /\ a * n \in Nat
  OBVIOUS

\* The estimate of getbaseline, plus one.
LEMMA Quotient ==
    ASSUME NEW a \in Nat, NEW n \in Nat \ {0}
    PROVE  a \div n \in Nat /\ (a \div n) * n <= a
  OBVIOUS

LEMMA Fronts ==
    ASSUME NEW S, NEW s \in Seq(S), s # <<>>
    PROVE  /\ Front(s) \in Seq(S) /\ Len(Front(s)) = Len(s) - 1
           /\ \A i \in 1..Len(s) - 1 : Front(s)[i] = s[i]
<1>1. Len(s) \in Nat /\ Len(s) # 0 /\ \A i \in 1..Len(s) - 1 : s[i] \in S
  OBVIOUS
<1> DEFINE n == Len(s) - 1
<1>2. n \in Int /\ 1 \in Int /\ n >= 0 /\ (\A i \in 1..n : s[i] \in S)
  BY <1>1
<1>3. Front(s) = SubSeq(s, 1, n)
  BY DEF Front
<1> HIDE DEF n
<1>4. /\ SubSeq(s,1,n) \in Seq(S)
      /\ Len(SubSeq(s,1,n)) = (IF 1<=n THEN n-1+1 ELSE 0)
      /\ \A i \in 1 .. n-1+1 : SubSeq(s,1,n)[i] = s[1+i-1]
  BY <1>2, SubSeqProperties
<1>5. Front(s) \in Seq(S) /\ Len(Front(s)) = n
  BY <1>4, <1>3, <1>2
<1>6. \A i \in 1..n : Front(s)[i] = s[i]
  BY <1>4, <1>3, <1>2
<1> QED
  BY <1>5, <1>6 DEF n

LEMMA Appends ==
    ASSUME NEW S, NEW s \in Seq(S), NEW e \in S
    PROVE  /\ Append(s, e) \in Seq(S) /\ Len(Append(s, e)) = Len(s) + 1
           /\ \A i \in 1..Len(s) : Append(s, e)[i] = s[i]
           /\ Append(s, e)[Len(s) + 1] = e
  OBVIOUS

LEMMA ElementOf ==
    ASSUME NEW S, NEW s \in Seq(S), NEW i \in 1..Len(s)
    PROVE  s[i] \in S
  OBVIOUS

LEMMA Within ==
    ASSUME NEW a \in Nat, NEW n \in Nat, a < n
    PROVE  a + 1 \in 1..n /\ a < n + 1
  OBVIOUS

\* Entries of abslineinfo.
LEMMA Entries ==
    ASSUME NEW s \in Seq(AbsLineInfo), NEW k \in 1..Len(s)
    PROVE  s[k].pc \in Nat /\ s[k].line \in Int
<1>1. s[k] \in AbsLineInfo
  OBVIOUS
<1> QED
  BY <1>1 DEF AbsLineInfo

LEMMA ForcedIsNat ==
    ASSUME NEW abs \in Seq(AbsLineInfo), NEW k \in 0..Len(abs)
    PROVE  Forced(abs, k) \in Nat
<1>1. k # 0 => abs[k].pc \in Nat
  BY Entries
<1> QED
  BY <1>1, LineConstants DEF Forced

-----------------------------------------------------------------------------
(* Line information is stored right.                                       *)

\* One element more.
Longer(s, t) == Len(t) = Len(s) + 1 /\ \A i \in 1..Len(s) : t[i] = s[i]

LEMMA BeforeSame ==
    ASSUME NEW ls \in Seq(Int), NEW more \in Seq(Int), Longer(ls, more)
    PROVE  /\ \A i \in 1..Len(ls) + 1 : LineBefore(more, i) = LineBefore(ls, i)
           /\ \A i \in 1..Len(ls) + 1 : LineBefore(ls, i) \in Int
           /\ LineBefore(more, Len(more) + 1) = more[Len(more)]
<1>1. ASSUME NEW i \in 1..Len(ls) + 1
      PROVE  LineBefore(more, i) = LineBefore(ls, i) /\ LineBefore(ls, i) \in Int
  <2>1. CASE i = 1
    BY <2>1, LineConstants DEF LineBefore
  <2>2. CASE i # 1
    <3>1. i - 1 \in 1..Len(ls)
      BY <2>2
    <3>2. ls[i - 1] \in Int
      BY <3>1, ElementOf
    <3>4. more[i - 1] = ls[i - 1]
      BY <3>1 DEF Longer
    <3>3. LineBefore(more, i) = more[i - 1] /\ LineBefore(ls, i) = ls[i - 1]
      BY <2>2 DEF LineBefore
    <3> QED
      BY <3>2, <3>3, <3>4, Zenon
  <2> QED
    BY <2>1, <2>2
<1>2. LineBefore(more, Len(more) + 1) = more[Len(more)]
  <2>1. Len(more) + 1 # 1 /\ Len(more) + 1 - 1 = Len(more)
    BY DEF Longer
  <2> QED
    BY <2>1 DEF LineBefore
<1> QED
  BY <1>1, <1>2

\* An instruction more at the end, or less, without an absolute line.
LEMMA RelativeStored ==
    ASSUME NEW info \in Seq(Int), NEW ls \in Seq(Int), NEW abs \in Seq(AbsLineInfo),
           NEW info2 \in Seq(Int), NEW ls2 \in Seq(Int),
           Longer(info, info2), Longer(ls, ls2), Len(info) = Len(ls),
           info2[Len(ls2)] # ABSLINEINFO
    PROVE  /\ LinesStored(info, abs, ls) /\ info2[Len(ls2)] = ls2[Len(ls2)] - LineBefore(ls, Len(ls) + 1)
                => LinesStored(info2, abs, ls2)
           /\ LinesStored(info2, abs, ls2)
                => LinesStored(info, abs, ls)
                   /\ info2[Len(ls2)] = ls2[Len(ls2)] - LineBefore(ls, Len(ls) + 1)
           /\ AbsStored(info, abs, ls) <=> AbsStored(info2, abs, ls2)
<1> DEFINE n == Len(ls)
<1>1. n \in Nat /\ Len(ls2) = n + 1 /\ 1..Len(ls2) = (1..n) \cup {n + 1} /\ 1..n \subseteq 1..n + 1
  BY DEF Longer
<1>2. \A i \in 1..n : info2[i] = info[i] /\ ls2[i] = ls[i]
  BY DEF Longer
<1>3. \A i \in 1..n + 1 : LineBefore(ls2, i) = LineBefore(ls, i)
  BY BeforeSame
<1>4. ASSUME LinesStored(info, abs, ls), info2[Len(ls2)] = ls2[Len(ls2)] - LineBefore(ls, Len(ls) + 1)
      PROVE  LinesStored(info2, abs, ls2)
  <2> SUFFICES ASSUME NEW i \in 1..Len(ls2)
               PROVE  IF info2[i] = ABSLINEINFO THEN \E k \in 1..Len(abs) : abs[k].pc = i - 1
                      ELSE info2[i] = ls2[i] - LineBefore(ls2, i)
    BY DEF LinesStored
  <2>1. CASE i \in 1..n
    BY <2>1, <1>1, <1>2, <1>3, <1>4 DEF LinesStored
  <2>2. CASE i = n + 1
    BY <2>2, <1>1, <1>3, <1>4
  <2> QED
    BY <2>1, <2>2, <1>1
<1>5. ASSUME LinesStored(info2, abs, ls2)
      PROVE  /\ LinesStored(info, abs, ls)
             /\ info2[Len(ls2)] = ls2[Len(ls2)] - LineBefore(ls, Len(ls) + 1)
  <2>1. ASSUME NEW i \in 1..n
        PROVE  IF info[i] = ABSLINEINFO THEN \E k \in 1..Len(abs) : abs[k].pc = i - 1
               ELSE info[i] = ls[i] - LineBefore(ls, i)
    <3>1. i \in 1..Len(ls2) /\ i \in 1..n + 1
      BY <1>1
    <3> QED
      BY <3>1, <1>2, <1>3, <1>5 DEF LinesStored
  <2>2. n + 1 \in 1..Len(ls2) /\ n + 1 \in 1..n + 1
    BY <1>1
  <2>3. info2[n + 1] = ls2[n + 1] - LineBefore(ls2, n + 1)
    BY <2>2, <1>1, <1>5 DEF LinesStored
  <2> QED
    BY <2>1, <2>2, <2>3, <1>1, <1>3 DEF LinesStored
<1>6. AbsStored(info, abs, ls) <=> AbsStored(info2, abs, ls2)
  <2>1. \A k \in 1..Len(abs) : abs[k].pc \in Nat
    BY Entries
  <2>2. ASSUME NEW k \in 1..Len(abs), abs[k].pc < n
        PROVE  info2[abs[k].pc + 1] = info[abs[k].pc + 1] /\ ls2[abs[k].pc + 1] = ls[abs[k].pc + 1]
    <3>1. abs[k].pc + 1 \in 1..n
      BY <2>1, <2>2, <1>1
    <3> QED
      BY <3>1, <1>2
  <2>3. ASSUME AbsStored(info2, abs, ls2), NEW k \in 1..Len(abs)
        PROVE  abs[k].pc < n
    <3>1. abs[k].pc < n + 1 /\ info2[abs[k].pc + 1] = ABSLINEINFO
      BY <2>3, <1>1 DEF AbsStored
    <3>2. abs[k].pc # n
      BY <3>1, <1>1
    <3> QED
      BY <3>1, <3>2, <2>1, <1>1
  <2>4. ASSUME AbsStored(info2, abs, ls2)
        PROVE  AbsStored(info, abs, ls)
    BY <2>2, <2>3, <2>4 DEF AbsStored
  <2>5. ASSUME AbsStored(info, abs, ls)
        PROVE  AbsStored(info2, abs, ls2)
    <3>1. ASSUME NEW k \in 1..Len(abs)
          PROVE  abs[k].pc < n /\ abs[k].pc < Len(ls2)
      BY <2>1, <2>5, <1>1 DEF AbsStored
    <3> QED
      BY <3>1, <2>2, <2>5 DEF AbsStored
  <2> QED
    BY <2>4, <2>5
<1> QED
  BY <1>4, <1>5, <1>6

\* An instruction more at the end, or less, with an absolute line.
LEMMA AbsoluteStored ==
    ASSUME NEW info \in Seq(Int), NEW ls \in Seq(Int), NEW abs \in Seq(AbsLineInfo),
           NEW info2 \in Seq(Int), NEW ls2 \in Seq(Int), NEW abs2 \in Seq(AbsLineInfo),
           Longer(info, info2), Longer(ls, ls2), Longer(abs, abs2), Len(info) = Len(ls),
           info2[Len(ls2)] = ABSLINEINFO, abs2[Len(abs2)].pc = Len(ls)
    PROVE  /\ LinesStored(info, abs, ls) => LinesStored(info2, abs2, ls2)
           /\ LinesStored(info2, abs2, ls2) => LinesStored(info, abs, ls)
           /\ AbsStored(info, abs, ls) /\ abs2[Len(abs2)].line = ls2[Len(ls2)]
              /\ Len(ls) <= Forced(abs, Len(abs))
                => AbsStored(info2, abs2, ls2)
           /\ AbsStored(info2, abs2, ls2)
                => AbsStored(info, abs, ls) /\ Len(ls) <= Forced(abs, Len(abs))
<1> DEFINE n == Len(ls)
           m == Len(abs)
<1>1. /\ n \in Nat /\ Len(ls2) = n + 1 /\ 1..Len(ls2) = (1..n) \cup {n + 1} /\ 1..n \subseteq 1..n + 1
      /\ m \in Nat /\ Len(abs2) = m + 1 /\ 1..Len(abs2) = (1..m) \cup {m + 1} /\ 1..m \subseteq 1..m + 1
  BY DEF Longer
<1>2. /\ \A i \in 1..n : info2[i] = info[i] /\ ls2[i] = ls[i]
      /\ \A k \in 1..m : abs2[k] = abs[k]
  BY DEF Longer
<1>3. \A i \in 1..n + 1 : LineBefore(ls2, i) = LineBefore(ls, i)
  BY BeforeSame
<1>4. (\A k \in 1..m : abs[k].pc \in Nat) /\ \A k \in 1..m + 1 : abs2[k].pc \in Nat
  BY <1>1, Entries
<1>5. ASSUME NEW k \in 0..m
      PROVE  Forced(abs2, k) = Forced(abs, k)
  <2>1. k # 0 => k \in 1..m
    OBVIOUS
  <2> QED
    BY <2>1, <1>2 DEF Forced
<1>6. ASSUME LinesStored(info, abs, ls)
      PROVE  LinesStored(info2, abs2, ls2)
  <2> SUFFICES ASSUME NEW i \in 1..Len(ls2)
               PROVE  IF info2[i] = ABSLINEINFO THEN \E k \in 1..Len(abs2) : abs2[k].pc = i - 1
                      ELSE info2[i] = ls2[i] - LineBefore(ls2, i)
    BY DEF LinesStored
  <2>1. CASE i \in 1..n
    <3>1. IF info[i] = ABSLINEINFO THEN \E k \in 1..m : abs[k].pc = i - 1
          ELSE info[i] = ls[i] - LineBefore(ls, i)
      BY <2>1, <1>6 DEF LinesStored
    <3>2. info2[i] = info[i] /\ ls2[i] = ls[i] /\ LineBefore(ls2, i) = LineBefore(ls, i)
      BY <2>1, <1>1, <1>2, <1>3
    <3>3. ASSUME NEW k \in 1..m
          PROVE  k \in 1..Len(abs2) /\ abs2[k].pc = abs[k].pc
      BY <1>1, <1>2
    <3>4. CASE info[i] = ABSLINEINFO
      <4>1. PICK k \in 1..m : abs[k].pc = i - 1
        BY <3>1, <3>4
      <4>2. k \in 1..Len(abs2) /\ abs2[k].pc = i - 1 /\ info2[i] = ABSLINEINFO
        BY <4>1, <3>2, <3>3, <3>4, Zenon
      <4> QED
        BY <4>2
    <3>5. CASE info[i] # ABSLINEINFO
      BY <3>1, <3>2, <3>5
    <3> QED
      BY <3>4, <3>5
  <2>2. CASE i = n + 1
    <3>1. m + 1 \in 1..Len(abs2) /\ abs2[m + 1].pc = i - 1
      BY <2>2, <1>1
    <3> QED
      BY <3>1, <2>2, <1>1
  <2> QED
    BY <2>1, <2>2, <1>1
<1>7. ASSUME LinesStored(info2, abs2, ls2)
      PROVE  LinesStored(info, abs, ls)
  <2> SUFFICES ASSUME NEW i \in 1..n
               PROVE  IF info[i] = ABSLINEINFO THEN \E k \in 1..m : abs[k].pc = i - 1
                      ELSE info[i] = ls[i] - LineBefore(ls, i)
    BY DEF LinesStored
  <2>1. i \in 1..Len(ls2) /\ i \in 1..n + 1
    BY <1>1
  <2>2. IF info[i] = ABSLINEINFO THEN \E k \in 1..Len(abs2) : abs2[k].pc = i - 1
        ELSE info[i] = ls[i] - LineBefore(ls, i)
    BY <2>1, <1>2, <1>3, <1>7 DEF LinesStored
  <2>3. ASSUME NEW k \in 1..Len(abs2), abs2[k].pc = i - 1
        PROVE  k \in 1..m /\ abs[k].pc = i - 1
    <3>1. k # m + 1
      BY <2>3, <1>1
    <3> QED
      BY <3>1, <2>3, <1>1, <1>2
  <2> QED
    BY <2>2, <2>3
<1>8. ASSUME AbsStored(info, abs, ls), abs2[Len(abs2)].line = ls2[Len(ls2)], n <= Forced(abs, m)
      PROVE  AbsStored(info2, abs2, ls2)
  <2> SUFFICES ASSUME NEW k \in 1..Len(abs2)
               PROVE  /\ abs2[k].pc < Len(ls2)
                      /\ abs2[k].line = ls2[abs2[k].pc + 1] /\ info2[abs2[k].pc + 1] = ABSLINEINFO
                      /\ \A j \in 1..k - 1 : abs2[j].pc < abs2[k].pc
                      /\ abs2[k].pc <= Forced(abs2, k - 1)
    BY DEF AbsStored
  <2>1. ASSUME NEW j \in 1..m
        PROVE  abs2[j].pc < n /\ abs2[j].pc + 1 \in 1..n
    <3>1. abs2[j].pc < n
      BY <1>2, <1>8 DEF AbsStored
    <3>2. abs2[j].pc \in Nat
      BY <1>1, <1>4
    <3> QED
      BY <3>1, <3>2, <1>1, Within
  <2>2. CASE k \in 1..m
    <3>1. /\ abs[k].line = ls[abs[k].pc + 1] /\ info[abs[k].pc + 1] = ABSLINEINFO
          /\ \A j \in 1..k - 1 : abs[j].pc < abs[k].pc
          /\ abs[k].pc <= Forced(abs, k - 1)
      BY <2>2, <1>8 DEF AbsStored
    <3>2. k - 1 \in 0..m /\ 1..k - 1 \subseteq 1..m
      BY <2>2
    <3>3. abs2[k] = abs[k] /\ (\A j \in 1..k - 1 : abs2[j] = abs[j])
          /\ Forced(abs2, k - 1) = Forced(abs, k - 1)
      BY <3>2, <2>2, <1>2, <1>5
    <3>4. abs2[k].pc < n /\ abs2[k].pc + 1 \in 1..n /\ abs2[k].pc < Len(ls2)
      BY <2>1, <2>2, <1>1, <1>4
    <3> QED
      BY <3>1, <3>3, <3>4, <1>2
  <2>3. CASE k = m + 1
    <3>1. abs2[k].pc = n /\ k - 1 = m /\ Forced(abs2, m) = Forced(abs, m)
      BY <2>3, <1>1, <1>5
    <3>2. \A j \in 1..m : abs2[j].pc < n
      BY <2>1
    <3> QED
      BY <3>1, <3>2, <2>3, <1>1, <1>8
  <2> QED
    BY <2>2, <2>3, <1>1
<1>9. ASSUME AbsStored(info2, abs2, ls2)
      PROVE  AbsStored(info, abs, ls) /\ n <= Forced(abs, m)
  <2>1. m + 1 \in 1..Len(abs2) /\ m + 1 - 1 = m /\ Forced(abs2, m) = Forced(abs, m)
    BY <1>1, <1>5
  <2>2. /\ n <= Forced(abs, m)
        /\ \A j \in 1..m : abs2[j].pc < n
    BY <2>1, <1>1, <1>9 DEF AbsStored
  <2>3. ASSUME NEW k \in 1..m
        PROVE  /\ abs[k].pc < n
               /\ abs[k].line = ls[abs[k].pc + 1] /\ info[abs[k].pc + 1] = ABSLINEINFO
               /\ \A j \in 1..k - 1 : abs[j].pc < abs[k].pc
               /\ abs[k].pc <= Forced(abs, k - 1)
    <3>1. k \in 1..Len(abs2) /\ k - 1 \in 0..m /\ 1..k - 1 \subseteq 1..m
      BY <1>1
    <3>2. /\ abs2[k].line = ls2[abs2[k].pc + 1] /\ info2[abs2[k].pc + 1] = ABSLINEINFO
          /\ \A j \in 1..k - 1 : abs2[j].pc < abs2[k].pc
          /\ abs2[k].pc <= Forced(abs2, k - 1)
      BY <3>1, <1>9 DEF AbsStored
    <3>3. abs2[k] = abs[k] /\ (\A j \in 1..k - 1 : abs2[j] = abs[j])
          /\ Forced(abs2, k - 1) = Forced(abs, k - 1)
      BY <3>1, <1>2, <1>5
    <3>4. abs[k].pc < n /\ abs[k].pc \in Nat
      BY <2>2, <3>3, <1>4
    <3>6. abs[k].pc + 1 \in 1..n
      BY <3>4, <1>1, Within
    <3>5. ls2[abs[k].pc + 1] = ls[abs[k].pc + 1] /\ info2[abs[k].pc + 1] = info[abs[k].pc + 1]
      BY <3>6, <1>2
    <3> QED
      BY <3>2, <3>3, <3>4, <3>5, Zenon
  <2> QED
    BY <2>2, <2>3 DEF AbsStored
<1> QED
  BY <1>6, <1>7, <1>8, <1>9

LEMMA LongerAppend ==
    ASSUME NEW S, NEW s \in Seq(S), NEW e \in S
    PROVE  /\ Append(s, e) \in Seq(S) /\ Longer(s, Append(s, e))
           /\ Append(s, e)[Len(Append(s, e))] = e
  BY Appends DEF Longer

LEMMA LongerFront ==
    ASSUME NEW S, NEW s \in Seq(S), s # <<>>
    PROVE  Front(s) \in Seq(S) /\ Longer(Front(s), s)
<1>1. Len(s) \in Nat
  OBVIOUS
<1> QED
  BY <1>1, Fronts DEF Longer

\* The fields, when they have their types.
LEMMA FieldsOf ==
    ASSUME NEW g, NEW ls, LineTypes(g, ls)
    PROVE  /\ ls \in Seq(Int) /\ g.lineinfo \in Seq(Int) /\ g.abslineinfo \in Seq(AbsLineInfo)
           /\ g.previousline \in Int /\ g.iwthabs \in Nat /\ Len(g.lineinfo) = Len(ls)
           /\ g = [lineinfo |-> g.lineinfo, abslineinfo |-> g.abslineinfo,
                   previousline |-> g.previousline, iwthabs |-> g.iwthabs]
  BY DEF LineTypes

LEMMA Constants == ABSLINEINFO \in Int /\ MAXIWTHABS \in Nat \ {0}
  BY LineConstants DEF ABSLINEINFO

\* What follows an absolute line, and what follows another one.
LEMMA CountedAbsolute ==
    ASSUME NEW abs \in Seq(AbsLineInfo), NEW n \in Nat, NEW ls \in Seq(Int),
           abs # <<>>, abs[Len(abs)].pc = n, Len(ls) = n + 1
    PROVE  Counted(1, abs, ls)
<1>1. Len(abs) # 0
  OBVIOUS
<1> QED
  BY <1>1, Constants DEF Counted, Forced

LEMMA CountedRelative ==
    ASSUME NEW abs \in Seq(AbsLineInfo), NEW ls \in Seq(Int), NEW ls2 \in Seq(Int),
           Len(ls2) = Len(ls) + 1, NEW n \in Nat, n < MAXIWTHABS
    PROVE  Counted(n, abs, ls) <=> Counted(n + 1, abs, ls2)
<1>1. Forced(abs, Len(abs)) \in Nat
  <2>1. Len(abs) \in 0..Len(abs)
    OBVIOUS
  <2> QED
    BY <2>1, ForcedIsNat
<1>2. Len(ls) \in Nat
  OBVIOUS
<1> HIDE DEF Forced
<1>3. n <= MAXIWTHABS /\ n + 1 <= MAXIWTHABS
  BY Constants
<1>4. Counted(n, abs, ls) <=> n + Forced(abs, Len(abs)) = Len(ls) + MAXIWTHABS
  BY <1>3 DEF Counted
<1>5. Counted(n + 1, abs, ls2) <=> n + 1 + Forced(abs, Len(abs)) = Len(ls2) + MAXIWTHABS
  BY <1>3 DEF Counted
<1> DEFINE f == Forced(abs, Len(abs))
           k == Len(ls)
<1>6. f \in Nat /\ k \in Nat /\ Len(ls2) = k + 1
  BY <1>1, <1>2
<1> HIDE DEF f, k
<1>7. n + f = k + MAXIWTHABS <=> n + 1 + f = k + 1 + MAXIWTHABS
  BY <1>6, Constants
<1> QED
  BY <1>4, <1>5, <1>6, <1>7 DEF f, k

LEMMA SaveKeeps ==
    ASSUME NEW g, NEW ls, NEW line \in Int, LineInv(g, ls)
    PROVE  LET new == savelineinfo(g, Len(ls), line)
           IN  LineInv(new, Append(ls, line)) /\ new.iwthabs <= MAXIWTHABS
<1> DEFINE new == savelineinfo(g, Len(ls), line)
           ls2 == Append(ls, line)
           info == g.lineinfo
           abs == g.abslineinfo
           absolute == Abs(line - g.previousline) >= LIMLINEDIFF \/ g.iwthabs >= MAXIWTHABS
<1>0. /\ LineTypes(g, ls) /\ LinesStored(info, abs, ls) /\ AbsStored(info, abs, ls)
      /\ Counted(g.iwthabs, abs, ls)
      /\ g.iwthabs <= MAXIWTHABS => g.previousline = LineBefore(ls, Len(ls) + 1)
  BY DEF LineInv
<1>1. /\ ls \in Seq(Int) /\ info \in Seq(Int) /\ abs \in Seq(AbsLineInfo)
      /\ g.previousline \in Int /\ g.iwthabs \in Nat /\ Len(info) = Len(ls) /\ Len(ls) \in Nat
  BY <1>0, FieldsOf
<1>2. ls2 \in Seq(Int) /\ Longer(ls, ls2) /\ ls2[Len(ls2)] = line
  BY <1>1, LongerAppend
<1>3. LineBefore(ls2, Len(ls2) + 1) = line
  BY <1>1, <1>2, BeforeSame
<1>4. Len(ls2) = Len(ls) + 1
  BY <1>2 DEF Longer
<1>5. CASE absolute
  <2> DEFINE e == [pc |-> Len(ls), line |-> line]
             info2 == Append(info, ABSLINEINFO)
             abs2 == Append(abs, e)
  <2>1. new = [lineinfo |-> info2, abslineinfo |-> abs2, previousline |-> line, iwthabs |-> 1]
    BY <1>5 DEF savelineinfo
  <2>2. e \in AbsLineInfo /\ e.pc = Len(ls) /\ e.line = line
    BY <1>1 DEF AbsLineInfo
  <2> HIDE DEF e
  <2>3. info2 \in Seq(Int) /\ Longer(info, info2) /\ info2[Len(info2)] = ABSLINEINFO
    BY <1>1, Constants, LongerAppend
  <2>4. abs2 \in Seq(AbsLineInfo) /\ Longer(abs, abs2) /\ abs2[Len(abs2)] = e
    BY <1>1, <2>2, LongerAppend
  <2>5. Len(info2) = Len(ls2) /\ abs2 # <<>>
    <3>1. Len(info2) = Len(info) + 1 /\ Len(abs2) = Len(abs) + 1
      BY <2>3, <2>4 DEF Longer
    <3>2. Len(abs) \in Nat
      BY <1>1
    <3> HIDE DEF info2, abs2, info, abs, ls2
    <3>3. Len(abs2) # 0
      BY <3>1, <3>2
    <3> QED
      BY <1>1, <1>4, <3>1, <3>3
  <2>6. Len(ls) <= Forced(abs, Len(abs))
    <3>1. Forced(abs, Len(abs)) \in Nat
      <4>1. Len(abs) \in 0..Len(abs)
        BY <1>1
      <4> QED
        BY <4>1, <1>1, ForcedIsNat
    <3> QED
      BY <3>1, <1>0, <1>1, Constants DEF Counted
  <2> HIDE DEF info2, abs2, ls2, new, info, abs
  <2>7. LinesStored(info2, abs2, ls2) /\ AbsStored(info2, abs2, ls2)
    BY <1>0, <1>1, <1>2, <2>2, <2>3, <2>4, <2>5, <2>6, AbsoluteStored
  <2>8. Counted(1, abs2, ls2)
    BY <1>1, <1>2, <1>4, <2>2, <2>4, <2>5, CountedAbsolute
  <2>9. new.lineinfo = info2 /\ new.abslineinfo = abs2 /\ new.previousline = line /\ new.iwthabs = 1
    BY <2>1
  <2>a. LineTypes(new, ls2)
    BY <1>2, <2>1, <2>3, <2>4, <2>5 DEF LineTypes
  <2> QED
    BY <1>3, <2>7, <2>8, <2>9, <2>a, Constants DEF LineInv, new, ls2
<1>6. CASE ~absolute
  <2> DEFINE diff == line - g.previousline
             info2 == Append(info, diff)
  <2>1. new = [lineinfo |-> info2, abslineinfo |-> abs, previousline |-> line,
               iwthabs |-> g.iwthabs + 1]
    BY <1>6 DEF savelineinfo
  <2>2. diff \in Int /\ diff # ABSLINEINFO /\ g.iwthabs < MAXIWTHABS
    BY <1>1, <1>6, LineConstants DEF ABSLINEINFO, Abs
  <2>3. diff = line - LineBefore(ls, Len(ls) + 1)
    BY <1>0, <1>1, <2>2, Constants
  <2> HIDE DEF diff
  <2>4. info2 \in Seq(Int) /\ Longer(info, info2) /\ info2[Len(info2)] = diff
    BY <1>1, <2>2, LongerAppend
  <2>5. Len(info2) = Len(ls2)
    BY <1>1, <1>4, <2>4 DEF Longer
  <2> HIDE DEF info2, ls2, new, info, abs
  <2>7. LinesStored(info2, abs, ls2) /\ AbsStored(info2, abs, ls2)
    BY <1>0, <1>1, <1>2, <2>2, <2>3, <2>4, <2>5, RelativeStored
  <2>8. Counted(g.iwthabs + 1, abs, ls2)
    BY <1>0, <1>1, <1>2, <1>4, <2>2, CountedRelative
  <2>9. new.lineinfo = info2 /\ new.abslineinfo = abs /\ new.previousline = line
        /\ new.iwthabs = g.iwthabs + 1
    BY <2>1
  <2>a. LineTypes(new, ls2)
    BY <1>1, <1>2, <2>1, <2>4, <2>5 DEF LineTypes
  <2>b. new.iwthabs <= MAXIWTHABS
    BY <1>1, <2>2, <2>9, Constants
  <2> QED
    BY <1>3, <2>7, <2>8, <2>9, <2>a, <2>b DEF LineInv, new, ls2
<1> QED
  BY <1>5, <1>6

LEMMA RemoveKeeps ==
    ASSUME NEW g, NEW ls, LineInv(g, ls), g.iwthabs <= MAXIWTHABS, ls # <<>>
    PROVE  LineInv(removelastlineinfo(g), Front(ls))
<1> DEFINE new == removelastlineinfo(g)
           ls2 == Front(ls)
           info == g.lineinfo
           abs == g.abslineinfo
           info2 == Front(info)
           last == info[Len(info)]
<1>0. /\ LineTypes(g, ls) /\ LinesStored(info, abs, ls) /\ AbsStored(info, abs, ls)
      /\ Counted(g.iwthabs, abs, ls)
      /\ g.iwthabs <= MAXIWTHABS => g.previousline = LineBefore(ls, Len(ls) + 1)
  BY DEF LineInv
<1>1. /\ ls \in Seq(Int) /\ info \in Seq(Int) /\ abs \in Seq(AbsLineInfo)
      /\ g.previousline \in Int /\ g.iwthabs \in Nat /\ Len(info) = Len(ls) /\ Len(ls) \in Nat \ {0}
      /\ Len(ls) \in 1..Len(ls)
  BY <1>0, FieldsOf
<1>g. g = [lineinfo |-> info, abslineinfo |-> abs, previousline |-> g.previousline,
           iwthabs |-> g.iwthabs]
  BY <1>0, FieldsOf
<1>2. ls2 \in Seq(Int) /\ Longer(ls2, ls) /\ info2 \in Seq(Int) /\ Longer(info2, info)
  <2>1. info # <<>>
    BY <1>1
  <2> QED
    BY <2>1, <1>1, LongerFront
<1>3. Len(ls) = Len(ls2) + 1 /\ Len(info2) = Len(ls2) /\ Len(ls2) \in Nat
  BY <1>1, <1>2 DEF Longer
<1>4. last \in Int /\ ls[Len(ls)] \in Int
  BY <1>1, ElementOf
<1>5. /\ LineBefore(ls2, Len(ls2) + 1) \in Int /\ g.previousline = ls[Len(ls)]
      /\ LineBefore(ls, Len(ls)) = LineBefore(ls2, Len(ls2) + 1)
  <2>1. Len(ls2) + 1 \in 1..Len(ls2) + 1
    BY <1>3
  <2> QED
    BY <2>1, <1>0, <1>1, <1>2, <1>3, BeforeSame
<1>6. CASE last # ABSLINEINFO
  <2>1. new = [lineinfo |-> info2, abslineinfo |-> abs, previousline |-> g.previousline - last,
               iwthabs |-> g.iwthabs - 1]
    BY <1>6, <1>g DEF removelastlineinfo
  <2> HIDE DEF info2, ls2, new, info, abs, last
  <2>2. info[Len(ls)] # ABSLINEINFO /\ last = info[Len(ls)]
    BY <1>6, <1>1 DEF last
  <2>3. /\ LinesStored(info2, abs, ls2) /\ AbsStored(info2, abs, ls2)
        /\ last = ls[Len(ls)] - LineBefore(ls2, Len(ls2) + 1)
    BY <1>0, <1>1, <1>2, <1>3, <2>2, RelativeStored
  <2>4. g.iwthabs # 0
    <3> SUFFICES ASSUME g.iwthabs = 0
                 PROVE  FALSE
      OBVIOUS
    <3>1. Forced(abs, Len(abs)) = Len(ls) + MAXIWTHABS
      <4>1. Len(abs) \in 0..Len(abs)
        BY <1>1
      <4>2. Forced(abs, Len(abs)) \in Nat
        BY <4>1, <1>1, ForcedIsNat
      <4> QED
        BY <4>2, <1>0, <1>1, Constants DEF Counted
    <3>2. CASE Len(abs) = 0
      BY <3>1, <3>2, <1>1, Constants DEF Forced
    <3>3. CASE Len(abs) # 0
      <4>1. Len(abs) \in 1..Len(abs)
        BY <3>3, <1>1
      <4>2. abs[Len(abs)].pc < Len(ls2) /\ abs[Len(abs)].pc \in Nat
        BY <4>1, <1>1, <2>3, Entries DEF AbsStored
      <4> QED
        BY <4>2, <3>1, <3>3, <1>1, <1>3, Constants DEF Forced
    <3> QED
      BY <3>2, <3>3
  <2>5. Counted(g.iwthabs - 1, abs, ls2) /\ g.iwthabs - 1 \in Nat
    <3> DEFINE n == g.iwthabs - 1
    <3>1. n \in Nat /\ n < MAXIWTHABS /\ n + 1 = g.iwthabs
      BY <2>4, <1>1, Constants
    <3> HIDE DEF n
    <3>2. Counted(n, abs, ls2)
      BY <3>1, <1>0, <1>1, <1>2, <1>3, CountedRelative
    <3> QED
      BY <3>1, <3>2 DEF n
  <2>6. g.previousline - last = LineBefore(ls2, Len(ls2) + 1)
    BY <2>3, <1>4, <1>5
  <2>7. LineTypes(new, ls2)
    <3>1. g.previousline - last \in Int
      BY <1>1, <1>4
    <3> QED
      BY <3>1, <1>1, <1>2, <1>3, <2>1, <2>5 DEF LineTypes
  <2>8. new.lineinfo = info2 /\ new.abslineinfo = abs /\ new.previousline = g.previousline - last
        /\ new.iwthabs = g.iwthabs - 1
    BY <2>1
  <2> QED
    BY <2>3, <2>5, <2>6, <2>7, <2>8 DEF LineInv, new, ls2
<1>7. CASE last = ABSLINEINFO
  <2> DEFINE abs2 == Front(abs)
  <2>1. new = [lineinfo |-> info2, abslineinfo |-> abs2, previousline |-> g.previousline,
               iwthabs |-> MAXIWTHABS + 1]
    BY <1>7, <1>g DEF removelastlineinfo, RemoveAbs
  <2> HIDE DEF info2, ls2, new, info, abs, last, abs2
  <2>2. info[Len(ls)] = ABSLINEINFO
    BY <1>7, <1>1 DEF last
  <2>3. PICK top \in 1..Len(abs) : abs[top].pc = Len(ls) - 1
    BY <2>2, <1>0, <1>1 DEF LinesStored
  <2>4. top = Len(abs) /\ abs # <<>>
    <3>1. Len(abs) \in Nat /\ top \in Nat /\ top <= Len(abs) /\ 1 <= top /\ Len(abs) \in 1..Len(abs)
      BY <1>1, <2>3
    <3>2. ASSUME top < Len(abs)
          PROVE  FALSE
      <4>1. abs[top].pc < abs[Len(abs)].pc /\ abs[Len(abs)].pc < Len(ls)
        <5>1. top \in 1..Len(abs) - 1
          BY <3>1, <3>2
        <5> QED
          BY <5>1, <3>1, <1>0 DEF AbsStored
      <4>2. abs[Len(abs)].pc \in Nat
        BY <3>1, <1>1, Entries
      <4> QED
        BY <4>1, <4>2, <2>3, <1>1
    <3> QED
      BY <3>1, <3>2
  <2>5. abs2 \in Seq(AbsLineInfo) /\ Longer(abs2, abs)
    BY <2>4, <1>1, LongerFront DEF abs2
  <2>6. abs[Len(abs)].pc = Len(ls2)
    BY <2>3, <2>4, <1>1, <1>3
  <2>7. /\ LinesStored(info2, abs2, ls2) /\ AbsStored(info2, abs2, ls2)
        /\ Len(ls2) <= Forced(abs2, Len(abs2))
    BY <1>0, <1>1, <1>2, <1>3, <2>2, <2>5, <2>6, AbsoluteStored
  <2>8. Counted(MAXIWTHABS + 1, abs2, ls2)
    BY <2>7, Constants DEF Counted
  <2>9. LineTypes(new, ls2)
    BY <1>1, <1>2, <1>3, <2>1, <2>5, Constants DEF LineTypes
  <2>a. new.lineinfo = info2 /\ new.abslineinfo = abs2 /\ new.iwthabs = MAXIWTHABS + 1
    BY <2>1
  <2>b. ~(new.iwthabs <= MAXIWTHABS)
    BY <2>a, Constants
  <2> QED
    BY <2>7, <2>8, <2>9, <2>a, <2>b DEF LineInv, new, ls2
<1> QED
  BY <1>6, <1>7

LEMMA LineInitKeeps == LineInit => LineInvariant
<1> SUFFICES ASSUME LineInit
             PROVE  LineInvariant
  OBVIOUS
<1>1. /\ fs = [lineinfo |-> <<>>, abslineinfo |-> <<>>, previousline |-> linedefined,
               iwthabs |-> 0]
      /\ lines = <<>>
  BY DEF LineInit
<1>2. LineTypes(fs, lines)
  BY <1>1, LineConstants DEF LineTypes
<1>3. fs.lineinfo = <<>> /\ fs.abslineinfo = <<>> /\ fs.previousline = linedefined /\ fs.iwthabs = 0
  BY <1>1
<1>4. LinesStored(<<>>, <<>>, <<>>) /\ AbsStored(<<>>, <<>>, <<>>)
  BY DEF LinesStored, AbsStored
<1>5. Counted(0, <<>>, <<>>)
  BY Constants DEF Counted, Forced
<1>6. LineBefore(<<>>, Len(<<>>) + 1) = linedefined
  BY DEF LineBefore
<1> QED
  BY <1>1, <1>2, <1>3, <1>4, <1>5, <1>6, Constants DEF LineInvariant, LineInv

LEMMA LineStepKeeps ==
    ASSUME LineInvariant, NEW line \in Int,
           luaK_code(line) \/ luaK_fixline(line) \/ ReplaceNot(line)
    PROVE  LineInvariant'
<1>1. LineInv(fs, lines) /\ fs.iwthabs <= MAXIWTHABS
  BY DEF LineInvariant
<1>2. lines \in Seq(Int) /\ Len(lines) \in Nat
  BY <1>1, FieldsOf DEF LineInv
<1>3. ASSUME NEW g, NEW ls, LineInv(g, ls), fs' = savelineinfo(g, Len(ls), line),
             lines' = Append(ls, line)
      PROVE  LineInvariant'
  <2>1. LET new == savelineinfo(g, Len(ls), line)
        IN  LineInv(new, Append(ls, line)) /\ new.iwthabs <= MAXIWTHABS
    BY <1>3, SaveKeeps
  <2>2. LineInv(fs', lines') /\ fs'.iwthabs <= MAXIWTHABS
    BY <2>1, <1>3
  <2> QED
    BY <2>2 DEF LineInvariant
<1>8. LineInv(fs', lines') /\ fs'.iwthabs <= MAXIWTHABS => LineInvariant'
  BY DEF LineInvariant
<1> DEFINE g == removelastlineinfo(fs)
           ls == Front(lines)
<1>4. ASSUME lines # <<>>
      PROVE  LineInv(g, ls) /\ Len(ls) = Len(lines) - 1 /\ ls \in Seq(Int)
  <2>1. LineInv(g, ls)
    BY <1>1, <1>4, RemoveKeeps
  <2>2. Len(ls) = Len(lines) - 1 /\ ls \in Seq(Int)
    BY <1>2, <1>4, Fronts
  <2> QED
    BY <2>1, <2>2
<1>5. CASE luaK_code(line)
  BY <1>1, <1>3, <1>5 DEF luaK_code
<1>6. CASE luaK_fixline(line)
  <2>1. lines # <<>> /\ fs' = savelineinfo(g, Len(lines) - 1, line) /\ lines' = Append(ls, line)
    BY <1>6 DEF luaK_fixline
  <2> HIDE DEF g, ls
  <2>2. LineInv(g, ls) /\ fs' = savelineinfo(g, Len(ls), line)
    BY <2>1, <1>4
  <2>3. LET new == savelineinfo(g, Len(ls), line)
        IN  LineInv(new, Append(ls, line)) /\ new.iwthabs <= MAXIWTHABS
    BY <2>2, SaveKeeps
  <2>4. LineInv(fs', lines') /\ fs'.iwthabs <= MAXIWTHABS
    BY <2>1, <2>2, <2>3
  <2> QED
    BY <2>4, <1>8
<1>7. CASE ReplaceNot(line)
  <2> DEFINE test == savelineinfo(g, Len(lines) - 1, line)
             ls2 == Append(ls, line)
  <2>1. lines # <<>> /\ fs' = savelineinfo(test, Len(lines), line) /\ lines' = ls \o <<line, line>>
    BY <1>7 DEF ReplaceNot
  <2> HIDE DEF g, ls
  <2>2. LineInv(g, ls) /\ Len(ls) = Len(lines) - 1 /\ ls \in Seq(Int)
    BY <2>1, <1>4
  <2>3. LineInv(test, ls2)
    BY <2>2, SaveKeeps
  <2>4. Len(ls2) = Len(lines) /\ ls2 \in Seq(Int)
    BY <2>2, <1>2, Appends
  <2>5. lines' = Append(ls2, line)
    BY <2>1, <2>2
  <2> HIDE DEF test, ls2
  <2>6. LET new == savelineinfo(test, Len(ls2), line)
        IN  LineInv(new, Append(ls2, line)) /\ new.iwthabs <= MAXIWTHABS
    BY <2>3, SaveKeeps
  <2>7. LineInv(fs', lines') /\ fs'.iwthabs <= MAXIWTHABS
    BY <2>1, <2>4, <2>5, <2>6
  <2> QED
    BY <2>7, <1>8
<1> QED
  BY <1>5, <1>6, <1>7

\* What is stored of the lines, after any sequence of instructions, of changes of
\* the line of the last one and of removals.
THEOREM LineInvariance == LineSpec => []LineInvariant
<1>1. ASSUME LineInvariant, [LineNext]_lineVars
      PROVE  LineInvariant'
  <2>1. CASE LineNext
    <3>1. PICK line \in Lines : luaK_code(line) \/ luaK_fixline(line) \/ ReplaceNot(line)
      BY <2>1 DEF LineNext
    <3>2. line \in Int
      BY LineConstants
    <3> QED
      BY <1>1, <3>1, <3>2, LineStepKeeps
  <2>2. CASE UNCHANGED lineVars
    <3>1. fs' = fs /\ lines' = lines
      BY <2>2 DEF lineVars
    <3> QED
      BY <1>1, <3>1 DEF LineInvariant
  <2> QED
    BY <1>1, <2>1, <2>2
<1> QED
  BY <1>1, LineInitKeeps, PTL DEF LineSpec

-----------------------------------------------------------------------------
(* The lines are found again.                                              *)

\* The line of the instruction at pc, or of none.
LineAt(pc) == LineBefore(lines, pc + 2)

LEMMA LinesAt ==
    ASSUME LineInvariant
    PROVE  /\ \A pc \in 0..Len(lines) - 1 : LineAt(pc) = lines[pc + 1] /\ LineAt(pc) \in Int
           /\ LineAt(-1) = linedefined
           /\ \A pc \in 0..Len(lines) - 1 :
                 fs.lineinfo[pc + 1] # ABSLINEINFO
                   => fs.lineinfo[pc + 1] = LineAt(pc) - LineAt(pc - 1)
<1>1. /\ lines \in Seq(Int) /\ Len(lines) \in Nat
      /\ LinesStored(fs.lineinfo, fs.abslineinfo, lines)
  BY FieldsOf DEF LineInvariant, LineInv
<1>2. LineAt(-1) = linedefined
  BY DEF LineAt, LineBefore
<1>3. ASSUME NEW pc \in 0..Len(lines) - 1
      PROVE  /\ LineAt(pc) = lines[pc + 1] /\ LineAt(pc) \in Int
             /\ fs.lineinfo[pc + 1] # ABSLINEINFO
                   => fs.lineinfo[pc + 1] = LineAt(pc) - LineAt(pc - 1)
  <2>1. pc + 1 \in 1..Len(lines) /\ pc + 2 # 1 /\ pc + 2 - 1 = pc + 1 /\ pc - 1 + 2 = pc + 1
    BY <1>1
  <2>2. LineAt(pc) = lines[pc + 1]
    BY <2>1 DEF LineAt, LineBefore
  <2>3. lines[pc + 1] \in Int
    BY <2>1, <1>1, ElementOf
  <2>4. LineAt(pc - 1) = LineBefore(lines, pc + 1)
    BY <2>1 DEF LineAt
  <2>5. fs.lineinfo[pc + 1] # ABSLINEINFO
          => fs.lineinfo[pc + 1] = lines[pc + 1] - LineBefore(lines, pc + 1)
    BY <2>1, <1>1 DEF LinesStored
  <2> QED
    BY <2>2, <2>3, <2>4, <2>5
<1> QED
  BY <1>2, <1>3

\* The loop of luaG_getfuncline, between two absolute lines.
LEMMA AddUpFinds ==
    ASSUME LineInvariant, NEW line \in Int, NEW from \in Int, NEW to \in Int,
           -1 <= from, from <= to, to < Len(lines),
           \A pc \in from + 1..to : fs.lineinfo[pc + 1] # ABSLINEINFO
    PROVE  AddUp(line, from, to) = line + LineAt(to) - LineAt(from)
<1> DEFINE D == from..to
           Step(f) == [pc \in D |-> IF pc = from THEN line ELSE f[pc - 1] + fs.lineinfo[pc + 1]]
           upto == CHOOSE f : f = Step(f)
           sum == [pc \in D |-> line + LineAt(pc) - LineAt(from)]
<1>0. Len(lines) \in Nat
  BY FieldsOf DEF LineInvariant, LineInv
<1>1. \A pc \in D : LineAt(pc) \in Int
  <2> TAKE pc \in D
  <2>1. CASE pc = -1
    BY <2>1, LinesAt, LineConstants
  <2>2. CASE pc # -1
    <3>1. pc \in 0..Len(lines) - 1
      BY <2>2, <1>0
    <3> QED
      BY <3>1, LinesAt
  <2> QED
    BY <2>1, <2>2
<1>2. ASSUME NEW pc \in D, pc # from
      PROVE  pc - 1 \in D /\ fs.lineinfo[pc + 1] = LineAt(pc) - LineAt(pc - 1)
  <2>1. pc - 1 \in D /\ pc \in from + 1..to /\ pc \in 0..Len(lines) - 1
    BY <1>2, <1>0
  <2> QED
    BY <2>1, LinesAt
<1>3. from \in D /\ to \in D
  OBVIOUS
<1> HIDE DEF D
<1>4. sum = Step(sum)
  <2>1. ASSUME NEW pc \in D
        PROVE  line + LineAt(pc) - LineAt(from)
                 = IF pc = from THEN line ELSE sum[pc - 1] + fs.lineinfo[pc + 1]
    <3>1. CASE pc = from
      BY <3>1, <1>1
    <3>2. CASE pc # from
      <4>1. sum[pc - 1] = line + LineAt(pc - 1) - LineAt(from)
        BY <3>2, <1>2
      <4>2. LineAt(pc) \in Int /\ LineAt(pc - 1) \in Int /\ LineAt(from) \in Int
        BY <3>2, <1>1, <1>2, <1>3
      <4> QED
        BY <4>1, <4>2, <3>2, <1>2
    <3> QED
      BY <3>1, <3>2
  <2> QED
    BY <2>1, Zenon
<1>5. upto = Step(upto)
  BY <1>4, Zenon
<1>6. AddUp(line, from, to) = upto[to]
  BY DEF AddUp, D
<1> HIDE DEF upto
<1>7. \A pc \in D : upto[pc] = IF pc = from THEN line ELSE upto[pc - 1] + fs.lineinfo[pc + 1]
  BY <1>5, Zenon
<1>8. \A n \in Nat : from + n \in D => upto[from + n] = line + LineAt(from + n) - LineAt(from)
  <2> DEFINE T == {n \in Nat : from + n \in D
                               /\ upto[from + n] # line + LineAt(from + n) - LineAt(from)}
  <2> SUFFICES ASSUME T # {}
               PROVE  FALSE
    OBVIOUS
  <2>1. PICK n \in T : \A m \in T : n <= m
    BY LeastNat
  <2>2. n \in Nat /\ from + n \in D /\ upto[from + n] # line + LineAt(from + n) - LineAt(from)
    BY <2>1
  <2>3. n # 0
    BY <2>2, <1>1, <1>3, <1>7
  <2>4. from + n # from /\ from + n - 1 = from + (n - 1) /\ n - 1 \in Nat /\ n - 1 < n
    BY <2>2, <2>3
  <2>5. from + (n - 1) \in D
    <3> DEFINE pc == from + n
    <3>1. pc \in D /\ pc # from /\ pc - 1 = from + (n - 1)
      BY <2>2, <2>4
    <3> HIDE DEF pc
    <3>2. pc - 1 \in D
      BY <3>1, <1>2
    <3> QED
      BY <3>1, <3>2
  <2>6. n - 1 \notin T
    <3> SUFFICES ASSUME n - 1 \in T
                 PROVE  FALSE
      OBVIOUS
    <3> HIDE DEF T
    <3>1. n <= n - 1
      BY <2>1
    <3> QED
      BY <3>1, <2>2
  <2>7. upto[from + (n - 1)] = line + LineAt(from + (n - 1)) - LineAt(from)
    BY <2>4, <2>5, <2>6
  <2>8. upto[from + n] = upto[from + (n - 1)] + (LineAt(from + n) - LineAt(from + (n - 1)))
    BY <2>2, <2>4, <1>2, <1>7
  <2>9. LineAt(from + n) \in Int /\ LineAt(from + (n - 1)) \in Int /\ LineAt(from) \in Int
    BY <2>2, <2>5, <1>1, <1>3
  <2> QED
    BY <2>2, <2>7, <2>8, <2>9
<1> DEFINE n == to - from
<1>9. n \in Nat /\ from + n = to
  OBVIOUS
<1> QED
  BY <1>3, <1>6, <1>8, <1>9

\* Each absolute line is at most MAXIWTHABS instructions behind the one before.
LEMMA AbsNear ==
    ASSUME LineInvariant, NEW k \in 0..Len(fs.abslineinfo)
    PROVE  Forced(fs.abslineinfo, k) <= (k + 1) * MAXIWTHABS
<1> DEFINE abs == fs.abslineinfo
<1>1. /\ abs \in Seq(AbsLineInfo) /\ Len(abs) \in Nat
      /\ AbsStored(fs.lineinfo, abs, lines)
  BY FieldsOf DEF LineInvariant, LineInv
<1> HIDE DEF abs
<1>2. \A n \in Nat : n <= Len(abs) => Forced(abs, n) <= (n + 1) * MAXIWTHABS
  <2> DEFINE T == {n \in Nat : n <= Len(abs) /\ ~(Forced(abs, n) <= (n + 1) * MAXIWTHABS)}
  <2> SUFFICES ASSUME T # {}
               PROVE  FALSE
    OBVIOUS
  <2>1. PICK n \in T : \A m \in T : n <= m
    BY LeastNat
  <2>2. n \in Nat /\ n <= Len(abs) /\ ~(Forced(abs, n) <= (n + 1) * MAXIWTHABS)
    BY <2>1
  <2>3. n # 0
    <3> SUFFICES ASSUME n = 0
                 PROVE  FALSE
      OBVIOUS
    <3>1. Forced(abs, n) = MAXIWTHABS /\ (n + 1) * MAXIWTHABS = MAXIWTHABS
      BY Constants DEF Forced
    <3> QED
      BY <3>1, <2>2, Constants
  <2>4. n - 1 \in Nat /\ n - 1 <= Len(abs) /\ n \in 1..Len(abs) /\ n - 1 + 1 = n
    BY <2>2, <2>3, <1>1
  <2>5. n - 1 \notin T
    <3> SUFFICES ASSUME n - 1 \in T
                 PROVE  FALSE
      OBVIOUS
    <3> HIDE DEF T
    <3>1. n <= n - 1
      BY <2>1
    <3> QED
      BY <3>1, <2>2
  <2>6. Forced(abs, n - 1) <= n * MAXIWTHABS
    BY <2>4, <2>5
  <2>7. abs[n].pc <= Forced(abs, n - 1) /\ abs[n].pc \in Nat /\ Forced(abs, n - 1) \in Nat
    <3>1. n - 1 \in 0..Len(abs)
      BY <2>4
    <3> QED
      BY <3>1, <2>4, <1>1, Entries, ForcedIsNat DEF AbsStored
  <2>8. Forced(abs, n) = abs[n].pc + MAXIWTHABS
    BY <2>3 DEF Forced
  <2>9. (n + 1) * MAXIWTHABS = n * MAXIWTHABS + MAXIWTHABS /\ n * MAXIWTHABS \in Nat
    BY <2>2, Constants, Times
  <2> QED
    BY <2>2, <2>6, <2>7, <2>8, <2>9, Constants
<1> QED
  BY <1>1, <1>2 DEF abs

\* The assertion of getbaseline (ldebug.c:67): the estimate is not beyond the base.
LEMMA EstimateIsLow ==
    ASSUME LineInvariant, NEW pc \in 0..Len(lines) - 1, Estimate(pc) >= 0
    PROVE  Estimate(pc) < Len(fs.abslineinfo) /\ fs.abslineinfo[Estimate(pc) + 1].pc <= pc
<1> DEFINE abs == fs.abslineinfo
           q == pc \div MAXIWTHABS
<1>1. /\ abs \in Seq(AbsLineInfo) /\ Len(abs) \in Nat /\ Len(lines) \in Nat
      /\ AbsStored(fs.lineinfo, abs, lines) /\ Counted(fs.iwthabs, abs, lines)
      /\ fs.iwthabs \in Nat /\ fs.iwthabs <= MAXIWTHABS
  BY FieldsOf DEF LineInvariant, LineInv
<1>2. q \in Nat /\ q * MAXIWTHABS <= pc /\ pc \in Nat
  BY <1>1, Constants, Quotient
<1>3. Estimate(pc) = q - 1
  BY DEF Estimate
<1> HIDE DEF q
<1>4. q >= 1
  BY <1>2, <1>3
<1> HIDE DEF abs
<1>5. \A k \in 0..Len(abs) : Forced(abs, k) <= (k + 1) * MAXIWTHABS /\ Forced(abs, k) \in Nat
  BY <1>1, AbsNear, ForcedIsNat DEF abs
<1>6. q <= Len(abs)
  <2> SUFFICES ASSUME ~(q <= Len(abs))
               PROVE  FALSE
    OBVIOUS
  <2> DEFINE m == Len(abs)
  <2>1. m \in Nat /\ m \in 0..Len(abs) /\ m + 1 <= q /\ m + 1 \in Nat
    BY <1>1, <1>2
  <2>2. Len(lines) <= Forced(abs, m)
    <3>1. fs.iwthabs + Forced(abs, m) = Len(lines) + MAXIWTHABS
      BY <1>1 DEF Counted
    <3>2. Forced(abs, m) \in Nat
      BY <2>1, <1>5
    <3> QED
      BY <3>1, <3>2, <1>1, Constants
  <2>3. (m + 1) * MAXIWTHABS <= q * MAXIWTHABS
    BY <2>1, <1>2, Constants, Times
  <2>4. Forced(abs, m) <= (m + 1) * MAXIWTHABS /\ Forced(abs, m) \in Nat
    BY <2>1, <1>5
  <2>5. (m + 1) * MAXIWTHABS \in Nat /\ q * MAXIWTHABS \in Nat
    BY <2>1, <1>2, Constants, Times
  <2> HIDE DEF m
  <2> QED
    BY <2>2, <2>3, <2>4, <2>5, <1>1, <1>2
<1>7. abs[q].pc <= Forced(abs, q - 1) /\ abs[q].pc \in Nat
  <2>1. q \in 1..Len(abs)
    BY <1>1, <1>2, <1>4, <1>6
  <2> QED
    BY <2>1, <1>1, Entries DEF AbsStored
<1>8. Forced(abs, q - 1) <= q * MAXIWTHABS /\ Forced(abs, q - 1) \in Nat
  <2>1. q - 1 \in 0..Len(abs) /\ q - 1 + 1 = q
    BY <1>1, <1>2, <1>4, <1>6
  <2> QED
    BY <2>1, <1>5
<1>9. q * MAXIWTHABS \in Nat
  BY <1>2, Constants, Times
<1>a. abs[q].pc <= pc
  BY <1>2, <1>7, <1>8, <1>9
<1>b. Estimate(pc) < Len(abs) /\ Estimate(pc) + 1 = q
  BY <1>1, <1>2, <1>3, <1>6
<1> QED
  BY <1>a, <1>b DEF abs

\* The loop of getbaseline ends at the last absolute line at or before pc.
LEMMA BaseFound ==
    ASSUME LineInvariant, NEW pc \in 0..Len(lines) - 1,
           fs.abslineinfo # <<>>, ~(pc < fs.abslineinfo[1].pc)
    PROVE  LET b == BaseIndex(pc) + 1
           IN  /\ b \in 1..Len(fs.abslineinfo) /\ fs.abslineinfo[b].pc <= pc
               /\ \A k \in 1..Len(fs.abslineinfo) :
                     fs.abslineinfo[k].pc <= pc => fs.abslineinfo[k].pc <= fs.abslineinfo[b].pc
<1> DEFINE abs == fs.abslineinfo
           e == Estimate(pc)
           n == Len(abs)
           b == BaseIndex(pc)
<1>1. /\ abs \in Seq(AbsLineInfo) /\ n \in Nat /\ Len(lines) \in Nat
      /\ AbsStored(fs.lineinfo, abs, lines)
  BY FieldsOf DEF LineInvariant, LineInv
<1>2. n # 0 /\ \A k \in 1..n : abs[k].pc \in Nat
  BY <1>1, Entries
<1>3. e \in Int /\ e >= -1 /\ e < n /\ (e >= 0 => abs[e + 1].pc <= pc)
  <2>1. e \in Int /\ e >= -1
    BY <1>1, Constants, Quotient DEF Estimate
  <2> QED
    BY <2>1, <1>2, <1>1, EstimateIsLow
<1> HIDE DEF e, b
<1>4. \A i \in Int : IsLater(i, pc) <=> i + 1 < n /\ pc >= abs[i + 2].pc
  BY DEF IsLater
<1>5. \E i \in e..n : ~IsLater(i, pc) /\ \A j \in e..i - 1 : IsLater(j, pc)
  <2> DEFINE T == {m \in Nat : ~IsLater(e + m, pc)}
  <2>1. n - e \in Nat /\ e + (n - e) = n /\ n \in Int
    BY <1>1, <1>3
  <2>2. ~IsLater(n, pc)
    BY <1>1, <1>4
  <2>3. n - e \in T
    BY <2>1, <2>2
  <2>4. PICK m \in T : \A l \in T : m <= l
    BY <2>3, LeastNat
  <2>5. m \in Nat /\ m <= n - e /\ ~IsLater(e + m, pc)
    BY <2>3, <2>4
  <2>6. e + m \in e..n
    BY <2>1, <2>5, <1>1, <1>3
  <2>7. ASSUME NEW j \in e..(e + m) - 1
        PROVE  IsLater(j, pc)
    <3>1. j - e \in Nat /\ j - e < m /\ e + (j - e) = j
      BY <2>5, <1>3
    <3>2. j - e \notin T
      BY <3>1, <2>4, <2>5
    <3> QED
      BY <3>1, <3>2
  <2> QED
    BY <2>5, <2>6, <2>7
<1>6. /\ b \in e..n /\ ~IsLater(b, pc)
      /\ \A j \in e..b - 1 : IsLater(j, pc)
  <2>1. b = CHOOSE i \in e..n : ~IsLater(i, pc) /\ \A j \in e..i - 1 : IsLater(j, pc)
    BY DEF b, e, BaseIndex
  <2> QED
    BY <2>1, <1>5, Zenon
<1>7. b \in Int /\ b >= -1 /\ b <= n
  BY <1>1, <1>3, <1>6
<1>8. b >= 0 /\ b < n /\ abs[b + 1].pc <= pc
  <2>1. CASE b = e
    <3>1. b # -1
      <4> SUFFICES ASSUME b = -1
                   PROVE  FALSE
        OBVIOUS
      <4>1. b + 1 < n /\ b + 2 = 1
        BY <1>1, <1>2
      <4>2. ~(pc >= abs[1].pc)
        BY <4>1, <1>4, <1>6, <1>7
      <4>3. abs[1].pc \in Nat /\ pc \in Nat
        BY <1>1, <1>2
      <4> QED
        BY <4>2, <4>3
    <3> QED
      BY <3>1, <2>1, <1>3
  <2>2. CASE b # e
    <3>1. b - 1 \in e..b - 1
      BY <2>2, <1>3, <1>6, <1>7
    <3>2. b - 1 \in Int /\ IsLater(b - 1, pc) /\ b - 1 + 1 = b /\ b - 1 + 2 = b + 1
      BY <3>1, <1>6, <1>7
    <3>3. b < n /\ pc >= abs[b + 1].pc
      BY <3>2, <1>4
    <3>4. b >= 0 /\ b + 1 \in 1..n
      BY <2>2, <3>3, <1>1, <1>3, <1>6, <1>7
    <3>5. abs[b + 1].pc \in Nat /\ pc \in Nat
      BY <3>4, <1>1, <1>2
    <3> QED
      BY <3>3, <3>4, <3>5
  <2> QED
    BY <2>1, <2>2
<1>9. ASSUME NEW k \in 1..n, abs[k].pc <= pc
      PROVE  abs[k].pc <= abs[b + 1].pc
  <2>0. b + 1 \in 1..n /\ k \in Nat
    BY <1>1, <1>7, <1>8
  <2>1. CASE k <= b
    <3>1. k \in 1..(b + 1) - 1
      BY <2>0, <2>1, <1>7
    <3>2. abs[k].pc < abs[b + 1].pc
      BY <3>1, <2>0, <1>1 DEF AbsStored
    <3> QED
      BY <3>2, <2>0, <1>2
  <2>2. CASE k = b + 1
    BY <2>0, <2>2, <1>2
  <2>3. CASE k > b + 1
    <3>1. b + 1 < n /\ b + 2 \in 1..n
      BY <2>0, <2>3, <1>1, <1>7
    <3>2. ~(pc >= abs[b + 2].pc)
      BY <3>1, <1>4, <1>6, <1>7
    <3>3. abs[b + 2].pc <= abs[k].pc
      <4>1. CASE k = b + 2
        BY <4>1, <3>1, <1>2
      <4>2. CASE k # b + 2
        <5>1. b + 2 \in 1..k - 1
          BY <4>2, <2>0, <2>3, <1>7, <1>8
        <5>2. abs[b + 2].pc < abs[k].pc
          BY <5>1, <1>1 DEF AbsStored
        <5> QED
          BY <5>2, <3>1, <1>2
      <4> QED
        BY <4>1, <4>2
    <3> QED
      BY <3>1, <3>2, <3>3, <1>1, <1>2, <1>9
  <2> QED
    BY <2>0, <2>1, <2>2, <2>3, <1>7
<1>a. b + 1 \in 1..n
  BY <1>1, <1>7, <1>8
<1> QED
  BY <1>8, <1>9, <1>a DEF b

\* The line of an instruction is found from its base.
LEMMA FuncLineFinds ==
    ASSUME LineInvariant, NEW pc \in 0..Len(lines) - 1
    PROVE  luaG_getfuncline(pc) = lines[pc + 1]
<1> DEFINE abs == fs.abslineinfo
           base == getbaseline(pc)
           b == BaseIndex(pc) + 1
<1>1. /\ abs \in Seq(AbsLineInfo) /\ Len(abs) \in Nat /\ Len(lines) \in Nat
      /\ AbsStored(fs.lineinfo, abs, lines) /\ LinesStored(fs.lineinfo, abs, lines)
  BY FieldsOf DEF LineInvariant, LineInv
<1>2. \A k \in 1..Len(abs) : abs[k].pc \in Nat /\ abs[k].line \in Int
  BY <1>1, Entries
<1>3. ASSUME NEW j \in 0..pc, fs.lineinfo[j + 1] = ABSLINEINFO
      PROVE  \E k \in 1..Len(abs) : abs[k].pc = j
  <2>1. j + 1 \in 1..Len(lines) /\ j + 1 - 1 = j
    BY <1>1
  <2> QED
    BY <2>1, <1>1, <1>3 DEF LinesStored
<1>4. luaG_getfuncline(pc) = AddUp(base.line, base.pc, pc)
  BY DEF luaG_getfuncline
<1>5. LineAt(pc) = lines[pc + 1] /\ LineAt(pc) \in Int
  BY LinesAt
<1>6. CASE abs = <<>> \/ pc < abs[1].pc
  <2>1. base = [pc |-> -1, line |-> linedefined]
    BY <1>6 DEF getbaseline
  <2>2. ASSUME NEW j \in 0..pc
        PROVE  fs.lineinfo[j + 1] # ABSLINEINFO
    <3> SUFFICES ASSUME fs.lineinfo[j + 1] = ABSLINEINFO
                 PROVE  FALSE
      OBVIOUS
    <3>1. PICK k \in 1..Len(abs) : abs[k].pc = j
      BY <1>3
    <3>2. 1 \in 1..Len(abs) /\ abs # <<>>
      BY <3>1, <1>1
    <3>3. pc < abs[1].pc /\ abs[1].pc \in Nat /\ k \in Nat
      BY <3>2, <1>2, <1>6
    <3>4. CASE k = 1
      BY <3>1, <3>3, <3>4
    <3>5. CASE k # 1
      <4>1. 1 \in 1..k - 1
        BY <3>3, <3>5
      <4>2. abs[1].pc < abs[k].pc
        BY <4>1, <1>1 DEF AbsStored
      <4> QED
        BY <4>2, <3>1, <3>3
    <3> QED
      BY <3>4, <3>5
  <2>3. LineAt(-1) = linedefined /\ linedefined \in Int /\ -1 + 1 = 0
    BY LinesAt, LineConstants
  <2>4. -1 \in Int /\ -1 <= -1 /\ -1 <= pc /\ pc < Len(lines) /\ pc \in Int
    BY <1>1
  <2>5. \A j \in -1 + 1..pc : fs.lineinfo[j + 1] # ABSLINEINFO
    BY <2>2, <2>3
  <2>6. AddUp(linedefined, -1, pc) = linedefined + LineAt(pc) - LineAt(-1)
    BY <2>3, <2>4, <2>5, AddUpFinds
  <2>7. AddUp(linedefined, -1, pc) = LineAt(pc)
    BY <2>6, <2>3, <1>5
  <2>8. base.line = linedefined /\ base.pc = -1
    BY <2>1
  <2> QED
    BY <2>7, <2>8, <1>4, <1>5
<1>7. CASE ~(abs = <<>> \/ pc < abs[1].pc)
  <2>1. base = abs[b]
    BY <1>7 DEF getbaseline
  <2>2. /\ b \in 1..Len(abs) /\ abs[b].pc <= pc
        /\ \A k \in 1..Len(abs) : abs[k].pc <= pc => abs[k].pc <= abs[b].pc
    BY <1>7, BaseFound
  <2> HIDE DEF b, base
  <2> DEFINE from == abs[b].pc
             line == abs[b].line
  <2>3. from \in Nat /\ line \in Int /\ from <= pc /\ from \in 0..Len(lines) - 1
    BY <2>2, <1>1, <1>2
  <2>4. line = lines[from + 1]
    BY <2>2, <1>1 DEF AbsStored
  <2>5. line = LineAt(from)
    BY <2>3, <2>4, LinesAt
  <2>8. base.line = line /\ base.pc = from
    BY <2>1
  <2>b. \A k \in 1..Len(abs) : abs[k].pc <= pc => abs[k].pc <= from
    BY <2>2
  <2> HIDE DEF from, line
  <2>6. ASSUME NEW j \in from + 1..pc
        PROVE  fs.lineinfo[j + 1] # ABSLINEINFO
    <3> SUFFICES ASSUME fs.lineinfo[j + 1] = ABSLINEINFO
                 PROVE  FALSE
      OBVIOUS
    <3>0. j \in 0..pc /\ j <= pc /\ j > from
      BY <2>3
    <3>1. PICK k \in 1..Len(abs) : abs[k].pc = j
      BY <3>0, <1>3
    <3>2. abs[k].pc <= from
      BY <3>0, <3>1, <2>b
    <3> QED
      BY <3>0, <3>1, <3>2, <2>3
  <2>7. from \in Int /\ pc \in Int /\ -1 <= from /\ from <= pc /\ pc < Len(lines)
    BY <2>3, <1>1
  <2>9. AddUp(line, from, pc) = line + LineAt(pc) - LineAt(from)
    BY <2>3, <2>6, <2>7, AddUpFinds
  <2>a. AddUp(line, from, pc) = LineAt(pc)
    BY <2>9, <2>3, <2>5, <1>5
  <2> QED
    BY <2>8, <2>a, <1>4, <1>5
<1> QED
  BY <1>6, <1>7

\* A difference of lines is what the differences between them add up to.
LEMMA ChangeFound ==
    ASSUME LineInvariant, NEW pc \in 0..Len(lines) - 1, NEW oldpc \in 0..pc - 1
    PROVE  changedline(oldpc, pc) = (lines[oldpc + 1] # lines[pc + 1])
<1>1. Len(lines) \in Nat
  BY FieldsOf DEF LineInvariant, LineInv
<1>2. oldpc \in 0..Len(lines) - 1
  BY <1>1
<1>3. /\ LineAt(pc) = lines[pc + 1] /\ LineAt(pc) \in Int
      /\ LineAt(oldpc) = lines[oldpc + 1] /\ LineAt(oldpc) \in Int
  BY <1>2, LinesAt
<1> DEFINE near == /\ pc - oldpc < MAXIWTHABS \div 2
                   /\ \A j \in oldpc + 1..pc : fs.lineinfo[j + 1] # ABSLINEINFO
<1>4. CASE near
  <2>1. 0 \in Int /\ oldpc \in Int /\ pc \in Int /\ -1 <= oldpc /\ oldpc <= pc /\ pc < Len(lines)
    BY <1>1
  <2>2. AddUp(0, oldpc, pc) = 0 + LineAt(pc) - LineAt(oldpc)
    BY <2>1, <1>4, AddUpFinds
  <2>3. changedline(oldpc, pc) = (AddUp(0, oldpc, pc) # 0)
    BY <1>4 DEF changedline
  <2>4. AddUp(0, oldpc, pc) # 0 <=> LineAt(oldpc) # LineAt(pc)
    BY <2>2, <1>3
  <2> QED
    BY <2>3, <2>4, <1>3
<1>5. CASE ~near
  <2>1. changedline(oldpc, pc) = (luaG_getfuncline(oldpc) # luaG_getfuncline(pc))
    BY <1>5 DEF changedline
  <2> QED
    BY <2>1, <1>2, FuncLineFinds
<1> QED
  BY <1>4, <1>5

LEMMA NextFound ==
    ASSUME LineInvariant, NEW pc \in 0..Len(lines) - 1
    PROVE  nextline(IF pc = 0 THEN linedefined ELSE lines[pc], pc) = lines[pc + 1]
<1> DEFINE current == IF pc = 0 THEN linedefined ELSE lines[pc]
<1>1. Len(lines) \in Nat
  BY FieldsOf DEF LineInvariant, LineInv
<1>2. current = LineAt(pc - 1) /\ current \in Int
  <2>1. CASE pc = 0
    BY <2>1, LinesAt, LineConstants
  <2>2. CASE pc # 0
    <3>1. pc - 1 \in 0..Len(lines) - 1 /\ pc - 1 + 1 = pc
      BY <2>2, <1>1
    <3>2. LineAt(pc - 1) = lines[pc] /\ LineAt(pc - 1) \in Int
      BY <3>1, LinesAt
    <3> QED
      BY <3>2, <2>2
  <2> QED
    BY <2>1, <2>2
<1> HIDE DEF current
<1>3. LineAt(pc) = lines[pc + 1] /\ LineAt(pc) \in Int
  BY LinesAt
<1>4. CASE fs.lineinfo[pc + 1] # ABSLINEINFO
  <2>1. fs.lineinfo[pc + 1] = LineAt(pc) - LineAt(pc - 1)
    BY <1>4, LinesAt
  <2>2. nextline(current, pc) = current + fs.lineinfo[pc + 1]
    BY <1>4 DEF nextline
  <2>3. nextline(current, pc) = LineAt(pc)
    BY <2>1, <2>2, <1>2, <1>3
  <2> QED
    BY <2>3, <1>3 DEF current
<1>5. CASE ~(fs.lineinfo[pc + 1] # ABSLINEINFO)
  <2>1. nextline(current, pc) = luaG_getfuncline(pc)
    BY <1>5 DEF nextline
  <2> QED
    BY <2>1, FuncLineFinds DEF current
<1> QED
  BY <1>4, <1>5

LEMMA InvariantFinds == LineInvariant => LinesAreRight
<1> SUFFICES ASSUME LineInvariant
             PROVE  LinesAreRight
  OBVIOUS
<1> SUFFICES ASSUME NEW pc \in 0..Len(lines) - 1
             PROVE  /\ Estimate(pc) >= 0 => /\ Estimate(pc) < Len(fs.abslineinfo)
                                            /\ fs.abslineinfo[Estimate(pc) + 1].pc <= pc
                    /\ luaG_getfuncline(pc) = lines[pc + 1]
                    /\ nextline(IF pc = 0 THEN linedefined ELSE lines[pc], pc) = lines[pc + 1]
                    /\ \A oldpc \in 0..pc - 1 :
                          changedline(oldpc, pc) = (lines[oldpc + 1] # lines[pc + 1])
  BY Zenon DEF LinesAreRight
<1>1. Estimate(pc) >= 0 => /\ Estimate(pc) < Len(fs.abslineinfo)
                           /\ fs.abslineinfo[Estimate(pc) + 1].pc <= pc
  BY EstimateIsLow
<1>2. luaG_getfuncline(pc) = lines[pc + 1]
  BY FuncLineFinds
<1>3. nextline(IF pc = 0 THEN linedefined ELSE lines[pc], pc) = lines[pc + 1]
  BY NextFound
<1>4. \A oldpc \in 0..pc - 1 : changedline(oldpc, pc) = (lines[oldpc + 1] # lines[pc + 1])
  BY ChangeFound
<1> QED
  BY <1>1, <1>2, <1>3, <1>4

\* The debug interface finds the line of every instruction and sees where it changes, however
\* many instructions were removed or given another line (ldebug.c luaG_getfuncline,
\* changedline, nextline; lcode.c savelineinfo, removelastlineinfo).
THEOREM LinesFound == LineSpec => []LinesAreRight
  BY LineInvariance, InvariantFinds, PTL

=============================================================================
