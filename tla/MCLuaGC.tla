------------------------------ MODULE MCLuaGC ------------------------------
(* Small heaps for LuaGC. *)
EXTENDS LuaGC, TLC

CONSTANTS m, t1, t2, t3, c1, c2, c3, s1, u1, th1, d1

KindOf(o) == CASE o \in {m, th1} -> "thread"
               [] o \in {t1, t2, t3} -> "table"
               [] o \in {c1, c2, c3} -> "closure"
               [] o = d1 -> "udata"
               [] o = u1 -> "upval"
               [] OTHER -> "string"
MCKind == [o \in Obj |-> KindOf(o)]

\* What may be allocated together: tables and closures, upvalues and a coroutine,
\* a table that may become weak with something that has a finalizer, or with a string.
Mixed == {{m, t1, c1}, {m, th1, c1, u1}, {m, t3, d1}, {m, t3, s1}}

\* The start of a full collection of a heap that the program built before.
CycleInit ==
    /\ home = [o \in Obj |-> NC]
    /\ twups = {} /\ color = [o \in Obj |-> "white0"] /\ currentwhite = "white0"
    /\ gcstate = "pause" /\ atomicstep = "none"
    /\ gray = {} /\ grayagain = {} /\ weak = {} /\ allweak = {} /\ ephemeron = {}
    /\ saved = {} /\ origweak = {} /\ origall = {} /\ round = {}
    /\ changed = FALSE /\ tosweep = {}
    /\ full = "collect" /\ gcemergency = FALSE /\ finalizing = NC

\* Every heap of m, t1, t2 and x with one entry each, in which m holds t1 and x is a
\* userdata or a string.
Small(keys, values) == {{}} \cup {{e} : e \in keys \X values}
HeapInit ==
    /\ \E x \in {d1, s1} :
       \E w1, w2 \in Modes, fin \in SUBSET ({x} \ {s1}),
          e1, e2 \in Small({NC, t1, t2, x}, {t1, t2, x}),
          e3 \in IF x = s1 THEN {{}} ELSE Small({NC}, {t1, t2, x}) :
          /\ entry = (m :> {<<NC, t1>>}) @@ (t1 :> e1) @@ (t2 :> e2) @@ (x :> e3)
                     @@ [o \in Obj |-> {}]
          /\ mode = (t1 :> w1) @@ (t2 :> w2) @@ [o \in Obj |-> "strong"]
          /\ list = [o \in Obj |-> IF o \in fin THEN "finobj"
                                    ELSE IF o \in {m, t1, t2, x} THEN "allgc" ELSE "free"]
    /\ CycleInit
\* A chain of entries in ephemerons, each with the key of the next one for its value.
Link == (t1 :> {<<m, c1>>, <<d1, c3>>}) @@ (t2 :> {<<c1, c2>>}) @@ (t3 :> {<<c2, d1>>})
ChainInit ==
    /\ entry = [o \in Obj |-> IF o = m THEN {<<NC, t>> : t \in DOMAIN Link}
                              ELSE IF o \in DOMAIN Link THEN Link[o] ELSE {}]
    /\ mode = [o \in Obj |-> IF o \in DOMAIN Link THEN "ephemeron" ELSE "strong"]
    /\ list = [o \in Obj |-> IF Kind[o] = "string" THEN "free" ELSE "allgc"]
    /\ CycleInit

=============================================================================
