------------------------------- MODULE TbcList -------------------------------
(***************************************************************************)
(* The list of to-be-closed variables of a thread (lfunc.c).  It is kept   *)
(* in the stack itself: `tbclist' is the position of the newest variable,  *)
(* and each variable has the distance to the one below it.  A distance is  *)
(* an unsigned short; a longer one is bridged by dummies, which have the   *)
(* distance 0 and stand MAXDELTA above what is below them.  Position 0 is  *)
(* L->stack, the end of the list.                                          *)
(***************************************************************************)
EXTENDS Integers, Sequences

CONSTANT MAXDELTA    \* the largest unsigned short

ASSUME ListAssumption == MAXDELTA \in Nat \ {0}

VARIABLES
    tbclist,      \* L->tbclist
    delta,        \* tbclist.delta of the stack slots that are in the list
    pending       \* the variables to be closed, in the order of declaration

\* The field holds an unsigned short.
StoredDelta(d) == d % (MAXDELTA + 1)

\* How many dummies are needed for a distance.
DummyTooFar(d) == d \div (MAXDELTA + 1)                      \* variant
Dummies(d) == (d - 1) \div MAXDELTA

\* luaF_newtbcupval, for a value that is not false.
NewTbc(level) ==
    LET n == Dummies(level - tbclist)
        dummies == {tbclist + k * MAXDELTA : k \in 1..n}
    IN  /\ tbclist' = level
        /\ delta' = [p \in DOMAIN delta \cup dummies \cup {level} |->
                        IF p = level THEN StoredDelta(level - (tbclist + n * MAXDELTA))
                        ELSE IF p \in dummies THEN 0 ELSE delta[p]]

\* From position p, down to the first that is not a dummy.
SkipDummies(p) ==
    LET stops == {q \in {p - k * MAXDELTA : k \in 0..p} :
                     q \notin DOMAIN delta \/ delta[q] # 0}
    IN  CHOOSE q \in stops : \A r \in stops : r <= q

\* poptbclist.  The slots above the new end of the list are not in it any more;
\* what they hold is never read.
PopTbc ==
    /\ tbclist' = SkipDummies(tbclist - delta[tbclist])
    /\ delta' = [p \in {q \in DOMAIN delta : q <= tbclist'} |-> delta[p]]

ListInit == tbclist = 0 /\ pending = <<>> /\ delta = <<>>

-----------------------------------------------------------------------------
(* Properties.                                                             *)

Below(i) == IF i = 1 THEN 0 ELSE pending[i - 1]

\* The distances in the stack spell the list of the variables that are pending,
\* across gaps of any length.
ListMatches ==
    /\ tbclist = Below(Len(pending) + 1)
    /\ DOMAIN delta \subseteq 1..tbclist
    /\ \A i \in 1..Len(pending) :
          LET n == (pending[i] - Below(i) - 1) \div MAXDELTA IN
          /\ delta[pending[i]] = pending[i] - Below(i) - n * MAXDELTA
          /\ \A k \in 1..n : delta[Below(i) + k * MAXDELTA] = 0

=============================================================================
