------------------------------ MODULE TableMap ------------------------------
(***************************************************************************)
(* What a table promises (manual, sections 2.1 and 6.1): a finite map from *)
(* keys to values, and a traversal that visits every field exactly once,   *)
(* if the fields that are assigned meanwhile exist already.                *)
(***************************************************************************)

CONSTANTS Key, Value, Nothing, Start

VARIABLES
    map,     \* the value of every key, or Nothing
    at,      \* the key that a traversal is at; Start; Nothing without one
    left     \* the fields that it has still to visit

MapInit == map = [k \in Key |-> Nothing] /\ at = Nothing /\ left = {}

Fields == {k \in Key : map[k] # Nothing}

\* A new field ends what is known of a traversal; a field that is cleared need
\* not be visited any more.
Put(k, v) ==
    /\ map' = [map EXCEPT ![k] = v]
    /\ IF k \notin Fields /\ v # Nothing THEN at' = Nothing /\ left' = {}
       ELSE at' = at /\ left' = IF v = Nothing THEN left \ {k} ELSE left

Begin == at' = Start /\ left' = Fields /\ UNCHANGED map
Visit(k) == at # Nothing /\ k \in left /\ at' = k /\ left' = left \ {k} /\ UNCHANGED map
Finish == at # Nothing /\ left = {} /\ at' = Nothing /\ UNCHANGED <<map, left>>

MapNext ==
    \/ \E k \in Key, v \in Value \cup {Nothing} : Put(k, v)
    \/ \E k \in Key : Visit(k)
    \/ Begin \/ Finish

MapSpec == MapInit /\ [][MapNext]_<<map, at, left>>

=============================================================================
