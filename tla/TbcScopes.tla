------------------------------ MODULE TbcScopes ------------------------------
(***************************************************************************)
(* What the manual promises of to-be-closed variables: they are closed in  *)
(* the reverse order of their declaration, each of them once, and closing  *)
(* one may involve declaring and closing others.                           *)
(***************************************************************************)
EXTENDS Naturals, Sequences

VARIABLES
    open,         \* the variables that are declared and not closed
    closing       \* those whose closing methods are running, by the depth of the call
svars == <<open, closing>>

ScopesInit == open = <<>> /\ closing = <<>>

\* Variables are declared at ever higher places.
Declare ==
    /\ Len(open') = Len(open) + 1 /\ open = SubSeq(open', 1, Len(open))
    /\ \A i \in 1..Len(open) : open[i] < open'[Len(open')]
    /\ UNCHANGED closing

CloseLast ==
    /\ open # <<>> /\ open' = SubSeq(open, 1, Len(open) - 1)
    /\ \E depth \in DOMAIN closing' :
          /\ \A d \in DOMAIN closing : d < depth
          /\ closing' = [d \in DOMAIN closing \cup {depth} |->
                            IF d = depth THEN open[Len(open)] ELSE closing[d]]

\* A method returns; an error ends several.
MethodsEnd ==
    /\ DOMAIN closing' \subseteq DOMAIN closing
    /\ \A d \in DOMAIN closing', c \in DOMAIN closing : c < d => c \in DOMAIN closing'
    /\ closing' = [d \in DOMAIN closing' |-> closing[d]]
    /\ UNCHANGED open

ScopesSpec == ScopesInit /\ [][Declare \/ CloseLast \/ MethodsEnd]_svars

=============================================================================
