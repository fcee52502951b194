---------------------------- MODULE MCAotBinding ----------------------------
(* Every ordered tree of at most MaxProtos prototypes. *)
EXTENDS AotBinding, SequencesExt

CONSTANT MaxProtos

Parents(n) == {f \in [2..n -> 1..n] : \A i \in 2..n : f[i] < i}
Below(f, n, i) == SetToSortSeq({j \in 2..n : f[j] = i}, LAMBDA a, b : a < b)
MCTrees == UNION {{[i \in 1..n |-> Below(f, n, i)] : f \in Parents(n)} : n \in 1..MaxProtos}

=============================================================================
