----------------------------- MODULE Filtering ------------------------------
(* Array.prototype.filter and sort.  The members that stay are a set, and   *)
(* the result is a fold; sorting is by rank.  SelectSeq and SortSeq mean the*)
(* same, and are built into the prover, which knows nothing of them.        *)
EXTENDS Naturals, Sequences, FiniteSets, SequencesExt

KeepIn(s, T) == FoldLeft(LAMBDA kept, x : IF x \in T THEN Append(kept, x) ELSE kept, <<>>, s)

\* The members of S in the order R, a set of pairs.
Ranked(S, R) ==
    [i \in 1 .. Cardinality(S) |-> CHOOSE x \in S : Cardinality({y \in S : <<y, x>> \in R}) = i - 1]
=============================================================================
