-------------------------------- MODULE Lists --------------------------------
(***************************************************************************)
(* What the tools do to lists again and again: keep some of the elements, and *)
(* sort.                                                                     *)
(***************************************************************************)
EXTENDS Integers, FiniteSets, SequencesExt

\* A loop that appends the elements it keeps.
Within(s, S) == FoldLeft(LAMBDA kept, x : IF x \in S THEN Append(kept, x) ELSE kept, <<>>, s)

\* sort.Slice, for an order that leaves no two elements level: its pairs.
PlaceOf(x, S, before) == Cardinality({y \in S : <<y, x>> \in before}) + 1
Ranked(S, before) == [i \in 1..Cardinality(S) |-> CHOOSE x \in S : PlaceOf(x, S, before) = i]
=============================================================================
