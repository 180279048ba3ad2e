---------------------------- MODULE Subsequences ----------------------------
(* What a loop or std::remove_if keeps of a vector: some of its elements,  *)
(* in their order.                                                         *)
EXTENDS Integers, Sequences, FiniteSets

\* How many of the positions come up to n.
Rank(positions, n) == Cardinality({m \in positions : m <= n})

\* The elements of seq at the positions, in their order.
At(seq, positions) ==
    [i \in 1..Cardinality(positions) |->
        seq[CHOOSE n \in positions : Rank(positions, n) = i]]
=============================================================================
