-------------------------- MODULE MCTextAllocation --------------------------
EXTENDS TextAllocation

\* Two letters: two tokens of length 1, four of length 2.  <<1, 3>> and
\* <<2, 5>> are texts outside the alphabet.
MCOccurrences ==
    {[value |-> <<1, k>>, width |-> 1] : k \in 1..3}
      \cup {[value |-> <<2, k>>, width |-> 2] : k \in {1, 2, 3, 5}}
      \cup {[value |-> <<1, 3>>, width |-> 2]}

\* The texts outside the alphabet come first among those of length 1 and
\* last among those of length 2.
MCTextRank == [v \in Values |-> IF v[1] = 1 THEN 10 - v[2] ELSE 10 * v[1] + v[2]]

EveryFault == AllFaults
=============================================================================
