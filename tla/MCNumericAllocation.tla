------------------------ MODULE MCNumericAllocation ------------------------
EXTENDS NumericAllocation

\* N(1,0) cut to a few digits, and a field that reads one more value at both
\* ends than it writes, as the Integer field does.
Narrow == [readable |-> 0..3, writable |-> 0..3]
IntegerLike == [readable |-> -1..5, writable |-> 0..4]
Wide == [readable |-> -2..5, writable |-> -2..5]

MCMembers == {Narrow, IntegerLike, Wide}
MCOccurrences ==
    {[member |-> Narrow, value |-> v] : v \in {0, 1, 2, 4}}
      \cup {[member |-> Wide, value |-> v] : v \in {-1, 1}}
      \cup {[member |-> IntegerLike, value |-> 5]}

\* "-1" < "-2" < "0" < "1": a minus sign sorts before the digits.
MCTextRank == [v \in Values |-> IF v < 0 THEN -v - 1 ELSE v + 10]

EveryFault == AllFaults
=============================================================================
