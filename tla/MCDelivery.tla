------------------------------ MODULE MCDelivery ------------------------------
(* Small instances of Delivery for TLC. *)
EXTENDS Delivery, TLC

Symmetry == Permutations(Procs)

\* t and T differ only by case.
MCStems == {"t", "T"}
MCFold == [s \in MCStems |-> "t"]

Assured == [level |-> "DECLARED_RELATIONS_VERIFIED", declared |-> 1, verified |-> 1,
            failed |-> 0, incomplete |-> 0]

\* A table with a memo companion, or one whose name has
\* upper-case letters.
Lower == [tables |-> {<<"t", "dbf">>},
          tree |-> <<"t", "dbf">> :> TableContent("b", 1, 1, TRUE)
                   @@ <<"t", "fpt">> :> [body |-> "m"],
          assurance |-> Assured]
Upper == [tables |-> {<<"T", "dbf">>},
          tree |-> <<"T", "dbf">> :> TableContent("b", 1, 1, FALSE),
          assurance |-> [Assured EXCEPT !.level = "INCOMPLETE", !.verified = 0,
                                        !.incomplete = 1]]

MCResults == {Lower, Upper}

=============================================================================
