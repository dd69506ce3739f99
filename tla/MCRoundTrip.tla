---------------------------- MODULE MCRoundTrip ----------------------------
(* The scenarios of the round_trip runs: texts and days, memos and a kept  *)
(* field with and without index artefacts, and a relation of two tables.   *)
EXTENDS RoundTrip

Single(fields, index) ==
    [tables |-> <<"P">>, fields |-> [t \in {"P"} |-> fields],
     index |-> index, authority |-> FALSE]

Related(authority) ==
    [tables |-> <<"P", "C">>, fields |-> [t \in {"P", "C"} |-> {"key"}],
     index |-> "NONE", authority |-> authority]

MCScenarios ==
    {Single({"text", "date"}, "NONE"), Related(FALSE), Related(TRUE)}
    \cup {Single({"memo", "keep"}, i) : i \in {"REBUILT_VERIFIED", "OMITTED_UNVERIFIED"}}

MCValuesOf ==
    [text |-> {Null, "", "a", "b"}, key |-> {Null, "1", "2"}, memo |-> {Null, "m", "mask"},
     date |-> {Null, 1, 3}, keep |-> {"7", "8"}]

MCRowsOf(fields) ==
    CASE fields = {"key"} -> {[key |-> k] : k \in MCValuesOf["key"]}
      [] fields = {"text", "date"} ->
            {[text |-> x, date |-> d] : x \in MCValuesOf["text"], d \in MCValuesOf["date"]}
      [] fields = {"memo", "keep"} ->
            {[memo |-> m, keep |-> k] : m \in MCValuesOf["memo"], k \in MCValuesOf["keep"]}

MCTokensOf == [text |-> {"a", "b", "c"}, key |-> {"1", "2", "3"}]
=============================================================================
