------------------------------ MODULE MCSession ------------------------------
(* Small worlds for Session.  Two characters are safe, so a field of width 1
   holds two pseudonyms and one of width 2 six. *)
EXTENDS Session

Field(type, length) ==
    [type |-> type, length |-> length, supported |-> TRUE, binary |-> FALSE,
     system |-> FALSE, nocptrans |-> FALSE]
Text(length) == Field("C", length)

File(fields, records) ==
    [readable |-> TRUE, hidden |-> FALSE, fields |-> fields, records |-> records,
     memo |-> "none", cdx |-> "none", dbc |-> FALSE, encoding |-> "cp1252"]

Source(a, b) == [root |-> TRUE, tables |-> "A" :> a @@ "B" :> b, idx |-> "I" :> "old"]

x == <<"x">>
y == <<"y">>
z == <<"z">>
w == <<"w">>
Column(f, values) == [i \in DOMAIN values |-> f :> values[i]]

\* One dated record and two repeated names; B has a structural index.
PeopleA == File("F" :> Text(1) @@ "D" :> Field("D", 8),
                <<"F" :> x @@ "D" :> 1, "F" :> x, "F" :> <<>> >>)
PeopleB == [File("G" :> Text(2), Column("G", <<x, y>>)) EXCEPT !.cdx = "present", !.memo = "present"]
Base == Source(PeopleA, PeopleB)

Undated == [Base EXCEPT !.tables["A"].records = Column("F", <<x, y>>)]
OneMore == [Base EXCEPT !.tables["B"].records = Append(@, "G" :> z)]
OneLess == [Base EXCEPT !.tables["B"].records = Front(@)]
Hidden == [Base EXCEPT !.tables["B"].hidden = TRUE]
Unreadable == [Base EXCEPT !.tables["B"].readable = FALSE]
Reindexed == [Base EXCEPT !.idx = "I" :> "new"]
TwoIndexes == [Base EXCEPT !.idx = "I" :> "old" @@ "J" :> "old"]
NoIndex == [Base EXCEPT !.idx = <<>>]
\* A table appears in a directory that cannot be listed.
Beside == [Base EXCEPT !.tables = @ @@ "C" :> [PeopleA EXCEPT !.hidden = TRUE]]
Rootless == [root |-> FALSE, tables |-> <<>>, idx |-> <<>>]
Tableless == [Rootless EXCEPT !.root = TRUE]

\* Widths and values around the edge of what two characters can name.
Plain(a, b) == Source(File("F" :> Text(1), a), File("G" :> Text(2), b))
Tight == Plain(Column("F", <<<<"a">>, <<"b">>, <<"a">> >>), Column("G", <<x, y>>))
TooMany == Plain(Column("F", <<x, y, z>>), Column("G", <<x>>))
Crowded == Plain(Column("F", <<x>>), Column("G", <<x, y, z, w, x, y, z>>))
\* The same three values, first in the wide field and then in the narrow one.
Narrower == Source(File("G" :> Text(2), Column("G", <<x, y, z, x>>)),
                   File("F" :> Text(1), Column("F", <<x, y, z>>)))

Unsafe == [Base EXCEPT !.tables["A"].fields["F"].binary = TRUE]
Unsupported == [Base EXCEPT !.tables["A"].fields["F"].supported = FALSE]
Foreign == [Base EXCEPT !.tables["A"].encoding = "cp932"]
NoMemo == [Base EXCEPT !.tables["B"].memo = "missing"]
NoCdx == [Base EXCEPT !.tables["B"].cdx = "missing"]

\* A key of a numeric and of an integer field; 1 and 2 fit both.
MCKeyRange == "N" :> [readable |-> 0..3, writable |-> 0..3]
              @@ "I" :> [readable |-> 0..3, writable |-> 1..2]
Keyed(a, b) == Source(File("K" :> Field("N", 1), Column("K", a)), File("K" :> Field("I", 4), Column("K", b)))
KeyGroup == << << <<"A", "K", "N">>, <<"B", "K", "I">> >> >>
KeyTrees == {Keyed(<<1, 2>>, <<2, 1>>), Keyed(<<0, 1, 2>>, <<1>>), Keyed(<<1>>, <<3>>),
             Keyed(<<1>>, <<7>>), Keyed(<<0, 1, 2, 3>>, <<1>>)}

Apart == [source |-> <<"s">>, output |-> <<"o">>, vault |-> <<"v">>]
Default == [paths |-> Apart, policy |-> <<>>, capability |-> Absent, associates |-> FALSE,
            numeric |-> <<>>]
KeySetup == [Default EXCEPT !.numeric = KeyGroup]
KeepAll == [Default EXCEPT !.policy = "text.default_action" :> "KEEP" @@ "temporal.date" :> "KEEP"]
Wrong == [Default EXCEPT !.policy = "memo.text" :> "DROP"]
Nested == [Default EXCEPT !.paths.output = <<"s", "o">>]
Indexed == [Default EXCEPT !.policy = "indexes.profile" :> "VFP_INDEXED", !.associates = TRUE,
                           !.capability = {"cdx", "idx", "verification", "runtime"}]
Partial == [Indexed EXCEPT !.capability = @ \ {"idx"}]
Backendless == [Indexed EXCEPT !.capability = Absent]
Malformed == [Indexed EXCEPT !.capability = {"malformed"}]

Room == [output |-> 20, vault |-> 20, same |-> FALSE]
Shared == [output |-> 13, vault |-> 13, same |-> TRUE]
Full == [output |-> 20, vault |-> 1, same |-> FALSE]
MCDisks == {Room, Shared, Absent}

At(kind) == [kind |-> kind, content |-> Absent]
MCOutputs == {At("empty"), At("full")}
Opaque == [NoVault EXCEPT !.kind = "file"]

Start(t, s) == [tree |-> t, out |-> NoFile, vault |-> NoVault, disk |-> Room, setup |-> s]
FirstStart == Start(Base, Default)

MCStarts ==
    {Start(t, Default) : t \in {Base, Undated, Hidden, Unreadable, Rootless, Tableless, Tight, TooMany,
                                Crowded, Narrower, Unsafe, Unsupported, Foreign, NoMemo, NoCdx}}
    \cup {Start(t, KeySetup) : t \in KeyTrees}
    \cup {Start(Base, s) : s \in {KeepAll, Wrong, Nested, Partial, Backendless, Malformed}}
    \cup {Start(t, Indexed) : t \in {TwoIndexes, NoIndex}}
    \cup {[FirstStart EXCEPT !.out = o] : o \in MCOutputs \cup {At("file"), At("unreadable")}}
    \cup {[FirstStart EXCEPT !.vault = v] : v \in {Opaque, [NoVault EXCEPT !.kind = "directory"],
                                                     [NoVault EXCEPT !.leftover = TRUE]}}
    \cup {[FirstStart EXCEPT !.disk = d] : d \in {Shared, Full, Absent}}

MCEdits == {Base, Hidden, Beside, Unreadable, OneMore, OneLess, Reindexed}

Rebuild(status, tags) == [echo |-> TRUE, backend |-> BackendId, status |-> status, tags |-> tags]
MCRebuilds ==
    {Rebuild("REBUILT", {"t"}), Rebuild("REBUILT", {}), Rebuild("REFUSED", {}),
     [Rebuild("REBUILT", {"t"}) EXCEPT !.backend = "other"],
     [Rebuild("REBUILT", {}) EXCEPT !.echo = FALSE]}

Verify(status, tags, count) ==
    [echo |-> TRUE, backend |-> BackendId, status |-> status, tags |-> tags,
     opened |-> TRUE, count |-> count]
MCVerifications ==
    {Verify("VERIFIED", {"t"}, "right"), Verify("VERIFIED", {"t"}, "wrong"),
     Verify("VERIFIED", {}, "right"), Verify("VERIFIED", {}, "wrong"),
     Verify("VERIFIED", {"u"}, "right"), Verify("MISMATCH", {}, "right"),
     [Verify("VERIFIED", {}, "right") EXCEPT !.opened = FALSE]}

Associate(status, table) ==
    [echo |-> TRUE, backend |-> BackendId, status |-> status, table |-> table]
MCAssociations ==
    {Associate("ASSOCIATED", "A"), Associate("UNAVAILABLE", Absent), Associate("ASSOCIATED", "Z"),
     [Associate("UNAVAILABLE", Absent) EXCEPT !.echo = FALSE]}

MCOrder == <<"A", "B", "C", "D", "F", "G", "I", "J", "K">>
=============================================================================
