---------------------------- MODULE MCApplication ----------------------------
EXTENDS Application

E(id, name) == [id |-> id, name |-> name]
V(type, text) == [type |-> type, text |-> text]

\* Packages whose id fits, whose name fits, that do not fit, and foreign ones
\* with too long an id and with none.
MCEntries == {E("a", "b"), E("b", "a"), E("b", "b"), E("long", "b"), E("none", "a")}
MCPatterns == {{"a"}, {}}
MCNames == {"a"}
MCValues == {V("id", "a"), V("download", "b"), V("download", "c"),
             V("download", "long"), V("id", "long"), V("broken", "none"), V("other", "none")}
=============================================================================
