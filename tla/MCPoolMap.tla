----------------------------- MODULE MCPoolMap -----------------------------
(***************************************************************************)
(* One instance for both users of core/map.c.                              *)
(***************************************************************************)
EXTENDS MapUsers

H(hash, k) == [hash |-> hash, k |-> k]

\* React: five keys, so that the map is doubled, of which two differ in their
\* second hash only, one of these the watched one.
Hashes == [key \in {"TraceID", "w", "x", "a", "b"} |->
             CASE key = "w" -> H(3, 1)
               [] key = "x" -> H(3, 2)
               [] key = "a" -> H(7, 3)
               [] key = "b" -> H(4, 4)
               [] key = "TraceID" -> H(11, 5)]

F(key, val) == [key |-> key, val |-> val]
L(trace, fields) == <<F("TraceID", trace)>> \o fields

\* A watched key alone, twice, with and behind others, and not at all.
SomeLogs == {L("t", <<F("w", 1)>>),
             L("t", <<F("w", 2)>>),
             L("t", <<F("w", 1), F("w", 2), F("w", 2)>>),
             L("t", <<F("x", 2), F("a", 1)>>),
             L("t", <<F("b", 1), F("a", 1), F("w", 1)>>),
             L("t", <<F("x", 1), F("x", 2), F("b", 2)>>),
             L("t", <<>>),
             L("u", <<F("w", 2), F("a", 2)>>)}

\* Any caller: seven keys for tables of 4, 8 and 16 that start at the last
\* record and wrap around or fall apart when the table grows; the last two
\* differ in their second hash only, and one has the hash of a free record.
ClusteredKeys == 1 .. 7
Clustered == <<H(3, 1), H(7, 2), H(11, 3), H(4, 4), H(0, 5), H(15, 6), H(15, 7)>>
=============================================================================
