--------------------------- MODULE MCLogFrontend ---------------------------
(* Instances of LogFrontend: all trees of up to MaxNodes nodes.              *)
EXTENDS LogFrontend, SequencesExt

CONSTANT MaxNodes

\* The children of n, oldest first, if parent[m] is the parent of m.
KidsOf(parent, n) == SetToSortSeq({m \in DOMAIN parent : parent[m] = n}, <)

Shapes(N) == {p \in [2 .. N -> 1 .. N - 1] : \A m \in 2 .. N : p[m] < m}

KindsOf(parent, N) ==
    {k \in [1 .. N -> Inner \cup {"string", "stream", "memcache"}] :
       \A n \in 1 .. N : LET kids == KidsOf(parent, n)
                         IN  /\ (kids = <<>>) <=> (k[n] \notin Inner)
                             /\ k[n] = "filter" => Len(kids) = 1}

AllTrees == UNION {UNION {{[kind |-> k, kids |-> [n \in 1 .. N |-> KidsOf(p, n)]] :
                             k \in KindsOf(p, N)} : p \in Shapes(N)} :
                     N \in 1 .. MaxNodes}

SomeTexts == {"t", "a", "b", "c"}

SomeLogs == {[trace |-> "t", fields |-> f] :
               f \in {<<>>, <<"a">>, <<"a", "b">>, <<"a", "b", "c">>}}
=============================================================================
