--------------------------- MODULE MCPluginGraph ---------------------------
(* Instances of PluginGraph: the procedures of the examples, all chains of   *)
(* three plugins behind a Timer or a Print, each with its last link doubled  *)
(* (one plugin as apply and failed) or not, chains that fork, and circles.   *)
EXTENDS PluginGraph

FlagOf(kind) == IF kind = "timer" THEN <<0, 1, 2>> ELSE NoFlag

Build(api, kinds, hangs) ==
    [api |-> api,
     ops |-> [i \in DOMAIN kinds |-> New(i - 1, kinds[i], FlagOf(kinds[i]))]
             \o hangs \o <<Return(0)>>]

Chain2 == <<Hang("apply", 0, 1), Hang("apply", 1, 2)>>

\* The last plugin is also the failed child of the first or of the second,
\* or the failed child of the first alone.
Shapes == {Chain2, Append(Chain2, Hang("failed", 1, 2)),
           Append(Chain2, Hang("failed", 0, 2)),
           <<Hang("apply", 0, 1), Hang("failed", 0, 2)>>}

Threes == {Build("c", <<k, l, n>>, shape) :
             k \in {"timer", "print", "val", "react"}, l \in Kinds,
             n \in {"statics", "timer", "response", "key"}, shape \in Shapes}

Native == {s \in Threes : TimersApart(s)}

\* Plugins that hang below themselves, directly or through others, and one
\* that does so without hanging from the root.
Circles == {Build("c", <<"print", "react", "val">>, hangs) :
              hangs \in {<<Hang("apply", 0, 0)>>,
                         Append(Chain2, Hang("apply", 2, 0)),
                         Append(Chain2, Hang("failed", 2, 1)),
                         <<Hang("apply", 0, 1), Hang("apply", 2, 2)>>}}

\* test/pool.c
TestPool ==
    [api |-> "c",
     ops |-> << New(0, "print", NoFlag), New(1, "val", NoFlag),
                New(2, "copy", NoFlag), New(3, "react", NoFlag),
                New(4, "timer", <<0, 1, 2>>), New(5, "statics", NoFlag),
                New(6, "create", NoFlag), New(7, "stream", NoFlag),
                Hang("apply", 0, 1), Hang("apply", 1, 2), Hang("apply", 2, 3),
                Hang("apply", 3, 4), Hang("failed", 3, 4),
                Hang("apply", 4, 5), Hang("apply", 5, 6), Hang("apply", 6, 7),
                Return(0) >>]

\* A Statics whose result goes to a second Statics, or to both children.
Forks == {Build("c", <<"timer", k, "statics", l>>,
                Chain2 \o <<Hang("apply", 2, 3)>> \o shape) :
             k \in {"print", "response", "copy"}, l \in {"statics", "response"},
             shape \in {<<>>, <<Hang("failed", 2, 3)>>}}

Konoha == {Build("konoha", <<k, l, n>>, Chain2) :
             k \in {"timer", "key"}, l \in {"print", "key", "copy"},
             n \in {"statics", "response"}}

SomeScripts == {CpuWatch, QueryScript, TestPool} \cup Native \cup Circles
                 \cup Forks \cup Konoha

SomeLogs == {{}, {"key"}, {"key", "val", "trace"}}
=============================================================================
