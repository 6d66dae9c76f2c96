------------------------------- MODULE PubSub -------------------------------
(***************************************************************************)
(* What logpoold promises its clients: a connection that asked for a       *)
(* procedure is sent, from then on and until it leaves, every log that the *)
(* procedure lets through, once for every time it asked, in the order in   *)
(* which the server handled them, and nothing else.                        *)
(***************************************************************************)
EXTENDS Naturals, Sequences, FiniteSets

CONSTANTS Conn,       \* connections; one that left does not come back
          Procedure,  \* names of procedures
          Log,        \* logs
          Accepts     \* the logs that each procedure lets through

VARIABLES open,   \* the connections the server serves
          asked,  \* how many requests for a procedure there were
          subs,   \* the subscriptions: [id |-> request, conn, proc]
          feed    \* the logs sent to each connection, oldest first

vars == <<open, asked, subs, feed>>

Init == /\ open = {}
        /\ asked = 0
        /\ subs = {}
        /\ feed = [c \in Conn |-> <<>>]

Open(c) == /\ open' = open \cup {c}
           /\ UNCHANGED <<asked, subs, feed>>

\* The server may find no procedure: then there is no subscription.
Ask(c) == /\ c \in open
          /\ asked' = asked + 1
          /\ \/ subs' = subs
             \/ \E p \in Procedure :
                  subs' = subs \cup {[id |-> asked + 1, conn |-> c, proc |-> p]}
          /\ UNCHANGED <<open, feed>>

Copies(l, n)   == [i \in 1..n |-> l]
Receivers(c, l) == {s \in subs : s.conn = c /\ l \in Accepts[s.proc]}

Publish(l) ==
    /\ feed' = [c \in Conn |-> feed[c] \o Copies(l, Cardinality(Receivers(c, l)))]
    /\ UNCHANGED <<open, asked, subs>>

Close(c) == /\ open' = open \ {c}
            /\ subs' = {s \in subs : s.conn # c}
            /\ UNCHANGED <<asked, feed>>

Next == \/ \E c \in Conn : Open(c) \/ Ask(c) \/ Close(c)
        \/ \E l \in Log : Publish(l)

Spec == Init /\ [][Next]_vars
=============================================================================
