------------------------------ MODULE MCLogWire ------------------------------
(* Logs for LogWire with words of eight bits: every number there is, and     *)
(* logs of up to three fields of every type under keys that begin alike.     *)
EXTENDS LogWire

SomeChars == Printed

Num(k, t, n)  == [key |-> k, type |-> t, num |-> n, text |-> <<>>]
Text(k, t, s) == [key |-> k, type |-> t, num |-> 0, text |-> s]
A  == <<"a">>
AB == <<"a", "b">>

Log(fields) == [trace |-> <<"a", "b">>, fields |-> fields]

Numbers == {Log(<<Num(A, "int", v)>>) : v \in (-128)..127}
             \cup {Log(<<Num(A, t, v)>>) : t \in {"unsigned", "hex"}, v \in 0..255}

\* Around 0 and 1, all hundredths between, and about the end of an int32_t.
Floats == {Log(<<Num(A, "float", v)>>) :
             v \in {n + m : n \in {-12345, -10000, 0, 10000}, m \in {k * 50 : k \in 0..200}}
                     \cup (-11)..11 \cup 9989..10010 \cup -319999..-319980
                     \cup {319999, 320000, 330000, -320000, -330000}}

Values == {Text(A, "string", AB), Text(A, "string", <<>>), Num(A, "int", -128),
           Num(A, "null", 0), Text(A, "raw", AB), Num(A, "float", -5000),
           Text(AB, "string", A), Num(AB, "bool", 1), Num(AB, "bool", 0),
           Num(<<>>, "hex", 255), Text(TraceID, "string", A)}

SomeLogs == Numbers \cup Floats \cup {Log(<<>>)}
              \cup {Log(<<f, g>>) : f, g \in Values}
              \cup {Log(<<f, g, Num(A, "unsigned", 0)>>) : f, g \in Values}

SomeKeys == {A, AB, TraceID, <<>>, <<"b">>}
=============================================================================
