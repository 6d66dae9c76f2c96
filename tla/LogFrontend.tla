---------------------------- MODULE LogFrontend ----------------------------
(***************************************************************************)
(* core/logpool.c and plugins/trace: a logpool_t writes its logs through a *)
(* tree of formatters.  Inner nodes are filters (filter.c, one child) and  *)
(* multiplexers (multiplexer.c); a leaf writes to a string buffer          *)
(* (lpstring.c) and, when it is flushed, hands the buffer on: to a file,   *)
(* to syslog or to stderr, which differ in that only and are all "string"  *)
(* here, to memcached, or to the server ("stream").                        *)
(*                                                                         *)
(* All nodes share one logpool_t.  Its field connection says for which     *)
(* node a function is called: an inner node sets it to that of a child     *)
(* before it calls the child's function, and back afterwards.  A function  *)
(* that finds the connection of a node of another kind takes one structure *)
(* for another; what it does then is undefined, and nothing is said of it. *)
(*                                                                         *)
(* What is still to be called is a stack.  A step is one function up to    *)
(* the calls it makes, which take its place.                               *)
(***************************************************************************)
EXTENDS Integers, Sequences, FiniteSets

CONSTANTS Trees,     \* the trees: [kind : [nodes -> kinds], kids : [nodes -> Seq]]
          Texts,     \* what is written: trace ids and fields
          Logs,      \* the logs: [trace, fields]
          Capacity,  \* logfmt_capacity
          MaxRecords \* bound: calls of logpool_record

Root   == 1
Inner  == {"filter", "mux"}
Stores == {"stream", "memcache"}

ASSUME TreesAssumption ==
    \A t \in Trees :
      LET nodes == DOMAIN t.kind
      IN  /\ IsFiniteSet(nodes) /\ nodes \subseteq Nat \ {0} /\ Root \in nodes
          /\ \A n \in nodes : t.kind[n] \in Inner \cup Stores \cup {"string"}
          /\ t.kids \in [nodes -> Seq(nodes)]
          /\ \A n \in nodes : /\ (t.kids[n] # <<>>) <=> (t.kind[n] \in Inner)
                              /\ t.kind[n] = "filter" => Len(t.kids[n]) = 1
          \* Every node but the root is a child once.  Nodes are numbered
          \* parents first, and the children of a node in their order.
          /\ \A m \in nodes \ {Root} : \E n \in nodes : \E i \in DOMAIN t.kids[n] : t.kids[n][i] = m
          /\ \A n, o \in nodes : \A i \in DOMAIN t.kids[n], j \in DOMAIN t.kids[o] :
               /\ t.kids[n][i] > n
               /\ t.kids[n][i] = t.kids[o][j] => n = o /\ i = j
               /\ n = o /\ i < j => t.kids[n][i] < t.kids[n][j]
ASSUME LogsAssumption     == Logs \subseteq [trace : Texts, fields : Seq(Texts)]
ASSUME CapacityAssumption == Capacity \in Nat \ {0}
ASSUME RecordsAssumption  == MaxRecords \in Nat

VARIABLES tree,    \* the tree that is opened
          status,  \* "opening", "open", "closed", "aborted"
          calls,   \* the calls still to be made, the next one first
          conn,    \* connection: the node it belongs to, 0: NULL
          key,     \* fn_key: of which kind of node
          saved,   \* fn_key of filter_t, of plugin_entry: of which kind
          fmt,     \* the table, logfmt_size of it
          trace,   \* logkey
          seq,     \* logkey.k.seq
          flushed, \* is_flushed
          buf,     \* the string buffers of the leaves
          sink,    \* history: what the leaves have handed on
          closed,  \* history: how often each node was closed
          bad,     \* a function has taken one structure for another
          given    \* history: the logs so far

opened    == <<key, saved>>
table     == <<fmt, trace, seq, flushed>>
leaves    == <<buf, sink>>
frontVars == <<tree, status, calls, conn, opened, table, leaves, closed, bad, given>>

Nodes     == DOMAIN tree.kind
Leaf(n)   == tree.kind[n] \notin Inner
Kids(n)   == tree.kids[n]
KeyOf(n)  == IF Leaf(n) THEN "leaf" ELSE tree.kind[n]

\* A call of a function of node n: i is the child that an inner node has come to,
\* what is to be written, by the key function of which kind of node.  Its caller
\* has set connection to that of n, or leaves it as it is.
Call(fn, n)          == [fn |-> fn, node |-> n, i |-> 0, by |-> "none", what |-> "none",
                         set |-> FALSE]
CallPut(n, what)     == [Call("put", n) EXCEPT !.what = what]
CallKey(n, by, what) == [Call("key", n) EXCEPT !.by = by, !.what = what]
CallKid(call)        == [call EXCEPT !.set = TRUE]

Calls(fn) == ~bad /\ calls # <<>> /\ Head(calls).fn = fn
At        == Head(calls).node
Go(more)  == calls' = more \o Tail(calls)

-----------------------------------------------------------------------------
(* Opening.  fn_key is one function of the whole logpool_t: its default is *)
(* that of the leaves, and an inner node puts its own in place of it.      *)

\* logpool_open, logpool_new
FrontInit ==
    /\ tree \in Trees
    /\ status = "opening"
    /\ calls = <<Call("init", Root), Call("opened", Root)>>
    /\ conn = 0
    /\ key = "leaf"
    /\ saved = [n \in Nodes |-> [i \in DOMAIN Kids(n) |-> "none"]]
    /\ fmt = <<>> /\ trace = "none" /\ seq = 0 /\ flushed = FALSE
    /\ buf = [n \in Nodes |-> <<>>] /\ sink = [n \in Nodes |-> <<>>]
    /\ closed = [n \in Nodes |-> 0]
    /\ bad = FALSE
    /\ given = <<>>

\* The i-th child of n is opened, and what fn_key is then is remembered for it.
OpenKid(n, i) == <<Call("init", Kids(n)[i]), [Call("remember", n) EXCEPT !.i = i]>>

\* fn_init of n's api up to its first child.
InitNode ==
    /\ Calls("init")
    /\ Go(IF Leaf(At) THEN <<>> ELSE OpenKid(At, 1))
    /\ UNCHANGED <<tree, status, conn, opened, table, leaves, closed, bad, given>>

\* Mutation: what is remembered for a child is what fn_key was for the first.
RememberFirst(i) == [saved EXCEPT ![At][i] = IF i = 1 THEN key ELSE saved[At][1]]

Remembered(i) == [saved EXCEPT ![At][i] = key]

\* ... from there to the next child, or to its end.
Remember ==
    /\ Calls("remember")
    /\ LET i == Head(calls).i
       IN  /\ saved' = Remembered(i)
           /\ \/ /\ i < Len(Kids(At))
                 /\ Go(OpenKid(At, i + 1))
                 /\ UNCHANGED key
              \/ /\ i = Len(Kids(At))
                 /\ Go(<<>>)
                 /\ key' = tree.kind[At]
    /\ UNCHANGED <<tree, status, conn, table, leaves, closed, bad, given>>

OpenEnd ==
    /\ Calls("opened")
    /\ conn' = Root
    /\ status' = "open"
    /\ Go(<<>>)
    /\ UNCHANGED <<tree, opened, table, leaves, closed, bad, given>>

-----------------------------------------------------------------------------
(* Recording *)

\* A function that is called with the connection of another node, or for a node
\* of another kind.
Mistyped(call) ==
    \/ /\ call.fn \in {"put", "key", "flush", "close"}
       /\ ~call.set /\ conn # call.node
    \/ call.fn = "key" /\ call.by # KeyOf(call.node)

TypedCall(fn) == Calls(fn) /\ ~Mistyped(Head(calls)) /\ conn' = At

Undefined ==
    /\ ~bad /\ calls # <<>> /\ Mistyped(Head(calls))
    /\ bad' = TRUE
    /\ calls' = <<>>
    /\ UNCHANGED <<tree, status, conn, opened, table, leaves, closed, given>>

\* An inner node calls a function of each child with the connection of that, and
\* sets back its own when all are called.
Around(n, kids) == Append(kids, Call("switch", n))

SwitchBack == /\ Calls("switch")
              /\ conn' = At
              /\ Go(<<>>)
              /\ UNCHANGED <<tree, status, opened, table, leaves, closed, bad, given>>

PutKids(n, what) == [i \in DOMAIN Kids(n) |-> CallKid(CallPut(Kids(n)[i], what))]
KeyKids(n, what) == [i \in DOMAIN Kids(n) |-> CallKid(CallKey(Kids(n)[i], saved[n][i], what))]
FlushKids(n)     == [i \in DOMAIN Kids(n) |-> CallKid(Call("flush", Kids(n)[i]))]

Written == [buf EXCEPT ![At] = Append(@, Head(calls).what)]

\* A function of n's api that formats: fn_int and the like, fn_delim.
Put ==
    /\ TypedCall("put")
    /\ \/ Leaf(At) /\ Go(<<>>) /\ buf' = Written
       \/ ~Leaf(At) /\ Go(Around(At, PutKids(At, Head(calls).what))) /\ UNCHANGED buf
    /\ UNCHANGED <<tree, status, opened, table, sink, closed, bad, given>>

\* A key function.
PutKey ==
    /\ TypedCall("key")
    /\ \/ Leaf(At) /\ Go(<<>>) /\ buf' = Written
       \/ ~Leaf(At) /\ Go(Around(At, KeyKids(At, Head(calls).what))) /\ UNCHANGED buf
    /\ UNCHANGED <<tree, status, opened, table, sink, closed, bad, given>>

\* The fields of the table by the functions of the root, each behind a delimiter.
Delimited(fields) ==
    [k \in 1..(2 * Len(fields)) |-> IF k % 2 = 1 THEN "delim" ELSE fields[k \div 2]]

\* The key, and what is to be put behind it.
Format(n, texts) == <<CallKey(n, key, trace)>> \o [k \in DOMAIN texts |-> CallPut(Root, texts[k])]

\* logpool_format_flush
FormatFlush(n) ==
    IF flushed THEN <<>> ELSE Append(Format(n, Delimited(fmt)), Call("formatted", n))

\* The end of logpool_format_flush; a stream and memcached, which do not call
\* it, end in the same way, and leave is_flushed as it is.
Formatted ==
    /\ Calls("formatted") \/ Calls("sent")
    /\ fmt' = <<>>
    /\ seq' = seq + 1
    /\ flushed' = (flushed \/ Head(calls).fn = "formatted")
    /\ Go(<<>>)
    /\ UNCHANGED <<tree, status, conn, opened, trace, leaves, closed, bad, given>>

\* fn_flush of n's api; emitLog of a filter is 1, as no one calls fn_priority.
\* logpool_FILE_flush, logpool_syslog_flush, logpool_string_flush__
StringFlush(n) == Append(FormatFlush(n), Call("hand_on", n))

\* logpool_io_flush: the header is made of the number of fields.
StreamFlush(n) == Format(n, fmt) \o <<Call("sent", n), Call("hand_on", n)>>

\* logpool_memcache_flush: the key goes to a buffer of its own, from which
\* memcached gets it before the value.
MemcacheFlush(n) ==
    Format(n, IF fmt = <<>> THEN <<>> ELSE Tail(Delimited(fmt)))
      \o <<Call("sent", n), Call("hand_on", n)>>

FlushCalls(n) ==
    CASE tree.kind[n] = "string"   -> StringFlush(n)
      [] tree.kind[n] = "stream"   -> StreamFlush(n)
      [] tree.kind[n] = "memcache" -> MemcacheFlush(n)
      [] OTHER -> FormatFlush(n) \o Around(n, FlushKids(n))

Flush ==
    /\ TypedCall("flush")
    /\ Go(FlushCalls(At))
    /\ UNCHANGED <<tree, status, opened, table, leaves, closed, bad, given>>

\* A leaf hands its buffer on and resets it.
HandOn ==
    /\ Calls("hand_on")
    /\ sink' = [sink EXCEPT ![At] = Append(@, buf[At])]
    /\ buf' = [buf EXCEPT ![At] = <<>>]
    /\ Go(<<>>)
    /\ UNCHANGED <<tree, status, conn, opened, table, closed, bad, given>>

Ready == status = "open" /\ calls = <<>> /\ ~bad

\* Mutation: is_flushed is that of the log before.
FlushedKept == flushed

\* logpool_flush
FlushedAtFirst == FALSE

\* logpool_record of a log that the table has room for, and one to spare.
Record(log) ==
    /\ Ready
    /\ Len(given) < MaxRecords
    /\ Len(log.fields) < Capacity
    /\ trace' = log.trace
    /\ fmt' = log.fields
    /\ flushed' = FlushedAtFirst
    /\ calls' = <<Call("flush", Root)>>
    /\ given' = Append(given, log)
    /\ UNCHANGED <<tree, status, conn, opened, seq, leaves, closed, bad>>

\* ... and of one for which logpool_record_list's assertion fails.
RecordTooMany(log) ==
    /\ Ready
    /\ Len(log.fields) >= Capacity
    /\ status' = "aborted"
    /\ UNCHANGED <<tree, calls, conn, opened, table, leaves, closed, bad, given>>

-----------------------------------------------------------------------------
(* Closing *)

\* logpool_close
CloseAll ==
    /\ Ready
    /\ status' = "closed"
    /\ calls' = <<Call("close", Root)>>
    /\ UNCHANGED <<tree, conn, opened, table, leaves, closed, bad, given>>

\* Mutation: the last child is left open.
CloseKidsButLast(n) ==
    [i \in 1..(Len(Kids(n)) - 1) |-> CallKid(Call("close", Kids(n)[i]))]

\* Each child, with its own connection.
CloseKids(n) == [i \in DOMAIN Kids(n) |-> CallKid(Call("close", Kids(n)[i]))]

\* fn_close of n's api.
CloseNode ==
    /\ TypedCall("close")
    /\ Go(Append(CloseKids(At), Call("free", At)))
    /\ UNCHANGED <<tree, status, opened, table, leaves, closed, bad, given>>

FreeNode ==
    /\ Calls("free")
    /\ closed' = [closed EXCEPT ![At] = @ + 1]
    /\ conn' = 0
    /\ Go(<<>>)
    /\ UNCHANGED <<tree, status, opened, table, leaves, bad, given>>

FrontNext ==
    \/ InitNode \/ Remember \/ OpenEnd
    \/ SwitchBack \/ Put \/ PutKey \/ Flush \/ Formatted \/ HandOn \/ Undefined
    \/ \E log \in Logs : Record(log) \/ RecordTooMany(log)
    \/ CloseAll \/ CloseNode \/ FreeNode

FrontSpec == FrontInit /\ [][FrontNext]_frontVars

-----------------------------------------------------------------------------
(* Properties *)

Leaves == {n \in Nodes : Leaf(n)}

\* A tree whose functions meet: a stream or memcached is not below anything,
\* since its flush calls fn_key, which is that of the root, for itself; and only
\* the last child of a multiplexer is an inner node, since fn_key stays that of
\* the child for those that are opened after it.
Sound(t) == \A n \in DOMAIN t.kind :
              /\ t.kind[n] \in Stores => n = Root
              /\ \A i \in DOMAIN t.kids[n] :
                   i < Len(t.kids[n]) => t.kind[t.kids[n][i]] \notin Inner

\* The trees for which no function ever takes one node's structure for that
\* of another are exactly the sound ones: in a sound one it never happens, and in
\* any other by the time that a log is recorded.
TypedIffSound == /\ bad => ~Sound(tree)
                 /\ given # <<>> /\ calls = <<>> /\ ~bad => Sound(tree)

\* What a leaf makes of a log.
Line(kind, log) ==
    <<log.trace>> \o
      CASE kind = "string"   -> Delimited(log.fields)
        [] kind = "stream"   -> log.fields
        [] kind = "memcache" -> IF log.fields = <<>> THEN <<>>
                                 ELSE Tail(Delimited(log.fields))

\* In a sound tree every leaf hands on every log, once, whole and in order, and
\* nothing of one log in the line of another, although every leaf's flush
\* formats the log for the whole tree if no other has done it yet.
Delivered ==
    calls = <<>> /\ ~bad =>
      /\ seq = Len(given) /\ fmt = <<>>
      /\ \A n \in Leaves :
           /\ buf[n] = <<>>
           /\ sink[n] = [i \in DOMAIN given |-> Line(tree.kind[n], given[i])]

\* A close closes every node once, each with its own structure.
ClosedOnce ==
    status = "closed" => ~bad /\ (calls = <<>> => \A n \in Nodes : closed[n] = 1)
=============================================================================
