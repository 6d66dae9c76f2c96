------------------------------- MODULE React -------------------------------
(***************************************************************************)
(* plugins/pool/react.c: the React plugin keeps, in a map of core/map.c,   *)
(* the last value of every key of one trace, and tells whether the value   *)
(* of one key has changed.  A value in the map is a pointer into the log   *)
(* it came with, so every record holds a reference of its log.  As in all  *)
(* the repository's procedures a Copy plugin is above the React: a log is  *)
(* of its own and stays where it is.                                       *)
(***************************************************************************)
EXTENDS PoolMap, Integers

CONSTANTS Key,      \* keys of logs
          HashOf,   \* [Key -> [hash, k]]: djbhash and hash0 of the keys
          Watched,  \* conf.key
          Trace,    \* conf.traceName
          Logs,     \* the logs that come: sequences of fields [key, val]
          MaxLogs   \* bound: logs given to the plugin

ASSUME HashAssumption == HashOf \in [Key -> [hash : Nat, k : Nat]]

\* Names that the map cannot tell apart are one key, and none has the djbhash of
\* a free record: the map would not give back the reference of its log.
ASSUME KeyAssumption ==
    /\ \A key \in Key : HashOf[key].hash # 0
    /\ \A key, other \in Key : HashOf[key] = HashOf[other] => key = other

ASSUME WatchedAssumption == Watched \in Key
ASSUME LogsAssumption ==
    \A log \in Logs : /\ Len(log) \in Nat \ {0}
                      /\ DOMAIN log = 1 .. Len(log)
                      /\ \A i \in DOMAIN log : log[i].key \in Key
ASSUME BoundAssumption == MaxLogs \in Nat

VARIABLES map,    \* re->map; the v of a record is [e, val]
          refc,   \* h.refc of every log the plugin was given
          told,   \* which child the last log was handed on to
          live,   \* FALSE once the plugin is disposed of
          given   \* history: the logs so far

vars == <<map, refc, told, live, given>>

Init == /\ map = PoolmapNew
        /\ refc = <<>>
        /\ told = "none"
        /\ live = TRUE
        /\ given = <<>>

\* entry_log_free, for what a call of the map has given to ffree.
Freed(counts, freed) ==
    [e \in DOMAIN counts |->
       counts[e] - Cardinality({i \in DOMAIN freed : freed[i].e = e})]

IsWatched(rec) == rec.hash = HashOf[Watched].hash /\ rec.k = HashOf[Watched].k

\* Mutation: the flag is assigned, not or-ed: a log may have a key twice.
StepAssigns(st, rec) ==
    LET new == PoolmapSet(st.map, rec)
    IN  [map    |-> [new EXCEPT !.freed = <<>>],
         counts |-> Freed(st.counts, new.freed),
         update |-> IF new.freed # <<>> /\ IsWatched(rec)
                    THEN new.freed[1].val # rec.v.val ELSE st.update]

\* One field of the loop of react_append_log.
Step(st, rec) ==
    LET new == PoolmapSet(st.map, rec)
    IN  [map    |-> [new EXCEPT !.freed = <<>>],
         counts |-> Freed(st.counts, new.freed),
         update |-> \/ st.update
                    \/ /\ new.freed # <<>>
                       /\ IsWatched(rec)
                       /\ new.freed[1].val # rec.v.val]

\* Mutation: one reference for the log, not one for each of its fields.
IncRCOnce(log) == 2

\* RefInit of copy_apply, then IncRC
IncRC(log) == 1 + Len(log)

\* The record that poolmap_set2 is given for the i-th field of the log e.
RecOf(log, e, i) == [hash |-> HashOf[log[i].key].hash,
                     k    |-> HashOf[log[i].key].k,
                     v    |-> [e |-> e, val |-> log[i].val]]

\* react_append_log, after each round of its loop
Appended(log, e) ==
    LET st[i \in 0 .. Len(log)] ==
          IF i = 0
          THEN [map |-> map, counts |-> Append(refc, IncRC(log)), update |-> FALSE]
          ELSE Step(st[i - 1], RecOf(log, e, i))
    IN  st

\* react_append_log
AppendLog(log, e) == Appended(log, e)[Len(log)]

\* traceName of react_apply: the value of the first field, whatever its key.
TraceOf(log) == log[1].val

Accept == live /\ Len(given) < MaxLogs

\* copy_apply and react_apply of a log of the trace
Apply(log) ==
    /\ Accept
    /\ TraceOf(log) = Trace
    /\ given' = Append(given, log)
    /\ LET st == AppendLog(log, Len(given) + 1)
       IN  /\ map' = st.map
           /\ refc' = st.counts
           /\ told' = IF st.update THEN "apply" ELSE "failed"
    /\ UNCHANGED live

\* ... and of another, which a filter above need not keep away.
Ignore(log) ==
    /\ Accept
    /\ TraceOf(log) # Trace
    /\ given' = Append(given, log)
    /\ refc' = Append(refc, 1)
    /\ told' = "none"
    /\ UNCHANGED <<map, live>>

\* What poolmap_delete gives to ffree.
DeletedBy(m) == LET held == SetToSeq(Records(m))
                IN  [i \in DOMAIN held |-> m.records[held[i]].v]

\* pool_plugin_react_dispose
Dispose == /\ live
           /\ live' = FALSE
           /\ refc' = Freed(refc, DeletedBy(map))
           /\ map' = PoolmapNew
           /\ told' = "none"
           /\ UNCHANGED given

Next == \/ \E log \in Logs : Apply(log) \/ Ignore(log)
        \/ Dispose

Spec == Init /\ [][Next]_vars

-----------------------------------------------------------------------------
(* Properties *)

\* The fields of the trace in some logs: <<m, i>> is the i-th of the m-th log.
Places(logs) ==
    UNION {{m} \X DOMAIN logs[m] : m \in {n \in DOMAIN logs : TraceOf(logs[n]) = Trace}}

FieldAt(logs, p) == logs[p[1]][p[2]]

\* The order they came in.
Before(p, q) == p[1] < q[1] \/ (p[1] = q[1] /\ p[2] < q[2])

\* Of some fields, the last one of each key.
Latest(logs, places) ==
    {p \in places : \A q \in places :
                      FieldAt(logs, q).key = FieldAt(logs, p).key => ~Before(p, q)}

\* The record held for a key.
Held(key) == PoolmapGet(map, HashOf[key])

\* The references of a log are those of its records, and the one of RefInit,
\* whatever a log replaces, itself included, and however the map was resized:
\* while a record points into a log its count is not used up, and a disposed
\* of plugin holds none.
RefsExact ==
    \A e \in DOMAIN refc :
      refc[e] = 1 + Cardinality({i \in Records(map) : map.records[i].v.e = e})

\* The map has the last value of every key of the trace, in the last log that
\* had the key, and nothing of other traces.
HoldsLatest ==
    live => \A key \in Key :
      LET last == {p \in Latest(given, Places(given)) : FieldAt(given, p).key = key}
      IN  IF last = {} THEN Held(key) = NULL
          ELSE \E p \in last :
                 Held(key) = [e |-> p[1], val |-> FieldAt(given, p).val]

\* The field p has another value than the last one of its key before it.
Changes(logs, p) ==
    \E q \in Latest(logs, {q \in Places(logs) : Before(q, p)}) :
       /\ FieldAt(logs, q).key = FieldAt(logs, p).key
       /\ FieldAt(logs, q).val # FieldAt(logs, p).val

\* A log is handed to apply exactly if the watched value changes with it,
\* also if it changes and changes back within the log; the first value there
\* is does not count as a change.
ToldExactly ==
    live /\ given # <<>> =>
      LET n == Len(given)
          changes == \E i \in DOMAIN given[n] : /\ given[n][i].key = Watched
                                                /\ Changes(given, <<n, i>>)
      IN  told = IF TraceOf(given[n]) # Trace THEN "none"
                 ELSE IF changes THEN "apply" ELSE "failed"
=============================================================================
