------------------------------- MODULE MapUse -------------------------------
(***************************************************************************)
(* A poolmap_t and whoever calls it; every value is set once.              *)
(***************************************************************************)
EXTENDS PoolMap

CONSTANTS CallKey,   \* keys
          CallHash,  \* in [CallKey -> [hash : Nat, k : Nat]]: djbhash, fkey of the map
          MaxSets,   \* bound: calls of poolmap_set
          MaxRemoves \* bound: calls of poolmap_remove

ASSUME CallHashAssumption == CallHash \in [CallKey -> [hash : Nat, k : Nat]]

\* Names that the map cannot tell apart are one key.
ASSUME DistinctAssumption ==
    \A key, other \in CallKey : CallHash[key] = CallHash[other] => key = other

\* poolmap_remove of a key with both hashes 0 would find a free record and count
\* it as removed; nothing in the repository removes from a map.
ASSUME RemoveAssumption ==
    MaxRemoves \in Nat \ {0} =>
      \A key \in CallKey : CallHash[key].hash # 0 \/ CallHash[key].k # 0

ASSUME CallBoundAssumption == MaxSets \in Nat /\ MaxRemoves \in Nat

VARIABLES table,   \* the poolmap_t
          last,    \* history: the value last set for each key, NULL: none
          sets,    \* history: calls of poolmap_set
          removes  \* history: calls of poolmap_remove, which React does not make

callVars == <<table, last, sets, removes>>

CallInit == /\ table = PoolmapNew
            /\ last = [key \in CallKey |-> NULL]
            /\ sets = 0 /\ removes = 0

CallRec(key, v) == [hash |-> CallHash[key].hash, k |-> CallHash[key].k, v |-> v]

SetKey(key) == /\ sets < MaxSets
               /\ sets' = sets + 1
               /\ table' = PoolmapSet(table, CallRec(key, sets + 1))
               /\ last' = [last EXCEPT ![key] = sets + 1]
               /\ UNCHANGED removes

RemoveKey(key) == /\ removes < MaxRemoves
                  /\ removes' = removes + 1
                  /\ table' = PoolmapRemove(table, CallHash[key])
                  /\ last' = [last EXCEPT ![key] = NULL]
                  /\ UNCHANGED sets

CallNext == \E key \in CallKey : SetKey(key) \/ RemoveKey(key)

CallSpec == CallInit /\ [][CallNext]_callVars

-----------------------------------------------------------------------------
(* Properties *)

\* Whatever was set and removed before, the probes of the next poolmap_set
\* end at a free record or at its own: the assert(0) of pmap_set_no_resize is
\* never reached, though used_size also counts records that are gone (those
\* with hash 0) and a table of four is filled to the last record.
CallPlaceable ==
    \A key \in CallKey : Stops(Room(table), CallRec(key, NULL)) # {}

\* As long as nothing is removed, poolmap_get finds what was last set for a key
\* and nothing for any other, unless the key's hash is that of a free record:
\* neither probing over the end of the table, nor a full table, nor the records'
\* new places after a resize, nor a record that looks free, lose another key.
GetsLast ==
    removes = 0 =>
      \A key \in CallKey : CallHash[key].hash # 0 =>
                             PoolmapGet(table, CallHash[key]) = last[key]
=============================================================================
