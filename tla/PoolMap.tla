------------------------------ MODULE PoolMap ------------------------------
(***************************************************************************)
(* core/map.c: a hash map with open addressing and linear probing, as      *)
(* operators on the value of a poolmap_t.  React and MapUse use them.      *)
(*                                                                         *)
(* A record with hash 0 is a free one.  Two keys are one to the map if     *)
(* both their hashes are equal: hash, of djbhash, and k, of the map's fkey.*)
(***************************************************************************)
EXTENDS Naturals, Sequences, FiniteSets, FiniteSetsExt, Folds, SequencesExt

CONSTANT NULL

Free == [hash |-> 0, k |-> 0, v |-> NULL]

\* pmap_record_reset.  freed is the history of what was given to ffree.
Reset(size, freed) == [records |-> [i \in 0 .. size - 1 |-> Free],
                       used |-> 0, freed |-> freed]

RecordSize(m) == Cardinality(DOMAIN m.records)

\* poolmap_new with an initial size of 4 or less.
PoolmapNew == Reset(4, <<>>)

\* Where the probe number i for a hash looks.
At(m, hash, i) == (hash + i) % RecordSize(m)

Same(r, s) == r.hash = s.hash /\ r.k = s.k

\* The probes that end the loop of pmap_set_no_resize.  With none the loop
\* runs into assert(0).
Stops(m, rec) == {i \in 0 .. m.used : \/ m.records[At(m, rec.hash, i)].hash = 0
                                      \/ Same(m.records[At(m, rec.hash, i)], rec)}

\* pmap_set_no_resize
SetNoResize(m, rec) ==
    LET idx == At(m, rec.hash, Min(Stops(m, rec)))
        old == m.records[idx]
    IN  IF old.hash = 0
        THEN [m EXCEPT !.records[idx] = rec, !.used = @ + 1]
        ELSE [m EXCEPT !.records[idx] = rec, !.freed = Append(@, old.v)]

\* One round of the loop of pmap_record_resize.
Move(new, r) == IF r.hash = 0 THEN new ELSE SetNoResize(new, r)

\* The new table of pmap_record_resize, after each of its rounds.
Moved(m) ==
    LET new[i \in 0 .. RecordSize(m)] ==
          IF i = 0 THEN Reset(2 * RecordSize(m), m.freed)
          ELSE Move(new[i - 1], m.records[i - 1])
    IN  new

\* Mutation: the loop ends one record before the end of the old table.
ResizeButLast(m) == Moved(m)[RecordSize(m) - 1]

\* pmap_record_resize: the records are set again in a table of twice the size.
Resize(m) == Moved(m)[RecordSize(m)]

\* Mutation: the table is doubled only once it cannot take another record.
RoomLate(m) == IF m.used > RecordSize(m) THEN Resize(m) ELSE m

\* The head of pmap_set_.
Room(m) == IF m.used > (RecordSize(m) * 3) \div 4 THEN Resize(m) ELSE m

\* poolmap_set, poolmap_set2
PoolmapSet(m, rec) == SetNoResize(Room(m), rec)

\* The probes at which pmap_get_ finds the key.
Hits(m, key) == {i \in 0 .. m.used : Same(m.records[At(m, key.hash, i)], key)}

\* poolmap_get
PoolmapGet(m, key) == IF Hits(m, key) = {} THEN NULL
               ELSE m.records[At(m, key.hash, Min(Hits(m, key)))].v

\* poolmap_remove
PoolmapRemove(m, key) ==
    IF Hits(m, key) = {} THEN m
    ELSE LET idx == At(m, key.hash, Min(Hits(m, key)))
         IN  [m EXCEPT !.records[idx].hash = 0, !.records[idx].k = 0,
                       !.used = @ - 1]

\* The records that poolmap_next returns, and poolmap_delete frees.
Records(m) == {i \in DOMAIN m.records : m.records[i].hash # 0}
=============================================================================
