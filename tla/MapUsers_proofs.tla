-------------------------- MODULE MapUsers_proofs --------------------------
(***************************************************************************)
(* Theorems about the hash map, for every table, key and value, and about  *)
(* its users: any caller (MapUse), and the React plugin for any keys, logs *)
(* and numbers of them.                                                    *)
(*                                                                         *)
(* Two facts are kept by whatever is set: used_size is no less than the    *)
(* number of records that a key lies in (Counted), so that a probe finds a *)
(* free record as long as it is below the size of the table (SomeStop);    *)
(* and every record is where the probes for its hash get to without one    *)
(* that stops (Chained), so that it is found again.  With the second the   *)
(* map is the set of its records (Content), whose places do not matter.    *)
(*                                                                         *)
(* The properties of React do not follow from one another step by step:    *)
(* that a log is counted exactly (Counts) and that its change is told      *)
(* (ToldExactly) needs the map to hold nothing but the last field of each  *)
(* key (Follows), whose record is the one that a set frees.  Within        *)
(* react_append_log the counts run ahead by the fields to come (Stage).    *)
(***************************************************************************)
EXTENDS MapUsers, FiniteSetTheorems, TLAPS

-----------------------------------------------------------------------------
(* Numbers *)

\* A set of naturals has a least element, which Min returns.
LEMMA MinLeast ==
  ASSUME NEW S, S \subseteq Nat, S # {}
  PROVE  Min(S) \in S /\ \A m \in S : Min(S) <= m
<1>1. PICK n \in S : \A m \in S : ~ (<<m, n>> \in OpToRel(<, Nat))
  BY NatLessThanWellFounded, WFMin, Zenon
<1>2. \A m \in S : ~(m < n)
  BY <1>1 DEF OpToRel
<1>3. \A m \in S : n <= m
  BY <1>2
<1> QED BY <1>3 DEF Min

\* A probe stays in the table.
LEMMA ModRange ==
  ASSUME NEW n \in Nat \ {0}, NEW a \in Nat
  PROVE  a % n \in 0 .. n - 1
BY SMT

\* The first n probes look at different records.
LEMMA ModInjective ==
  ASSUME NEW n \in Nat \ {0}, NEW h \in Nat,
         NEW i \in 0 .. n - 1, NEW j \in 0 .. n - 1,
         (h + i) % n = (h + j) % n
  PROVE  i = j
<1> DEFINE a == (h + i) \div n
           b == (h + j) \div n
           r == (h + i) % n
<1>1. a \in Nat /\ b \in Nat
  OBVIOUS
<1>2. h + i = n * a + r /\ h + j = n * b + r
  OBVIOUS
<1>3. i - j = n * a - n * b
  BY <1>1, <1>2
<1>4. n * a - n * b = n * (a - b)
  BY <1>1
<1>5. ASSUME NEW k \in Int, k >= 1
      PROVE  n * k >= n
  BY <1>5
<1>6. ~(a - b >= 1)
  BY <1>1, <1>3, <1>4, <1>5
<1>7. n * b - n * a = n * (b - a)
  BY <1>1
<1>8. ~(b - a >= 1)
  BY <1>1, <1>3, <1>7, <1>5
<1> QED BY <1>1, <1>3, <1>6, <1>8


-----------------------------------------------------------------------------
(* Tables *)

Record(V) == [hash : Nat, k : Nat, v : V]

\* The maps with n records.
Table(n, V) == [records : [0 .. n - 1 -> Record(V)], used : Nat, freed : Seq(V)]

\* The records that a key lies in, those with hash 0 included.
Taken(m) == {i \in DOMAIN m.records : m.records[i].hash # 0 \/ m.records[i].k # 0}

\* used_size is not below the number of keys.
Counted(m) == Cardinality(Taken(m)) <= m.used

\* The d-th probe for the record at p finds it, and none before it stops.
Reached(m, p, d) ==
    /\ At(m, m.records[p].hash, d) = p
    /\ \A i \in 0 .. d - 1 :
         LET q == At(m, m.records[p].hash, i)
         IN  m.records[q].hash # 0 /\ ~Same(m.records[q], m.records[p])

\* Every record is where the probes for its key get to.
Chained(m) == \A p \in Records(m) : \E d \in 0 .. m.used : Reached(m, p, d)

\* What the map holds, wherever it lies.
Content(m) == {m.records[p] : p \in Records(m)}

LEMMA SizeOfTable ==
  ASSUME NEW n \in Nat, NEW V, NEW m \in Table(n, V)
  PROVE  DOMAIN m.records = 0 .. n - 1 /\ RecordSize(m) = n
<1>1. DOMAIN m.records = 0 .. n - 1
  BY DEF Table
<1>2. Cardinality(0 .. n - 1) = n
  BY FS_Interval
<1> QED BY <1>1, <1>2 DEF RecordSize

LEMMA Probed ==
  ASSUME NEW n \in Nat \ {0}, NEW V, NEW m \in Table(n, V),
         NEW h \in Nat, NEW i \in Nat
  PROVE  At(m, h, i) = (h + i) % n /\ At(m, h, i) \in 0 .. n - 1
<1>1. RecordSize(m) = n
  BY SizeOfTable
<1>2. (h + i) % n \in 0 .. n - 1
  <2>1. h + i \in Nat
    OBVIOUS
  <2> QED BY <2>1, ModRange
<1> QED BY <1>1, <1>2 DEF At

\* As long as a record is free a probe comes to it: there are more probes than
\* records that are taken.
LEMMA SomeStop ==
  ASSUME NEW n \in Nat \ {0}, NEW V, NEW m \in Table(n, V),
         Counted(m), m.used < n, NEW rec, rec.hash \in Nat
  PROVE  Stops(m, rec) # {}
<1> SUFFICES ASSUME Stops(m, rec) = {} PROVE FALSE
  OBVIOUS
<1> DEFINE P == 0 .. m.used
           f == [i \in P |-> At(m, rec.hash, i)]
<1>1. m.used \in Nat
  BY DEF Table
<1>2. IsFiniteSet(P) /\ Cardinality(P) = m.used + 1
  <2>1. PICK u \in Nat : u = m.used
    BY <1>1
  <2>2. IsFiniteSet(0 .. u) /\ Cardinality(0 .. u) = IF 0 > u THEN 0 ELSE u - 0 + 1
    <3>1. 0 \in Int /\ u \in Int
      OBVIOUS
    <3> QED BY <3>1, FS_Interval, Zenon
  <2> QED BY <2>1, <2>2
<1>3. DOMAIN m.records = 0 .. n - 1 /\ IsFiniteSet(0 .. n - 1)
  BY SizeOfTable, FS_Interval
<1>4. IsFiniteSet(Taken(m))
  BY <1>3, FS_Subset DEF Taken
<1>5. ASSUME NEW i \in P
      PROVE  f[i] \in Taken(m)
  <2>1. At(m, rec.hash, i) \in 0 .. n - 1
    <3>1. i \in Nat
      BY <1>1
    <3> QED BY <3>1, Probed
  <2>2. m.records[At(m, rec.hash, i)].hash # 0
    BY DEF Stops
  <2> QED BY <2>1, <2>2, <1>3 DEF Taken
<1>6. f \in [P -> Taken(m)]
  BY <1>5
<1>7. Cardinality(Taken(m)) \in Nat
  BY <1>4, FS_CardinalityType
<1>8. Cardinality(Taken(m)) < Cardinality(P)
  BY <1>1, <1>2, <1>7 DEF Counted
<1>9. PICK i \in P, j \in P : i # j /\ f[i] = f[j]
  <2> HIDE DEF f, P
  <2> QED BY <1>2, <1>4, <1>6, <1>8, FS_PigeonHole
<1>10. i \in 0 .. n - 1 /\ j \in 0 .. n - 1
  BY <1>1
<1>11. At(m, rec.hash, i) = (rec.hash + i) % n /\ At(m, rec.hash, j) = (rec.hash + j) % n
  <2>1. i \in Nat /\ j \in Nat
    BY <1>10
  <2> QED BY <2>1, Probed
<1>12. PICK h \in Nat : h = rec.hash
  OBVIOUS
<1>13. (h + i) % n = (h + j) % n
  BY <1>9, <1>11, <1>12
<1>14. i = j
  BY <1>10, <1>13, ModInjective
<1> QED BY <1>9, <1>14

\* Where pmap_set_no_resize puts a record: at the first probe that stops.
LEMMA FirstStop ==
  ASSUME NEW n \in Nat \ {0}, NEW V, NEW m \in Table(n, V),
         NEW rec, rec.hash \in Nat, Stops(m, rec) # {}
  PROVE  LET d == Min(Stops(m, rec))
         IN  /\ d \in 0 .. m.used
             /\ d \in Stops(m, rec)
             /\ \A i \in 0 .. d - 1 : i \notin Stops(m, rec)
             /\ At(m, rec.hash, d) \in 0 .. n - 1
<1>1. m.used \in Nat
  BY DEF Table
<1>2. Stops(m, rec) \subseteq 0 .. m.used
  BY DEF Stops
<1>3. Stops(m, rec) \subseteq Nat
  BY <1>1, <1>2
<1> DEFINE d == Min(Stops(m, rec))
<1>4. d \in Stops(m, rec) /\ \A i \in Stops(m, rec) : d <= i
  BY <1>3, MinLeast
<1> HIDE DEF d
<1>5. d \in 0 .. m.used /\ d \in Nat
  BY <1>4, <1>2, <1>3
<1>6. \A i \in 0 .. d - 1 : i \notin Stops(m, rec)
  BY <1>4, <1>5
<1>7. At(m, rec.hash, d) \in 0 .. n - 1
  BY <1>5, Probed
<1> QED BY <1>4, <1>5, <1>6, <1>7 DEF d

-----------------------------------------------------------------------------
(* pmap_set_no_resize *)

\* A record is put at the first probe that stops: at a free record, and there
\* is one more then, or at the one of its own key, whose value is freed.
Put(m, new, rec, p) ==
    /\ new.records = [m.records EXCEPT ![p] = rec]
    /\ m.records[p].hash = 0 => new.used = m.used + 1 /\ new.freed = m.freed
    /\ m.records[p].hash # 0 => /\ Same(m.records[p], rec)
                                /\ new.used = m.used
                                /\ new.freed = Append(m.freed, m.records[p].v)

LEMMA SetPuts ==
  ASSUME NEW n \in Nat \ {0}, NEW V, NEW m \in Table(n, V),
         NEW rec \in Record(V), Stops(m, rec) # {}
  PROVE  /\ SetNoResize(m, rec) \in Table(n, V)
         /\ \E d \in 0 .. m.used :
              /\ At(m, rec.hash, d) \in 0 .. n - 1
              /\ d \in Stops(m, rec)
              /\ \A i \in 0 .. d - 1 : i \notin Stops(m, rec)
              /\ Put(m, SetNoResize(m, rec), rec, At(m, rec.hash, d))
<1>1. rec.hash \in Nat
  BY DEF Record
<1> DEFINE d == Min(Stops(m, rec))
<1>2. /\ d \in 0 .. m.used
      /\ d \in Stops(m, rec)
      /\ \A i \in 0 .. d - 1 : i \notin Stops(m, rec)
      /\ At(m, rec.hash, d) \in 0 .. n - 1
  BY <1>1, FirstStop, Zenon
<1>3. PICK p \in 0 .. n - 1 : p = At(m, rec.hash, d)
  BY <1>2
<1>4. PICK new : new = SetNoResize(m, rec)
  OBVIOUS
<1>5. new = IF m.records[p].hash = 0
            THEN [m EXCEPT !.records[p] = rec, !.used = @ + 1]
            ELSE [m EXCEPT !.records[p] = rec, !.freed = Append(@, m.records[p].v)]
  BY <1>3, <1>4, Zenon DEF SetNoResize
<1>6. m.records[p] \in Record(V) /\ m.used \in Nat /\ m.freed \in Seq(V)
  BY DEF Table
<1>7. [m.records EXCEPT ![p] = rec] \in [0 .. n - 1 -> Record(V)]
  BY DEF Table
<1>8. Append(m.freed, m.records[p].v) \in Seq(V)
  BY <1>6 DEF Record
<1>9. new \in Table(n, V)
  <2> DEFINE rs == [m.records EXCEPT ![p] = rec]
  <2>1. m = [records |-> m.records, used |-> m.used, freed |-> m.freed]
    BY DEF Table
  <2>2. m.records[p].hash = 0 =>
          new = [records |-> rs, used |-> m.used + 1, freed |-> m.freed]
    BY <1>5, <2>1
  <2>3. m.records[p].hash # 0 =>
          new = [records |-> rs, used |-> m.used,
                 freed |-> Append(m.freed, m.records[p].v)]
    BY <1>5, <2>1
  <2>4. m.used + 1 \in Nat
    BY <1>6
  <2>5. \A a \in [0 .. n - 1 -> Record(V)], b \in Nat, c \in Seq(V) :
          [records |-> a, used |-> b, freed |-> c] \in Table(n, V)
    BY DEF Table
  <2>6. rs \in [0 .. n - 1 -> Record(V)]
    BY <1>7
  <2> HIDE DEF rs
  <2>7. CASE m.records[p].hash = 0
    <3>1. [records |-> rs, used |-> m.used + 1, freed |-> m.freed] \in Table(n, V)
      BY <2>4, <2>5, <2>6, <1>6, Zenon
    <3> QED BY <2>2, <2>7, <3>1, Zenon
  <2>8. CASE m.records[p].hash # 0
    <3>1. [records |-> rs, used |-> m.used,
           freed |-> Append(m.freed, m.records[p].v)] \in Table(n, V)
      BY <2>5, <2>6, <1>6, <1>8, Zenon
    <3> QED BY <2>3, <2>8, <3>1, Zenon
  <2> QED BY <2>7, <2>8
<1>10. m.records[p].hash # 0 => Same(m.records[p], rec)
  BY <1>2, <1>3 DEF Stops
<1>11. Put(m, new, rec, p)
  BY <1>5, <1>6, <1>10 DEF Put, Table
<1> HIDE DEF d
<1> QED BY <1>2, <1>3, <1>4, <1>9, <1>11

\* used_size keeps up with the keys.
LEMMA PutCounted ==
  ASSUME NEW n \in Nat \ {0}, NEW V, NEW m \in Table(n, V), NEW new \in Table(n, V),
         NEW rec \in Record(V), NEW p \in 0 .. n - 1,
         Put(m, new, rec, p), Counted(m)
  PROVE  Counted(new) /\ new.used \in m.used .. m.used + 1
<1>1. m.used \in Nat /\ m.records[p].hash \in Nat
  BY DEF Table, Record
<1>2. /\ DOMAIN m.records = 0 .. n - 1
      /\ DOMAIN new.records = 0 .. n - 1
      /\ IsFiniteSet(0 .. n - 1)
  BY SizeOfTable, FS_Interval
<1>3. IsFiniteSet(Taken(m)) /\ IsFiniteSet(Taken(new))
  BY <1>2, FS_Subset DEF Taken
<1>4. Taken(new) \subseteq Taken(m) \cup {p}
  BY <1>2 DEF Taken, Put
<1>5. /\ IsFiniteSet(Taken(m) \cup {p})
      /\ Cardinality(Taken(m) \cup {p}) =
           IF p \in Taken(m) THEN Cardinality(Taken(m)) ELSE Cardinality(Taken(m)) + 1
  BY <1>3, FS_AddElement
<1>6. Cardinality(Taken(new)) <= Cardinality(Taken(m) \cup {p})
  BY <1>4, <1>5, FS_Subset
<1>7. /\ Cardinality(Taken(m)) \in Nat
      /\ Cardinality(Taken(new)) \in Nat
      /\ Cardinality(Taken(m) \cup {p}) \in Nat
  BY <1>3, <1>5, FS_CardinalityType
<1>8. CASE m.records[p].hash = 0
  <2>1. new.used = m.used + 1
    BY <1>8 DEF Put
  <2> QED BY <1>1, <1>5, <1>6, <1>7, <2>1 DEF Counted
<1>9. CASE m.records[p].hash # 0
  <2>1. new.used = m.used /\ p \in Taken(m)
    BY <1>2, <1>9 DEF Put, Taken
  <2> QED BY <1>1, <1>5, <1>6, <1>7, <2>1 DEF Counted
<1> QED BY <1>8, <1>9

\* What SetPuts says of a record that is set: where it is, and that no probe
\* before stops.
Placed(m, new, rec, d) ==
    /\ At(m, rec.hash, d) \in DOMAIN m.records
    /\ d \in Stops(m, rec)
    /\ \A i \in 0 .. d - 1 : i \notin Stops(m, rec)
    /\ Put(m, new, rec, At(m, rec.hash, d))

\* No two records have one key.
LEMMA OneOfAKey ==
  ASSUME NEW m, m.used \in Nat, Chained(m), NEW p \in Records(m), NEW q \in Records(m),
         Same(m.records[p], m.records[q])
  PROVE  p = q
<1>1. PICK d \in 0 .. m.used : Reached(m, p, d)
  BY DEF Chained
<1>2. PICK e \in 0 .. m.used : Reached(m, q, e)
  BY DEF Chained
<1>3. m.records[p].hash = m.records[q].hash
  BY DEF Same
<1>4. At(m, m.records[p].hash, d) = p /\ At(m, m.records[p].hash, e) = q
  BY <1>1, <1>2, <1>3 DEF Reached
<1>5. ~(d \in 0 .. e - 1)
  BY <1>2, <1>3, <1>4 DEF Reached
<1>6. ~(e \in 0 .. d - 1)
  BY <1>1, <1>4 DEF Reached, Same
<1>7. d = e
  BY <1>5, <1>6
<1> QED BY <1>4, <1>7

\* A probe before the one that stops is for a record with another key.
LEMMA BeforeStop ==
  ASSUME NEW m, m.used \in Nat, NEW new, NEW rec, NEW d, Placed(m, new, rec, d),
         NEW i \in 0 .. d - 1
  PROVE  /\ m.records[At(m, rec.hash, i)].hash # 0
         /\ ~Same(m.records[At(m, rec.hash, i)], rec)
<1>1. d \in 0 .. m.used
  BY DEF Placed, Stops
<1>2. i \in 0 .. m.used /\ i \notin Stops(m, rec)
  BY <1>1 DEF Placed
<1> QED BY <1>2 DEF Stops

\* The record of a key is the one that its set replaces.
LEMMA StopsAtOwn ==
  ASSUME NEW m, m.used \in Nat, Chained(m), NEW new, NEW rec, NEW d,
         Placed(m, new, rec, d), NEW p \in Records(m), Same(m.records[p], rec)
  PROVE  p = At(m, rec.hash, d)
<1>1. PICK e \in 0 .. m.used : Reached(m, p, e)
  BY DEF Chained
<1>2. m.records[p].hash = rec.hash
  BY DEF Same
<1>3. At(m, rec.hash, e) = p
  BY <1>1, <1>2 DEF Reached
<1>4. d \in 0 .. m.used
  BY DEF Placed, Stops
<1>5. ~(e \in 0 .. d - 1)
  BY <1>3, BeforeStop
<1>6. ~(d \in 0 .. e - 1)
  <2> SUFFICES ASSUME d \in 0 .. e - 1 PROVE FALSE
    OBVIOUS
  <2>1. /\ m.records[At(m, rec.hash, d)].hash # 0
        /\ ~Same(m.records[At(m, rec.hash, d)], m.records[p])
    BY <1>1, <1>2 DEF Reached
  <2>2. Same(m.records[At(m, rec.hash, d)], rec)
    BY <2>1 DEF Placed, Stops
  <2> QED BY <2>1, <2>2 DEF Same
<1>7. d = e
  BY <1>4, <1>5, <1>6
<1> QED BY <1>3, <1>7

\* Whatever is set, each record stays where the probes for it get to.
LEMMA PutChained ==
  ASSUME NEW n \in Nat \ {0}, NEW V, NEW m \in Table(n, V), NEW new \in Table(n, V),
         NEW rec \in Record(V), NEW d, Placed(m, new, rec, d),
         Chained(m), new.used \in m.used .. m.used + 1
  PROVE  Chained(new)
<1> DEFINE p == At(m, rec.hash, d)
<1>1. m.used \in Nat /\ d \in 0 .. m.used
  BY DEF Table, Placed, Stops
<1>2. /\ DOMAIN m.records = 0 .. n - 1
      /\ DOMAIN new.records = 0 .. n - 1
      /\ RecordSize(m) = n
      /\ RecordSize(new) = n
  BY SizeOfTable
<1>3. \A h, i : At(new, h, i) = At(m, h, i)
  BY <1>2 DEF At
<1>4. /\ p \in 0 .. n - 1
      /\ new.records[p] = rec
      /\ \A q \in 0 .. n - 1 : q # p => new.records[q] = m.records[q]
  BY <1>2 DEF Placed, Put
<1>5. \/ m.records[p].hash = 0
      \/ m.records[p].hash # 0 /\ Same(m.records[p], rec)
  BY DEF Placed, Put
<1> SUFFICES ASSUME NEW x \in Records(new)
             PROVE  \E e \in 0 .. new.used : Reached(new, x, e)
  BY DEF Chained
<1>6. x \in 0 .. n - 1 /\ new.records[x].hash # 0
  BY <1>2 DEF Records
<1> HIDE DEF p
<1>7. CASE x = p
  <2>1. At(m, rec.hash, d) = p
    BY DEF p
  <2>2. ASSUME NEW i \in 0 .. d - 1
        PROVE  LET q == At(m, rec.hash, i)
               IN  new.records[q].hash # 0 /\ ~Same(new.records[q], rec)
    <3>1. PICK q : q = At(m, rec.hash, i)
      OBVIOUS
    <3>2. m.records[q].hash # 0 /\ ~Same(m.records[q], rec)
      BY <1>1, <3>1, BeforeStop
    <3>3. q \in 0 .. n - 1
      <4>1. i \in Nat /\ rec.hash \in Nat
        BY <1>1 DEF Record
      <4> QED BY <3>1, <4>1, Probed
    <3>4. new.records[q] = m.records[q]
      BY <1>4, <1>5, <3>2, <3>3
    <3> QED BY <3>1, <3>2, <3>4
  <2>3. Reached(new, x, d)
    BY <1>3, <1>4, <1>7, <2>1, <2>2 DEF Reached
  <2> QED BY <1>1, <2>3
<1>8. CASE x # p
  <2>1. new.records[x] = m.records[x]
    BY <1>4, <1>6, <1>8
  <2>2. PICK r : r = m.records[x]
    OBVIOUS
  <2>3. x \in Records(m)
    BY <1>2, <1>6, <2>1 DEF Records
  <2>4. PICK e \in 0 .. m.used : Reached(m, x, e)
    BY <2>3 DEF Chained
  <2>5. ASSUME NEW i \in 0 .. e - 1
        PROVE  LET q == At(m, r.hash, i)
               IN  new.records[q].hash # 0 /\ ~Same(new.records[q], r)
    <3>1. PICK q : q = At(m, r.hash, i)
      OBVIOUS
    <3>2. m.records[q].hash # 0 /\ ~Same(m.records[q], r)
      BY <2>2, <2>4, <3>1 DEF Reached
    <3>3. q \in 0 .. n - 1
      <4>1. i \in Nat /\ r \in Record(V)
        BY <1>1, <1>6, <2>2 DEF Table
      <4>2. r.hash \in Nat
        BY <4>1 DEF Record
      <4> QED BY <3>1, <4>1, <4>2, Probed
    <3>4. CASE q = p
      <4>1. Same(m.records[p], rec) /\ new.records[q] = rec
        BY <1>4, <1>5, <3>2, <3>4
      <4> QED BY <3>1, <3>2, <3>4, <4>1 DEF Same
    <3>5. CASE q # p
      BY <1>4, <3>1, <3>2, <3>3, <3>5
    <3> QED BY <3>4, <3>5
  <2>6. Reached(new, x, e)
    BY <1>3, <2>1, <2>2, <2>4, <2>5 DEF Reached
  <2> QED BY <1>1, <2>6
<1> QED BY <1>7, <1>8

\* The value that a set frees is that of the record it replaces.
LEMMA PutFrees ==
  ASSUME NEW m, m.used \in Nat, Chained(m), NEW new, NEW rec, NEW d,
         Placed(m, new, rec, d)
  PROVE  /\ (\A r \in Content(m) : ~Same(r, rec)) => new.freed = m.freed
         /\ \A r \in Content(m) : Same(r, rec) => new.freed = Append(m.freed, r.v)
<1>1. PICK p : p = At(m, rec.hash, d)
  OBVIOUS
<1>2. p \in DOMAIN m.records /\ Put(m, new, rec, p)
  BY <1>1 DEF Placed
<1>3. ASSUME \A r \in Content(m) : ~Same(r, rec)
      PROVE  new.freed = m.freed
  <2>1. m.records[p].hash = 0
    BY <1>2, <1>3 DEF Content, Records, Put
  <2> QED BY <1>2, <2>1 DEF Put
<1>4. ASSUME NEW r \in Content(m), Same(r, rec)
      PROVE  new.freed = Append(m.freed, r.v)
  <2>1. PICK q \in Records(m) : r = m.records[q]
    BY DEF Content
  <2>2. q = p
    BY <1>1, <1>4, <2>1, StopsAtOwn
  <2> QED BY <1>2, <2>1, <2>2 DEF Put, Records
<1> QED BY <1>3, <1>4

\* A set replaces the record of its key and no other; one with hash 0 leaves
\* all as they are.
LEMMA PutContent ==
  ASSUME NEW n \in Nat \ {0}, NEW V, NEW m \in Table(n, V), NEW new \in Table(n, V),
         NEW rec \in Record(V), NEW d, Placed(m, new, rec, d), Chained(m)
  PROVE  Content(new) = IF rec.hash = 0 THEN Content(m)
                        ELSE {r \in Content(m) : ~Same(r, rec)} \cup {rec}
<1>1. PICK p : p = At(m, rec.hash, d)
  OBVIOUS
<1>2. /\ DOMAIN m.records = 0 .. n - 1
      /\ DOMAIN new.records = 0 .. n - 1
      /\ m.used \in Nat
  BY SizeOfTable DEF Table
<1>3. /\ p \in 0 .. n - 1
      /\ new.records[p] = rec
      /\ \A q \in 0 .. n - 1 : q # p => new.records[q] = m.records[q]
      /\ m.records[p].hash # 0 => Same(m.records[p], rec)
  BY <1>1, <1>2 DEF Placed, Put
<1>4. CASE rec.hash = 0
  <2>1. m.records[p].hash = 0
    BY <1>3, <1>4 DEF Same
  <2>2. Records(new) = Records(m)
    BY <1>2, <1>3, <1>4, <2>1 DEF Records
  <2>3. \A q \in Records(m) : new.records[q] = m.records[q]
    BY <1>2, <1>3, <2>1 DEF Records
  <2> QED BY <1>4, <2>2, <2>3 DEF Content
<1>5. CASE rec.hash # 0
  <2>1. ASSUME NEW q \in Records(new), q # p
        PROVE  m.records[q] \in Content(m) /\ ~Same(m.records[q], rec)
    <3>1. q \in Records(m)
      BY <1>2, <1>3, <2>1 DEF Records
    <3>2. ~Same(m.records[q], rec)
      BY <1>1, <1>2, <2>1, <3>1, StopsAtOwn
    <3> QED BY <3>1, <3>2 DEF Content
  <2>2. ASSUME NEW r \in Content(m), ~Same(r, rec)
        PROVE  r \in Content(new)
    <3>1. PICK q \in Records(m) : r = m.records[q]
      BY DEF Content
    <3>2. q # p /\ q \in 0 .. n - 1
      BY <1>2, <1>3, <2>2, <3>1 DEF Records
    <3> QED BY <1>2, <1>3, <3>1, <3>2 DEF Records, Content
  <2>3. rec \in Content(new)
    BY <1>2, <1>3, <1>5 DEF Records, Content
  <2>4. ASSUME NEW r \in Content(new)
        PROVE  r = rec \/ (r \in Content(m) /\ ~Same(r, rec))
    <3>1. PICK q \in Records(new) : r = new.records[q]
      BY DEF Content
    <3>2. q \in 0 .. n - 1
      BY <1>2 DEF Records
    <3>3. CASE q = p
      <4>1. r = rec
        BY <1>3, <3>1, <3>3
      <4> QED BY <4>1
    <3>4. CASE q # p
      BY <1>3, <2>1, <3>1, <3>2, <3>4
    <3> QED BY <3>3, <3>4
  <2> QED BY <1>5, <2>2, <2>3, <2>4
<1> QED BY <1>4, <1>5

\* pmap_set_no_resize, where a record is free.
LEMMA SetFits ==
  ASSUME NEW n \in Nat \ {0}, NEW V, NEW m \in Table(n, V),
         NEW rec \in Record(V), Counted(m), m.used < n
  PROVE  LET new == SetNoResize(m, rec)
         IN  /\ new \in Table(n, V)
             /\ Counted(new)
             /\ new.used \in m.used .. m.used + 1
             /\ \E d : Placed(m, new, rec, d)
<1>1. rec.hash \in Nat
  BY DEF Record
<1>2. Stops(m, rec) # {}
  BY <1>1, SomeStop
<1>3. PICK new : new = SetNoResize(m, rec)
  OBVIOUS
<1>4. new \in Table(n, V)
  BY <1>2, <1>3, SetPuts
<1>5. PICK d \in 0 .. m.used :
        /\ At(m, rec.hash, d) \in 0 .. n - 1
        /\ d \in Stops(m, rec)
        /\ \A i \in 0 .. d - 1 : i \notin Stops(m, rec)
        /\ Put(m, new, rec, At(m, rec.hash, d))
  BY <1>2, <1>3, SetPuts
<1>6. Placed(m, new, rec, d)
  BY <1>5, SizeOfTable DEF Placed
<1>7. Counted(new) /\ new.used \in m.used .. m.used + 1
  BY <1>4, <1>5, PutCounted
<1> QED BY <1>3, <1>4, <1>6, <1>7

-----------------------------------------------------------------------------
(* pmap_record_resize *)

\* The rounds of the loop are what their definition says.
LEMMA MovedRounds ==
  ASSUME NEW n \in Nat \ {0}, NEW V, NEW m \in Table(n, V)
  PROVE  /\ Moved(m)[0] = Reset(2 * n, m.freed)
         /\ \A i \in 1 .. n : Moved(m)[i] = Move(Moved(m)[i - 1], m.records[i - 1])
<1> DEFINE Rounds(k, g) ==
             g = [i \in 0 .. k |->
                    IF i = 0 THEN Reset(2 * n, m.freed)
                    ELSE Move(g[i - 1], m.records[i - 1])]
           None == {k \in Nat : ~ \E g : Rounds(k, g)}
<1>1. None = {}
  <2> SUFFICES ASSUME None # {} PROVE FALSE
    OBVIOUS
  <2>1. None \subseteq Nat
    OBVIOUS
  <2>2. Min(None) \in None /\ \A k \in None : Min(None) <= k
    BY <2>1, MinLeast, Zenon
  <2>3. PICK k : k = Min(None)
    OBVIOUS
  <2>4. k \in Nat /\ ~ \E g : Rounds(k, g)
    BY <2>2, <2>3
  <2>5. k # 0
    <3> DEFINE g == [i \in 0 .. 0 |-> Reset(2 * n, m.freed)]
    <3>1. \A i \in 0 .. 0 : i = 0
      OBVIOUS
    <3>2. g = [i \in 0 .. 0 |-> IF i = 0 THEN Reset(2 * n, m.freed)
                                ELSE Move(g[i - 1], m.records[i - 1])]
      BY <3>1
    <3>3. Rounds(0, g)
      BY <3>2
    <3> QED BY <2>4, <3>3
  <2>6. k - 1 \in Nat /\ ~(k <= k - 1)
    BY <2>4, <2>5
  <2>7. k - 1 \notin None
    BY <2>2, <2>3, <2>6
  <2>8. PICK f : Rounds(k - 1, f)
    BY <2>6, <2>7
  <2> DEFINE g == [i \in 0 .. k |-> IF i = 0 THEN Reset(2 * n, m.freed)
                                    ELSE Move(f[i - 1], m.records[i - 1])]
  <2>9. ASSUME NEW i \in 0 .. k - 1
        PROVE  f[i] = g[i]
    BY <2>4, <2>8
  <2>10. \A i \in 0 .. k : i # 0 => i - 1 \in 0 .. k - 1
    BY <2>4
  <2>11. Rounds(k, g)
    <3> HIDE DEF g
    <3>1. \A i \in 0 .. k : i # 0 => Move(f[i - 1], m.records[i - 1])
                                     = Move(g[i - 1], m.records[i - 1])
      BY <2>9, <2>10, Zenon
    <3>2. g = [i \in 0 .. k |-> IF i = 0 THEN Reset(2 * n, m.freed)
                                ELSE Move(f[i - 1], m.records[i - 1])]
      BY DEF g
    <3>3. g = [i \in 0 .. k |-> IF i = 0 THEN Reset(2 * n, m.freed)
                                ELSE Move(g[i - 1], m.records[i - 1])]
      BY <3>1, <3>2
    <3> QED BY <3>3
  <2> QED BY <2>4, <2>11
<1>2. RecordSize(m) = n
  BY SizeOfTable
<1>3. Moved(m) = CHOOSE g : Rounds(n, g)
  BY <1>2, Zenon DEF Moved
<1>4. \E g : Rounds(n, g)
  BY <1>1
<1>5. PICK g : g = Moved(m)
  OBVIOUS
<1>6. Rounds(n, g)
  <2> HIDE DEF Rounds
  <2> QED BY <1>3, <1>4, <1>5, Zenon
<1>7. g[0] = Reset(2 * n, m.freed)
  BY <1>6
<1>8. \A i \in 1 .. n : g[i] = Move(g[i - 1], m.records[i - 1])
  BY <1>6
<1> QED BY <1>5, <1>7, <1>8

\* A new table is empty.
LEMMA ResetEmpty ==
  ASSUME NEW n \in Nat \ {0}, NEW V, NULL \in V, NEW freed \in Seq(V)
  PROVE  LET new == Reset(n, freed)
         IN  /\ new \in Table(n, V)
             /\ Counted(new)
             /\ new.used = 0
             /\ new.freed = freed
             /\ Chained(new)
             /\ Content(new) = {}
<1>1. PICK new : new = Reset(n, freed)
  OBVIOUS
<1>2. new = [records |-> [i \in 0 .. n - 1 |-> Free], used |-> 0, freed |-> freed]
  BY <1>1 DEF Reset
<1>3. Free \in Record(V) /\ Free.hash = 0 /\ Free.k = 0
  BY DEF Free, Record
<1>4. new \in Table(n, V)
  <2>1. [i \in 0 .. n - 1 |-> Free] \in [0 .. n - 1 -> Record(V)]
    BY <1>3
  <2> QED BY <1>2, <2>1 DEF Table
<1>5. new.used = 0 /\ new.freed = freed /\ DOMAIN new.records = 0 .. n - 1
  BY <1>2
<1>6. \A i \in DOMAIN new.records : new.records[i] = Free
  BY <1>2
<1>7. Taken(new) = {} /\ Records(new) = {}
  BY <1>3, <1>6 DEF Taken, Records
<1>8. Counted(new)
  BY <1>5, <1>7, FS_EmptySet DEF Counted
<1>9. Chained(new) /\ Content(new) = {}
  BY <1>7 DEF Chained, Content
<1> QED BY <1>1, <1>4, <1>5, <1>8, <1>9

\* The table after some rounds: it has room for the rest, and holds the records
\* so far if they could be found.
MovesTo(m, n, V, i, new) ==
    /\ new \in Table(2 * n, V)
    /\ Counted(new)
    /\ new.used <= i

Refilled(m, i, new) ==
    /\ Chained(new)
    /\ Content(new) = {m.records[j] : j \in {q \in Records(m) : q < i}}
    /\ new.freed = m.freed

LEMMA MoveRound ==
  ASSUME NEW n \in Nat \ {0}, NEW V, NEW m \in Table(n, V), NEW i \in 0 .. n - 1,
         NEW new, MovesTo(m, n, V, i, new)
  PROVE  /\ MovesTo(m, n, V, i + 1, Move(new, m.records[i]))
         /\ Chained(m) /\ Refilled(m, i, new)
              => Refilled(m, i + 1, Move(new, m.records[i]))
<1>1. PICK r : r = m.records[i]
  OBVIOUS
<1>2. DOMAIN m.records = 0 .. n - 1 /\ m.used \in Nat /\ r \in Record(V)
  BY <1>1 DEF Table
<1>3. PICK N \in Nat \ {0} : N = 2 * n
  OBVIOUS
<1>4. new \in Table(N, V) /\ Counted(new) /\ new.used <= i /\ new.used \in Nat
  BY <1>3 DEF MovesTo, Table
<1>5. CASE r.hash = 0
  <2>1. Move(new, r) = new
    BY <1>5 DEF Move
  <2>2. {q \in Records(m) : q < i + 1} = {q \in Records(m) : q < i}
    <3>1. i \notin Records(m)
      BY <1>1, <1>5 DEF Records
    <3>2. \A q \in 0 .. n - 1 : q < i + 1 => q = i \/ q < i
      OBVIOUS
    <3>3. \A q \in 0 .. n - 1 : q < i => q < i + 1
      OBVIOUS
    <3>4. Records(m) \subseteq 0 .. n - 1
      BY <1>2 DEF Records
    <3> QED BY <3>1, <3>2, <3>3, <3>4
  <2>3. new.used <= i + 1
    BY <1>4
  <2> QED BY <1>1, <1>3, <1>4, <2>1, <2>2, <2>3 DEF MovesTo, Refilled
<1>6. CASE r.hash # 0
  <2>1. PICK fit : fit = SetNoResize(new, r)
    OBVIOUS
  <2>2. Move(new, r) = fit
    BY <1>6, <2>1 DEF Move
  <2>3. new.used < N
    BY <1>3, <1>4
  <2>4. /\ fit \in Table(N, V)
        /\ Counted(fit)
        /\ fit.used \in new.used .. new.used + 1
        /\ \E d : Placed(new, fit, r, d)
    BY <1>2, <1>4, <2>1, <2>3, SetFits
  <2>5. fit.used <= i + 1
    BY <1>4, <2>4
  <2>6. ASSUME Chained(m), Refilled(m, i, new)
        PROVE  Refilled(m, i + 1, fit)
    <3>1. PICK d : Placed(new, fit, r, d)
      BY <2>4
    <3>2. Chained(new) /\ new.freed = m.freed
          /\ Content(new) = {m.records[j] : j \in {q \in Records(m) : q < i}}
      BY <2>6 DEF Refilled
    <3>3. i \in Records(m)
      BY <1>1, <1>2, <1>6 DEF Records
    <3>4. \A s \in Content(new) : ~Same(s, r)
      <4> SUFFICES ASSUME NEW s \in Content(new), Same(s, r) PROVE FALSE
        OBVIOUS
      <4>1. PICK j \in Records(m) : j < i /\ s = m.records[j]
        BY <3>2
      <4>2. j = i
        BY <1>1, <1>2, <2>6, <3>3, <4>1, OneOfAKey
      <4> QED BY <4>1, <4>2
    <3>5. Chained(fit)
      BY <1>2, <1>4, <2>4, <3>1, <3>2, PutChained
    <3>6. fit.freed = m.freed
      BY <1>4, <3>1, <3>2, <3>4, PutFrees
    <3>7. Content(fit) = {s \in Content(new) : ~Same(s, r)} \cup {r}
      BY <1>2, <1>4, <1>6, <2>4, <3>1, <3>2, PutContent
    <3>8. Content(fit) = Content(new) \cup {r}
      BY <3>4, <3>7
    <3>9. {q \in Records(m) : q < i + 1} = {q \in Records(m) : q < i} \cup {i}
      <4>1. \A q \in 0 .. n - 1 : q < i + 1 <=> q = i \/ q < i
        OBVIOUS
      <4>2. Records(m) \subseteq 0 .. n - 1
        BY <1>2 DEF Records
      <4> QED BY <3>3, <4>1, <4>2
    <3>10. Content(fit) = {m.records[j] : j \in {q \in Records(m) : q < i + 1}}
      BY <1>1, <3>2, <3>8, <3>9
    <3> QED BY <3>5, <3>6, <3>10 DEF Refilled
  <2> QED BY <1>1, <1>3, <2>2, <2>4, <2>5, <2>6 DEF MovesTo
<1> QED BY <1>5, <1>6

\* All rounds, by the first that would be wrong.
LEMMA MovesAll ==
  ASSUME NEW n \in Nat \ {0}, NEW V, NULL \in V, NEW m \in Table(n, V)
  PROVE  \A i \in 0 .. n : /\ MovesTo(m, n, V, i, Moved(m)[i])
                           /\ Chained(m) => Refilled(m, i, Moved(m)[i])
<1> DEFINE Right(i) == /\ MovesTo(m, n, V, i, Moved(m)[i])
                       /\ Chained(m) => Refilled(m, i, Moved(m)[i])
           Wrong == {i \in 0 .. n : ~Right(i)}
<1>1. Right(0)
  <2>1. PICK new : new = Moved(m)[0]
    OBVIOUS
  <2>2. PICK N \in Nat \ {0} : N = 2 * n
    OBVIOUS
  <2>3. m.freed \in Seq(V)
    BY DEF Table
  <2>4. new = Reset(N, m.freed)
    BY <2>1, <2>2, MovedRounds
  <2>5. /\ new \in Table(N, V)
        /\ Counted(new)
        /\ new.used = 0
        /\ new.freed = m.freed
        /\ Chained(new)
        /\ Content(new) = {}
    BY <2>3, <2>4, ResetEmpty
  <2>6. \A q \in Records(m) : ~(q < 0)
    <3>1. Records(m) \subseteq 0 .. n - 1
      BY DEF Records, Table
    <3> QED BY <3>1
  <2>7. {q \in Records(m) : q < 0} = {}
    BY <2>6
  <2>8. Refilled(m, 0, new)
    BY <2>5, <2>7 DEF Refilled
  <2> QED BY <2>1, <2>2, <2>5, <2>8 DEF MovesTo
<1>2. ASSUME NEW i \in 0 .. n - 1, Right(i)
      PROVE  Right(i + 1)
  <2>1. i + 1 \in 1 .. n /\ (i + 1) - 1 = i
    OBVIOUS
  <2>2. Moved(m)[i + 1] = Move(Moved(m)[i], m.records[i])
    BY <2>1, MovedRounds
  <2>3. MovesTo(m, n, V, i, Moved(m)[i])
    BY <1>2
  <2>4. PICK new : new = Moved(m)[i]
    OBVIOUS
  <2>5. /\ MovesTo(m, n, V, i + 1, Move(new, m.records[i]))
        /\ Chained(m) /\ Refilled(m, i, new)
             => Refilled(m, i + 1, Move(new, m.records[i]))
    BY <2>3, <2>4, MoveRound
  <2> QED BY <1>2, <2>2, <2>4, <2>5, Zenon
<1>3. Wrong = {}
  <2> HIDE DEF Right
  <2> SUFFICES ASSUME Wrong # {} PROVE FALSE
    OBVIOUS
  <2>1. Wrong \subseteq Nat
    OBVIOUS
  <2>2. PICK k \in Wrong : \A i \in Wrong : k <= i
    BY <2>1, MinLeast, Zenon
  <2>3. k \in 0 .. n /\ ~Right(k)
    BY <2>2
  <2>4. k # 0
    BY <1>1, <2>3
  <2>5. k - 1 \in 0 .. n - 1 /\ (k - 1) + 1 = k /\ ~(k <= k - 1) /\ k - 1 \in 0 .. n
    BY <2>3, <2>4
  <2>6. Right(k - 1)
    BY <2>2, <2>5
  <2>7. Right((k - 1) + 1)
    BY <1>2, <2>5, <2>6
  <2> QED BY <2>3, <2>5, <2>7
<1>4. \A i \in 0 .. n : Right(i)
  <2> HIDE DEF Right
  <2> QED BY <1>3
<1> QED BY <1>4

\* A table that is doubled has room for every record of the old one, holds the
\* same ones, each where the probes for it get to, and nothing is freed.
LEMMA ResizeKeeps ==
  ASSUME NEW n \in Nat \ {0}, NEW V, NULL \in V, NEW m \in Table(n, V)
  PROVE  /\ Resize(m) \in Table(2 * n, V)
         /\ Counted(Resize(m))
         /\ Resize(m).used <= n
         /\ Chained(m) => /\ Chained(Resize(m))
                          /\ Content(Resize(m)) = Content(m)
                          /\ Resize(m).freed = m.freed
<1>1. Resize(m) = Moved(m)[n]
  BY SizeOfTable DEF Resize
<1>2. n \in 0 .. n
  OBVIOUS
<1>3. /\ MovesTo(m, n, V, n, Moved(m)[n])
      /\ Chained(m) => Refilled(m, n, Moved(m)[n])
  BY <1>2, MovesAll
<1>4. {q \in Records(m) : q < n} = Records(m)
  <2>1. Records(m) \subseteq 0 .. n - 1
    BY DEF Records, Table
  <2>2. \A q \in 0 .. n - 1 : q < n
    OBVIOUS
  <2> QED BY <2>1, <2>2
<1>5. Chained(m) => Content(Moved(m)[n]) = Content(m)
  BY <1>3, <1>4 DEF Refilled, Content
<1> QED BY <1>1, <1>3, <1>5, Zenon DEF MovesTo, Refilled

-----------------------------------------------------------------------------
(* The operations *)

\* A poolmap_t: a table that is not empty, whose count is not too low.
Map(m, V) == \E n \in Nat \ {0} : m \in Table(n, V) /\ Counted(m)

\* After the head of pmap_set_ a record is free, and the rest is as it was.
LEMMA RoomFits ==
  ASSUME NEW V, NULL \in V, NEW m, Map(m, V)
  PROVE  \E n \in Nat \ {0} :
           /\ Room(m) \in Table(n, V)
           /\ Counted(Room(m))
           /\ Room(m).used < n
           /\ Chained(m) => /\ Chained(Room(m))
                            /\ Content(Room(m)) = Content(m)
                            /\ Room(m).freed = m.freed
<1>1. PICK n \in Nat \ {0} : m \in Table(n, V) /\ Counted(m)
  BY DEF Map
<1>2. RecordSize(m) = n
  BY <1>1, SizeOfTable
<1>3. m.used \in Nat
  BY <1>1 DEF Table
<1>4. (n * 3) \div 4 < n
  OBVIOUS
<1>5. CASE m.used > (n * 3) \div 4
  <2>1. Room(m) = Resize(m)
    BY <1>2, <1>5 DEF Room
  <2>2. PICK new : new = Resize(m)
    OBVIOUS
  <2>3. PICK N \in Nat \ {0} : N = 2 * n
    OBVIOUS
  <2>4. /\ new \in Table(N, V)
        /\ Counted(new)
        /\ new.used <= n
        /\ Chained(m) => /\ Chained(new)
                         /\ Content(new) = Content(m)
                         /\ new.freed = m.freed
    BY <1>1, <2>2, <2>3, ResizeKeeps
  <2>5. new.used < N
    <3>1. new.used \in Nat
      BY <2>4 DEF Table
    <3> QED BY <2>3, <2>4, <3>1
  <2> QED BY <2>1, <2>2, <2>3, <2>4, <2>5
<1>6. CASE ~(m.used > (n * 3) \div 4)
  <2>1. Room(m) = m
    BY <1>2, <1>6 DEF Room
  <2>2. m.used < n
    BY <1>3, <1>4, <1>6
  <2> QED BY <1>1, <2>1, <2>2
<1> QED BY <1>5, <1>6

\* The assert(0) of pmap_set_no_resize is not reached, whatever is set.
THEOREM AlwaysPlaceable ==
  ASSUME NEW V, NULL \in V, NEW m, Map(m, V), NEW rec, rec.hash \in Nat
  PROVE  Stops(Room(m), rec) # {}
<1>1. PICK room : room = Room(m)
  OBVIOUS
<1>2. PICK n \in Nat \ {0} :
        room \in Table(n, V) /\ Counted(room) /\ room.used < n
  BY <1>1, RoomFits
<1>3. Stops(room, rec) # {}
  BY <1>2, SomeStop
<1> QED BY <1>1, <1>3

\* poolmap_set: what was under the key is replaced and freed, also if it has to
\* make room; the other records stay.
THEOREM SetReplaces ==
  ASSUME NEW V, NULL \in V, NEW m, Map(m, V), NEW rec \in Record(V)
  PROVE  LET new == PoolmapSet(m, rec)
         IN  /\ Map(new, V)
             /\ Chained(m) =>
                  /\ Chained(new)
                  /\ Content(new) = IF rec.hash = 0 THEN Content(m)
                                    ELSE {r \in Content(m) : ~Same(r, rec)} \cup {rec}
                  /\ (\A r \in Content(m) : ~Same(r, rec)) => new.freed = m.freed
                  /\ \A r \in Content(m) :
                       Same(r, rec) => new.freed = Append(m.freed, r.v)
<1>1. PICK room : room = Room(m)
  OBVIOUS
<1>2. PICK n \in Nat \ {0} :
        /\ room \in Table(n, V) /\ Counted(room) /\ room.used < n
        /\ Chained(m) => /\ Chained(room)
                         /\ Content(room) = Content(m)
                         /\ room.freed = m.freed
  BY <1>1, RoomFits
<1>3. PICK new : new = SetNoResize(room, rec)
  OBVIOUS
<1>4. /\ new \in Table(n, V)
      /\ Counted(new)
      /\ new.used \in room.used .. room.used + 1
      /\ \E d : Placed(room, new, rec, d)
  BY <1>2, <1>3, SetFits
<1>5. PICK d : Placed(room, new, rec, d)
  BY <1>4
<1>6. Map(new, V)
  BY <1>4 DEF Map
<1>7. ASSUME Chained(m)
      PROVE  /\ Chained(new)
             /\ Content(new) = IF rec.hash = 0 THEN Content(m)
                               ELSE {r \in Content(m) : ~Same(r, rec)} \cup {rec}
             /\ (\A r \in Content(m) : ~Same(r, rec)) => new.freed = m.freed
             /\ \A r \in Content(m) : Same(r, rec) => new.freed = Append(m.freed, r.v)
  <2>1. Chained(room) /\ Content(room) = Content(m) /\ room.freed = m.freed
    BY <1>2, <1>7
  <2>2. room.used \in Nat
    BY <1>2 DEF Table
  <2>3. Chained(new)
    BY <1>2, <1>4, <1>5, <2>1, PutChained
  <2>4. Content(new) = IF rec.hash = 0 THEN Content(room)
                       ELSE {r \in Content(room) : ~Same(r, rec)} \cup {rec}
    BY <1>2, <1>4, <1>5, <2>1, PutContent
  <2>5. /\ (\A r \in Content(room) : ~Same(r, rec)) => new.freed = room.freed
        /\ \A r \in Content(room) : Same(r, rec) => new.freed = Append(room.freed, r.v)
    BY <1>5, <2>1, <2>2, PutFrees
  <2> QED BY <2>1, <2>3, <2>4, <2>5
<1>8. PoolmapSet(m, rec) = new
  BY <1>1, <1>3 DEF PoolmapSet
<1> QED BY <1>6, <1>7, <1>8

\* poolmap_get: it finds the record of a key, wherever it lies, and no other.
THEOREM GetFinds ==
  ASSUME NEW V, NEW m, Map(m, V), Chained(m),
         NEW key, key.hash \in Nat \ {0}
  PROVE  /\ (\A r \in Content(m) : ~Same(r, key)) => PoolmapGet(m, key) = NULL
         /\ \A r \in Content(m) : Same(r, key) => PoolmapGet(m, key) = r.v
<1>1. PICK n \in Nat \ {0} : m \in Table(n, V)
  BY DEF Map
<1>2. m.used \in Nat /\ DOMAIN m.records = 0 .. n - 1
  BY <1>1 DEF Table
<1>3. ASSUME \A r \in Content(m) : ~Same(r, key)
      PROVE  PoolmapGet(m, key) = NULL
  <2>1. ASSUME NEW i \in 0 .. m.used, Same(m.records[At(m, key.hash, i)], key)
        PROVE  FALSE
    <3>1. At(m, key.hash, i) \in 0 .. n - 1
      <4>1. i \in Nat /\ key.hash \in Nat
        BY <1>2
      <4> QED BY <1>1, <4>1, Probed
    <3>2. m.records[At(m, key.hash, i)].hash # 0
      BY <2>1 DEF Same
    <3> QED BY <1>2, <1>3, <2>1, <3>1, <3>2 DEF Content, Records
  <2>2. Hits(m, key) = {}
    BY <2>1 DEF Hits
  <2> QED BY <2>2 DEF PoolmapGet
<1>4. ASSUME NEW r \in Content(m), Same(r, key)
      PROVE  PoolmapGet(m, key) = r.v
  <2>1. PICK p \in Records(m) : r = m.records[p]
    BY DEF Content
  <2>2. PICK e \in 0 .. m.used : Reached(m, p, e)
    BY DEF Chained
  <2>3. r.hash = key.hash
    BY <1>4 DEF Same
  <2>4. At(m, key.hash, e) = p
    BY <2>1, <2>2, <2>3 DEF Reached
  <2>5. \A i \in 0 .. e - 1 : ~Same(m.records[At(m, key.hash, i)], key)
    BY <1>4, <2>1, <2>2, <2>3 DEF Reached, Same
  <2>6. e \in Hits(m, key)
    BY <1>4, <2>1, <2>4 DEF Hits
  <2>7. \A i \in Hits(m, key) : e <= i
    BY <1>2, <2>5 DEF Hits
  <2>8. PICK h : h = Hits(m, key)
    OBVIOUS
  <2>9. h \subseteq Nat /\ h # {}
    BY <1>2, <2>6, <2>8 DEF Hits
  <2>10. Min(h) \in h /\ \A i \in h : Min(h) <= i
    BY <2>9, MinLeast
  <2>11. Min(h) = e
    BY <2>6, <2>7, <2>8, <2>9, <2>10
  <2>12. PoolmapGet(m, key) = m.records[At(m, key.hash, Min(h))].v
    BY <2>8, <2>9 DEF PoolmapGet
  <2> QED BY <2>1, <2>4, <2>11, <2>12
<1> QED BY <1>3, <1>4

\* poolmap_remove: used_size is lowered with the number of keys only, so that the
\* map can still be set; a record with both hashes 0 would look like a free one.
THEOREM RemoveFits ==
  ASSUME NEW V, NEW m, Map(m, V), NEW key,
         key.hash \in Nat, key.k \in Nat, key.hash # 0 \/ key.k # 0
  PROVE  Map(PoolmapRemove(m, key), V)
<1>1. PICK n \in Nat \ {0} : m \in Table(n, V) /\ Counted(m)
  BY DEF Map
<1>2. m.used \in Nat /\ DOMAIN m.records = 0 .. n - 1
  BY <1>1 DEF Table
<1>3. CASE Hits(m, key) = {}
  BY <1>3 DEF PoolmapRemove
<1>4. CASE Hits(m, key) # {}
  <2>1. PICK h : h = Hits(m, key)
    OBVIOUS
  <2>2. h \subseteq Nat /\ h # {}
    BY <1>2, <1>4, <2>1 DEF Hits
  <2>3. Min(h) \in h
    BY <2>2, MinLeast
  <2>4. PICK i \in Nat : i = Min(h) /\ i \in Hits(m, key)
    BY <2>1, <2>2, <2>3
  <2>5. PICK p : p = At(m, key.hash, i)
    OBVIOUS
  <2>6. p \in 0 .. n - 1
    BY <1>1, <2>5, Probed
  <2>7. Same(m.records[p], key)
    BY <2>4, <2>5 DEF Hits
  <2>8. PICK new : new = PoolmapRemove(m, key)
    OBVIOUS
  <2>9. new = [m EXCEPT !.records[p].hash = 0, !.records[p].k = 0, !.used = @ - 1]
    BY <1>4, <2>1, <2>4, <2>5, <2>8, Zenon DEF PoolmapRemove
  <2>10. PICK r : r = m.records[p]
    OBVIOUS
  <2>11. r \in Record(V)
    BY <1>1, <2>6, <2>10 DEF Table
  <2>12. new.records = [m.records EXCEPT ![p] = [hash |-> 0, k |-> 0, v |-> r.v]]
    <3>1. new.records = [m.records EXCEPT ![p].hash = 0, ![p].k = 0]
      BY <1>1, <2>9 DEF Table
    <3>2. new.records = [m.records EXCEPT ![p] = [r EXCEPT !.hash = 0, !.k = 0]]
      BY <1>2, <2>6, <2>10, <3>1
    <3>3. [r EXCEPT !.hash = 0, !.k = 0] = [hash |-> 0, k |-> 0, v |-> r.v]
      <4>1. PICK s : s = [r EXCEPT !.hash = 0]
        OBVIOUS
      <4>2. s = [hash |-> 0, k |-> r.k, v |-> r.v]
        BY <2>11, <4>1 DEF Record
      <4>3. [s EXCEPT !.k = 0] = [hash |-> 0, k |-> 0, v |-> r.v]
        BY <4>2
      <4>4. [r EXCEPT !.hash = 0, !.k = 0] = [s EXCEPT !.k = 0]
        BY <4>1
      <4> QED BY <4>3, <4>4
    <3> QED BY <3>2, <3>3
  <2>13. new.used = m.used - 1 /\ new.freed = m.freed
    BY <1>1, <2>9 DEF Table
  <2>14. IsFiniteSet(Taken(m)) /\ p \in Taken(m)
    <3>1. IsFiniteSet(0 .. n - 1) /\ Taken(m) \subseteq 0 .. n - 1
      BY <1>2, FS_Interval DEF Taken
    <3>2. p \in Taken(m)
      BY <1>2, <2>6, <2>7 DEF Taken, Same
    <3> QED BY <3>1, <3>2, FS_Subset
  <2>15. Taken(new) = Taken(m) \ {p}
    BY <1>2, <2>6, <2>12 DEF Taken
  <2>16. /\ Cardinality(Taken(new)) = Cardinality(Taken(m)) - 1
         /\ Cardinality(Taken(m)) \in Nat
         /\ Cardinality(Taken(new)) \in Nat
    <3>1. IsFiniteSet(Taken(m) \ {p}) /\
          Cardinality(Taken(m) \ {p}) = IF p \in Taken(m) THEN Cardinality(Taken(m)) - 1
                                        ELSE Cardinality(Taken(m))
      BY <2>14, FS_RemoveElement
    <3> QED BY <2>14, <2>15, <3>1, FS_CardinalityType
  <2>17. Counted(new) /\ new.used \in Nat
    BY <1>1, <1>2, <2>13, <2>16 DEF Counted
  <2>18. new \in Table(n, V)
    <3> DEFINE rs == [m.records EXCEPT ![p] = [hash |-> 0, k |-> 0, v |-> r.v]]
    <3>1. rs \in [0 .. n - 1 -> Record(V)]
      BY <1>1, <2>11 DEF Table, Record
    <3>2. new = [records |-> new.records, used |-> new.used, freed |-> new.freed]
      BY <1>1, <2>9 DEF Table
    <3>3. m.freed \in Seq(V)
      BY <1>1 DEF Table
    <3>4. \A a \in [0 .. n - 1 -> Record(V)], b \in Nat, c \in Seq(V) :
            [records |-> a, used |-> b, freed |-> c] \in Table(n, V)
      BY DEF Table
    <3>5. new.records \in [0 .. n - 1 -> Record(V)] /\ new.freed \in Seq(V)
      BY <2>12, <2>13, <3>1, <3>3
    <3> QED BY <2>17, <3>2, <3>4, <3>5, Zenon
  <2> QED BY <2>8, <2>17, <2>18 DEF Map
<1> QED BY <1>3, <1>4

-----------------------------------------------------------------------------
(* Any caller *)

Value == Nat \cup {NULL}

\* The map has what was last set for each of the keys that can be found.
LastHeld ==
    \A key \in CallKey :
      CallHash[key].hash # 0 =>
        \/ CallRec(key, last[key]) \in Content(table)
        \/ /\ last[key] = NULL
           /\ \A r \in Content(table) : ~Same(r, CallHash[key])

CallInv == /\ Map(table, Value)
           /\ last \in [CallKey -> Value]
           /\ sets \in Nat /\ removes \in Nat
           /\ removes = 0 => Chained(table) /\ LastHeld

LEMMA Hashes ==
  ASSUME NEW key \in CallKey
  PROVE  /\ CallHash[key].hash \in Nat
         /\ CallHash[key].k \in Nat
         /\ \A v \in Value : CallRec(key, v) \in Record(Value)
         /\ \A v : CallRec(key, v).hash = CallHash[key].hash
                   /\ CallRec(key, v).k = CallHash[key].k
                   /\ CallRec(key, v).v = v
                   /\ Same(CallRec(key, v), CallHash[key])
<1>1. CallHash[key] \in [hash : Nat, k : Nat]
  BY CallHashAssumption
<1>2. CallHash[key].hash \in Nat /\ CallHash[key].k \in Nat
  BY <1>1
<1>3. \A v : CallRec(key, v) = [hash |-> CallHash[key].hash, k |-> CallHash[key].k, v |-> v]
  BY DEF CallRec
<1>4. \A v : CallRec(key, v).hash = CallHash[key].hash
             /\ CallRec(key, v).k = CallHash[key].k
             /\ CallRec(key, v).v = v
  BY <1>3
<1>5. \A v \in Value : CallRec(key, v) \in Record(Value)
  BY <1>2, <1>3 DEF Record
<1>6. \A v : Same(CallRec(key, v), CallHash[key])
  BY <1>4 DEF Same
<1> QED BY <1>2, <1>4, <1>5, <1>6

\* The records of two keys are not the same one to the map.
LEMMA Different ==
  ASSUME NEW key \in CallKey, NEW other \in CallKey, key # other, NEW v
  PROVE  ~Same(CallRec(other, v), CallHash[key])
<1>1. CallHash[key] \in [hash : Nat, k : Nat] /\ CallHash[other] \in [hash : Nat, k : Nat]
  BY CallHashAssumption
<1>2. CallHash[key] # CallHash[other]
  BY DistinctAssumption
<1>3. CallHash[key].hash # CallHash[other].hash \/ CallHash[key].k # CallHash[other].k
  BY <1>1, <1>2
<1> QED BY <1>3, Hashes DEF Same

LEMMA CallInitInv == CallInit => CallInv
<1> SUFFICES ASSUME CallInit PROVE CallInv
  OBVIOUS
<1>1. /\ 4 \in Nat \ {0}
      /\ <<>> \in Seq(Value)
      /\ NULL \in Value
  BY DEF Value
<1>2. PICK new : new = Reset(4, <<>>)
  OBVIOUS
<1>3. new \in Table(4, Value) /\ Counted(new) /\ Chained(new) /\ Content(new) = {}
  BY <1>1, <1>2, ResetEmpty
<1>4. table = new
  BY <1>2 DEF CallInit, PoolmapNew
<1>5. last = [key \in CallKey |-> NULL] /\ sets = 0 /\ removes = 0
  BY DEF CallInit
<1>6. Map(table, Value)
  BY <1>1, <1>3, <1>4 DEF Map
<1>7. LastHeld
  BY <1>3, <1>4, <1>5 DEF LastHeld
<1> QED BY <1>1, <1>3, <1>4, <1>5, <1>6, <1>7 DEF CallInv

LEMMA SetKeyInv ==
  ASSUME CallInv, NEW key \in CallKey, SetKey(key)
  PROVE  CallInv'
<1>1. PICK v \in Nat : v = sets + 1
  BY DEF CallInv
<1>2. PICK rec : rec = CallRec(key, v)
  OBVIOUS
<1>3. v \in Value /\ NULL \in Value
  BY DEF Value
<1>4. rec \in Record(Value) /\ rec.hash = CallHash[key].hash
  BY <1>2, <1>3, Hashes
<1>5. PICK new : new = PoolmapSet(table, rec)
  OBVIOUS
<1>6. /\ table' = new
      /\ last' = [last EXCEPT ![key] = v]
      /\ sets' = v
      /\ removes' = removes
  BY <1>1, <1>2, <1>5 DEF SetKey
<1>7. /\ Map(new, Value)
      /\ Chained(table) =>
           /\ Chained(new)
           /\ Content(new) = IF rec.hash = 0 THEN Content(table)
                             ELSE {r \in Content(table) : ~Same(r, rec)} \cup {rec}
  BY <1>3, <1>4, <1>5, SetReplaces DEF CallInv
<1>8. last' \in [CallKey -> Value]
  BY <1>3, <1>6 DEF CallInv
<1>9. ASSUME removes' = 0
      PROVE  Chained(new) /\ LastHeld'
  <2>1. Chained(table) /\ LastHeld
    BY <1>6, <1>9 DEF CallInv
  <2>2. Content(new) = IF rec.hash = 0 THEN Content(table)
                       ELSE {r \in Content(table) : ~Same(r, rec)} \cup {rec}
    BY <1>7, <2>1
  <2>3. ASSUME NEW other \in CallKey, CallHash[other].hash # 0
        PROVE  \/ CallRec(other, last'[other]) \in Content(new)
               \/ /\ last'[other] = NULL
                  /\ \A r \in Content(new) : ~Same(r, CallHash[other])
    <3>1. CASE other = key
      <4>1. last'[other] = v
        BY <1>6, <3>1 DEF CallInv
      <4>2. rec \in Content(new)
        BY <1>4, <2>2, <2>3, <3>1
      <4> QED BY <1>2, <3>1, <4>1, <4>2
    <3>2. CASE other # key
      <4>1. PICK l : l = last[other]
        OBVIOUS
      <4>2. last'[other] = l
        BY <1>6, <3>2, <4>1 DEF CallInv
      <4>3. ~Same(rec, CallHash[other])
        BY <1>2, <3>2, Different
      <4>4. CASE CallRec(other, l) \in Content(table)
        <5>1. ~Same(CallRec(other, l), rec)
          BY <4>3, Hashes DEF Same
        <5> QED BY <2>2, <4>2, <4>4, <5>1
      <4>5. CASE l = NULL /\ \A r \in Content(table) : ~Same(r, CallHash[other])
        <5>1. \A r \in Content(new) : r = rec \/ r \in Content(table)
          BY <2>2
        <5> QED BY <4>2, <4>3, <4>5, <5>1
      <4> QED BY <2>1, <2>3, <4>1, <4>4, <4>5 DEF LastHeld
    <3> QED BY <3>1, <3>2
  <2> QED BY <1>6, <1>7, <2>1, <2>3 DEF LastHeld
<1> QED BY <1>6, <1>7, <1>8, <1>9 DEF CallInv

LEMMA RemoveKeyInv ==
  ASSUME CallInv, NEW key \in CallKey, RemoveKey(key)
  PROVE  CallInv'
<1>1. MaxRemoves \in Nat \ {0} /\ removes \in Nat /\ removes' = removes + 1
  BY CallBoundAssumption DEF CallInv, RemoveKey
<1>2. PICK h : h = CallHash[key]
  OBVIOUS
<1>3. h.hash \in Nat /\ h.k \in Nat
  BY <1>2, Hashes
<1>4. h.hash # 0 \/ h.k # 0
  BY <1>1, <1>2, RemoveAssumption
<1>5. PICK new : new = PoolmapRemove(table, h)
  OBVIOUS
<1>6. Map(new, Value)
  BY <1>3, <1>4, <1>5, RemoveFits DEF CallInv
<1>7. table' = new /\ last' = [last EXCEPT ![key] = NULL] /\ sets' = sets
  BY <1>2, <1>5 DEF RemoveKey
<1>8. last' \in [CallKey -> Value]
  BY <1>7 DEF CallInv, Value
<1> QED BY <1>1, <1>6, <1>7, <1>8 DEF CallInv

\* What CallInv is for: it says both properties.
LEMMA CallInvShows == CallInv => CallPlaceable /\ GetsLast
<1> SUFFICES ASSUME CallInv PROVE CallPlaceable /\ GetsLast
  OBVIOUS
<1>1. ASSUME NEW key \in CallKey
      PROVE  Stops(Room(table), CallRec(key, NULL)) # {}
  <2>1. PICK rec : rec = CallRec(key, NULL)
    OBVIOUS
  <2>2. rec.hash \in Nat /\ NULL \in Value
    BY <2>1, Hashes DEF Value
  <2>3. Stops(Room(table), rec) # {}
    BY <2>2, AlwaysPlaceable DEF CallInv
  <2> QED BY <2>1, <2>3
<1>2. ASSUME removes = 0, NEW key \in CallKey, CallHash[key].hash # 0
      PROVE  PoolmapGet(table, CallHash[key]) = last[key]
  <2>1. PICK h : h = CallHash[key]
    OBVIOUS
  <2>2. h.hash \in Nat \ {0}
    BY <1>2, <2>1, Hashes
  <2>3. /\ (\A r \in Content(table) : ~Same(r, h)) => PoolmapGet(table, h) = NULL
        /\ \A r \in Content(table) : Same(r, h) => PoolmapGet(table, h) = r.v
    BY <1>2, <2>2, GetFinds DEF CallInv
  <2>4. CASE CallRec(key, last[key]) \in Content(table)
    <3>1. PICK r \in Content(table) : r = CallRec(key, last[key])
      BY <2>4
    <3>2. Same(r, h) /\ r.v = last[key]
      BY <2>1, <3>1, Hashes
    <3> QED BY <2>1, <2>3, <3>1, <3>2
  <2>5. CASE last[key] = NULL /\ \A r \in Content(table) : ~Same(r, h)
    BY <2>1, <2>3, <2>5
  <2> QED BY <1>2, <2>1, <2>4, <2>5 DEF CallInv, LastHeld
<1> QED BY <1>1, <1>2 DEF CallPlaceable, GetsLast

LEMMA CallNextInvariant ==
  ASSUME CallInv, [CallNext]_callVars
  PROVE  CallInv'
<1>1. ASSUME NEW key \in CallKey, SetKey(key) PROVE CallInv'
  BY <1>1, SetKeyInv
<1>2. ASSUME NEW key \in CallKey, RemoveKey(key) PROVE CallInv'
  BY <1>2, RemoveKeyInv
<1>3. CASE UNCHANGED callVars
  BY <1>3 DEF callVars, CallInv, LastHeld
<1> QED BY <1>1, <1>2, <1>3 DEF CallNext

LEMMA CallInvariant == CallSpec => []CallInv
<1>1. CallInv /\ [CallNext]_callVars => CallInv'
  BY CallNextInvariant
<1> QED BY CallInitInv, <1>1, PTL DEF CallSpec

\* For every set of keys and hashes and any number of calls, a record is always
\* placed.
THEOREM PlacedAlways == CallSpec => []CallPlaceable
<1>1. CallInv => CallPlaceable
  BY CallInvShows
<1> QED BY CallInvariant, <1>1, PTL

\* ... and poolmap_get finds what was last set.
THEOREM FoundAlways == CallSpec => []GetsLast
<1>1. CallInv => GetsLast
  BY CallInvShows
<1> QED BY CallInvariant, <1>1, PTL

Vals == UNION {{log[i].val : i \in DOMAIN log} : log \in Logs}

\* What a record of the React's map may have as its v.
Refer == {NULL} \cup [e : Nat, val : Vals]

\* The record for the field p.
RecAt(logs, p) == RecOf(logs[p[1]], p[1], p[2])

-----------------------------------------------------------------------------
(* The logs so far *)

LEMMA PlaceShape ==
  ASSUME NEW logs \in Seq(Logs), NEW p
  PROVE  p \in Places(logs) <=> /\ p = <<p[1], p[2]>>
                                /\ p[1] \in 1 .. Len(logs)
                                /\ p[2] \in 1 .. Len(logs[p[1]])
                                /\ TraceOf(logs[p[1]]) = Trace
<1>1. \A m \in 1 .. Len(logs) : DOMAIN logs[m] = 1 .. Len(logs[m])
  BY LogsAssumption
<1> QED BY <1>1 DEF Places

\* Every field makes a record that the map can keep.
LEMMA RecShape ==
  ASSUME NEW log \in Logs, NEW e \in Nat, NEW i \in 1 .. Len(log)
  PROVE  /\ RecOf(log, e, i) \in Record(Refer)
         /\ RecOf(log, e, i).hash = HashOf[log[i].key].hash
         /\ RecOf(log, e, i).hash # 0
         /\ RecOf(log, e, i).k = HashOf[log[i].key].k
         /\ RecOf(log, e, i).v = [e |-> e, val |-> log[i].val]
         /\ log[i].key \in Key
<1>1. i \in DOMAIN log /\ log[i].key \in Key
  BY LogsAssumption
<1>2. HashOf[log[i].key] \in [hash : Nat, k : Nat] /\ HashOf[log[i].key].hash # 0
  BY <1>1, HashAssumption, KeyAssumption
<1>3. log[i].val \in Vals
  BY <1>1 DEF Vals
<1>4. [e |-> e, val |-> log[i].val] \in Refer
  BY <1>3 DEF Refer
<1>5. RecOf(log, e, i) = [hash |-> HashOf[log[i].key].hash, k |-> HashOf[log[i].key].k,
                          v |-> [e |-> e, val |-> log[i].val]]
  BY DEF RecOf
<1>6. HashOf[log[i].key].hash \in Nat /\ HashOf[log[i].key].k \in Nat
  BY <1>2
<1>7. RecOf(log, e, i) \in Record(Refer)
  BY <1>4, <1>5, <1>6 DEF Record
<1> QED BY <1>1, <1>2, <1>5, <1>7

LEMMA PlaceRec ==
  ASSUME NEW logs \in Seq(Logs), NEW p \in Places(logs)
  PROVE  /\ RecAt(logs, p) \in Record(Refer)
         /\ RecAt(logs, p).hash = HashOf[FieldAt(logs, p).key].hash
         /\ RecAt(logs, p).hash # 0
         /\ RecAt(logs, p).k = HashOf[FieldAt(logs, p).key].k
         /\ RecAt(logs, p).v = [e |-> p[1], val |-> FieldAt(logs, p).val]
         /\ FieldAt(logs, p).key \in Key
<1>1. p[1] \in 1 .. Len(logs) /\ p[2] \in 1 .. Len(logs[p[1]])
  BY PlaceShape
<1>2. logs[p[1]] \in Logs /\ p[1] \in Nat
  BY <1>1
<1> QED BY <1>1, <1>2, RecShape DEF RecAt, FieldAt

\* To the map two keys are one only if they are.
LEMMA SameKey ==
  ASSUME NEW r, NEW s, NEW key \in Key, NEW other \in Key,
         r.hash = HashOf[key].hash, r.k = HashOf[key].k,
         s.hash = HashOf[other].hash, s.k = HashOf[other].k
  PROVE  Same(r, s) <=> key = other
<1>1. /\ HashOf[key] \in [hash : Nat, k : Nat]
      /\ HashOf[other] \in [hash : Nat, k : Nat]
  BY HashAssumption
<1>2. \A g, h \in [hash : Nat, k : Nat] : g.hash = h.hash /\ g.k = h.k => g = h
  OBVIOUS
<1>3. Same(r, s) => HashOf[key] = HashOf[other]
  BY <1>1, <1>2 DEF Same
<1> QED BY <1>3, KeyAssumption DEF Same

\* One more log leaves the fields of the others where they are.
LEMMA OneMore ==
  ASSUME NEW logs \in Seq(Logs), NEW log \in Logs
  PROVE  LET g == Append(logs, log)
         IN  /\ g \in Seq(Logs)
             /\ Len(g) = Len(logs) + 1
             /\ g[Len(g)] = log
             /\ {p \in Places(g) : p[1] < Len(g)} = Places(logs)
             /\ \A p \in Places(logs) : /\ FieldAt(g, p) = FieldAt(logs, p)
                                        /\ RecAt(g, p) = RecAt(logs, p)
             /\ \A P \in SUBSET Places(logs) : Latest(g, P) = Latest(logs, P)
<1>1. PICK g : g = Append(logs, log)
  OBVIOUS
<1>2. PICK n \in Nat : n = Len(logs)
  OBVIOUS
<1>3. /\ g \in Seq(Logs)
      /\ Len(g) = n + 1
      /\ g[n + 1] = log
      /\ \A m \in 1 .. n : g[m] = logs[m]
  BY <1>1, <1>2
<1>4. ASSUME NEW p \in Places(g), p[1] < n + 1 PROVE p \in Places(logs)
  <2>1. /\ p = <<p[1], p[2]>>
        /\ p[1] \in 1 .. n + 1
        /\ p[2] \in 1 .. Len(g[p[1]])
        /\ TraceOf(g[p[1]]) = Trace
    BY <1>3, PlaceShape
  <2>2. p[1] \in 1 .. n /\ g[p[1]] = logs[p[1]]
    BY <1>3, <1>4, <2>1
  <2> QED BY <1>2, <2>1, <2>2, PlaceShape
<1>5. ASSUME NEW p \in Places(logs)
      PROVE  p \in Places(g) /\ p[1] < n + 1 /\ g[p[1]] = logs[p[1]]
  <2>1. /\ p = <<p[1], p[2]>>
        /\ p[1] \in 1 .. n
        /\ p[2] \in 1 .. Len(logs[p[1]])
        /\ TraceOf(logs[p[1]]) = Trace
    BY <1>2, PlaceShape
  <2>2. g[p[1]] = logs[p[1]] /\ p[1] \in 1 .. n + 1 /\ p[1] < n + 1
    BY <1>3, <2>1
  <2> QED BY <1>3, <2>1, <2>2, PlaceShape
<1>6. {p \in Places(g) : p[1] < n + 1} = Places(logs)
  BY <1>4, <1>5
<1>7. \A p \in Places(logs) : FieldAt(g, p) = FieldAt(logs, p) /\ RecAt(g, p) = RecAt(logs, p)
  BY <1>5 DEF FieldAt, RecAt
<1>8. \A P \in SUBSET Places(logs) : Latest(g, P) = Latest(logs, P)
  BY <1>7 DEF Latest
<1> QED BY <1>1, <1>2, <1>3, <1>6, <1>7, <1>8

-----------------------------------------------------------------------------
(* The last field of each key *)

\* Of two fields one is before the other.
LEMMA Ordered ==
  ASSUME NEW logs \in Seq(Logs), NEW p \in Places(logs), NEW q \in Places(logs),
         ~Before(p, q), ~Before(q, p)
  PROVE  p = q
<1>1. /\ p = <<p[1], p[2]>> /\ p[1] \in 1 .. Len(logs) /\ p[2] \in 1 .. Len(logs[p[1]])
      /\ q = <<q[1], q[2]>> /\ q[1] \in 1 .. Len(logs) /\ q[2] \in 1 .. Len(logs[q[1]])
  BY PlaceShape
<1>2. Len(logs) \in Nat
  OBVIOUS
<1>3. \A m \in 1 .. Len(logs) : Len(logs[m]) \in Nat
  BY LogsAssumption
<1>4. p[1] \in Int /\ q[1] \in Int /\ p[2] \in Int /\ q[2] \in Int
  BY <1>1, <1>2, <1>3
<1>5. p[1] = q[1]
  BY <1>4 DEF Before
<1>6. p[2] = q[2]
  BY <1>4, <1>5 DEF Before
<1> QED BY <1>1, <1>5, <1>6

\* A key has one last field.
LEMMA OneLatest ==
  ASSUME NEW logs \in Seq(Logs), NEW P \in SUBSET Places(logs),
         NEW p \in Latest(logs, P), NEW q \in Latest(logs, P),
         FieldAt(logs, p).key = FieldAt(logs, q).key
  PROVE  p = q
<1>1. ~Before(p, q) /\ ~Before(q, p) /\ p \in Places(logs) /\ q \in Places(logs)
  BY DEF Latest
<1> QED BY <1>1, Ordered

\* A field that comes after all others is the last one of its key.
LEMMA LatestNext ==
  ASSUME NEW logs \in Seq(Logs), NEW P \in SUBSET Places(logs), NEW p \in Places(logs),
         \A q \in P : Before(q, p) /\ ~Before(p, q), ~Before(p, p)
  PROVE  Latest(logs, P \cup {p}) =
           {q \in Latest(logs, P) : FieldAt(logs, q).key # FieldAt(logs, p).key} \cup {p}
BY DEF Latest

\* The fields of earlier logs and the first i of the last log.
Upto(logs, i) == {p \in Places(logs) : p[1] < Len(logs) \/ p[2] <= i}

LEMMA UptoNext ==
  ASSUME NEW logs \in Seq(Logs), Len(logs) # 0, NEW i \in 1 .. Len(logs[Len(logs)]),
         TraceOf(logs[Len(logs)]) = Trace
  PROVE  LET p == <<Len(logs), i>>
         IN  /\ p \in Places(logs)
             /\ Upto(logs, i) = Upto(logs, i - 1) \cup {p}
             /\ p \notin Upto(logs, i - 1)
             /\ \A q \in Upto(logs, i - 1) : Before(q, p) /\ ~Before(p, q)
             /\ ~Before(p, p)
             /\ {q \in Places(logs) : Before(q, p)} = Upto(logs, i - 1)
<1>1. PICK n \in Nat \ {0} : n = Len(logs)
  OBVIOUS
<1>2. \A m \in 1 .. n : Len(logs[m]) \in Nat
  BY <1>1, LogsAssumption
<1>3. i \in Nat \ {0}
  BY <1>1, <1>2
<1>4. PICK p : p = <<n, i>>
  OBVIOUS
<1>5. p[1] = n /\ p[2] = i
  BY <1>4
<1>6. p \in Places(logs)
  BY <1>1, <1>4, <1>5, PlaceShape
<1>7. \A q \in Places(logs) : /\ q = <<q[1], q[2]>>
                              /\ q[1] \in 1 .. n
                              /\ q[2] \in Nat \ {0}
  BY <1>1, <1>2, PlaceShape
<1>8. ASSUME NEW q \in Places(logs)
      PROVE  /\ q \in Upto(logs, i) <=> q \in Upto(logs, i - 1) \/ q = p
             /\ q \in Upto(logs, i - 1) <=> Before(q, p)
             /\ Before(q, p) => ~Before(p, q)
  <2>1. /\ q = <<q[1], q[2]>>
        /\ q[1] \in 1 .. n
        /\ q[2] \in Nat \ {0}
    BY <1>7
  <2>2. q = p <=> q[1] = n /\ q[2] = i
    BY <1>4, <1>5, <2>1
  <2>3. /\ q \in Upto(logs, i) <=> q[1] < n \/ q[2] <= i
        /\ q \in Upto(logs, i - 1) <=> q[1] < n \/ q[2] <= i - 1
    BY <1>1 DEF Upto
  <2>4. /\ Before(q, p) <=> q[1] < n \/ (q[1] = n /\ q[2] < i)
        /\ Before(p, q) <=> n < q[1] \/ (n = q[1] /\ i < q[2])
    BY <1>5 DEF Before
  <2>5. q[1] < n \/ q[1] = n
    BY <2>1
  <2> QED BY <1>3, <2>1, <2>2, <2>3, <2>4, <2>5
<1>9. ~Before(p, p)
  BY <1>1, <1>3, <1>5 DEF Before
<1>10. \A k : Upto(logs, k) \subseteq Places(logs)
  BY DEF Upto
<1> QED BY <1>1, <1>4, <1>6, <1>8, <1>9, <1>10

-----------------------------------------------------------------------------
(* The references of a log *)

\* The records that refer to the log e.
Refs(m, e) == {r \in Content(m) : r.v.e = e}

\* No two records of a content are the same key's.
LEMMA ContentKeys ==
  ASSUME NEW m, m.used \in Nat, Chained(m), NEW r \in Content(m), NEW s \in Content(m),
         Same(r, s)
  PROVE  r = s
<1>1. PICK p \in Records(m) : r = m.records[p]
  BY DEF Content
<1>2. PICK q \in Records(m) : s = m.records[q]
  BY DEF Content
<1>3. p = q
  BY <1>1, <1>2, OneOfAKey
<1> QED BY <1>1, <1>2, <1>3

\* It does not matter whether records or their places are counted.
LEMMA CountPlaces ==
  ASSUME NEW m, Map(m, Refer), Chained(m), NEW e
  PROVE  /\ IsFiniteSet(Content(m))
         /\ IsFiniteSet(Refs(m, e))
         /\ Cardinality(Refs(m, e)) \in Nat
         /\ Cardinality({i \in Records(m) : m.records[i].v.e = e}) = Cardinality(Refs(m, e))
<1>1. PICK n \in Nat \ {0} : m \in Table(n, Refer)
  BY DEF Map
<1>2. DOMAIN m.records = 0 .. n - 1 /\ m.used \in Nat
  BY <1>1 DEF Table
<1>3. IsFiniteSet(Records(m))
  <2>1. IsFiniteSet(0 .. n - 1) /\ Records(m) \subseteq 0 .. n - 1
    BY <1>2, FS_Interval DEF Records
  <2> QED BY <2>1, FS_Subset
<1>4. ASSUME NEW S \in SUBSET Records(m)
      PROVE  LET T == {m.records[i] : i \in S}
             IN  IsFiniteSet(S) /\ IsFiniteSet(T) /\ Cardinality(T) = Cardinality(S)
  <2> DEFINE T == {m.records[i] : i \in S}
             f == [i \in S |-> m.records[i]]
  <2>1. IsFiniteSet(S)
    BY <1>3, FS_Subset
  <2>2. f \in [S -> T] /\ \A t \in T : \E i \in S : f[i] = t
    OBVIOUS
  <2>3. \A i, j \in S : f[i] = f[j] => i = j
    <3> SUFFICES ASSUME NEW i \in S, NEW j \in S, f[i] = f[j] PROVE i = j
      OBVIOUS
    <3>1. Same(m.records[i], m.records[j])
      BY DEF Same
    <3> QED BY <1>2, <3>1, OneOfAKey
  <2>4. f \in Bijection(S, T)
    <3> HIDE DEF f, T
    <3> QED BY <2>2, <2>3 DEF Bijection, Injection, Surjection, IsInjective
  <2>5. ExistsBijection(S, T)
    BY <2>4 DEF ExistsBijection
  <2> HIDE DEF f, T
  <2>6. IsFiniteSet(T) /\ Cardinality(T) = Cardinality(S)
    BY <2>1, <2>5, FS_Bijection
  <2> QED BY <2>1, <2>6 DEF T
<1> DEFINE S == {i \in Records(m) : m.records[i].v.e = e}
<1>5. Refs(m, e) = {m.records[i] : i \in S}
  BY DEF Refs, Content
<1>6. S \subseteq Records(m)
  OBVIOUS
<1> HIDE DEF S
<1>7. IsFiniteSet(Refs(m, e)) /\ Cardinality(Refs(m, e)) = Cardinality(S)
  BY <1>4, <1>5, <1>6
<1>8. IsFiniteSet(Content(m))
  <2>1. Records(m) \in SUBSET Records(m)
    OBVIOUS
  <2> QED BY <1>4, <2>1 DEF Content
<1>9. Cardinality(Refs(m, e)) \in Nat
  BY <1>7, FS_CardinalityType
<1> QED BY <1>7, <1>8, <1>9 DEF S

\* How many of some freed values are of the log e: none, or the only one.
LEMMA CountFreed ==
  ASSUME NEW e
  PROVE  /\ Cardinality({i \in DOMAIN <<>> : <<>>[i].e = e}) = 0
         /\ \A v : Cardinality({i \in DOMAIN <<v>> : <<v>>[i].e = e}) =
                     IF v.e = e THEN 1 ELSE 0
<1>1. DOMAIN <<>> = {}
  OBVIOUS
<1>2. {i \in DOMAIN <<>> : <<>>[i].e = e} = {}
  BY <1>1
<1>3. ASSUME NEW v
      PROVE  Cardinality({i \in DOMAIN <<v>> : <<v>>[i].e = e}) = IF v.e = e THEN 1 ELSE 0
  <2>1. DOMAIN <<v>> = {1} /\ <<v>>[1] = v
    OBVIOUS
  <2>2. {i \in DOMAIN <<v>> : <<v>>[i].e = e} = IF v.e = e THEN {1} ELSE {}
    BY <2>1
  <2>3. CASE v.e = e
    <3>1. {i \in DOMAIN <<v>> : <<v>>[i].e = e} = {1}
      BY <2>2, <2>3
    <3>2. Cardinality({1}) = 1
      BY FS_Singleton
    <3> QED BY <2>3, <3>1, <3>2, Zenon
  <2>4. CASE v.e # e
    <3>1. {i \in DOMAIN <<v>> : <<v>>[i].e = e} = {}
      BY <2>2, <2>4
    <3> QED BY <2>4, <3>1, FS_EmptySet, Zenon
  <2> QED BY <2>3, <2>4
<1> QED BY <1>2, <1>3, FS_EmptySet, Zenon

\* A record that is set without replacing one is one more for its log ...
LEMMA RefsAdded ==
  ASSUME NEW m, NEW new, Map(m, Refer), Chained(m), NEW rec,
         {r \in Content(m) : Same(r, rec)} = {},
         Content(new) = {r \in Content(m) : ~Same(r, rec)} \cup {rec}, NEW e
  PROVE  Cardinality(Refs(new, e)) =
           Cardinality(Refs(m, e)) + (IF rec.v.e = e THEN 1 ELSE 0)
<1> USE DEF Refs
<1>0. Content(new) = Content(m) \cup {rec}
  OBVIOUS
<1>1. rec \notin Refs(m, e)
  BY DEF Same
<1>2. Refs(new, e) = IF rec.v.e = e THEN Refs(m, e) \cup {rec} ELSE Refs(m, e)
  BY <1>0
<1> HIDE DEF Refs
<1>3. IsFiniteSet(Refs(m, e)) /\ Cardinality(Refs(m, e)) \in Nat
  BY CountPlaces
<1>4. Cardinality(Refs(m, e) \cup {rec}) = Cardinality(Refs(m, e)) + 1
  BY <1>1, <1>3, FS_AddElement
<1> QED BY <1>2, <1>3, <1>4

\* ... and one that replaces another is one less for the other's log, which may
\* be the same.
LEMMA RefsMoved ==
  ASSUME NEW m, NEW new, Map(m, Refer), Chained(m), NEW rec, NEW old \in Content(m),
         Same(old, rec),
         Content(new) = {r \in Content(m) : ~Same(r, rec)} \cup {rec}, NEW e
  PROVE  Cardinality(Refs(new, e)) =
           Cardinality(Refs(m, e)) + (IF rec.v.e = e THEN 1 ELSE 0)
                                   - (IF old.v.e = e THEN 1 ELSE 0)
<1>1. m.used \in Nat
  BY DEF Map, Table
<1>2. \A r \in Content(m) : Same(r, rec) <=> r = old
  <2>1. \A r \in Content(m) : Same(r, rec) => Same(r, old)
    BY DEF Same
  <2> QED BY <1>1, <2>1, ContentKeys
<1>3. Content(new) = (Content(m) \ {old}) \cup {rec}
  BY <1>2
<1>4. Same(rec, rec)
  BY DEF Same
<1>5. rec \notin Content(m) \ {old}
  BY <1>2, <1>4
<1> DEFINE D == Refs(m, e) \ {old}
<1>6. IsFiniteSet(Refs(m, e)) /\ Cardinality(Refs(m, e)) \in Nat
  BY CountPlaces
<1>7. old \in Refs(m, e) <=> old.v.e = e
  BY DEF Refs
<1>8. IsFiniteSet(D) /\ Cardinality(D) = Cardinality(Refs(m, e)) - (IF old.v.e = e THEN 1 ELSE 0)
  BY <1>6, <1>7, FS_RemoveElement
<1>9. rec \notin D
  BY <1>5 DEF Refs
<1>10. Refs(new, e) = IF rec.v.e = e THEN D \cup {rec} ELSE D
  BY <1>3 DEF Refs
<1> HIDE DEF D
<1>11. Cardinality(D \cup {rec}) = Cardinality(D) + 1
  BY <1>8, <1>9, FS_AddElement
<1>12. Cardinality(Refs(new, e)) = Cardinality(D) + (IF rec.v.e = e THEN 1 ELSE 0)
  <2>1. Cardinality(D) \in Nat
    BY <1>8, FS_CardinalityType
  <2> QED BY <1>10, <1>11, <2>1
<1> QED BY <1>6, <1>8, <1>12

-----------------------------------------------------------------------------
(* react_append_log *)

Good(m) == Map(m, Refer) /\ Chained(m) /\ m.freed = <<>>

\* The map has the last of these fields of each key.
Holds(m, logs, P) == Content(m) = {RecAt(logs, p) : p \in Latest(logs, P)}

\* What the loop has done after i rounds for the last log.
Stage(logs, i, st) ==
    LET n == Len(logs)
    IN  /\ Good(st.map)
        /\ Holds(st.map, logs, Upto(logs, i))
        /\ st.counts \in [1 .. n -> Int]
        /\ \A e \in 1 .. n :
             st.counts[e] = 1 + Cardinality(Refs(st.map, e))
                              + (IF e = n THEN Len(logs[n]) - i ELSE 0)
        /\ st.update \in BOOLEAN
        /\ st.update <=> \E j \in 1 .. i : /\ logs[n][j].key = Watched
                                           /\ Changes(logs, <<n, j>>)

\* The history of what was freed is no part of the map.
LEMMA FreedForgotten ==
  ASSUME NEW m, Map(m, Refer), Chained(m)
  PROVE  LET new == [m EXCEPT !.freed = <<>>]
         IN  Good(new) /\ Content(new) = Content(m)
<1>1. PICK n \in Nat \ {0} : m \in Table(n, Refer) /\ Counted(m)
  BY DEF Map
<1>2. PICK new : new = [m EXCEPT !.freed = <<>>]
  OBVIOUS
<1>3. new = [records |-> m.records, used |-> m.used, freed |-> <<>>]
  BY <1>1, <1>2 DEF Table
<1>4. new \in Table(n, Refer)
  <2>1. m.records \in [0 .. n - 1 -> Record(Refer)] /\ m.used \in Nat /\ <<>> \in Seq(Refer)
    BY <1>1 DEF Table
  <2>2. \A a \in [0 .. n - 1 -> Record(Refer)], b \in Nat, c \in Seq(Refer) :
          [records |-> a, used |-> b, freed |-> c] \in Table(n, Refer)
    BY DEF Table
  <2> QED BY <1>3, <2>1, <2>2, Zenon
<1>5. new.records = m.records /\ new.used = m.used /\ new.freed = <<>>
  BY <1>3
<1>6. Records(new) = Records(m) /\ Content(new) = Content(m) /\ Taken(new) = Taken(m)
  BY <1>5 DEF Records, Content, Taken
<1>7. Counted(new)
  BY <1>1, <1>5, <1>6 DEF Counted
<1>8. \A h, i : At(new, h, i) = At(m, h, i)
  BY <1>5 DEF At, RecordSize
<1>9. \A p, d : Reached(m, p, d) => Reached(new, p, d)
  BY <1>5, <1>8 DEF Reached
<1>10. Chained(new)
  BY <1>5, <1>6, <1>9 DEF Chained
<1> QED BY <1>2, <1>4, <1>5, <1>6, <1>7, <1>10 DEF Good, Map

\* The record set for a field takes the place of the one of its key.
LEMMA HoldsNext ==
  ASSUME NEW logs \in Seq(Logs), NEW P \in SUBSET Places(logs), NEW p \in Places(logs),
         \A q \in P : Before(q, p) /\ ~Before(p, q), ~Before(p, p),
         NEW m, Holds(m, logs, P), NEW new,
         Content(new) = {r \in Content(m) : ~Same(r, RecAt(logs, p))} \cup {RecAt(logs, p)}
  PROVE  Holds(new, logs, P \cup {p})
<1>1. Latest(logs, P) \subseteq Places(logs)
  BY DEF Latest
<1>2. \A q \in Latest(logs, P) :
        Same(RecAt(logs, q), RecAt(logs, p)) <=> FieldAt(logs, q).key = FieldAt(logs, p).key
  <2> SUFFICES ASSUME NEW q \in Latest(logs, P)
               PROVE  Same(RecAt(logs, q), RecAt(logs, p))
                        <=> FieldAt(logs, q).key = FieldAt(logs, p).key
    OBVIOUS
  <2>1. PICK r, s : r = RecAt(logs, q) /\ s = RecAt(logs, p)
    OBVIOUS
  <2>2. PICK key \in Key, other \in Key :
          /\ key = FieldAt(logs, q).key /\ other = FieldAt(logs, p).key
          /\ r.hash = HashOf[key].hash /\ r.k = HashOf[key].k
          /\ s.hash = HashOf[other].hash /\ s.k = HashOf[other].k
    BY <1>1, <2>1, PlaceRec
  <2>3. Same(r, s) <=> key = other
    BY <2>2, SameKey
  <2> QED BY <2>1, <2>2, <2>3
<1>3. Latest(logs, P \cup {p}) =
        {q \in Latest(logs, P) : FieldAt(logs, q).key # FieldAt(logs, p).key} \cup {p}
  BY LatestNext
<1>4. {r \in Content(m) : ~Same(r, RecAt(logs, p))} =
        {RecAt(logs, q) : q \in {o \in Latest(logs, P) :
                                   FieldAt(logs, o).key # FieldAt(logs, p).key}}
  BY <1>2 DEF Holds
<1> QED BY <1>3, <1>4 DEF Holds

\* One round of the loop.
LEMMA StageNext ==
  ASSUME NEW logs \in Seq(Logs), Len(logs) # 0, TraceOf(logs[Len(logs)]) = Trace,
         NEW i \in 1 .. Len(logs[Len(logs)]), NEW st, Stage(logs, i - 1, st)
  PROVE  Stage(logs, i, Step(st, RecOf(logs[Len(logs)], Len(logs), i)))
<1>1. PICK n \in Nat \ {0} : n = Len(logs)
  OBVIOUS
<1>2. PICK log \in Logs : log = logs[n]
  BY <1>1
<1>3. Len(log) \in Nat /\ i \in 1 .. Len(log)
  BY <1>1, <1>2, LogsAssumption
<1>4. PICK p : p = <<n, i>>
  OBVIOUS
<1>5. /\ p \in Places(logs)
      /\ Upto(logs, i) = Upto(logs, i - 1) \cup {p}
      /\ \A q \in Upto(logs, i - 1) : Before(q, p) /\ ~Before(p, q)
      /\ ~Before(p, p)
      /\ {q \in Places(logs) : Before(q, p)} = Upto(logs, i - 1)
  BY <1>1, <1>4, UptoNext
<1>6. PICK rec : rec = RecAt(logs, p)
  OBVIOUS
<1>7. /\ rec = RecOf(log, n, i)
      /\ FieldAt(logs, p) = log[i]
  BY <1>2, <1>4, <1>6 DEF RecAt, FieldAt
<1>8. /\ rec \in Record(Refer)
      /\ rec.hash = HashOf[log[i].key].hash
      /\ rec.hash # 0
      /\ rec.k = HashOf[log[i].key].k
      /\ rec.v = [e |-> n, val |-> log[i].val]
      /\ log[i].key \in Key
  BY <1>3, <1>7, RecShape
<1>9. PICK m : m = st.map
  OBVIOUS
<1>10. Good(m) /\ Holds(m, logs, Upto(logs, i - 1))
  BY <1>9 DEF Stage
<1>11. Map(m, Refer) /\ Chained(m) /\ m.freed = <<>> /\ m.used \in Nat
  BY <1>10 DEF Good, Map, Table
<1>12. PICK new : new = PoolmapSet(m, rec)
  OBVIOUS
<1>13. /\ Map(new, Refer)
       /\ Chained(new)
       /\ Content(new) = {r \in Content(m) : ~Same(r, rec)} \cup {rec}
       /\ (\A r \in Content(m) : ~Same(r, rec)) => new.freed = <<>>
       /\ \A r \in Content(m) : Same(r, rec) => new.freed = <<r.v>>
  <2>1. NULL \in Refer
    BY DEF Refer
  <2>2. /\ Map(new, Refer)
        /\ Chained(new)
        /\ Content(new) = IF rec.hash = 0 THEN Content(m)
                          ELSE {r \in Content(m) : ~Same(r, rec)} \cup {rec}
        /\ (\A r \in Content(m) : ~Same(r, rec)) => new.freed = m.freed
        /\ \A r \in Content(m) : Same(r, rec) => new.freed = Append(m.freed, r.v)
    BY <1>8, <1>11, <1>12, <2>1, SetReplaces
  <2>3. \A v : Append(<<>>, v) = <<v>>
    OBVIOUS
  <2> QED BY <1>8, <1>11, <2>2, <2>3
<1>14. PICK kept : kept = [new EXCEPT !.freed = <<>>]
  OBVIOUS
<1>15. Good(kept) /\ Content(kept) = Content(new)
  BY <1>13, <1>14, FreedForgotten
<1>16. Holds(kept, logs, Upto(logs, i))
  <2>1. Upto(logs, i - 1) \in SUBSET Places(logs)
    BY DEF Upto
  <2>2. Content(kept) = {r \in Content(m) : ~Same(r, rec)} \cup {rec}
    BY <1>13, <1>15
  <2>3. Holds(kept, logs, Upto(logs, i - 1) \cup {p})
    BY <1>5, <1>6, <1>10, <2>1, <2>2, HoldsNext
  <2> QED BY <1>5, <2>3
<1>17. \A e : Refs(kept, e) = Refs(new, e)
  BY <1>15 DEF Refs
<1>18. PICK counts : counts = Freed(st.counts, new.freed)
  OBVIOUS
<1>19. /\ counts = [e \in 1 .. n |-> counts[e]]
       /\ \A e \in 1 .. n :
            counts[e] = st.counts[e]
                          - Cardinality({j \in DOMAIN new.freed : new.freed[j].e = e})
  BY <1>1, <1>18 DEF Freed, Stage
<1>20. ASSUME NEW e \in 1 .. n
       PROVE  counts[e] = 1 + Cardinality(Refs(kept, e)) + (IF e = n THEN Len(log) - i ELSE 0)
  <2>1. st.counts[e] = 1 + Cardinality(Refs(m, e)) + (IF e = n THEN Len(log) - (i - 1) ELSE 0)
    BY <1>1, <1>2, <1>9 DEF Stage
  <2>2. Cardinality(Refs(m, e)) \in Nat
    BY <1>11, CountPlaces
  <2>3. rec.v.e = n
    BY <1>8
  <2>4. CASE \A r \in Content(m) : ~Same(r, rec)
    <3>1. new.freed = <<>>
      BY <1>13, <2>4
    <3>2. Cardinality(Refs(new, e)) = Cardinality(Refs(m, e)) + (IF rec.v.e = e THEN 1 ELSE 0)
      <4>1. {r \in Content(m) : Same(r, rec)} = {}
        BY <2>4
      <4> QED BY <1>11, <1>13, <4>1, RefsAdded
    <3>3. Cardinality({j \in DOMAIN new.freed : new.freed[j].e = e}) = 0
      BY <3>1, CountFreed
    <3>4. counts[e] = st.counts[e] - 0
      BY <1>19, <3>3
    <3> QED BY <1>3, <1>17, <2>1, <2>2, <2>3, <3>2, <3>4
  <2>5. CASE \E r \in Content(m) : Same(r, rec)
    <3>1. PICK old \in Content(m) : Same(old, rec)
      BY <2>5
    <3>2. new.freed = <<old.v>>
      BY <1>13, <3>1
    <3>3. Cardinality(Refs(new, e)) =
            Cardinality(Refs(m, e)) + (IF rec.v.e = e THEN 1 ELSE 0)
                                    - (IF old.v.e = e THEN 1 ELSE 0)
      BY <1>11, <1>13, <3>1, RefsMoved
    <3>4. Cardinality({j \in DOMAIN new.freed : new.freed[j].e = e})
            = IF old.v.e = e THEN 1 ELSE 0
      <4>1. PICK v : v = old.v
        OBVIOUS
      <4>2. Cardinality({j \in DOMAIN <<v>> : <<v>>[j].e = e}) = IF v.e = e THEN 1 ELSE 0
        BY CountFreed, Zenon
      <4> QED BY <3>2, <4>1, <4>2, Zenon
    <3>5. counts[e] = st.counts[e] - (IF old.v.e = e THEN 1 ELSE 0)
      BY <1>19, <3>4, Zenon
    <3> QED BY <1>3, <1>17, <2>1, <2>2, <2>3, <3>3, <3>5
  <2> QED BY <2>4, <2>5
<1>0. counts \in [1 .. n -> Int]
  <2>1. ASSUME NEW e \in 1 .. n
        PROVE  counts[e] \in Int
    <3>1. Map(kept, Refer) /\ Chained(kept)
      BY <1>15 DEF Good
    <3>2. Cardinality(Refs(kept, e)) \in Nat
      BY <3>1, CountPlaces
    <3> QED BY <1>3, <1>20, <3>2
  <2> QED BY <1>19, <2>1
<1>21. PICK changed \in BOOLEAN : changed <=> /\ new.freed # <<>>
                                              /\ IsWatched(rec)
                                              /\ new.freed[1].val # rec.v.val
  <2> DEFINE C == /\ new.freed # <<>>
                  /\ IsWatched(rec)
                  /\ new.freed[1].val # rec.v.val
  <2>1. C \in BOOLEAN
    OBVIOUS
  <2> QED BY <2>1
<1>22. changed <=> log[i].key = Watched /\ Changes(logs, p)
  <2>1. IsWatched(rec) <=> log[i].key = Watched
    <3>1. PICK h : h = HashOf[Watched]
      OBVIOUS
    <3>2. Same(rec, h) <=> log[i].key = Watched
      BY <1>8, <3>1, SameKey, WatchedAssumption
    <3> QED BY <3>1, <3>2 DEF IsWatched, Same
  <2>2. Changes(logs, p) <=> \E q \in Latest(logs, Upto(logs, i - 1)) :
                               /\ FieldAt(logs, q).key = log[i].key
                               /\ FieldAt(logs, q).val # log[i].val
    BY <1>5, <1>7 DEF Changes
  <2>3. ASSUME NEW q \in Latest(logs, Upto(logs, i - 1))
        PROVE  /\ RecAt(logs, q) \in Content(m)
               /\ RecAt(logs, q).v.val = FieldAt(logs, q).val
               /\ Same(RecAt(logs, q), rec) <=> FieldAt(logs, q).key = log[i].key
    <3>1. q \in Places(logs)
      BY DEF Latest, Upto
    <3>2. PICK r : r = RecAt(logs, q)
      OBVIOUS
    <3>3. /\ r.hash = HashOf[FieldAt(logs, q).key].hash
          /\ r.k = HashOf[FieldAt(logs, q).key].k
          /\ r.v = [e |-> q[1], val |-> FieldAt(logs, q).val]
          /\ FieldAt(logs, q).key \in Key
      BY <3>1, <3>2, PlaceRec
    <3>4. Same(r, rec) <=> FieldAt(logs, q).key = log[i].key
      BY <1>8, <3>3, SameKey
    <3> QED BY <1>10, <3>2, <3>3, <3>4 DEF Holds
  <2>4. rec.v.val = log[i].val
    BY <1>8
  <2>5. ASSUME changed
        PROVE  Changes(logs, p)
    <3>1. PICK r \in Content(m) : Same(r, rec)
      BY <1>13, <1>21, <2>5
    <3>2. new.freed = <<r.v>>
      BY <1>13, <3>1
    <3>3. r.v.val # log[i].val
      BY <1>21, <2>4, <2>5, <3>2
    <3>4. PICK q \in Latest(logs, Upto(logs, i - 1)) : r = RecAt(logs, q)
      BY <1>10, <3>1 DEF Holds
    <3> QED BY <2>2, <2>3, <3>1, <3>3, <3>4
  <2>6. ASSUME Changes(logs, p)
        PROVE  new.freed # <<>> /\ new.freed[1].val # rec.v.val
    <3>1. PICK q \in Latest(logs, Upto(logs, i - 1)) :
            FieldAt(logs, q).key = log[i].key /\ FieldAt(logs, q).val # log[i].val
      BY <2>2, <2>6
    <3>2. PICK r \in Content(m) : r = RecAt(logs, q)
      BY <2>3
    <3>3. Same(r, rec) /\ r.v.val # log[i].val
      BY <2>3, <3>1, <3>2
    <3>4. new.freed = <<r.v>>
      BY <1>13, <3>3
    <3> QED BY <2>4, <3>3, <3>4
  <2> QED BY <1>21, <2>1, <2>5, <2>6
<1>23. PICK next : next = Step(st, rec)
  OBVIOUS
<1>24. next.map = kept /\ next.counts = counts
  BY <1>9, <1>12, <1>14, <1>18, <1>23 DEF Step
<1>25. next.update \in BOOLEAN /\ (next.update <=> st.update \/ changed)
  <2>1. st.update \in BOOLEAN
    BY DEF Stage
  <2> DEFINE u == \/ st.update
                  \/ /\ new.freed # <<>>
                     /\ IsWatched(rec)
                     /\ new.freed[1].val # rec.v.val
  <2>2. next = [map |-> kept, counts |-> counts, update |-> u]
    BY <1>9, <1>12, <1>14, <1>18, <1>23, Zenon DEF Step
  <2>3. u \in BOOLEAN /\ (u <=> st.update \/ changed)
    BY <1>21, <2>1
  <2> HIDE DEF u
  <2>4. next.update = u
    BY <2>2
  <2> QED BY <2>3, <2>4, Zenon
<1>26. next.update <=> \E j \in 1 .. i : log[j].key = Watched /\ Changes(logs, <<n, j>>)
  <2>1. st.update <=> \E j \in 1 .. i - 1 : log[j].key = Watched /\ Changes(logs, <<n, j>>)
    BY <1>1, <1>2 DEF Stage
  <2>2. \A j : j \in 1 .. i <=> j \in 1 .. i - 1 \/ j = i
    BY <1>3
  <2> QED BY <1>4, <1>22, <1>25, <2>1, <2>2, Zenon
<1> QED BY <1>1, <1>2, <1>7, <1>0, <1>15, <1>16, <1>20, <1>23, <1>24, <1>25, <1>26, Zenon DEF Stage

\* The rounds of the loop are what their definition says.
LEMMA AppendedRounds ==
  ASSUME NEW log \in Logs, NEW e
  PROVE  /\ Appended(log, e)[0] =
              [map |-> map, counts |-> Append(refc, IncRC(log)), update |-> FALSE]
         /\ \A i \in 1 .. Len(log) :
              Appended(log, e)[i] = Step(Appended(log, e)[i - 1], RecOf(log, e, i))
<1> DEFINE S0 == [map |-> map, counts |-> Append(refc, IncRC(log)), update |-> FALSE]
           Rounds(k, g) ==
             g = [i \in 0 .. k |-> IF i = 0 THEN S0 ELSE Step(g[i - 1], RecOf(log, e, i))]
           None == {k \in Nat : ~ \E g : Rounds(k, g)}
<1>1. None = {}
  <2> HIDE DEF S0
  <2> SUFFICES ASSUME None # {} PROVE FALSE
    OBVIOUS
  <2>1. None \subseteq Nat
    OBVIOUS
  <2>2. Min(None) \in None /\ \A k \in None : Min(None) <= k
    BY <2>1, MinLeast, Zenon
  <2>3. PICK k : k = Min(None)
    OBVIOUS
  <2>4. k \in Nat /\ ~ \E g : Rounds(k, g)
    BY <2>2, <2>3
  <2>5. k # 0
    <3> DEFINE g == [i \in 0 .. 0 |-> S0]
    <3>1. \A i \in 0 .. 0 : i = 0
      OBVIOUS
    <3>2. g = [i \in 0 .. 0 |-> IF i = 0 THEN S0 ELSE Step(g[i - 1], RecOf(log, e, i))]
      BY <3>1
    <3>3. Rounds(0, g)
      BY <3>2
    <3> QED BY <2>4, <3>3
  <2>6. k - 1 \in Nat /\ ~(k <= k - 1)
    BY <2>4, <2>5
  <2>7. k - 1 \notin None
    BY <2>2, <2>3, <2>6
  <2>8. PICK f : Rounds(k - 1, f)
    BY <2>6, <2>7
  <2> DEFINE g == [i \in 0 .. k |-> IF i = 0 THEN S0 ELSE Step(f[i - 1], RecOf(log, e, i))]
  <2>9. ASSUME NEW i \in 0 .. k - 1
        PROVE  f[i] = g[i]
    BY <2>4, <2>8
  <2>10. \A i \in 0 .. k : i # 0 => i - 1 \in 0 .. k - 1
    BY <2>4
  <2>11. Rounds(k, g)
    <3> HIDE DEF g
    <3>1. \A i \in 0 .. k : i # 0 => Step(f[i - 1], RecOf(log, e, i))
                                     = Step(g[i - 1], RecOf(log, e, i))
      BY <2>9, <2>10, Zenon
    <3>2. g = [i \in 0 .. k |-> IF i = 0 THEN S0 ELSE Step(f[i - 1], RecOf(log, e, i))]
      BY DEF g
    <3>3. g = [i \in 0 .. k |-> IF i = 0 THEN S0 ELSE Step(g[i - 1], RecOf(log, e, i))]
      BY <3>1, <3>2
    <3> QED BY <3>3
  <2> QED BY <2>4, <2>11
<1>2. PICK l \in Nat : l = Len(log)
  BY LogsAssumption
<1>3. Appended(log, e) = CHOOSE g : Rounds(l, g)
  BY <1>2, Zenon DEF Appended
<1>4. \E g : Rounds(l, g)
  BY <1>1
<1>5. PICK g : g = Appended(log, e)
  OBVIOUS
<1>6. Rounds(l, g)
  <2> HIDE DEF Rounds
  <2> QED BY <1>3, <1>4, <1>5, Zenon
<1> HIDE DEF S0
<1>7. g[0] = S0
  BY <1>6
<1>8. \A i \in 1 .. l : g[i] = Step(g[i - 1], RecOf(log, e, i))
  BY <1>6
<1> QED BY <1>2, <1>5, <1>7, <1>8, Zenon DEF S0

-----------------------------------------------------------------------------
(* The invariant *)

\* The history and the counts go together.
Typed == /\ given \in Seq(Logs)
         /\ refc \in Seq(Int)
         /\ Len(refc) = Len(given)
         /\ live \in BOOLEAN

\* The map has the last field of each key of the trace, and nothing once the
\* plugin is disposed of.
Follows == Content(map) =
             IF live THEN {RecAt(given, p) : p \in Latest(given, Places(given))} ELSE {}

\* As RefsExact, but it counts records, whose places change.
Counts == \A e \in 1 .. Len(given) : refc[e] = 1 + Cardinality(Refs(map, e))

IInv == Typed /\ Good(map) /\ Follows /\ Counts /\ ToldExactly

LEMMA InitInvariant == Init => IInv
<1> SUFFICES ASSUME Init PROVE IInv
  OBVIOUS
<1>1. map = PoolmapNew /\ refc = <<>> /\ live = TRUE /\ given = <<>>
  BY DEF Init
<1>2. PICK new : new = Reset(4, <<>>)
  OBVIOUS
<1>3. 4 \in Nat \ {0} /\ NULL \in Refer /\ <<>> \in Seq(Refer)
  BY DEF Refer
<1>4. /\ new \in Table(4, Refer) /\ Counted(new) /\ new.freed = <<>>
      /\ Chained(new) /\ Content(new) = {}
  BY <1>2, <1>3, ResetEmpty
<1>5. map = new
  BY <1>1, <1>2 DEF PoolmapNew
<1>6. Good(map)
  BY <1>3, <1>4, <1>5 DEF Good, Map
<1>7. Places(<<>>) = {}
  <2>0. <<>> \in Seq(Logs)
    OBVIOUS
  <2>1. PICK logs \in Seq(Logs) : logs = <<>>
    BY <2>0
  <2>2. ASSUME NEW p \in Places(logs)
        PROVE  FALSE
    <3>1. p[1] \in 1 .. Len(logs)
      BY PlaceShape
    <3> QED BY <2>1, <3>1
  <2> QED BY <2>1, <2>2
<1>8. Latest(<<>>, Places(<<>>)) = {}
  BY <1>7 DEF Latest
<1>9. Follows
  BY <1>1, <1>4, <1>5, <1>8 DEF Follows
<1>10. Typed /\ Counts /\ ToldExactly
  BY <1>1 DEF Typed, Counts, ToldExactly
<1> QED BY <1>6, <1>9, <1>10 DEF IInv

-----------------------------------------------------------------------------
(* The operations *)

\* Before the loop: a reference for each field to come.
LEMMA StageFirst ==
  ASSUME IInv, live, NEW log \in Logs
  PROVE  Stage(Append(given, log), 0, Appended(log, Len(given) + 1)[0])
<1>1. PICK g : g = Append(given, log)
  OBVIOUS
<1>2. PICK n \in Nat : n = Len(given)
  BY DEF IInv, Typed
<1>3. /\ g \in Seq(Logs)
      /\ Len(g) = n + 1
      /\ g[n + 1] = log
      /\ {p \in Places(g) : p[1] < n + 1} = Places(given)
      /\ \A p \in Places(given) : RecAt(g, p) = RecAt(given, p)
      /\ Latest(g, Places(given)) = Latest(given, Places(given))
  BY <1>1, <1>2, OneMore DEF IInv, Typed
<1>4. Len(log) \in Nat
  BY LogsAssumption
<1>5. PICK st : st = [map |-> map, counts |-> Append(refc, IncRC(log)), update |-> FALSE]
  OBVIOUS
<1>6. st.map = map /\ st.counts = Append(refc, 1 + Len(log)) /\ st.update = FALSE
  BY <1>5 DEF IncRC
<1>7. Upto(g, 0) = Places(given)
  <2>1. \A p \in Places(g) : ~(p[2] <= 0)
    <3> SUFFICES ASSUME NEW p \in Places(g) PROVE ~(p[2] <= 0)
      OBVIOUS
    <3>1. p[1] \in 1 .. n + 1 /\ p[2] \in 1 .. Len(g[p[1]])
      BY <1>3, PlaceShape
    <3>2. g[p[1]] \in Logs
      BY <1>2, <1>3, <3>1
    <3>3. Len(g[p[1]]) \in Nat
      BY <3>2, LogsAssumption
    <3> QED BY <3>1, <3>3
  <2>2. Upto(g, 0) = {p \in Places(g) : p[1] < n + 1}
    BY <1>3, <2>1 DEF Upto
  <2> QED BY <1>3, <2>2
<1>8. Content(map) = {RecAt(given, p) : p \in Latest(given, Places(given))}
  BY DEF IInv, Follows
<1>9. Latest(given, Places(given)) \subseteq Places(given)
  BY DEF Latest
<1>10. Holds(map, g, Upto(g, 0))
  <2>1. Content(map) = {RecAt(g, p) : p \in Latest(g, Places(given))}
    BY <1>3, <1>8, <1>9
  <2> QED BY <1>7, <2>1 DEF Holds
<1>11. st.counts \in [1 .. n + 1 -> Int]
  <2>1. refc \in Seq(Int) /\ Len(refc) = n /\ 1 + Len(log) \in Int
    BY <1>2, <1>4 DEF IInv, Typed
  <2>2. PICK x \in Int : x = 1 + Len(log)
    BY <2>1
  <2>3. Append(refc, x) \in Seq(Int) /\ Len(Append(refc, x)) = n + 1
    BY <2>1
  <2>4. \A s \in Seq(Int) : s \in [1 .. Len(s) -> Int]
    OBVIOUS
  <2> QED BY <1>6, <2>2, <2>3, <2>4
<1>12. ASSUME NEW e \in 1 .. n + 1
       PROVE  st.counts[e] = 1 + Cardinality(Refs(map, e))
                               + (IF e = n + 1 THEN Len(log) - 0 ELSE 0)
  <2>1. refc \in Seq(Int) /\ Len(refc) = n
    BY <1>2 DEF IInv, Typed
  <2>2. CASE e = n + 1
    <3>1. st.counts[e] = 1 + Len(log)
      BY <1>6, <2>1, <2>2
    <3>2. Refs(map, e) = {}
      <4> SUFFICES ASSUME NEW r \in Refs(map, e) PROVE FALSE
        OBVIOUS
      <4>1. PICK p \in Places(given) : r = RecAt(given, p)
        BY <1>8, <1>9 DEF Refs
      <4>2. r.v.e = p[1] /\ p[1] \in 1 .. n
        <5>1. given \in Seq(Logs)
          BY DEF IInv, Typed
        <5>2. r.v = [e |-> p[1], val |-> FieldAt(given, p).val]
          BY <4>1, <5>1, PlaceRec
        <5>3. p[1] \in 1 .. n
          BY <1>2, <5>1, PlaceShape
        <5> QED BY <5>2, <5>3
      <4>3. r.v.e = e
        BY DEF Refs
      <4> QED BY <2>2, <4>2, <4>3
    <3>3. Cardinality(Refs(map, e)) = 0
      BY <3>2, FS_EmptySet
    <3> QED BY <1>4, <2>2, <3>1, <3>3
  <2>3. CASE e # n + 1
    <3>1. e \in 1 .. n /\ st.counts[e] = refc[e]
      BY <1>6, <2>1, <2>3
    <3>2. Map(map, Refer) /\ Chained(map)
      BY DEF IInv, Good
    <3>3. Cardinality(Refs(map, e)) \in Nat
      BY <3>2, CountPlaces
    <3>4. refc[e] = 1 + Cardinality(Refs(map, e))
      BY <1>2, <3>1 DEF IInv, Counts
    <3> QED BY <2>3, <3>1, <3>3, <3>4
  <2> QED BY <2>2, <2>3
<1>13. Good(map)
  BY DEF IInv
<1>14. st.update \in BOOLEAN
       /\ (st.update <=> \E j \in 1 .. 0 : /\ g[n + 1][j].key = Watched
                                           /\ Changes(g, <<n + 1, j>>))
  <2>1. 1 .. 0 = {}
    OBVIOUS
  <2> QED BY <1>6, <2>1
<1>15. Stage(g, 0, st)
  BY <1>3, <1>6, <1>10, <1>11, <1>12, <1>13, <1>14, Zenon DEF Stage
<1>16. Appended(log, n + 1)[0] = st
  BY <1>5, AppendedRounds
<1> QED BY <1>1, <1>2, <1>15, <1>16

\* All rounds, by the first that would be wrong.
LEMMA StageAll ==
  ASSUME IInv, live, NEW log \in Logs, TraceOf(log) = Trace
  PROVE  Stage(Append(given, log), Len(log), AppendLog(log, Len(given) + 1))
<1>1. PICK g : g = Append(given, log)
  OBVIOUS
<1>2. PICK e : e = Len(given) + 1
  OBVIOUS
<1>3. g \in Seq(Logs) /\ Len(g) = e /\ g[e] = log /\ e # 0
  BY <1>1, <1>2, OneMore DEF IInv, Typed
<1>4. PICK l \in Nat : l = Len(log)
  BY LogsAssumption
<1> DEFINE Right(i) == Stage(g, i, Appended(log, e)[i])
           Wrong == {i \in 0 .. l : ~Right(i)}
<1>5. Right(0)
  BY <1>1, <1>2, StageFirst
<1>6. ASSUME NEW i \in 1 .. l, Right(i - 1)
      PROVE  Right(i)
  <2>1. Appended(log, e)[i] = Step(Appended(log, e)[i - 1], RecOf(log, e, i))
    BY <1>4, AppendedRounds
  <2>2. PICK st : st = Appended(log, e)[i - 1]
    OBVIOUS
  <2>3. Stage(g, i - 1, st)
    BY <1>6, <2>2
  <2>4. Stage(g, i, Step(st, RecOf(g[Len(g)], Len(g), i)))
    BY <1>3, <1>4, <2>3, StageNext
  <2> QED BY <1>3, <2>1, <2>2, <2>4
<1>7. Wrong = {}
  <2> HIDE DEF Right
  <2> SUFFICES ASSUME Wrong # {} PROVE FALSE
    OBVIOUS
  <2>1. Wrong \subseteq Nat
    OBVIOUS
  <2>2. PICK k \in Wrong : \A i \in Wrong : k <= i
    BY <2>1, MinLeast, Zenon
  <2>3. k \in 0 .. l /\ ~Right(k)
    BY <2>2
  <2>4. k # 0
    BY <1>5, <2>3
  <2>5. k \in 1 .. l /\ ~(k <= k - 1) /\ k - 1 \in 0 .. l
    BY <2>3, <2>4
  <2>6. Right(k - 1)
    BY <2>2, <2>5
  <2> QED BY <1>6, <2>3, <2>5, <2>6
<1>8. Right(l)
  <2> HIDE DEF Right
  <2>1. l \in 0 .. l
    OBVIOUS
  <2> QED BY <1>7, <2>1
<1> QED BY <1>1, <1>2, <1>4, <1>8 DEF AppendLog

\* ToldExactly says of the last log what the loop has found.
LEMMA ApplyInvariant ==
  ASSUME IInv, NEW log \in Logs, Apply(log)
  PROVE  IInv'
<1>1. PICK g : g = Append(given, log)
  OBVIOUS
<1>2. PICK n \in Nat : n = Len(given) + 1
  BY DEF IInv, Typed
<1>3. /\ g \in Seq(Logs)
      /\ Len(g) = n
      /\ g[n] = log
  BY <1>1, <1>2, OneMore DEF IInv, Typed
<1>4. live /\ TraceOf(log) = Trace /\ n # 0
  BY <1>2 DEF Apply, Accept, IInv, Typed
<1>5. PICK st : st = AppendLog(log, n)
  OBVIOUS
<1>6. /\ given' = g
      /\ map' = st.map
      /\ refc' = st.counts
      /\ told' = IF st.update THEN "apply" ELSE "failed"
      /\ live' = live
  BY <1>1, <1>2, <1>5 DEF Apply
<1>7. PICK l \in Nat : l = Len(log)
  BY LogsAssumption
<1>8. Stage(g, l, st)
  BY <1>1, <1>2, <1>4, <1>5, <1>7, StageAll
<1>9. /\ Good(st.map)
      /\ Holds(st.map, g, Upto(g, l))
      /\ st.counts \in [1 .. n -> Int]
      /\ \A e \in 1 .. n :
           st.counts[e] = 1 + Cardinality(Refs(st.map, e)) + (IF e = n THEN Len(log) - l ELSE 0)
      /\ st.update \in BOOLEAN
      /\ st.update <=> \E j \in 1 .. l : /\ log[j].key = Watched
                                         /\ Changes(g, <<n, j>>)
  BY <1>3, <1>8, Zenon DEF Stage
<1>10. Upto(g, l) = Places(g)
  <2> SUFFICES ASSUME NEW p \in Places(g) PROVE p[1] < Len(g) \/ p[2] <= l
    BY DEF Upto
  <2>1. p[1] \in 1 .. n /\ p[2] \in 1 .. Len(g[p[1]])
    BY <1>3, PlaceShape
  <2>2. CASE p[1] = n
    BY <1>3, <1>7, <2>1, <2>2
  <2>3. CASE p[1] # n
    BY <1>3, <2>1, <2>3
  <2> QED BY <2>2, <2>3
<1>11. Typed'
  <2>1. st.counts \in Seq(Int) /\ Len(st.counts) = n
    BY <1>9
  <2> QED BY <1>3, <1>4, <1>6, <2>1 DEF Typed, IInv
<1>12. Good(map)'
  BY <1>6, <1>9
<1>13. Follows'
  <2>1. Content(st.map) = {RecAt(g, p) : p \in Latest(g, Places(g))}
    BY <1>9, <1>10 DEF Holds
  <2> QED BY <1>4, <1>6, <2>1 DEF Follows
<1>14. Counts'
  <2>1. ASSUME NEW e \in 1 .. n
        PROVE  st.counts[e] = 1 + Cardinality(Refs(st.map, e))
    <3>1. Map(st.map, Refer) /\ Chained(st.map)
      BY <1>9 DEF Good
    <3>2. Cardinality(Refs(st.map, e)) \in Nat
      BY <3>1, CountPlaces
    <3> QED BY <1>7, <1>9, <3>2
  <2> QED BY <1>3, <1>6, <2>1 DEF Counts
<1>15. ToldExactly'
  <2>1. DOMAIN log = 1 .. l
    BY <1>7, LogsAssumption
  <2>2. told' = IF \E j \in DOMAIN log : log[j].key = Watched /\ Changes(g, <<n, j>>)
                THEN "apply" ELSE "failed"
    BY <1>6, <1>9, <2>1, Zenon
  <2> QED BY <1>3, <1>4, <1>6, <2>2 DEF ToldExactly
<1> QED BY <1>11, <1>12, <1>13, <1>14, <1>15 DEF IInv

LEMMA IgnoreInvariant ==
  ASSUME IInv, NEW log \in Logs, Ignore(log)
  PROVE  IInv'
<1>1. PICK g : g = Append(given, log)
  OBVIOUS
<1>2. PICK n \in Nat : n = Len(given)
  BY DEF IInv, Typed
<1>3. /\ g \in Seq(Logs)
      /\ Len(g) = n + 1
      /\ g[n + 1] = log
      /\ {p \in Places(g) : p[1] < n + 1} = Places(given)
      /\ \A p \in Places(given) : RecAt(g, p) = RecAt(given, p)
      /\ Latest(g, Places(given)) = Latest(given, Places(given))
  BY <1>1, <1>2, OneMore DEF IInv, Typed
<1>4. /\ live /\ TraceOf(log) # Trace
      /\ given' = g
      /\ refc' = Append(refc, 1)
      /\ told' = "none"
      /\ map' = map
      /\ live' = live
  BY <1>1 DEF Ignore, Accept
<1>5. Places(g) = Places(given)
  <2>1. \A p \in Places(g) : p[1] \in 1 .. n + 1 /\ p[1] # n + 1
    BY <1>3, <1>4, PlaceShape
  <2>2. \A p \in Places(g) : p[1] < n + 1
    BY <2>1
  <2> QED BY <1>3, <2>2
<1>6. Typed'
  BY <1>2, <1>3, <1>4 DEF Typed, IInv
<1>7. Good(map)'
  BY <1>4 DEF IInv
<1>8. Content(map) = {RecAt(given, p) : p \in Latest(given, Places(given))}
  BY <1>4 DEF IInv, Follows
<1>9. Latest(given, Places(given)) \subseteq Places(given)
  BY DEF Latest
<1>10. Follows'
  <2>1. Content(map) = {RecAt(g, p) : p \in Latest(g, Places(g))}
    BY <1>3, <1>5, <1>8, <1>9
  <2> QED BY <1>4, <2>1 DEF Follows
<1>11. Counts'
  <2>1. refc \in Seq(Int) /\ Len(refc) = n
    BY <1>2 DEF IInv, Typed
  <2>2. ASSUME NEW e \in 1 .. n + 1
        PROVE  Append(refc, 1)[e] = 1 + Cardinality(Refs(map, e))
    <3>1. CASE e = n + 1
      <4>1. Refs(map, e) = {}
        <5> SUFFICES ASSUME NEW r \in Refs(map, e) PROVE FALSE
          OBVIOUS
        <5>1. PICK p \in Places(given) : r = RecAt(given, p)
          BY <1>8, <1>9 DEF Refs
        <5>2. given \in Seq(Logs)
          BY DEF IInv, Typed
        <5>3. r.v = [e |-> p[1], val |-> FieldAt(given, p).val]
          BY <5>1, <5>2, PlaceRec
        <5>4. p[1] \in 1 .. n
          BY <1>2, <5>2, PlaceShape
        <5>5. r.v.e = e
          BY DEF Refs
        <5> QED BY <3>1, <5>3, <5>4, <5>5
      <4>2. Cardinality(Refs(map, e)) = 0
        BY <4>1, FS_EmptySet
      <4> QED BY <2>1, <3>1, <4>2
    <3>2. CASE e # n + 1
      <4>1. e \in 1 .. n /\ Append(refc, 1)[e] = refc[e]
        BY <2>1, <3>2
      <4> QED BY <1>2, <4>1 DEF IInv, Counts
    <3> QED BY <3>1, <3>2
  <2> QED BY <1>3, <1>4, <2>2 DEF Counts
<1>12. ToldExactly'
  BY <1>3, <1>4 DEF ToldExactly
<1> QED BY <1>6, <1>7, <1>10, <1>11, <1>12 DEF IInv

\* poolmap_delete gives every record to ffree once.
LEMMA DeletedCount ==
  ASSUME NEW m, Map(m, Refer), Chained(m), NEW e
  PROVE  Cardinality({i \in DOMAIN DeletedBy(m) : DeletedBy(m)[i].e = e})
           = Cardinality(Refs(m, e))
<1>1. IsFiniteSet(Records(m))
  <2>1. PICK n \in Nat \ {0} : m \in Table(n, Refer)
    BY DEF Map
  <2>2. DOMAIN m.records = 0 .. n - 1
    BY <2>1 DEF Table
  <2>3. IsFiniteSet(0 .. n - 1) /\ Records(m) \subseteq 0 .. n - 1
    BY <2>2, FS_Interval DEF Records
  <2> QED BY <2>3, FS_Subset
<1>2. PICK c \in Nat : c = Cardinality(Records(m)) /\ ExistsBijection(1 .. c, Records(m))
  BY <1>1, FS_CardinalityType
<1>3. PICK b : b \in Bijection(1 .. c, Records(m))
  BY <1>2 DEF ExistsBijection
<1>4. b \in [1 .. c -> Records(m)] /\ IsInjective(b)
  BY <1>3 DEF Bijection, Injection, IsInjective
<1>5. PICK held : held = SetToSeq(Records(m))
  OBVIOUS
<1>6. held \in [1 .. c -> Records(m)] /\ IsInjective(held)
  BY <1>2, <1>4, <1>5 DEF SetToSeq
<1>7. held \in Injection(1 .. c, Records(m))
  BY <1>6 DEF Injection, IsInjective
<1>8. IsFiniteSet(1 .. c) /\ Cardinality(1 .. c) = c
  BY FS_Interval
<1>9. held \in Surjection(1 .. c, Records(m))
  BY <1>1, <1>2, <1>7, <1>8, FS_Injection
<1> DEFINE I == {i \in 1 .. c : m.records[held[i]].v.e = e}
           S == {j \in Records(m) : m.records[j].v.e = e}
           f == [i \in I |-> held[i]]
<1>10. f \in [I -> S]
  BY <1>6
<1>11. \A i, j \in I : f[i] = f[j] => i = j
  BY <1>6 DEF IsInjective
<1>12. \A s \in S : \E i \in I : f[i] = s
  BY <1>9 DEF Surjection
<1>13. ExistsBijection(I, S)
  <2> HIDE DEF f, I, S
  <2>1. f \in Bijection(I, S)
    BY <1>10, <1>11, <1>12 DEF Bijection, Injection, Surjection, IsInjective
  <2> QED BY <2>1 DEF ExistsBijection
<1>14. IsFiniteSet(I)
  BY <1>8, FS_Subset
<1>15. {i \in DOMAIN DeletedBy(m) : DeletedBy(m)[i].e = e} = I
  <2>1. PICK d : d = DeletedBy(m)
    OBVIOUS
  <2>2. d = [i \in 1 .. c |-> m.records[held[i]].v]
    BY <1>5, <1>6, <2>1 DEF DeletedBy
  <2>3. {i \in DOMAIN d : d[i].e = e} = I
    BY <2>2
  <2> QED BY <2>1, <2>3
<1> HIDE DEF f, I
<1>16. Cardinality(S) = Cardinality(I)
  BY <1>13, <1>14, FS_Bijection
<1>17. Cardinality(S) = Cardinality(Refs(m, e))
  BY CountPlaces
<1> HIDE DEF S
<1> QED BY <1>15, <1>16, <1>17

LEMMA DisposeInvariant ==
  ASSUME IInv, Dispose
  PROVE  IInv'
<1>1. /\ live' = FALSE
      /\ refc' = Freed(refc, DeletedBy(map))
      /\ map' = PoolmapNew
      /\ given' = given
  BY DEF Dispose
<1>2. PICK n \in Nat : n = Len(given)
  BY DEF IInv, Typed
<1>3. refc \in Seq(Int) /\ Len(refc) = n /\ DOMAIN refc = 1 .. n
  BY <1>2 DEF IInv, Typed
<1>4. PICK new : new = Reset(4, <<>>)
  OBVIOUS
<1>5. 4 \in Nat \ {0} /\ NULL \in Refer /\ <<>> \in Seq(Refer)
  BY DEF Refer
<1>6. /\ new \in Table(4, Refer) /\ Counted(new) /\ new.freed = <<>>
      /\ Chained(new) /\ Content(new) = {}
  BY <1>4, <1>5, ResetEmpty
<1>7. map' = new
  BY <1>1, <1>4 DEF PoolmapNew
<1>8. Good(new)
  BY <1>5, <1>6 DEF Good, Map
<1>9. Map(map, Refer) /\ Chained(map)
  BY DEF IInv, Good
<1>10. PICK counts : counts = Freed(refc, DeletedBy(map))
  OBVIOUS
<1>11. ASSUME NEW e \in 1 .. n
       PROVE  counts[e] = 1
  <2>1. counts[e] = refc[e] - Cardinality({i \in DOMAIN DeletedBy(map) : DeletedBy(map)[i].e = e})
    BY <1>3, <1>10, Zenon DEF Freed
  <2>2. Cardinality({i \in DOMAIN DeletedBy(map) : DeletedBy(map)[i].e = e})
          = Cardinality(Refs(map, e))
    BY <1>9, DeletedCount
  <2>3. refc[e] = 1 + Cardinality(Refs(map, e))
    BY <1>2 DEF IInv, Counts
  <2>4. Cardinality(Refs(map, e)) \in Nat
    BY <1>9, CountPlaces
  <2>5. counts[e] = refc[e] - Cardinality(Refs(map, e))
    BY <2>1, <2>2, Zenon
  <2> QED BY <2>3, <2>4, <2>5
<1>12. counts \in Seq(Int) /\ Len(counts) = n
  <2>1. counts = [e \in 1 .. n |-> counts[e]]
    BY <1>3, <1>10 DEF Freed
  <2>2. counts \in [1 .. n -> Int]
    BY <1>11, <2>1
  <2> QED BY <2>2
<1>13. Typed'
  BY <1>1, <1>2, <1>10, <1>12 DEF IInv, Typed
<1>14. Follows'
  BY <1>1, <1>6, <1>7 DEF Follows
<1>15. Counts'
  <2>1. \A e : Refs(new, e) = {}
    BY <1>6 DEF Refs
  <2>2. \A e : Cardinality(Refs(new, e)) = 0
    BY <2>1, FS_EmptySet
  <2> QED BY <1>1, <1>2, <1>7, <1>10, <1>11, <2>2 DEF Counts
<1>16. ToldExactly'
  BY <1>1 DEF ToldExactly
<1> QED BY <1>7, <1>8, <1>13, <1>14, <1>15, <1>16 DEF IInv

LEMMA NextInvariant ==
  ASSUME IInv, [Next]_vars
  PROVE  IInv'
<1>1. ASSUME NEW log \in Logs, Apply(log) PROVE IInv'
  BY <1>1, ApplyInvariant
<1>2. ASSUME NEW log \in Logs, Ignore(log) PROVE IInv'
  BY <1>2, IgnoreInvariant
<1>3. CASE Dispose
  BY <1>3, DisposeInvariant
<1>4. CASE UNCHANGED vars
  BY <1>4 DEF vars, IInv, Typed, Follows, Counts, ToldExactly
<1> QED BY <1>1, <1>2, <1>3, <1>4 DEF Next

LEMMA Invariant == Spec => []IInv
<1>1. IInv /\ [Next]_vars => IInv'
  BY NextInvariant
<1> QED BY InitInvariant, <1>1, PTL DEF Spec

-----------------------------------------------------------------------------
(* Theorems *)

\* For any keys and logs, every log is referred to as often as it is counted.
THEOREM ReferencesExact == Spec => []RefsExact
<1>1. IInv => RefsExact
  <2> SUFFICES ASSUME IInv, NEW e \in DOMAIN refc
               PROVE  refc[e] = 1 + Cardinality({i \in Records(map) : map.records[i].v.e = e})
    BY DEF RefsExact
  <2>1. e \in 1 .. Len(given)
    BY DEF IInv, Typed
  <2>2. refc[e] = 1 + Cardinality(Refs(map, e))
    BY <2>1 DEF IInv, Counts
  <2>3. Cardinality({i \in Records(map) : map.records[i].v.e = e}) = Cardinality(Refs(map, e))
    BY CountPlaces DEF IInv, Good
  <2> QED BY <2>2, <2>3, Zenon
<1> QED BY Invariant, <1>1, PTL

\* ... the map has the last value of every key ...
THEOREM LatestHeld == Spec => []HoldsLatest
<1>1. IInv => HoldsLatest
  <2> SUFFICES ASSUME IInv, live, NEW key \in Key
               PROVE  LET F == {p \in Latest(given, Places(given)) : FieldAt(given, p).key = key}
                      IN  IF F = {} THEN Held(key) = NULL
                          ELSE \E p \in F :
                                 Held(key) = [e |-> p[1], val |-> FieldAt(given, p).val]
    BY DEF HoldsLatest
  <2> DEFINE F == {p \in Latest(given, Places(given)) : FieldAt(given, p).key = key}
  <2>1. PICK h : h = HashOf[key]
    OBVIOUS
  <2>2. h.hash \in Nat \ {0}
    <3>1. h \in [hash : Nat, k : Nat] /\ h.hash # 0
      BY <2>1, HashAssumption, KeyAssumption
    <3> QED BY <3>1
  <2>3. /\ (\A r \in Content(map) : ~Same(r, h)) => Held(key) = NULL
        /\ \A r \in Content(map) : Same(r, h) => Held(key) = r.v
    BY <2>1, <2>2, GetFinds DEF IInv, Good, Held
  <2>4. Content(map) = {RecAt(given, p) : p \in Latest(given, Places(given))}
    BY DEF IInv, Follows
  <2>5. ASSUME NEW p \in Latest(given, Places(given))
        PROVE  /\ Same(RecAt(given, p), h) <=> FieldAt(given, p).key = key
               /\ RecAt(given, p).v = [e |-> p[1], val |-> FieldAt(given, p).val]
    <3>1. p \in Places(given) /\ given \in Seq(Logs)
      BY DEF Latest, IInv, Typed
    <3>2. PICK r : r = RecAt(given, p)
      OBVIOUS
    <3>3. /\ r.hash = HashOf[FieldAt(given, p).key].hash
          /\ r.k = HashOf[FieldAt(given, p).key].k
          /\ r.v = [e |-> p[1], val |-> FieldAt(given, p).val]
          /\ FieldAt(given, p).key \in Key
      BY <3>1, <3>2, PlaceRec
    <3>4. Same(r, h) <=> FieldAt(given, p).key = key
      BY <2>1, <3>3, SameKey
    <3> QED BY <3>2, <3>3, <3>4
  <2>6. CASE F = {}
    <3>1. \A r \in Content(map) : ~Same(r, h)
      BY <2>4, <2>5, <2>6
    <3> QED BY <2>3, <2>6, <3>1
  <2>7. CASE F # {}
    <3>1. PICK p \in F : TRUE
      BY <2>7
    <3>2. PICK r \in Content(map) : r = RecAt(given, p)
      BY <2>4, <3>1
    <3>3. Held(key) = r.v
      BY <2>3, <2>5, <3>1, <3>2
    <3> QED BY <2>5, <2>7, <3>1, <3>2, <3>3
  <2> QED BY <2>6, <2>7
<1> QED BY Invariant, <1>1, PTL

\* ... and a log is handed to apply exactly if the watched value changes with it.
THEOREM ChangesTold == Spec => []ToldExactly
<1>1. IInv => ToldExactly
  BY DEF IInv
<1> QED BY Invariant, <1>1, PTL

\* Whoever uses a map, the assert(0) of pmap_set_no_resize is not reached.
THEOREM NeverStuck == SumSpec => []Placeable
<1>1. SumInit => IInv /\ CallInv
  BY InitInvariant, CallInitInv DEF SumInit
<1>2. IInv /\ CallInv /\ [SumNext]_<<user, vars, callVars>> => IInv' /\ CallInv'
  <2> SUFFICES ASSUME IInv, CallInv, [SumNext]_<<user, vars, callVars>>
               PROVE  IInv' /\ CallInv'
    OBVIOUS
  <2>1. [Next]_vars /\ [CallNext]_callVars
    BY DEF SumNext
  <2> QED BY <2>1, NextInvariant, CallNextInvariant
<1>3. IInv /\ CallInv => Placeable
  <2> SUFFICES ASSUME IInv, CallInv, NEW key \in Key
               PROVE  Stops(Room(map), HashOf[key]) # {}
    BY CallInvShows DEF Placeable
  <2>1. PICK h : h = HashOf[key]
    OBVIOUS
  <2>2. h.hash \in Nat
    <3>1. h \in [hash : Nat, k : Nat]
      BY <2>1, HashAssumption
    <3> QED BY <3>1
  <2>3. NULL \in Refer /\ Map(map, Refer)
    BY DEF Refer, IInv, Good
  <2>4. Stops(Room(map), h) # {}
    BY <2>2, <2>3, AlwaysPlaceable
  <2> QED BY <2>1, <2>4
<1> QED BY <1>1, <1>2, <1>3, PTL DEF SumSpec
=============================================================================
