-------------------------- MODULE TimerWindow_proofs --------------------------
(***************************************************************************)
(* Theorems about TimerWindow, for any interval, any counts and any clock. *)
(***************************************************************************)
EXTENDS TimerWindow, FiniteSetTheorems, SequenceTheorems, WellFoundedInduction, TLAPS

\* The list is the end of the sequence of all logs, and the rest is freed.
Gone == Len(logs) - Len(list)
Suffix == /\ Gone \in Nat
          /\ \A i \in DOMAIN list : /\ list[i].id = Gone + i
                                    /\ list[i].time = logs[Gone + i].time
          /\ freed = 1 .. Gone

\* The last log has not been aged yet, nor has one that is fresh.
Untouched == /\ list # <<>> => list[Len(list)].refc \in Refcs
             /\ \A k \in 1 .. Len(logs) :
                  Fresh(k, Len(logs)) => k > Gone /\ list[k - Gone].refc \in Refcs

\* While the clock goes forward the counts tell how often a log has expired,
\* and the first log of the list still has a reference.
Counted == /\ \A k \in 1 .. Len(logs) : logs[k].refc \in Refcs /\ logs[k].time < Word
           /\ list # <<>> => ~RC0(list[1])
           /\ ClockForward =>
                \A i \in DOMAIN list, k \in DOMAIN logs :
                  k = Gone + i => list[i].refc = logs[k].refc - TimesExpired(k)

\* What was handed on is not forgotten.
Handed == shown # <<>> =>
            /\ shown[1].id \in 1 .. Len(logs)
            /\ FreshShown

IInv == TypeOK /\ now <= MaxNow /\ Suffix /\ Untouched /\ Counted /\ Handed

-----------------------------------------------------------------------------
(* What LogList_append does *)

\* A set of naturals has a least element.
LEMMA Least ==
  ASSUME NEW S, S \subseteq Nat, S # {}
  PROVE  \E n \in S : \A m \in S : n <= m
<1>1. PICK n \in S : \A m \in S : ~ (<<m, n>> \in OpToRel(<, Nat))
  BY NatLessThanWellFounded, WFMin, Zenon
<1>2. \A m \in S : ~(m < n)
  BY <1>1 DEF OpToRel
<1> QED BY <1>2

\* The dead logs of a list are its first ones, up to one that is alive.
LEMMA DeadPrefix ==
  ASSUME NEW l \in Seq(Entry)
  PROVE  \E d \in 0 .. Len(l) : /\ Dead(l) = 1 .. d
                                /\ Cardinality(Dead(l)) = d
                                /\ d < Len(l) => ~RC0(l[d + 1])
<1> DEFINE alive == {i \in 1 .. Len(l) : ~RC0(l[i])}
<1>1. ASSUME NEW d \in 0 .. Len(l), \A i \in 1 .. d : RC0(l[i]),
             d < Len(l) => ~RC0(l[d + 1])
      PROVE  /\ Dead(l) = 1 .. d
             /\ Cardinality(Dead(l)) = d
  <2>1. Dead(l) = 1 .. d
    <3>1. ASSUME NEW i \in 1 .. Len(l), i > d PROVE i \notin Dead(l)
      <4>1. d + 1 \in 1 .. i /\ ~RC0(l[d + 1])
        BY <1>1, <3>1
      <4> QED BY <4>1 DEF Dead
    <3>2. ASSUME NEW i \in 1 .. d PROVE i \in Dead(l)
      BY <1>1 DEF Dead
    <3>3. Dead(l) \subseteq 1 .. Len(l)
      BY DEF Dead
    <3>4. \A i \in 1 .. Len(l) : i > d <=> i \notin 1 .. d
      OBVIOUS
    <3>5. 1 .. d \subseteq 1 .. Len(l)
      OBVIOUS
    <3> QED BY <3>1, <3>2, <3>3, <3>4, <3>5, Zenon
  <2>2. Cardinality(1 .. d) = d
    <3>1. d \in Nat /\ d - 1 + 1 = d
      OBVIOUS
    <3> QED BY <3>1, FS_Interval
  <2> QED BY <2>1, <2>2
<1>2. CASE alive = {}
  <2>1. \A i \in 1 .. Len(l) : RC0(l[i])
    BY <1>2
  <2>2. Len(l) \in 0 .. Len(l)
    OBVIOUS
  <2> QED BY <1>1, <2>1, <2>2
<1>3. CASE alive # {}
  <2>1. PICK n \in alive : \A m \in alive : n <= m
    <3>1. alive \subseteq Nat
      OBVIOUS
    <3> QED BY <1>3, <3>1, Least, Zenon
  <2>2. n - 1 \in 0 .. Len(l) /\ \A i \in 1 .. n - 1 : RC0(l[i])
    BY <2>1
  <2>3. ~RC0(l[(n - 1) + 1])
    BY <2>1
  <2> QED BY <1>1, <2>2, <2>3
<1> QED BY <1>2, <1>3

LEMMA ClockType == ASSUME TypeOK PROVE TimeMilliSecond \in Nat
<1>1. now \div UsecPerSec \in Nat /\ now % UsecPerSec \in Nat
  <2>1. now \in Nat
    BY DEF TypeOK
  <2> QED BY <2>1, ClockAssumption
<1>2. (now \div UsecPerSec) * MsecPerSec \in Nat
  BY <1>1, ClockAssumption
<1> QED BY <1>1, <1>2 DEF TimeMilliSecond, ClockTime

\* LogList_check_timer changes counts only.
LEMMA AgedEntry ==
  ASSUME TypeOK, NEW current \in Nat
  PROVE  /\ Aged(current) \in Seq(Entry)
         /\ Len(Aged(current)) = Len(list)
         /\ \A i \in 1 .. Len(list) :
              LET a == Aged(current)[i]
              IN  /\ a.id = list[i].id
                  /\ a.time = list[i].time
                  /\ a.refc = IF \A j \in 1 .. i : Expired(list[j], current)
                              THEN list[i].refc - 1 ELSE list[i].refc
<1>1. ASSUME NEW i \in 1 .. Len(list)
      PROVE  LET a == Aged(current)[i]
             IN  /\ a \in Entry
                 /\ a.id = list[i].id
                 /\ a.time = list[i].time
                 /\ a.refc = IF \A j \in 1 .. i : Expired(list[j], current)
                             THEN list[i].refc - 1 ELSE list[i].refc
  <2>1. list[i] \in Entry
    BY DEF TypeOK
  <2>2. Aged(current)[i] = IF \A j \in 1 .. i : Expired(list[j], current)
                           THEN [list[i] EXCEPT !.refc = @ - 1] ELSE list[i]
    <3>1. i \in DOMAIN list
      BY DEF TypeOK
    <3> QED BY <3>1, Zenon DEF Aged
  <2> QED BY <2>1, <2>2 DEF Entry
<1>2. DOMAIN Aged(current) = 1 .. Len(list) /\ Len(list) \in Nat
  BY DEF Aged, TypeOK
<1>3. Aged(current) \in [1 .. Len(list) -> Entry]
  BY <1>1, <1>2 DEF Aged
<1> QED BY <1>1, <1>2, <1>3

\* How the list changes: d logs go from its front, and no log that still has
\* a reference goes with them.
Appended(r, d) ==
  LET current == TimeMilliSecond
      aged    == Aged(current)
      e       == [id |-> Len(logs) + 1, time |-> current, refc |-> r]
  IN  /\ \A i \in 1 .. d : RC0(aged[i])
      /\ d < Len(list) => ~RC0(aged[d + 1])
      /\ Len(list') = Len(list) - d + 1
      /\ list' \in Seq(Entry)
      /\ \A i \in 1 .. Len(list) - d : list'[i] = aged[i + d]
      /\ list'[Len(list')] = e
      /\ freed' = freed \cup {aged[i].id : i \in 1 .. d}

LEMMA AppendStep ==
  ASSUME TypeOK, Untouched, NEW r \in Refcs, LogListAppend(r)
  PROVE  \E d \in 0 .. Len(list) : Appended(r, d)
<1> DEFINE current == TimeMilliSecond
           aged    == Aged(current)
           e       == [id |-> Len(logs) + 1, time |-> current, refc |-> r]
<1>1. current \in Nat
  BY ClockType
<1>2. /\ aged \in Seq(Entry) /\ Len(aged) = Len(list)
      /\ \A i \in 1 .. Len(list) : aged[i].refc \in {list[i].refc, list[i].refc - 1}
  BY <1>1, AgedEntry
<1>3. PICK d \in 0 .. Len(aged) : /\ Dead(aged) = 1 .. d
                                  /\ Cardinality(Dead(aged)) = d
                                  /\ d < Len(aged) => ~RC0(aged[d + 1])
  BY <1>2, DeadPrefix
<1>4. ~(aged # <<>> /\ RC0(aged[Len(aged)]))
  <2> SUFFICES ASSUME aged # <<>> PROVE ~RC0(aged[Len(aged)])
    OBVIOUS
  <2>1. list # <<>> /\ Len(list) \in 1 .. Len(list)
    BY <1>2 DEF TypeOK
  <2>2. list[Len(list)].refc \in Nat \ {0}
    BY <2>1, RefcsAssumption DEF Untouched
  <2> QED BY <1>2, <2>1, <2>2 DEF RC0
<1>5. Kept(aged) = SubSeq(aged, d + 1, Len(list))
  BY <1>2, <1>3, <1>4 DEF Kept
<1>6. e \in Entry
  BY <1>1, RefcsAssumption DEF Entry, TypeOK
<1>7. /\ Kept(aged) \in Seq(Entry)
      /\ Len(Kept(aged)) = Len(list) - d
      /\ \A i \in 1 .. Len(list) - d : Kept(aged)[i] = aged[i + d]
  BY <1>2, <1>5
<1>8. list' = Append(Kept(aged), e)
  BY DEF LogListAppend
<1>9. /\ Len(list') = Len(list) - d + 1
      /\ list' \in Seq(Entry)
      /\ \A i \in 1 .. Len(list) - d : list'[i] = aged[i + d]
      /\ list'[Len(list')] = e
  BY <1>2, <1>6, <1>7, <1>8
<1>10. freed' = freed \cup {aged[i].id : i \in 1 .. d}
  BY <1>3 DEF LogListAppend
<1>11. \A i \in 1 .. d : RC0(aged[i])
  BY <1>3 DEF Dead
<1>12. Appended(r, d)
  BY <1>2, <1>3, <1>9, <1>10, <1>11 DEF Appended
<1> QED BY <1>2, <1>3, <1>12

-----------------------------------------------------------------------------
(* The invariant is inductive *)

LEMMA Shape ==
  ASSUME TypeOK, Suffix
  PROVE  /\ Gone \in Nat /\ Len(list) \in Nat /\ Len(logs) \in Nat
         /\ Gone + Len(list) = Len(logs)
         /\ DOMAIN list = 1 .. Len(list) /\ DOMAIN logs = 1 .. Len(logs)
         /\ \A k \in 1 .. Len(logs) : logs[k].time \in Nat
<1>1. /\ Len(list) \in Nat /\ Len(logs) \in Nat
      /\ DOMAIN list = 1 .. Len(list) /\ DOMAIN logs = 1 .. Len(logs)
  BY DEF TypeOK
<1>2. \A k \in 1 .. Len(logs) : logs[k].time \in Nat
  <2>1. \A k \in 1 .. Len(logs) : logs[k] \in [at : Nat, time : Nat, refc : Nat]
    <3>1. logs \in Seq([at : Nat, time : Nat, refc : Nat])
      BY DEF TypeOK
    <3> QED BY <3>1, ElementOfSeq
  <2> QED BY <2>1
<1>3. Gone \in Nat
  BY DEF Suffix
<1> QED BY <1>1, <1>2, <1>3 DEF Gone

\* What an append adds to the history.
LEMMA LogsStep ==
  ASSUME TypeOK, NEW r \in Refcs, LogListAppend(r)
  PROVE  /\ Len(logs') = Len(logs) + 1
         /\ logs' \in Seq([at : Nat, time : Nat, refc : Nat])
         /\ \A k \in 1 .. Len(logs) : logs'[k] = logs[k]
         /\ logs'[Len(logs) + 1].time = TimeMilliSecond
         /\ logs'[Len(logs) + 1].refc = r
<1>1. [at |-> now, time |-> TimeMilliSecond, refc |-> r] \in [at : Nat, time : Nat, refc : Nat]
  BY ClockType, RefcsAssumption DEF TypeOK
<1>2. logs' = Append(logs, [at |-> now, time |-> TimeMilliSecond, refc |-> r])
  BY DEF LogListAppend
<1> QED BY <1>1, <1>2 DEF TypeOK

\* A log that is found younger than the interval is not aged.
LEMMA FreshNotExpired ==
  ASSUME NEW e, NEW t \in Nat, e.time = t, NEW current \in Nat,
         current \in t .. t + Interval - 1
  PROVE  ~Expired(e, current)
<1>1. current - t \in Nat /\ current - t < Interval
  BY IntervalAssumption
<1>2. (current - t) % Word <= current - t
  BY <1>1, ClockAssumption
<1>3. (current - t) % Word \in Nat
  BY <1>1, ClockAssumption
<1> QED BY <1>1, <1>2, <1>3, IntervalAssumption DEF Expired

LEMMA SuffixStep ==
  ASSUME TypeOK, Suffix, NEW r \in Refcs, LogListAppend(r),
         NEW d \in 0 .. Len(list), Appended(r, d)
  PROVE  Suffix' /\ Gone' = Gone + d
<1> DEFINE aged == Aged(TimeMilliSecond)
<1>1. Len(list') = Len(list) - d + 1 /\ Len(logs') = Len(logs) + 1
  BY LogsStep DEF Appended
<1>2. Gone' = Gone + d /\ Gone' \in Nat
  BY <1>1, Shape DEF Gone
<1>3. \A i \in 1 .. Len(list) : aged[i].id = Gone + i /\ aged[i].time = logs[Gone + i].time
  <2>1. \A i \in 1 .. Len(list) : list[i].id = Gone + i /\ list[i].time = logs[Gone + i].time
    BY Shape DEF Suffix
  <2> QED BY <2>1, ClockType, AgedEntry
<1>4. Gone + Len(list) = Len(logs) /\ Gone \in Nat /\ Len(list) \in Nat /\ Len(logs) \in Nat
  BY Shape
<1>5. ASSUME NEW i \in 1 .. Len(list')
      PROVE  list'[i].id = Gone + d + i /\ list'[i].time = logs'[Gone + d + i].time
  <2>1. CASE i <= Len(list) - d
    <3>1. list'[i] = aged[i + d] /\ i + d \in 1 .. Len(list)
      BY <1>1, <1>4, <2>1 DEF Appended
    <3>2. Gone + (i + d) \in 1 .. Len(logs)
      BY <1>4, <3>1
    <3>3. Gone + (i + d) = Gone + d + i /\ logs'[Gone + (i + d)] = logs[Gone + (i + d)]
      <4>1. Gone + (i + d) = Gone + d + i
        BY <1>4
      <4> QED BY <3>2, <4>1, LogsStep
    <3> QED BY <1>3, <3>1, <3>3
  <2>2. CASE i = Len(list')
    <3>1. list'[i] = [id |-> Len(logs) + 1, time |-> TimeMilliSecond, refc |-> r]
      BY <2>2 DEF Appended
    <3>2. Gone + d + i = Len(logs) + 1
      BY <1>1, <1>4, <2>2
    <3> QED BY <3>1, <3>2, LogsStep
  <2> QED BY <1>1, <1>4, <2>1, <2>2
<1>6. freed' = 1 .. Gone'
  <2>1. {aged[i].id : i \in 1 .. d} = Gone + 1 .. Gone + d
    <3>1. \A i \in 1 .. d : aged[i].id = Gone + i
      BY <1>3, <1>4
    <3>2. \A n \in Gone + 1 .. Gone + d : n - Gone \in 1 .. d /\ n = Gone + (n - Gone)
      BY <1>4
    <3>3. \A i \in 1 .. d : Gone + i \in Gone + 1 .. Gone + d
      BY <1>4
    <3> QED BY <3>1, <3>2, <3>3
  <2>2. 1 .. Gone + d = (1 .. Gone) \cup (Gone + 1 .. Gone + d)
    BY <1>4
  <2> QED BY <1>2, <2>1, <2>2 DEF Appended, Suffix
<1>7. DOMAIN list' = 1 .. Len(list')
  BY DEF Appended
<1> QED BY <1>2, <1>5, <1>6, <1>7 DEF Suffix

\* Fresh looks at logs that are there already.
LEMMA FreshBefore ==
  ASSUME TypeOK, NEW r \in Refcs, LogListAppend(r),
         NEW n \in 1 .. Len(logs), NEW k \in 1 .. n
  PROVE  Fresh(k, n)' <=> Fresh(k, n)
<1>1. \A m \in 1 .. n : logs'[m] = logs[m]
  BY LogsStep DEF TypeOK
<1>2. k + 1 .. n \subseteq 1 .. n /\ k \in 1 .. n
  BY DEF TypeOK
<1> QED BY <1>1, <1>2 DEF Fresh

LEMMA UntouchedStep ==
  ASSUME TypeOK, Suffix, Untouched, NEW r \in Refcs, LogListAppend(r),
         NEW d \in 0 .. Len(list), Appended(r, d)
  PROVE  Untouched'
<1> DEFINE aged == Aged(TimeMilliSecond)
<1>n. PICK N \in Nat : N = Len(logs)
  BY Shape
<1>1. /\ Len(list') = Len(list) - d + 1 /\ Len(logs') = N + 1
      /\ N \in Nat /\ Len(list) \in Nat /\ Gone \in Nat
      /\ Gone + Len(list) = N /\ Gone' = Gone + d
  BY <1>n, LogsStep, SuffixStep, Shape DEF Appended
<1>2. list'[Len(list')].refc = r
  BY DEF Appended
<1>3. ASSUME NEW k \in 1 .. N + 1, Fresh(k, N + 1)'
      PROVE  k > Gone' /\ list'[k - Gone'].refc \in Refcs
  <2>1. CASE k = N + 1
    <3>1. k - Gone' = Len(list') /\ k > Gone'
      BY <1>1, <2>1
    <3> QED BY <1>2, <3>1
  <2>2. CASE k \in 1 .. N
    <3>1. Fresh(k, N)
      <4>1. Fresh(k, N)'
        BY <1>n, <1>1, <1>3, <2>2, Shape DEF Fresh
      <4> QED BY <1>n, <1>1, <2>2, <4>1, FreshBefore
    <3>2. k > Gone /\ list[k - Gone].refc \in Refcs
      BY <1>n, <2>2, <3>1 DEF Untouched
    <3> DEFINE i == k - Gone
    <3>3. i \in 1 .. Len(list) /\ Gone + i = k
      BY <1>1, <2>2, <3>2
    <3>4. list[i].time = logs[k].time /\ logs[k].time \in Nat
      BY <1>n, <2>2, <3>3, Shape DEF Suffix
    <3>5. TimeMilliSecond \in logs[k].time .. logs[k].time + Interval - 1
      <4>1. logs'[N + 1].time \in logs'[k].time .. logs'[k].time + Interval - 1
        BY <1>1, <1>3, <2>2 DEF Fresh
      <4> QED BY <1>n, <2>2, <4>1, LogsStep
    <3>6. ~Expired(list[i], TimeMilliSecond)
      BY <3>4, <3>5, ClockType, FreshNotExpired
    <3>7. aged[i].refc = list[i].refc
      BY <3>3, <3>6, ClockType, AgedEntry
    <3>8. i > d
      <4>0. aged[i].refc \in Nat
        BY <3>2, <3>7, RefcsAssumption
      <4>1. ~RC0(aged[i])
        BY <4>0 DEF RC0
      <4> QED BY <3>3, <4>1 DEF Appended
    <3>9. list'[i - d] = aged[i]
      BY <1>1, <3>3, <3>8 DEF Appended
    <3>10. k - Gone' = i - d /\ k > Gone'
      BY <1>1, <3>3, <3>8
    <3> QED BY <3>2, <3>7, <3>9, <3>10
  <2>3. k = N + 1 \/ k \in 1 .. N
    OBVIOUS
  <2> QED BY <2>1, <2>2, <2>3, Zenon
<1>4. list' # <<>> => list'[Len(list')].refc \in Refcs
  BY <1>2
<1>5. \A k \in 1 .. Len(logs') :
        Fresh(k, Len(logs))' => k > Gone' /\ list'[k - Gone'].refc \in Refcs
  BY <1>1, <1>3 DEF Fresh
<1> QED BY <1>4, <1>5 DEF Untouched

\* While the clock goes forward a log is aged exactly when it has expired,
\* since the logs in front of it are no younger.
LEMMA AgedForward ==
  ASSUME TypeOK, Suffix, Counted, now <= MaxNow,
         NEW current \in Nat, current = TimeMilliSecond,
         \A k \in 1 .. Len(logs) : logs[k].time <= current,
         ClockForward, NEW i \in 1 .. Len(list)
  PROVE  (\A j \in 1 .. i : Expired(list[j], current))
           <=> current - logs[Gone + i].time >= Interval
<1> DEFINE late(j) == current - logs[Gone + j].time
<1>1. current < Word
  <2>1. now \in 0 .. MaxNow
    BY BoundsAssumption DEF TypeOK
  <2> QED BY <2>1, WordAssumption DEF TimeMilliSecond
<1>2. ASSUME NEW j \in 1 .. i
      PROVE  /\ Gone + j \in 1 .. Len(logs) /\ list[j].time = logs[Gone + j].time
             /\ logs[Gone + j].time \in Nat
  <2>1. Gone + j \in 1 .. Len(logs) /\ j \in DOMAIN list
    BY Shape
  <2> QED BY <2>1, Shape DEF Suffix
<1>3. ASSUME NEW j \in 1 .. i PROVE Expired(list[j], current) <=> late(j) >= Interval
  <2>1. late(j) \in Nat /\ late(j) < Word
    <3>1. logs[Gone + j].time <= current
      BY <1>2
    <3> QED BY <1>1, <1>2, <3>1, ClockAssumption
  <2>2. late(j) % Word = late(j)
    <3> HIDE DEF late
    <3> QED BY <2>1, ClockAssumption
  <2>3. current - list[j].time = late(j)
    BY <1>2
  <2> QED BY <2>2, <2>3, Zenon DEF Expired
<1>4. ASSUME NEW j \in 1 .. i PROVE late(j) >= late(i)
  <2>1. i \in 1 .. i
    OBVIOUS
  <2>2. Gone + j <= Gone + i /\ Gone + j \in DOMAIN logs /\ Gone + i \in DOMAIN logs
    BY <1>2, <2>1, Shape
  <2>3. logs[Gone + j].time <= logs[Gone + i].time
    BY <2>2 DEF ClockForward
  <2> QED BY <1>2, <2>1, <2>3
<1>5. i \in 1 .. i /\ late(i) \in Int /\ \A j \in 1 .. i : late(j) \in Int
  BY <1>2
<1> QED BY <1>3, <1>4, <1>5, IntervalAssumption

\* The count of a log goes up with a log that finds it expired.
LEMMA TimesExpiredStep ==
  ASSUME TypeOK, NEW r \in Refcs, LogListAppend(r), NEW k \in 1 .. Len(logs)
  PROVE  /\ TimesExpired(k) \in Nat
         /\ TimeMilliSecond - logs[k].time >= Interval =>
              TimesExpired(k)' = TimesExpired(k) + 1
         /\ ~(TimeMilliSecond - logs[k].time >= Interval) =>
              TimesExpired(k)' = TimesExpired(k)
<1> DEFINE n     == Len(logs) + 1
           old   == {m \in k + 1 .. Len(logs) : logs[m].time - logs[k].time >= Interval}
           new   == {m \in k + 1 .. Len(logs') : logs'[m].time - logs'[k].time >= Interval}
           found == TimeMilliSecond - logs[k].time >= Interval
<1>1. /\ Len(logs) \in Nat /\ Len(logs') = n /\ logs'[n].time = TimeMilliSecond
      /\ \A m \in 1 .. Len(logs) : logs'[m] = logs[m]
  <2>1. Len(logs) \in Nat
    BY DEF TypeOK
  <2> QED BY <2>1, LogsStep
<1>2. IsFiniteSet(old) /\ Cardinality(old) \in Nat /\ n \notin old
  <2>1. IsFiniteSet(k + 1 .. Len(logs))
    BY <1>1, FS_Interval
  <2>2. IsFiniteSet(old)
    BY <2>1, FS_Subset
  <2> QED BY <1>1, <2>2, FS_CardinalityType
<1>3. \A m \in k + 1 .. Len(logs) : m \in new <=> m \in old
  BY <1>1
<1>4. n \in new <=> found
  BY <1>1
<1>5. k + 1 .. Len(logs') = (k + 1 .. Len(logs)) \cup {n}
  BY <1>1
<1>6. found => TimesExpired(k)' = TimesExpired(k) + 1
  <2> SUFFICES ASSUME found PROVE TimesExpired(k)' = TimesExpired(k) + 1
    OBVIOUS
  <2>1. new = old \cup {n}
    BY <1>3, <1>4, <1>5
  <2>2. Cardinality(new) = Cardinality(old) + 1
    BY <1>2, <2>1, FS_AddElement
  <2>3. TimesExpired(k) = Cardinality(old) /\ TimesExpired(k)' = Cardinality(new)
    BY DEF TimesExpired
  <2> QED BY <1>2, <2>2, <2>3
<1>7. ~found => TimesExpired(k)' = TimesExpired(k)
  <2> SUFFICES ASSUME ~found PROVE TimesExpired(k)' = TimesExpired(k)
    OBVIOUS
  <2>1. new = old
    BY <1>3, <1>4, <1>5
  <2>2. TimesExpired(k) = Cardinality(old) /\ TimesExpired(k)' = Cardinality(new)
    BY DEF TimesExpired
  <2> QED BY <1>2, <2>1, <2>2
<1>8. TimesExpired(k) \in Nat
  BY <1>2 DEF TimesExpired
<1> QED BY <1>6, <1>7, <1>8

LEMMA CountedStep ==
  ASSUME TypeOK, now <= MaxNow, Suffix, Untouched, Counted,
         NEW r \in Refcs, LogListAppend(r), NEW d \in 0 .. Len(list), Appended(r, d)
  PROVE  Counted'
<1>n. PICK N \in Nat : N = Len(logs)
  BY Shape
<1>c. PICK current \in Nat : current = TimeMilliSecond
  BY ClockType
<1> DEFINE aged == Aged(current)
<1>1. /\ Len(list') = Len(list) - d + 1 /\ Len(logs') = N + 1
      /\ Len(list) \in Nat /\ Gone \in Nat
      /\ Gone + Len(list) = N /\ Gone' = Gone + d /\ Gone' \in Nat
  <2>1. Len(list') = Len(list) - d + 1 /\ Len(logs') = N + 1
    BY <1>n, LogsStep DEF Appended
  <2>2. Gone' = Gone + d
    BY SuffixStep
  <2> QED BY <1>n, <2>1, <2>2, Shape
<1>2. \A k \in 1 .. N : logs'[k] = logs[k] /\ logs[k].refc \in Refcs /\ logs[k].time < Word
  BY <1>n, LogsStep DEF Counted
<1>3. logs'[N + 1].time = current /\ logs'[N + 1].refc = r
  BY <1>n, <1>c, LogsStep
<1>4. current < Word
  <2>1. now \in 0 .. MaxNow
    BY BoundsAssumption DEF TypeOK
  <2> QED BY <1>c, <2>1, WordAssumption DEF TimeMilliSecond
<1>5. \A k \in 1 .. N + 1 : logs'[k].refc \in Refcs /\ logs'[k].time < Word
  <2>1. \A k \in 1 .. N + 1 : k \in 1 .. N \/ k = N + 1
    OBVIOUS
  <2> QED BY <1>2, <1>3, <1>4, <2>1
<1>6. ~RC0(list'[1])
  <2>1. CASE d < Len(list)
    <3>1. list'[1] = aged[d + 1] /\ ~RC0(aged[d + 1])
      BY <1>1, <1>c, <2>1 DEF Appended
    <3> QED BY <3>1
  <2>2. CASE d = Len(list)
    <3>1. list'[1].refc = r
      BY <1>1, <2>2 DEF Appended
    <3> QED BY <3>1, RefcsAssumption DEF RC0
  <2> QED BY <1>1, <2>1, <2>2
<1>8. DOMAIN list' = 1 .. Len(list') /\ DOMAIN logs' = 1 .. N + 1
  BY <1>1, LogsStep DEF Appended
<1>7. ASSUME ClockForward', NEW i \in 1 .. Len(list'), NEW k \in 1 .. N + 1,
             k = Gone' + i
      PROVE  list'[i].refc = logs'[k].refc - TimesExpired(k)'
  <2>1. CASE i = Len(list')
    <3>1. k = N + 1
      BY <1>1, <1>7, <2>1
    <3>2. list'[i].refc = r
      BY <2>1 DEF Appended
    <3>3. TimesExpired(k)' = 0
      <4>1. {n \in k + 1 .. Len(logs') : logs'[n].time - logs'[k].time >= Interval} = {}
        BY <1>1, <3>1
      <4> QED BY <4>1, FS_EmptySet DEF TimesExpired
    <3>4. r \in Nat
      BY RefcsAssumption
    <3> QED BY <1>3, <3>1, <3>2, <3>3, <3>4
  <2>2. CASE i \in 1 .. Len(list) - d
    <3> DEFINE j == i + d
    <3>1. j \in 1 .. Len(list) /\ k \in 1 .. N /\ Gone + j = k
      BY <1>1, <1>7, <2>2
    <3>2. list'[i] = aged[j]
      BY <1>c, <2>2 DEF Appended
    <3>3. ClockForward /\ \A m \in 1 .. N : logs[m].time <= current
      <4>1. \A m, n \in 1 .. N + 1 : m <= n => logs'[m].time <= logs'[n].time
        BY <1>7, <1>8 DEF ClockForward
      <4>2. \A m, n \in 1 .. N : m <= n => logs[m].time <= logs[n].time
        BY <1>2, <4>1
      <4>3. \A m \in 1 .. N : logs[m].time <= current
        BY <1>2, <1>3, <4>1
      <4> QED BY <1>n, <4>2, <4>3, Shape DEF ClockForward
    <3>4. (\A m \in 1 .. j : Expired(list[m], current))
            <=> current - logs[k].time >= Interval
      BY <1>n, <1>c, <3>1, <3>3, AgedForward
    <3>5. aged[j].refc = IF current - logs[k].time >= Interval
                         THEN list[j].refc - 1 ELSE list[j].refc
      BY <3>1, <3>4, AgedEntry
    <3>6. list[j].refc = logs[k].refc - TimesExpired(k)
      BY <1>n, <3>1, <3>3, Shape DEF Counted
    <3>7. /\ TimesExpired(k) \in Nat
          /\ current - logs[k].time >= Interval => TimesExpired(k)' = TimesExpired(k) + 1
          /\ ~(current - logs[k].time >= Interval) => TimesExpired(k)' = TimesExpired(k)
      BY <1>n, <1>c, <3>1, TimesExpiredStep
    <3>8. logs'[k].refc = logs[k].refc /\ logs[k].refc \in Nat
      BY <1>2, <3>1, RefcsAssumption
    <3>9. CASE current - logs[k].time >= Interval
      <4>1. list'[i].refc = list[j].refc - 1 /\ TimesExpired(k)' = TimesExpired(k) + 1
        BY <3>2, <3>5, <3>7, <3>9
      <4>2. \A a, t \in Nat : (a - t) - 1 = a - (t + 1)
        OBVIOUS
      <4>3. (logs[k].refc - TimesExpired(k)) - 1 = logs[k].refc - (TimesExpired(k) + 1)
        BY <3>7, <3>8, <4>2, Zenon
      <4> QED BY <3>6, <3>8, <4>1, <4>3, Zenon
    <3>10. CASE ~(current - logs[k].time >= Interval)
      BY <3>2, <3>5, <3>6, <3>7, <3>8, <3>10
    <3> QED BY <3>9, <3>10
  <2> QED BY <1>1, <2>1, <2>2
<1> QED BY <1>1, <1>5, <1>6, <1>7, <1>8 DEF Counted

\* What timer_apply hands on for a list: all of it, between a start and a finish.
LEMMA Batch ==
  ASSUME NEW l \in Seq(Entry), l # <<>>, NEW s
  PROVE  s = <<Show(l[Len(l)], "start")>> \o [i \in DOMAIN l |-> Show(l[i], "cont")]
               \o <<Show(l[Len(l)], "finish")>>
         => /\ s \in Seq([id : Nat, flag : {"start", "cont", "finish"}])
            /\ s[1].id = l[Len(l)].id
            /\ \A i \in 1 .. Len(l) :
                 i + 1 \in DOMAIN s /\ s[i + 1].id = l[i].id /\ s[i + 1].flag = "cont"
<1>s. SUFFICES ASSUME s = <<Show(l[Len(l)], "start")>>
                            \o [i \in DOMAIN l |-> Show(l[i], "cont")]
                            \o <<Show(l[Len(l)], "finish")>>
               PROVE  /\ s \in Seq([id : Nat, flag : {"start", "cont", "finish"}])
                      /\ s[1].id = l[Len(l)].id
                      /\ \A i \in 1 .. Len(l) :
                           /\ i + 1 \in DOMAIN s
                           /\ s[i + 1].id = l[i].id /\ s[i + 1].flag = "cont"
  OBVIOUS
<1>S. PICK Shown : Shown = [id : Nat, flag : {"start", "cont", "finish"}]
  OBVIOUS
<1>1. Len(l) \in Nat /\ Len(l) \in 1 .. Len(l) /\ DOMAIN l = 1 .. Len(l)
  OBVIOUS
<1>2. \A i \in 1 .. Len(l) : l[i] \in Entry
  BY ElementOfSeq
<1>3. \A i \in 1 .. Len(l), f \in {"start", "cont", "finish"} :
        Show(l[i], f) \in Shown /\ Show(l[i], f).id = l[i].id /\ Show(l[i], f).flag = f
  BY <1>2, <1>S DEF Show, Entry
<1>4. PICK a : a = <<Show(l[Len(l)], "start")>>
  OBVIOUS
<1>5. PICK c : c = <<Show(l[Len(l)], "finish")>>
  OBVIOUS
<1>6. PICK b : b = [i \in DOMAIN l |-> Show(l[i], "cont")]
  OBVIOUS
<1>7. a \in Seq(Shown) /\ Len(a) = 1 /\ a[1] = Show(l[Len(l)], "start") /\ c \in Seq(Shown)
  <2>1. Show(l[Len(l)], "start") \in Shown /\ Show(l[Len(l)], "finish") \in Shown
    BY <1>1, <1>3
  <2> QED BY <1>4, <1>5, <2>1
<1>8. b \in Seq(Shown) /\ Len(b) = Len(l) /\ \A i \in 1 .. Len(l) : b[i] = Show(l[i], "cont")
  <2>1. b \in [1 .. Len(l) -> Shown]
    BY <1>1, <1>3, <1>6
  <2> QED BY <1>1, <1>6, <2>1
<1>9. s = a \o b \o c
  BY <1>s, <1>4, <1>5, <1>6, Zenon
<1>n. PICK n \in Nat : n = Len(l)
  BY <1>1
<1>m. Len(c) \in Nat
  BY <1>7
<1>10. /\ s \in Seq(Shown) /\ Len(s) >= n + 1 /\ s[1] = a[1]
       /\ \A i \in 1 .. n : s[i + 1] = b[i]
  <2> DEFINE ab == a \o b
  <2>0. /\ ab \in Seq(Shown) /\ Len(ab) = Len(a) + Len(b)
        /\ \A i \in 1 .. Len(a) + Len(b) :
             ab[i] = IF i <= Len(a) THEN a[i] ELSE b[i - Len(a)]
    <3>1. a \in Seq(Shown)
      BY <1>7
    <3>2. b \in Seq(Shown)
      BY <1>8
    <3> QED BY <3>1, <3>2, ConcatProperties, Zenon
  <2> HIDE DEF ab
  <2>1. Len(a) = 1 /\ Len(b) = n /\ Len(ab) = 1 + n
    BY <1>7, <1>8, <1>n, <2>0
  <2>2. /\ s \in Seq(Shown) /\ Len(s) = Len(ab) + Len(c)
        /\ \A i \in 1 .. Len(ab) + Len(c) :
             s[i] = IF i <= Len(ab) THEN ab[i] ELSE c[i - Len(ab)]
    <3>1. s = ab \o c
      BY <1>9 DEF ab
    <3>2. /\ ab \o c \in Seq(Shown) /\ Len(ab \o c) = Len(ab) + Len(c)
          /\ \A i \in 1 .. Len(ab) + Len(c) :
               (ab \o c)[i] = IF i <= Len(ab) THEN ab[i] ELSE c[i - Len(ab)]
      <4>1. ab \in Seq(Shown)
        BY <2>0
      <4>2. c \in Seq(Shown)
        BY <1>7
      <4> QED BY <4>1, <4>2, ConcatProperties, Zenon
    <3> QED BY <3>1, <3>2, Zenon
  <2>3. \A i \in 1 .. 1 + n : s[i] = ab[i]
    BY <1>m, <2>1, <2>2
  <2>4. s[1] = a[1]
    BY <2>0, <2>1, <2>3
  <2>5. ASSUME NEW i \in 1 .. n PROVE s[i + 1] = b[i]
    <3>1. i + 1 \in 1 .. 1 + n /\ ~(i + 1 <= 1) /\ i + 1 - 1 = i
      OBVIOUS
    <3>2. ab[i + 1] = b[i + 1 - 1]
      BY <2>0, <2>1, <3>1
    <3> QED BY <2>3, <3>1, <3>2
  <2> QED BY <1>m, <2>1, <2>2, <2>4, <2>5
<1>11. s[1].id = l[Len(l)].id
  <2>1. Show(l[Len(l)], "start").id = l[Len(l)].id
    BY DEF Show
  <2> QED BY <1>7, <1>10, <2>1, Zenon
<1>12. ASSUME NEW i \in 1 .. Len(l)
       PROVE  i + 1 \in DOMAIN s /\ s[i + 1].id = l[i].id /\ s[i + 1].flag = "cont"
  <2>1. i + 1 \in DOMAIN s
    BY <1>1, <1>10, <1>n
  <2>2. s[i + 1] = Show(l[i], "cont")
    BY <1>8, <1>n, <1>10, Zenon
  <2> QED BY <1>3, <2>1, <2>2
<1> QED BY <1>10, <1>11, <1>12, <1>S

\* timer_apply hands on what is in its list.
LEMMA ShownStep ==
  ASSUME TypeOK, NEW r \in Refcs, TimerApply(r), NEW d \in 0 .. Len(list), Appended(r, d)
  PROVE  /\ shown' \in Seq([id : Nat, flag : {"start", "cont", "finish"}])
         /\ shown'[1].id = Len(logs) + 1
         /\ \A i \in 1 .. Len(list') : list'[i].id \in Continued'
<1>1. PICK l \in Seq(Entry) : l = list'
  BY DEF Appended
<1>2. l # <<>> /\ l[Len(l)].id = Len(logs) + 1
  <2>1. Len(l) = Len(list) - d + 1 /\ Len(list) \in Nat
    BY <1>1 DEF Appended, TypeOK
  <2>2. l[Len(l)].id = Len(logs) + 1
    BY <1>1 DEF Appended
  <2> QED BY <2>1, <2>2
<1>3. PICK s : s = shown'
  OBVIOUS
<1>4. s = <<Show(l[Len(l)], "start")>> \o [i \in DOMAIN l |-> Show(l[i], "cont")]
            \o <<Show(l[Len(l)], "finish")>>
  BY <1>1, <1>3, Zenon DEF TimerApply
<1>5. /\ s \in Seq([id : Nat, flag : {"start", "cont", "finish"}])
      /\ s[1].id = l[Len(l)].id
      /\ \A i \in 1 .. Len(l) :
           i + 1 \in DOMAIN s /\ s[i + 1].id = l[i].id /\ s[i + 1].flag = "cont"
  BY <1>2, <1>4, Batch
<1>6. \A i \in 1 .. Len(l) : l[i].id \in Continued'
  <2>1. Continued' = {s[i].id : i \in {j \in DOMAIN s : s[j].flag = "cont"}}
    BY <1>3 DEF Continued
  <2> QED BY <1>5, <2>1
<1> QED BY <1>1, <1>2, <1>3, <1>5, <1>6

LEMMA HandedStep ==
  ASSUME TypeOK, Suffix, Untouched, Handed, NEW r \in Refcs,
         TimerApply(r) \/ TimerFailed(r), TypeOK', Suffix', Untouched',
         NEW d \in 0 .. Len(list), Appended(r, d)
  PROVE  Handed'
<1>1. LogListAppend(r)
  BY DEF TimerApply, TimerFailed
<1>n. PICK N \in Nat : N = Len(logs)
  BY Shape
<1>2. Len(logs') = N + 1
  BY <1>n, <1>1, LogsStep
<1>3. CASE TimerApply(r)
  <2>1. /\ shown'[1].id = N + 1
        /\ \A i \in 1 .. Len(list') : list'[i].id \in Continued'
    BY <1>n, <1>3, ShownStep
  <2>2. ASSUME NEW k \in 1 .. N + 1, Fresh(k, N + 1)' PROVE k \in Continued'
    <3>1. k > Gone'
      BY <1>2, <2>2 DEF Untouched, Fresh
    <3>2. Gone' + Len(list') = N + 1 /\ Gone' \in Nat /\ Len(list') \in Nat
      BY <1>2 DEF Gone, Suffix, TypeOK
    <3>3. k - Gone' \in 1 .. Len(list') /\ Gone' + (k - Gone') = k
      <4>1. \A g, l \in Nat : g + l = N + 1 /\ k > g => k - g \in 1 .. l /\ g + (k - g) = k
        OBVIOUS
      <4> QED BY <3>1, <3>2, <4>1, Zenon
    <3>4. list'[k - Gone'].id = k
      <4>1. \A i \in DOMAIN list' : list'[i].id = Gone' + i
        BY DEF Suffix
      <4>2. DOMAIN list' = 1 .. Len(list')
        BY DEF TypeOK
      <4> QED BY <3>3, <4>1, <4>2, Zenon
    <3> QED BY <2>1, <3>3, <3>4
  <2> QED BY <1>2, <2>1, <2>2 DEF Handed, FreshShown, Fresh
<1>4. CASE TimerFailed(r)
  <2> SUFFICES ASSUME shown # <<>>
               PROVE  /\ shown[1].id \in 1 .. N + 1
                      /\ \A k \in 1 .. shown[1].id :
                           Fresh(k, shown[1].id)' => k \in Continued
    BY <1>2, <1>4 DEF TimerFailed, Handed, FreshShown, Fresh, Continued
  <2>1. PICK n \in 1 .. N : n = shown[1].id
    BY <1>n DEF Handed
  <2>2. \A k \in 1 .. n : Fresh(k, n) => k \in Continued
    BY <2>1 DEF Handed, FreshShown
  <2> QED BY <1>n, <1>1, <1>4, <2>1, <2>2, FreshBefore DEF TimerFailed
<1> QED BY <1>3, <1>4

LEMMA AppendInvariant ==
  ASSUME IInv, NEW r \in Refcs, TimerApply(r) \/ TimerFailed(r)
  PROVE  IInv'
<1>1. TypeOK /\ now <= MaxNow /\ Suffix /\ Untouched /\ Counted /\ Handed
  BY DEF IInv
<1>2. LogListAppend(r)
  BY DEF TimerApply, TimerFailed
<1>3. PICK d \in 0 .. Len(list) : Appended(r, d)
  BY <1>1, <1>2, AppendStep
<1>4. now' = now
  BY <1>2 DEF LogListAppend
<1>5. Suffix' /\ Untouched' /\ Counted'
  BY <1>1, <1>2, <1>3, SuffixStep, UntouchedStep, CountedStep
<1>6. TypeOK'
  <2>1. now' \in Nat
    BY <1>1, <1>4 DEF TypeOK
  <2>2. list' \in Seq(Entry)
    BY <1>3 DEF Appended
  <2>3. shown' \in Seq([id : Nat, flag : {"start", "cont", "finish"}])
    <3>1. CASE TimerApply(r)
      BY <1>1, <1>3, <1>5, <3>1, ShownStep
    <3>2. CASE TimerFailed(r)
      BY <1>1, <3>2 DEF TimerFailed, TypeOK
    <3> QED BY <3>1, <3>2
  <2>4. logs' \in Seq([at : Nat, time : Nat, refc : Nat])
    BY <1>1, <1>2, LogsStep
  <2>5. freed' \subseteq Nat
    <3>1. freed' = 1 .. Gone' /\ Gone' \in Nat
      BY <1>5 DEF Suffix
    <3> QED BY <3>1
  <2> QED BY <2>1, <2>2, <2>3, <2>4, <2>5 DEF TypeOK
<1>7. Handed'
  BY <1>1, <1>3, <1>5, <1>6, HandedStep
<1> QED BY <1>1, <1>4, <1>5, <1>6, <1>7 DEF IInv

LEMMA Invariance == Spec => []IInv
<1>1. Init => IInv
  <2> SUFFICES ASSUME Init PROVE IInv
    OBVIOUS
  <2>1. now = 0 /\ list = <<>> /\ shown = <<>> /\ logs = <<>> /\ freed = {}
    BY DEF Init
  <2>2. Len(list) = 0 /\ Len(logs) = 0 /\ DOMAIN list = {} /\ DOMAIN logs = {} /\ 1 .. 0 = {}
    BY <2>1
  <2>3. TypeOK
    BY <2>1 DEF TypeOK
  <2>4. Suffix
    BY <2>1, <2>2 DEF Suffix, Gone
  <2>5. Untouched /\ Counted /\ Handed
    BY <2>1, <2>2 DEF Untouched, Counted, Handed
  <2> QED BY <2>1, <2>3, <2>4, <2>5, BoundsAssumption DEF IInv
<1>2. IInv /\ [Next]_vars => IInv'
  <2> SUFFICES ASSUME IInv, [Next]_vars PROVE IInv'
    OBVIOUS
  <2>1. CASE Tick
    <3>1. /\ now' \in Nat /\ now' <= MaxNow
          /\ list' = list /\ shown' = shown /\ logs' = logs /\ freed' = freed
      BY <2>1, BoundsAssumption DEF Tick, IInv, TypeOK
    <3>2. TypeOK'
      BY <3>1 DEF IInv, TypeOK
    <3>3. Suffix' /\ Untouched' /\ Counted' /\ Handed'
      BY <3>1 DEF IInv, Suffix, Gone, Untouched, Fresh, Counted, RC0, ClockForward,
                  TimesExpired, Handed, FreshShown, Continued
    <3> QED BY <3>1, <3>2, <3>3 DEF IInv
  <2>2. ASSUME NEW r \in Refcs, TimerApply(r) \/ TimerFailed(r) PROVE IInv'
    BY <2>2, AppendInvariant
  <2>3. CASE UNCHANGED vars
    <3>1. now' = now /\ list' = list /\ shown' = shown /\ logs' = logs /\ freed' = freed
      BY <2>3 DEF vars
    <3>2. TypeOK'
      BY <3>1 DEF IInv, TypeOK
    <3>3. Suffix' /\ Untouched' /\ Counted' /\ Handed'
      BY <3>1 DEF IInv, Suffix, Gone, Untouched, Fresh, Counted, RC0, ClockForward,
                  TimesExpired, Handed, FreshShown, Continued
    <3> QED BY <3>1, <3>2, <3>3 DEF IInv
  <2>4. Tick \/ (\E r \in Refcs : TimerApply(r) \/ TimerFailed(r)) \/ UNCHANGED vars
    BY DEF Next
  <2> QED BY <2>1, <2>2, <2>3, <2>4, Zenon
<1> QED BY <1>1, <1>2, PTL DEF Spec

-----------------------------------------------------------------------------
(* Theorems *)

\* The list, what was handed on and the history keep their shapes.
THEOREM TypeCorrect == Spec => []TypeOK
<1>1. IInv => TypeOK
  BY DEF IInv
<1> QED BY <1>1, Invariance, PTL

\* Whatever the counts of the logs and the moves of the clock, every log that
\* was given to the Timer is in its list, in the order of arrival, or was
\* freed, and not both: LogList_check_interval never cuts a log off.
THEOREM NoneLost == Spec => []NoLeak
<1>1. ASSUME IInv PROVE NoLeak
  <2>1. TypeOK /\ Suffix
    BY <1>1 DEF IInv
  <2>2. /\ Gone \in Nat /\ Len(list) \in Nat /\ Gone + Len(list) = Len(logs)
        /\ DOMAIN list = 1 .. Len(list)
    BY <2>1, Shape
  <2>3. \A i \in 1 .. Len(list) : list[i].id = Gone + i
    BY <2>1, <2>2 DEF Suffix
  <2>4. Ids(list) = Gone + 1 .. Len(logs)
    <3>1. \A n \in Gone + 1 .. Len(logs) : n - Gone \in 1 .. Len(list) /\ Gone + (n - Gone) = n
      BY <2>2
    <3>2. \A i \in 1 .. Len(list) : Gone + i \in Gone + 1 .. Len(logs)
      BY <2>2
    <3>3. Ids(list) = {Gone + i : i \in 1 .. Len(list)}
      BY <2>2, <2>3 DEF Ids
    <3>4. {Gone + i : i \in 1 .. Len(list)} = Gone + 1 .. Len(logs)
      BY <3>1, <3>2
    <3> QED BY <3>3, <3>4
  <2>5. freed = 1 .. Gone
    BY <2>1 DEF Suffix
  <2>6. (Gone + 1 .. Len(logs)) \cup (1 .. Gone) = 1 .. Len(logs)
    BY <2>2
  <2>7. (Gone + 1 .. Len(logs)) \cap (1 .. Gone) = {}
    BY <2>2
  <2>8. \A i, j \in 1 .. Len(list) : i < j => list[i].id < list[j].id
    BY <2>2, <2>3
  <2> QED BY <2>2, <2>4, <2>5, <2>6, <2>7, <2>8 DEF NoLeak
<1> QED BY <1>1, Invariance, PTL

\* A timer_apply hands on every log that has been younger than the interval
\* all the time, those a timer_failed only buffered included, even when the
\* clock jumps and other logs expire or leave the list early.
THEOREM FreshHandedOn == Spec => []FreshShown
<1>1. ASSUME IInv PROVE FreshShown
  <2>1. CASE shown = <<>>
    BY <2>1 DEF FreshShown
  <2>2. CASE shown # <<>>
    BY <1>1, <2>2 DEF IInv, Handed
  <2> QED BY <2>1, <2>2
<1> QED BY <1>1, Invariance, PTL

\* As long as the clock goes forward no log is found expired, while it is in
\* the list, more often than the largest count of references: a log behind
\* another is never older, so it has expired no more often than the first.
THEOREM StaleLeaves == Spec => []StaleBound
<1>1. ASSUME IInv PROVE StaleBound
  <2> SUFFICES ASSUME ClockForward, NEW i \in DOMAIN list
               PROVE  \E r \in Refcs : TimesExpired(list[i].id) <= r
    BY DEF StaleBound
  <2>1. TypeOK /\ Suffix /\ Counted
    BY <1>1 DEF IInv
  <2>2. /\ Gone \in Nat /\ Len(list) \in Nat /\ Len(logs) \in Nat
        /\ Gone + Len(list) = Len(logs)
        /\ DOMAIN list = 1 .. Len(list) /\ DOMAIN logs = 1 .. Len(logs)
        /\ \A k \in 1 .. Len(logs) : logs[k].time \in Nat
    BY <2>1, Shape
  <2> DEFINE first == Gone + 1
             k     == Gone + i
             Late(n) == {m \in n + 1 .. Len(logs) : logs[m].time - logs[n].time >= Interval}
  <2>3. list[i].id = k /\ first \in 1 .. Len(logs) /\ k \in 1 .. Len(logs) /\ first <= k
    BY <2>1, <2>2 DEF Suffix
  <2>4. Late(k) \subseteq Late(first)
    <3>1. logs[first].time <= logs[k].time
      BY <2>2, <2>3 DEF ClockForward
    <3>2. ASSUME NEW m \in k + 1 .. Len(logs), logs[m].time - logs[k].time >= Interval
          PROVE  m \in first + 1 .. Len(logs) /\ logs[m].time - logs[first].time >= Interval
      <4>1. m \in 1 .. Len(logs) /\ m \in first + 1 .. Len(logs)
        BY <2>2, <2>3
      <4>2. logs[m].time \in Nat /\ logs[k].time \in Nat /\ logs[first].time \in Nat
        BY <2>2, <2>3, <4>1
      <4> QED BY <3>1, <3>2, <4>1, <4>2, IntervalAssumption
    <3> QED BY <3>2
  <2>5. IsFiniteSet(Late(first))
    <3>1. IsFiniteSet(first + 1 .. Len(logs))
      BY <2>2, FS_Interval
    <3> QED BY <3>1, FS_Subset
  <2>6. TimesExpired(k) <= TimesExpired(first)
    <3> HIDE DEF first, k
    <3> QED BY <2>4, <2>5, FS_Subset DEF TimesExpired
  <2>7. TimesExpired(first) \in Nat /\ TimesExpired(k) \in Nat
    <3>1. IsFiniteSet(Late(k))
      BY <2>4, <2>5, FS_Subset
    <3> HIDE DEF first, k
    <3> QED BY <2>5, <3>1, FS_CardinalityType DEF TimesExpired
  <2>8. list[1].refc = logs[first].refc - TimesExpired(first)
    BY <2>1, <2>2, <2>3 DEF Counted
  <2>9. list[1].refc \in Int /\ ~(list[1].refc < 0)
    <3>1. list # <<>> /\ 1 \in 1 .. Len(list)
      BY <2>2
    <3>2. list[1] \in Entry
      BY <2>1, <3>1, ElementOfSeq DEF TypeOK
    <3> QED BY <2>1, <3>1, <3>2 DEF Counted, RC0, Entry
  <2>10. logs[first].refc \in Refcs /\ logs[first].refc \in Nat
    BY <2>1, <2>3, RefcsAssumption DEF Counted
  <2>11. TimesExpired(k) <= logs[first].refc
    <3>1. \A a, b, c \in Nat : ~(a - b < 0) /\ c <= b => c <= a
      OBVIOUS
    <3> QED BY <2>6, <2>7, <2>8, <2>9, <2>10, <3>1, Zenon
  <2> QED BY <2>3, <2>10, <2>11, Zenon
<1> QED BY <1>1, Invariance, PTL

\* The assertion of LogList_check_interval never fails: the last log of the
\* list has not been aged before, so one pass cannot take its references.
THEOREM AssertionHolds == Spec => AssertHolds
<1>1. ASSUME IInv, [Next]_vars PROVE [Appends => DebugAssert]_vars
  <2>1. TypeOK /\ Untouched
    BY <1>1 DEF IInv
  <2> DEFINE aged == Aged(TimeMilliSecond)
  <2>2. /\ aged \in Seq(Entry) /\ Len(aged) = Len(list)
        /\ \A i \in 1 .. Len(list) : aged[i].refc \in {list[i].refc, list[i].refc - 1}
    BY <2>1, ClockType, AgedEntry
  <2>3. ASSUME aged # <<>> PROVE ~RC0(aged[Len(aged)])
    <3>1. list # <<>> /\ Len(list) \in 1 .. Len(list)
      BY <2>1, <2>2, <2>3 DEF TypeOK
    <3>2. list[Len(list)].refc \in Nat \ {0}
      BY <2>1, <3>1, RefcsAssumption DEF Untouched
    <3> QED BY <2>2, <3>1, <3>2 DEF RC0
  <2> QED BY <2>3 DEF DebugAssert
<1> QED BY <1>1, Invariance, PTL DEF Spec, AssertHolds
=============================================================================
