---------------------------- MODULE TimerWindow ----------------------------
(***************************************************************************)
(* plugins/pool/time.c: the Timer plugin keeps a copy of every log it is   *)
(* given and hands all of them on, oldest first, whenever it is applied.   *)
(* A log that is found older than the interval loses a reference at every  *)
(* later log, and is freed from the front of the list when it has none.    *)
(*                                                                         *)
(* The count a copy starts with is that of the original: RefInit, and one  *)
(* more for each value of the log if a React is above the Timer.  The time *)
(* of a log is that of pool_exec, which the Timer runs in.                 *)
(***************************************************************************)
EXTENDS Naturals, Integers, Sequences, FiniteSets

CONSTANTS Refcs,      \* h.refc of the logs the Timer is given
          Interval,   \* pool_plugin_timer.timer
          UsecPerSec, \* 1000000
          MsecPerSec, \* 1000
          Word,       \* 2^64, of the subtraction of times
          MaxNow,     \* bound: the last moment, in microseconds
          MaxLogs     \* bound: logs given to the Timer

ASSUME RefcsAssumption    == Refcs \subseteq Nat \ {0}
ASSUME IntervalAssumption == Interval \in Nat \ {0}
ASSUME ClockAssumption    == /\ UsecPerSec \in Nat \ {0}
                             /\ MsecPerSec \in Nat \ {0}
                             /\ Word \in Nat \ {0}
ASSUME BoundsAssumption   == MaxNow \in Nat /\ MaxLogs \in Nat

\* tv_sec * 1000 + tv_usec
ClockTime(usec) == (usec \div UsecPerSec) * MsecPerSec + (usec % UsecPerSec)

ASSUME WordAssumption     == \A usec \in 0 .. MaxNow : ClockTime(usec) < Word

VARIABLES now,    \* gettimeofday, in microseconds
          list,   \* LogList behind its head: [id, time, refc]
          shown,  \* what the last timer_apply handed on: [id, flag]
          logs,   \* history: all logs given so far: [at, time, refc]
          freed   \* history: the logs whose copies were freed

vars == <<now, list, shown, logs, freed>>

Entry  == [id : Nat, time : Nat, refc : Int]

\* Mutation: the name of the macro taken at its word.
RC0Zero(e) == e.refc <= 0

RC0(e) == e.refc < 0

Init == /\ now = 0
        /\ list = <<>>
        /\ shown = <<>>
        /\ logs = <<>>
        /\ freed = {}

Tick == /\ now < MaxNow
        /\ now' = now + 1
        /\ UNCHANGED <<list, shown, logs, freed>>

TimeMilliSecond == ClockTime(now)

Expired(e, current) == (current - e.time) % Word >= Interval

\* Mutation: the loop does not end at a log that is not expired.
AgedAll(current) == [i \in DOMAIN list |-> [list[i] EXCEPT !.refc = @ - 1]]

\* Mutation: only the first log of the list is looked at.
AgedFirst(current) ==
    [i \in DOMAIN list |-> IF i = 1 /\ Expired(list[i], current)
                           THEN [list[i] EXCEPT !.refc = @ - 1] ELSE list[i]]

\* LogList_check_timer: the loop ends at the first log that is not expired.
Aged(current) ==
    [i \in DOMAIN list |->
       IF \A j \in 1..i : Expired(list[j], current)
       THEN [list[i] EXCEPT !.refc = @ - 1]
       ELSE list[i]]

\* The logs that LogList_check_interval frees.
Dead(l) == {i \in DOMAIN l : \A j \in 1..i : RC0(l[j])}

\* Mutation: tail is reset as soon as the first log has no reference.
KeptWhenFirstDead(l) == IF l # <<>> /\ RC0(l[1]) THEN <<>>
                        ELSE SubSeq(l, Cardinality(Dead(l)) + 1, Len(l))

\* LogList_check_interval: what is in the list when LogList_append links its
\* log behind tail.  If the last log has no reference tail is reset to the
\* head of the list, whatever is in front of it.
Kept(l) == IF l # <<>> /\ RC0(l[Len(l)]) THEN <<>>
           ELSE SubSeq(l, Cardinality(Dead(l)) + 1, Len(l))

LogListAppend(r) ==
    LET aged == Aged(TimeMilliSecond)
        e    == [id |-> Len(logs) + 1, time |-> TimeMilliSecond, refc |-> r]
    IN  /\ Len(logs) < MaxLogs
        /\ list' = Append(Kept(aged), e)
        /\ freed' = freed \cup {aged[i].id : i \in Dead(aged)}
        /\ logs' = Append(logs, [at |-> now, time |-> e.time, refc |-> r])
        /\ UNCHANGED now

Show(e, flag) == [id |-> e.id, flag |-> flag]

\* timer_apply
TimerApply(r) ==
    /\ LogListAppend(r)
    /\ LET e == list'[Len(list')]
       IN  shown' = <<Show(e, "start")>>
                      \o [i \in DOMAIN list' |-> Show(list'[i], "cont")]
                      \o <<Show(e, "finish")>>

\* timer_failed
TimerFailed(r) == LogListAppend(r) /\ UNCHANGED shown

Next == \/ Tick
        \/ \E r \in Refcs : TimerApply(r)
        \/ \E r \in Refcs : TimerFailed(r)

Spec == Init /\ [][Next]_vars

-----------------------------------------------------------------------------
(* Properties *)

\* The shapes of the variables.
TypeOK == /\ now \in Nat
          /\ list \in Seq(Entry)
          /\ shown \in Seq([id : Nat, flag : {"start", "cont", "finish"}])
          /\ logs \in Seq([at : Nat, time : Nat, refc : Nat])
          /\ freed \subseteq Nat

Ids(l) == {l[i].id : i \in DOMAIN l}

\* Every log that was given to the Timer is in its list, oldest first, or its
\* copy was freed, and never both: resetting tail to the head of the list
\* cuts nothing off that still has references.
NoLeak == /\ Ids(list) \cup freed = 1 .. Len(logs)
          /\ Ids(list) \cap freed = {}
          /\ \A i, j \in DOMAIN list : i < j => list[i].id < list[j].id

\* The logs that were handed on with flag_cont, which Statics calls its
\* function for.
Continued == {shown[i].id : i \in {j \in DOMAIN shown : shown[j].flag = "cont"}}

\* Log n, and every log since log k, found log k younger than the interval.
Fresh(k, n) ==
    \A m \in k + 1 .. n : logs[m].time \in logs[k].time .. logs[k].time + Interval - 1

\* A timer_apply hands on every log that was younger than the interval at
\* that moment and at every log before, those that a timer_failed only
\* buffered included, whatever the clock does to other logs.
FreshShown ==
    shown # <<>> =>
      LET n == shown[1].id
      IN  \A k \in 1 .. n : Fresh(k, n) => k \in Continued

\* How often log k was found expired, by the logs after it.
TimesExpired(k) ==
    Cardinality({n \in k + 1 .. Len(logs) : logs[n].time - logs[k].time >= Interval})

ClockForward == \A i, j \in DOMAIN logs : i <= j => logs[i].time <= logs[j].time

\* As long as the clock goes forward an expired log is handed on as often as
\* some log has references, never more: the counts, which start with RefInit,
\* let expired logs stay for a while, and a log with many holds those behind
\* it no longer than itself.
StaleBound ==
    ClockForward =>
      \A i \in DOMAIN list : \E r \in Refcs : TimesExpired(list[i].id) <= r

\* The assertion of LogList_check_interval in builds with DEBUG: when the
\* last log has no reference, no log in front of it has one.  The counts of
\* the logs differ, but the last one is aged at most once.
Appends == Len(logs') > Len(logs)
DebugAssert ==
    LET aged == Aged(TimeMilliSecond)
    IN  aged # <<>> /\ RC0(aged[Len(aged)]) => \A i \in DOMAIN aged : RC0(aged[i])
AssertHolds == [][Appends => DebugAssert]_vars

\* A timer_apply hands on every log that is younger than the interval, in
\* milliseconds of the clock, which the name TimeMilliSecond says a time is in.
Millisecond(usec) == usec \div (UsecPerSec \div MsecPerSec)
FreshShownInTime ==
    shown # <<>> =>
      LET n == shown[1].id
      IN  \A k \in 1 .. n :
            Millisecond(logs[k].at) + Interval > Millisecond(logs[n].at)
              => k \in Continued
=============================================================================
