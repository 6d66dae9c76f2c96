------------------------- MODULE ClientThread_proofs -------------------------
(***************************************************************************)
(* Theorems about ClientThread, for any logs and any number of them, and   *)
(* whatever the server does.                                               *)
(***************************************************************************)
EXTENDS ClientThread, TLAPS

\* Where the two threads can be at the same time, and what the flag tells.
\* Once a part has arrived the thread is known to have set it, and a close that
\* comes after a read has taken it waits for the thread.
Threads == /\ flag => thread \in {"loop", "undefined"}
           /\ thread = "loop" => flag
           /\ thread = "undefined" => io = "freed"
           /\ main = "opening" => thread = "none"
           /\ io = "freed" => main = "closed"
           /\ arrived > 0 => thread \notin {"none", "new"}
           /\ main \in {"freeing", "closed"} /\ taken > 0 => thread = "done"

IInv == TypeOK /\ InOrder /\ Threads

\* The steps that do not touch what was sent and read.
Still == UNCHANGED <<asked, sent, arrived, taken, got>>

-----------------------------------------------------------------------------
LEMMA GetStep ==
  ASSUME TypeOK, InOrder, Get
  PROVE  /\ taken' \in 0 .. arrived /\ got' \in Seq(Log)
         /\ Len(got') <= Len(sent) /\ Parts * Len(got') <= taken'
         /\ \A i \in 1 .. Len(got') : got'[i] = sent[i]
<1> DEFINE next == sent[Len(got) + 1]
<1>t. /\ Len(got) \in Nat /\ Len(sent) \in Nat /\ taken \in Nat /\ arrived \in Nat
      /\ taken <= arrived /\ arrived <= Parts * Len(sent)
      /\ Parts * Len(got) <= taken /\ Parts = 2
      /\ got \in Seq(Log) /\ sent \in Seq(Log)
  BY DEF TypeOK, InOrder, Parts
<1>1. taken' \in {taken, arrived}
  BY DEF Get, stream
<1>2. \/ got' = got
      \/ got' = Append(got, next) /\ Parts * (Len(got) + 1) <= taken'
  BY <1>t DEF Get, stream
<1>3. CASE got' = got
  <2>1. taken' \in 0 .. arrived /\ Parts * Len(got) <= taken'
    <3>1. PICK t : t = taken'
      OBVIOUS
    <3>2. t = taken \/ t = arrived
      BY <1>1, <3>1
    <3>3. t \in 0 .. arrived /\ Parts * Len(got) <= t
      BY <1>t, <3>2
    <3> QED BY <3>1, <3>3
  <2> QED BY <1>3, <1>t, <2>1 DEF InOrder
<1>4. CASE got' = Append(got, next) /\ Parts * (Len(got) + 1) <= taken'
  <2>1. /\ taken' \in 0 .. arrived /\ Len(got) + 1 <= Len(sent)
    <3>1. PICK t : t = taken'
      OBVIOUS
    <3>2. (t = taken \/ t = arrived) /\ Parts * (Len(got) + 1) <= t
      BY <1>1, <1>4, <3>1
    <3>3. t \in 0 .. arrived /\ Len(got) + 1 <= Len(sent)
      BY <1>t, <3>2
    <3> QED BY <3>1, <3>3
  <2>2. next \in Log
    BY <1>t, <2>1
  <2> HIDE DEF next
  <2>3. Append(got, next) \in Seq(Log) /\ Len(Append(got, next)) = Len(got) + 1
    BY <1>t, <2>2
  <2>4. ASSUME NEW i \in 1 .. Len(got) + 1 PROVE Append(got, next)[i] = sent[i]
    <3>1. CASE i = Len(got) + 1
      <4>1. Append(got, next)[Len(got) + 1] = next
        BY <1>t, <2>2
      <4> QED BY <3>1, <4>1 DEF next
    <3>2. CASE i # Len(got) + 1
      <4>1. i \in 1 .. Len(got)
        BY <1>t, <3>2
      <4>2. Append(got, next)[i] = got[i]
        BY <1>t, <2>2, <4>1
      <4> QED BY <4>1, <4>2 DEF InOrder
    <3> QED BY <3>1, <3>2
  <2> QED BY <1>4, <2>1, <2>3, <2>4
<1> QED BY <1>2, <1>3, <1>4

LEMMA DataStep == TypeOK /\ InOrder /\ [Next]_vars => TypeOK' /\ InOrder'
<1> SUFFICES ASSUME TypeOK, InOrder, [Next]_vars PROVE TypeOK' /\ InOrder'
  OBVIOUS
<1>1. CASE Get
  <2>1. main' \in {"open", "undefined"}
    BY <1>1 DEF Get
  <2>2. UNCHANGED <<thread, flag, bev, exit, io, peer, asked, sent, arrived>>
    BY <1>1 DEF Get, shared, wire
  <2> QED BY GetStep, <1>1, <2>1, <2>2 DEF TypeOK, InOrder
<1>2. ASSUME NEW n \in arrived + 1 .. Parts * Len(sent), Readable(n)
      PROVE  TypeOK' /\ InOrder'
  <2>1. n \in 0 .. Parts * Len(sent) /\ taken \in 0 .. n
    BY DEF TypeOK, Parts
  <2>2. arrived' = n /\ UNCHANGED <<main, thread, flag, bev, exit, io, peer,
                                    asked, sent, taken, got>>
    BY <1>2 DEF Readable, shared, stream
  <2> QED BY <2>1, <2>2 DEF TypeOK, InOrder
<1>3. ASSUME NEW log \in Log, Respond(log) PROVE TypeOK' /\ InOrder'
  <2>1. /\ sent' = Append(sent, log)
        /\ UNCHANGED <<main, thread, flag, bev, exit, io, peer, asked, arrived,
                       taken, got>>
    BY <1>3 DEF Respond, shared, stream
  <2>2. /\ Append(sent, log) \in Seq(Log) /\ Len(Append(sent, log)) = Len(sent) + 1
        /\ \A i \in 1 .. Len(sent) : Append(sent, log)[i] = sent[i]
    BY DEF TypeOK
  <2>3. arrived \in 0 .. Parts * (Len(sent) + 1) /\ Len(got) <= Len(sent) + 1
    BY DEF TypeOK, InOrder, Parts
  <2>4. \A i \in 1 .. Len(got) : i \in 1 .. Len(sent)
    BY DEF TypeOK, InOrder
  <2>5. TypeOK'
    BY <2>1, <2>2, <2>3 DEF TypeOK
  <2>6. InOrder'
    BY <2>1, <2>2, <2>3, <2>4 DEF InOrder
  <2> QED BY <2>5, <2>6
<1>4. CASE Write
  <2>1. /\ main' \in {"open", "undefined"} /\ asked' \in BOOLEAN
        /\ UNCHANGED <<thread, flag, bev, exit, io, peer, sent, arrived, taken, got>>
    BY <1>4 DEF Write, shared, stream
  <2> QED BY <2>1 DEF TypeOK, InOrder
<1>5. CASE Close
  <2>1. /\ main' \in {"joining", "freeing"} /\ exit' \in BOOLEAN
        /\ UNCHANGED <<thread, flag, bev, io, peer, asked, sent, arrived, taken, got>>
    BY <1>5 DEF Close, wire, stream
  <2> QED BY <2>1 DEF TypeOK, InOrder
<1>6. CASE \/ CreateThread \/ InitFails \/ Started \/ Read \/ Poll \/ Join \/ Free
           \/ Flag \/ Connected \/ Eof \/ Leave \/ UseFreed \/ Lost
           \/ UNCHANGED vars
  <2>1. Still
    BY <1>6 DEF CreateThread, InitFails, Started, Read, Poll, Join, Free, Flag,
      Connected, Eof, Leave, UseFreed, Lost, vars, wire, stream, Still
  <2>2. InOrder'
    BY <2>1 DEF Still, InOrder
  <2>3. /\ main' \in {"opening", "starting", "open", "reading", "getting",
                       "joining", "freeing", "closed", "undefined"}
        /\ thread' \in {"none", "new", "loop", "done", "undefined"}
        /\ bev' \in {"live", "freed", "NULL"} /\ io' \in {"live", "freed"}
        /\ peer' \in {"connecting", "open", "closed"}
    <3>0. /\ main \in {"opening", "starting", "open", "reading", "getting",
                       "joining", "freeing", "closed", "undefined"}
          /\ thread \in {"none", "new", "loop", "done", "undefined"}
          /\ bev \in {"live", "freed", "NULL"} /\ io \in {"live", "freed"}
          /\ peer \in {"connecting", "open", "closed"}
      BY DEF TypeOK
    <3> QED BY <1>6, <3>0 DEF CreateThread, InitFails, Started, Read, Poll, Join,
      Free, Flag, Connected, Eof, Leave, UseFreed, Lost, vars, shared, wire
  <2>4. flag' \in BOOLEAN /\ exit' \in BOOLEAN
    <3>0. flag \in BOOLEAN /\ exit \in BOOLEAN
      BY DEF TypeOK
    <3> QED BY <1>6, <3>0 DEF CreateThread, InitFails, Started, Read, Poll, Join,
      Free, Flag, Connected, Eof, Leave, UseFreed, Lost, vars, shared
  <2> QED BY <2>1, <2>2, <2>3, <2>4 DEF Still, TypeOK
<1> QED BY <1>1, <1>2, <1>3, <1>4, <1>5, <1>6 DEF Next

LEMMA ThreadsStep == IInv /\ [Next]_vars => Threads'
<1> SUFFICES ASSUME IInv, [Next]_vars PROVE Threads'
  OBVIOUS
<1>0. /\ Threads
      /\ taken \in Nat /\ arrived \in Nat /\ taken <= arrived /\ flag \in BOOLEAN
      /\ thread \in {"none", "new", "loop", "done", "undefined"}
  BY DEF IInv, TypeOK, Parts
<1> USE <1>0 DEF Threads, shared, wire, stream
<1>1. CASE CreateThread \/ InitFails \/ Started \/ Read \/ Poll \/ Join \/ Free
  BY <1>1 DEF CreateThread, InitFails, Started, Read, Poll, Join, Free
<1>6. CASE Write
  <2>1. main = "open" /\ main' \in {"open", "undefined"}
        /\ UNCHANGED <<thread, flag, io, arrived, taken>>
    BY <1>6 DEF Write
  <2> QED BY <2>1
<1>7. CASE Close
  <2>1. main = "open" /\ main' \in {"joining", "freeing"} /\ (flag => main' = "joining")
        /\ UNCHANGED <<thread, flag, io, arrived, taken>>
    BY <1>7 DEF Close, wire
  <2> QED BY <2>1
<1>2. CASE Get
  <2>1. main = "getting" /\ main' \in {"open", "undefined"}
        /\ UNCHANGED <<thread, flag, io, arrived>>
    BY <1>2 DEF Get
  <2> QED BY <2>1
<1>3. CASE Flag \/ Connected \/ Eof \/ Leave \/ UseFreed
  BY <1>3 DEF Flag, Connected, Eof, Leave, UseFreed, Running
<1>4. CASE \E n \in arrived + 1 .. Parts * Len(sent) : Readable(n)
  <2>1. thread = "loop" /\ UNCHANGED <<main, thread, flag, io, taken>>
    BY <1>4 DEF Readable, Running
  <2> QED BY <2>1
<1>5. CASE (\E log \in Log : Respond(log)) \/ Lost \/ UNCHANGED vars
  BY <1>5 DEF Respond, Lost, vars
<1> QED BY <1>1, <1>2, <1>3, <1>4, <1>5, <1>6, <1>7 DEF Next

\* The invariant that the properties follow from.
THEOREM Invariance == Spec => []IInv
<1>1. Init => IInv
  <2> SUFFICES ASSUME Init PROVE IInv
    OBVIOUS
  <2>1. <<>> \in Seq(Log) /\ Len(<<>>) = 0 /\ 0 \in 0 .. Parts * 0 /\ 0 \in 0 .. 0
    BY DEF Parts
  <2>2. flag \in BOOLEAN /\ exit \in BOOLEAN /\ asked \in BOOLEAN
    BY Zenon DEF Init
  <2>3. TypeOK
    BY <2>1, <2>2 DEF Init, TypeOK
  <2>4. InOrder
    BY DEF Init, InOrder, Parts
  <2>5. Threads
    BY DEF Init, Threads
  <2> QED BY <2>3, <2>4, <2>5 DEF IInv
<1>2. IInv /\ [Next]_vars => IInv'
  BY DataStep, ThreadsStep DEF IInv
<1> QED BY <1>1, <1>2, PTL DEF Spec

\* The type invariant; no read takes more than has arrived (chunk_stream_get).
THEOREM TypeCorrect == Spec => []TypeOK
<1>1. IInv => TypeOK
  BY DEF IInv
<1> QED BY <1>1, Invariance, PTL

\* Reads return what the server has sent, in order, however often a read finds
\* a part of a log and fails (io_client_read).
THEOREM OrderCorrect == Spec => []InOrder
<1>1. IInv => InOrder
  BY DEF IInv
<1> QED BY <1>1, Invariance, PTL

\* A program that has read a log can close: io_close frees the io structure only
\* after the thread is done with it (io_client_close).
THEOREM CloseCorrect == Spec => []ReaderCloses
<1>1. IInv => ReaderCloses
  <2> SUFFICES ASSUME IInv, io = "freed", got # <<>> PROVE thread = "done"
    BY DEF ReaderCloses
  <2>1. Len(got) > 0
    BY DEF IInv, TypeOK
  <2>2. taken > 0
    BY <2>1 DEF IInv, TypeOK, InOrder, Parts
  <2> QED BY <2>2 DEF IInv, Threads
<1> QED BY <1>1, Invariance, PTL
=============================================================================
