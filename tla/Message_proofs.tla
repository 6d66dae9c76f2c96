--------------------------- MODULE Message_proofs ---------------------------
(***************************************************************************)
(* Proofs about the messages of logpool: first about ChunkStream, which    *)
(* cuts them out of the stream of a connection, for every header, pair and *)
(* buffer size, every set of message shapes, and any number of messages;   *)
(* then about LogWire, which writes what is in them and reads it again, for *)
(* every log, word size and key.                                           *)
(***************************************************************************)
EXTENDS ChunkStream, LogWire, WellFoundedInduction, SequenceTheorems, TLAPS

-----------------------------------------------------------------------------
(* Sizes *)

\* The header and the table of lengths are at least the header.
LEMMA PrefixSize == ASSUME NEW p \in Nat
                    PROVE  Prefix(p) \in Nat /\ Prefix(p) >= HeaderSize
<1>1. PairSize * p \in Nat
  BY SizesAssumption
<1> QED
  BY <1>1, SizesAssumption DEF Prefix

\* A message occupies at least a header, so it ends behind its start.
LEMMA MessageSize ==
  ASSUME NEW m \in Message
  PROVE  /\ Size(m) \in Nat /\ End(m) \in Nat
         /\ Size(m) >= Prefix(m.pairs)
         /\ Size(m) >= HeaderSize
         /\ End(m) = m.start + Size(m)
         /\ End(m) > m.start
<1>1. m.pairs \in Nat /\ m.body \in Nat /\ m.start \in Nat
  BY SizesAssumption DEF Message
<1>2. Prefix(m.pairs) \in Nat /\ Prefix(m.pairs) >= HeaderSize
  BY <1>1, PrefixSize
<1> QED
  BY <1>1, <1>2, SizesAssumption DEF Size, End

-----------------------------------------------------------------------------
(* The inductive invariant *)

\* The messages follow each other in the stream without a gap.
StreamOK == /\ Len(msgs) > 0 => msgs[1].start = 0
            /\ \A m \in 1 .. Len(msgs) - 1 : msgs[m + 1].start = End(msgs[m])
            /\ \A m, n \in 1..Len(msgs) : m < n => End(msgs[m]) <= msgs[n].start

\* Where the window ought to begin: at the message after the last returned.
Boundary == IF Len(got) < Len(msgs) THEN NextMessage.start ELSE Written

\* What a reader that is inside chunk_stream_get has found out so far.
NeedOK == /\ pc = "header" => need = HeaderSize
          /\ pc = "lengths" => Len(got) < Len(msgs) /\ need = Prefix(NextMessage.pairs)
          /\ pc \in {"message", "next"} =>
                 Len(got) < Len(msgs) /\ need = Size(NextMessage)
          /\ pc = "next" => len >= need

\* Window and Framing alone are not inductive: that the header at cs->cur is
\* the header of the next message, and that need is computed from it, has to
\* be carried along.
IInv == /\ TypeOK
        /\ StreamOK
        /\ taken <= arrived /\ arrived <= Written
        /\ Window
        /\ Framing
        /\ taken - len = Boundary
        /\ NeedOK

\* Sequence facts used in every step below.
LEMMA MessageInSeq ==
  ASSUME TypeOK, NEW m \in 1..Len(msgs)
  PROVE  msgs[m] \in Message
BY DEF TypeOK

\* The bytes written so far are a number of them.
LEMMA WrittenType == ASSUME TypeOK PROVE Written \in Nat
<1>1. CASE msgs = <<>>
  BY <1>1 DEF Written
<1>2. CASE msgs # <<>>
  <2>1. Len(msgs) \in 1..Len(msgs)
    BY <1>2 DEF TypeOK
  <2>2. msgs[Len(msgs)] \in Message
    BY <2>1, MessageInSeq
  <2> QED
    BY <1>2, <2>2, MessageSize DEF Written
<1> QED
  BY <1>1, <1>2

-----------------------------------------------------------------------------
(* chunk_stream_check_size *)

\* A refill keeps the window's front where it is in the stream and only
\* makes the window longer.
LEMMA CheckSizeWindow ==
  ASSUME IInv, CheckSize
  PROVE  /\ taken' \in Nat /\ len' \in Nat /\ cur' \in Nat
         /\ buffer' \in [Cells -> Int]
         /\ taken' <= arrived
         /\ taken' - len' = taken - len
         /\ len' >= len
         /\ cur' + len' <= BufferSize
         /\ \A i \in 0 .. len' - 1 : buffer'[cur' + i] = taken' - len' + i
<1>0. /\ taken \in Nat /\ len \in Nat /\ cur \in Nat /\ arrived \in Nat
      /\ need \in Nat /\ buffer \in [Cells -> Int]
      /\ taken <= arrived
      /\ cur + len <= BufferSize
      /\ \A i \in 0 .. len - 1 : buffer[cur + i] = taken - len + i
  BY DEF IInv, TypeOK, Window
<1>1. CASE UNCHANGED <<taken, buffer, cur, len>>
  BY <1>0, <1>1
<1>2. CASE /\ len < need /\ taken < arrived
           /\ Reset(Smaller(BufferSize - len, arrived - taken))
  <2> DEFINE k == Smaller(BufferSize - len, arrived - taken)
  <2>1. k \in Nat /\ k <= BufferSize - len /\ k <= arrived - taken
    BY <1>0, <1>2, SizesAssumption DEF Smaller
  <2>2. /\ buffer' = [i \in Cells |->
                        IF i < len THEN buffer[cur + i]
                        ELSE IF i < len + k THEN taken + (i - len)
                        ELSE buffer[i]]
        /\ cur' = 0 /\ len' = len + k /\ taken' = taken + k
    BY <1>2 DEF Reset
  <2> HIDE DEF k
  <2>3. buffer' \in [Cells -> Int]
    <3>1. ASSUME NEW i \in Cells
          PROVE  (IF i < len THEN buffer[cur + i]
                  ELSE IF i < len + k THEN taken + (i - len)
                  ELSE buffer[i]) \in Int
      <4>1. CASE i < len
        <5>1. cur + i \in Cells
          BY <1>0, <4>1, SizesAssumption DEF Cells
        <5> QED
          BY <1>0, <4>1, <5>1
      <4>2. CASE ~(i < len)
        <5>1. i \in Int
          BY SizesAssumption DEF Cells
        <5> QED
          BY <1>0, <4>2, <2>1, <5>1
      <4> QED
        BY <4>1, <4>2
    <3> QED
      BY <2>2, <3>1
  <2>4. ASSUME NEW i \in 0 .. len' - 1
        PROVE  buffer'[cur' + i] = taken' - len' + i
    <3>1. i \in Cells /\ cur' + i = i
      BY <1>0, <2>1, <2>2, SizesAssumption DEF Cells
    <3>2. CASE i < len
      BY <1>0, <2>1, <2>2, <3>1, <3>2
    <3>3. CASE ~(i < len)
      BY <1>0, <2>1, <2>2, <3>1, <3>3
    <3> QED
      BY <3>2, <3>3
  <2> QED
    BY <1>0, <2>1, <2>2, <2>3, <2>4, SizesAssumption
<1> QED
  BY <1>1, <1>2 DEF CheckSize

-----------------------------------------------------------------------------
(* Reading the header and the table of lengths *)

\* The l cells of b from c on hold the bytes of the stream from s on.
Holds(b, c, l, s) == \A i \in 0 .. l - 1 : b[c + i] = s + i

\* With at least a header in the window there is a next message, and its
\* first bytes are the first bytes of the window.
LEMMA WindowStartsNextMessage ==
  ASSUME IInv, CheckSize, len' >= HeaderSize
  PROVE  /\ Len(got) < Len(msgs)
         /\ NextMessage \in Message
         /\ Holds(buffer', cur', len', NextMessage.start)
<1>0. /\ taken' \in Nat /\ len' \in Nat /\ taken' <= arrived /\ arrived <= Written
      /\ taken' - len' = Boundary
      /\ \A i \in 0 .. len' - 1 : buffer'[cur' + i] = taken' - len' + i
  BY CheckSizeWindow DEF IInv
<1>1. arrived \in Nat /\ Written \in Nat
  BY WrittenType DEF IInv, TypeOK
<1>2. Len(got) < Len(msgs)
  BY <1>0, <1>1, SizesAssumption DEF Boundary
<1>3. Len(got) + 1 \in 1..Len(msgs)
  BY <1>2 DEF IInv, TypeOK
<1>4. NextMessage \in Message
  BY <1>3, MessageInSeq DEF NextMessage, IInv
<1> QED
  BY <1>0, <1>2, <1>4 DEF Boundary, Holds

\* The header and the table of lengths of message n decode to those of
\* message n and of no other: no two messages share their first byte.
LEMMA OnlyOneMessageAt ==
  ASSUME TypeOK, StreamOK,
         NEW n \in 1..Len(msgs),
         NEW b, NEW c \in Nat, NEW l \in Nat,
         Holds(b, c, l, msgs[n].start),
         NEW k \in Nat, k >= HeaderSize, k <= l
  PROVE  MessagesAt(b, c, k) = {n}
<1>1. /\ \A i \in 0 .. k - 1 : i \in 0 .. l - 1
      /\ 0 \in 0 .. k - 1
  BY SizesAssumption
<1>2. n \in MessagesAt(b, c, k)
  BY <1>1, Zenon DEF MessagesAt, Holds
<1>3. ASSUME NEW m \in MessagesAt(b, c, k)
      PROVE  m = n
  <2>1. /\ m \in 1..Len(msgs)
        /\ b[c + 0] = msgs[m].start + 0
        /\ b[c + 0] = msgs[n].start + 0
    BY <1>1, Zenon DEF MessagesAt, Holds
  <2>2. msgs[m] \in Message /\ msgs[n] \in Message
    BY <2>1, MessageInSeq
  <2>3. msgs[m].start \in Nat /\ msgs[n].start \in Nat
    BY <2>2 DEF Message
  <2>4. /\ End(msgs[m]) \in Nat /\ End(msgs[m]) > msgs[m].start
        /\ End(msgs[n]) \in Nat /\ End(msgs[n]) > msgs[n].start
    BY <2>2, MessageSize
  <2>5. \A x, y \in 1..Len(msgs) : x < y => End(msgs[x]) <= msgs[y].start
    BY DEF StreamOK
  <2>6. ~(m < n) /\ ~(n < m)
    BY <2>1, <2>3, <2>4, <2>5
  <2>7. Len(msgs) \in Nat
    BY DEF TypeOK
  <2> QED
    BY <2>1, <2>6, <2>7
<1> QED
  BY <1>2, <1>3

\* So a chunk_stream_check_size for k bytes that succeeds leaves a window
\* whose first k bytes belong to the next message and to no other.
LEMMA OnlyNextMessage ==
  ASSUME IInv, CheckSize, need >= HeaderSize, len' >= need
  PROVE  MessagesAt(buffer', cur', need) = {Len(got) + 1}
         /\ MessagesAt(buffer', cur', HeaderSize) = {Len(got) + 1}
<1>1. /\ TypeOK /\ StreamOK /\ need \in Nat /\ HeaderSize \in Nat
      /\ Len(got) \in Nat /\ Len(msgs) \in Nat
  BY SizesAssumption DEF IInv, TypeOK
<1>2. len' \in Nat /\ cur' \in Nat
  BY CheckSizeWindow
<1>3. len' >= HeaderSize
  BY <1>1, <1>2
<1>4. /\ Len(got) < Len(msgs)
      /\ Holds(buffer', cur', len', NextMessage.start)
  BY <1>3, WindowStartsNextMessage
<1>5. Len(got) + 1 \in 1..Len(msgs)
  BY <1>1, <1>4
<1>6. /\ HeaderSize >= HeaderSize /\ need <= len' /\ HeaderSize <= len'
  BY <1>1, <1>2, <1>3
<1> DEFINE n == Len(got) + 1
<1>7. Holds(buffer', cur', len', msgs[n].start)
  BY <1>4 DEF NextMessage
<1>8. n \in 1..Len(msgs)
  BY <1>5
<1> HIDE DEF n
<1>9. ASSUME NEW k \in Nat, k >= HeaderSize, k <= len'
      PROVE  MessagesAt(buffer', cur', k) = {n}
  BY <1>1, <1>2, <1>7, <1>8, <1>9, OnlyOneMessageAt, SMTT(30)
<1>10. MessagesAt(buffer', cur', need) = {n}
  BY <1>1, <1>6, <1>9
<1>11. MessagesAt(buffer', cur', HeaderSize) = {n}
  BY <1>1, <1>6, <1>9
<1> QED
  BY <1>10, <1>11 DEF n

-----------------------------------------------------------------------------
(* Every action preserves the invariant *)

\* A new stream holds nothing.
LEMMA InitIInv == Init => IInv
<1> SUFFICES ASSUME Init PROVE IInv
  OBVIOUS
<1>1. TypeOK
  BY SizesAssumption DEF Init, TypeOK, Cells, NoByte
<1>2. Len(msgs) = 0 /\ Len(got) = 0 /\ Written = 0
  BY DEF Init, Written
<1>3. StreamOK /\ Framing /\ NeedOK
  BY <1>2 DEF Init, StreamOK, Framing, NeedOK
<1>4. Window /\ Boundary = 0
  BY <1>2, SizesAssumption DEF Init, Window, Boundary
<1> QED
  BY <1>1, <1>2, <1>3, <1>4 DEF Init, IInv

\* Send: the stream grows at its end; what was written stays where it is.
LEMMA SendIInv ==
  ASSUME IInv, NEW s \in Shapes, Send(s)
  PROVE  IInv'
<1> DEFINE L   == Len(msgs)
           new == [start |-> Written, pairs |-> s.pairs, body |-> s.body]
<1>1. TypeOK /\ StreamOK /\ L \in Nat /\ Len(got) \in Nat
  BY DEF IInv, TypeOK
<1>2. Written \in Nat
  BY <1>1, WrittenType
<1>3. new \in Message /\ new.start = Written
  BY <1>2, ShapesAssumption DEF Message
<1>4. msgs' = Append(msgs, new) /\ UNCHANGED <<threaded, arrived, pc, got, taken, buffer, cur, len, need>>
  BY DEF Send, reader
<1> HIDE DEF new
<1>5. msgs' \in Seq(Message) /\ Len(msgs') = L + 1
  BY <1>1, <1>3, <1>4 DEF TypeOK
<1>6. /\ \A m \in 1..L : msgs'[m] = msgs[m]
      /\ msgs'[L + 1] = new
  BY <1>1, <1>3, <1>4 DEF TypeOK
<1>7. End(new) \in Nat /\ End(new) > Written
  BY <1>3, MessageSize
<1>8. Written' = End(new)
  BY <1>1, <1>5, <1>6 DEF Written, End, Size, Prefix
<1>9. L > 0 => Written = End(msgs[L])
  BY <1>1 DEF Written
<1>10. \A m \in 1..L : End(msgs[m]) \in Nat /\ End(msgs[m]) <= Written
  <2> SUFFICES ASSUME NEW m \in 1..L
               PROVE  End(msgs[m]) \in Nat /\ End(msgs[m]) <= Written
    OBVIOUS
  <2>1. msgs[m] \in Message /\ msgs[L] \in Message /\ L \in 1..L
    BY <1>1, MessageInSeq
  <2>2. /\ End(msgs[m]) \in Nat /\ End(msgs[L]) \in Nat
        /\ msgs[L].start \in Nat /\ End(msgs[L]) > msgs[L].start
    BY <2>1, MessageSize DEF Message
  <2>3. m < L => End(msgs[m]) <= msgs[L].start
    BY <1>1, <2>1 DEF StreamOK
  <2> QED
    BY <1>1, <1>9, <2>2, <2>3
<1>11. TypeOK'
  BY <1>1, <1>4, <1>5 DEF TypeOK
<1>12. StreamOK'
  <2>1. msgs'[1].start = 0
    <3>1. CASE L = 0
      BY <1>1, <1>3, <1>6, <3>1 DEF Written, TypeOK
    <3>2. CASE L > 0
      BY <1>1, <1>6, <3>2 DEF StreamOK
    <3> QED
      BY <1>1, <3>1, <3>2
  <2>2. ASSUME NEW m \in 1 .. L
        PROVE  msgs'[m + 1].start = End(msgs'[m])
    <3>1. CASE m = L
      BY <1>1, <1>3, <1>6, <1>9, <3>1
    <3>2. CASE m < L
      <4>1. m \in 1 .. L - 1 /\ m + 1 \in 1..L
        BY <1>1, <3>2
      <4> QED
        BY <1>1, <1>6, <4>1 DEF StreamOK
    <3> QED
      BY <1>1, <3>1, <3>2
  <2>3. ASSUME NEW m \in 1 .. L + 1, NEW n \in 1 .. L + 1, m < n
        PROVE  End(msgs'[m]) <= msgs'[n].start
    <3>1. m \in 1..L
      BY <1>1, <2>3
    <3>2. CASE n = L + 1
      BY <1>3, <1>6, <1>10, <3>1, <3>2
    <3>3. CASE n # L + 1
      <4>1. n \in 1..L
        BY <1>1, <3>3
      <4> QED
        BY <1>1, <1>6, <2>3, <3>1, <4>1 DEF StreamOK
    <3> QED
      BY <3>2, <3>3
  <2>4. 1 .. Len(msgs') - 1 = 1..L /\ 1..Len(msgs') = 1 .. L + 1
    BY <1>1, <1>5
  <2> QED
    BY <2>1, <2>2, <2>3, <2>4 DEF StreamOK, End, Size, Prefix
<1>13. (taken <= arrived /\ arrived <= Written)'
  BY <1>2, <1>4, <1>7, <1>8 DEF IInv, TypeOK
<1>14. Window'
  BY <1>4 DEF IInv, Window
<1>15. Framing'
  <2>1. \A k \in 1..Len(got) : got[k] = Wire(msgs[k]) /\ k \in 1..L
    BY <1>1 DEF IInv, Framing
  <2>2. \A k \in 1..Len(got) : got'[k] = Wire(msgs'[k])
    BY <1>4, <1>6, <2>1
  <2>3. Len(got') <= Len(msgs')
    BY <1>1, <1>4, <1>5 DEF IInv, Framing
  <2> QED
    BY <1>4, <2>2, <2>3 DEF Framing, Wire, Size, Prefix
<1>16. Len(got) < L => NextMessage' = NextMessage
  BY <1>1, <1>4, <1>6 DEF NextMessage
<1>17. Boundary' = Boundary
  <2>1. CASE Len(got) < L
    BY <1>1, <1>4, <1>5, <1>16, <2>1 DEF Boundary
  <2>2. CASE Len(got) = L
    BY <1>1, <1>3, <1>4, <1>5, <1>6, <2>2 DEF Boundary, NextMessage
  <2> QED
    BY <1>1, <2>1, <2>2 DEF IInv, Framing
<1>18. (taken - len = Boundary)'
  BY <1>4, <1>17 DEF IInv
<1>19. NeedOK'
  <2>1. Len(got) < L => Len(got') < Len(msgs')
    BY <1>1, <1>4, <1>5
  <2> QED
    BY <1>4, <1>16, <2>1 DEF IInv, NeedOK, Size, Prefix
<1> QED
  BY <1>11, <1>12, <1>13, <1>14, <1>15, <1>18, <1>19 DEF IInv

\* Where the reader is.
PCs == {"idle", "loop", "header", "lengths", "message", "next"}

\* More input, or a move of the reader that leaves its window alone.
LEMMA ArrivalIInv ==
  ASSUME IInv,
         UNCHANGED <<threaded, msgs, got, taken, buffer, cur, len>>,
         arrived' \in arrived .. Written,
         pc' \in PCs, need' \in Nat, NeedOK'
  PROVE  IInv'
<1>1. arrived \in Nat /\ Written \in Nat /\ taken \in Nat
  BY WrittenType DEF IInv, TypeOK
<1>2. PICK a \in arrived .. Written : arrived' = a
  OBVIOUS
<1>3. a \in Nat /\ taken <= a /\ a <= Written
  BY <1>1, <1>2 DEF IInv
<1>4. TypeOK'
  BY <1>2, <1>3 DEF IInv, TypeOK, PCs
<1>5. StreamOK' /\ Window' /\ Framing' /\ Written' = Written
  BY DEF IInv, StreamOK, Window, Framing, Wire, End, Size, Prefix, Written
<1>6. (taken - len = Boundary)'
  BY <1>5 DEF IInv, Boundary, NextMessage
<1>7. (taken <= arrived /\ arrived <= Written)'
  BY <1>2, <1>3, <1>5
<1> QED
  BY <1>4, <1>5, <1>6, <1>7 DEF IInv

\* A chunk_stream_check_size.
LEMMA CheckIInv ==
  ASSUME IInv, CheckSize, UNCHANGED <<threaded, msgs, arrived, got>>,
         pc' \in PCs, need' \in Nat, NeedOK'
  PROVE  IInv'
<1>1. TypeOK'
  BY CheckSizeWindow DEF IInv, TypeOK, PCs
<1>2. StreamOK' /\ Framing' /\ Written' = Written /\ Boundary' = Boundary
  BY DEF IInv, StreamOK, Framing, Wire, End, Size, Prefix, Written, Boundary, NextMessage
<1>3. Window'
  BY CheckSizeWindow DEF Window
<1>4. (taken <= arrived /\ arrived <= Written)'
  BY <1>2, CheckSizeWindow DEF IInv
<1>5. (taken - len = Boundary)'
  BY <1>2, CheckSizeWindow DEF IInv
<1> QED
  BY <1>1, <1>2, <1>3, <1>4, <1>5 DEF IInv

\* A header that is not complete, or gives the size of the table.
LEMMA CheckHeaderIInv == ASSUME IInv, CheckHeader PROVE IInv'
<1>1. CheckSize /\ UNCHANGED <<threaded, msgs, arrived, got>> /\ need = HeaderSize
  BY DEF CheckHeader, IInv, NeedOK
<1>2. CASE Null
  BY <1>1, <1>2, CheckIInv DEF Null, IInv, TypeOK, NeedOK, PCs
<1>3. CASE /\ len' >= need
           /\ pc' = "lengths"
           /\ \E p \in LogSizesAt(buffer', cur') : need' = Prefix(p)
  <2>1. Len(got) < Len(msgs) /\ NextMessage \in Message
    BY <1>1, <1>3, WindowStartsNextMessage
  <2>2. need >= HeaderSize
    BY <1>1, SizesAssumption
  <2>3. MessagesAt(buffer', cur', HeaderSize) = {Len(got) + 1}
    BY <1>1, <1>3, <2>2, OnlyNextMessage
  <2>4. LogSizesAt(buffer', cur') = {NextMessage.pairs}
    BY <2>3, Zenon DEF LogSizesAt, NextMessage
  <2>5. need' = Prefix(NextMessage.pairs) /\ need' \in Nat
    BY <1>3, <2>1, <2>4, PrefixSize DEF Message
  <2>6. NeedOK'
    BY <1>1, <1>3, <2>1, <2>5 DEF NeedOK, NextMessage, Prefix
  <2> QED
    BY <1>1, <1>3, <2>5, <2>6, CheckIInv DEF PCs
<1> QED
  BY <1>2, <1>3 DEF CheckHeader

\* A table of lengths that is not complete, or gives the size of the message.
LEMMA CheckLengthsIInv == ASSUME IInv, CheckLengths PROVE IInv'
<1>1. /\ CheckSize /\ UNCHANGED <<threaded, msgs, arrived, got>>
      /\ Len(got) < Len(msgs) /\ need = Prefix(NextMessage.pairs)
  BY DEF CheckLengths, IInv, NeedOK
<1>2. CASE Null
  BY <1>1, <1>2, CheckIInv DEF Null, IInv, TypeOK, NeedOK, PCs
<1>3. CASE /\ len' >= need
           /\ pc' = "message"
           /\ \E n \in BodiesAt(buffer', cur', need) : need' = need + n
  <2>1. NextMessage \in Message
    <3>1. Len(got) + 1 \in 1..Len(msgs)
      BY <1>1 DEF IInv, TypeOK
    <3> QED
      BY <3>1, MessageInSeq DEF IInv, NextMessage
  <2>2. need >= HeaderSize
    BY <1>1, <2>1, PrefixSize DEF Message
  <2>3. MessagesAt(buffer', cur', need) = {Len(got) + 1}
    BY <1>1, <1>3, <2>2, OnlyNextMessage
  <2>4. BodiesAt(buffer', cur', need) = {NextMessage.body}
    <3>1. NextMessage.body % Word = NextMessage.body
      BY <2>1, SizesAssumption DEF Message
    <3>2. BodiesAt(buffer', cur', need) = {NextMessage.body % Word}
      BY <2>3, Zenon DEF BodiesAt, NextMessage
    <3> QED BY <3>1, <3>2
  <2>5. need' = Size(NextMessage) /\ need' \in Nat
    BY <1>1, <1>3, <2>1, <2>4, MessageSize DEF Size
  <2>6. NeedOK'
    BY <1>1, <1>3, <2>5 DEF NeedOK, NextMessage, Size, Prefix
  <2> QED
    BY <1>1, <1>3, <2>5, <2>6, CheckIInv DEF PCs
<1> QED
  BY <1>2, <1>3 DEF CheckLengths

\* A message that is not complete, or is.
LEMMA CheckMessageIInv == ASSUME IInv, CheckMessage PROVE IInv'
<1>1. CheckSize /\ UNCHANGED <<threaded, msgs, arrived, got>> /\ need' = need
  BY DEF CheckMessage, Null
<1>2. CASE Null
  BY <1>1, <1>2, CheckIInv DEF Null, IInv, TypeOK, NeedOK, PCs
<1>3. CASE len' >= need /\ pc' = "next"
  <2>1. Len(got) < Len(msgs) /\ need = Size(NextMessage)
    BY DEF CheckMessage, IInv, NeedOK
  <2>2. NeedOK'
    BY <1>1, <1>3, <2>1 DEF NeedOK, NextMessage, Size, Prefix
  <2> QED
    BY <1>1, <1>3, <2>2, CheckIInv DEF IInv, TypeOK, PCs
<1> QED
  BY <1>2, <1>3 DEF CheckMessage

\* What chunk_stream_get returns is the next message.
LEMMA NextChunkReturns ==
  ASSUME IInv, NextChunk
  PROVE  /\ Len(got) < Len(msgs)
         /\ got' = Append(got, Wire(NextMessage))
<1>1. /\ Len(got) < Len(msgs) /\ need = Size(NextMessage) /\ len >= need
      /\ taken - len = NextMessage.start
      /\ \A i \in 0 .. len - 1 : buffer[cur + i] = taken - len + i
  BY DEF NextChunk, IInv, NeedOK, Boundary, Window
<1>2. taken \in Nat /\ len \in Nat /\ cur \in Nat /\ need \in Nat
  BY DEF IInv, TypeOK
<1>3. ASSUME NEW i \in 1..need
      PROVE  buffer[cur + i - 1] = NextMessage.start + i - 1
  <2> DEFINE j == i - 1
  <2>1. j \in 0 .. len - 1
    BY <1>1, <1>2
  <2>2. buffer[cur + j] = taken - len + j
    BY <1>1, <2>1, Zenon
  <2>3. cur + i - 1 = cur + j /\ taken - len + j = taken - len + i - 1
    BY <1>2
  <2> QED
    BY <1>1, <2>2, <2>3
<1>4. [i \in 1..need |-> buffer[cur + i - 1]]
        = [i \in 1..need |-> NextMessage.start + i - 1]
  BY <1>3, Zenon
<1> QED
  BY <1>1, <1>4 DEF NextChunk, Wire

\* The chunk that is returned is the next message, and the next one starts
\* behind it.
LEMMA NextChunkIInv == ASSUME IInv, NextChunk PROVE IInv'
<1> DEFINE g == Len(got)
<1>1. /\ TypeOK /\ g \in Nat /\ Len(msgs) \in Nat /\ g < Len(msgs)
      /\ g + 1 \in 1..Len(msgs)
  BY NextChunkReturns DEF IInv, TypeOK
<1>2. NextMessage \in Message /\ NextMessage = msgs[g + 1]
  BY <1>1, MessageInSeq DEF NextMessage
<1>3. /\ got' = Append(got, Wire(NextMessage))
      /\ UNCHANGED <<threaded, msgs, arrived, taken, buffer, need>>
      /\ need = Size(NextMessage) /\ len >= need
      /\ len' = len - need /\ cur' = cur + need
      /\ pc' \in {"idle", "loop"}
  BY NextChunkReturns DEF NextChunk, IInv, NeedOK
<1>4. /\ taken \in Nat /\ len \in Nat /\ cur \in Nat /\ need \in Nat
      /\ cur + len <= BufferSize
      /\ \A i \in 0 .. len - 1 : buffer[cur + i] = taken - len + i
      /\ taken - len = NextMessage.start
  BY <1>1 DEF IInv, TypeOK, Window, Boundary
<1>5. PICK l \in Nat, c \in Nat : l = len - need /\ c = cur + need
  BY <1>3, <1>4
<1>6. len' = l /\ cur' = c
  BY <1>3, <1>5
<1>7. Wire(NextMessage) \in Seq(Int)
  <2>1. Size(NextMessage) \in Nat /\ NextMessage.start \in Nat
    BY <1>2, MessageSize DEF Message
  <2> QED
    BY <2>1 DEF Wire
<1> HIDE DEF g
<1>8. got' \in Seq(Seq(Int)) /\ Len(got') = g + 1
  BY <1>1, <1>3, <1>7 DEF TypeOK, g
<1>9. TypeOK'
  BY <1>1, <1>3, <1>6, <1>8 DEF TypeOK
<1>10. StreamOK' /\ Written' = Written
  BY <1>3 DEF IInv, StreamOK, Written, End, Size, Prefix
<1>11. Window'
  <2>1. c + l <= BufferSize
    BY <1>4, <1>5, SizesAssumption
  <2>2. ASSUME NEW i \in 0 .. l - 1
        PROVE  buffer[c + i] = taken - l + i
    <3> DEFINE j == i + need
    <3>1. j \in 0 .. len - 1
      BY <1>4, <1>5
    <3>2. buffer[cur + j] = taken - len + j
      BY <1>4, <3>1, Zenon
    <3>3. cur + j = c + i /\ taken - len + j = taken - l + i
      BY <1>4, <1>5
    <3> QED
      BY <3>2, <3>3
  <2> QED
    BY <1>3, <1>6, <2>1, <2>2 DEF Window
<1>12. Framing'
  <2>1. \A k \in 1..g : got'[k] = got[k] /\ got[k] = Wire(msgs[k])
    BY <1>1, <1>3, <1>7 DEF IInv, Framing, TypeOK, g
  <2>2. got'[g + 1] = Wire(msgs[g + 1])
    BY <1>1, <1>2, <1>3, <1>7 DEF TypeOK, g
  <2>3. \A k \in 1 .. g + 1 : got'[k] = Wire(msgs[k])
    BY <1>1, <2>1, <2>2
  <2>4. g + 1 <= Len(msgs)
    BY <1>1
  <2>5. Len(got') <= Len(msgs')
    BY <1>3, <1>8, <2>4, Zenon
  <2>6. \A k \in 1..Len(got') : got'[k] = Wire(msgs'[k])
    BY <1>3, <1>8, <2>3, Zenon
  <2> QED
    BY <2>5, <2>6 DEF Framing
<1>13. taken - l = End(NextMessage)
  <2>1. need = Size(NextMessage)
    BY <1>3
  <2>2. End(NextMessage) = NextMessage.start + need /\ NextMessage.start \in Nat
    BY <1>2, <2>1, MessageSize DEF Message
  <2> QED
    BY <1>4, <1>5, <2>2
<1>14. Boundary' = End(NextMessage)
  <2>1. CASE g + 1 < Len(msgs)
    <3>1. g + 1 \in 1 .. Len(msgs) - 1
      BY <1>1, <2>1
    <3>2. msgs[g + 2].start = End(msgs[g + 1])
      BY <1>1, <3>1 DEF IInv, StreamOK
    <3> QED
      BY <1>1, <1>2, <1>3, <1>8, <2>1, <3>2 DEF Boundary, NextMessage
  <2>2. CASE g + 1 = Len(msgs)
    <3>1. Written = End(NextMessage)
      BY <1>1, <1>2, <2>2 DEF Written
    <3> QED
      BY <1>1, <1>3, <1>8, <1>10, <2>2, <3>1 DEF Boundary
  <2> QED
    BY <1>1, <2>1, <2>2
<1>15. NeedOK'
  BY <1>3 DEF NeedOK
<1>16. (taken <= arrived /\ arrived <= Written)'
  BY <1>3, <1>10 DEF IInv
<1> QED
  BY <1>3, <1>6, <1>9, <1>10, <1>11, <1>12, <1>13, <1>14, <1>15, <1>16 DEF IInv

\* Every step keeps the invariant.
LEMMA NextIInv == IInv /\ [Next]_vars => IInv'
<1> SUFFICES ASSUME IInv, [Next]_vars PROVE IInv'
  OBVIOUS
<1>1. ASSUME NEW s \in Shapes, Send(s) PROVE IInv'
  BY <1>1, SendIInv
<1>2. ASSUME NEW n \in arrived + 1 .. Written, ServerReadable(n) \/ ClientReadable(n)
      PROVE  IInv'
  <2>1. arrived \in Nat /\ Written \in Nat
    BY WrittenType DEF IInv, TypeOK
  <2>2. n \in arrived .. Written
    BY <2>1
  <2>3. pc' = "loop" \/ pc' = pc
    BY <1>2 DEF ServerReadable, ClientReadable
  <2>4. /\ UNCHANGED <<threaded, msgs, got, taken, buffer, cur, len, need>>
        /\ arrived' = n
    BY <1>2 DEF ServerReadable, ClientReadable, Readable, reader
  <2>5. NeedOK'
    BY <2>3, <2>4 DEF IInv, NeedOK, NextMessage, Size, Prefix
  <2> QED
    BY <2>2, <2>3, <2>4, <2>5, ArrivalIInv DEF IInv, TypeOK, PCs
<1>3. ASSUME ClientRead \/ LoopEmpty \/ LoopGet PROVE IInv'
  <2>1. /\ UNCHANGED <<threaded, msgs, got, arrived, taken, buffer, cur, len>>
        /\ \/ pc' \in {"idle", "loop"} /\ need' = need
           \/ pc' = "header" /\ need' = HeaderSize
    BY <1>3 DEF ClientRead, LoopEmpty, LoopGet, reader
  <2>2. NeedOK'
    BY <2>1 DEF NeedOK
  <2>3. arrived' \in arrived .. Written
    BY <2>1, WrittenType DEF IInv, TypeOK
  <2>4. need \in Nat /\ HeaderSize \in Nat
    BY SizesAssumption DEF IInv, TypeOK
  <2>5. need' \in Nat /\ pc' \in PCs
    BY <2>1, <2>4, Zenon DEF PCs
  <2>6. UNCHANGED <<threaded, msgs, got, taken, buffer, cur, len>>
    BY <2>1
  <2> QED
    BY <2>2, <2>3, <2>5, <2>6, ArrivalIInv
<1>4. CASE CheckHeader
  BY <1>4, CheckHeaderIInv
<1>5. CASE CheckLengths
  BY <1>5, CheckLengthsIInv
<1>6. CASE CheckMessage
  BY <1>6, CheckMessageIInv
<1>7. CASE NextChunk
  BY <1>7, NextChunkIInv
<1>8. CASE UNCHANGED vars
  <2>1. NeedOK'
    BY <1>8 DEF vars, IInv, NeedOK, NextMessage, Size, Prefix
  <2>2. arrived' \in arrived .. Written
    BY <1>8, WrittenType DEF vars, IInv, TypeOK
  <2> QED
    BY <1>8, <2>1, <2>2, ArrivalIInv DEF vars, IInv, TypeOK, PCs
<1> QED
  BY <1>1, <1>2, <1>3, <1>4, <1>5, <1>6, <1>7, <1>8 DEF Next

\* The strengthened invariant holds in every reachable state.
THEOREM Invariance == Spec => []IInv
<1>1. Init => IInv
  BY InitIInv
<1>2. IInv /\ [Next]_vars => IInv'
  BY NextIInv
<1> QED
  BY <1>1, <1>2, PTL DEF Spec

-----------------------------------------------------------------------------
(* Results *)

\* chunk_stream_new, _get, _reset and _next keep the fields of struct
\* chunk_stream in their types; cs->len never becomes negative, which is what
\* the assertions of core/stream.c state.
THEOREM TypeCorrect == Spec => []TypeOK
<1>1. IInv => TypeOK
  BY DEF IInv
<1> QED
  BY <1>1, Invariance, PTL

\* The window of cs->buffer always holds the unread bytes of the connection,
\* in order and inside the buffer (chunk_stream_reset, chunk_stream_next).
THEOREM WindowCorrect == Spec => []Window
<1>1. IInv => Window
  BY DEF IInv
<1> QED
  BY <1>1, Invariance, PTL

\* chunk_stream_get returns exactly the messages that were written, in order.
THEOREM FramingCorrect == Spec => []Framing
<1>1. IInv => Framing
  BY DEF IInv
<1> QED
  BY <1>1, Invariance, PTL

\* The steps that do not return a message leave got alone.
LEMMA OtherSteps ==
  ASSUME [Next]_vars
  PROVE  \/ \E s \in Shapes : Send(s)
         \/ NextChunk
         \/ UNCHANGED <<msgs, got>>
BY DEF Next, ServerReadable, ClientReadable, Readable, ClientRead, LoopEmpty,
       LoopGet, CheckHeader, CheckLengths, CheckMessage, vars

\* A message larger than IO_BUFFER_SIZE blocks the connection: neither it nor
\* anything behind it is ever returned.
THEOREM OversizeCorrect == Spec => []OversizeBlocks
<1>1. Init => OversizeBlocks
  BY DEF Init, OversizeBlocks
<1>2. IInv /\ OversizeBlocks /\ [Next]_vars => OversizeBlocks'
  <2> SUFFICES ASSUME IInv, OversizeBlocks, [Next]_vars,
                      NEW k \in 1..Len(msgs'), Size(msgs'[k]) > BufferSize
               PROVE  Len(got') < k
    BY DEF OversizeBlocks, Size, Prefix
  <2>1. /\ Len(got) \in Nat /\ Len(msgs) \in Nat /\ Len(got) <= Len(msgs)
        /\ got \in Seq(Seq(Int)) /\ msgs \in Seq(Message)
    BY DEF IInv, TypeOK, Framing
  <2>2. ASSUME NEW s \in Shapes, Send(s) PROVE Len(got') < k
    <3> DEFINE new == [start |-> Written, pairs |-> s.pairs, body |-> s.body]
    <3>1. msgs' = Append(msgs, new) /\ got' = got
      BY <2>2 DEF Send
    <3>2. new \in Message
      BY WrittenType, ShapesAssumption DEF IInv, Message
    <3> HIDE DEF new
    <3>3. Len(msgs') = Len(msgs) + 1 /\ \A m \in 1..Len(msgs) : msgs'[m] = msgs[m]
      BY <2>1, <3>1, <3>2
    <3>4. CASE k \in 1..Len(msgs)
      BY <3>1, <3>3, <3>4 DEF OversizeBlocks
    <3>5. CASE k = Len(msgs) + 1
      BY <2>1, <3>1, <3>5
    <3> QED
      BY <2>1, <3>3, <3>4, <3>5
  <2>3. CASE NextChunk
    <3>1. /\ Len(got) < Len(msgs)
          /\ got' = Append(got, Wire(NextMessage))
          /\ msgs' = msgs
      BY <2>3, NextChunkReturns DEF NextChunk
    <3>2. Len(got') = Len(got) + 1
      BY <2>1, <3>1
    <3>3. Size(NextMessage) <= BufferSize
      <4>1. need = Size(NextMessage) /\ len >= need /\ cur + len <= BufferSize
        BY <2>3 DEF NextChunk, IInv, NeedOK, Window
      <4>2. need \in Nat /\ len \in Nat /\ cur \in Nat
        BY DEF IInv, TypeOK
      <4> QED
        BY <4>1, <4>2, SizesAssumption
    <3>4. k \in 1..Len(msgs) /\ Size(msgs[k]) > BufferSize
      BY <3>1
    <3>5. Len(got) < k
      BY <3>4 DEF OversizeBlocks
    <3>6. k # Len(got) + 1
      <4>1. SUFFICES ASSUME k = Len(got) + 1 PROVE FALSE
        OBVIOUS
      <4>2. NextMessage = msgs[k] /\ NextMessage \in Message
        BY <2>1, <3>4, <4>1 DEF NextMessage
      <4>3. Size(NextMessage) \in Nat
        BY <4>2, MessageSize
      <4> QED
        BY <3>3, <3>4, <4>2, <4>3, SizesAssumption
    <3>7. Len(got) + 1 < k
      BY <2>1, <3>4, <3>5, <3>6
    <3> QED
      BY <3>2, <3>7, Zenon
  <2>4. CASE UNCHANGED <<msgs, got>>
    BY <2>4 DEF OversizeBlocks
  <2> QED
    BY <2>2, <2>3, <2>4, OtherSteps
<1> QED
  BY <1>1, <1>2, Invariance, PTL DEF Spec

\* A reader gets exactly the messages that were written, in order, up to the
\* first one that is larger than IO_BUFFER_SIZE (chunk_stream_get).
THEOREM ReceptionCorrect == Spec => []Reception
<1>1. Framing /\ OversizeBlocks => Reception
  BY DEF Reception
<1> QED
  BY <1>1, FramingCorrect, OversizeCorrect, PTL

\* When a chunk_stream_check_size fails the input is empty and the window is
\* too short for a message.
LEMMA FailedCheck ==
  ASSUME IInv, ReturnsNull, Next, NextFits
  PROVE  arrived < End(NextMessage) /\ UNCHANGED <<msgs, arrived, got>>
<1>1. /\ CheckSize /\ ~(len' >= need) /\ UNCHANGED <<msgs, arrived, got>>
      /\ pc \in {"header", "lengths", "message"}
  <2>1. Null /\ CheckSize => ~(len' >= need)
    BY CheckSizeWindow DEF Null, IInv, TypeOK
  <2>2. CheckHeader \/ CheckLengths \/ CheckMessage
    BY DEF ReturnsNull, Next, Send, ServerReadable, ClientReadable, ClientRead,
           LoopEmpty, LoopGet, NextChunk
  <2>3. CheckSize /\ Null /\ UNCHANGED <<msgs, arrived, got>>
    BY <2>2 DEF ReturnsNull, CheckHeader, CheckLengths, CheckMessage
  <2> QED
    BY <2>1, <2>3 DEF ReturnsNull
<1>2. /\ NextMessage \in Message /\ Size(NextMessage) <= BufferSize
      /\ taken - len = NextMessage.start
  <2>1. Len(got) + 1 \in 1..Len(msgs)
    BY DEF IInv, TypeOK, NextFits
  <2> QED
    BY <2>1, MessageInSeq DEF IInv, NextMessage, NextFits, Boundary
<1>3. need <= Size(NextMessage)
  <2>1. need \in {HeaderSize, Prefix(NextMessage.pairs), Size(NextMessage)}
    BY <1>1 DEF IInv, NeedOK, NextFits
  <2>2. /\ Size(NextMessage) \in Nat
        /\ Size(NextMessage) >= HeaderSize
        /\ Size(NextMessage) >= Prefix(NextMessage.pairs)
    BY <1>2, MessageSize
  <2>3. Prefix(NextMessage.pairs) \in Nat /\ HeaderSize \in Nat
    BY <1>2, PrefixSize, SizesAssumption DEF Message
  <2> QED
    BY <2>1, <2>2, <2>3
<1>4. /\ taken \in Nat /\ len \in Nat /\ arrived \in Nat /\ need \in Nat /\ cur \in Nat
      /\ cur + len <= BufferSize /\ taken <= arrived /\ BufferSize \in Nat
  BY SizesAssumption DEF IInv, TypeOK, Window
<1>5. /\ Size(NextMessage) \in Nat /\ NextMessage.start \in Nat
      /\ End(NextMessage) = NextMessage.start + Size(NextMessage)
  BY <1>2, MessageSize DEF Message
<1>6. CASE UNCHANGED <<taken, buffer, cur, len>> /\ (len >= need \/ taken = arrived)
  <2>1. len < need
    BY <1>1, <1>4, <1>6
  <2>2. taken = arrived
    BY <1>4, <1>6, <2>1
  <2> QED
    BY <1>1, <1>2, <1>3, <1>4, <1>5, <2>1, <2>2
<1>7. CASE /\ len < need /\ taken < arrived
           /\ Reset(Smaller(BufferSize - len, arrived - taken))
  <2> DEFINE k == Smaller(BufferSize - len, arrived - taken)
  <2>1. k = BufferSize - len \/ k = arrived - taken
    BY DEF Smaller
  <2>2. k \in Nat
    BY <1>4, <1>7 DEF Smaller
  <2>3. len' = len + k
    BY <1>7 DEF Reset
  <2> HIDE DEF k
  <2>4. ~(len + k >= need)
    BY <1>1, <2>3
  <2>5. k = arrived - taken
    BY <1>2, <1>3, <1>4, <1>5, <2>1, <2>4
  <2>6. arrived < End(NextMessage)
    BY <1>2, <1>3, <1>4, <1>5, <2>2, <2>4, <2>5
  <2> QED
    BY <1>1, <2>6
<1> QED
  BY <1>1, <1>6, <1>7 DEF CheckSize

\* chunk_stream_get returns NULL only when the next message is incomplete.
THEOREM NullCorrect == Spec => NullOnlyIfIncomplete
<1>1. IInv /\ [Next]_vars =>
        [ReturnsNull /\ NextFits => arrived < End(NextMessage)]_vars
  BY FailedCheck
<1> QED
  BY <1>1, Invariance, PTL DEF Spec, NullOnlyIfIncomplete

\* When the server is back in its event loop every message that has arrived
\* in full has been handled: server_read_callback leaves only through a NULL
\* or an empty stream, and new messages start behind what has arrived.
THEOREM DrainsCorrect == Spec => []CallbackDrains
<1>1. Init => CallbackDrains
  BY DEF Init, CallbackDrains, NextFits
<1>2. IInv /\ CallbackDrains /\ [Next]_vars => CallbackDrains'
  <2> SUFFICES ASSUME IInv, CallbackDrains, [Next]_vars,
                      ~threaded', pc' = "idle", Len(got') < Len(msgs'),
                      Size(msgs'[Len(got') + 1]) <= BufferSize
               PROVE  arrived' < End(msgs'[Len(got') + 1])
    BY DEF CallbackDrains, NextFits, NextMessage, End, Size, Prefix
  <2>0. ~threaded
    BY DEF Next, vars, Send, ServerReadable, ClientReadable, Readable, ClientRead,
           LoopEmpty, LoopGet, CheckHeader, CheckLengths, CheckMessage, NextChunk
  <2>1. /\ Len(got) \in Nat /\ Len(msgs) \in Nat /\ arrived \in Nat
        /\ Written \in Nat /\ arrived <= Written /\ Len(got) <= Len(msgs)
        /\ msgs \in Seq(Message)
    BY WrittenType DEF IInv, TypeOK, Framing
  <2>2. ASSUME NEW s \in Shapes, Send(s)
        PROVE  arrived' < End(msgs'[Len(got') + 1])
    <3> DEFINE new == [start |-> Written, pairs |-> s.pairs, body |-> s.body]
    <3>1. /\ msgs' = Append(msgs, new)
          /\ got' = got /\ arrived' = arrived /\ pc = "idle"
      BY <2>2 DEF Send
    <3>2. new \in Message /\ new.start = Written
      BY <2>1, ShapesAssumption DEF Message
    <3> HIDE DEF new
    <3>3. /\ \A m \in 1..Len(msgs) : msgs'[m] = msgs[m]
          /\ msgs'[Len(msgs) + 1] = new
      BY <2>1, <3>1, <3>2
    <3>4. CASE Len(got) < Len(msgs)
      <4>1. arrived < End(NextMessage)
        <5>1. Len(got) + 1 \in 1..Len(msgs)
          BY <2>1, <3>4
        <5>2. NextFits
          BY <3>1, <3>3, <3>4, <5>1 DEF NextFits, NextMessage
        <5> QED
          BY <2>0, <3>1, <5>2 DEF CallbackDrains
      <4>2. Len(got) + 1 \in 1..Len(msgs)
        BY <2>1, <3>4
      <4> QED
        BY <3>1, <3>3, <4>1, <4>2 DEF NextMessage
    <3>5. CASE Len(got) = Len(msgs)
      <4>1. End(new) > Written /\ End(new) \in Nat
        BY <3>2, MessageSize
      <4>2. arrived < End(new)
        BY <2>1, <4>1
      <4>3. msgs'[Len(got) + 1] = new
        BY <3>3, <3>5
      <4> QED
        BY <3>1, <4>2, <4>3
    <3> QED
      BY <2>1, <3>4, <3>5
  <2>3. ASSUME UNCHANGED <<msgs, arrived, got>>, NextFits => arrived < End(NextMessage)
        PROVE  arrived' < End(msgs'[Len(got') + 1])
    BY <2>3 DEF NextMessage, NextFits
  <2>4. CASE LoopEmpty
    <3>1. /\ UNCHANGED <<msgs, arrived, got>> /\ Len(got) < Len(msgs)
          /\ len = 0 /\ taken = arrived
      BY <2>4 DEF LoopEmpty, Empty
    <3>2. NextMessage \in Message /\ taken - len = NextMessage.start
      <4>1. Len(got) + 1 \in 1..Len(msgs)
        BY <2>1, <3>1
      <4> QED
        BY <3>1, <4>1, MessageInSeq DEF IInv, NextMessage, Boundary
    <3>3. arrived < End(NextMessage)
      <4>1. /\ End(NextMessage) \in Nat /\ NextMessage.start \in Nat
            /\ End(NextMessage) > NextMessage.start
        BY <3>2, MessageSize DEF Message
      <4> QED
        BY <2>1, <3>1, <3>2, <4>1
    <3> QED
      BY <2>3, <3>1, <3>3
  <2>5. CASE CheckHeader \/ CheckLengths \/ CheckMessage
    <3>1. ReturnsNull /\ Next /\ UNCHANGED <<msgs, got>>
      BY <2>5 DEF ReturnsNull, Next, CheckHeader, CheckLengths, CheckMessage
    <3>2. NextFits
      BY <3>1 DEF NextFits, NextMessage
    <3> QED
      BY <2>3, <3>1, <3>2, FailedCheck
  <2>6. CASE UNCHANGED vars
    BY <2>0, <2>3, <2>6 DEF vars, CallbackDrains
  <2>7. ~ \/ ClientRead \/ LoopGet \/ NextChunk
          \/ \E n \in arrived + 1 .. Written : ServerReadable(n) \/ ClientReadable(n)
    BY <2>0 DEF ClientRead, LoopGet, NextChunk, ServerReadable, ClientReadable
  <2> QED
    BY <2>2, <2>4, <2>5, <2>6, <2>7 DEF Next
<1> QED
  BY <1>1, <1>2, Invariance, PTL DEF Spec

\* Every behaviour of the buffer is one of the FIFO of messages that
\* MessageChannel specifies (the safety part; its fairness is left to TLC).
THEOREM ChannelCorrect == Spec => ImplementsChannel
<1> DEFINE wires == [k \in 1..Len(msgs) |-> Wire(msgs[k])]
<1>1. Init => Channel!Init
  BY DEF Init, Channel!Init
<1>2. IInv /\ [Next]_vars => [Channel!Next]_(Channel!vars)
  <2> SUFFICES ASSUME IInv, [Next]_vars
               PROVE  [Channel!Next]_(Channel!vars)
    OBVIOUS
  <2>1. /\ Len(msgs) \in Nat /\ msgs \in Seq(Message)
        /\ Len(got) \in Nat /\ Len(wires) = Len(msgs)
    BY DEF IInv, TypeOK
  <2>2. ASSUME NEW s \in Shapes, Send(s)
        PROVE  Channel!Send
    <3> DEFINE new == [start |-> Written, pairs |-> s.pairs, body |-> s.body]
    <3>1. msgs' = Append(msgs, new) /\ got' = got
      BY <2>2 DEF Send
    <3>2. new \in Message
      BY WrittenType, ShapesAssumption DEF IInv, Message
    <3> HIDE DEF new
    <3>3. /\ Len(msgs') = Len(msgs) + 1
          /\ \A m \in 1..Len(msgs) : msgs'[m] = msgs[m]
          /\ msgs'[Len(msgs) + 1] = new
      BY <2>1, <3>1, <3>2
    <3>4. wires' = [k \in 1 .. Len(msgs) + 1 |-> Wire(msgs'[k])]
      BY <3>3 DEF Wire, Size, Prefix
    <3>5. /\ Len(wires') = Len(wires) + 1
          /\ wires'[Len(wires) + 1] = Wire(new)
      BY <2>1, <3>3, <3>4
    <3>6. wires' = Append(wires, Wire(new))
      BY <2>1, <3>3, <3>4
    <3> QED
      BY <3>1, <3>5, <3>6 DEF Channel!Send
  <2>3. CASE NextChunk
    <3>1. /\ Len(got) < Len(msgs) /\ msgs' = msgs
          /\ got' = Append(got, Wire(NextMessage))
      BY <2>3, NextChunkReturns DEF NextChunk
    <3>2. wires[Len(got) + 1] = Wire(NextMessage)
      BY <2>1, <3>1 DEF NextMessage
    <3>3. wires' = wires
      BY <3>1 DEF Wire, Size, Prefix
    <3> QED
      BY <2>1, <3>1, <3>2, <3>3 DEF Channel!Next, Channel!Receive
  <2>4. CASE UNCHANGED <<msgs, got>>
    BY <2>4 DEF Channel!vars, Wire, Size, Prefix
  <2> QED
    BY <2>2, <2>3, <2>4, OtherSteps DEF Channel!Next
<1> QED
  BY <1>1, <1>2, Invariance, PTL DEF Spec, Channel!Spec, ImplementsChannel


-----------------------------------------------------------------------------
(* Counting up *)

\* A set of naturals that is not empty has a least element.
LEMMA LeastNumber ==
  ASSUME NEW S, S \subseteq Nat, S # {}
  PROVE  \E n \in S : \A m \in S : n <= m
<1>1. PICK n \in S : \A m \in S : ~ (<<m, n>> \in OpToRel(<, Nat))
  BY NatLessThanWellFounded, WFMin, Zenon
<1>2. \A m \in S : ~(m < n)
  BY <1>1 DEF OpToRel
<1> QED BY <1>2

\* A set that holds 0, and with each number the next one, holds all up to n.
LEMMA UpTo ==
  ASSUME NEW n \in Nat, NEW S, 0 \in S,
         \A i \in 1..n : i - 1 \in S => i \in S
  PROVE  0..n \subseteq S
<1> DEFINE Missed == {i \in 0..n : i \notin S}
<1>1. Missed = {}
  <2> SUFFICES ASSUME Missed # {} PROVE FALSE
    OBVIOUS
  <2>1. Missed \subseteq Nat
    OBVIOUS
  <2>2. PICK i \in Missed : \A j \in Missed : i <= j
    BY <2>1, LeastNumber, Zenon
  <2>3. i \in 1..n /\ i \notin S
    BY <2>2
  <2>4. i - 1 \in S
    BY <2>2, <2>3
  <2> QED BY <2>3, <2>4
<1> QED BY <1>1

-----------------------------------------------------------------------------
(* Digits *)

\* Digits of different values look different, and like no sign or end.
LEMMA DigitsDiffer ==
  /\ \A d, e \in 0..15 : Digit(d) = Digit(e) => d = e
  /\ \A d \in 0..15 : Digit(d) \in Chars /\ Digit(d) # "NUL"
  /\ Digit(0) = "0" /\ Digit(1) = "1"
<1>1. \A d \in 0..15 :
        Digit(d) = IF d = 0 THEN "0" ELSE IF d = 1 THEN "1"
              ELSE IF d = 2 THEN "2" ELSE IF d = 3 THEN "3"
              ELSE IF d = 4 THEN "4" ELSE IF d = 5 THEN "5"
              ELSE IF d = 6 THEN "6" ELSE IF d = 7 THEN "7"
              ELSE IF d = 8 THEN "8" ELSE IF d = 9 THEN "9"
              ELSE IF d = 10 THEN "a" ELSE IF d = 11 THEN "b"
              ELSE IF d = 12 THEN "c" ELSE IF d = 13 THEN "d"
              ELSE IF d = 14 THEN "e" ELSE "f"
  BY DEF Digit, Digits
<1>2. \A d, e \in 0..15 : Digit(d) = Digit(e) => d = e
  <2> SUFFICES ASSUME NEW d \in 0..15, NEW e \in 0..15, Digit(d) = Digit(e), d # e
               PROVE  FALSE
    OBVIOUS
  <2> QED BY <1>1, SMTT(60)
<1>3. \A d \in 0..15 : Digit(d) \in Chars /\ Digit(d) # "NUL"
  <2> SUFFICES ASSUME NEW d \in 0..15
               PROVE  Digit(d) \in Chars /\ Digit(d) # "NUL"
    OBVIOUS
  <2>1. Digit(d) \in {"0", "1", "2", "3", "4", "5", "6", "7", "8", "9",
                      "a", "b", "c", "d", "e", "f"}
    BY <1>1
  <2>2. Digit(d) # "NUL"
    BY <2>1
  <2>3. Digit(d) \in Chars
    BY <2>1, CharsAssumption, Zenon DEF Printed
  <2> QED BY <2>2, <2>3
<1>4. Digit(0) = "0" /\ Digit(1) = "1"
  BY <1>1
<1> QED BY <1>2, <1>3, <1>4

\* A digit has the value it was made from.
LEMMA DigitValueOf ==
  ASSUME NEW b \in {10, 16}, NEW n \in 0..(b - 1)
  PROVE  DigitValue(Digit(n), b) = n
<1>1. \A m \in 0..(b - 1) : Digit(m) = Digit(n) => m = n
  BY DigitsDiffer
<1> QED BY <1>1 DEF DigitValue

-----------------------------------------------------------------------------
(* Division *)

\* What a division does to a number.
LEMMA DivideOnce ==
  ASSUME NEW x \in Nat, NEW b \in {10, 16}
  PROVE  /\ x \div b \in Nat /\ x % b \in 0..(b - 1)
         /\ x = (x \div b) * b + (x % b)
         /\ x # 0 => x \div b < x
<1>1. x \div 10 \in Nat /\ x % 10 \in 0..9 /\ x = (x \div 10) * 10 + (x % 10)
  OBVIOUS
<1>2. x \div 16 \in Nat /\ x % 16 \in 0..15 /\ x = (x \div 16) * 16 + (x % 16)
  OBVIOUS
<1>3. x # 0 => x \div 10 < x /\ x \div 16 < x
  BY <1>1, <1>2
<1>4. CASE b = 10
  BY <1>1, <1>3, <1>4
<1>5. CASE b = 16
  BY <1>2, <1>3, <1>5
<1> QED BY <1>4, <1>5

\* The quotients, one after the other.
LEMMA QuotientsDivide ==
  ASSUME NEW v \in Nat, NEW b \in {10, 16}
  PROVE  /\ Quotients(v, b)[0] = v
         /\ \A i \in 1..(v + 1) : Quotients(v, b)[i] = Quotients(v, b)[i - 1] \div b
         /\ \A i \in 0..(v + 1) : Quotients(v, b)[i] \in Nat
<1> DEFINE Goes(k, q) == q = [i \in 0..k |-> IF i = 0 THEN v ELSE q[i - 1] \div b]
           Some == {k \in Nat : \E q : Goes(k, q)}
<1>1. 0 \in Some
  <2> DEFINE q == [i \in 0..0 |-> v]
  <2>1. \A i \in 0..0 : i = 0
    OBVIOUS
  <2>2. q = [i \in 0..0 |-> IF i = 0 THEN v ELSE q[i - 1] \div b]
    BY <2>1
  <2>3. Goes(0, q)
    BY <2>2
  <2> QED BY <2>3
<1>2. ASSUME NEW k \in 1..(v + 1), k - 1 \in Some
      PROVE  k \in Some
  <2>1. PICK p : Goes(k - 1, p)
    BY <1>2
  <2> DEFINE q == [i \in 0..k |-> IF i = 0 THEN v ELSE p[i - 1] \div b]
  <2>2. \A i \in 0..k - 1 : p[i] = q[i]
    BY <2>1
  <2>3. \A i \in 0..k : i # 0 => i - 1 \in 0..k - 1
    OBVIOUS
  <2>4. Goes(k, q)
    <3>1. q = [i \in 0..k |-> IF i = 0 THEN v ELSE p[i - 1] \div b]
      OBVIOUS
    <3> HIDE DEF q
    <3>2. \A i \in 0..k : i # 0 => p[i - 1] \div b = q[i - 1] \div b
      BY <2>2, <2>3, Zenon
    <3> QED BY <3>1, <3>2
  <2>5. \E g : Goes(k, g)
    <3> HIDE DEF q, Goes
    <3> QED BY <2>4, Zenon
  <2> QED BY <2>5
<1>3. \E q : Goes(v + 1, q)
  <2>1. 0..(v + 1) \subseteq Some
    <3> HIDE DEF Some
    <3> QED BY <1>1, <1>2, UpTo
  <2>2. v + 1 \in Some
    <3> HIDE DEF Some
    <3> QED BY <2>1
  <2> QED BY <2>2, Zenon
<1>4. Quotients(v, b) = CHOOSE q : Goes(v + 1, q)
  BY Zenon DEF Quotients
<1>5. PICK q : q = Quotients(v, b)
  OBVIOUS
<1>6. Goes(v + 1, q)
  <2> HIDE DEF Goes
  <2> QED BY <1>3, <1>4, <1>5, Zenon
<1>7. q[0] = v /\ \A i \in 1..(v + 1) : q[i] = q[i - 1] \div b
  BY <1>6
<1>8. \A i \in 0..(v + 1) : q[i] \in Nat
  <2> DEFINE Whole == {i \in 0..(v + 1) : q[i] \in Nat}
  <2>1. 0 \in Whole
    BY <1>7
  <2>2. \A i \in 1..(v + 1) : i - 1 \in Whole => i \in Whole
    BY <1>7, DivideOnce
  <2>3. 0..(v + 1) \subseteq Whole
    <3> HIDE DEF Whole
    <3> QED BY <2>1, <2>2, UpTo
  <2> QED BY <2>3
<1> QED BY <1>5, <1>7, <1>8

\* The division ends, and Places says where.
LEMMA PlacesEnd ==
  ASSUME NEW v \in Nat, NEW b \in {10, 16}
  PROVE  /\ Places(v, b) \in 1..(v + 1)
         /\ Quotients(v, b)[Places(v, b)] = 0
         /\ \A m \in 1..(Places(v, b) - 1) : Quotients(v, b)[m] # 0
<1>1. PICK q : q = Quotients(v, b)
  OBVIOUS
<1>2. /\ q[0] = v
      /\ \A i \in 1..(v + 1) : q[i] = q[i - 1] \div b
      /\ \A i \in 0..(v + 1) : q[i] \in Nat
  BY <1>1, QuotientsDivide
<1>3. q[v + 1] = 0
  <2> DEFINE Falls == {i \in 0..(v + 1) : q[i] = 0 \/ q[i] + i <= v}
  <2>1. 0 \in Falls
    BY <1>2
  <2>2. ASSUME NEW i \in 1..(v + 1), i - 1 \in Falls
        PROVE  i \in Falls
    <3>1. PICK x : x = q[i - 1]
      OBVIOUS
    <3>2. x \in Nat /\ q[i] = x \div b
      BY <1>2, <3>1
    <3>3. CASE x = 0
      <4>1. x \div b = 0
        BY <3>3
      <4> QED BY <4>1, <3>2
    <3>4. CASE x # 0
      <4>1. x \div b < x /\ x \div b \in Nat
        BY <3>2, <3>4, DivideOnce
      <4>2. x + (i - 1) <= v
        BY <2>2, <3>1, <3>4
      <4> QED BY <4>1, <4>2, <3>2
    <3> QED BY <3>3, <3>4
  <2>3. 0..(v + 1) \subseteq Falls
    <3> HIDE DEF Falls
    <3> QED BY <2>1, <2>2, UpTo
  <2>4. v + 1 \in Falls /\ q[v + 1] \in Nat
    BY <2>3, <1>2
  <2> QED BY <2>4
<1> DEFINE Zeros == {n \in 1..(v + 1) : q[n] = 0}
<1>4. PICK n \in Zeros : \A m \in Zeros : n <= m
  <2>1. v + 1 \in Zeros /\ Zeros \subseteq Nat
    BY <1>3
  <2> QED BY <2>1, LeastNumber, Zenon
<1>5. n \in 1..(v + 1) /\ q[n] = 0 /\ \A m \in 1..(n - 1) : q[m] # 0
  BY <1>4
<1> DEFINE Ends(k) == q[k] = 0 /\ \A m \in 1..(k - 1) : q[m] # 0
<1>6. \E k \in 1..(v + 1) : Ends(k)
  BY <1>5
<1>7. Places(v, b) = CHOOSE k \in 1..(v + 1) : Ends(k)
  BY <1>1, Zenon DEF Places
<1>8. Places(v, b) \in 1..(v + 1) /\ Ends(Places(v, b))
  <2> HIDE DEF Ends
  <2> QED BY <1>6, <1>7, Zenon
<1> QED BY <1>1, <1>8

-----------------------------------------------------------------------------
(* Numerals *)

\* The digits of v to base b, the greatest first.
DigitsOf(v, b) ==
    [k \in 1..Places(v, b) |-> Digit(Quotients(v, b)[Places(v, b) - k] % b)]

\* They are characters, and none of them ends a text.
LEMMA WrittenText ==
  ASSUME NEW v \in Nat, NEW b \in {10, 16}
  PROVE  IsText(DigitsOf(v, b)) /\ Len(DigitsOf(v, b)) = Places(v, b)
<1>1. PICK n, q : n = Places(v, b) /\ q = Quotients(v, b)
  OBVIOUS
<1>2. n \in 1..(v + 1) /\ \A i \in 0..(v + 1) : q[i] \in Nat
  BY <1>1, PlacesEnd, QuotientsDivide
<1>3. ASSUME NEW k \in 1..n
      PROVE  Digit(q[n - k] % b) \in Chars /\ Digit(q[n - k] % b) # "NUL"
  <2>1. PICK d : d = q[n - k] % b
    OBVIOUS
  <2>2. d \in 0..15
    <3>1. q[n - k] \in Nat
      BY <1>2
    <3>2. d \in 0..(b - 1)
      BY <2>1, <3>1, DivideOnce
    <3> QED BY <3>2
  <2> QED BY <2>1, <2>2, DigitsDiffer
<1>4. DigitsOf(v, b) = [k \in 1..n |-> Digit(q[n - k] % b)]
  BY <1>1 DEF DigitsOf
<1> DEFINE t == [k \in 1..n |-> Digit(q[n - k] % b)]
<1>5. t \in Seq(Chars) /\ Len(t) = n /\ \A k \in DOMAIN t : t[k] # "NUL"
  <2>1. n \in Nat
    BY <1>2
  <2> QED BY <1>3, <2>1
<1> QED BY <1>1, <1>4, <1>5 DEF IsText

\* To read digits one after the other is to go up the quotients.
LEMMA ReadingOf ==
  ASSUME NEW b \in {10, 16}, NEW t \in Seq(Chars),
         NEW f \in [0..Len(t) -> Nat], f[0] = 0,
         \A k \in 1..Len(t) : f[k] = f[k - 1] * b + DigitValue(t[k], b)
  PROVE  Reading(t, b)[Len(t)] = f[Len(t)]
<1>1. PICK n : n = Len(t)
  OBVIOUS
<1>2. n \in Nat
  BY <1>1
<1> DEFINE Reads(g) ==
      g = [k \in 0..n |-> IF k = 0 THEN 0 ELSE g[k - 1] * b + DigitValue(t[k], b)]
<1>3. Reads(f)
  <2>1. \A k \in 0..n : f[k] = IF k = 0 THEN 0 ELSE f[k - 1] * b + DigitValue(t[k], b)
    BY <1>1, <1>2
  <2>2. f = [k \in 0..n |-> f[k]]
    BY <1>1
  <2> QED BY <2>1, <2>2, Zenon
<1>4. Reading(t, b) = CHOOSE g : Reads(g)
  BY <1>1, Zenon DEF Reading
<1>5. PICK g : g = Reading(t, b)
  OBVIOUS
<1>6. Reads(g)
  <2> HIDE DEF Reads
  <2> QED BY <1>3, <1>4, <1>5, Zenon
<1>7. g[0] = 0 /\ \A k \in 1..n : g[k] = g[k - 1] * b + DigitValue(t[k], b)
  BY <1>2, <1>6
<1> DEFINE Same == {k \in 0..n : g[k] = f[k]}
<1>8. 0 \in Same
  BY <1>2, <1>7
<1>9. ASSUME NEW k \in 1..n, k - 1 \in Same
      PROVE  k \in Same
  <2>1. g[k - 1] = f[k - 1]
    BY <1>9
  <2>2. f[k] = f[k - 1] * b + DigitValue(t[k], b)
    BY <1>1
  <2>3. g[k] = f[k]
    BY <1>7, <2>1, <2>2, Zenon
  <2> QED BY <1>2, <2>3
<1>10. 0..n \subseteq Same
  <2> HIDE DEF Same
  <2> QED BY <1>2, <1>8, <1>9, UpTo
<1>11. n \in Same
  <2> HIDE DEF Same
  <2> QED BY <1>2, <1>10
<1> QED BY <1>1, <1>5, <1>11

\* The digits of v are a numeral for it.
LEMMA WrittenNumeral ==
  ASSUME NEW v \in Nat, NEW b \in {10, 16}
  PROVE  Numeral(DigitsOf(v, b), v, b)
<1>1. PICK n, q, t : n = Places(v, b) /\ q = Quotients(v, b) /\ t = DigitsOf(v, b)
  OBVIOUS
<1>2. /\ n \in 1..(v + 1) /\ n \in Nat
      /\ q[0] = v /\ q[n] = 0
      /\ \A i \in 1..n : q[i] = q[i - 1] \div b
      /\ \A i \in 0..n : q[i] \in Nat
      /\ \A m \in 1..(n - 1) : q[m] # 0
  <2>1. n \in 1..(v + 1) /\ q[n] = 0 /\ \A m \in 1..(n - 1) : q[m] # 0
    BY <1>1, PlacesEnd
  <2>2. /\ q[0] = v
        /\ \A i \in 1..(v + 1) : q[i] = q[i - 1] \div b
        /\ \A i \in 0..(v + 1) : q[i] \in Nat
    BY <1>1, QuotientsDivide
  <2>3. n \in Nat /\ 1..n \subseteq 1..(v + 1) /\ 0..n \subseteq 0..(v + 1)
    BY <2>1
  <2> QED BY <2>1, <2>2, <2>3, Zenon
<1>3. t = [k \in 1..n |-> Digit(q[n - k] % b)]
  BY <1>1 DEF DigitsOf
<1>4. t \in Seq(Chars) /\ Len(t) = n
  BY <1>1, WrittenText DEF IsText
<1>5. ASSUME NEW k \in 1..n
      PROVE  /\ q[n - k] % b \in 0..(b - 1)
             /\ t[k] = Digit(q[n - k] % b)
             /\ DigitValue(t[k], b) = q[n - k] % b
  <2>1. q[n - k] \in Nat
    BY <1>2
  <2>2. q[n - k] % b \in 0..(b - 1)
    BY <2>1, DivideOnce
  <2>3. t[k] = Digit(q[n - k] % b)
    BY <1>3
  <2> QED BY <2>2, <2>3, DigitValueOf
<1>6. Reading(t, b)[n] = v
  <2> DEFINE f == [k \in 0..n |-> q[n - k]]
  <2>1. f \in [0..n -> Nat]
    BY <1>2
  <2>2. f[0] = 0 /\ f[n] = v
    BY <1>2
  <2>3. ASSUME NEW k \in 1..n
        PROVE  f[k] = f[k - 1] * b + DigitValue(t[k], b)
    <3>1. n - k + 1 \in 1..n /\ n - k \in 0..n /\ (n - k + 1) - 1 = n - k
      BY <1>2
    <3>2. q[n - k + 1] = q[n - k] \div b /\ q[n - k] \in Nat
      BY <1>2, <3>1
    <3>3. q[n - k] = (q[n - k] \div b) * b + (q[n - k] % b)
      BY <3>2, DivideOnce
    <3>4. f[k] = q[n - k] /\ f[k - 1] = q[n - k + 1]
      BY <1>2
    <3>5. DigitValue(t[k], b) = q[n - k] % b
      BY <1>5
    <3> HIDE DEF f
    <3> QED BY <3>2, <3>3, <3>4, <3>5, Zenon
  <2> HIDE DEF f
  <2> QED BY <1>4, <2>1, <2>2, <2>3, ReadingOf
<1>7. \A k \in DOMAIN t : \E m \in 0..(b - 1) : Digit(m) = t[k]
  <2>1. DOMAIN t = 1..n
    BY <1>3
  <2> QED BY <1>5, <2>1
<1>8. Len(t) > 1 => t[1] # "0"
  <2> SUFFICES ASSUME n > 1 PROVE t[1] # "0"
    BY <1>4
  <2>1. PICK x : x = q[n - 1]
    OBVIOUS
  <2>2. x \in Nat /\ x # 0 /\ x \div b = 0
    BY <1>2, <2>1
  <2>3. x % b = x /\ x \in 0..15
    <3>1. x = (x \div b) * b + (x % b) /\ x % b \in 0..(b - 1)
      BY <2>2, DivideOnce
    <3>2. (x \div b) * b = 0
      BY <2>2
    <3> QED BY <2>2, <3>1, <3>2
  <2>4. t[1] = Digit(x)
    BY <1>2, <1>5, <2>1, <2>3
  <2> QED BY <2>2, <2>3, <2>4, DigitsDiffer
<1>9. t # <<>>
  BY <1>2, <1>4
<1> QED BY <1>1, <1>4, <1>6, <1>7, <1>8, <1>9 DEF Numeral

\* What put_hex writes, and what put_d has written when it is done.
LEMMA PutHexWritten == ASSUME NEW v \in Nat
                       PROVE  PutHex(v) = DigitsOf(v, 16)
BY DEF PutHex, DigitsOf

\* put_d leaves the digits of its number, the highest first.
LEMMA PutDWritten ==
  ASSUME NEW v \in Nat
  PROVE  PutD(v) = DigitsOf(v, 10)
<1>1. PICK n, q : n = Places(v, 10) /\ q = Quotients(v, 10)
  OBVIOUS
<1>2. n \in Nat
  BY <1>1, PlacesEnd
<1>3. PICK s : s = FromLeast(v)
  OBVIOUS
<1>4. s = [k \in 1..n |-> Digit(q[k - 1] % 10)]
  BY <1>1, <1>3 DEF FromLeast
<1>5. DOMAIN s = 1..n /\ Len(s) = n
  BY <1>2, <1>4
<1>6. \A k \in 1..n : k <= n \div 2 \/ n + 1 - k <= n \div 2 \/ n + 1 - k = k
  BY <1>2
<1>7. Reversed(s) = [k \in 1..n |-> s[n + 1 - k]]
  <2>1. Reversed(s) = [k \in 1..n |-> IF k <= n \div 2 \/ n + 1 - k <= n \div 2
                                      THEN s[n + 1 - k] ELSE s[k]]
    BY <1>5 DEF Reversed
  <2>2. \A k \in 1..n : (IF k <= n \div 2 \/ n + 1 - k <= n \div 2
                         THEN s[n + 1 - k] ELSE s[k]) = s[n + 1 - k]
    BY <1>6
  <2> QED BY <2>1, <2>2
<1>8. \A k \in 1..n : s[n + 1 - k] = Digit(q[n - k] % 10)
  <2>1. \A k \in 1..n : n + 1 - k \in 1..n /\ (n + 1 - k) - 1 = n - k
    BY <1>2
  <2> QED BY <1>4, <2>1
<1> QED BY <1>1, <1>3, <1>7, <1>8 DEF PutD, DigitsOf

-----------------------------------------------------------------------------
(* Texts *)

\* A piece of a text lies where its length and the text before it say.
LEMMA CutOut ==
  ASSUME NEW S, NEW p \in Seq(S), NEW q \in Seq(S), NEW r \in Seq(S)
  PROVE  SubSeq((p \o q) \o r, Len(p) + 1, Len(p) + Len(q)) = q
<1>1. PICK s : s = (p \o q) \o r
  OBVIOUS
<1>2. /\ p \o q \in Seq(S) /\ Len(p \o q) = Len(p) + Len(q)
      /\ \A i \in 1..(Len(p) + Len(q)) : (p \o q)[i] = IF i <= Len(p) THEN p[i] ELSE q[i - Len(p)]
  BY ConcatProperties
<1>3. /\ s \in Seq(S) /\ Len(s) = Len(p) + Len(q) + Len(r)
      /\ \A i \in 1..(Len(p) + Len(q)) : s[i] = (p \o q)[i]
  <2>1. /\ s \in Seq(S) /\ Len(s) = Len(p \o q) + Len(r)
        /\ \A i \in 1..(Len(p \o q) + Len(r)) :
             s[i] = IF i <= Len(p \o q) THEN (p \o q)[i] ELSE r[i - Len(p \o q)]
    BY <1>1, <1>2, ConcatProperties
  <2> QED BY <1>2, <2>1
<1>4. Len(p) \in Nat /\ Len(q) \in Nat /\ Len(r) \in Nat
  OBVIOUS
<1>5. \A i \in 1..Len(q) : s[Len(p) + i] = q[i]
  <2> SUFFICES ASSUME NEW i \in 1..Len(q) PROVE s[Len(p) + i] = q[i]
    OBVIOUS
  <2>1. Len(p) + i \in 1..(Len(p) + Len(q)) /\ ~(Len(p) + i <= Len(p))
        /\ (Len(p) + i) - Len(p) = i
    BY <1>4
  <2>2. s[Len(p) + i] = (p \o q)[Len(p) + i]
    BY <1>3, <2>1
  <2>3. (p \o q)[Len(p) + i] = q[i]
    BY <1>2, <2>1
  <2> QED BY <2>2, <2>3
<1> DEFINE m == Len(p) + 1
           n == Len(p) + Len(q)
<1>6. m \in Int /\ n \in Int /\ n - m + 1 = Len(q) /\ (m <= n \/ Len(q) = 0)
  BY <1>4
<1>7. \A i \in m..n : s[i] \in S
  BY <1>3, <1>4, ElementOfSeq
<1>8. /\ SubSeq(s, m, n) \in Seq(S)
      /\ Len(SubSeq(s, m, n)) = Len(q)
      /\ \A i \in 1..Len(q) : SubSeq(s, m, n)[i] = s[m + i - 1]
  <2> HIDE DEF m, n
  <2>1. /\ SubSeq(s, m, n) \in Seq(S)
        /\ Len(SubSeq(s, m, n)) = IF m <= n THEN n - m + 1 ELSE 0
        /\ \A i \in 1..(n - m + 1) : SubSeq(s, m, n)[i] = s[m + i - 1]
    BY <1>6, <1>7, SubSeqProperties
  <2> QED BY <1>4, <1>6, <2>1
<1>9. \A i \in 1..Len(q) : SubSeq(s, m, n)[i] = q[i]
  <2>1. \A i \in 1..Len(q) : m + i - 1 = Len(p) + i
    BY <1>4
  <2> HIDE DEF m, n
  <2> QED BY <1>5, <1>8, <2>1
<1>10. SubSeq(s, m, n) = q
  <2> HIDE DEF m, n
  <2> QED BY <1>8, <1>9, SeqEqual
<1> QED BY <1>1, <1>10

\* What is written behind a text does not change a piece of it.
LEMMA CutBefore ==
  ASSUME NEW S, NEW s \in Seq(S), NEW t \in Seq(S),
         NEW m \in Nat \ {0}, NEW n \in 0..Len(s)
  PROVE  SubSeq(s \o t, m, n) = SubSeq(s, m, n)
<1>1. /\ s \o t \in Seq(S) /\ Len(s \o t) = Len(s) + Len(t)
      /\ \A i \in 1..(Len(s) + Len(t)) : (s \o t)[i] = IF i <= Len(s) THEN s[i] ELSE t[i - Len(s)]
  BY ConcatProperties
<1>2. Len(s) \in Nat /\ Len(t) \in Nat /\ m \in Int /\ n \in Int
  OBVIOUS
<1>3. \A i \in m..n : (s \o t)[i] = s[i] /\ s[i] \in S
  BY <1>1, <1>2, ElementOfSeq
<1>4. PICK u : u = s \o t
  OBVIOUS
<1>5. /\ SubSeq(u, m, n) \in Seq(S)
      /\ Len(SubSeq(u, m, n)) = IF m <= n THEN n - m + 1 ELSE 0
      /\ \A i \in 1..(n - m + 1) : SubSeq(u, m, n)[i] = u[m + i - 1]
  BY <1>2, <1>3, <1>4, SubSeqProperties
<1>6. /\ SubSeq(s, m, n) \in Seq(S)
      /\ Len(SubSeq(s, m, n)) = IF m <= n THEN n - m + 1 ELSE 0
      /\ \A i \in 1..(n - m + 1) : SubSeq(s, m, n)[i] = s[m + i - 1]
  BY <1>2, <1>3, SubSeqProperties
<1>7. \A i \in 1..(n - m + 1) : m + i - 1 \in m..n
  BY <1>2
<1>8. \A i \in 1..Len(SubSeq(u, m, n)) : SubSeq(u, m, n)[i] = SubSeq(s, m, n)[i]
  <2>1. \A i \in 1..(n - m + 1) : SubSeq(u, m, n)[i] = SubSeq(s, m, n)[i]
    BY <1>3, <1>4, <1>5, <1>6, <1>7
  <2>2. Len(SubSeq(u, m, n)) <= n - m + 1 \/ Len(SubSeq(u, m, n)) = 0
    BY <1>2, <1>5
  <2>3. Len(SubSeq(u, m, n)) \in Nat
    BY <1>5
  <2> QED BY <1>2, <2>1, <2>2, <2>3
<1>9. Len(SubSeq(u, m, n)) = Len(SubSeq(s, m, n))
  BY <1>5, <1>6
<1>10. SubSeq(u, m, n) = SubSeq(s, m, n)
  BY <1>5, <1>6, <1>8, <1>9, SeqEqual
<1> QED BY <1>4, <1>10

\* The first character of a text, and the rest.
LEMMA SignOff ==
  ASSUME NEW S, NEW c \in S, NEW s \in Seq(S)
  PROVE  /\ <<c>> \o s \in Seq(S)
         /\ <<c>> \o s # <<>>
         /\ (<<c>> \o s)[1] = c
         /\ Tail(<<c>> \o s) = s
<1>1. <<c>> \in Seq(S) /\ Len(<<c>>) = 1 /\ <<c>>[1] = c
  OBVIOUS
<1>2. PICK t : t = <<c>> \o s
  OBVIOUS
<1>3. /\ t \in Seq(S) /\ Len(t) = 1 + Len(s)
      /\ \A i \in 1..(1 + Len(s)) : t[i] = IF i <= 1 THEN <<c>>[i] ELSE s[i - 1]
  BY <1>1, <1>2, ConcatProperties
<1>4. Len(s) \in Nat
  OBVIOUS
<1>5. t # <<>> /\ t[1] = c
  <2>1. Len(t) # 0
    BY <1>3, <1>4
  <2> QED BY <1>1, <1>3, <1>4, <2>1
<1>6. /\ Tail(t) \in Seq(S) /\ Len(Tail(t)) = Len(t) - 1
      /\ \A i \in 1..Len(Tail(t)) : Tail(t)[i] = t[i + 1]
  BY <1>3, <1>5, HeadTailProperties
<1>7. \A i \in 1..Len(Tail(t)) : Tail(t)[i] = s[i]
  BY <1>3, <1>4, <1>6
<1>8. Tail(t) = s
  BY <1>3, <1>4, <1>6, <1>7, SeqEqual
<1> QED BY <1>2, <1>3, <1>5, <1>8

\* Texts that end nowhere are put together to such a text.
LEMMA TextConcat ==
  ASSUME NEW s, NEW t, IsText(s), IsText(t)
  PROVE  IsText(s \o t)
<1>1. s \in Seq(Chars) /\ t \in Seq(Chars) /\ Len(s) \in Nat /\ Len(t) \in Nat
  BY DEF IsText
<1>2. /\ s \o t \in Seq(Chars) /\ Len(s \o t) = Len(s) + Len(t)
      /\ \A i \in 1..(Len(s) + Len(t)) : (s \o t)[i] = IF i <= Len(s) THEN s[i] ELSE t[i - Len(s)]
  BY <1>1, ConcatProperties
<1>3. \A k \in 1..Len(s) : s[k] # "NUL"
  BY <1>1 DEF IsText
<1>4. \A k \in 1..Len(t) : t[k] # "NUL"
  BY <1>1 DEF IsText
<1>5. \A i \in 1..(Len(s) + Len(t)) : (s \o t)[i] # "NUL"
  BY <1>1, <1>2, <1>3, <1>4
<1>6. DOMAIN (s \o t) = 1..(Len(s) + Len(t))
  BY <1>2
<1> QED BY <1>2, <1>5, <1>6 DEF IsText

-----------------------------------------------------------------------------
(* What put_i, put_hex and put_f write *)

\* A number below the modulus is what it was.
LEMMA ModSmall ==
  ASSUME NEW n \in Nat \ {0}, NEW x \in 0..(n - 1)
  PROVE  x % n = x
<1>1. PICK a, r : a = x \div n /\ r = x % n
  OBVIOUS
<1>2. a \in Nat /\ r \in 0..(n - 1) /\ x = n * a + r
  BY <1>1
<1>3. a >= 1 => n * a >= n
  BY <1>2
<1>4. a = 0
  BY <1>2, <1>3
<1>5. n * a = 0
  BY <1>4
<1> QED BY <1>1, <1>2, <1>5

\* A word holds each number up to the largest.
LEMMA UnsignedKeeps ==
  ASSUME NEW v \in 0..Half
  PROVE  Unsigned(v) = v /\ v \in Nat
<1>1. Half \in Nat \ {0}
  BY WordAssumption
<1>2. 2 * Half \in Nat \ {0} /\ v \in 0..(2 * Half - 1)
  BY <1>1
<1> QED BY <1>1, <1>2, ModSmall DEF Unsigned

\* What put_d has written is the number, and a text.
LEMMA PutDRight ==
  ASSUME NEW v \in Nat
  PROVE  Numeral(PutD(v), v, 10) /\ IsText(PutD(v)) /\ PutD(v) \in Seq(Chars)
<1>1. PutD(v) = DigitsOf(v, 10)
  BY PutDWritten
<1> QED BY <1>1, WrittenNumeral, WrittenText DEF IsText

\* The marks between and around the fields are characters.
LEMMA CharsKnown ==
  /\ "-" \in Chars /\ "." \in Chars /\ "0" \in Chars /\ "x" \in Chars
  /\ "NUL" \in Chars
  /\ Comma \in Chars /\ Quote \in Chars /\ Newline \in Chars
BY CharsAssumption, Zenon DEF Printed

\* No mark is an end.
LEMMA MarksDiffer == Comma # "NUL" /\ Quote # "NUL" /\ Newline # "NUL"
BY Zenon DEF Comma, Quote, Newline

\* One character is a text.
LEMMA OneText == ASSUME NEW c \in Chars, c # "NUL"
                 PROVE  IsText(<<c>>) /\ <<c>> \in Seq(Chars)
BY DEF IsText

\* put_i writes an integer, the least one included.
LEMMA PutIRight ==
  ASSUME NEW v \in (-Half)..(Half - 1)
  PROVE  Decimal(PutI(v), v) /\ IsText(PutI(v))
<1>1. Half \in Nat \ {0} /\ v \in Int
  BY WordAssumption
<1>2. CASE ~(v < 0)
  <2>1. v \in Nat
    BY <1>1, <1>2
  <2> QED BY <1>2, <2>1, PutDRight DEF PutI, Decimal
<1>3. CASE v < 0
  <2>1. PICK w : w = -v
    OBVIOUS
  <2>2. w \in 0..Half
    BY <1>1, <1>3, <2>1
  <2>3. Unsigned(w) = w /\ w \in Nat
    BY <2>2, UnsignedKeeps
  <2>4. PICK s : s = PutD(w)
    OBVIOUS
  <2>5. Numeral(s, w, 10) /\ IsText(s) /\ s \in Seq(Chars)
    BY <2>3, <2>4, PutDRight
  <2>6. PutI(v) = <<"-">> \o s
    BY <1>3, <2>1, <2>3, <2>4 DEF PutI
  <2>7. /\ <<"-">> \o s # <<>> /\ (<<"-">> \o s)[1] = "-" /\ Tail(<<"-">> \o s) = s
    BY <2>5, CharsKnown, SignOff
  <2>8. IsText(<<"-">>)
    BY CharsKnown, OneText
  <2>9. IsText(<<"-">> \o s)
    BY <2>5, <2>8, TextConcat
  <2>10. Decimal(<<"-">> \o s, v)
    BY <1>3, <2>1, <2>5, <2>7 DEF Decimal
  <2> QED BY <2>6, <2>9, <2>10
<1> QED BY <1>2, <1>3

\* put_hex behind its 0x.
LEMMA PutHexRight ==
  ASSUME NEW v \in Nat, NEW t, t = <<"0", "x">> \o PutHex(v)
  PROVE  /\ SubSeq(t, 1, 2) = <<"0", "x">>
         /\ Numeral(SubSeq(t, 3, Len(t)), v, 16)
         /\ IsText(t)
<1>1. PICK s : s = PutHex(v)
  OBVIOUS
<1>2. Numeral(s, v, 16) /\ IsText(s) /\ s \in Seq(Chars)
  BY <1>1, PutHexWritten, WrittenNumeral, WrittenText DEF IsText
<1>3. PICK p : p = <<"0", "x">>
  OBVIOUS
<1>4. p \in Seq(Chars) /\ Len(p) = 2 /\ IsText(p)
  <2>1. "0" # "NUL" /\ "x" # "NUL"
    OBVIOUS
  <2> QED BY <1>3, <2>1, CharsKnown DEF IsText
<1>5. t = p \o s
  BY <1>1, <1>3
<1>6. t \in Seq(Chars) /\ Len(t) = 2 + Len(s) /\ IsText(t)
  <2>1. p \o s \in Seq(Chars) /\ Len(p \o s) = Len(p) + Len(s)
    BY <1>2, <1>4, ConcatProperties
  <2>2. IsText(p \o s)
    BY <1>2, <1>4, TextConcat
  <2> QED BY <1>4, <1>5, <2>1, <2>2
<1>7. SubSeq(t, 1, 2) = p
  <2>1. SubSeq(t, 1, 2) = SubSeq(p, 1, 2)
    BY <1>2, <1>4, <1>5, CutBefore, SMTT(30)
  <2>2. SubSeq(p, 1, Len(p)) = p
    BY <1>4, SubSeqFull
  <2> QED BY <1>4, <2>1, <2>2
<1>8. SubSeq(t, 3, Len(t)) = s
  <2>1. <<>> \in Seq(Chars) /\ t \o <<>> = t
    BY <1>6, ConcatEmptySeq
  <2>2. SubSeq((p \o s) \o <<>>, Len(p) + 1, Len(p) + Len(s)) = s
    BY <1>2, <1>4, <2>1, CutOut
  <2>3. SubSeq(t, 2 + 1, 2 + Len(s)) = s
    BY <1>4, <1>5, <2>1, <2>2
  <2> QED BY <1>6, <2>3
<1> QED BY <1>2, <1>3, <1>6, <1>7, <1>8

-----------------------------------------------------------------------------
(* What put_f writes *)

\* The tenth by multiplication and shift is the tenth.
LEMMA TenthByShift ==
  ASSUME NEW s \in 0..99
  PROVE  (s * 205) \div 2048 = s \div 10 /\ s \div 10 \in 0..9
         /\ s - 10 * (s \div 10) \in 0..9
<1>1. PICK a : a = s \div 10
  OBVIOUS
<1>2. a \in 0..9 /\ s - 10 * a \in 0..9
  BY <1>1
<1>3. PICK r : r = s - 10 * a
  OBVIOUS
<1>4. s * 205 = 2050 * a + 205 * r
  BY <1>2, <1>3
<1>5. 2048 * a <= s * 205 /\ s * 205 < 2048 * (a + 1)
  BY <1>2, <1>3, <1>4
<1>6. PICK x : x = s * 205
  OBVIOUS
<1>7. x \in Nat /\ x \div 2048 = a
  BY <1>2, <1>5, <1>6
<1> QED BY <1>1, <1>2, <1>6, <1>7

\* A 1, and three digits behind it, are a numeral.
LEMMA Thousandths ==
  ASSUME NEW x \in 0..9, NEW y \in 0..9, NEW z \in 0..9,
         NEW v, v = 1000 + 100 * x + 10 * y + z
  PROVE  Numeral(<<"1", Digit(x), Digit(y), Digit(z)>>, v, 10)
<1>0. PICK t : t = <<"1", Digit(x), Digit(y), Digit(z)>>
  BY ZenonT(60)
<1>1. Digit(1) = "1" /\ \A d \in 0..9 : Digit(d) \in Chars /\ DigitValue(Digit(d), 10) = d
  BY DigitsDiffer, DigitValueOf
<1>2. t \in Seq(Chars) /\ Len(t) = 4 /\ t # <<>>
  BY <1>0, <1>1
<1>3. t[1] = Digit(1) /\ t[2] = Digit(x) /\ t[3] = Digit(y) /\ t[4] = Digit(z)
  BY <1>0, <1>1
<1>4. \A k \in DOMAIN t : \E n \in 0..9 : Digit(n) = t[k]
  <2>1. \A k \in DOMAIN t : k = 1 \/ k = 2 \/ k = 3 \/ k = 4
    BY <1>2
  <2> QED BY <1>3, <2>1
<1>5. t[1] # "0"
  BY <1>1, <1>3
<1> DEFINE f == [k \in 0..4 |-> IF k = 0 THEN 0 ELSE IF k = 1 THEN 1
                   ELSE IF k = 2 THEN 10 + x
                   ELSE IF k = 3 THEN 100 + 10 * x + y
                   ELSE 1000 + 100 * x + 10 * y + z]
<1>6. f \in [0..4 -> Nat] /\ f[0] = 0 /\ f[1] = 1 /\ f[2] = 10 + x
      /\ f[3] = 100 + 10 * x + y /\ f[4] = 1000 + 100 * x + 10 * y + z
  OBVIOUS
<1>7. \A k \in 1..4 : f[k] = f[k - 1] * 10 + DigitValue(t[k], 10)
  <2> HIDE DEF f
  <2>1. /\ DigitValue(t[1], 10) = 1 /\ DigitValue(t[2], 10) = x
        /\ DigitValue(t[3], 10) = y /\ DigitValue(t[4], 10) = z
    BY <1>1, <1>3
  <2>2. /\ f[1] = f[0] * 10 + 1 /\ f[2] = f[1] * 10 + x
        /\ f[3] = f[2] * 10 + y /\ f[4] = f[3] * 10 + z
    BY <1>6
  <2> SUFFICES ASSUME NEW k \in 1..4
               PROVE  f[k] = f[k - 1] * 10 + DigitValue(t[k], 10)
    OBVIOUS
  <2>3. k = 1 \/ k = 2 \/ k = 3 \/ k = 4
    OBVIOUS
  <2>4. CASE k = 1
    BY <2>1, <2>2, <2>4
  <2>5. CASE k = 2
    BY <2>1, <2>2, <2>5
  <2>6. CASE k = 3
    BY <2>1, <2>2, <2>6
  <2>7. CASE k = 4
    BY <2>1, <2>2, <2>7
  <2> QED BY <2>3, <2>4, <2>5, <2>6, <2>7
<1>8. Reading(t, 10)[4] = 1000 + 100 * x + 10 * y + z
  <2> HIDE DEF f
  <2>1. 10 \in {10, 16} /\ f \in [0..Len(t) -> Nat] /\ t \in Seq(Chars) /\ f[0] = 0
        /\ \A k \in 1..Len(t) : f[k] = f[k - 1] * 10 + DigitValue(t[k], 10)
    BY <1>2, <1>6, <1>7
  <2>2. Reading(t, 10)[Len(t)] = f[Len(t)]
    BY <2>1, ReadingOf, Zenon
  <2> QED BY <1>2, <1>6, <2>2
<1>9. \A k \in DOMAIN t : \E n \in 0..(10 - 1) : Digit(n) = t[k]
  BY <1>4
<1>10. Reading(t, 10)[Len(t)] = v
  BY <1>2, <1>8
<1> QED BY <1>0, <1>2, <1>5, <1>9, <1>10 DEF Numeral

\* A point and three digits behind a text.
LEMMA PointText ==
  ASSUME NEW p \in Seq(Chars), IsText(p), p # <<>>,
         NEW x \in 0..9, NEW y \in 0..9, NEW z \in 0..9
  PROVE  LET t == p \o <<".", Digit(x), Digit(y), Digit(z)>>
         IN  /\ IsText(t)
             /\ Len(t) >= 5 /\ t[Len(t) - 3] = "."
             /\ SubSeq(t, 1, Len(t) - 4) = p
             /\ <<"1">> \o SubSeq(t, Len(t) - 2, Len(t))
                  = <<"1", Digit(x), Digit(y), Digit(z)>>
<1>1. PICK q : q = <<".", Digit(x), Digit(y), Digit(z)>>
  OBVIOUS
<1>2. PICK t : t = p \o q
  OBVIOUS
<1>3. \A d \in 0..9 : Digit(d) \in Chars /\ Digit(d) # "NUL"
  BY DigitsDiffer
<1>4. q \in Seq(Chars) /\ Len(q) = 4 /\ IsText(q)
  <2>1. q \in Seq(Chars) /\ Len(q) = 4
    BY <1>1, <1>3, CharsKnown
  <2>2. q[1] # "NUL" /\ q[2] # "NUL" /\ q[3] # "NUL" /\ q[4] # "NUL"
    BY <1>1, <1>3
  <2>3. \A k \in DOMAIN q : k = 1 \/ k = 2 \/ k = 3 \/ k = 4
    BY <2>1
  <2> QED BY <2>1, <2>2, <2>3 DEF IsText
<1>5. Len(p) \in Nat /\ Len(p) # 0
  OBVIOUS
<1>6. /\ t \in Seq(Chars) /\ Len(t) = Len(p) + 4
       /\ \A i \in 1..(Len(p) + 4) : t[i] = IF i <= Len(p) THEN p[i] ELSE q[i - Len(p)]
  <2>1. /\ p \o q \in Seq(Chars) /\ Len(p \o q) = Len(p) + Len(q)
        /\ \A i \in 1..(Len(p) + Len(q)) :
             (p \o q)[i] = IF i <= Len(p) THEN p[i] ELSE q[i - Len(p)]
    BY <1>4, ConcatProperties
  <2> QED BY <1>2, <1>4, <2>1
<1>7. IsText(t)
  BY <1>2, <1>4, TextConcat
<1>8. Len(t) >= 5 /\ t[Len(t) - 3] = "."
  <2>1. Len(t) - 3 = Len(p) + 1 /\ Len(p) + 1 \in 1..(Len(p) + 4)
        /\ ~(Len(p) + 1 <= Len(p)) /\ (Len(p) + 1) - Len(p) = 1
    BY <1>5, <1>6
  <2>2. t[Len(p) + 1] = q[1]
    BY <1>6, <2>1
  <2>3. q[1] = "."
    BY <1>1
  <2> QED BY <1>5, <1>6, <2>1, <2>2, <2>3
<1>9. SubSeq(t, 1, Len(t) - 4) = p
  <2>1. Len(t) - 4 = Len(p) /\ Len(p) \in 0..Len(p)
    BY <1>5, <1>6
  <2>2. SubSeq(t, 1, Len(p)) = SubSeq(p, 1, Len(p))
    BY <1>2, <1>4, <2>1, CutBefore
  <2>3. SubSeq(p, 1, Len(p)) = p
    BY SubSeqFull
  <2> QED BY <2>1, <2>2, <2>3
<1>10. <<"1">> \o SubSeq(t, Len(t) - 2, Len(t)) = <<"1", Digit(x), Digit(y), Digit(z)>>
  <2>1. PICK a, b : a = Len(t) - 2 /\ b = Len(t)
    OBVIOUS
  <2>2. a \in Int /\ b \in Int /\ a = Len(p) + 2 /\ b = Len(p) + 4
    BY <1>5, <1>6, <2>1
  <2>3. \A i \in a..b : t[i] \in Chars
    BY <1>5, <1>6, <2>2, ElementOfSeq
  <2>4. PICK s : s = SubSeq(t, a, b)
    OBVIOUS
  <2>5. s \in Seq(Chars) /\ Len(s) = 3 /\ \A i \in 1..3 : s[i] = t[a + i - 1]
    <3>1. /\ s \in Seq(Chars) /\ Len(s) = IF a <= b THEN b - a + 1 ELSE 0
          /\ \A i \in 1..(b - a + 1) : s[i] = t[a + i - 1]
      BY <2>2, <2>3, <2>4, SubSeqProperties
    <3>2. b - a + 1 = 3 /\ a <= b
      BY <1>5, <2>2
    <3> QED BY <3>1, <3>2
  <2>6. s[1] = Digit(x) /\ s[2] = Digit(y) /\ s[3] = Digit(z)
    <3>1. t[Len(p) + 2] = q[2] /\ t[Len(p) + 3] = q[3] /\ t[Len(p) + 4] = q[4]
      BY <1>5, <1>6
    <3>2. s[1] = t[Len(p) + 2] /\ s[2] = t[Len(p) + 3] /\ s[3] = t[Len(p) + 4]
      BY <1>5, <2>2, <2>5
    <3> QED BY <1>1, <3>1, <3>2
  <2>7. "1" \in Chars
    BY DigitsDiffer
  <2> DEFINE g == <<"1">> \o s
             h == <<"1", Digit(x), Digit(y), Digit(z)>>
  <2>8. g \in Seq(Chars) /\ Len(g) = 4 /\ g[1] = "1"
        /\ g[2] = s[1] /\ g[3] = s[2] /\ g[4] = s[3]
    <3>1. <<"1">> \in Seq(Chars) /\ Len(<<"1">>) = 1 /\ <<"1">>[1] = "1"
      BY <2>7
    <3>2. /\ g \in Seq(Chars) /\ Len(g) = 1 + 3
          /\ \A i \in 1..4 : g[i] = IF i <= 1 THEN <<"1">>[i] ELSE s[i - 1]
      <4>1. PICK o : o = <<"1">>
        OBVIOUS
      <4>2. o \in Seq(Chars) /\ Len(o) = 1
        BY <3>1, <4>1
      <4>3. /\ o \o s \in Seq(Chars) /\ Len(o \o s) = Len(o) + Len(s)
            /\ \A i \in 1..(Len(o) + Len(s)) :
                 (o \o s)[i] = IF i <= Len(o) THEN o[i] ELSE s[i - Len(o)]
        BY <2>5, <4>2, ConcatProperties
      <4> QED BY <2>5, <4>1, <4>2, <4>3
    <3> QED BY <3>1, <3>2
  <2>9. h \in Seq(Chars) /\ Len(h) = 4 /\ h[1] = "1"
        /\ h[2] = Digit(x) /\ h[3] = Digit(y) /\ h[4] = Digit(z)
    BY <1>3, <2>7
  <2>10. \A i \in 1..4 : g[i] = h[i]
    <3> HIDE DEF g, h
    <3>1. \A i \in 1..4 : i = 1 \/ i = 2 \/ i = 3 \/ i = 4
      OBVIOUS
    <3> QED BY <2>6, <2>8, <2>9, <3>1
  <2>11. g = h
    <3> HIDE DEF g, h
    <3> QED BY <2>8, <2>9, <2>10, SeqEqual
  <2> QED BY <2>1, <2>4, <2>11
<1> QED BY <1>1, <1>2, <1>7, <1>8, <1>9, <1>10

\* The fraction of put_f has the three digits of its number.
LEMMA FractionDigits ==
  ASSUME NEW r \in 0..999
  PROVE  \E x, y, z \in 0..9 :
           /\ Fraction(r) = <<".", Digit(x), Digit(y), Digit(z)>>
           /\ r = 100 * x + 10 * y + z
<1>1. PICK x, s : x = r \div 100 /\ s = r % 100
  OBVIOUS
<1>2. x \in 0..9 /\ s \in 0..99 /\ r = 100 * x + s
  BY <1>1
<1>3. PICK y : y = s \div 10
  OBVIOUS
<1>4. (s * 205) \div 2048 = y /\ y \in 0..9 /\ s - 10 * y \in 0..9
  BY <1>2, <1>3, TenthByShift
<1>5. PICK z : z = s - 10 * y
  OBVIOUS
<1>6. r = 100 * x + 10 * y + z /\ z \in 0..9
  BY <1>2, <1>4, <1>5
<1>7. Fraction(r) = <<".", Digit(x), Digit(y), Digit(z)>>
  <2>1. Fraction(r) = <<".", Digit(x), Digit((s * 205) \div 2048),
                        Digit(s - 10 * ((s * 205) \div 2048))>>
    BY <1>1 DEF Fraction
  <2> QED BY <1>4, <1>5, <2>1
<1> QED BY <1>2, <1>4, <1>6, <1>7

\* put_f: a number whose integer part u fits an int32_t, and r / 1000.
Pointed(t, u, r) ==
    /\ IsText(t)
    /\ Len(t) >= 5 /\ t[Len(t) - 3] = "."
    /\ Numeral(SubSeq(t, 1, Len(t) - 4), u, 10)
    /\ Numeral(<<"1">> \o SubSeq(t, Len(t) - 2, Len(t)), 1000 + r, 10)

\* The integer part, the point and three digits are read as they are written.
LEMMA PutFParts ==
  ASSUME NEW u \in 0..(Half32 - 1), NEW r \in 0..999
  PROVE  Pointed(PutD(Unsigned(Int32(u))) \o Fraction(r), u, r)
<1>1. Half32 \in Nat \ {0} /\ Half \in Nat \ {0} /\ Half32 <= Half /\ u \in Nat
  BY WordAssumption
<1>2. Int32(u) = u
  <2>1. 2 * Half32 \in Nat \ {0} /\ u + Half32 \in 0..(2 * Half32 - 1)
    BY <1>1
  <2>2. (u + Half32) % (2 * Half32) = u + Half32
    BY <2>1, ModSmall
  <2> QED BY <1>1, <2>2 DEF Int32
<1>3. Unsigned(u) = u
  <2>1. u \in 0..Half
    BY <1>1, SMTT(30)
  <2> QED BY <2>1, UnsignedKeeps
<1>4. PICK x, y, z \in 0..9 :
           /\ Fraction(r) = <<".", Digit(x), Digit(y), Digit(z)>>
           /\ r = 100 * x + 10 * y + z
  BY FractionDigits
<1>5. PICK p : p = PutD(u)
  OBVIOUS
<1>6. Numeral(p, u, 10) /\ IsText(p) /\ p \in Seq(Chars) /\ p # <<>>
  <2>1. Numeral(p, u, 10) /\ IsText(p) /\ p \in Seq(Chars)
    BY <1>1, <1>5, PutDRight
  <2> QED BY <2>1 DEF Numeral
<1>7. PICK e : e = <<"1", Digit(x), Digit(y), Digit(z)>>
  OBVIOUS
<1>8. Numeral(e, 1000 + r, 10)
  <2>1. PICK v : v = 1000 + r
    OBVIOUS
  <2>2. v = 1000 + 100 * x + 10 * y + z
    BY <1>4, <2>1
  <2>3. Numeral(<<"1", Digit(x), Digit(y), Digit(z)>>, v, 10)
    BY <2>2, Thousandths, ZenonT(60)
  <2> QED BY <1>7, <2>1, <2>3
<1> DEFINE t == p \o <<".", Digit(x), Digit(y), Digit(z)>>
<1>10. /\ IsText(t)
       /\ Len(t) >= 5 /\ t[Len(t) - 3] = "."
       /\ SubSeq(t, 1, Len(t) - 4) = p
       /\ <<"1">> \o SubSeq(t, Len(t) - 2, Len(t)) = <<"1", Digit(x), Digit(y), Digit(z)>>
  BY <1>6, PointText, ZenonT(60)
<1>11. PutD(Unsigned(Int32(u))) \o Fraction(r) = t
  BY <1>2, <1>3, <1>4, <1>5, Zenon
<1> HIDE DEF t
<1>12. /\ Numeral(SubSeq(t, 1, Len(t) - 4), u, 10)
       /\ Numeral(<<"1">> \o SubSeq(t, Len(t) - 2, Len(t)), 1000 + r, 10)
  <2>1. Numeral(SubSeq(t, 1, Len(t) - 4), u, 10)
    BY <1>6, <1>10, Zenon
  <2>2. Numeral(<<"1">> \o SubSeq(t, Len(t) - 2, Len(t)), 1000 + r, 10)
    BY <1>7, <1>8, <1>10, ZenonT(60)
  <2> QED BY <2>1, <2>2
<1>13. Pointed(t, u, r)
  BY <1>10, <1>12 DEF Pointed
<1> QED BY <1>11, <1>13

\* The double in thousandths, cut off.
Millis(v) == (IF v < 0 THEN -v ELSE v) \div 10

\* What put_f writes behind the sign.
Positive(v) == PutD(Unsigned(Int32(Millis(v) \div 1000))) \o Fraction(Millis(v) % 1000)

\* Its integer part is an int32_t.
Fits(v) == v < 10000 * Half32 /\ v > -10000 * Half32

\* The integer part of a float that fits is an int32_t.
LEMMA MillisParts ==
  ASSUME NEW v \in Int
  PROVE  /\ Millis(v) \in Nat
         /\ Millis(v) % 1000 \in 0..999 /\ Millis(v) \div 1000 \in Nat
         /\ Fits(v) => Millis(v) \div 1000 \in 0..(Half32 - 1)
<1>1. Half32 \in Nat \ {0}
  BY WordAssumption
<1>2. PICK w : w = IF v < 0 THEN -v ELSE v
  OBVIOUS
<1>3. w \in Nat /\ (Fits(v) => w < 10000 * Half32)
  BY <1>1, <1>2 DEF Fits
<1>4. PICK m : m = w \div 10
  OBVIOUS
<1>5. m \in Nat /\ (w < 10000 * Half32 => m < 1000 * Half32)
  BY <1>1, <1>3, <1>4
<1>6. m % 1000 \in 0..999 /\ m \div 1000 \in Nat
  BY <1>5
<1>7. m < 1000 * Half32 => m \div 1000 <= Half32 - 1
  BY <1>1, <1>5
<1>8. Millis(v) = m
  BY <1>2, <1>4 DEF Millis
<1> QED BY <1>1, <1>3, <1>5, <1>6, <1>7, <1>8

\* The integer part of put_f is a number, whatever is cut off it.
LEMMA PutFIsText ==
  ASSUME NEW v \in Int
  PROVE  /\ IsText(Positive(v))
         /\ PutF(v) = (IF v < 0 /\ Millis(v) > 0 THEN <<"-">> ELSE <<>>) \o Positive(v)
         /\ IsText(PutF(v))
<1>1. PICK u, r : u = Millis(v) \div 1000 /\ r = Millis(v) % 1000
  OBVIOUS
<1>2. u \in Nat /\ r \in 0..999
  <2>1. Millis(v) \div 1000 \in Nat /\ Millis(v) % 1000 \in 0..999
    BY MillisParts, SMTT(30)
  <2> QED BY <1>1, <2>1
<1>3. PICK w : w = Unsigned(Int32(u))
  OBVIOUS
<1>4. w \in Nat
  <2>1. Half32 \in Nat \ {0} /\ Half \in Nat \ {0}
    BY WordAssumption
  <2>2. PICK i : i = Int32(u)
    OBVIOUS
  <2>3. i \in Int
    <3>1. 2 * Half32 \in Nat \ {0} /\ u + Half32 \in Int
      BY <1>2, <2>1
    <3>2. (u + Half32) % (2 * Half32) \in Int
      BY <3>1
    <3> QED BY <2>1, <2>2, <3>2 DEF Int32
  <2>4. 2 * Half \in Nat \ {0}
    BY <2>1
  <2>5. i % (2 * Half) \in Nat
    BY <2>3, <2>4
  <2> QED BY <1>3, <2>2, <2>5 DEF Unsigned
<1>5. PICK x, y, z \in 0..9 : Fraction(r) = <<".", Digit(x), Digit(y), Digit(z)>>
  BY <1>2, FractionDigits, ZenonT(60)
<1>6. PICK p : p = PutD(w)
  OBVIOUS
<1>7. IsText(p) /\ p \in Seq(Chars) /\ p # <<>>
  <2>1. IsText(p) /\ p \in Seq(Chars) /\ Numeral(p, w, 10)
    BY <1>4, <1>6, PutDRight
  <2> QED BY <2>1 DEF Numeral
<1> DEFINE t == p \o <<".", Digit(x), Digit(y), Digit(z)>>
<1>8. IsText(t)
  BY <1>7, PointText, ZenonT(60)
<1>9. t = PutD(Unsigned(Int32(u))) \o Fraction(r)
  BY <1>3, <1>5, <1>6, Zenon
<1> HIDE DEF t
<1>13. Positive(v) = t
  BY <1>1, <1>9 DEF Positive
<1> DEFINE sign == IF v < 0 /\ Millis(v) > 0 THEN <<"-">> ELSE <<>>
<1>10. PutF(v) = sign \o t
  <2>1. PutF(v) = sign \o Positive(v)
    BY DEF PutF, Millis, Positive
  <2> QED BY <1>13, <2>1
<1>11. IsText(sign)
  <2>1. IsText(<<"-">>)
    BY CharsKnown, OneText
  <2>2. IsText(<<>>)
    BY DEF IsText
  <2> QED BY <2>1, <2>2
<1>12. IsText(sign \o t)
  <2> HIDE DEF sign
  <2> QED BY <1>8, <1>11, TextConcat
<1> QED BY <1>8, <1>10, <1>12, <1>13

\* put_f writes a double whose integer part fits.
LEMMA PutFRight ==
  ASSUME NEW v \in Int, Fits(v)
  PROVE  Point(PutF(v), v)
<1>1. PICK m, u, r : m = Millis(v) /\ u = m \div 1000 /\ r = m % 1000
  OBVIOUS
<1>2. m \in Nat /\ u \in 0..(Half32 - 1) /\ r \in 0..999
  <2>1. Millis(v) \in Nat /\ Millis(v) \div 1000 \in 0..(Half32 - 1)
        /\ Millis(v) % 1000 \in 0..999
    BY MillisParts
  <2> QED BY <1>1, <2>1
<1>0. PICK t : t = Positive(v)
  OBVIOUS
<1>3. Pointed(t, u, r)
  <2>1. t = PutD(Unsigned(Int32(u))) \o Fraction(r)
    BY <1>1, <1>0 DEF Positive
  <2>2. Pointed(PutD(Unsigned(Int32(u))) \o Fraction(r), u, r)
    BY <1>2, PutFParts, ZenonT(60)
  <2> QED BY <2>1, <2>2
<1>4. PutF(v) = (IF v < 0 /\ m > 0 THEN <<"-">> ELSE <<>>) \o t
  <2>1. PutF(v) = (IF v < 0 /\ Millis(v) > 0 THEN <<"-">> ELSE <<>>) \o Positive(v)
    BY PutFIsText
  <2> QED BY <1>1, <1>0, <2>1
<1>5. PICK s : s = PutF(v)
  OBVIOUS
<1>6. t \in Seq(Chars)
  BY <1>3 DEF IsText, Pointed
<1>7. /\ v < 0 /\ m > 0 => s # <<>> /\ s[1] = "-"
      /\ t = IF v < 0 /\ m > 0 THEN Tail(s) ELSE s
  <2>1. CASE v < 0 /\ m > 0
    <3>1. s = <<"-">> \o t
      BY <1>4, <1>5, <2>1
    <3>2. /\ <<"-">> \o t # <<>> /\ (<<"-">> \o t)[1] = "-" /\ Tail(<<"-">> \o t) = t
      BY <1>6, CharsKnown, SignOff
    <3> QED BY <2>1, <3>1, <3>2
  <2>2. CASE ~(v < 0 /\ m > 0)
    <3>1. s = <<>> \o t
      <4>1. (IF v < 0 /\ m > 0 THEN <<"-">> ELSE <<>>) = <<>>
        BY <2>2
      <4> QED BY <1>4, <1>5, <4>1
    <3>2. <<>> \o t = t
      BY <1>6, ConcatEmptySeq
    <3> QED BY <2>2, <3>1, <3>2
  <2> QED BY <2>1, <2>2
<1>8. Point(s, v)
  <2>1. (IF v < 0 THEN -v ELSE v) \div 10 = m
    BY <1>1 DEF Millis
  <2>2. LET milli == (IF v < 0 THEN -v ELSE v) \div 10
            abs   == IF v < 0 /\ milli > 0 THEN Tail(s) ELSE s
            n     == Len(abs)
        IN  milli = m /\ abs = t /\ n = Len(t)
    BY <1>7, <2>1
  <2>3. /\ Len(t) >= 5 /\ t[Len(t) - 3] = "."
        /\ Numeral(SubSeq(t, 1, Len(t) - 4), m \div 1000, 10)
        /\ Numeral(<<"1">> \o SubSeq(t, Len(t) - 2, Len(t)), 1000 + (m % 1000), 10)
    BY <1>1, <1>3 DEF Pointed
  <2> QED BY <1>7, <2>2, <2>3 DEF Point
<1> QED BY <1>5, <1>8

-----------------------------------------------------------------------------
(* Keys and values, one behind the other *)

\* inf and s hold c keys K and values V, the i-th key at off[i].
Laid(inf, s, c, K, V, off) ==
    /\ Len(inf) = 2 * c
    /\ off \in [0..c -> Nat]
    /\ off[0] = 0 /\ off[c] = Len(s)
    /\ \A i \in 0..(c - 1) :
         /\ inf[2 * i + 1] = Len(K[i]) /\ inf[2 * i + 2] = Len(V[i])
         /\ off[i + 1] = off[i] + Len(K[i]) + Len(V[i])
         /\ off[i + 1] <= Len(s)
         /\ SubSeq(s, off[i] + 1, off[i] + Len(K[i])) = K[i]
         /\ SubSeq(s, off[i] + Len(K[i]) + 1, off[i] + Len(K[i]) + Len(V[i])) = V[i]

\* Nothing holds no key.
LEMMA LaidNone == ASSUME NEW K, NEW V
                  PROVE  \E off : Laid(<<>>, <<>>, 0, K, V, off)
<1> DEFINE off == [i \in 0..0 |-> 0]
<1>1. Len(<<>>) = 0 /\ 0..(0 - 1) = {} /\ off \in [0..0 -> Nat] /\ off[0] = 0
  OBVIOUS
<1>2. Laid(<<>>, <<>>, 0, K, V, off)
  BY <1>1 DEF Laid
<1> QED BY <1>2

\* Three texts are put together in either order.
LEMMA Regroup ==
  ASSUME NEW s \in Seq(Chars), NEW t \in Seq(Chars), NEW u \in Seq(Chars)
  PROVE  (s \o t) \o u = s \o (t \o u)
BY ConcatAssociative

\* emit_value puts two lengths behind the others.
LEMMA PairBehind ==
  ASSUME NEW s \in Seq(Nat), NEW x \in Nat, NEW y \in Nat
  PROVE  /\ s \o <<x, y>> \in Seq(Nat)
         /\ Len(s \o <<x, y>>) = Len(s) + 2
         /\ \A j \in 1..Len(s) : (s \o <<x, y>>)[j] = s[j]
         /\ (s \o <<x, y>>)[Len(s) + 1] = x
         /\ (s \o <<x, y>>)[Len(s) + 2] = y
<1>1. PICK p : p = <<x, y>>
  OBVIOUS
<1>2. p \in Seq(Nat) /\ Len(p) = 2 /\ p[1] = x /\ p[2] = y
  BY <1>1
<1>3. /\ s \o p \in Seq(Nat) /\ Len(s \o p) = Len(s) + Len(p)
      /\ \A i \in 1..(Len(s) + Len(p)) : (s \o p)[i] = IF i <= Len(s) THEN s[i] ELSE p[i - Len(s)]
  BY <1>2, ConcatProperties
<1>4. Len(s) \in Nat
  OBVIOUS
<1>5. \A j \in 1..Len(s) : (s \o p)[j] = s[j]
  BY <1>2, <1>3, <1>4
<1>6. (s \o p)[Len(s) + 1] = x /\ (s \o p)[Len(s) + 2] = y
  BY <1>2, <1>3, <1>4
<1> QED BY <1>1, <1>2, <1>3, <1>5, <1>6

\* A key and a value behind the others leave those where they are.
LEMMA LaidMore ==
  ASSUME NEW n \in Nat, NEW c \in 0..n, NEW inf \in Seq(Nat), NEW s \in Seq(Chars),
         NEW K \in [0..n -> Seq(Chars)], NEW V \in [0..n -> Seq(Chars)],
         NEW off, Laid(inf, s, c, K, V, off)
  PROVE  \E o : Laid(inf \o <<Len(K[c]), Len(V[c])>>, (s \o K[c]) \o V[c], c + 1, K, V, o)
<1>1. PICK k, v : k = K[c] /\ v = V[c]
  OBVIOUS
<1>2. /\ k \in Seq(Chars) /\ v \in Seq(Chars) /\ Len(k) \in Nat /\ Len(v) \in Nat
      /\ Len(s) \in Nat
  BY <1>1
<1>3. /\ Len(inf) = 2 * c
      /\ off \in [0..c -> Nat]
      /\ off[0] = 0 /\ off[c] = Len(s)
  BY DEF Laid
<1>4. ASSUME NEW i \in 0..(c - 1)
      PROVE  /\ inf[2 * i + 1] = Len(K[i]) /\ inf[2 * i + 2] = Len(V[i])
             /\ off[i + 1] = off[i] + Len(K[i]) + Len(V[i])
             /\ off[i + 1] <= Len(s)
             /\ SubSeq(s, off[i] + 1, off[i] + Len(K[i])) = K[i]
             /\ SubSeq(s, off[i] + Len(K[i]) + 1, off[i] + Len(K[i]) + Len(V[i])) = V[i]
             /\ off[i] \in Nat /\ Len(K[i]) \in Nat /\ Len(V[i]) \in Nat
  <2>1. i \in 0..c /\ i \in 0..n
    OBVIOUS
  <2>2. K[i] \in Seq(Chars) /\ V[i] \in Seq(Chars) /\ off[i] \in Nat
    BY <1>3, <2>1
  <2>3. Len(K[i]) \in Nat /\ Len(V[i]) \in Nat
    BY <2>2
  <2> QED BY <2>2, <2>3 DEF Laid
<1>5. PICK t : t = (s \o k) \o v
  OBVIOUS
<1>6. /\ s \o k \in Seq(Chars) /\ Len(s \o k) = Len(s) + Len(k)
      /\ k \o v \in Seq(Chars)
      /\ t \in Seq(Chars) /\ Len(t) = Len(s) + Len(k) + Len(v)
      /\ t = s \o (k \o v)
  <2>1. s \o k \in Seq(Chars) /\ Len(s \o k) = Len(s) + Len(k)
    BY <1>2, ConcatProperties
  <2>2. t \in Seq(Chars) /\ Len(t) = Len(s \o k) + Len(v)
    BY <1>2, <1>5, <2>1, ConcatProperties
  <2>3. k \o v \in Seq(Chars)
    BY <1>2, ConcatProperties
  <2>4. t = s \o (k \o v)
    <3>1. (s \o k) \o v = s \o (k \o v)
      BY <1>2, Regroup
    <3> QED BY <1>5, <3>1
  <2> QED BY <1>2, <2>1, <2>2, <2>3, <2>4
<1>7. PICK pair : pair = <<Len(k), Len(v)>>
  OBVIOUS
<1>9. PICK more : more = inf \o pair
  OBVIOUS
<1>10. /\ more \in Seq(Nat) /\ Len(more) = 2 * (c + 1)
       /\ \A j \in 1..(2 * c) : more[j] = inf[j]
       /\ more[2 * c + 1] = Len(k) /\ more[2 * c + 2] = Len(v)
  <2>1. /\ inf \o <<Len(k), Len(v)>> \in Seq(Nat)
        /\ Len(inf \o <<Len(k), Len(v)>>) = Len(inf) + 2
        /\ \A j \in 1..Len(inf) : (inf \o <<Len(k), Len(v)>>)[j] = inf[j]
        /\ (inf \o <<Len(k), Len(v)>>)[Len(inf) + 1] = Len(k)
        /\ (inf \o <<Len(k), Len(v)>>)[Len(inf) + 2] = Len(v)
    BY <1>2, PairBehind
  <2>2. more = inf \o <<Len(k), Len(v)>>
    BY <1>7, <1>9
  <2>3. /\ more \in Seq(Nat) /\ Len(more) = Len(inf) + 2
        /\ \A j \in 1..Len(inf) : more[j] = inf[j]
        /\ more[Len(inf) + 1] = Len(k) /\ more[Len(inf) + 2] = Len(v)
    BY <2>1, <2>2, Zenon
  <2> QED BY <1>3, <2>3
<1> DEFINE o == [i \in 0..(c + 1) |-> IF i <= c THEN off[i] ELSE Len(t)]
<1>11. /\ o \in [0..(c + 1) -> Nat] /\ o[0] = 0 /\ o[c + 1] = Len(t)
       /\ \A i \in 0..c : o[i] = off[i]
  BY <1>2, <1>3, <1>6
<1>12. ASSUME NEW i \in 0..(c - 1)
       PROVE  /\ more[2 * i + 1] = Len(K[i]) /\ more[2 * i + 2] = Len(V[i])
              /\ o[i + 1] = o[i] + Len(K[i]) + Len(V[i])
              /\ o[i + 1] <= Len(t)
              /\ SubSeq(t, o[i] + 1, o[i] + Len(K[i])) = K[i]
              /\ SubSeq(t, o[i] + Len(K[i]) + 1, o[i] + Len(K[i]) + Len(V[i])) = V[i]
  <2>1. PICK a, l, m : a = off[i] /\ l = Len(K[i]) /\ m = Len(V[i])
    OBVIOUS
  <2>2. a \in Nat /\ l \in Nat /\ m \in Nat /\ off[i + 1] = a + l + m /\ a + l + m <= Len(s)
    BY <1>4, <2>1
  <2>3. o[i] = a /\ o[i + 1] = a + l + m
    <3> HIDE DEF o
    <3>1. i \in 0..c /\ i + 1 \in 0..c
      OBVIOUS
    <3> QED BY <1>11, <2>1, <2>2, <3>1
  <2>4. more[2 * i + 1] = l /\ more[2 * i + 2] = m
    <3>1. 2 * i + 1 \in 1..(2 * c) /\ 2 * i + 2 \in 1..(2 * c)
      OBVIOUS
    <3>2. inf[2 * i + 1] = l /\ inf[2 * i + 2] = m
      BY <1>4, <2>1
    <3> QED BY <1>10, <3>1, <3>2
  <2>5. SubSeq(t, a + 1, a + l) = SubSeq(s, a + 1, a + l)
    <3>1. PICK m1, n1 : m1 = a + 1 /\ n1 = a + l
      OBVIOUS
    <3>2. m1 \in Nat \ {0} /\ n1 \in 0..Len(s)
      BY <2>2, <3>1
    <3>3. SubSeq(s \o (k \o v), m1, n1) = SubSeq(s, m1, n1)
      BY <1>6, <3>2, CutBefore
    <3> QED BY <1>6, <3>1, <3>3
  <2>6. SubSeq(t, a + l + 1, a + l + m) = SubSeq(s, a + l + 1, a + l + m)
    <3>1. PICK m1, n1 : m1 = a + l + 1 /\ n1 = a + l + m
      OBVIOUS
    <3>2. m1 \in Nat \ {0} /\ n1 \in 0..Len(s)
      BY <2>2, <3>1
    <3>3. SubSeq(s \o (k \o v), m1, n1) = SubSeq(s, m1, n1)
      BY <1>6, <3>2, CutBefore
    <3> QED BY <1>6, <3>1, <3>3
  <2>7. SubSeq(s, a + 1, a + l) = K[i] /\ SubSeq(s, a + l + 1, a + l + m) = V[i]
    BY <1>4, <2>1
  <2>8. a + l + m <= Len(t)
    BY <1>2, <1>6, <2>2
  <2> HIDE DEF o
  <2> QED BY <2>1, <2>3, <2>4, <2>5, <2>6, <2>7, <2>8
<1>13. /\ more[2 * c + 1] = Len(K[c]) /\ more[2 * c + 2] = Len(V[c])
       /\ o[c + 1] = o[c] + Len(K[c]) + Len(V[c])
       /\ o[c + 1] <= Len(t)
       /\ SubSeq(t, o[c] + 1, o[c] + Len(K[c])) = K[c]
       /\ SubSeq(t, o[c] + Len(K[c]) + 1, o[c] + Len(K[c]) + Len(V[c])) = V[c]
  <2> HIDE DEF o
  <2>1. o[c] = Len(s) /\ o[c + 1] = Len(s) + Len(k) + Len(v)
    BY <1>3, <1>6, <1>11
  <2>2. SubSeq(t, Len(s) + 1, Len(s) + Len(k)) = k
    BY <1>2, <1>5, CutOut
  <2>3. SubSeq(t, Len(s) + Len(k) + 1, Len(s) + Len(k) + Len(v)) = v
    <3>1. PICK p : p = s \o k
      OBVIOUS
    <3>2. <<>> \in Seq(Chars) /\ t \o <<>> = t
      BY <1>6, ConcatEmptySeq
    <3>3. SubSeq((p \o v) \o <<>>, Len(p) + 1, Len(p) + Len(v)) = v
      BY <1>2, <1>6, <3>1, <3>2, CutOut
    <3>4. (p \o v) \o <<>> = t /\ Len(p) = Len(s) + Len(k)
      BY <1>5, <1>6, <3>1, <3>2
    <3> QED BY <3>3, <3>4
  <2>4. Len(s) + Len(k) + Len(v) <= Len(t)
    BY <1>2, <1>6
  <2> QED BY <1>1, <1>10, <2>1, <2>2, <2>3, <2>4
<1>14. ASSUME NEW i \in 0..((c + 1) - 1)
       PROVE  /\ more[2 * i + 1] = Len(K[i]) /\ more[2 * i + 2] = Len(V[i])
              /\ o[i + 1] = o[i] + Len(K[i]) + Len(V[i])
              /\ o[i + 1] <= Len(t)
              /\ SubSeq(t, o[i] + 1, o[i] + Len(K[i])) = K[i]
              /\ SubSeq(t, o[i] + Len(K[i]) + 1, o[i] + Len(K[i]) + Len(V[i])) = V[i]
  <2> HIDE DEF o
  <2>1. i \in 0..(c - 1) \/ i = c
    OBVIOUS
  <2>2. CASE i \in 0..(c - 1)
    BY <1>12, <2>2
  <2>3. CASE i = c
    BY <1>13, <2>3
  <2> QED BY <2>1, <2>2, <2>3
<1>15. Laid(more, t, c + 1, K, V, o)
  <2> HIDE DEF o
  <2> QED BY <1>10, <1>11, <1>14 DEF Laid
<1>16. inf \o <<Len(K[c]), Len(V[c])>> = more /\ (s \o K[c]) \o V[c] = t
  BY <1>1, <1>5, <1>7, <1>9
<1> QED BY <1>15, <1>16

-----------------------------------------------------------------------------
(* The values of a log *)

\* What a field is made of
Field == [key : Seq(Chars), type : Types, num : Int, text : Seq(Chars)]

\* What the code asks of a field.
Sound(f) == /\ f \in Field
            /\ IsText(f.key) /\ IsText(f.text)
            /\ f.type \in {"unsigned", "hex"} => f.num \in 0..(2 * Half - 1)
            /\ f.type = "int" => f.num \in (-Half)..(Half - 1)

\* So are the fields of a log.
LEMMA FieldsSound ==
  ASSUME NEW l \in Logs
  PROVE  /\ IsText(l.trace) /\ l.fields \in Seq(Field)
         /\ \A i \in DOMAIN l.fields : Sound(l.fields[i])
<1>1. /\ IsText(l.trace) /\ l.fields \in Seq(Field)
      /\ \A i \in DOMAIN l.fields :
           /\ IsText(l.fields[i].key) /\ IsText(l.fields[i].text)
           /\ l.fields[i].type \in {"unsigned", "hex"} => l.fields[i].num \in 0..(2 * Half - 1)
           /\ l.fields[i].type = "int" => l.fields[i].num \in (-Half)..(Half - 1)
  BY LogsAssumption, Zenon DEF Field
<1>2. \A i \in DOMAIN l.fields : l.fields[i] \in Field
  BY <1>1
<1> QED BY <1>1, <1>2 DEF Sound

\* A signed word is in the range of put_i.
LEMMA SignedRange ==
  ASSUME NEW v \in 0..(2 * Half - 1)
  PROVE  Signed(v) \in (-Half)..(Half - 1) /\ (v < Half => Signed(v) = v)
BY WordAssumption DEF Signed

\* Every value is a text, which a null ends before its time.
LEMMA ValueText ==
  ASSUME NEW f, Sound(f)
  PROVE  /\ PutValue(f) \in Seq(Chars)
         /\ f.type # "null" => IsText(PutValue(f))
<1>1. /\ f.type \in Types /\ f.num \in Int /\ IsText(f.text)
      /\ f.type \in {"unsigned", "hex"} => f.num \in 0..(2 * Half - 1)
      /\ f.type = "int" => f.num \in (-Half)..(Half - 1)
  BY DEF Sound, Field
<1>2. CASE f.type = "string"
  <2>1. PutValue(f) = IF format = "stream" THEN f.text
                      ELSE <<Quote>> \o f.text \o <<Quote>>
    BY <1>2, Zenon DEF PutValue, PutString
  <2>2. IsText(<<Quote>>)
    BY CharsKnown, MarksDiffer, OneText
  <2>3. IsText(<<Quote>> \o f.text)
    BY <1>1, <2>2, TextConcat
  <2>4. IsText((<<Quote>> \o f.text) \o <<Quote>>)
    BY <2>2, <2>3, TextConcat
  <2>5. IsText(PutValue(f))
    BY <1>1, <2>1, <2>4
  <2> QED BY <2>5 DEF IsText
<1>3. CASE f.type = "unsigned"
  <2>1. PutValue(f) = PutI(Signed(f.num))
    BY <1>3, Zenon DEF PutValue
  <2>2. IsText(PutI(Signed(f.num)))
    BY <1>1, <1>3, SignedRange, PutIRight
  <2> QED BY <2>1, <2>2 DEF IsText
<1>4. CASE f.type = "int"
  <2>1. PutValue(f) = PutI(f.num)
    BY <1>4, Zenon DEF PutValue
  <2>2. IsText(PutI(f.num))
    BY <1>1, <1>4, PutIRight
  <2> QED BY <2>1, <2>2 DEF IsText
<1>5. CASE f.type = "bool"
  <2>1. PutValue(f) = TrueText \/ PutValue(f) = FalseText
    BY <1>5, Zenon DEF PutValue
  <2>2. "t" \in Chars /\ "r" \in Chars /\ "u" \in Chars /\ "e" \in Chars
        /\ "f" \in Chars /\ "a" \in Chars /\ "l" \in Chars /\ "s" \in Chars
    BY CharsAssumption, Zenon DEF Printed
  <2>3. IsText(TrueText)
    BY <2>2 DEF IsText, TrueText
  <2>4. IsText(FalseText)
    BY <2>2 DEF IsText, FalseText
  <2> QED BY <2>1, <2>3, <2>4 DEF IsText
<1>6. CASE f.type = "float"
  <2>1. PutValue(f) = PutF(f.num)
    BY <1>6, Zenon DEF PutValue
  <2>2. IsText(PutF(f.num))
    BY <1>1, PutFIsText
  <2> QED BY <2>1, <2>2 DEF IsText
<1>7. CASE f.type = "hex"
  <2>1. PutValue(f) = <<"0", "x">> \o PutHex(f.num)
    BY <1>7, Zenon DEF PutValue
  <2>2. f.num \in Nat
    BY <1>1, <1>7, WordAssumption
  <2>3. IsText(<<"0", "x">> \o PutHex(f.num))
    BY <2>2, PutHexRight
  <2> QED BY <2>1, <2>3 DEF IsText
<1>8. CASE f.type = "null"
  <2>1. PutValue(f) = Append(NullText, "NUL")
    BY <1>8, Zenon DEF PutValue
  <2>2. "n" \in Chars /\ "u" \in Chars /\ "l" \in Chars /\ "NUL" \in Chars
    BY CharsAssumption, Zenon DEF Printed
  <2>3. NullText \in Seq(Chars)
    BY <2>2 DEF NullText
  <2> QED BY <1>8, <2>1, <2>2, <2>3
<1>9. CASE f.type = "raw"
  <2>1. PutValue(f) = <<>>
    BY <1>9, Zenon DEF PutValue
  <2>2. IsText(<<>>)
    BY DEF IsText
  <2> QED BY <2>1, <2>2 DEF IsText
<1> QED BY <1>1, <1>2, <1>3, <1>4, <1>5, <1>6, <1>7, <1>8, <1>9, Zenon DEF Types

\* Every number is written as one reads it.
LEMMA ValueDenotes ==
  ASSUME NEW f, Sound(f), NEW t, t = PutValue(f)
  PROVE  /\ f.type = "int" => Decimal(t, f.num)
         /\ f.type = "unsigned" /\ f.num < Half => Decimal(t, f.num)
         /\ f.type = "hex" => SubSeq(t, 1, 2) = <<"0", "x">>
                              /\ Numeral(SubSeq(t, 3, Len(t)), f.num, 16)
         /\ f.type = "float" /\ f.num < 10000 * Half32 /\ f.num > -10000 * Half32 =>
              Point(t, f.num)
<1>1. /\ f.type \in Types /\ f.num \in Int /\ IsText(f.text)
      /\ f.type \in {"unsigned", "hex"} => f.num \in 0..(2 * Half - 1)
      /\ f.type = "int" => f.num \in (-Half)..(Half - 1)
  BY DEF Sound, Field
<1>2. ASSUME f.type = "int"
      PROVE  Decimal(t, f.num)
  <2>1. t = PutI(f.num)
    BY <1>2, Zenon DEF PutValue
  <2>2. Decimal(PutI(f.num), f.num)
    BY <1>1, <1>2, PutIRight
  <2> QED BY <2>1, <2>2
<1>3. ASSUME f.type = "unsigned", f.num < Half
      PROVE  Decimal(t, f.num)
  <2>1. t = PutI(Signed(f.num))
    BY <1>3, Zenon DEF PutValue
  <2>2. Signed(f.num) = f.num /\ Signed(f.num) \in (-Half)..(Half - 1)
    BY <1>1, <1>3, SignedRange
  <2>3. Decimal(PutI(Signed(f.num)), Signed(f.num))
    BY <2>2, PutIRight
  <2> QED BY <2>1, <2>2, <2>3
<1>4. ASSUME f.type = "hex"
      PROVE  SubSeq(t, 1, 2) = <<"0", "x">> /\ Numeral(SubSeq(t, 3, Len(t)), f.num, 16)
  <2>1. t = <<"0", "x">> \o PutHex(f.num)
    BY <1>4, Zenon DEF PutValue
  <2>2. f.num \in Nat
    BY <1>1, <1>4, WordAssumption
  <2> QED BY <2>1, <2>2, PutHexRight
<1>5. ASSUME f.type = "float", Fits(f.num)
      PROVE  Point(t, f.num)
  <2>1. t = PutF(f.num)
    BY <1>5, Zenon DEF PutValue
  <2>2. Point(PutF(f.num), f.num)
    BY <1>1, <1>5, PutFRight
  <2> QED BY <2>1, <2>2
<1>6. f.num < 10000 * Half32 /\ f.num > -10000 * Half32 => Fits(f.num)
  BY DEF Fits
<1> QED BY <1>2, <1>3, <1>4, <1>5, <1>6

-----------------------------------------------------------------------------
(* The invariant *)

\* The buffer, the header and what is handed on
Writer ==
    /\ format \in {"stream", "file", "syslog"} /\ log \in Logs
    /\ buf \in Seq(Chars) /\ info \in Seq(Nat) /\ texts \in Seq(Seq(Chars))
    /\ Len(texts) <= Len(log.fields)
    /\ info = <<>> => texts = <<>> /\ buf = <<>> /\ sent = NULL
    /\ sent # NULL => Len(texts) = Len(log.fields)
    /\ sent # NULL /\ format = "stream" =>
         sent \in [info : Seq(Nat), data : Seq(Chars)] /\ sent.info = info

\* LogEntry_get runs over what was handed on as a message.
Finder ==
    /\ want \in Wanted \cup {NULL}
    /\ want # NULL => sent # NULL /\ format = "stream"
    /\ want = NULL => result = NULL

\* What was written is what the functions of the format write.
ValuesPut == \A i \in 1..Len(texts) : texts[i] = PutValue(log.fields[i])

\* The keys and the values of the log, the trace name first.
LogKeys   == [i \in 0..Len(log.fields) |-> IF i = 0 THEN TraceID ELSE log.fields[i].key]
LogValues == [i \in 0..Len(log.fields) |->
                IF i = 0 THEN log.trace ELSE PutValue(log.fields[i])]

\* They are texts, but for a value that is null.
LEMMA KeysAndValues ==
  ASSUME log \in Logs
  PROVE  /\ Len(log.fields) \in Nat
         /\ LogKeys \in [0..Len(log.fields) -> Seq(Chars)]
         /\ LogValues \in [0..Len(log.fields) -> Seq(Chars)]
         /\ LogKeys[0] = TraceID /\ LogValues[0] = log.trace
         /\ \A i \in 1..Len(log.fields) : /\ LogKeys[i] = log.fields[i].key
                                         /\ LogValues[i] = PutValue(log.fields[i])
         /\ \A i \in 0..Len(log.fields) : IsText(LogKeys[i])
         /\ (\A i \in DOMAIN log.fields : log.fields[i].type # "null") =>
              \A i \in 0..Len(log.fields) : IsText(LogValues[i])
<1>1. PICK n, fields : n = Len(log.fields) /\ fields = log.fields
  OBVIOUS
<1>2. /\ IsText(log.trace) /\ fields \in Seq(Field)
      /\ \A i \in DOMAIN fields : Sound(fields[i])
  BY <1>1, FieldsSound
<1>3. n \in Nat /\ DOMAIN fields = 1..n
  BY <1>1, <1>2
<1>4. \A i \in 1..n : IsText(fields[i].key) /\ PutValue(fields[i]) \in Seq(Chars)
                     /\ (fields[i].type # "null" => IsText(PutValue(fields[i])))
  BY <1>2, <1>3, ValueText DEF Sound
<1>5. IsText(TraceID)
  <2>1. "T" \in Chars /\ "r" \in Chars /\ "a" \in Chars /\ "c" \in Chars
        /\ "e" \in Chars /\ "I" \in Chars /\ "D" \in Chars
    BY CharsAssumption, Zenon DEF Printed
  <2> QED BY <2>1 DEF IsText, TraceID
<1>6. LogKeys = [i \in 0..n |-> IF i = 0 THEN TraceID ELSE fields[i].key]
  BY <1>1 DEF LogKeys
<1>7. LogValues = [i \in 0..n |-> IF i = 0 THEN log.trace ELSE PutValue(fields[i])]
  BY <1>1 DEF LogValues
<1>8. \A i \in 0..n : i = 0 \/ i \in 1..n
  BY <1>3
<1>9. \A i \in 0..n : IsText(LogKeys[i])
  BY <1>4, <1>5, <1>6, <1>8
<1>10. \A i \in 0..n : LogKeys[i] \in Seq(Chars)
  BY <1>9 DEF IsText
<1>11. \A i \in 0..n : LogValues[i] \in Seq(Chars)
  <2>1. log.trace \in Seq(Chars)
    BY <1>2 DEF IsText
  <2> QED BY <1>4, <1>7, <1>8, <2>1
<1>12. LogKeys \in [0..n -> Seq(Chars)]
  BY <1>6, <1>10
<1>13. LogValues \in [0..n -> Seq(Chars)]
  BY <1>7, <1>11
<1>14. /\ LogKeys[0] = TraceID /\ LogValues[0] = log.trace
       /\ \A i \in 1..n : LogKeys[i] = fields[i].key /\ LogValues[i] = PutValue(fields[i])
  BY <1>3, <1>6, <1>7
<1>15. ASSUME \A i \in 1..n : fields[i].type # "null"
       PROVE  \A i \in 0..n : IsText(LogValues[i])
  BY <1>2, <1>4, <1>8, <1>14, <1>15
<1> QED BY <1>1, <1>3, <1>9, <1>12, <1>13, <1>14, <1>15

\* A message under way, or handed on, holds what is written so far.
UnderWay ==
    (format = "stream" /\ info # <<>>) =>
      \E off : Laid(info, IF sent = NULL THEN buf ELSE sent.data, Len(texts) + 1,
                    LogKeys, LogValues, off)

\* A reader stands at the key it looks at, and no key before is the one it wants.
At(off) ==
    /\ Laid(info, sent.data, Len(texts) + 1, LogKeys, LogValues, off)
    /\ idx \in 0..(Len(texts) + 1) /\ data = off[idx]
    /\ \A j \in 0..(idx - 1) : LogKeys[j] # want
    /\ result # NULL => /\ idx \in 0..Len(texts)
                        /\ LogKeys[idx] = want /\ result = LogValues[idx]

\* So it is as long as a LogEntry_get runs.
Stands == want # NULL => \E off : At(off)

\* L[i] is the line up to the i-th field.
Grows(L, n) ==
    /\ L \in [0..n -> Seq(Chars)]
    /\ L[0] = LogKeys[0] \o LogValues[0]
    /\ \A i \in 1..n : L[i] = ((L[i - 1] \o <<Comma>>) \o LogKeys[i]) \o LogValues[i]

\* No field is null.
NoNull == \A i \in DOMAIN log.fields : log.fields[i].type # "null"

\* A line under way is that of the fields that were written.
LineSoFar ==
    (format # "stream" /\ sent = NULL /\ info # <<>>) =>
      /\ \E L : Grows(L, Len(texts)) /\ buf = L[Len(texts)]
      /\ NoNull => IsText(buf)

\* The inductive invariant
WireInv == Writer /\ Finder /\ ValuesPut /\ UnderWay /\ Stands /\ LineSoFar /\ LineWhole

-----------------------------------------------------------------------------
(* The steps *)

\* A null is no text, and no text is a message.
LEMMA NullApart ==
  /\ \A s \in Seq(Chars) : s # NULL
  /\ \A m \in [info : Seq(Nat), data : Seq(Chars)] : m # NULL
BY NullAssumption

\* Nothing is written at first.
LEMMA InitHolds == WireInit => WireInv
<1> SUFFICES ASSUME WireInit PROVE WireInv
  OBVIOUS
<1> USE DEF WireInit
<1>1. Writer
  <2>1. /\ <<>> \in Seq(Chars) /\ <<>> \in Seq(Nat) /\ <<>> \in Seq(Seq(Chars))
        /\ Len(<<>>) = 0
    OBVIOUS
  <2>2. Len(log.fields) \in Nat
    BY KeysAndValues
  <2> QED BY <2>1, <2>2 DEF Writer
<1>2. Finder /\ Stands
  BY DEF Finder, Stands
<1>3. ValuesPut
  BY DEF ValuesPut
<1>4. UnderWay /\ LineSoFar /\ LineWhole
  BY DEF UnderWay, LineSoFar, LineWhole
<1> QED BY <1>1, <1>2, <1>3, <1>4 DEF WireInv

\* The format and the log stay, and so do the keys and the values.
LEMMA LogStays ==
  ASSUME [WireNext]_wireVars
  PROVE  /\ format' = format /\ log' = log
         /\ LogKeys' = LogKeys /\ LogValues' = LogValues
         /\ \A f : PutValue(f)' = PutValue(f)
<1>1. format' = format /\ log' = log
  BY DEF WireNext, FlushKey, FlushField, FlushEnd, Get, GetStep, wireVars, writer
<1>2. LogKeys' = LogKeys
  BY <1>1 DEF LogKeys
<1>3. LogValues' = LogValues
  BY <1>1 DEF LogValues, PutValue, PutString
<1>4. \A f : PutValue(f)' = PutValue(f)
  BY <1>1, Zenon DEF PutValue, PutString
<1> QED BY <1>1, <1>2, <1>3, <1>4

\* What the writer's steps do, without the formats.
LEMMA FlushKeyDoes ==
  ASSUME FlushKey, Writer
  PROVE  /\ sent = NULL /\ sent' = NULL /\ texts = <<>> /\ texts' = <<>>
         /\ info = <<>> /\ buf = <<>>
         /\ buf' = LogKeys[0] \o LogValues[0]
         /\ info' = <<Len(LogKeys[0]), Len(LogValues[0])>>
         /\ finder' = finder
         /\ buf' \in Seq(Chars) /\ info' \in Seq(Nat) /\ info' # <<>>
<1>1. /\ LogKeys[0] = TraceID /\ LogValues[0] = log.trace
      /\ TraceID \in Seq(Chars) /\ log.trace \in Seq(Chars)
  <2>1. log \in Logs
    BY DEF Writer
  <2>2. /\ LogKeys[0] = TraceID /\ LogValues[0] = log.trace /\ Len(log.fields) \in Nat
        /\ LogKeys \in [0..Len(log.fields) -> Seq(Chars)]
        /\ LogValues \in [0..Len(log.fields) -> Seq(Chars)]
    BY <2>1, KeysAndValues
  <2>3. 0 \in 0..Len(log.fields)
    BY <2>2
  <2>4. LogKeys[0] \in Seq(Chars) /\ LogValues[0] \in Seq(Chars)
    BY <2>2, <2>3
  <2> QED BY <2>2, <2>4
<1>2. sent = NULL /\ sent' = NULL /\ texts = <<>> /\ texts' = <<>> /\ info = <<>> /\ buf = <<>>
      /\ finder' = finder
  BY DEF FlushKey, Writer, finder
<1>3. buf' = (<<>> \o TraceID) \o log.trace /\ info' = <<Len(TraceID), Len(log.trace)>>
  BY <1>2 DEF FlushKey
<1>4. <<>> \o TraceID = TraceID
  BY <1>1, ConcatEmptySeq
<1>5. TraceID \o log.trace \in Seq(Chars)
  BY <1>1, ConcatProperties
<1>6. Len(TraceID) \in Nat /\ Len(log.trace) \in Nat
  BY <1>1
<1>7. info' \in Seq(Nat) /\ info' # <<>>
  BY <1>3, <1>6
<1> QED BY <1>1, <1>2, <1>3, <1>4, <1>5, <1>7

\* FlushField puts the key and the value behind the others.
LEMMA FlushFieldDoes ==
  ASSUME FlushField, Writer, NEW n, n = Len(texts)
  PROVE  /\ sent = NULL /\ sent' = NULL /\ info # <<>> /\ info' # <<>>
         /\ n \in Nat /\ n + 1 \in 1..Len(log.fields)
         /\ LogKeys[n + 1] \in Seq(Chars) /\ LogValues[n + 1] \in Seq(Chars)
         /\ buf' = ((buf \o Delim) \o LogKeys[n + 1]) \o LogValues[n + 1]
         /\ info' = info \o <<Len(LogKeys[n + 1]), Len(LogValues[n + 1])>>
         /\ texts' = Append(texts, LogValues[n + 1])
         /\ finder' = finder
         /\ buf' \in Seq(Chars) /\ info' \in Seq(Nat)
<1>1. /\ sent = NULL /\ sent' = NULL /\ info # <<>> /\ finder' = finder
      /\ n < Len(log.fields)
      /\ buf \in Seq(Chars) /\ info \in Seq(Nat) /\ texts \in Seq(Seq(Chars))
  BY DEF FlushField, Writer, finder, Emitted
<1>2. n \in Nat /\ Len(log.fields) \in Nat
  BY <1>1, KeysAndValues DEF Writer
<1>3. PICK i : i = n + 1
  OBVIOUS
<1>4. i \in 1..Len(log.fields) /\ i \in 0..Len(log.fields)
  BY <1>1, <1>2, <1>3
<1>5. /\ LogKeys[i] = log.fields[i].key /\ LogValues[i] = PutValue(log.fields[i])
      /\ LogKeys[i] \in Seq(Chars) /\ LogValues[i] \in Seq(Chars)
  BY <1>4, KeysAndValues DEF Writer
<1>6. PICK key, value : key = LogKeys[i] /\ value = LogValues[i]
  OBVIOUS
<1>7. Len(key) \in Nat /\ Len(value) \in Nat
  BY <1>5, <1>6
<1>8. /\ buf' = ((buf \o Delim) \o key) \o value
      /\ info' = info \o <<Len(key), (Len(key) + Len(value)) - Len(key)>>
      /\ texts' = Append(texts, value)
  BY <1>1, <1>3, <1>5, <1>6, Zenon DEF FlushField, Emitted
<1>9. (Len(key) + Len(value)) - Len(key) = Len(value)
  BY <1>7
<1>10. info' \in Seq(Nat) /\ info' # <<>>
  <2>1. /\ info \o <<Len(key), Len(value)>> \in Seq(Nat)
        /\ Len(info \o <<Len(key), Len(value)>>) = Len(info) + 2
    BY <1>1, <1>7, PairBehind
  <2>2. Len(info') # 0
    BY <1>1, <1>8, <1>9, <2>1
  <2> QED BY <1>8, <1>9, <2>1, <2>2
<1>11. buf' \in Seq(Chars)
  <2>1. Delim \in Seq(Chars)
    BY CharsKnown DEF Delim
  <2>2. buf \o Delim \in Seq(Chars)
    BY <1>1, <2>1, ConcatProperties
  <2>3. (buf \o Delim) \o key \in Seq(Chars)
    BY <1>5, <1>6, <2>2, ConcatProperties
  <2>4. ((buf \o Delim) \o key) \o value \in Seq(Chars)
    BY <1>5, <1>6, <2>3, ConcatProperties
  <2> QED BY <1>8, <2>4
<1> QED BY <1>1, <1>2, <1>3, <1>4, <1>5, <1>6, <1>8, <1>9, <1>10, <1>11

\* FlushEnd hands on what there is.
LEMMA FlushEndDoes ==
  ASSUME FlushEnd, Writer
  PROVE  /\ sent = NULL /\ info # <<>> /\ Len(texts) = Len(log.fields)
         /\ texts' = texts /\ info' = info /\ finder' = finder /\ buf' = <<>>
         /\ format = "stream" => /\ sent' = [info |-> info, data |-> buf]
                                 /\ sent' \in [info : Seq(Nat), data : Seq(Chars)]
         /\ format = "file" => sent' = Append(buf, Newline)
         /\ format = "syslog" => sent' = CString(Append(buf, "NUL"))
<1>1. /\ sent = NULL /\ info # <<>> /\ Len(texts) = Len(log.fields)
      /\ texts' = texts /\ info' = info /\ finder' = finder /\ buf' = <<>>
      /\ sent' = HandedOn
  BY DEF FlushEnd, Emitted, finder
<1>2. /\ format = "stream" => sent' = [info |-> info, data |-> buf]
      /\ format = "file" => sent' = Append(buf, Newline)
      /\ format = "syslog" => sent' = CString(Append(buf, "NUL"))
  BY <1>1, Zenon DEF HandedOn
<1>3. [info |-> info, data |-> buf] \in [info : Seq(Nat), data : Seq(Chars)]
  BY DEF Writer
<1> QED BY <1>1, <1>2, <1>3

\* The writer stays within its buffer and its log, and writes what the format
\* does.
LEMMA WriterHolds ==
  ASSUME Writer, Finder, ValuesPut, [WireNext]_wireVars
  PROVE  Writer' /\ ValuesPut'
<1>1. /\ format' = format /\ log' = log /\ \A f : PutValue(f)' = PutValue(f)
      /\ LogKeys' = LogKeys /\ LogValues' = LogValues
  BY LogStays
<1>2. /\ format \in {"stream", "file", "syslog"} /\ log \in Logs
      /\ Len(texts) \in Nat /\ Len(log.fields) \in Nat /\ texts \in Seq(Seq(Chars))
      /\ Len(texts) <= Len(log.fields)
  BY KeysAndValues DEF Writer
<1>3. CASE FlushKey
  <2>1. /\ sent' = NULL /\ texts' = <<>>
        /\ buf' \in Seq(Chars) /\ info' \in Seq(Nat) /\ info' # <<>>
    BY <1>3, FlushKeyDoes
  <2>2. texts' \in Seq(Seq(Chars)) /\ Len(texts') = 0
    BY <2>1
  <2>3. Writer'
    BY <1>1, <1>2, <2>1, <2>2 DEF Writer
  <2>4. ValuesPut'
    BY <2>2 DEF ValuesPut
  <2> QED BY <2>3, <2>4
<1>4. CASE FlushField
  <2>1. PICK n : n = Len(texts)
    OBVIOUS
  <2>2. /\ sent' = NULL /\ info' # <<>> /\ n \in Nat /\ n + 1 \in 1..Len(log.fields)
        /\ LogValues[n + 1] \in Seq(Chars)
        /\ texts' = Append(texts, LogValues[n + 1])
        /\ buf' \in Seq(Chars) /\ info' \in Seq(Nat)
    BY <1>4, <2>1, FlushFieldDoes
  <2>3. PICK v : v = LogValues[n + 1]
    OBVIOUS
  <2>4. /\ texts' \in Seq(Seq(Chars)) /\ Len(texts') = n + 1
        /\ texts'[n + 1] = v /\ \A i \in 1..n : texts'[i] = texts[i]
    BY <1>2, <2>1, <2>2, <2>3, AppendProperties
  <2>5. Writer'
    BY <1>1, <1>2, <2>2, <2>4 DEF Writer
  <2>6. v = PutValue(log.fields[n + 1])
    BY <1>2, <2>2, <2>3, KeysAndValues
  <2>7. \A i \in 1..(n + 1) : texts'[i] = PutValue(log.fields[i])
    <3>1. \A i \in 1..(n + 1) : i \in 1..n \/ i = n + 1
      BY <2>2
    <3>2. \A i \in 1..n : texts'[i] = PutValue(log.fields[i])
      BY <2>1, <2>4 DEF ValuesPut
    <3> QED BY <2>4, <2>6, <3>1, <3>2, Zenon
  <2>8. ValuesPut'
    BY <1>1, <2>4, <2>7, Zenon DEF ValuesPut
  <2> QED BY <2>5, <2>8
<1>5. CASE FlushEnd
  <2>1. /\ info # <<>> /\ Len(texts) = Len(log.fields)
        /\ texts' = texts /\ info' = info /\ buf' = <<>>
        /\ format = "stream" => /\ sent' = [info |-> info, data |-> buf]
                                /\ sent' \in [info : Seq(Nat), data : Seq(Chars)]
    BY <1>5, FlushEndDoes
  <2>2. buf' \in Seq(Chars) /\ info \in Seq(Nat)
    BY <2>1 DEF Writer
  <2>3. Writer'
    BY <1>1, <1>2, <2>1, <2>2 DEF Writer
  <2>4. ValuesPut'
    BY <1>1, <2>1, Zenon DEF ValuesPut
  <2> QED BY <2>3, <2>4
<1>6. CASE writer' = writer
  <2>1. /\ buf' = buf /\ info' = info /\ texts' = texts /\ sent' = sent
    BY <1>6 DEF writer
  <2>2. Writer'
    BY <1>1, <2>1 DEF Writer
  <2>3. ValuesPut'
    BY <1>1, <2>1, Zenon DEF ValuesPut
  <2> QED BY <2>2, <2>3
<1>7. Get \/ GetStep \/ UNCHANGED wireVars => writer' = writer
  BY DEF Get, GetStep, wireVars
<1> QED BY <1>3, <1>4, <1>5, <1>6, <1>7 DEF WireNext

\* A message stays laid out key by key, also when it is handed on.
LEMMA MessageHolds ==
  ASSUME Writer, Finder, ValuesPut, UnderWay, [WireNext]_wireVars
  PROVE  UnderWay'
<1>1. /\ format' = format /\ LogKeys' = LogKeys /\ LogValues' = LogValues
  BY LogStays
<1>2. /\ format \in {"stream", "file", "syslog"} /\ log \in Logs
      /\ Len(texts) \in Nat /\ Len(log.fields) \in Nat /\ texts \in Seq(Seq(Chars))
      /\ Len(texts) <= Len(log.fields)
      /\ buf \in Seq(Chars) /\ info \in Seq(Nat)
  BY KeysAndValues DEF Writer
<1>3. PICK N, K, V : N = Len(log.fields) /\ K = LogKeys /\ V = LogValues
  OBVIOUS
<1>4. N \in Nat /\ K \in [0..N -> Seq(Chars)] /\ V \in [0..N -> Seq(Chars)]
  BY <1>2, <1>3, KeysAndValues
<1>5. SUFFICES ASSUME format = "stream", info' # <<>>
               PROVE  \E off : Laid(info', IF sent' = NULL THEN buf' ELSE sent'.data,
                                    Len(texts') + 1, K, V, off)
  BY <1>1, <1>3 DEF UnderWay
<1>6. CASE FlushKey
  <2>1. /\ sent' = NULL /\ texts' = <<>>
        /\ buf' = K[0] \o V[0] /\ info' = <<Len(K[0]), Len(V[0])>>
    BY <1>3, <1>6, FlushKeyDoes
  <2>2. K[0] \in Seq(Chars) /\ V[0] \in Seq(Chars) /\ 0 \in 0..N
    BY <1>4
  <2>3. PICK none : Laid(<<>>, <<>>, 0, K, V, none)
    BY LaidNone
  <2>4. \E o : Laid(<<>> \o <<Len(K[0]), Len(V[0])>>, (<<>> \o K[0]) \o V[0], 0 + 1, K, V, o)
    <3>1. <<>> \in Seq(Nat) /\ <<>> \in Seq(Chars)
      OBVIOUS
    <3> QED BY <1>4, <2>2, <2>3, <3>1, LaidMore
  <2>5. <<>> \o K[0] = K[0] /\ <<>> \o <<Len(K[0]), Len(V[0])>> = <<Len(K[0]), Len(V[0])>>
    BY <2>2, ConcatEmptySeq
  <2>6. Len(texts') + 1 = 0 + 1
    BY <2>1
  <2> QED BY <2>1, <2>4, <2>5, <2>6
<1>7. CASE FlushField
  <2>1. PICK c : c = Len(texts) + 1
    OBVIOUS
  <2>2. /\ sent = NULL /\ sent' = NULL /\ info # <<>> /\ c \in 1..N
        /\ K[c] \in Seq(Chars) /\ V[c] \in Seq(Chars)
        /\ buf' = ((buf \o Delim) \o K[c]) \o V[c]
        /\ info' = info \o <<Len(K[c]), Len(V[c])>>
        /\ texts' = Append(texts, V[c])
    BY <1>3, <1>7, <2>1, FlushFieldDoes
  <2>3. Delim = <<>> /\ buf \o Delim = buf
    BY <1>2, <1>5, ConcatEmptySeq DEF Delim
  <2>4. PICK off : Laid(info, buf, c, K, V, off)
    BY <1>3, <1>5, <2>1, <2>2 DEF UnderWay
  <2>5. \E o : Laid(info \o <<Len(K[c]), Len(V[c])>>, (buf \o K[c]) \o V[c], c + 1, K, V, o)
    <3>1. c \in 0..N
      BY <2>2
    <3> QED BY <1>2, <1>4, <2>4, <3>1, LaidMore
  <2>6. Len(texts') + 1 = c + 1
    BY <1>2, <2>1, <2>2
  <2> QED BY <2>2, <2>3, <2>5, <2>6
<1>8. CASE FlushEnd
  <2>1. /\ sent = NULL /\ info # <<>> /\ texts' = texts /\ info' = info
        /\ sent' = [info |-> info, data |-> buf]
        /\ sent' \in [info : Seq(Nat), data : Seq(Chars)]
    BY <1>5, <1>8, FlushEndDoes
  <2>2. sent' # NULL /\ sent'.data = buf
    BY <2>1, NullApart
  <2>3. PICK off : Laid(info, buf, Len(texts) + 1, K, V, off)
    BY <1>3, <1>5, <2>1 DEF UnderWay
  <2> QED BY <2>1, <2>2, <2>3
<1>9. CASE writer' = writer
  <2>1. /\ buf' = buf /\ info' = info /\ texts' = texts /\ sent' = sent
    BY <1>9 DEF writer
  <2>2. \E off : Laid(info, IF sent = NULL THEN buf ELSE sent.data, Len(texts) + 1, K, V, off)
    BY <1>3, <1>5, <2>1 DEF UnderWay
  <2> QED BY <2>1, <2>2
<1>10. Get \/ GetStep \/ UNCHANGED wireVars => writer' = writer
  BY DEF Get, GetStep, wireVars
<1> QED BY <1>6, <1>7, <1>8, <1>9, <1>10 DEF WireNext

\* What a step of the reader does, seen from where the keys and values lie.
LEMMA GetStepDoes ==
  ASSUME GetStep, Writer, Finder, NEW off, At(off)
  PROVE  /\ idx \in 0..Len(texts) /\ result = NULL /\ want # NULL
         /\ \/ LogKeys[idx] = want /\ result' = LogValues[idx] /\ idx' = idx /\ data' = off[idx]
            \/ LogKeys[idx] # want /\ result' = NULL /\ idx' = idx + 1 /\ data' = off[idx + 1]
<1>1. PICK n, s, K, V, w : /\ n = Len(texts) /\ s = sent.data /\ w = want
                           /\ K = LogKeys /\ V = LogValues
  OBVIOUS
<1>2. /\ want # NULL /\ result = NULL /\ sent # NULL /\ format = "stream"
      /\ n \in Nat /\ n <= Len(log.fields) /\ log \in Logs
      /\ sent.info = info
  BY <1>1 DEF GetStep, Finder, Writer
<1>3. w \in Seq(Chars)
  BY <1>1, <1>2, WantedAssumption DEF Finder, IsText
<1>4. /\ Laid(info, s, n + 1, K, V, off)
      /\ idx \in 0..(n + 1) /\ data = off[idx]
  BY <1>1 DEF At
<1>5. Len(info) = 2 * (n + 1) /\ off \in [0..(n + 1) -> Nat]
  BY <1>4 DEF Laid
<1>6. idx \in 0..n
  <2>1. LogSize = n + 1
    BY <1>2, <1>5 DEF LogSize
  <2>2. idx < n + 1
    BY <2>1 DEF GetStep
  <2> QED BY <1>2, <1>4, <2>2
<1>7. PICK k, v, a : k = K[idx] /\ v = V[idx] /\ a = off[idx]
  OBVIOUS
<1>8. k \in Seq(Chars) /\ v \in Seq(Chars) /\ Len(k) \in Nat /\ Len(v) \in Nat /\ a \in Nat
  <2>1. idx \in 0..Len(log.fields) /\ idx \in 0..(n + 1)
    BY <1>2, <1>6, KeysAndValues
  <2>2. k \in Seq(Chars) /\ v \in Seq(Chars)
    BY <1>1, <1>2, <1>7, <2>1, KeysAndValues
  <2> QED BY <1>5, <1>7, <2>1, <2>2
<1>9. /\ info[2 * idx + 1] = Len(k) /\ info[2 * idx + 2] = Len(v)
      /\ off[idx + 1] = a + Len(k) + Len(v)
      /\ SubSeq(s, a + 1, a + Len(k)) = k
      /\ SubSeq(s, a + Len(k) + 1, a + Len(k) + Len(v)) = v
  <2>1. idx \in 0..((n + 1) - 1)
    BY <1>2, <1>6
  <2> QED BY <1>4, <1>7, <2>1 DEF Laid
<1>10. LengthAt(2 * idx) = Len(k) /\ LengthAt(2 * idx + 1) = Len(v)
  <2>1. (2 * idx + 1) + 1 = 2 * idx + 2
    BY <1>6
  <2> QED BY <1>2, <1>9, <2>1 DEF LengthAt
<1>11. Matches <=> k = w
  <2>1. Matches <=> Len(w) = Len(k) /\ SubSeq(s, a + 1, a + Len(w)) = w
    BY <1>1, <1>4, <1>7, <1>10 DEF Matches
  <2>2. ASSUME k = w
        PROVE  Matches
    BY <1>9, <2>1, <2>2
  <2>3. ASSUME Matches
        PROVE  k = w
    BY <1>9, <2>1, <2>3
  <2> QED BY <2>2, <2>3
<1>12. CASE k = w
  <2>1. /\ result' = SubSeq(s, a + Len(w) + 1, a + Len(w) + Len(v))
        /\ idx' = idx /\ data' = data
    BY <1>1, <1>4, <1>7, <1>10, <1>11, <1>12 DEF GetStep
  <2>2. result' = v
    BY <1>9, <1>12, <2>1
  <2> QED BY <1>1, <1>2, <1>4, <1>6, <1>7, <1>12, <2>1, <2>2
<1>13. CASE k # w
  <2>1. data' = Iterator(data, idx) /\ idx' = idx + 1 /\ result' = result
    BY <1>11, <1>13 DEF GetStep
  <2>2. Iterator(data, idx) = off[idx + 1]
    BY <1>4, <1>7, <1>9, <1>10 DEF Iterator
  <2> QED BY <1>1, <1>2, <1>4, <1>6, <1>7, <1>13, <2>1, <2>2
<1> QED BY <1>12, <1>13

\* The reader goes from key to key, and stops at the first that it wants.
LEMMA FinderHolds ==
  ASSUME Writer, Finder, UnderWay, Stands, [WireNext]_wireVars
  PROVE  Finder' /\ Stands'
<1>1. /\ format' = format /\ LogKeys' = LogKeys /\ LogValues' = LogValues
  BY LogStays
<1>2. CASE finder' = finder /\ (sent # NULL => writer' = writer)
  <2>1. want' = want /\ idx' = idx /\ data' = data /\ result' = result
    BY <1>2 DEF finder
  <2>2. sent # NULL => sent' = sent /\ info' = info /\ texts' = texts
    BY <1>2 DEF writer
  <2>3. Finder'
    BY <1>1, <2>1, <2>2 DEF Finder
  <2>4. Stands'
    <3> SUFFICES ASSUME want # NULL PROVE (\E off : At(off))'
      BY <2>1 DEF Stands
    <3>1. sent # NULL
      BY DEF Finder
    <3>2. PICK off : At(off)
      BY DEF Stands
    <3>3. At(off)'
      BY <1>1, <2>1, <2>2, <3>1, <3>2, Zenon DEF At
    <3> QED BY <3>3
  <2> QED BY <2>3, <2>4
<1>3. CASE Get
  <2>1. /\ sent # NULL /\ format = "stream" /\ want = NULL /\ want' \in Wanted
        /\ idx' = 0 /\ data' = 0 /\ result' = result
        /\ sent' = sent /\ info' = info /\ texts' = texts
    BY <1>3 DEF Get, writer
  <2>2. result' = NULL
    BY <2>1 DEF Finder
  <2>3. want' # NULL
    BY <2>1, WantedAssumption, NullAssumption DEF IsText
  <2>4. Finder'
    BY <1>1, <2>1, <2>2, <2>3 DEF Finder
  <2>5. info # <<>> /\ Len(texts) \in Nat
    BY <2>1 DEF Writer
  <2>6. PICK off : Laid(info, sent.data, Len(texts) + 1, LogKeys, LogValues, off)
    BY <2>1, <2>5 DEF UnderWay
  <2>7. off[0] = 0
    BY <2>6 DEF Laid
  <2>8. 0 \in 0..(Len(texts) + 1) /\ 0..(0 - 1) = {}
    BY <2>5
  <2>9. At(off)'
    BY <1>1, <2>1, <2>2, <2>6, <2>7, <2>8 DEF At
  <2>10. Stands'
    BY <2>9 DEF Stands
  <2> QED BY <2>4, <2>10
<1>4. CASE GetStep
  <2>1. /\ sent # NULL /\ format = "stream" /\ want # NULL /\ want' = want
        /\ sent' = sent /\ info' = info /\ texts' = texts
    BY <1>4 DEF GetStep, writer, Finder
  <2>2. Finder'
    BY <1>1, <2>1 DEF Finder
  <2>3. PICK off : At(off)
    BY <2>1 DEF Stands
  <2>4. /\ idx \in 0..Len(texts) /\ result = NULL
        /\ \/ LogKeys[idx] = want /\ result' = LogValues[idx] /\ idx' = idx /\ data' = off[idx]
           \/ LogKeys[idx] # want /\ result' = NULL /\ idx' = idx + 1 /\ data' = off[idx + 1]
    BY <1>4, <2>3, GetStepDoes
  <2>5. /\ Laid(info, sent.data, Len(texts) + 1, LogKeys, LogValues, off)
        /\ \A j \in 0..(idx - 1) : LogKeys[j] # want
    BY <2>3 DEF At
  <2>6. Len(texts) \in Nat
    BY DEF Writer
  <2>7. CASE LogKeys[idx] = want /\ result' = LogValues[idx] /\ idx' = idx /\ data' = off[idx]
    <3>1. idx \in 0..(Len(texts) + 1)
      BY <2>4, <2>6
    <3>2. At(off)'
      BY <1>1, <2>1, <2>4, <2>5, <2>7, <3>1 DEF At
    <3> QED BY <2>2, <3>2 DEF Stands
  <2>8. CASE LogKeys[idx] # want /\ result' = NULL /\ idx' = idx + 1 /\ data' = off[idx + 1]
    <3>1. idx + 1 \in 0..(Len(texts) + 1)
      BY <2>4, <2>6
    <3>2. \A j \in 0..((idx + 1) - 1) : j \in 0..(idx - 1) \/ j = idx
      BY <2>4
    <3>3. \A j \in 0..((idx + 1) - 1) : LogKeys[j] # want
      BY <2>5, <2>8, <3>2
    <3>4. At(off)'
      BY <1>1, <2>1, <2>5, <2>8, <3>1, <3>3 DEF At
    <3> QED BY <2>2, <3>4 DEF Stands
  <2> QED BY <2>4, <2>7, <2>8
<1>5. FlushKey \/ FlushField \/ FlushEnd =>
        finder' = finder /\ (sent # NULL => writer' = writer)
  BY DEF FlushKey, FlushField, FlushEnd, finder
<1>6. UNCHANGED wireVars => finder' = finder /\ writer' = writer
  BY DEF wireVars
<1> QED BY <1>2, <1>3, <1>4, <1>5, <1>6 DEF WireNext

-----------------------------------------------------------------------------
(* Lines *)

\* printf stops at the end that is put behind the line, and not before.
LEMMA CStringWhole ==
  ASSUME NEW s, IsText(s)
  PROVE  CString(Append(s, "NUL")) = s
<1>1. s \in Seq(Chars) /\ Len(s) \in Nat /\ \A k \in 1..Len(s) : s[k] # "NUL"
  BY DEF IsText
<1>2. PICK t : t = Append(s, "NUL")
  OBVIOUS
<1>3. /\ t \in Seq(Chars) /\ Len(t) = Len(s) + 1
      /\ \A k \in 1..Len(s) : t[k] = s[k]
      /\ t[Len(s) + 1] = "NUL"
  BY <1>1, <1>2, CharsKnown, AppendProperties
<1>4. DOMAIN t = 1..(Len(s) + 1)
  BY <1>1, <1>3
<1> DEFINE ends == {k \in DOMAIN t : t[k] = "NUL"}
<1>5. ends = {Len(s) + 1}
  <2>1. \A k \in 1..(Len(s) + 1) : k \in 1..Len(s) \/ k = Len(s) + 1
    BY <1>1
  <2>2. Len(s) + 1 \in 1..(Len(s) + 1)
    BY <1>1
  <2> QED BY <1>1, <1>3, <1>4, <2>1, <2>2
<1> DEFINE end == CHOOSE k \in ends : \A l \in ends : k <= l
<1>6. end = Len(s) + 1
  <2> HIDE DEF ends
  <2> QED BY <1>1, <1>5
<1>7. CString(t) = SubSeq(t, 1, end - 1)
  BY <1>5, Zenon DEF CString
<1>8. CString(t) = SubSeq(t, 1, Len(s))
  <2> HIDE DEF ends, end
  <2>1. end - 1 = Len(s)
    BY <1>1, <1>6
  <2> QED BY <1>7, <2>1
<1>9. SubSeq(t, 1, Len(s)) = s
  <2>1. t = s \o <<"NUL">>
    BY <1>1, <1>2, CharsKnown, AppendIsConcat
  <2>2. <<"NUL">> \in Seq(Chars) /\ Len(s) \in 0..Len(s)
    BY <1>1, CharsKnown
  <2>3. SubSeq(s \o <<"NUL">>, 1, Len(s)) = SubSeq(s, 1, Len(s))
    BY <1>1, <2>2, CutBefore
  <2> QED BY <1>1, <2>1, <2>3, SubSeqFull
<1> QED BY <1>2, <1>8, <1>9

\* What printf shows is made of characters.
LEMMA CStringText ==
  ASSUME NEW t \in Seq(Chars)
  PROVE  CString(t) \in Seq(Chars)
<1> DEFINE ends == {k \in DOMAIN t : t[k] = "NUL"}
<1>1. CASE ends = {}
  BY <1>1, Zenon DEF CString
<1>2. CASE ends # {}
  <2>1. ends \subseteq 1..Len(t) /\ ends \subseteq Nat /\ Len(t) \in Nat
    OBVIOUS
  <2>2. PICK e \in ends : \A l \in ends : e <= l
    BY <1>2, <2>1, LeastNumber, Zenon
  <2> DEFINE end == CHOOSE k \in ends : \A l \in ends : k <= l
  <2>3. end \in ends
    <3> HIDE DEF ends
    <3> QED BY <2>2, Zenon
  <2>4. CString(t) = SubSeq(t, 1, end - 1)
    BY <1>2, Zenon DEF CString
  <2> HIDE DEF end
  <2>5. end \in 1..Len(t)
    <3> HIDE DEF ends
    <3> QED BY <2>1, <2>3
  <2>6. PICK n : n = end - 1
    OBVIOUS
  <2>7. n \in Int /\ \A i \in 1..n : t[i] \in Chars
    BY <2>1, <2>5, <2>6, ElementOfSeq
  <2>8. SubSeq(t, 1, n) \in Seq(Chars)
    BY <2>7, SubSeqProperties
  <2> QED BY <2>4, <2>6, <2>8
<1> QED BY <1>1, <1>2

\* What has grown field by field is the line.
LEMMA LinesGrow ==
  ASSUME Writer, ValuesPut, NEW L, Grows(L, Len(texts))
  PROVE  Lines[Len(texts)] = L[Len(texts)]
<1>1. PICK n : n = Len(texts)
  OBVIOUS
<1>2. n \in Nat /\ n <= Len(log.fields) /\ Len(log.fields) \in Nat /\ log \in Logs
  BY <1>1, KeysAndValues DEF Writer
<1>3. ASSUME NEW i \in 1..n
      PROVE  LogKeys[i] = log.fields[i].key /\ LogValues[i] = texts[i]
  <2>1. i \in 1..Len(log.fields)
    BY <1>2
  <2> QED BY <1>1, <1>2, <2>1, KeysAndValues DEF ValuesPut
<1>4. /\ L \in [0..n -> Seq(Chars)]
      /\ L[0] = TraceID \o log.trace
      /\ \A i \in 1..n : L[i] = ((L[i - 1] \o <<Comma>>) \o log.fields[i].key) \o texts[i]
  BY <1>1, <1>2, <1>3, KeysAndValues DEF Grows
<1> DEFINE Line(g) ==
      g = [i \in 0..n |-> IF i = 0 THEN TraceID \o log.trace
                          ELSE ((g[i - 1] \o <<Comma>>) \o log.fields[i].key) \o texts[i]]
<1>5. Line(L)
  <2>1. \A i \in 0..n : i = 0 \/ i \in 1..n
    BY <1>2
  <2>2. \A i \in 0..n : L[i] = IF i = 0 THEN TraceID \o log.trace
                          ELSE ((L[i - 1] \o <<Comma>>) \o log.fields[i].key) \o texts[i]
    BY <1>4, <2>1, Zenon
  <2>3. L = [i \in 0..n |-> L[i]]
    BY <1>4
  <2> QED BY <2>2, <2>3, Zenon
<1>6. Lines = CHOOSE g : Line(g)
  BY <1>1, Zenon DEF Lines
<1>7. PICK g : g = Lines
  OBVIOUS
<1>8. Line(g)
  <2> HIDE DEF Line
  <2> QED BY <1>5, <1>6, <1>7, Zenon
<1>9. /\ g[0] = TraceID \o log.trace
      /\ \A i \in 1..n : g[i] = ((g[i - 1] \o <<Comma>>) \o log.fields[i].key) \o texts[i]
  <2>1. \A i \in 1..n : i \in 0..n /\ i # 0
    OBVIOUS
  <2>2. 0 \in 0..n
    BY <1>2
  <2> QED BY <1>8, <2>1, <2>2, Zenon
<1> DEFINE Same == {i \in 0..n : g[i] = L[i]}
<1>10. 0 \in Same
  <2>1. g[0] = L[0]
    BY <1>4, <1>9, Zenon
  <2>2. 0 \in 0..n
    BY <1>2
  <2> QED BY <2>1, <2>2, Zenon
<1>11. ASSUME NEW i \in 1..n, i - 1 \in Same
       PROVE  i \in Same
  <2>1. g[i - 1] = L[i - 1]
    BY <1>11
  <2>2. g[i] = L[i]
    BY <1>4, <1>9, <2>1, Zenon
  <2> QED BY <2>2
<1>12. 0..n \subseteq Same
  <2> HIDE DEF Same
  <2> QED BY <1>2, <1>10, <1>11, UpTo
<1>13. n \in Same
  <2> HIDE DEF Same
  <2> QED BY <1>2, <1>12
<1> QED BY <1>1, <1>7, <1>13

\* A line grows by a comma, a key and a value.
LEMMA LineHolds ==
  ASSUME Writer, Finder, ValuesPut, LineSoFar, [WireNext]_wireVars
  PROVE  LineSoFar'
<1>1. /\ format' = format /\ log' = log /\ LogKeys' = LogKeys /\ LogValues' = LogValues
  BY LogStays
<1>2. /\ log \in Logs /\ Len(texts) \in Nat /\ Len(log.fields) \in Nat
      /\ texts \in Seq(Seq(Chars))
  BY KeysAndValues DEF Writer
<1>3. PICK N, K, V : N = Len(log.fields) /\ K = LogKeys /\ V = LogValues
  OBVIOUS
<1>4. /\ N \in Nat /\ K \in [0..N -> Seq(Chars)] /\ V \in [0..N -> Seq(Chars)]
      /\ \A i \in 0..N : IsText(K[i])
      /\ NoNull => \A i \in 0..N : IsText(V[i])
  BY <1>2, <1>3, KeysAndValues DEF NoNull
<1>5. NoNull' <=> NoNull
  BY <1>1 DEF NoNull
<1> DEFINE Line(L, n) ==
      /\ L \in [0..n -> Seq(Chars)]
      /\ L[0] = K[0] \o V[0]
      /\ \A i \in 1..n : L[i] = ((L[i - 1] \o <<Comma>>) \o K[i]) \o V[i]
<1>6. SUFFICES ASSUME format # "stream", sent' = NULL, info' # <<>>
               PROVE  /\ \E L : Line(L, Len(texts')) /\ buf' = L[Len(texts')]
                      /\ NoNull => IsText(buf')
  <2>1. \A L : Grows(L, Len(texts))' <=> Line(L, Len(texts'))
    BY <1>1, <1>3, Zenon DEF Grows
  <2> HIDE DEF Line
  <2> QED BY <1>1, <1>5, <2>1 DEF LineSoFar
<1>7. CASE FlushKey
  <2>1. /\ texts' = <<>> /\ buf' = K[0] \o V[0] /\ buf' \in Seq(Chars)
    BY <1>3, <1>7, FlushKeyDoes
  <2>2. Len(texts') = 0 /\ 0 \in 0..N
    BY <1>4, <2>1
  <2>3. PICK b : b = buf'
    OBVIOUS
  <2> DEFINE L == [i \in 0..0 |-> b]
  <2>4. L \in [0..0 -> Seq(Chars)] /\ L[0] = b /\ 1..0 = {}
    <3>1. b \in Seq(Chars) /\ 0 \in 0..0 /\ 1..0 = {}
      BY <2>1, <2>3
    <3> HIDE DEF Line
    <3> QED BY <3>1, Zenon
  <2>5. Line(L, 0) /\ buf' = L[0]
    <3> HIDE DEF L
    <3> QED BY <2>1, <2>3, <2>4
  <2>6. NoNull => IsText(buf')
    BY <1>4, <2>1, <2>2, TextConcat
  <2> HIDE DEF L, Line
  <2> QED BY <2>2, <2>5, <2>6
<1>8. CASE FlushField
  <2>1. PICK n : n = Len(texts)
    OBVIOUS
  <2>2. /\ sent = NULL /\ info # <<>> /\ n \in Nat /\ n + 1 \in 1..N
        /\ K[n + 1] \in Seq(Chars) /\ V[n + 1] \in Seq(Chars)
        /\ buf' = ((buf \o Delim) \o K[n + 1]) \o V[n + 1]
        /\ texts' = Append(texts, V[n + 1]) /\ buf' \in Seq(Chars)
    BY <1>3, <1>8, <2>1, FlushFieldDoes
  <2>3. Delim = <<Comma>>
    BY <1>6 DEF Delim
  <2>4. Len(texts') = n + 1
    BY <1>2, <2>1, <2>2
  <2>5. PICK L : Line(L, n) /\ buf = L[n]
    BY <1>3, <1>6, <2>1, <2>2 DEF LineSoFar, Grows
  <2>6. NoNull => IsText(buf)
    BY <1>6, <2>2 DEF LineSoFar
  <2> DEFINE M == [i \in 0..(n + 1) |-> IF i <= n THEN L[i] ELSE buf']
  <2>7. /\ M \in [0..(n + 1) -> Seq(Chars)] /\ M[n + 1] = buf'
        /\ \A i \in 0..n : M[i] = L[i]
    <3>1. DOMAIN L = 0..n /\ \A i \in 0..n : L[i] \in Seq(Chars)
      BY <2>5
    <3>2. \A i \in 0..(n + 1) : i <= n => i \in 0..n
      BY <2>2
    <3>3. n + 1 \in 0..(n + 1) /\ ~(n + 1 <= n) /\ 0..n \subseteq 0..(n + 1)
          /\ \A i \in 0..n : i <= n
      BY <2>2
    <3> HIDE DEF Line
    <3> QED BY <2>2, <3>1, <3>2, <3>3
  <2>8. M[0] = K[0] \o V[0]
    <3> HIDE DEF M
    <3>1. 0 \in 0..n
      BY <2>2
    <3>2. L[0] = K[0] \o V[0]
      BY <2>5
    <3> QED BY <2>7, <3>1, <3>2, Zenon
  <2>9. \A i \in 1..(n + 1) : M[i] = ((M[i - 1] \o <<Comma>>) \o K[i]) \o V[i]
    <3> HIDE DEF M
    <3> SUFFICES ASSUME NEW i \in 1..(n + 1)
                 PROVE  M[i] = ((M[i - 1] \o <<Comma>>) \o K[i]) \o V[i]
      OBVIOUS
    <3>1. CASE i \in 1..n
      <4>1. i \in 0..n /\ i - 1 \in 0..n
        BY <2>2, <3>1
      <4>2. L[i] = ((L[i - 1] \o <<Comma>>) \o K[i]) \o V[i]
        BY <2>5, <3>1
      <4> QED BY <2>7, <4>1, <4>2, Zenon
    <3>2. CASE i = n + 1
      <4>1. (n + 1) - 1 = n /\ n \in 0..n
        BY <2>2
      <4>2. M[n] = buf
        BY <2>5, <2>7, <4>1
      <4>3. M[n + 1] = ((M[n] \o <<Comma>>) \o K[n + 1]) \o V[n + 1]
        BY <2>2, <2>3, <2>7, <4>2, Zenon
      <4> QED BY <3>2, <4>1, <4>3
    <3>3. i \in 1..n \/ i = n + 1
      BY <2>2
    <3> QED BY <3>1, <3>2, <3>3
  <2>10. Line(M, n + 1) /\ buf' = M[n + 1]
    <3> HIDE DEF M
    <3> QED BY <2>7, <2>8, <2>9
  <2>11. NoNull => IsText(buf')
    <3> SUFFICES ASSUME NoNull PROVE IsText(buf')
      OBVIOUS
    <3>1. IsText(<<Comma>>)
      BY CharsKnown, MarksDiffer, OneText
    <3>2. IsText(buf \o <<Comma>>)
      BY <2>6, <3>1, TextConcat
    <3>3. IsText(K[n + 1]) /\ IsText(V[n + 1])
      <4>1. n + 1 \in 0..N
        BY <2>2
      <4> QED BY <1>4, <4>1
    <3>4. IsText((buf \o <<Comma>>) \o K[n + 1])
      BY <3>2, <3>3, TextConcat
    <3>5. IsText(((buf \o <<Comma>>) \o K[n + 1]) \o V[n + 1])
      BY <3>3, <3>4, TextConcat
    <3> QED BY <2>2, <2>3, <3>5
  <2> HIDE DEF M, Line
  <2> QED BY <2>4, <2>10, <2>11
<1>9. CASE FlushEnd
  <2>1. CASE format = "file"
    <3>1. sent' = Append(buf, Newline) /\ buf \in Seq(Chars)
      BY <1>9, <2>1, FlushEndDoes DEF Writer
    <3>2. sent' \in Seq(Chars)
      BY <3>1, CharsKnown, AppendProperties
    <3> QED BY <1>6, <3>2, NullApart
  <2>2. CASE format = "syslog"
    <3>1. sent' = CString(Append(buf, "NUL")) /\ buf \in Seq(Chars)
      BY <1>9, <2>2, FlushEndDoes DEF Writer
    <3>2. sent' \in Seq(Chars)
      <4>1. PICK t : t = Append(buf, "NUL")
        OBVIOUS
      <4>2. t \in Seq(Chars)
        BY <3>1, <4>1, CharsKnown, AppendProperties
      <4>3. CString(t) \in Seq(Chars)
        BY <4>2, CStringText
      <4> QED BY <3>1, <4>1, <4>3
    <3> QED BY <1>6, <3>2, NullApart
  <2> QED BY <1>6, <2>1, <2>2 DEF Writer
<1>10. CASE writer' = writer
  <2>1. /\ buf' = buf /\ info' = info /\ texts' = texts /\ sent' = sent
    BY <1>10 DEF writer
  <2>2. /\ \E L : Line(L, Len(texts)) /\ buf = L[Len(texts)]
        /\ NoNull => IsText(buf)
    BY <1>3, <1>6, <2>1 DEF LineSoFar, Grows
  <2> HIDE DEF Line
  <2> QED BY <2>1, <2>2
<1>11. Get \/ GetStep \/ UNCHANGED wireVars => writer' = writer
  BY DEF Get, GetStep, wireVars
<1> QED BY <1>7, <1>8, <1>9, <1>10, <1>11 DEF WireNext

\* A line is whole when it is handed on: what grew up to then is the line, and
\* printf cuts nothing of it when no value holds an end.
LEMMA LineWholeHolds ==
  ASSUME Writer, Finder, ValuesPut, LineSoFar, LineWhole, [WireNext]_wireVars
  PROVE  LineWhole'
<1>1. format' = format /\ log' = log
  BY LogStays
<1>2. ASSUME texts' = texts
      PROVE  Lines' = Lines
  BY <1>1, <1>2 DEF Lines
<1>3. CASE FlushKey \/ FlushField
  <2>1. sent' = NULL
    BY <1>3, FlushKeyDoes, FlushFieldDoes
  <2> QED BY <2>1 DEF LineWhole
<1>4. CASE FlushEnd
  <2>1. /\ sent = NULL /\ info # <<>> /\ texts' = texts
        /\ format = "file" => sent' = Append(buf, Newline)
        /\ format = "syslog" => sent' = CString(Append(buf, "NUL"))
    BY <1>4, FlushEndDoes
  <2>2. Lines' = Lines
    BY <1>2, <2>1
  <2>3. SUFFICES ASSUME format # "stream"
                 PROVE  /\ format = "file" => sent' = Append(Lines[Len(texts)], Newline)
                        /\ format # "file" /\ NoNull => sent' = Lines[Len(texts)]
    BY <1>1, <2>1, <2>2, Zenon DEF LineWhole, NoNull
  <2>4. PICK L : Grows(L, Len(texts)) /\ buf = L[Len(texts)]
    BY <2>1, <2>3 DEF LineSoFar
  <2>5. buf = Lines[Len(texts)]
    <3>1. Lines[Len(texts)] = L[Len(texts)]
      BY <2>4, LinesGrow
    <3> QED BY <2>4, <3>1
  <2>6. format # "file" => format = "syslog"
    BY <2>3 DEF Writer
  <2>7. ASSUME NoNull
        PROVE  CString(Append(buf, "NUL")) = buf
    <3>1. IsText(buf)
      BY <2>1, <2>3, <2>7 DEF LineSoFar
    <3> QED BY <3>1, CStringWhole
  <2> QED BY <2>1, <2>5, <2>6, <2>7
<1>5. CASE writer' = writer
  <2>1. texts' = texts /\ sent' = sent
    BY <1>5 DEF writer
  <2>2. Lines' = Lines
    BY <1>2, <2>1
  <2> QED BY <1>1, <2>1, <2>2, Zenon DEF LineWhole
<1>6. Get \/ GetStep \/ UNCHANGED wireVars => writer' = writer
  BY DEF Get, GetStep, wireVars
<1> QED BY <1>3, <1>4, <1>5, <1>6 DEF WireNext

\* Every step of the writer and of the reader keeps the invariant.
LEMMA StepHolds == WireInv /\ [WireNext]_wireVars => WireInv'
<1> SUFFICES ASSUME WireInv, [WireNext]_wireVars
             PROVE  WireInv'
  OBVIOUS
<1>1. Writer /\ Finder /\ ValuesPut /\ UnderWay /\ Stands /\ LineSoFar /\ LineWhole
  BY DEF WireInv
<1>2. Writer' /\ ValuesPut'
  BY <1>1, WriterHolds
<1>3. UnderWay'
  BY <1>1, MessageHolds
<1>4. Finder' /\ Stands'
  BY <1>1, FinderHolds
<1>5. LineSoFar'
  BY <1>1, LineHolds
<1>6. LineWhole'
  BY <1>1, LineWholeHolds
<1> QED BY <1>2, <1>3, <1>4, <1>5, <1>6 DEF WireInv

\* The invariant holds in every state.
LEMMA WireInvariance == WireSpec => []WireInv
<1>1. WireInit => WireInv
  BY InitHolds
<1>2. WireInv /\ [WireNext]_wireVars => WireInv'
  BY StepHolds
<1> QED BY <1>1, <1>2, PTL DEF WireSpec

\* The keys and the values as GetsFirst lists them.
Sought  == <<TraceID>> \o [i \in DOMAIN log.fields |-> log.fields[i].key]
Offered == <<log.trace>> \o texts

\* A text put in front moves the others by one.
LEMMA FrontShifts ==
  ASSUME NEW S, NEW x \in S, NEW s \in Seq(S), NEW n \in Nat, Len(s) = n
  PROVE  /\ <<x>> \o s \in Seq(S) /\ DOMAIN (<<x>> \o s) = 1..(n + 1)
         /\ (<<x>> \o s)[1] = x
         /\ \A i \in 2..(n + 1) : (<<x>> \o s)[i] = s[i - 1]
<1>1. PICK u : u = <<x>>
  OBVIOUS
<1>2. u \in Seq(S) /\ Len(u) = 1 /\ u[1] = x
  BY <1>1
<1>3. /\ u \o s \in Seq(S) /\ Len(u \o s) = 1 + n
      /\ \A i \in 1..(1 + n) : (u \o s)[i] = IF i <= 1 THEN u[i] ELSE s[i - 1]
  <2>1. /\ u \o s \in Seq(S) /\ Len(u \o s) = Len(u) + Len(s)
        /\ \A i \in 1..(Len(u) + Len(s)) : (u \o s)[i] =
             IF i <= Len(u) THEN u[i] ELSE s[i - Len(u)]
    BY <1>2, ConcatProperties
  <2> QED BY <1>2, <2>1, Zenon
<1>4. DOMAIN (u \o s) = 1..(n + 1)
  <2>1. DOMAIN (u \o s) = 1..Len(u \o s)
    BY <1>3, LenProperties
  <2>2. 1 + n = n + 1
    OBVIOUS
  <2> QED BY <1>3, <2>1, <2>2
<1>5. 1 \in 1..(1 + n) /\ \A i \in 2..(n + 1) : i \in 1..(1 + n) /\ ~(i <= 1)
  OBVIOUS
<1>6. (u \o s)[1] = x /\ \A i \in 2..(n + 1) : (u \o s)[i] = s[i - 1]
  BY <1>2, <1>3, <1>5
<1> QED BY <1>1, <1>3, <1>4, <1>6

\* Two lengths are in the header for each entry.
LEMMA HalfOfPairs == \A c \in Nat : (2 * c) \div 2 = c
OBVIOUS

\* They are LogKeys and LogValues once all fields are written, and the reader has
\* as many entries to look at.
LEMMA SoughtOffered ==
  ASSUME Writer, Finder, ValuesPut, want # NULL, NEW off, At(off), NEW n, n = Len(texts)
  PROVE  /\ n \in Nat /\ LogSize = n + 1 /\ DOMAIN Sought = 1..(n + 1)
         /\ \A i \in 1..(n + 1) : /\ Sought[i] = LogKeys[i - 1]
                                  /\ Offered[i] = LogValues[i - 1]
<1>1. /\ log \in Logs /\ texts \in Seq(Seq(Chars)) /\ n \in Nat
      /\ sent # NULL /\ format = "stream" /\ n = Len(log.fields) /\ sent.info = info
  BY DEF Writer, Finder
<1>2. LogSize = n + 1
  <2>1. Len(info) = 2 * (n + 1)
    BY DEF At, Laid
  <2>2. LogSize = (2 * (n + 1)) \div 2
    BY <1>1, <2>1, Zenon DEF LogSize
  <2>3. n + 1 \in Nat
    BY <1>1
  <2> QED BY <2>2, <2>3, HalfOfPairs, Zenon
<1>3. PICK names : names = [i \in DOMAIN log.fields |-> log.fields[i].key]
  OBVIOUS
<1>4. /\ names \in Seq(Seq(Chars)) /\ Len(names) = n
      /\ \A i \in 1..n : names[i] = log.fields[i].key
  <2>1. log.fields \in Seq(Field) /\ DOMAIN log.fields = 1..n
    BY <1>1, FieldsSound
  <2>2. \A i \in 1..n : log.fields[i].key \in Seq(Chars)
    BY <1>1, <2>1, FieldsSound DEF Sound, IsText
  <2>3. names \in [1..n -> Seq(Chars)]
    BY <1>3, <2>1, <2>2
  <2>4. names \in Seq(Seq(Chars))
    <3>1. Seq(Seq(Chars)) = UNION {[1..m -> Seq(Chars)] : m \in Nat}
      BY SeqDef
    <3> QED BY <1>1, <2>3, <3>1, Zenon
  <2>5. DOMAIN names = 1..n /\ DOMAIN names = 1..Len(names) /\ Len(names) \in Nat
    BY <2>3, <2>4, LenProperties
  <2>6. Len(names) = n
    BY <1>1, <2>5
  <2> QED BY <1>3, <2>1, <2>4, <2>6
<1>5. PICK k, v : k = LogKeys[0] /\ v = LogValues[0]
  OBVIOUS
<1>6. k \in Seq(Chars) /\ v \in Seq(Chars) /\ k = TraceID /\ v = log.trace
  <2>1. 0 \in 0..Len(log.fields)
    BY <1>1
  <2> QED BY <1>1, <1>5, <2>1, KeysAndValues
<1>7. /\ DOMAIN (<<k>> \o names) = 1..(n + 1) /\ (<<k>> \o names)[1] = k
      /\ \A i \in 2..(n + 1) : (<<k>> \o names)[i] = names[i - 1]
  BY <1>1, <1>4, <1>6, FrontShifts
<1>8. /\ (<<v>> \o texts)[1] = v
      /\ \A i \in 2..(n + 1) : (<<v>> \o texts)[i] = texts[i - 1]
  <2>1. PICK t : t = texts
    OBVIOUS
  <2>2. t \in Seq(Seq(Chars)) /\ v \in Seq(Chars) /\ n \in Nat /\ Len(t) = n
    BY <1>1, <1>6, <2>1
  <2>3. /\ (<<v>> \o t)[1] = v
        /\ \A i \in 2..(n + 1) : (<<v>> \o t)[i] = t[i - 1]
    BY <2>2, FrontShifts
  <2> QED BY <2>1, <2>3
<1>9. Sought = <<k>> \o names /\ Offered = <<v>> \o texts
  BY <1>3, <1>6 DEF Sought, Offered
<1>10. ASSUME NEW i \in 1..(n + 1)
       PROVE  Sought[i] = LogKeys[i - 1] /\ Offered[i] = LogValues[i - 1]
  <2>1. CASE i = 1
    <3>1. i - 1 = 0
      BY <2>1
    <3> QED BY <1>5, <1>7, <1>8, <1>9, <2>1, <3>1
  <2>2. CASE i \in 2..(n + 1)
    <3>1. PICK m : m = i - 1
      OBVIOUS
    <3>2. m \in 1..n
      BY <1>1, <2>2, <3>1
    <3>3. LogKeys[m] = log.fields[m].key /\ LogValues[m] = PutValue(log.fields[m])
      BY <1>1, <3>2, KeysAndValues
    <3>4. texts[m] = PutValue(log.fields[m])
      BY <3>2 DEF ValuesPut
    <3>5. Sought[i] = names[m] /\ Offered[i] = texts[m]
      BY <1>7, <1>8, <1>9, <2>2, <3>1
    <3> QED BY <1>4, <3>1, <3>2, <3>3, <3>4, <3>5
  <2>3. i = 1 \/ i \in 2..(n + 1)
    BY <1>1
  <2> QED BY <2>1, <2>2, <2>3
<1> QED BY <1>1, <1>2, <1>7, <1>9, <1>10

-----------------------------------------------------------------------------
(* The theorems *)

\* Whatever put_d, put_i, put_hex and put_f are given, the digits they leave in
\* the buffer denote it: least integer, negative fractions and all.
THEOREM NumbersDenote == WireSpec => []Denotes
<1>1. WireInv => Denotes
  <2> SUFFICES ASSUME WireInv, NEW i \in DOMAIN texts,
                      NEW f, f = log.fields[i], NEW t, t = texts[i]
               PROVE  /\ f.type = "int" => Decimal(t, f.num)
                      /\ f.type = "unsigned" /\ f.num < Half => Decimal(t, f.num)
                      /\ f.type = "hex" => SubSeq(t, 1, 2) = <<"0", "x">>
                                           /\ Numeral(SubSeq(t, 3, Len(t)), f.num, 16)
                      /\ f.type = "float" /\ f.num < 10000 * Half32
                           /\ f.num > -10000 * Half32 => Point(t, f.num)
    BY DEF Denotes
  <2>1. /\ log \in Logs /\ texts \in Seq(Seq(Chars)) /\ Len(texts) <= Len(log.fields)
        /\ ValuesPut
    BY DEF WireInv, Writer
  <2>2. Len(log.fields) \in Nat /\ log.fields \in Seq(Field)
    BY <2>1, FieldsSound
  <2>3. i \in 1..Len(texts) /\ i \in DOMAIN log.fields
    BY <2>1, <2>2
  <2>4. Sound(f)
    BY <2>1, <2>3, FieldsSound
  <2>5. t = PutValue(f)
    BY <2>1, <2>3 DEF ValuesPut
  <2> QED BY <2>4, <2>5, ValueDenotes
<1> QED BY <1>1, WireInvariance, PTL

\* LogEntry_get over a message returns the value of the first field with its
\* key, and NULL when it has looked at all of them and none has it.
THEOREM FirstGot == WireSpec => []GetsFirst
<1>1. WireInv => GetsFirst
  <2> SUFFICES ASSUME WireInv, want # NULL, result # NULL \/ idx = LogSize
               PROVE  LET found == {i \in DOMAIN Sought : Sought[i] = want}
                      IN  IF found = {} THEN result = NULL
                          ELSE result = Offered[CHOOSE i \in found : \A j \in found : i <= j]
    BY Zenon DEF GetsFirst, Sought, Offered
  <2>1. Writer /\ Finder /\ ValuesPut /\ Stands
    BY DEF WireInv
  <2>2. PICK n : n = Len(texts)
    OBVIOUS
  <2>3. PICK off : At(off)
    BY <2>1 DEF Stands
  <2>4. /\ n \in Nat /\ LogSize = n + 1 /\ DOMAIN Sought = 1..(n + 1)
        /\ \A i \in 1..(n + 1) : Sought[i] = LogKeys[i - 1] /\ Offered[i] = LogValues[i - 1]
    BY <2>1, <2>2, <2>3, SoughtOffered
  <2> DEFINE found == {i \in DOMAIN Sought : Sought[i] = want}
  <2>5. \A i : i \in found <=> i \in 1..(n + 1) /\ LogKeys[i - 1] = want
    BY <2>4
  <2>6. /\ idx \in 0..(n + 1)
        /\ \A j \in 0..(idx - 1) : LogKeys[j] # want
        /\ result # NULL => idx \in 0..n /\ LogKeys[idx] = want /\ result = LogValues[idx]
    BY <2>2, <2>3 DEF At
  <2> HIDE DEF found
  <2>7. CASE result = NULL
    <3>1. idx = n + 1
      BY <2>4, <2>7
    <3>2. \A i \in 1..(n + 1) : i - 1 \in 0..(idx - 1)
      BY <2>4, <3>1
    <3>3. found = {}
      BY <2>5, <2>6, <3>2
    <3> QED BY <2>7, <3>3 DEF found
  <2>8. CASE result # NULL
    <3>1. PICK i : i = idx + 1
      OBVIOUS
    <3>2. i \in 1..(n + 1) /\ i - 1 = idx
      BY <2>4, <2>6, <2>8, <3>1
    <3>3. i \in found
      BY <2>5, <2>6, <2>8, <3>2
    <3>4. ASSUME NEW j \in found PROVE i <= j
      <4>1. j \in 1..(n + 1) /\ LogKeys[j - 1] = want
        BY <2>5, <3>4
      <4>2. ~(j - 1 \in 0..(idx - 1))
        BY <2>6, <4>1
      <4> QED BY <2>4, <2>6, <3>1, <4>1, <4>2
    <3>5. \A m \in found : (\A j \in found : m <= j) => m = i
      <4>1. \A m \in found : m \in Int
        BY <2>5
      <4>2. i \in Int
        BY <3>2
      <4> QED BY <3>3, <3>4, <4>1, <4>2
    <3>6. (CHOOSE m \in found : \A j \in found : m <= j) = i
      BY <3>3, <3>4, <3>5, Zenon
    <3>7. Offered[i] = result
      BY <2>4, <2>6, <2>8, <3>2
    <3>8. found # {}
      BY <3>3
    <3> QED BY <3>6, <3>7, <3>8, Zenon DEF found
  <2> QED BY <2>7, <2>8
<1> QED BY <1>1, WireInvariance, PTL

\* The line that file.c writes and the line that syslog shows are the trace name
\* and every field of the log, as long as syslog is given no null.
THEOREM LinesWhole == WireSpec => []LineWhole
<1>1. WireInv => LineWhole
  BY DEF WireInv
<1> QED BY <1>1, WireInvariance, PTL
=============================================================================
