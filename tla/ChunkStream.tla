---------------------------- MODULE ChunkStream ----------------------------
(***************************************************************************)
(* core/stream.c: messages are cut out of a TCP byte stream with a buffer  *)
(* of IO_BUFFER_SIZE bytes.  A message is a fixed header that holds        *)
(* logsize, then logsize pairs of lengths, then the keys and the values.   *)
(* chunk_stream_get asks chunk_stream_check_size three times, for the      *)
(* header, for the table of lengths and for the whole message; each call   *)
(* may move the window to the front of the buffer and refill it from the   *)
(* bufferevent's input.                                                    *)
(*                                                                         *)
(* A byte is named by its position in the stream the peer wrote, so the    *)
(* contents of the buffer tell exactly which bytes the program looks at.   *)
(* Two programs use the stream: the server's read callback                 *)
(* (core/server.c), which runs to its end before the event loop reads from *)
(* the socket again, and io_client_read (core/client.c), which runs in the *)
(* caller's thread while the event thread keeps adding input.              *)
(***************************************************************************)
EXTENDS Naturals, Integers, Sequences

CONSTANTS HeaderSize,   \* LOG_PROTOCOL_SIZE = sizeof(struct Message)
          PairSize,     \* 2 * sizeof(uint16_t)
          BufferSize,   \* IO_BUFFER_SIZE
          Word,         \* 2^16: the lengths and their sums are uint16_t
          Shapes,       \* what is sent: [pairs |-> logsize, body |-> bytes]
          MaxMessages   \* bound: how many messages the peer writes

ASSUME SizesAssumption == /\ HeaderSize \in Nat \ {0}
                          /\ PairSize \in Nat
                          /\ BufferSize \in Nat
                          /\ Word \in Nat \ {0}
\* What a writer's buffer (1024 bytes at most) has room for is below 2^16.
ASSUME ShapesAssumption ==
    Shapes \subseteq [pairs : 0 .. Word - 1, body : 0 .. Word - 1]
ASSUME BoundAssumption == MaxMessages \in Nat

VARIABLES threaded, \* TRUE: io_client_read, FALSE: server_read_callback
          msgs,     \* messages the peer wrote: [start, pairs, body]
          arrived,  \* bytes the event loop has put into the input so far
          taken,    \* bytes bufferevent_read has moved into cs->buffer so far
          buffer,   \* cs->buffer; each cell holds the position of its byte
          cur,      \* cs->cur - cs->buffer
          len,      \* cs->len
          need,     \* the request of the current chunk_stream_check_size
          pc,       \* where the reader is
          got       \* what chunk_stream_get returned so far, byte by byte

reader == <<taken, buffer, cur, len, need>>
vars   == <<threaded, msgs, arrived, taken, buffer, cur, len, need, pc, got>>

-----------------------------------------------------------------------------
(* Messages on the wire *)

Message    == [start : Nat, pairs : 0 .. Word - 1, body : 0 .. Word - 1]
Prefix(p)  == HeaderSize + PairSize * p    \* header and table of lengths
Size(m)    == Prefix(m.pairs) + m.body
End(m)     == m.start + Size(m)
Wire(m)    == [i \in 1..Size(m) |-> m.start + i - 1]
Written    == IF msgs = <<>> THEN 0 ELSE End(msgs[Len(msgs)])

\* Bytes that malloc returned and nobody wrote yet.
NoByte == -1

Cells == 0 .. BufferSize - 1

\* The messages whose first k bytes are the k bytes of b at c.
MessagesAt(b, c, k) ==
    {m \in 1..Len(msgs) : \A i \in 0..k-1 : b[c + i] = msgs[m].start + i}

\* d->logsize.  Bytes that start no message decode to anything.
LogSizesAt(b, c) ==
    LET M == MessagesAt(b, c, HeaderSize)
    IN  IF M = {} THEN {s.pairs : s \in Shapes} ELSE {msgs[m].pairs : m \in M}

\* klen and vlen, summed over the table of lengths in a uint16_t.
BodiesAt(b, c, k) ==
    LET M == MessagesAt(b, c, k)
    IN  {n % Word : n \in IF M = {} THEN {s.body : s \in Shapes}
                          ELSE {msgs[m].body : m \in M}}

-----------------------------------------------------------------------------
Init == /\ threaded \in BOOLEAN
        /\ msgs = <<>>
        /\ arrived = 0
        /\ taken = 0
        /\ buffer = [i \in Cells |-> NoByte]
        /\ cur = 0
        /\ len = 0
        /\ need = 0
        /\ pc = "idle"
        /\ got = <<>>

(* The peer and the event loop *)

\* emit_message and the bufferevent_write of its result.
Send(s) == /\ Len(msgs) < MaxMessages
           /\ msgs' = Append(msgs, [start |-> Written,
                                    pairs |-> s.pairs, body |-> s.body])
           /\ UNCHANGED <<threaded, arrived, pc, got>>
           /\ UNCHANGED reader

Readable(n) == /\ n \in arrived + 1 .. Written
               /\ arrived' = n
               /\ UNCHANGED <<threaded, msgs, got>>
               /\ UNCHANGED reader

\* The event loop of the server reads from the socket and calls
\* server_read_callback; nothing else runs until that returns.
ServerReadable(n) == ~threaded /\ pc = "idle" /\ Readable(n) /\ pc' = "loop"

\* The event thread of a client reads from the socket, at any time.
ClientReadable(n) == threaded /\ Readable(n) /\ UNCHANGED pc

\* The application calls io_client_read.
ClientRead == /\ threaded
              /\ pc = "idle"
              /\ pc' = "loop"
              /\ UNCHANGED <<threaded, msgs, arrived, got>>
              /\ UNCHANGED reader

-----------------------------------------------------------------------------
(* The reader *)

Smaller(a, b) == IF a < b THEN a ELSE b

\* Mutation: the bytes are read behind the window, which is not moved.
ResetWithoutMemmove(k) ==
    /\ buffer' = [i \in Cells |-> IF i \in len .. len + k - 1
                                  THEN taken + (i - len) ELSE buffer[i]]
    /\ cur' = 0
    /\ len' = len + k
    /\ taken' = taken + k

\* The tail of chunk_stream_reset, with k bytes read.
Reset(k) ==
    /\ buffer' = [i \in Cells |->
                    IF i < len THEN buffer[cur + i]
                    ELSE IF i < len + k THEN taken + (i - len)
                    ELSE buffer[i]]
    /\ cur' = 0
    /\ len' = len + k
    /\ taken' = taken + k

\* Mutation: the buffer is refilled only once it is empty.
CheckSizeWhenEmpty ==
    \/ /\ len > 0 \/ taken = arrived
       /\ UNCHANGED <<taken, buffer, cur, len>>
    \/ /\ len = 0 /\ taken < arrived
       /\ Reset(Smaller(BufferSize, arrived - taken))

\* chunk_stream_check_size: it succeeds when len' >= need.
CheckSize ==
    \/ /\ len >= need \/ taken = arrived
       /\ UNCHANGED <<taken, buffer, cur, len>>
    \/ /\ len < need /\ taken < arrived
       /\ Reset(Smaller(BufferSize - len, arrived - taken))

\* Mutation: bytes that were read but not handed out are forgotten.
EmptyInput == taken = arrived

\* chunk_stream_empty
Empty == len = 0 /\ taken = arrived

\* The test of the loop in both readers.  The server's callback returns; the
\* client waits for its event thread to add input, or goes on without if that
\* thread is not running (IO_MODE_THREAD), which it may be at any time.
LoopEmpty == /\ ~threaded
             /\ pc = "loop" /\ Empty
             /\ pc' = "idle"
             /\ UNCHANGED <<threaded, msgs, arrived, got>>
             /\ UNCHANGED reader

LoopGet == /\ pc = "loop"
           /\ threaded \/ ~Empty
           /\ need' = HeaderSize
           /\ pc' = "header"
           /\ UNCHANGED <<threaded, msgs, arrived, taken, buffer, cur, len, got>>

\* chunk_stream_get returns NULL: the callback breaks out of its loop and
\* io_client_read returns IO_FAILED.
Null == len' < need /\ pc' = "idle" /\ need' = need

CheckHeader ==
    /\ pc = "header"
    /\ CheckSize
    /\ \/ Null
       \/ /\ len' >= need
          /\ pc' = "lengths"
          /\ \E p \in LogSizesAt(buffer', cur') : need' = Prefix(p)
    /\ UNCHANGED <<threaded, msgs, arrived, got>>

\* Mutation: d is not reassigned after the second chunk_stream_check_size.
CheckLengthsStale ==
    /\ pc = "lengths"
    /\ CheckSize
    /\ \/ Null
       \/ /\ len' >= need
          /\ pc' = "message"
          /\ \E n \in IF cur + need > BufferSize THEN {s.body : s \in Shapes}
                     ELSE BodiesAt(buffer', cur, need) : need' = need + n
    /\ UNCHANGED <<threaded, msgs, arrived, got>>

CheckLengths ==
    /\ pc = "lengths"
    /\ CheckSize
    /\ \/ Null
       \/ /\ len' >= need
          /\ pc' = "message"
          /\ \E n \in BodiesAt(buffer', cur', need) : need' = need + n
    /\ UNCHANGED <<threaded, msgs, arrived, got>>

\* Mutation: a full buffer is taken for a whole message.
CheckMessageTruncates ==
    /\ pc = "message"
    /\ CheckSize
    /\ IF len' < need /\ len' < BufferSize
       THEN Null
       ELSE pc' = "next" /\ need' = Smaller(need, len')
    /\ UNCHANGED <<threaded, msgs, arrived, got>>

CheckMessage ==
    /\ pc = "message"
    /\ CheckSize
    /\ \/ Null
       \/ len' >= need /\ pc' = "next" /\ need' = need
    /\ UNCHANGED <<threaded, msgs, arrived, got>>

\* Mutation: the callback handles one log and returns.
NextChunkOnce ==
    /\ pc = "next"
    /\ got' = Append(got, [i \in 1..need |-> buffer[cur + i - 1]])
    /\ len' = len - need
    /\ cur' = cur + need
    /\ pc' = "idle"
    /\ UNCHANGED <<threaded, msgs, arrived, taken, buffer, need>>

\* Mutation: cs->cur is not advanced.
NextChunkStays ==
    /\ pc = "next"
    /\ got' = Append(got, [i \in 1..need |-> buffer[cur + i - 1]])
    /\ len' = len - need
    /\ pc' = IF threaded THEN "idle" ELSE "loop"
    /\ UNCHANGED <<threaded, msgs, arrived, taken, buffer, cur, need>>

\* chunk_stream_next; the log is handled before the loop goes on, and
\* io_client_read returns after one log.
NextChunk ==
    /\ pc = "next"
    /\ got' = Append(got, [i \in 1..need |-> buffer[cur + i - 1]])
    /\ len' = len - need
    /\ cur' = cur + need
    /\ pc' = IF threaded THEN "idle" ELSE "loop"
    /\ UNCHANGED <<threaded, msgs, arrived, taken, buffer, need>>

Reader == LoopEmpty \/ LoopGet \/ CheckHeader \/ CheckLengths
             \/ CheckMessage \/ NextChunk

Arrival == \E n \in arrived + 1 .. Written : ServerReadable(n) \/ ClientReadable(n)

Next == \/ \E s \in Shapes : Send(s)
        \/ \E n \in arrived + 1 .. Written : ServerReadable(n)
        \/ \E n \in arrived + 1 .. Written : ClientReadable(n)
        \/ ClientRead
        \/ LoopEmpty
        \/ LoopGet
        \/ CheckHeader
        \/ CheckLengths
        \/ CheckMessage
        \/ NextChunk

Spec == Init /\ [][Next]_vars

\* TCP delivers what was written, a thread that can run runs, and a client
\* that reads goes on reading (tools/logtail.c reads in an endless loop).
FairSpec == /\ Spec
            /\ WF_vars(Arrival)
            /\ WF_vars(ClientRead)
            /\ WF_vars(Reader)

-----------------------------------------------------------------------------
(* Properties *)

\* The shapes of the variables.
TypeOK == /\ threaded \in BOOLEAN
          /\ msgs \in Seq(Message)
          /\ arrived \in Nat
          /\ taken \in Nat
          /\ buffer \in [Cells -> Int]
          /\ cur \in Nat
          /\ len \in Nat
          /\ need \in Nat
          /\ pc \in {"idle", "loop", "header", "lengths", "message", "next"}
          /\ got \in Seq(Seq(Int))

\* The bytes between cs->cur and cs->cur + cs->len are inside the buffer and
\* are exactly the last len bytes read from the connection, in order: neither
\* the memmove of chunk_stream_reset nor the bufferevent_read behind it ever
\* loses, repeats or overwrites a byte that was not handed out yet.
Window == /\ cur + len <= BufferSize
          /\ \A i \in 0 .. len - 1 : buffer[cur + i] = taken - len + i

\* What chunk_stream_get returned, call by call, is what the peer wrote,
\* message by message and byte by byte: no message is cut short, merged with
\* its neighbour, skipped or returned twice, however the stream is fragmented.
Framing == /\ Len(got) <= Len(msgs)
           /\ \A k \in 1..Len(got) : got[k] = Wire(msgs[k])

\* chunk_stream_get returns NULL only while the next message has not arrived
\* in full.  The callback is called again only when more input arrives, so a
\* NULL with a whole message at hand would leave that message unread.  (If the
\* message fits in the buffer; see OversizeBlocks.)
NextMessage == msgs[Len(got) + 1]
NextFits    == Len(got) < Len(msgs) /\ Size(NextMessage) <= BufferSize
ReturnsNull == pc \in {"header", "lengths", "message"} /\ pc' = "idle"
NullOnlyIfIncomplete ==
    [][ReturnsNull /\ NextFits => arrived < End(NextMessage)]_vars

\* When the server is back in its event loop every message that has arrived
\* in full has been handled, up to one that does not fit in the buffer.
CallbackDrains ==
    ~threaded /\ pc = "idle" /\ NextFits => arrived < End(NextMessage)

\* A message larger than IO_BUFFER_SIZE is never returned, nor is anything
\* written after it.
OversizeBlocks ==
    \A k \in 1..Len(msgs) : Size(msgs[k]) > BufferSize => Len(got) < k

\* A reader gets the messages that were written, as Framing says, up to the
\* first one that does not fit in the buffer and none from there on.
Reception == Framing /\ OversizeBlocks

\* Every message that is written is eventually handed to the reader, unless it
\* or one in front of it does not fit in the buffer.
AllDelivered ==
    \A k \in 1..MaxMessages :
       (/\ Len(msgs) >= k
        /\ \A j \in 1..k : Size(msgs[j]) <= BufferSize) ~> Len(got) >= k

\* Bytes, fragments and refills implement a FIFO of messages; that a message
\* is received at last is AllDelivered.
Channel == INSTANCE MessageChannel
    WITH sent <- [k \in 1..Len(msgs) |-> Wire(msgs[k])], received <- got
ImplementsChannel == Channel!Spec
=============================================================================
