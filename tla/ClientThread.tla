---------------------------- MODULE ClientThread ----------------------------
(***************************************************************************)
(* core/client.c with io_open and io_close of core/io.c: a program that    *)
(* asks the server for a procedure and reads the logs it is sent back.  As *)
(* in TraceThread a thread of its own runs the libevent loop; but here     *)
(* opening waits as long as the flag IO_MODE_THREAD is set, not until it   *)
(* is, a read polls the input that the loop fills, and a close ends the    *)
(* loop itself.                                                            *)
(*                                                                         *)
(* A log is two parts, which may arrive one by one.  A thread that uses    *)
(* what the other has freed is "undefined" from then on.                   *)
(***************************************************************************)
EXTENDS Naturals, Sequences

CONSTANTS Log,      \* what the server sends
          MaxLogs   \* bound: logs sent by the server

ASSUME BoundAssumption == MaxLogs \in Nat

VARIABLES
  main,     \* the program's thread: where it is
  thread,   \* the thread of the loop: "none" before pthread_create
  flag,     \* IO_MODE_THREAD in io->flags
  bev,      \* io->bev: "live", "freed", or "NULL" if connecting failed at once
  exit,     \* event_base_loopexit was called
  io,       \* the struct io: "live", "freed"
  peer,     \* the server's end: "connecting", "open", "closed"
  asked,    \* a procedure was written
  sent,     \* the logs the server has sent
  arrived,  \* parts that the loop has put into the input
  taken,    \* parts that chunk_stream_get has moved to io->cs
  got       \* the logs that io_client_read has returned

vars   == <<main, thread, flag, bev, exit, io, peer, asked, sent, arrived, taken, got>>
shared == <<flag, bev, exit, io>>
wire   == <<peer, asked, sent, arrived>>
stream == <<taken, got>>

Parts == 2

Init == /\ main = "opening" /\ thread = "none"
        /\ flag = FALSE /\ bev = "live" /\ exit = FALSE /\ io = "live"
        /\ peer = "connecting" /\ asked = FALSE
        /\ sent = <<>> /\ arrived = 0 /\ taken = 0 /\ got = <<>>

-----------------------------------------------------------------------------
(* The program's thread *)

\* The head of client_thread_start.
CreateThread == /\ main = "opening"
                /\ main' = "starting"
                /\ thread' = "new"
                /\ UNCHANGED <<shared, wire, stream>>

\* bufferevent_socket_connect_hostname returns -1; io_open ignores IO_FAILED.
InitFails == /\ main = "opening"
             /\ main' = "open"
             /\ bev' = "NULL"
             /\ UNCHANGED <<thread, flag, exit, io, wire, stream>>

\* The loop of client_thread_start.
Started == /\ main = "starting"
           /\ ~flag
           /\ main' = "open"
           /\ UNCHANGED <<thread, shared, wire, stream>>

\* io_client_write; with no bufferevent it fails, with a freed one anything may
\* come of it.
Write == /\ main = "open"
         /\ ~asked
         /\ bev # "NULL"
         /\ main' = IF bev = "live" THEN "open" ELSE "undefined"
         /\ asked' = (bev = "live")
         /\ UNCHANGED <<thread, shared, peer, sent, arrived, stream>>

\* A call of io_client_read, which fails at once if there is no bufferevent.
Read == /\ main = "open"
        /\ bev # "NULL"
        /\ main' = "reading"
        /\ UNCHANGED <<thread, shared, wire, stream>>

\* chunk_stream_empty
Empty == taken = Parts * Len(got) /\ arrived = taken

\* The loop of io_client_read is left.
Poll == /\ main = "reading"
        /\ \/ bev = "live" /\ (~Empty \/ ~flag) /\ main' = "getting"
           \/ bev = "freed" /\ main' = "undefined"
        /\ UNCHANGED <<thread, shared, wire, stream>>

\* Mutation: the chunk_stream is not kept, so that a log of which only a part
\* has arrived is lost.
GetAnew ==
    /\ main = "getting"
    /\ taken' = arrived
    /\ LET whole == arrived - taken >= Parts
       IN  /\ got' = IF whole THEN Append(got, sent[taken \div Parts + 1]) ELSE got
           /\ main' = "open"
    /\ UNCHANGED <<thread, shared, wire>>

\* chunk_stream_get and the end of io_client_read: what is in the input is moved
\* behind what is left from before, unless that is a log; with less than a log
\* the read fails.
Get ==
    /\ main = "getting"
    /\ LET left == taken - Parts * Len(got)
           next == sent[Len(got) + 1]
       IN  \/ /\ left >= Parts
              /\ got' = Append(got, next) /\ main' = "open" /\ UNCHANGED taken
           \/ /\ left < Parts /\ bev = "live"
              /\ taken' = arrived
              /\ got' = IF arrived - Parts * Len(got) >= Parts
                        THEN Append(got, next) ELSE got
              /\ main' = "open"
           \/ /\ left < Parts /\ bev = "freed"
              /\ main' = "undefined" /\ UNCHANGED stream
    /\ UNCHANGED <<thread, shared, wire>>

\* Mutation: the loop is not told to end.
CloseWaits == /\ main = "open"
              /\ main' = IF flag THEN "joining" ELSE "freeing"
              /\ UNCHANGED <<thread, shared, wire, stream>>

\* Mutation: the thread is not joined.
CloseAtOnce == /\ main = "open"
               /\ main' = "freeing"
               /\ exit' = (exit \/ flag)
               /\ UNCHANGED <<thread, flag, bev, io, wire, stream>>

\* The head of io_client_close.
Close == /\ main = "open"
         /\ main' = IF flag THEN "joining" ELSE "freeing"
         /\ exit' = (exit \/ flag)
         /\ UNCHANGED <<thread, flag, bev, io, wire, stream>>

\* pthread_join
Join == /\ main = "joining"
        /\ thread = "done"
        /\ main' = "freeing"
        /\ UNCHANGED <<thread, shared, wire, stream>>

\* The rest of io_close.
Free == /\ main = "freeing"
        /\ main' = "closed"
        /\ io' = "freed"
        /\ UNCHANGED <<thread, flag, bev, exit, wire, stream>>

-----------------------------------------------------------------------------
(* The thread of the loop: client_thread_main and its callback *)

\* What runs is on what io_close has not freed yet.
Running == thread = "loop" /\ io = "live" /\ bev = "live"

Flag == /\ thread = "new" /\ io = "live"
        /\ thread' = "loop"
        /\ flag' = TRUE
        /\ UNCHANGED <<main, bev, exit, io, wire, stream>>

\* BEV_EVENT_CONNECTED
Connected == /\ Running
             /\ peer = "connecting"
             /\ peer' = "open"
             /\ UNCHANGED <<main, thread, shared, asked, sent, arrived, stream>>

\* The loop reads from the socket.
Readable(n) == /\ Running
               /\ arrived' = n
               /\ UNCHANGED <<main, thread, shared, peer, asked, sent, stream>>

\* BEV_EVENT_ERROR, BEV_EVENT_EOF; an error may come before what was sent.
Eof == /\ Running
       /\ peer = "closed"
       /\ bev' = "freed"
       /\ exit' = TRUE
       /\ UNCHANGED <<main, thread, flag, io, wire, stream>>

\* event_base_dispatch returns, and the flag is cleared.
Leave == /\ thread = "loop" /\ io = "live" /\ exit
         /\ thread' = "done"
         /\ flag' = ~flag
         /\ UNCHANGED <<main, bev, exit, io, wire, stream>>

\* The flag is set or cleared, or the callback takes the base, in a freed io.
UseFreed == /\ thread \in {"new", "loop"} /\ io = "freed"
            /\ thread' = "undefined"
            /\ UNCHANGED <<main, shared, wire, stream>>

-----------------------------------------------------------------------------
(* The server *)

\* The Response of the procedure writes a log.
Respond(log) == /\ peer = "open" /\ asked
                /\ Len(sent) < MaxLogs
                /\ sent' = Append(sent, log)
                /\ UNCHANGED <<main, thread, shared, peer, asked, arrived, stream>>

\* No server answers, or it ends.
Lost == /\ thread = "loop"
        /\ peer # "closed"
        /\ peer' = "closed"
        /\ UNCHANGED <<main, thread, shared, asked, sent, arrived, stream>>

Arrival == \E n \in arrived + 1 .. Parts * Len(sent) : Readable(n)

Next == \/ CreateThread \/ InitFails \/ Started
        \/ Write \/ Read \/ Poll \/ Get
        \/ Close \/ Join \/ Free
        \/ Flag \/ Connected \/ Eof \/ Leave \/ UseFreed
        \/ \E n \in arrived + 1 .. Parts * Len(sent) : Readable(n)
        \/ \E log \in Log : Respond(log)
        \/ Lost

Spec == Init /\ [][Next]_vars

\* A call of io_open or io_close goes on, and so does the loop.  Whether the
\* program reads or closes, and whether the server sends or ends, is their affair.
FairSpec == /\ Spec
            /\ WF_vars(CreateThread) /\ WF_vars(Started)
            /\ WF_vars(Join) /\ WF_vars(Free)
            /\ WF_vars(Flag) /\ WF_vars(Leave)
            /\ WF_vars(Connected \/ Arrival \/ Eof)

-----------------------------------------------------------------------------
(* Properties *)

\* The shapes of the variables.
TypeOK == /\ main \in {"opening", "starting", "open", "reading", "getting",
                       "joining", "freeing", "closed", "undefined"}
          /\ thread \in {"none", "new", "loop", "done", "undefined"}
          /\ flag \in BOOLEAN /\ exit \in BOOLEAN /\ asked \in BOOLEAN
          /\ bev \in {"live", "freed", "NULL"}
          /\ io \in {"live", "freed"}
          /\ peer \in {"connecting", "open", "closed"}
          /\ sent \in Seq(Log) /\ got \in Seq(Log)
          /\ arrived \in 0 .. Parts * Len(sent)
          /\ taken \in 0 .. arrived

\* What the reads return is what the server has sent, in order, though a read
\* fails whenever it finds a part of a log, and takes that part with it.
InOrder == /\ Len(got) <= Len(sent)
           /\ \A i \in 1 .. Len(got) : got[i] = sent[i]
           /\ Parts * Len(got) <= taken

\* Once a read has returned a log, the thread of the loop is known to have set
\* its flag: a close then waits for it before it frees what it runs on.
ReaderCloses == io = "freed" /\ got # <<>> => thread = "done"

\* A close comes to its end, though the loop may not even have begun when it is
\* told to end, and whatever the server does.
CloseEnds == main = "joining" ~> main = "closed"

\* An open comes to its end, however the threads are scheduled.
OpenEnds == <>(main \notin {"opening", "starting"})
=============================================================================
