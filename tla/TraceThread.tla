---------------------------- MODULE TraceThread ----------------------------
(***************************************************************************)
(* core/trace.c with io_open and io_close of core/io.c: a program's        *)
(* connection to the server.  The program's thread opens, writes and       *)
(* closes; a thread of its own runs the libevent loop.  They share struct  *)
(* io: its flag IO_MODE_THREAD, its lock and its bufferevent.  Closing     *)
(* sends a QUIT message and waits for the loop to end, which it does when  *)
(* the server has read the QUIT and closes the connection.                 *)
(***************************************************************************)
EXTENDS Naturals, Sequences

CONSTANTS Log,      \* what is written
          Large,    \* those that the server's buffer of 128 bytes cannot hold
          Unknown,  \* those that begin with no protocol of the server's
          QUIT,     \* the message of util_send_quit_msg
          MaxLogs   \* bound: calls of io_write

ASSUME QuitAssumption   == QUIT \notin Log
ASSUME KindsAssumption  == Large \subseteq Log /\ Unknown \subseteq Log
ASSUME BoundAssumption  == MaxLogs \in Nat

VARIABLES
  main,     \* the program's thread: where it is
  thread,   \* the thread of the loop: "none" before pthread_create
  flag,     \* IO_MODE_THREAD in io->flags
  lock,     \* io->lock is taken
  bev,      \* io->bev: "live", "freed", or "NULL" if connecting failed at once
  exit,     \* event_base_loopexit was called
  io,       \* the struct io: "live", "freed"
  peer,     \* the server's end: "connecting", "open", "closed"
  out,      \* written to the bufferevent and not yet read by the server
  written,  \* history: the logs io_write has accepted
  got,      \* what the server has handled
  failed    \* history: connecting has failed, or the server left early

vars == <<main, thread, flag, lock, bev, exit, io, peer, out, written, got,
          failed>>
shared == <<flag, lock, bev, exit, io>>
wire   == <<peer, out, written, got>>

Init == /\ main = "opening" /\ thread = "none"
        /\ flag = FALSE /\ lock = FALSE
        /\ bev = "live" /\ exit = FALSE /\ io = "live"
        /\ peer = "connecting" /\ out = <<>> /\ written = <<>> /\ got = <<>>
        /\ failed = FALSE

-----------------------------------------------------------------------------
(* The program's thread *)

\* The head of trace_thread_start.
CreateThread == /\ main = "opening"
                /\ main' = "starting"
                /\ lock' = TRUE
                /\ thread' = "new"
                /\ UNCHANGED <<failed, flag, bev, exit, io, wire>>

\* bufferevent_socket_connect_hostname returns -1; io_open ignores IO_FAILED.
InitFails == /\ main = "opening"
             /\ main' = "open"
             /\ bev' = "NULL"
             /\ failed' = TRUE
             /\ UNCHANGED <<thread, flag, lock, exit, io, wire>>

\* Mutation: the program does not wait for the thread.
StartedAtOnce == /\ main = "starting"
                 /\ main' = "open"
                 /\ UNCHANGED <<failed, thread, shared, wire>>

\* pthread_mutex_trylock succeeds, and the lock is given back.
Started == /\ main = "starting"
           /\ ~lock
           /\ main' = "open"
           /\ UNCHANGED <<failed, thread, shared, wire>>

\* bufferevent_write.  On a bufferevent that is not there anything may come of
\* it: the program ends, or goes on with nothing sent.
BufferWrite(msg, next) ==
    \/ /\ bev = "live"
       /\ out' = Append(out, msg)
       /\ main' = next
    \/ /\ bev # "live"
       /\ main' \in {next, "crashed"}
       /\ UNCHANGED out

\* io_tracer_write
Write(log) == /\ main = "open"
              /\ Len(written) < MaxLogs
              /\ BufferWrite(log, "open")
              /\ written' = Append(written, log)
              /\ UNCHANGED <<failed, thread, shared, peer, got>>

\* The condition of io_tracer_close.
Close == /\ main = "open"
         /\ main' = IF flag THEN "quitting" ELSE "freeing"
         /\ UNCHANGED <<failed, thread, shared, wire>>

\* Mutation: the loop is told to end, as io_client_close does it.
SendQuitExits == /\ main = "quitting"
                /\ main' = "joining"
                /\ exit' = TRUE
                /\ UNCHANGED <<failed, thread, flag, lock, bev, io, wire>>

\* util_send_quit_msg
SendQuit == /\ main = "quitting"
            /\ BufferWrite(QUIT, "joining")
            /\ UNCHANGED <<failed, thread, shared, peer, written, got>>

\* pthread_join
Join == /\ main = "joining"
        /\ thread = "done"
        /\ main' = "freeing"
        /\ UNCHANGED <<failed, thread, shared, wire>>

\* The rest of io_close.
Free == /\ main = "freeing"
        /\ main' = "closed"
        /\ io' = "freed"
        /\ UNCHANGED <<failed, thread, flag, lock, bev, exit, wire>>

-----------------------------------------------------------------------------
(* The thread of the loop: trace_thread_main and its callback *)

Flag == /\ thread = "new"
        /\ thread' = "flagged"
        /\ flag' = TRUE
        /\ UNCHANGED <<failed, main, lock, bev, exit, io, wire>>

\* Mutation: the lock is left to the thread that took it.
UnlockNone == /\ thread = "flagged"
              /\ thread' = "loop"
              /\ UNCHANGED <<failed, main, shared, wire>>

Unlock == /\ thread = "flagged"
          /\ thread' = "loop"
          /\ lock' = FALSE
          /\ UNCHANGED <<failed, main, flag, bev, exit, io, wire>>

\* BEV_EVENT_CONNECTED
Connected == /\ thread = "loop" /\ ~exit /\ bev = "live"
             /\ peer = "connecting"
             /\ peer' = "open"
             /\ UNCHANGED <<failed, main, thread, shared, out, written, got>>

\* Mutation: the loop goes on after the end of the connection.
EofStays == /\ thread = "loop" /\ ~exit /\ bev = "live"
            /\ peer = "closed"
            /\ bev' = "freed"
            /\ UNCHANGED <<failed, main, thread, flag, lock, exit, io, wire>>

\* BEV_EVENT_ERROR, BEV_EVENT_EOF
Eof == /\ thread = "loop" /\ ~exit /\ bev = "live"
       /\ peer = "closed"
       /\ bev' = "freed"
       /\ exit' = TRUE
       /\ UNCHANGED <<failed, main, thread, flag, lock, io, wire>>

\* event_base_dispatch returns, and the flag is cleared.
Leave == /\ thread = "loop" /\ exit
         /\ thread' = "done"
         /\ flag' = ~flag
         /\ UNCHANGED <<failed, main, lock, bev, exit, io, wire>>

-----------------------------------------------------------------------------
(* The server *)

\* Mutation: a QUIT is handled as a log.
HandleAll == /\ peer = "open" /\ out # <<>>
             /\ Head(out) \notin Large
             /\ out' = Tail(out)
             /\ got' = Append(got, Head(out))
             /\ UNCHANGED <<failed, main, thread, shared, peer, written>>

\* server_read_callback, for the next message.  A message that its buffer cannot
\* hold never becomes complete, and neither does any behind it; one of a protocol
\* that it does not know ends the server: abort().
Handle == /\ peer = "open" /\ out # <<>>
          /\ Head(out) \notin Large
          /\ out' = Tail(out)
          /\ \/ /\ Head(out) = QUIT
                /\ peer' = "closed"
                /\ UNCHANGED <<got, failed>>
             \/ /\ Head(out) \in Unknown
                /\ peer' = "closed" /\ failed' = TRUE
                /\ UNCHANGED got
             \/ /\ Head(out) \in Log \ Unknown
                /\ got' = Append(got, Head(out))
                /\ UNCHANGED <<peer, failed>>
          /\ UNCHANGED <<main, thread, shared, written>>

\* No server answers, or it ends, or the connection breaks.
Lost == /\ thread = "loop"
        /\ peer # "closed"
        /\ peer' = "closed"
        /\ failed' = TRUE
        /\ UNCHANGED <<main, thread, shared, out, written, got>>

Main == \/ CreateThread \/ InitFails \/ Started
        \/ (\E log \in Log : Write(log)) \/ Close
        \/ SendQuit \/ Join \/ Free

Loop == Flag \/ Unlock \/ Connected \/ Eof \/ Leave

Next == Main \/ Loop \/ Handle \/ Lost

Spec == Init /\ [][Next]_vars

\* A call of io_open or io_close goes on, and so does the thread; the server's
\* event loop handles a message that is complete in its buffer, which a Large one
\* never is.  Whether the program writes or closes is its affair.
FairSpec == /\ Spec
            /\ WF_vars(CreateThread) /\ WF_vars(Started)
            /\ WF_vars(SendQuit) /\ WF_vars(Join) /\ WF_vars(Free)
            /\ WF_vars(Loop) /\ WF_vars(Handle)

-----------------------------------------------------------------------------
(* Properties *)

\* The shapes of the variables; the server handles logs only, and none that its
\* buffer cannot hold or whose protocol it does not know.
TypeOK == /\ main \in {"opening", "starting", "open", "quitting", "joining",
                       "freeing", "closed", "crashed"}
          /\ thread \in {"none", "new", "flagged", "loop", "done"}
          /\ flag \in BOOLEAN /\ lock \in BOOLEAN /\ exit \in BOOLEAN
          /\ bev \in {"live", "freed", "NULL"}
          /\ io \in {"live", "freed"}
          /\ peer \in {"connecting", "open", "closed"}
          /\ out \in Seq(Log \cup {QUIT})
          /\ written \in Seq(Log)
          /\ got \in Seq(Log \ (Large \cup Unknown))
          /\ failed \in BOOLEAN

\* io_close frees the structure that the thread writes its flag to only when
\* the thread has done so, or was never made: a close right after the open
\* does not find the flag still unset.
IoOutlivesThread == io = "freed" => thread \in {"none", "done"}

\* As long as neither connecting nor the connection fails, what the program's
\* thread is about to write to has not been freed by the other thread, the
\* QUIT of a close included; and when a close returns, the server has handled every
\* log that was written, in order, those still in the buffer at the close included
\* (so that no close returns behind a log that the server cannot take).
BevLive   == main \in {"open", "quitting"} => bev = "live"
AllLogged == ~failed => /\ BevLive
                        /\ main = "closed" => got = written

\* The server's buffer can hold every log that was written.
Fit == \A i \in DOMAIN written : written[i] \notin Large

\* An open comes to its end, however the threads are scheduled, and so does a
\* close if the server's buffer can hold every log that was written, also where it
\* aborts at one of them: neither the spinning for the lock nor the join waits for
\* ever.  Behind a log that it cannot hold the QUIT is not seen, and the join waits
\* until the connection fails.
CallsEnd == /\ <>(main \notin {"opening", "starting"})
            /\ (main = "quitting" /\ Fit) ~> main \in {"closed", "crashed"}

\* Whatever fails, and whenever: what the server handles is what was written,
\* each log once at most, in order, and no QUIT. The writes to a bufferevent
\* that is gone are the last, so they leave no gap.
Channel == INSTANCE MessageChannel WITH sent <- written, received <- got
ImplementsChannel == Channel!Spec
=============================================================================
