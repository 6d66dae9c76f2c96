--------------------------- MODULE Tracer_proofs ---------------------------
(***************************************************************************)
(* Theorems about the library that a program writes its logs with: about   *)
(* TraceThread, for any logs and any number of them, with and without      *)
(* failures, and about LogFrontend, for any trees and any logs.            *)
(***************************************************************************)
EXTENDS TraceThread, LogFrontend, SequenceTheorems, WellFoundedInduction, TLAPS

-----------------------------------------------------------------------------
(* TraceThread *)

Before == {"opening", "starting", "open", "quitting"}

\* Where the two threads can be at the same time, and what flag and lock tell.
Threads == /\ lock <=> thread \in {"new", "flagged"}
           /\ flag <=> thread \in {"flagged", "loop"}
           /\ main = "opening" => thread = "none"
           /\ main \notin {"opening", "starting"} => ~lock
           /\ main \in {"freeing", "closed"} => thread \in {"none", "done"}
           /\ io = "freed" => main = "closed"

\* What is not handled yet is on its way, and the QUIT of a close behind it.
Conserved == \/ /\ main \in Before
                /\ peer # "closed"
                /\ written = got \o out
             \/ /\ main = "joining"
                /\ peer # "closed"
                /\ Append(written, QUIT) = got \o out
             \/ /\ main \in {"joining", "freeing", "closed"}
                /\ peer = "closed"
                /\ written = got

\* If nothing fails the bufferevent goes after the server's end, and the thread
\* after the bufferevent.
Ends == /\ bev \in {"live", "freed"}
        /\ thread = "none" => main = "opening"
        /\ exit \/ bev = "freed" => peer = "closed"
        /\ thread = "done" => exit
        /\ main # "crashed"

IInv == TypeOK /\ Threads /\ (~failed => Conserved /\ Ends)

-----------------------------------------------------------------------------
(* Sequences *)

\* Moving the first of the sequences behind to the end of those in front.
LEMMA MoveHead ==
  ASSUME NEW S, NEW g \in Seq(S), NEW o \in Seq(S), o # <<>>
  PROVE  Append(g, Head(o)) \o Tail(o) = g \o o
  OBVIOUS

LEMMA AppendBehind ==
  ASSUME NEW S, NEW g \in Seq(S), NEW o \in Seq(S), NEW x \in S
  PROVE  g \o Append(o, x) = Append(g \o o, x)
  OBVIOUS

\* A QUIT that is next is the one at the end.
LEMMA QuitIsLast ==
  ASSUME NEW S, NEW q, q \notin S, NEW w \in Seq(S), NEW g \in Seq(S),
         NEW o \in Seq(S \cup {q}), o # <<>>, Head(o) = q,
         Append(w, q) = g \o o
  PROVE  w = g
<1>1. (g \o o)[Len(g) + 1] = q
  OBVIOUS
<1>2. Len(g) + 1 <= Len(w) + 1
  <2>1. Len(Append(w, q)) = Len(g \o o)
    OBVIOUS
  <2> QED BY <2>1
<1>3. ~(Len(g) + 1 <= Len(w))
  <2> SUFFICES ASSUME Len(g) + 1 <= Len(w) PROVE FALSE
    OBVIOUS
  <2>1. Append(w, q)[Len(g) + 1] = w[Len(g) + 1]
    OBVIOUS
  <2>2. w[Len(g) + 1] \in S
    OBVIOUS
  <2> QED BY <1>1, <2>1, <2>2
<1>4. Len(w) = Len(g)
  BY <1>2, <1>3
<1>5. ASSUME NEW i \in 1 .. Len(g) PROVE w[i] = g[i]
  <2>1. Append(w, q)[i] = w[i]
    BY <1>4
  <2>2. (g \o o)[i] = g[i]
    OBVIOUS
  <2> QED BY <2>1, <2>2
<1> QED BY <1>4, <1>5

\* Without one at the end no QUIT is next.
LEMMA NoQuit ==
  ASSUME NEW S, NEW q, q \notin S, NEW w \in Seq(S), NEW g \in Seq(S),
         NEW o \in Seq(S \cup {q}), o # <<>>, w = g \o o
  PROVE  Head(o) \in S
<1>1. Len(g) + 1 \in 1 .. Len(w)
  OBVIOUS
<1>2. (g \o o)[Len(g) + 1] = Head(o)
  OBVIOUS
<1> QED BY <1>1, <1>2

-----------------------------------------------------------------------------
\* What the server has handled is logs, whatever else is said of them.
LEMMA GotLogs == TypeOK => got \in Seq(Log) /\ got \in Seq(Log \cup {QUIT})
BY DEF TypeOK

LEMMA TypeStep == TypeOK /\ [Next]_vars => TypeOK'
<1> SUFFICES ASSUME TypeOK, [Next]_vars PROVE TypeOK'
  OBVIOUS
<1> USE DEF TypeOK, shared, wire
<1>1. CASE Main
  <2>1. CASE \E log \in Log : Write(log)
    <3> PICK log \in Log : Write(log)
      BY <2>1
    <3>1. Append(out, log) \in Seq(Log \cup {QUIT}) /\ Append(written, log) \in Seq(Log)
      OBVIOUS
    <3>2. main' \in {"open", "crashed"} /\ out' \in {out, Append(out, log)}
      BY DEF Write, BufferWrite
    <3>3. thread' = thread /\ peer' = peer /\ got' = got /\ written' = Append(written, log)
      BY DEF Write
    <3>4. /\ failed' \in BOOLEAN /\ flag' \in BOOLEAN /\ lock' \in BOOLEAN /\ exit' \in BOOLEAN
          /\ bev' \in {"live", "freed", "NULL"} /\ io' \in {"live", "freed"}
      BY Zenon DEF Write
    <3>5. main' \in {"opening", "starting", "open", "quitting", "joining",
                     "freeing", "closed", "crashed"}
      BY <3>2
    <3>6. out' \in Seq(Log \cup {QUIT}) /\ written' \in Seq(Log)
      BY <3>1, <3>2, <3>3
    <3>7. /\ thread' \in {"none", "new", "flagged", "loop", "done"}
          /\ peer' \in {"connecting", "open", "closed"} /\ got' \in Seq(Log \ (Large \cup Unknown))
      BY <3>3
    <3> QED BY Zenon, <3>4, <3>5, <3>6, <3>7
  <2>2. CASE SendQuit
    <3>1. Append(out, QUIT) \in Seq(Log \cup {QUIT})
      OBVIOUS
    <3>2. main' \in {"joining", "crashed"} /\ out' \in {out, Append(out, QUIT)}
      BY <2>2 DEF SendQuit, BufferWrite
    <3>3. thread' = thread /\ peer' = peer /\ got' = got /\ written' = written
      BY <2>2 DEF SendQuit
    <3>4. /\ failed' \in BOOLEAN /\ flag' \in BOOLEAN /\ lock' \in BOOLEAN /\ exit' \in BOOLEAN
          /\ bev' \in {"live", "freed", "NULL"} /\ io' \in {"live", "freed"}
      BY Zenon, <2>2 DEF SendQuit
    <3>5. main' \in {"opening", "starting", "open", "quitting", "joining",
                     "freeing", "closed", "crashed"}
      BY <3>2
    <3>6. out' \in Seq(Log \cup {QUIT}) /\ written' \in Seq(Log)
      BY <3>1, <3>2, <3>3
    <3>7. /\ thread' \in {"none", "new", "flagged", "loop", "done"}
          /\ peer' \in {"connecting", "open", "closed"} /\ got' \in Seq(Log \ (Large \cup Unknown))
      BY <3>3
    <3> QED BY Zenon, <3>4, <3>5, <3>6, <3>7
  <2>3. CASE CreateThread \/ InitFails \/ Started \/ Close \/ Join \/ Free
    BY <2>3 DEF CreateThread, InitFails, Started, Close, Join, Free
  <2> QED BY <1>1, <2>1, <2>2, <2>3 DEF Main
<1>2. CASE Loop
  BY <1>2 DEF Loop, Flag, Unlock, Connected, Eof, Leave
<1>3. CASE Handle
  <2>1. Tail(out) \in Seq(Log \cup {QUIT})
    BY <1>3 DEF Handle
  <2>2. Head(out) \in Log \ Unknown => Append(got, Head(out)) \in Seq(Log \ (Large \cup Unknown))
    BY <1>3 DEF Handle
  <2>3. peer' \in {"open", "closed"} /\ got' \in Seq(Log \ (Large \cup Unknown))
    BY <1>3, <2>2 DEF Handle
  <2>4. failed' \in BOOLEAN
    BY Zenon, <1>3 DEF Handle
  <2> QED BY <1>3, <2>1, <2>3, <2>4 DEF Handle
<1>4. CASE Lost
  BY <1>4 DEF Lost
<1>5. CASE UNCHANGED vars
  BY <1>5 DEF vars
<1> QED BY <1>1, <1>2, <1>3, <1>4, <1>5 DEF Next

LEMMA ThreadsStep == TypeOK /\ Threads /\ [Next]_vars => Threads'
<1> SUFFICES ASSUME TypeOK, Threads, [Next]_vars PROVE Threads'
  OBVIOUS
<1> USE DEF TypeOK, Threads, shared, wire
<1>1. CASE Main
  <2>1. CASE \E log \in Log : Write(log)
    <3> PICK log \in Log : Write(log)
      BY <2>1
    <3> QED BY DEF Write, BufferWrite
  <2>2. CASE SendQuit
    BY <2>2 DEF SendQuit, BufferWrite
  <2>3. CASE CreateThread \/ InitFails \/ Started \/ Close \/ Join \/ Free
    BY <2>3 DEF CreateThread, InitFails, Started, Close, Join, Free
  <2> QED BY <1>1, <2>1, <2>2, <2>3 DEF Main
<1>2. CASE Loop
  BY <1>2 DEF Loop, Flag, Unlock, Connected, Eof, Leave
<1>3. CASE Handle
  BY <1>3 DEF Handle
<1>4. CASE Lost
  BY <1>4 DEF Lost
<1>5. CASE UNCHANGED vars
  BY <1>5 DEF vars
<1> QED BY <1>1, <1>2, <1>3, <1>4, <1>5 DEF Next

LEMMA EndsStep ==
  ASSUME TypeOK, Threads, Conserved, Ends, ~failed', [Next]_vars
  PROVE  Ends'
<1> USE DEF TypeOK, Threads, Ends, shared, wire
<1>0. main \in Before => bev = "live"
  BY DEF Conserved, Before
<1>1. CASE Main
  <2>1. CASE \E log \in Log : Write(log)
    <3> PICK log \in Log : Write(log)
      BY <2>1
    <3> QED BY <1>0 DEF Write, BufferWrite, Before
  <2>2. CASE SendQuit
    BY <2>2, <1>0 DEF SendQuit, BufferWrite, Before
  <2>3. CASE CreateThread \/ InitFails \/ Started \/ Close \/ Join \/ Free
    BY <2>3 DEF CreateThread, InitFails, Started, Close, Join, Free
  <2> QED BY <1>1, <2>1, <2>2, <2>3 DEF Main
<1>2. CASE Loop
  BY <1>2 DEF Loop, Flag, Unlock, Connected, Eof, Leave
<1>3. CASE Handle
  BY <1>3 DEF Handle
<1>4. CASE Lost
  BY <1>4 DEF Lost
<1>5. CASE UNCHANGED vars
  BY <1>5 DEF vars
<1> QED BY <1>1, <1>2, <1>3, <1>4, <1>5 DEF Next

LEMMA ConservedStep ==
  ASSUME TypeOK, Threads, Conserved, Ends, ~failed', [Next]_vars
  PROVE  Conserved'
<1>t. /\ out \in Seq(Log \cup {QUIT})
      /\ written \in Seq(Log) /\ written \in Seq(Log \cup {QUIT})
      /\ got \in Seq(Log) /\ got \in Seq(Log \cup {QUIT})
  BY GotLogs DEF TypeOK
<1>b. main \in Before => bev = "live"
  BY DEF Conserved, Before, TypeOK, Ends
<1>1. CASE Main
  <2>1. CASE \E log \in Log : Write(log)
    <3> PICK log \in Log : Write(log)
      BY <2>1
    <3>1. /\ main = "open" /\ main' = "open"
          /\ out' = Append(out, log) /\ written' = Append(written, log)
          /\ got' = got /\ peer' = peer
      BY <1>b DEF Write, BufferWrite, Before
    <3>2. written = got \o out /\ peer # "closed"
      BY <3>1 DEF Conserved
    <3>3. got \o Append(out, log) = Append(got \o out, log)
      BY <1>t, AppendBehind
    <3> QED BY <3>1, <3>2, <3>3 DEF Conserved, Before
  <2>2. CASE SendQuit
    <3>1. /\ main = "quitting" /\ main' = "joining"
          /\ out' = Append(out, QUIT) /\ written' = written
          /\ got' = got /\ peer' = peer
      BY <2>2, <1>b DEF SendQuit, BufferWrite, Before
    <3>2. written = got \o out /\ peer # "closed"
      BY <3>1 DEF Conserved
    <3>3. got \o Append(out, QUIT) = Append(got \o out, QUIT)
      BY <1>t, AppendBehind
    <3> QED BY <3>1, <3>2, <3>3 DEF Conserved, Before
  <2>3. CASE CreateThread \/ Started
    BY <2>3 DEF CreateThread, Started, shared, wire, Conserved, Before
  <2>4. CASE Close
    <3>1. flag
      BY <2>4 DEF Close, Threads, Ends, TypeOK, Conserved, Before
    <3> QED BY <2>4, <3>1 DEF Close, shared, wire, Conserved, Before
  <2>5. CASE Join
    BY <2>5 DEF Join, shared, wire, Conserved, Ends, Before
  <2>6. CASE Free
    BY <2>6 DEF Free, wire, Conserved, Before
  <2>7. CASE InitFails
    BY <2>7 DEF InitFails
  <2> QED BY <1>1, <2>1, <2>2, <2>3, <2>4, <2>5, <2>6, <2>7 DEF Main
<1>2. CASE Loop
  <2>1. peer' \in {peer, "open"} /\ (peer' # peer => peer = "connecting")
    BY <1>2 DEF Loop, Flag, Unlock, Connected, Eof, Leave, shared, wire
  <2>2. UNCHANGED <<main, out, written, got>>
    BY <1>2 DEF Loop, Flag, Unlock, Connected, Eof, Leave, shared, wire
  <2> QED BY <2>1, <2>2 DEF Conserved
<1>3. CASE Handle
  <2>1. CASE Head(out) = QUIT
    <3>1. main = "joining" /\ Append(written, QUIT) = got \o out
      <4>1. written # got \o out
        BY <1>t, <1>3, <2>1, NoQuit, QuitAssumption DEF Handle
      <4> QED BY <1>3, <4>1 DEF Handle, Conserved
    <3>2. written = got
      BY <1>t, <1>3, <2>1, <3>1, QuitIsLast, QuitAssumption DEF Handle
    <3> QED BY <1>3, <2>1, <3>1, <3>2 DEF Handle, Conserved
  <2>2. CASE Head(out) # QUIT
    <3>1. Append(got, Head(out)) \o Tail(out) = got \o out
      BY <1>t, <1>3, MoveHead DEF Handle
    <3>2. got' = Append(got, Head(out)) /\ out' = Tail(out) /\ peer' = peer
      BY <1>3, <2>2 DEF Handle
    <3>3. main' = main /\ written' = written /\ peer = "open"
      BY <1>3 DEF Handle
    <3> QED BY <3>1, <3>2, <3>3 DEF Conserved
  <2> QED BY <2>1, <2>2
<1>4. CASE Lost
  BY <1>4 DEF Lost
<1>5. CASE UNCHANGED vars
  BY <1>5 DEF vars, Conserved
<1> QED BY <1>1, <1>2, <1>3, <1>4, <1>5 DEF Next

\* The invariant that the properties follow from.
THEOREM Invariance == Spec => []IInv
<1>1. Init => IInv
  <2> SUFFICES ASSUME Init PROVE IInv
    OBVIOUS
  <2>1. TypeOK
    <3>1. /\ <<>> \in Seq(Log) /\ <<>> \in Seq(Log \cup {QUIT})
          /\ <<>> \in Seq(Log \ (Large \cup Unknown))
      OBVIOUS
    <3>2. flag \in BOOLEAN /\ lock \in BOOLEAN /\ exit \in BOOLEAN
      BY Zenon DEF Init
    <3> QED BY <3>1, <3>2 DEF Init, TypeOK
  <2>3. Threads
    BY DEF Init, Threads
  <2>4. Ends
    BY DEF Init, Ends
  <2>2. Conserved
    BY DEF Init, Conserved, Before
  <2> QED BY <2>1, <2>2, <2>3, <2>4 DEF IInv
<1>2. IInv /\ [Next]_vars => IInv'
  <2> SUFFICES ASSUME IInv, [Next]_vars PROVE IInv'
    OBVIOUS
  <2>1. TypeOK'
    BY TypeStep DEF IInv
  <2>2. Threads'
    BY ThreadsStep DEF IInv
  <2>3. ASSUME ~failed' PROVE Conserved' /\ Ends'
    <3>1. ~failed
      BY <2>3 DEF Next, Main, Loop, CreateThread, Started, Write, Close, SendQuit,
        Join, Free, Flag, Unlock, Connected, Eof, Leave, Handle, InitFails, Lost, vars
    <3> QED BY <2>3, <3>1, EndsStep, ConservedStep DEF IInv
  <2> QED BY <2>1, <2>2, <2>3 DEF IInv
<1> QED BY <1>1, <1>2, PTL DEF Spec

\* TypeOK holds: in particular the server handles nothing but logs that its buffer
\* can hold and whose protocol it knows, never a QUIT (server_read_callback).
THEOREM TypeCorrect == Spec => []TypeOK
<1>1. IInv => TypeOK
  BY DEF IInv
<1> QED BY <1>1, Invariance, PTL

\* io_close frees the io structure only after the thread is done with it, with
\* and without failures (io_tracer_close, trace_thread_start).
THEOREM IoCorrect == Spec => []IoOutlivesThread
<1>1. IInv => IoOutlivesThread
  BY DEF IInv, Threads, IoOutlivesThread
<1> QED BY <1>1, Invariance, PTL

\* Without failures the program's thread writes to no freed bufferevent, and a
\* close returns only when the server has handled every log written, in order, so
\* never behind a log that it cannot take (io_tracer_write, io_tracer_close and the QUIT of server_read_callback).
THEOREM LoggedCorrect == Spec => []AllLogged
<1>1. IInv => (~failed => BevLive)
  BY DEF IInv, Conserved, Ends, BevLive, Before
<1>2. IInv => (~failed /\ main = "closed" => got = written)
  BY DEF IInv, Conserved, Before
<1>3. IInv => AllLogged
  BY <1>1, <1>2 DEF AllLogged
<1> QED BY <1>3, Invariance, PTL

\* Once something has failed the server handles nothing more: its end is closed, or
\* there never was a loop that connects.
Silent == /\ peer = "open" => thread # "none"
          /\ failed => /\ main # "opening"
                       /\ peer = "closed" \/ (peer = "connecting" /\ thread = "none")

LEMMA SilentStep ==
  ASSUME TypeOK, Threads, Silent, [Next]_vars
  PROVE  Silent'
<1> USE DEF TypeOK, Threads, Silent, shared, wire
<1>1. CASE Main
  <2>1. CASE \E log \in Log : Write(log)
    <3> PICK log \in Log : Write(log)
      BY <2>1
    <3> QED BY DEF Write, BufferWrite
  <2>2. CASE SendQuit
    BY <2>2 DEF SendQuit, BufferWrite
  <2>3. CASE CreateThread \/ InitFails \/ Started \/ Close \/ Join \/ Free
    BY <2>3 DEF CreateThread, InitFails, Started, Close, Join, Free
  <2> QED BY <1>1, <2>1, <2>2, <2>3 DEF Main
<1>2. CASE Loop
  BY <1>2 DEF Loop, Flag, Unlock, Connected, Eof, Leave
<1>3. CASE Handle
  BY <1>3 DEF Handle
<1>4. CASE Lost
  BY <1>4 DEF Lost
<1>5. CASE UNCHANGED vars
  BY <1>5 DEF vars
<1> QED BY <1>1, <1>2, <1>3, <1>4, <1>5 DEF Next

\* A log that is next is the one behind those that are handled, a QUIT or not at
\* the end.
LEMMA NextLog ==
  ASSUME NEW S, NEW q, q \notin S, NEW w \in Seq(S), NEW g \in Seq(S),
         NEW o \in Seq(S \cup {q}), o # <<>>, Head(o) # q,
         w = g \o o \/ Append(w, q) = g \o o
  PROVE  Len(g) < Len(w) /\ w[Len(g) + 1] = Head(o)
<1>1. (g \o o)[Len(g) + 1] = Head(o) /\ Len(g \o o) = Len(g) + Len(o) /\ Len(o) > 0
  OBVIOUS
<1>2. CASE w = g \o o
  <2>1. Len(w) > Len(g)
    BY <1>1, <1>2
  <2> QED BY <1>1, <1>2, <2>1
<1>3. CASE Append(w, q) = g \o o
  <2>1. Len(w) + 1 = Len(g) + Len(o)
    <3>1. Len(Append(w, q)) = Len(w) + 1
      OBVIOUS
    <3> QED BY <1>1, <1>3, <3>1
  <2>2. Append(w, q)[Len(w) + 1] = q /\ \A i \in 1 .. Len(w) : Append(w, q)[i] = w[i]
    OBVIOUS
  <2>3. Len(g) # Len(w)
    BY <1>1, <1>3, <2>2
  <2>4. Len(g) < Len(w)
    BY <1>1, <2>1, <2>3
  <2> QED BY <1>1, <1>3, <2>2, <2>4
<1> QED BY <1>2, <1>3

\* With and without failures, what the server gets of a tracer's logs is what
\* MessageChannel promises (io_tracer_write, io_tracer_close, server_read_callback).
THEOREM TracerDelivers == Spec => ImplementsChannel
<1>1. Init => Silent /\ Channel!Init
  BY DEF Init, Silent, Channel!Init
<1>2. IInv /\ Silent /\ [Next]_vars => Silent'
  BY SilentStep DEF IInv
<1>3. IInv /\ Silent /\ [Next]_vars => [Channel!Next]_(Channel!vars)
  <2> SUFFICES ASSUME IInv, Silent, [Next]_vars
               PROVE  [Channel!Next]_(Channel!vars)
    OBVIOUS
  <2>t. out \in Seq(Log \cup {QUIT}) /\ written \in Seq(Log) /\ got \in Seq(Log)
    BY GotLogs DEF IInv, TypeOK
  <2>1. ASSUME NEW log \in Log, Write(log)
        PROVE  Channel!Send
    <3>1. written' = Append(written, log) /\ got' = got
      BY <2>1 DEF Write
    <3>2. Len(written') = Len(written) + 1 /\ written'[Len(written) + 1] = log
      BY <2>t, <3>1
    <3> QED BY <3>1, <3>2 DEF Channel!Send
  <2>2. CASE Handle /\ Head(out) # QUIT /\ Head(out) \notin Unknown
    <3>1. out # <<>> /\ got' = Append(got, Head(out)) /\ written' = written /\ peer = "open"
      BY <2>2 DEF Handle
    <3>2. written = got \o out \/ Append(written, QUIT) = got \o out
      BY <3>1 DEF IInv, Silent, Conserved
    <3>3. Len(got) < Len(written) /\ written[Len(got) + 1] = Head(out)
      <4>1. QUIT \notin Log /\ out # <<>> /\ Head(out) # QUIT
        BY <2>2, <3>1, QuitAssumption
      <4> QED BY <2>t, <3>2, <4>1, NextLog
    <3> QED BY <3>1, <3>3 DEF Channel!Next, Channel!Receive
  <2>3. CASE Handle /\ (Head(out) = QUIT \/ Head(out) \in Unknown)
    <3>1. got' = got /\ written' = written
      BY <2>3, QuitAssumption DEF Handle
    <3> QED BY <3>1 DEF Channel!vars
  <2>4. CASE CreateThread \/ InitFails \/ Started \/ Close \/ SendQuit \/ Join \/ Free
    BY <2>4 DEF CreateThread, InitFails, Started, Close, SendQuit, Join, Free, wire, Channel!vars
  <2>5. CASE Loop \/ Lost
    BY <2>5 DEF Loop, Flag, Unlock, Connected, Eof, Leave, Lost, wire, Channel!vars
  <2>6. CASE UNCHANGED vars
    BY <2>6 DEF vars, Channel!vars
  <2> QED BY <2>1, <2>2, <2>3, <2>4, <2>5, <2>6 DEF Next, Main, Channel!Next
<1> QED BY <1>1, <1>2, <1>3, Invariance, PTL DEF Spec, ImplementsChannel, Channel!Spec

-----------------------------------------------------------------------------
(* LogFrontend: the tree *)

\* n is a child of p.
KidOf(t, n, p) == \E i \in DOMAIN t.kids[p] : t.kids[p][i] = n

\* A set of nodes that has with a node its parent.
Upward(t, S) == \A n \in S : \A p \in DOMAIN t.kind : KidOf(t, n, p) => p \in S

\* The nodes from the root to m.
Path(t, m) == {n \in DOMAIN t.kind :
                 \A S \in SUBSET DOMAIN t.kind : m \in S /\ Upward(t, S) => n \in S}

-----------------------------------------------------------------------------
(* What may be on the stack *)

Fns   == {"init", "remember", "opened", "put", "key", "switch", "flush", "formatted",
          "sent", "hand_on", "close", "free"}
Keys  == {"leaf", "none"} \cup Inner
Whats == Texts \cup {"none", "delim"}

Frames(t) == [fn : Fns, node : DOMAIN t.kind, i : Nat, by : Keys, what : Whats, set : BOOLEAN]

FrontTypeOK ==
    /\ tree \in Trees
    /\ status \in {"opening", "open", "closed", "aborted"}
    /\ calls \in Seq(Frames(tree))
    /\ \A k \in DOMAIN calls : calls[k].fn = "remember" => calls[k].i \in DOMAIN Kids(calls[k].node)
    /\ conn \in Nodes \cup {0}
    /\ key \in Keys
    /\ saved \in [Nodes -> Seq(Keys)]
    /\ \A n \in Nodes : Len(saved[n]) = Len(Kids(n))
    /\ fmt \in Seq(Texts) /\ trace \in Whats /\ seq \in Nat /\ flushed \in BOOLEAN
    /\ buf \in [Nodes -> Seq(Whats)] /\ sink \in [Nodes -> Seq(Seq(Whats))]
    /\ closed \in [Nodes -> Nat]
    /\ bad \in BOOLEAN
    /\ given \in Seq(Logs)

\* The calls that are made when a log is opened, when it writes, when it is closed.
OpenFns   == {"init", "remember", "opened"}
RecordFns == {"put", "key", "switch", "flush", "formatted", "sent", "hand_on"}
CloseFns  == {"close", "free"}

AllIn(cs, fns) == \A k \in DOMAIN cs : cs[k].fn \in fns

Phases ==
    /\ status = "opening" => calls # <<>> /\ given = <<>> /\ AllIn(calls, OpenFns)
    /\ status = "open"    => AllIn(calls, RecordFns) /\ (given = <<>> => calls = <<>>)
    /\ status = "closed"  => AllIn(calls, CloseFns)
    /\ status = "aborted" => calls = <<>>
    /\ bad => calls = <<>> /\ status = "open"

\* Some frame of cs is in P, exactly one, or none.
SomeIn(cs, P) == \E k \in DOMAIN cs : cs[k] \in P
OnceIn(cs, P) == \E k \in DOMAIN cs : cs[k] \in P /\ \A l \in DOMAIN cs : cs[l] \in P => l = k
NoneIn(cs, P) == \A k \in DOMAIN cs : cs[k] \notin P

-----------------------------------------------------------------------------
(* Opening *)

\* The nodes that are being opened: the one that is next, then its parent, and so
\* on to the root.
Chain ==
    /\ \A k \in DOMAIN calls :
         /\ (calls[k].fn = "opened") <=> (k = Len(calls))
         /\ calls[k].fn = "init" => k = 1
         /\ k < Len(calls) =>
              IF calls[k + 1].fn = "opened" THEN calls[k].node = Root
              ELSE Kids(calls[k + 1].node)[calls[k + 1].i] = calls[k].node
    /\ \A k, l \in DOMAIN calls :
         k < l /\ calls[l].fn = "remember" =>
           Kids(calls[l].node)[calls[l].i] \in Path(tree, calls[k].node)
    /\ calls[1].fn = "opened" => key = KeyOf(Root)
    /\ calls[1].fn = "init" /\ calls[1].node = Root => key = "leaf"

\* c will remember fn_key for the i-th child of n.
Remembers(t, c, n, i) ==
    \/ c.fn = "init" /\ c.node \in Path(t, n)
    \/ c.fn = "remember" /\ c.node = n /\ c.i <= i
    \/ /\ c.fn = "remember"
       /\ \E j \in DOMAIN t.kids[c.node] : j > c.i /\ t.kids[c.node][j] \in Path(t, n)

RememberSet(t, n, i) == {c \in Frames(t) : Remembers(t, c, n, i)}

Pending(t, cs, n, i) == SomeIn(cs, RememberSet(t, n, i))

Right(n, i) == saved[n][i] = KeyOf(Kids(n)[i])

\* In a sound tree fn_key is that of the leaves until the first inner node is open.
OpenSound ==
    Sound(tree) =>
      /\ \/ key = "leaf"
         \/ \A k \in DOMAIN calls :
              /\ calls[k].fn # "init"
              /\ calls[k].fn = "remember" => calls[k].i = Len(Kids(calls[k].node))
      /\ calls[1].fn = "remember" => key = KeyOf(Kids(calls[1].node)[calls[1].i])
      /\ \A n \in Nodes : \A i \in DOMAIN Kids(n) : Right(n, i) \/ Pending(tree, calls, n, i)

\* The i-th child of n is an inner node and not the last.
Early(n, i) == i < Len(Kids(n)) /\ ~Leaf(Kids(n)[i])

\* Such a node's fn_key gets to the first leaf behind it.
Stain(n, i) ==
    \/ Pending(tree, calls, Kids(n)[i], Len(Kids(Kids(n)[i])))
    \/ calls[1].fn = "remember" /\ calls[1].node = n /\ calls[1].i = i /\ key # "leaf"
    \/ calls[1].fn = "init" /\ calls[1].node # Root /\ key # "leaf"
    \/ calls[1].fn = "remember" /\ Leaf(Kids(calls[1].node)[calls[1].i]) /\ key # "leaf"
    \/ \E m \in Nodes : \E j \in DOMAIN Kids(m) : ~Right(m, j) /\ ~Pending(tree, calls, m, j)

OpenUnsound == \A n \in Nodes : \A i \in DOMAIN Kids(n) : Early(n, i) => Stain(n, i)

Untouched == seq = 0 /\ fmt = <<>> /\ \A m \in Nodes : buf[m] = <<>> /\ sink[m] = <<>>

Opened ==
    /\ key = KeyOf(Root)
    /\ Sound(tree) => \A n \in Nodes : \A i \in DOMAIN Kids(n) : Right(n, i)
    /\ \A n \in Nodes : \A i \in DOMAIN Kids(n) :
         Early(n, i) => \E m \in Nodes : \E j \in DOMAIN Kids(m) : ~Right(m, j)

-----------------------------------------------------------------------------
(* Connections *)

Typed == {"put", "key", "flush", "close"}
Wrong(c) == c.fn = "key" /\ c.by # KeyOf(c.node)

\* A call that finds connection as it is finds that of its node.
Leading == {"put", "key", "switch"}

LedIn(cs, c) == \A k \in DOMAIN cs :
                  cs[k].fn \in Typed /\ ~cs[k].set =>
                    IF k = 1 THEN c = cs[1].node
                    ELSE cs[k - 1].node = cs[k].node /\ cs[k - 1].fn \in Leading

Led == LedIn(calls, conn)

\* After a log connection is that of the root.
Home ==
    /\ conn \in Nodes
    /\ calls = <<>> /\ ~bad => conn = Root
    /\ calls # <<>> => \/ Leaf(Root)
                       \/ calls[Len(calls)] = Call("switch", Root)
                       \/ calls = <<Call("flush", Root)>>

Connections == calls = <<>> \/ Wrong(calls[1]) \/ Led

-----------------------------------------------------------------------------
(* Recording *)

TypedRight == Sound(tree) => ~bad /\ \A k \in DOMAIN calls : ~Wrong(calls[k])

\* Only the root formats the log, and what is formatted goes before what is
\* handed on.
Final  == {"formatted", "sent"}
Behind == {"flush", "hand_on"} \cup Final

FlushedOnce ==
    \A k \in DOMAIN calls : calls[k].fn = "flush" =>
      IF calls[k].node = Root THEN calls = <<Call("flush", Root)>> /\ ~flushed
      ELSE flushed \/ \E l \in DOMAIN calls : l < k /\ calls[l].fn = "formatted"

OrderIn(cs) ==
    \A k, l \in DOMAIN cs : k < l /\ cs[k].fn \in Behind => cs[l].fn \notin Final \cup {"put", "key"}

Order == OrderIn(calls)

\* What makes a tree unsound is met before the log is handed on.
Doomed ==
    /\ \A m \in Nodes : tree.kind[m] \in Stores /\ m # Root =>
         \/ \E k \in DOMAIN calls : Wrong(calls[k])
         \/ \E k \in DOMAIN calls : calls[k].fn = "flush" /\ calls[k].node \in Path(tree, m)
    /\ \A n \in Nodes : \A i \in DOMAIN Kids(n) : ~Right(n, i) =>
         \/ \E k \in DOMAIN calls : Wrong(calls[k])
         \/ calls = <<Call("flush", Root)>>
         \/ \E k \in DOMAIN calls : calls[k].fn = "key" /\ calls[k].node \in Path(tree, n)

Lines(m, N) == [i \in 1..N |-> Line(tree.kind[m], given[i])]

\* The calls that write for the leaf m, that hand on for it, that free the node m.
WriteSet(t, m) == {c \in Frames(t) : c.fn \in {"put", "key"} /\ c.node \in Path(t, m)}
HandSet(t, m)  == {c \in Frames(t) : \/ c.fn = "hand_on" /\ c.node = m
                                     \/ c.fn = "flush" /\ c.node \in Path(t, m)}
FreeSet(t, m)  == {c \in Frames(t) : \/ c.fn = "free" /\ c.node = m
                                     \/ c.fn = "close" /\ c.node \in Path(t, m)}

\* The calls of cs in P are those that write line from behind its n-th text on.
Feeds(cs, P, line, n) ==
    \E f \in [(n + 1)..Len(line) -> DOMAIN cs] :
      /\ \A i, j \in DOMAIN f : i < j => f[i] < f[j]
      /\ \A i \in DOMAIN f : cs[f[i]] \in P /\ cs[f[i]].what = line[i]
      /\ \A k \in DOMAIN cs : cs[k] \in P => \E i \in DOMAIN f : f[i] = k

\* The buffer of m has the front of a line, the calls bring the rest of it.
Fed(m, line) ==
    /\ Len(buf[m]) <= Len(line)
    /\ \A i \in 1..Len(buf[m]) : buf[m][i] = line[i]
    /\ Feeds(calls, WriteSet(tree, m), line, Len(buf[m]))

OnItsWay(m) ==
    \/ /\ sink[m] = Lines(m, Len(given) - 1)
       /\ OnceIn(calls, HandSet(tree, m))
       /\ Fed(m, Line(tree.kind[m], given[Len(given)]))
    \/ /\ sink[m] = Lines(m, Len(given))
       /\ buf[m] = <<>>
       /\ NoneIn(calls, HandSet(tree, m))
       /\ NoneIn(calls, WriteSet(tree, m))

\* A log that is not formatted yet, and one that is being.
Start == /\ calls = <<Call("flush", Root)>>
         /\ given # <<>>
         /\ seq = Len(given) - 1
         /\ fmt = given[Len(given)].fields /\ trace = given[Len(given)].trace
         /\ \A m \in Leaves : buf[m] = <<>> /\ sink[m] = Lines(m, Len(given) - 1)

Under == /\ calls # <<Call("flush", Root)>>
         /\ IF \E k \in DOMAIN calls : calls[k].fn \in Final THEN seq = Len(given) - 1
            ELSE seq = Len(given) /\ fmt = <<>>
         /\ \A m \in Leaves : OnItsWay(m)

Delivery == Sound(tree) \/ given = <<>> => Start \/ Under

\* Nothing is under way.
Rested == /\ given # <<>> => Sound(tree)
          /\ seq = Len(given) /\ fmt = <<>>
          /\ \A m \in Leaves : buf[m] = <<>> /\ sink[m] = Lines(m, Len(given))

-----------------------------------------------------------------------------
(* Closing *)

Closing ==
    \A m \in Nodes : \/ closed[m] = 0 /\ OnceIn(calls, FreeSet(tree, m))
                     \/ closed[m] = 1 /\ NoneIn(calls, FreeSet(tree, m))

-----------------------------------------------------------------------------

OpeningInv   == Chain /\ OpenSound /\ OpenUnsound /\ Untouched
RecordingInv == /\ Connections /\ Home /\ TypedRight
                /\ FlushedOnce /\ Order
                /\ given # <<>> /\ ~bad => Doomed
                /\ Delivery

FrontInv ==
    /\ FrontTypeOK /\ Phases
    /\ status = "opening" => OpeningInv
    /\ status # "opening" => Opened
    /\ status = "open" => RecordingInv
    /\ status \in {"closed", "aborted"} => Rested
    /\ IF status = "closed" THEN Led /\ Closing ELSE \A m \in Nodes : closed[m] = 0

-----------------------------------------------------------------------------
(* Trees *)

LEMMA TreeFacts ==
  ASSUME NEW t \in Trees
  PROVE  /\ DOMAIN t.kind \subseteq Nat \ {0} /\ Root \in DOMAIN t.kind
         /\ DOMAIN t.kids = DOMAIN t.kind
         /\ \A n \in DOMAIN t.kind :
              /\ t.kids[n] \in Seq(DOMAIN t.kind)
              /\ t.kind[n] \in Inner \cup Stores \cup {"string"}
              /\ (t.kids[n] # <<>>) <=> (t.kind[n] \in Inner)
              /\ \A i \in DOMAIN t.kids[n] : t.kids[n][i] \in DOMAIN t.kind /\ t.kids[n][i] > n
         /\ \A m \in DOMAIN t.kind \ {Root} : \E n \in DOMAIN t.kind : KidOf(t, m, n)
         /\ \A n, o \in DOMAIN t.kind : \A i \in DOMAIN t.kids[n], j \in DOMAIN t.kids[o] :
              t.kids[n][i] = t.kids[o][j] => n = o /\ i = j
<1>1. /\ t.kids \in [DOMAIN t.kind -> Seq(DOMAIN t.kind)]
      /\ \A n, o \in DOMAIN t.kind : \A i \in DOMAIN t.kids[n], j \in DOMAIN t.kids[o] :
           /\ t.kids[n][i] > n
           /\ t.kids[n][i] = t.kids[o][j] => n = o /\ i = j
  BY TreesAssumption
<1>2. \A n \in DOMAIN t.kind : t.kids[n] \in Seq(DOMAIN t.kind)
  BY <1>1
<1>3. \A n \in DOMAIN t.kind : \A i \in DOMAIN t.kids[n] :
        t.kids[n][i] \in DOMAIN t.kind /\ t.kids[n][i] > n
  BY <1>1, <1>2
<1>4. /\ DOMAIN t.kind \subseteq Nat \ {0} /\ Root \in DOMAIN t.kind
      /\ \A n \in DOMAIN t.kind : /\ t.kind[n] \in Inner \cup Stores \cup {"string"}
                                  /\ (t.kids[n] # <<>>) <=> (t.kind[n] \in Inner)
      /\ \A m \in DOMAIN t.kind \ {Root} : \E n \in DOMAIN t.kind : KidOf(t, m, n)
  BY TreesAssumption DEF KidOf
<1> QED BY <1>1, <1>2, <1>3, <1>4

LEMMA LeastNode ==
  ASSUME NEW S, S \subseteq Nat, S # {}
  PROVE  \E m \in S : \A n \in S : m <= n
<1>1. PICK m \in S : \A n \in S : <<n, m>> \notin OpToRel(<, Nat)
  BY NatLessThanWellFounded, WFMin, Zenon
<1>2. \A n \in S : ~(n < m)
  BY <1>1 DEF OpToRel
<1> QED BY <1>2

LEMMA PathType ==
  ASSUME NEW t \in Trees, NEW m \in DOMAIN t.kind
  PROVE  /\ Path(t, m) \subseteq DOMAIN t.kind
         /\ m \in Path(t, m)
         /\ Upward(t, Path(t, m))
<1>1. Path(t, m) \subseteq DOMAIN t.kind /\ m \in Path(t, m)
  BY DEF Path
<1>2. ASSUME NEW n \in Path(t, m), NEW p \in DOMAIN t.kind, KidOf(t, n, p)
      PROVE  p \in Path(t, m)
  <2> SUFFICES ASSUME NEW S \in SUBSET DOMAIN t.kind, m \in S, Upward(t, S)
               PROVE  p \in S
    BY DEF Path
  <2>1. n \in S
    BY DEF Path
  <2> QED BY <2>1, <1>2 DEF Upward
<1> QED BY <1>1, <1>2 DEF Upward

LEMMA PathLeast ==
  ASSUME NEW t \in Trees, NEW m \in DOMAIN t.kind,
         NEW S \in SUBSET DOMAIN t.kind, m \in S, Upward(t, S)
  PROVE  Path(t, m) \subseteq S
  BY DEF Path

\* The nodes on a path are numbered up to its end.
LEMMA PathUpTo ==
  ASSUME NEW t \in Trees, NEW m \in DOMAIN t.kind, NEW n \in Path(t, m)
  PROVE  n <= m
<1> DEFINE S == {o \in DOMAIN t.kind : o <= m}
<1>1. m \in S /\ S \in SUBSET DOMAIN t.kind
  BY TreeFacts
<1>2. Upward(t, S)
  <2> SUFFICES ASSUME NEW o \in S, NEW p \in DOMAIN t.kind, KidOf(t, o, p)
               PROVE  p \in S
    BY DEF Upward
  <2>1. o > p
    BY TreeFacts DEF KidOf
  <2> QED BY <2>1, TreeFacts
<1> HIDE DEF S
<1>3. Path(t, m) \subseteq S
  BY <1>1, <1>2, PathLeast
<1> QED BY <1>3 DEF S

LEMMA PathRoot ==
  ASSUME NEW t \in Trees, NEW m \in DOMAIN t.kind
  PROVE  Root \in Path(t, m)
<1>1. PICK o \in Path(t, m) : \A n \in Path(t, m) : o <= n
  BY PathType, TreeFacts, LeastNode
<1>2. CASE o # Root
  <2>1. PICK p \in DOMAIN t.kind : KidOf(t, o, p)
    BY <1>2, PathType, TreeFacts
  <2>2. p \in Path(t, m) /\ p < o
    BY <2>1, PathType, TreeFacts DEF Upward, KidOf
  <2> QED BY <1>1, <2>2, PathType, TreeFacts
<1> QED BY <1>1, <1>2

\* A path is its last node and the path to the parent of that.
LEMMA PathParent ==
  ASSUME NEW t \in Trees, NEW m \in DOMAIN t.kind, NEW p \in DOMAIN t.kind, KidOf(t, m, p)
  PROVE  Path(t, m) = Path(t, p) \cup {m}
<1> DEFINE S == Path(t, p) \cup {m}
<1>1. S \in SUBSET DOMAIN t.kind /\ m \in S
  BY PathType
<1>2. Upward(t, S)
  <2> SUFFICES ASSUME NEW o \in S, NEW q \in DOMAIN t.kind, KidOf(t, o, q)
               PROVE  q \in S
    BY DEF Upward
  <2>1. CASE o = m
    <3>1. q = p
      BY <2>1, TreeFacts DEF KidOf
    <3> QED BY <3>1, PathType
  <2>2. CASE o \in Path(t, p)
    BY <2>2, PathType DEF Upward
  <2> QED BY <2>1, <2>2
<1> HIDE DEF S
<1>3. Path(t, m) \subseteq S
  BY <1>1, <1>2, PathLeast
<1>4. Path(t, p) \subseteq Path(t, m)
  <2>1. p \in Path(t, m) /\ Upward(t, Path(t, m)) /\ Path(t, m) \in SUBSET DOMAIN t.kind
    BY PathType DEF Upward
  <2> QED BY <2>1, PathLeast
<1> QED BY <1>3, <1>4, PathType DEF S

LEMMA PathOfRoot ==
  ASSUME NEW t \in Trees
  PROVE  Path(t, Root) = {Root}
<1>1. Upward(t, {Root})
  <2> SUFFICES ASSUME NEW p \in DOMAIN t.kind, KidOf(t, Root, p) PROVE FALSE
    BY DEF Upward
  <2>1. Root > p
    BY TreeFacts DEF KidOf
  <2> QED BY <2>1, TreeFacts DEF Root
<1> QED BY <1>1, PathLeast, PathType, TreeFacts

\* An inner node on a path that is not its end has one child there; one that is
\* not on it, or is its end, has none.
LEMMA PathKid ==
  ASSUME NEW t \in Trees, NEW m \in DOMAIN t.kind, NEW n \in DOMAIN t.kind,
         NEW i \in DOMAIN t.kids[n], t.kids[n][i] \in Path(t, m)
  PROVE  n \in Path(t, m) /\ n # m
<1>1. n \in Path(t, m)
  BY PathType, TreeFacts DEF Upward, KidOf
<1>2. t.kids[n][i] > n /\ t.kids[n][i] <= m
  BY TreeFacts, PathUpTo
<1> QED BY <1>1, <1>2, TreeFacts

LEMMA PathOne ==
  ASSUME NEW t \in Trees, NEW m \in DOMAIN t.kind
  PROVE  \A n \in Path(t, m) : \A i, j \in DOMAIN t.kids[n] :
           t.kids[n][i] \in Path(t, m) /\ t.kids[n][j] \in Path(t, m) => i = j
<1> DEFINE Good(o) == \A n \in Path(t, o) : \A i, j \in DOMAIN t.kids[n] :
                        t.kids[n][i] \in Path(t, o) /\ t.kids[n][j] \in Path(t, o) => i = j
           S == {o \in DOMAIN t.kind : ~Good(o)}
<1>1. SUFFICES ASSUME S # {} PROVE FALSE
  OBVIOUS
<1>2. PICK o \in S : \A q \in S : o <= q
  BY <1>1, TreeFacts, LeastNode
<1>3. o # Root
  <2>1. SUFFICES ASSUME o = Root PROVE Good(Root)
    OBVIOUS
  <2>2. ASSUME NEW n \in Path(t, Root), NEW i \in DOMAIN t.kids[n], NEW j \in DOMAIN t.kids[n],
               t.kids[n][i] \in Path(t, Root)
        PROVE FALSE
    BY <2>2, PathKid, PathOfRoot, PathType, TreeFacts
  <2> QED BY <2>2
<1>4. PICK p \in DOMAIN t.kind : KidOf(t, o, p)
  BY <1>3, TreeFacts
<1>5. p < o
  BY <1>4, TreeFacts DEF KidOf
<1>6. Good(p)
  <2>1. o \in Nat /\ p \in Nat /\ ~(o <= p)
    BY <1>5, TreeFacts
  <2>2. p \notin S
    BY <1>2, <2>1, Zenon
  <2> QED BY <2>2
<1>7. Path(t, o) = Path(t, p) \cup {o}
  BY <1>4, PathParent
<1>8. ASSUME NEW n \in Path(t, o), NEW i \in DOMAIN t.kids[n], NEW j \in DOMAIN t.kids[n],
             t.kids[n][i] \in Path(t, o), t.kids[n][j] \in Path(t, o)
      PROVE  i = j
  <2>1. n \in DOMAIN t.kind /\ n # o
    BY <1>8, PathType, PathKid
  <2>2. n \in Path(t, p)
    BY <2>1, <1>7
  <2>3. ASSUME NEW x \in DOMAIN t.kids[n], NEW y \in DOMAIN t.kids[n],
               t.kids[n][x] = o, t.kids[n][y] \in Path(t, p)
        PROVE FALSE
    <3>1. n = p
      BY <1>4, <2>1, <2>3, TreeFacts DEF KidOf
    <3> QED BY <2>3, <3>1, PathKid
  <2>4. CASE t.kids[n][i] = o
    BY <1>7, <1>8, <2>1, <2>3, <2>4, TreeFacts
  <2>5. CASE t.kids[n][j] = o
    BY <1>7, <1>8, <2>1, <2>3, <2>5, TreeFacts
  <2>6. CASE t.kids[n][i] # o /\ t.kids[n][j] # o
    BY <1>6, <1>7, <1>8, <2>2, <2>6
  <2> QED BY <2>4, <2>5, <2>6
<1> QED BY <1>2, <1>8

LEMMA PathDown ==
  ASSUME NEW t \in Trees, NEW m \in DOMAIN t.kind, NEW n \in Path(t, m), n # m
  PROVE  \E i \in DOMAIN t.kids[n] : t.kids[n][i] \in Path(t, m)
<1> DEFINE S == Path(t, m) \ {n}
<1>1. SUFFICES ASSUME \A i \in DOMAIN t.kids[n] : t.kids[n][i] \notin Path(t, m) PROVE FALSE
  OBVIOUS
<1>2. m \in S /\ S \in SUBSET DOMAIN t.kind
  BY PathType
<1>3. Upward(t, S)
  BY <1>1, PathType DEF Upward, KidOf
<1> QED BY <1>2, <1>3, PathLeast

\* A root that is a leaf is the only node.
LEMMA LoneRoot ==
  ASSUME NEW t \in Trees, t.kind[Root] \notin Inner
  PROVE  DOMAIN t.kind = {Root}
<1>1. ASSUME NEW m \in DOMAIN t.kind, m # Root PROVE FALSE
  <2>1. PICK i \in DOMAIN t.kids[Root] : TRUE
    BY <1>1, PathRoot, PathDown
  <2>2. t.kids[Root] = <<>>
    BY TreeFacts
  <2> QED BY <2>1, <2>2
<1> QED BY <1>1, TreeFacts

-----------------------------------------------------------------------------
(* Stacks *)

\* The first frame of cs is replaced by the frames of more.
Replaced(cs, more, new) == new = more \o Tail(cs)

LEMMA Pushed ==
  ASSUME NEW F, NEW cs \in Seq(F), cs # <<>>, NEW more \in Seq(F),
         NEW new, Replaced(cs, more, new)
  PROVE  /\ new \in Seq(F) /\ Len(new) = Len(more) + Len(cs) - 1
         /\ Len(more) \in Nat /\ Len(cs) \in Nat /\ Len(cs) > 0
         /\ DOMAIN new = 1..Len(new) /\ DOMAIN cs = 1..Len(cs) /\ DOMAIN more = 1..Len(more)
         /\ Head(cs) = cs[1] /\ cs[1] \in F
         /\ \A k \in DOMAIN more : k \in DOMAIN new /\ new[k] = more[k]
         /\ \A k \in DOMAIN new : k > Len(more) => /\ k - Len(more) + 1 \in DOMAIN cs
                                                   /\ new[k] = cs[k - Len(more) + 1]
         /\ \A k \in DOMAIN cs : k > 1 => /\ k - 1 + Len(more) \in DOMAIN new
                                          /\ new[k - 1 + Len(more)] = cs[k]
  BY DEF Replaced

\* ... by two.
LEMMA PushedTwo ==
  ASSUME NEW F, NEW cs \in Seq(F), cs # <<>>, NEW more \in Seq(F),
         NEW new, Replaced(cs, more, new)
  PROVE  Len(more) = 2 =>
         /\ new \in Seq(F) /\ Len(new) = Len(cs) + 1
         /\ Len(cs) \in Nat /\ Len(cs) > 0
         /\ DOMAIN new = 1..Len(new) /\ DOMAIN cs = 1..Len(cs)
         /\ new[1] = more[1] /\ new[2] = more[2]
         /\ \A k \in DOMAIN new : k > 2 => k - 1 \in DOMAIN cs /\ new[k] = cs[k - 1]
<1>1. /\ new \in Seq(F) /\ Len(new) = Len(more) + Len(cs) - 1
      /\ Len(cs) \in Nat /\ Len(cs) > 0
      /\ DOMAIN new = 1..Len(new) /\ DOMAIN cs = 1..Len(cs) /\ DOMAIN more = 1..Len(more)
      /\ \A k \in DOMAIN more : k \in DOMAIN new /\ new[k] = more[k]
      /\ \A k \in DOMAIN new : k > Len(more) => /\ k - Len(more) + 1 \in DOMAIN cs
                                                /\ new[k] = cs[k - Len(more) + 1]
  BY Pushed
<1> SUFFICES ASSUME Len(more) = 2
             PROVE  /\ new \in Seq(F) /\ Len(new) = Len(cs) + 1
                    /\ Len(cs) \in Nat /\ Len(cs) > 0
                    /\ DOMAIN new = 1..Len(new) /\ DOMAIN cs = 1..Len(cs)
                    /\ new[1] = more[1] /\ new[2] = more[2]
                    /\ \A k \in DOMAIN new : k > 2 => k - 1 \in DOMAIN cs /\ new[k] = cs[k - 1]
  OBVIOUS
<1>2. 1 \in DOMAIN more /\ 2 \in DOMAIN more
  BY <1>1
<1>3. ASSUME NEW k \in DOMAIN new, k > 2 PROVE k - 1 \in DOMAIN cs /\ new[k] = cs[k - 1]
  <2>1. k - 2 + 1 \in DOMAIN cs /\ new[k] = cs[k - 2 + 1]
    BY <1>1, <1>3
  <2>2. k - 2 + 1 = k - 1
    BY <1>1
  <2> QED BY <2>1, <2>2
<1>4. Len(new) = Len(cs) + 1
  BY <1>1
<1> QED BY <1>1, <1>2, <1>3, <1>4

LEMMA PushSome ==
  ASSUME NEW F, NEW cs \in Seq(F), cs # <<>>, NEW more \in Seq(F),
         NEW new, Replaced(cs, more, new), NEW P
  PROVE  /\ SomeIn(new, P) <=> SomeIn(more, P) \/ \E k \in DOMAIN cs : k > 1 /\ cs[k] \in P
         /\ SomeIn(cs, P) <=> cs[1] \in P \/ \E k \in DOMAIN cs : k > 1 /\ cs[k] \in P
<1>1. ASSUME NEW k \in DOMAIN new, new[k] \in P
      PROVE  SomeIn(more, P) \/ \E l \in DOMAIN cs : l > 1 /\ cs[l] \in P
  <2>1. CASE k \in DOMAIN more
    BY <1>1, <2>1, Pushed DEF SomeIn
  <2>2. CASE k \notin DOMAIN more
    <3>1. k > Len(more) /\ k \in Nat /\ Len(more) \in Nat
      BY <2>2, Pushed
    <3>2. k - Len(more) + 1 \in DOMAIN cs /\ new[k] = cs[k - Len(more) + 1]
      BY <3>1, Pushed
    <3>3. k - Len(more) + 1 > 1
      BY <3>1
    <3> QED BY <1>1, <3>2, <3>3
  <2> QED BY <2>1, <2>2
<1>2. ASSUME NEW k \in DOMAIN more, more[k] \in P PROVE SomeIn(new, P)
  BY <1>2, Pushed DEF SomeIn
<1>3. ASSUME NEW k \in DOMAIN cs, k > 1, cs[k] \in P PROVE SomeIn(new, P)
  <2>1. k - 1 + Len(more) \in DOMAIN new /\ new[k - 1 + Len(more)] = cs[k]
    BY <1>3, Pushed
  <2> QED BY <1>3, <2>1 DEF SomeIn
<1>4. 1 \in DOMAIN cs /\ \A k \in DOMAIN cs : k = 1 \/ k > 1
  <2>1. DOMAIN cs = 1..Len(cs) /\ Len(cs) \in Nat /\ Len(cs) > 0
    BY Pushed
  <2> QED BY <2>1
<1>5. SomeIn(new, P) <=> SomeIn(more, P) \/ \E k \in DOMAIN cs : k > 1 /\ cs[k] \in P
  BY <1>1, <1>2, <1>3, Zenon DEF SomeIn
<1>6. SomeIn(cs, P) <=> cs[1] \in P \/ \E k \in DOMAIN cs : k > 1 /\ cs[k] \in P
  BY <1>4 DEF SomeIn
<1> QED BY <1>5, <1>6

LEMMA PushNone ==
  ASSUME NEW F, NEW cs \in Seq(F), cs # <<>>, NEW more \in Seq(F),
         NEW new, Replaced(cs, more, new), NEW P,
         NoneIn(cs, P) \/ (OnceIn(cs, P) /\ cs[1] \in P), NoneIn(more, P)
  PROVE  NoneIn(new, P)
<1> SUFFICES ASSUME NEW k \in DOMAIN new, new[k] \in P PROVE FALSE
  BY DEF NoneIn
<1>1. k > Len(more)
  BY Pushed DEF NoneIn
<1>2. k - Len(more) + 1 \in DOMAIN cs /\ new[k] = cs[k - Len(more) + 1] /\ 1 \in DOMAIN cs
  BY <1>1, Pushed
<1>3. k - Len(more) + 1 # 1
  BY <1>1, Pushed
<1> QED BY <1>2, <1>3 DEF NoneIn, OnceIn

LEMMA PushOnce ==
  ASSUME NEW F, NEW cs \in Seq(F), cs # <<>>, NEW more \in Seq(F),
         NEW new, Replaced(cs, more, new), NEW P,
         OnceIn(cs, P), cs[1] \in P => OnceIn(more, P), cs[1] \notin P => NoneIn(more, P)
  PROVE  OnceIn(new, P)
<1>1. PICK k \in DOMAIN cs : cs[k] \in P /\ \A l \in DOMAIN cs : cs[l] \in P => l = k
  BY DEF OnceIn
<1>2. CASE k = 1
  <2>1. PICK p \in DOMAIN more : more[p] \in P /\ \A l \in DOMAIN more : more[l] \in P => l = p
    BY <1>1, <1>2 DEF OnceIn
  <2>2. p \in DOMAIN new /\ new[p] \in P
    BY <2>1, Pushed
  <2>3. ASSUME NEW l \in DOMAIN new, new[l] \in P PROVE l = p
    <3>1. l <= Len(more)
      BY <1>1, <1>2, <2>3, Pushed
    <3>2. l \in DOMAIN more /\ new[l] = more[l]
      BY <3>1, Pushed
    <3> QED BY <2>1, <2>3, <3>2
  <2> QED BY <2>2, <2>3 DEF OnceIn
<1>3. CASE k # 1
  <2>1. 1 \in DOMAIN cs /\ k > 1
    BY <1>3, Pushed
  <2>2. NoneIn(more, P)
    BY <1>1, <1>3, <2>1
  <2>3. k - 1 + Len(more) \in DOMAIN new /\ new[k - 1 + Len(more)] \in P
    BY <1>1, <2>1, Pushed
  <2>4. ASSUME NEW l \in DOMAIN new, new[l] \in P PROVE l = k - 1 + Len(more)
    <3>1. l > Len(more)
      <4>1. l \notin DOMAIN more
        BY <2>2, <2>4, Pushed DEF NoneIn
      <4> QED BY <4>1, Pushed
    <3>2. l - Len(more) + 1 = k
      BY <1>1, <2>4, <3>1, Pushed
    <3> QED BY <3>2, Pushed
  <2> QED BY <2>3, <2>4 DEF OnceIn
<1> QED BY <1>2, <1>3

\* A frame that writes is replaced by one that writes the same, or by none if it
\* does not write.
LEMMA PushFeeds ==
  ASSUME NEW F, NEW cs \in Seq(F), cs # <<>>, NEW more \in Seq(F),
         NEW new, Replaced(cs, more, new), NEW P, NEW W, NEW line \in Seq(W), NEW n \in Nat,
         Feeds(cs, P, line, n),
         cs[1] \in P => OnceIn(more, P) /\ \A p \in DOMAIN more : more[p] \in P => more[p].what = cs[1].what,
         cs[1] \notin P => NoneIn(more, P)
  PROVE  Feeds(new, P, line, n)
<1>1. PICK f \in [(n + 1)..Len(line) -> DOMAIN cs] :
        /\ \A i, j \in DOMAIN f : i < j => f[i] < f[j]
        /\ \A i \in DOMAIN f : cs[f[i]] \in P /\ cs[f[i]].what = line[i]
        /\ \A k \in DOMAIN cs : cs[k] \in P => \E i \in DOMAIN f : f[i] = k
  BY DEF Feeds
<1>2. PICK p \in Nat : cs[1] \in P => /\ p \in DOMAIN more /\ more[p] \in P
                                      /\ \A l \in DOMAIN more : more[l] \in P => l = p
  <2>1. CASE cs[1] \in P
    BY <2>1, Pushed DEF OnceIn
  <2> QED BY <2>1
<1> DEFINE g == [i \in (n + 1)..Len(line) |-> IF f[i] = 1 THEN p ELSE f[i] - 1 + Len(more)]
<1>3. \A i \in (n + 1)..Len(line) : f[i] \in DOMAIN cs /\ f[i] \in Nat /\ f[i] >= 1
  BY Pushed
<1>4. ASSUME NEW i \in (n + 1)..Len(line)
      PROVE  g[i] \in DOMAIN new /\ new[g[i]] \in P /\ new[g[i]].what = line[i]
  <2>1. CASE f[i] = 1
    <3>1. p \in DOMAIN more /\ more[p] \in P /\ more[p].what = line[i]
      BY <1>1, <1>2, <2>1
    <3> QED BY <2>1, <3>1, Pushed
  <2>2. CASE f[i] # 1
    <3>1. f[i] > 1 /\ g[i] = f[i] - 1 + Len(more) /\ f[i] \in DOMAIN cs
      BY <1>3, <2>2
    <3>2. f[i] - 1 + Len(more) \in DOMAIN new /\ new[f[i] - 1 + Len(more)] = cs[f[i]]
      BY <3>1, Pushed
    <3> QED BY <1>1, <3>1, <3>2
  <2> QED BY <2>1, <2>2
<1>5. ASSUME NEW i \in (n + 1)..Len(line), NEW j \in (n + 1)..Len(line), i < j
      PROVE  g[i] < g[j]
  <2>1. f[i] < f[j] /\ f[j] # 1
    BY <1>1, <1>3, <1>5
  <2>2. CASE f[i] = 1
    <3>0. p \in DOMAIN more
      BY <1>1, <1>2, <2>2
    <3>1. p <= Len(more) /\ Len(more) \in Nat
      BY <3>0, Pushed
    <3>2. g[i] = p /\ g[j] = f[j] - 1 + Len(more) /\ f[j] \in Nat /\ f[j] > 1
      BY <1>3, <2>1, <2>2
    <3> QED BY <3>1, <3>2
  <2>3. CASE f[i] # 1
    BY <1>3, <2>1, <2>3, Pushed
  <2> QED BY <2>2, <2>3
<1>6. ASSUME NEW k \in DOMAIN new, new[k] \in P
      PROVE  \E i \in (n + 1)..Len(line) : g[i] = k
  <2>1. CASE k \in DOMAIN more
    <3>1. cs[1] \in P /\ k = p /\ 1 \in DOMAIN cs
      BY <1>2, <1>6, <2>1, Pushed DEF NoneIn
    <3>2. PICK i \in (n + 1)..Len(line) : f[i] = 1
      BY <1>1, <3>1
    <3> QED BY <3>1, <3>2
  <2>2. CASE k \notin DOMAIN more
    <3>1. k > Len(more) /\ k \in Nat /\ Len(more) \in Nat
      BY <2>2, Pushed
    <3>2. k - Len(more) + 1 \in DOMAIN cs /\ cs[k - Len(more) + 1] \in P
      BY <1>6, <3>1, Pushed
    <3>3. PICK i \in (n + 1)..Len(line) : f[i] = k - Len(more) + 1
      BY <1>1, <3>2
    <3>4. f[i] # 1 /\ f[i] - 1 + Len(more) = k
      <4>1. f[i] = k - Len(more) + 1
        BY <3>3
      <4>2. k - Len(more) + 1 # 1 /\ (k - Len(more) + 1) - 1 + Len(more) = k
        BY <3>1
      <4> QED BY <4>1, <4>2
    <3> QED BY <3>4
  <2> QED BY <2>1, <2>2
<1>7. g \in [(n + 1)..Len(line) -> DOMAIN new] /\ DOMAIN g = (n + 1)..Len(line)
  BY <1>4
<1> HIDE DEF g
<1>8. /\ \A i, j \in DOMAIN g : i < j => g[i] < g[j]
      /\ \A i \in DOMAIN g : new[g[i]] \in P /\ new[g[i]].what = line[i]
      /\ \A k \in DOMAIN new : new[k] \in P => \E i \in DOMAIN g : g[i] = k
  BY <1>4, <1>5, <1>6, <1>7, Zenon
<1> QED BY <1>7, <1>8, Zenon DEF Feeds

LEMMA Popped ==
  ASSUME NEW F, NEW cs \in Seq(F), cs # <<>>, NEW new, Replaced(cs, <<>>, new)
  PROVE  /\ new \in Seq(F) /\ Len(new) = Len(cs) - 1
         /\ Len(cs) \in Nat /\ Len(cs) > 0
         /\ DOMAIN new = 1..Len(new) /\ DOMAIN cs = 1..Len(cs)
         /\ Head(cs) = cs[1] /\ cs[1] \in F
         /\ \A k \in DOMAIN new : k + 1 \in DOMAIN cs /\ new[k] = cs[k + 1]
         /\ \A k \in DOMAIN cs : k > 1 => k - 1 \in DOMAIN new /\ new[k - 1] = cs[k]
<1>1. new = Tail(cs)
  BY DEF Replaced
<1> QED BY <1>1

\* The frame that is done writes the next text.
LEMMA PopFeeds ==
  ASSUME NEW F, NEW cs \in Seq(F), cs # <<>>, NEW new, Replaced(cs, <<>>, new),
         NEW P, NEW W, NEW line \in Seq(W), NEW n \in Nat,
         Feeds(cs, P, line, n), cs[1] \in P
  PROVE  n + 1 <= Len(line) /\ line[n + 1] = cs[1].what /\ Feeds(new, P, line, n + 1)
<1>1. PICK f \in [(n + 1)..Len(line) -> DOMAIN cs] :
        /\ \A i, j \in DOMAIN f : i < j => f[i] < f[j]
        /\ \A i \in DOMAIN f : cs[f[i]] \in P /\ cs[f[i]].what = line[i]
        /\ \A k \in DOMAIN cs : cs[k] \in P => \E i \in DOMAIN f : f[i] = k
  BY DEF Feeds
<1>2. DOMAIN cs = 1..Len(cs) /\ Len(cs) \in Nat /\ 1 \in DOMAIN cs
  BY Popped
<1>3. \A i \in (n + 1)..Len(line) : f[i] \in DOMAIN cs /\ f[i] \in Nat /\ f[i] >= 1
  BY <1>2
<1>4. PICK i \in (n + 1)..Len(line) : f[i] = 1
  BY <1>1, <1>2
<1>5. Len(line) \in Nat
  OBVIOUS
<1>6. n + 1 \in (n + 1)..Len(line)
  BY <1>4, <1>5
<1>7. i = n + 1
  BY <1>1, <1>3, <1>4, <1>6
<1> DEFINE g == [j \in (n + 2)..Len(line) |-> f[j] - 1]
<1>8. \A j \in (n + 2)..Len(line) : j \in (n + 1)..Len(line) /\ f[j] > 1
  BY <1>1, <1>3, <1>4, <1>6, <1>7
<1>9. ASSUME NEW j \in (n + 2)..Len(line)
      PROVE  g[j] \in DOMAIN new /\ new[g[j]] \in P /\ new[g[j]].what = line[j]
  <2>1. f[j] \in DOMAIN cs /\ f[j] > 1 /\ g[j] = f[j] - 1
    BY <1>3, <1>8
  <2>2. g[j] \in DOMAIN new /\ new[g[j]] = cs[f[j]]
    BY <2>1, Popped
  <2> QED BY <1>1, <1>8, <2>2
<1>10. ASSUME NEW j \in (n + 2)..Len(line), NEW k \in (n + 2)..Len(line), j < k
       PROVE  g[j] < g[k]
  <2>1. j \in (n + 1)..Len(line) /\ k \in (n + 1)..Len(line)
    BY <1>8
  <2>2. f[j] < f[k] /\ f[j] \in Nat /\ f[k] \in Nat
    BY <1>1, <1>3, <1>10, <2>1
  <2>3. g[j] = f[j] - 1 /\ g[k] = f[k] - 1
    OBVIOUS
  <2> QED BY <2>2, <2>3
<1>11. ASSUME NEW k \in DOMAIN new, new[k] \in P
       PROVE  \E j \in (n + 2)..Len(line) : g[j] = k
  <2>1. k \in Nat /\ k > 0 /\ k + 1 \in DOMAIN cs /\ cs[k + 1] \in P
    BY <1>11, Popped
  <2>2. PICK j \in (n + 1)..Len(line) : f[j] = k + 1
    BY <1>1, <2>1
  <2>3. j # n + 1
    BY <1>4, <1>7, <2>1, <2>2
  <2>4. j \in (n + 2)..Len(line)
    BY <1>5, <2>3
  <2> QED BY <2>1, <2>2, <2>4
<1>12. g \in [(n + 2)..Len(line) -> DOMAIN new] /\ DOMAIN g = (n + 2)..Len(line) /\ n + 1 + 1 = n + 2
  BY <1>9
<1> HIDE DEF g
<1>13. /\ \A j, k \in DOMAIN g : j < k => g[j] < g[k]
       /\ \A j \in DOMAIN g : new[g[j]] \in P /\ new[g[j]].what = line[j]
       /\ \A k \in DOMAIN new : new[k] \in P => \E j \in DOMAIN g : g[j] = k
  BY <1>9, <1>10, <1>11, <1>12, Zenon
<1>14. Feeds(new, P, line, n + 1)
  BY <1>12, <1>13 DEF Feeds
<1> QED BY <1>1, <1>4, <1>6, <1>7, <1>14

\* A line that nothing is to write any more is written.
LEMMA NoFeeds ==
  ASSUME NEW F, NEW cs \in Seq(F), NEW P, NEW W, NEW line \in Seq(W), NEW n \in 0..Len(line),
         Feeds(cs, P, line, n), NoneIn(cs, P)
  PROVE  n = Len(line)
  BY DEF Feeds, NoneIn

-----------------------------------------------------------------------------
(* Calls *)

LEMMA CallFields ==
  ASSUME NEW n
  PROVE  /\ Call("init", n).fn = "init" /\ Call("init", n).node = n /\ Call("init", n).set = FALSE
         /\ Call("opened", n).fn = "opened" /\ Call("opened", n).node = n /\ Call("opened", n).set = FALSE
         /\ Call("flush", n).fn = "flush" /\ Call("flush", n).node = n /\ Call("flush", n).set = FALSE
         /\ Call("hand_on", n).fn = "hand_on" /\ Call("hand_on", n).node = n /\ Call("hand_on", n).set = FALSE
         /\ Call("formatted", n).fn = "formatted" /\ Call("formatted", n).node = n /\ Call("formatted", n).set = FALSE
         /\ Call("sent", n).fn = "sent" /\ Call("sent", n).node = n /\ Call("sent", n).set = FALSE
         /\ Call("switch", n).fn = "switch" /\ Call("switch", n).node = n /\ Call("switch", n).set = FALSE
         /\ Call("free", n).fn = "free" /\ Call("free", n).node = n /\ Call("free", n).set = FALSE
         /\ Call("close", n).fn = "close" /\ Call("close", n).node = n /\ Call("close", n).set = FALSE
  BY DEF Call

LEMMA CallType ==
  ASSUME NEW t \in Trees, NEW n \in DOMAIN t.kind
  PROVE  /\ Call("init", n) \in Frames(t)
         /\ Call("opened", n) \in Frames(t)
         /\ Call("flush", n) \in Frames(t)
         /\ Call("hand_on", n) \in Frames(t)
         /\ Call("formatted", n) \in Frames(t)
         /\ Call("sent", n) \in Frames(t)
         /\ Call("switch", n) \in Frames(t)
         /\ Call("free", n) \in Frames(t)
         /\ Call("close", n) \in Frames(t)
         /\ CallKid(Call("flush", n)) \in Frames(t) /\ CallKid(Call("close", n)) \in Frames(t)
         /\ \A i \in Nat : [Call("remember", n) EXCEPT !.i = i] \in Frames(t)
         /\ \A what \in Whats : CallPut(n, what) \in Frames(t) /\ CallKid(CallPut(n, what)) \in Frames(t)
         /\ \A what \in Whats : \A by \in Keys :
              CallKey(n, by, what) \in Frames(t) /\ CallKid(CallKey(n, by, what)) \in Frames(t)
  BY DEF Call, CallPut, CallKey, CallKid, Frames, Fns, Keys, Whats, Inner

LEMMA PutFields ==
  ASSUME NEW n, NEW what
  PROVE  /\ CallPut(n, what).fn = "put" /\ CallPut(n, what).node = n
         /\ CallPut(n, what).what = what /\ CallPut(n, what).set = FALSE
         /\ CallKid(CallPut(n, what)).fn = "put" /\ CallKid(CallPut(n, what)).node = n
         /\ CallKid(CallPut(n, what)).what = what /\ CallKid(CallPut(n, what)).set = TRUE
  BY DEF Call, CallPut, CallKid

LEMMA KeyFields ==
  ASSUME NEW n, NEW by, NEW what
  PROVE  /\ CallKey(n, by, what).fn = "key" /\ CallKey(n, by, what).node = n
         /\ CallKey(n, by, what).by = by
         /\ CallKey(n, by, what).what = what /\ CallKey(n, by, what).set = FALSE
         /\ CallKid(CallKey(n, by, what)).fn = "key" /\ CallKid(CallKey(n, by, what)).node = n
         /\ CallKid(CallKey(n, by, what)).by = by
         /\ CallKid(CallKey(n, by, what)).what = what /\ CallKid(CallKey(n, by, what)).set = TRUE
  BY DEF Call, CallKey, CallKid

LEMMA KidFields ==
  ASSUME NEW n
  PROVE  /\ CallKid(Call("flush", n)).fn = "flush" /\ CallKid(Call("flush", n)).node = n
         /\ CallKid(Call("flush", n)).set = TRUE
         /\ CallKid(Call("close", n)).fn = "close" /\ CallKid(Call("close", n)).node = n
         /\ CallKid(Call("close", n)).set = TRUE
  BY DEF Call, CallKid

LEMMA RememberFields ==
  ASSUME NEW n, NEW i
  PROVE  /\ [Call("remember", n) EXCEPT !.i = i].fn = "remember"
         /\ [Call("remember", n) EXCEPT !.i = i].node = n
         /\ [Call("remember", n) EXCEPT !.i = i].i = i
         /\ [Call("remember", n) EXCEPT !.i = i].set = FALSE
  BY DEF Call

\* The call that is next.
LEMMA Next1 ==
  ASSUME FrontTypeOK, calls # <<>>
  PROVE  /\ 1 \in DOMAIN calls /\ Head(calls) = calls[1] /\ calls[1] \in Frames(tree)
         /\ At \in Nodes /\ calls[1].node = At
         /\ calls[1].fn \in Fns /\ calls[1].by \in Keys /\ calls[1].what \in Whats
<1>1. 1 \in DOMAIN calls /\ Head(calls) = calls[1] /\ calls[1] \in Frames(tree)
  BY DEF FrontTypeOK
<1> QED BY <1>1 DEF Frames, At, Nodes

\* What the calls of the children of n are.
LEMMA KidsType ==
  ASSUME FrontTypeOK, NEW n \in Nodes
  PROVE  /\ Kids(n) \in Seq(Nodes) /\ Len(Kids(n)) \in Nat /\ DOMAIN Kids(n) = 1..Len(Kids(n))
         /\ DOMAIN saved[n] = DOMAIN Kids(n)
         /\ (Kids(n) # <<>>) <=> ~Leaf(n)
         /\ ~Leaf(n) <=> 1 \in DOMAIN Kids(n)
         /\ \A i \in DOMAIN Kids(n) : Kids(n)[i] \in Nodes /\ saved[n][i] \in Keys
         /\ \A what \in Whats : PutKids(n, what) \in Seq(Frames(tree)) /\ Len(PutKids(n, what)) = Len(Kids(n))
         /\ \A what \in Whats : KeyKids(n, what) \in Seq(Frames(tree)) /\ Len(KeyKids(n, what)) = Len(Kids(n))
         /\ FlushKids(n) \in Seq(Frames(tree)) /\ Len(FlushKids(n)) = Len(Kids(n))
         /\ CloseKids(n) \in Seq(Frames(tree)) /\ Len(CloseKids(n)) = Len(Kids(n))
<1>1. /\ Kids(n) \in Seq(Nodes)
      /\ (Kids(n) # <<>>) <=> ~Leaf(n)
      /\ \A i \in DOMAIN Kids(n) : Kids(n)[i] \in Nodes
  BY TreeFacts DEF FrontTypeOK, Kids, Nodes, Leaf
<1>2. /\ Len(Kids(n)) \in Nat /\ DOMAIN Kids(n) = 1..Len(Kids(n))
      /\ DOMAIN saved[n] = DOMAIN Kids(n)
      /\ \A i \in DOMAIN Kids(n) : saved[n][i] \in Keys
      /\ ~Leaf(n) <=> 1 \in DOMAIN Kids(n)
  <2>1. saved[n] \in Seq(Keys) /\ Len(saved[n]) = Len(Kids(n))
    BY DEF FrontTypeOK
  <2>2. Len(Kids(n)) \in Nat /\ DOMAIN Kids(n) = 1..Len(Kids(n)) /\ DOMAIN saved[n] = 1..Len(Kids(n))
    BY <1>1, <2>1
  <2>3. \A i \in 1..Len(Kids(n)) : saved[n][i] \in Keys
    BY <2>1
  <2>4. (Kids(n) # <<>>) <=> (Len(Kids(n)) > 0)
    BY <1>1
  <2>5. ~Leaf(n) <=> 1 \in DOMAIN Kids(n)
    <3>1. (Len(Kids(n)) > 0) <=> (1 \in 1..Len(Kids(n)))
      BY <2>2
    <3>2. (Kids(n) # <<>>) <=> ~Leaf(n)
      BY <1>1
    <3> QED BY <2>2, <2>4, <3>1, <3>2, Zenon
  <2> QED BY <2>2, <2>3, <2>5
<1>3. /\ \A what \in Whats : PutKids(n, what) \in Seq(Frames(tree)) /\ Len(PutKids(n, what)) = Len(Kids(n))
      /\ \A what \in Whats : KeyKids(n, what) \in Seq(Frames(tree)) /\ Len(KeyKids(n, what)) = Len(Kids(n))
  <2>1. \A what \in Whats : \A i \in 1..Len(Kids(n)) :
          /\ CallKid(CallPut(Kids(n)[i], what)) \in Frames(tree)
          /\ CallKid(CallKey(Kids(n)[i], saved[n][i], what)) \in Frames(tree)
    BY <1>1, <1>2, CallType DEF FrontTypeOK, Nodes
  <2> QED BY <1>2, <2>1 DEF PutKids, KeyKids
<1>4. /\ FlushKids(n) \in Seq(Frames(tree)) /\ Len(FlushKids(n)) = Len(Kids(n))
      /\ CloseKids(n) \in Seq(Frames(tree)) /\ Len(CloseKids(n)) = Len(Kids(n))
  BY <1>1, <1>2, CallType DEF FrontTypeOK, FlushKids, CloseKids, Nodes, Fns
<1> QED BY <1>1, <1>2, <1>3, <1>4

LEMMA DelimitedType ==
  ASSUME NEW fields \in Seq(Texts)
  PROVE  Delimited(fields) \in Seq(Whats) /\ Len(Delimited(fields)) = 2 * Len(fields)
<1>1. ASSUME NEW k \in 1..(2 * Len(fields)), k % 2 # 1 PROVE k \div 2 \in 1..Len(fields)
  BY <1>1
<1>2. \A k \in 1..(2 * Len(fields)) : (IF k % 2 = 1 THEN "delim" ELSE fields[k \div 2]) \in Whats
  BY <1>1 DEF Whats
<1> QED BY <1>2 DEF Delimited

LEMMA FormatType ==
  ASSUME FrontTypeOK, NEW n \in Nodes, NEW texts \in Seq(Whats)
  PROVE  /\ Format(n, texts) \in Seq(Frames(tree))
         /\ Len(Format(n, texts)) = Len(texts) + 1
         /\ Format(n, texts)[1] = CallKey(n, key, trace)
         /\ \A k \in DOMAIN texts : Format(n, texts)[k + 1] = CallPut(Root, texts[k])
<1> DEFINE puts == [k \in DOMAIN texts |-> CallPut(Root, texts[k])]
<1>1. Root \in Nodes /\ tree \in Trees
  BY TreeFacts DEF FrontTypeOK, Nodes
<1>2. \A k \in DOMAIN texts : puts[k] \in Frames(tree)
  BY <1>1, CallType DEF Nodes
<1>3. puts \in Seq(Frames(tree)) /\ Len(puts) = Len(texts)
  BY <1>2
<1>4. CallKey(n, key, trace) \in Frames(tree)
  BY <1>1, CallType DEF FrontTypeOK, Nodes
<1> HIDE DEF puts
<1>5. /\ <<CallKey(n, key, trace)>> \o puts \in Seq(Frames(tree))
      /\ Len(<<CallKey(n, key, trace)>> \o puts) = Len(texts) + 1
      /\ (<<CallKey(n, key, trace)>> \o puts)[1] = CallKey(n, key, trace)
      /\ \A k \in 1..Len(texts) : (<<CallKey(n, key, trace)>> \o puts)[k + 1] = puts[k]
  BY <1>3, <1>4
<1> QED BY <1>5 DEF Format, puts

\* A flush formats the log or does not, and hands it on or flushes the children.
Texts0(n) == CASE tree.kind[n] = "stream"   -> fmt
               [] tree.kind[n] = "memcache" -> IF fmt = <<>> THEN <<>> ELSE Tail(Delimited(fmt))
               [] OTHER -> Delimited(fmt)
Fin(n)  == IF tree.kind[n] \in Stores THEN "sent" ELSE "formatted"
Pre(n)  == IF flushed /\ tree.kind[n] \notin Stores THEN <<>>
           ELSE Append(Format(n, Texts0(n)), Call(Fin(n), n))
Post(n) == IF Leaf(n) THEN <<Call("hand_on", n)>> ELSE Around(n, FlushKids(n))

LEMMA TextsType ==
  ASSUME FrontTypeOK, NEW n \in Nodes
  PROVE  Texts0(n) \in Seq(Whats)
<1>1. Delimited(fmt) \in Seq(Whats) /\ Len(Delimited(fmt)) = 2 * Len(fmt)
  BY DelimitedType DEF FrontTypeOK
<1>2. fmt \in Seq(Whats)
  BY DEF FrontTypeOK, Whats
<1>3. fmt # <<>> => Tail(Delimited(fmt)) \in Seq(Whats)
  BY <1>1, <1>2
<1> QED BY <1>1, <1>2, <1>3 DEF Texts0

LEMMA PreType ==
  ASSUME FrontTypeOK, NEW n \in Nodes
  PROVE  /\ Pre(n) \in Seq(Frames(tree))
         /\ Pre(n) # <<>> =>
              /\ Len(Pre(n)) = Len(Texts0(n)) + 2
              /\ Pre(n)[1] = CallKey(n, key, trace)
              /\ \A k \in DOMAIN Texts0(n) : Pre(n)[k + 1] = CallPut(Root, Texts0(n)[k])
              /\ Pre(n)[Len(Texts0(n)) + 2] = Call(Fin(n), n)
         /\ Pre(n) = <<>> <=> flushed /\ tree.kind[n] \notin Stores
<1> DEFINE T == Texts0(n) F == Format(n, T)
<1>1. T \in Seq(Whats)
  BY TextsType
<1>2. Call(Fin(n), n) \in Frames(tree)
  BY CallType DEF FrontTypeOK, Fin, Fns, Nodes
<1>3. /\ F \in Seq(Frames(tree)) /\ Len(F) = Len(T) + 1
      /\ F[1] = CallKey(n, key, trace)
      /\ \A k \in DOMAIN T : F[k + 1] = CallPut(Root, T[k])
  BY <1>1, FormatType
<1> HIDE DEF T, F
<1>4. Append(F, Call(Fin(n), n)) \in Seq(Frames(tree)) /\ Append(F, Call(Fin(n), n)) # <<>>
  BY <1>2, <1>3
<1>5. /\ Len(Append(F, Call(Fin(n), n))) = Len(T) + 2
      /\ Append(F, Call(Fin(n), n))[1] = F[1]
      /\ \A k \in DOMAIN T : Append(F, Call(Fin(n), n))[k + 1] = F[k + 1]
      /\ Append(F, Call(Fin(n), n))[Len(T) + 2] = Call(Fin(n), n)
  BY <1>1, <1>2, <1>3
<1> QED BY <1>3, <1>4, <1>5 DEF Pre, F, T

LEMMA PostType ==
  ASSUME FrontTypeOK, NEW n \in Nodes
  PROVE  /\ Post(n) \in Seq(Frames(tree)) /\ Post(n) # <<>>
         /\ Leaf(n) => Post(n) = <<Call("hand_on", n)>>
         /\ ~Leaf(n) => Post(n) = Around(n, FlushKids(n))
<1>1. Call("hand_on", n) \in Frames(tree) /\ Call("switch", n) \in Frames(tree)
  BY CallType DEF FrontTypeOK, Nodes, Fns
<1>2. /\ <<Call("hand_on", n)>> \in Seq(Frames(tree)) /\ <<Call("hand_on", n)>> # <<>>
      /\ Append(FlushKids(n), Call("switch", n)) \in Seq(Frames(tree))
      /\ Append(FlushKids(n), Call("switch", n)) # <<>>
  <2>1. FlushKids(n) \in Seq(Frames(tree))
    BY KidsType
  <2> QED BY <1>1, <2>1
<1> QED BY <1>2 DEF Post, Around

LEMMA FlushShape ==
  ASSUME FrontTypeOK, NEW n \in Nodes
  PROVE  FlushCalls(n) = Pre(n) \o Post(n)
<1> DEFINE h == Call("hand_on", n) f == Call("formatted", n) d == Call("sent", n)
<1>1. h \in Frames(tree) /\ f \in Frames(tree) /\ d \in Frames(tree)
  BY CallType DEF FrontTypeOK, Nodes, Fns
<1>2. Format(n, Texts0(n)) \in Seq(Frames(tree))
  BY TextsType, FormatType
<1>3. tree.kind[n] \in Inner \cup Stores \cup {"string"}
  BY TreeFacts DEF FrontTypeOK, Nodes
<1> HIDE DEF h, f, d
<1>4. ASSUME NEW s \in Seq(Frames(tree)), NEW x \in Frames(tree), NEW y \in Frames(tree)
      PROVE  s \o <<x, y>> = Append(s, x) \o <<y>> /\ Append(s, y) = s \o <<y>>
  OBVIOUS
<1>5. CASE tree.kind[n] = "string"
  <2>1. FlushCalls(n) = Append(FormatFlush(n), h) /\ Post(n) = <<h>> /\ Texts0(n) = Delimited(fmt) /\ Fin(n) = "formatted"
    BY <1>5 DEF FlushCalls, StringFlush, Post, Leaf, Inner, h, Texts0, Fin, Stores
  <2>2. FormatFlush(n) = Pre(n)
    BY <1>5, <2>1 DEF FormatFlush, Pre, Stores
  <2>3. Pre(n) \in Seq(Frames(tree))
    BY PreType
  <2>4. Append(Pre(n), h) = Pre(n) \o <<h>>
    BY <1>1, <1>4, <2>3
  <2> QED BY <2>1, <2>2, <2>4
<1>6. CASE tree.kind[n] \in Stores
  <2>1. /\ FlushCalls(n) = Format(n, Texts0(n)) \o <<d, h>> /\ Post(n) = <<h>>
        /\ Pre(n) = Append(Format(n, Texts0(n)), d)
        /\ Format(n, Texts0(n)) \o <<d, h>> = Append(Format(n, Texts0(n)), d) \o <<h>>
    <3>1. Format(n, Texts0(n)) \o <<d, h>> = Append(Format(n, Texts0(n)), d) \o <<h>>
      BY <1>1, <1>2, <1>4
    <3> QED BY <1>6, <3>1 DEF FlushCalls, StreamFlush, MemcacheFlush, Post, Leaf, Inner, h, d, Texts0, Fin, Stores, Pre
  <2> QED BY <2>1
<1>7. CASE tree.kind[n] \in Inner
  <2>1. FlushCalls(n) = FormatFlush(n) \o Around(n, FlushKids(n)) /\ Texts0(n) = Delimited(fmt) /\ Fin(n) = "formatted"
    BY <1>7 DEF FlushCalls, Inner, Texts0, Fin, Stores
  <2>2. FormatFlush(n) = Pre(n)
    BY <1>7, <2>1 DEF FormatFlush, Pre, Stores, Inner
  <2>3. Post(n) = Around(n, FlushKids(n))
    BY <1>7 DEF Post, Leaf
  <2> QED BY <2>1, <2>2, <2>3
<1> QED BY <1>3, <1>5, <1>6, <1>7

\* A node's calls of its children, and what it does when they are done.
LEMMA AroundType ==
  ASSUME NEW t, NEW s \in Seq(Frames(t)), NEW c \in Frames(t)
  PROVE  /\ Append(s, c) \in Seq(Frames(t)) /\ Len(Append(s, c)) = Len(s) + 1
         /\ DOMAIN Append(s, c) = 1..(Len(s) + 1) /\ Append(s, c) # <<>>
         /\ \A k \in DOMAIN s : Append(s, c)[k] = s[k]
         /\ Append(s, c)[Len(s) + 1] = c
         /\ Len(s) \in Nat /\ DOMAIN s = 1..Len(s)
  OBVIOUS

\* Where the calls of a flush stand: the key, what is put behind it, the end of
\* that, and what the node does then.
LEMMA FlushParts ==
  ASSUME FrontTypeOK, NEW n \in Nodes
  PROVE  LET more == FlushCalls(n)
             P    == Len(Pre(n))
         IN  /\ more \in Seq(Frames(tree)) /\ more # <<>> /\ P \in Nat
             /\ Len(more) = P + Len(Post(n)) /\ Len(Post(n)) \in Nat /\ Len(Post(n)) > 0
             /\ DOMAIN more = 1..Len(more)
             /\ \A k \in 1..P : more[k] = Pre(n)[k]
             /\ \A k \in 1..Len(Post(n)) : more[P + k] = Post(n)[k]
<1>1. FlushCalls(n) = Pre(n) \o Post(n) /\ Pre(n) \in Seq(Frames(tree)) /\ Post(n) \in Seq(Frames(tree)) /\ Post(n) # <<>>
  BY FlushShape, PreType, PostType
<1> QED BY <1>1

LEMMA PostFns ==
  ASSUME FrontTypeOK, NEW n \in Nodes
  PROVE  /\ Len(Post(n)) \in Nat
         /\ \A k \in 1..Len(Post(n)) :
              \/ Leaf(n) /\ k = 1 /\ Len(Post(n)) = 1 /\ Post(n)[k] = Call("hand_on", n)
              \/ ~Leaf(n) /\ k \in DOMAIN Kids(n) /\ Post(n)[k] = CallKid(Call("flush", Kids(n)[k]))
              \/ ~Leaf(n) /\ k = Len(Kids(n)) + 1 /\ Post(n)[k] = Call("switch", n)
         /\ ~Leaf(n) => Len(Post(n)) = Len(Kids(n)) + 1
<1>1. CASE Leaf(n)
  <2>1. Post(n) = <<Call("hand_on", n)>>
    BY <1>1, PostType
  <2>2. Len(Post(n)) = 1 /\ Post(n)[1] = Call("hand_on", n)
    BY <2>1
  <2> QED BY <1>1, <2>2
<1>2. CASE ~Leaf(n)
  <2>1. Post(n) = Append(FlushKids(n), Call("switch", n))
    BY <1>2, PostType DEF Around
  <2>2. FlushKids(n) \in Seq(Frames(tree)) /\ Len(FlushKids(n)) = Len(Kids(n)) /\ DOMAIN Kids(n) = 1..Len(Kids(n)) /\ Len(Kids(n)) \in Nat
    BY KidsType
  <2>3. Call("switch", n) \in Frames(tree)
    BY CallType DEF FrontTypeOK, Nodes, Fns
  <2>4. \A k \in DOMAIN Kids(n) : FlushKids(n)[k] = CallKid(Call("flush", Kids(n)[k]))
    BY DEF FlushKids
  <2>5. /\ Len(Post(n)) = Len(Kids(n)) + 1
        /\ \A k \in 1..Len(Kids(n)) : Post(n)[k] = FlushKids(n)[k]
        /\ Post(n)[Len(Kids(n)) + 1] = Call("switch", n)
    BY <2>1, <2>2, <2>3, AroundType
  <2> QED BY <1>2, <2>2, <2>4, <2>5
<1> QED BY <1>1, <1>2

LEMMA PreFns ==
  ASSUME FrontTypeOK, NEW n \in Nodes
  PROVE  \A k \in 1..Len(Pre(n)) :
           \/ k = 1 /\ Pre(n)[k] = CallKey(n, key, trace)
           \/ k > 1 /\ k - 1 \in DOMAIN Texts0(n) /\ Pre(n)[k] = CallPut(Root, Texts0(n)[k - 1])
           \/ k = Len(Pre(n)) /\ k > 1 /\ Pre(n)[k] = Call(Fin(n), n)
<1>1. CASE Pre(n) = <<>>
  BY <1>1
<1>2. CASE Pre(n) # <<>>
  <2>1. /\ Len(Pre(n)) = Len(Texts0(n)) + 2
        /\ Pre(n)[1] = CallKey(n, key, trace)
        /\ \A k \in DOMAIN Texts0(n) : Pre(n)[k + 1] = CallPut(Root, Texts0(n)[k])
        /\ Pre(n)[Len(Texts0(n)) + 2] = Call(Fin(n), n)
    BY <1>2, PreType
  <2>2. Texts0(n) \in Seq(Whats)
    BY TextsType
  <2>3. DOMAIN Texts0(n) = 1..Len(Texts0(n)) /\ Len(Texts0(n)) \in Nat
    BY <2>2
  <2> SUFFICES ASSUME NEW k \in 1..Len(Pre(n))
               PROVE  \/ k = 1 /\ Pre(n)[k] = CallKey(n, key, trace)
                      \/ k > 1 /\ k - 1 \in DOMAIN Texts0(n) /\ Pre(n)[k] = CallPut(Root, Texts0(n)[k - 1])
                      \/ k = Len(Pre(n)) /\ k > 1 /\ Pre(n)[k] = Call(Fin(n), n)
    OBVIOUS
  <2>4. CASE k = 1
    BY <2>1, <2>4
  <2>5. CASE k > 1 /\ k < Len(Pre(n))
    <3>1. k - 1 \in DOMAIN Texts0(n) /\ (k - 1) + 1 = k
      BY <2>1, <2>3, <2>5
    <3> QED BY <2>1, <2>5, <3>1
  <2>6. CASE k = Len(Pre(n))
    BY <2>1, <2>3, <2>6
  <2> QED BY <2>1, <2>3, <2>4, <2>5, <2>6
<1> QED BY <1>1, <1>2

LEMMA FlushFns ==
  ASSUME FrontTypeOK, NEW n \in Nodes
  PROVE  \A k \in DOMAIN FlushCalls(n) : FlushCalls(n)[k].fn \in RecordFns
<1> SUFFICES ASSUME NEW k \in DOMAIN FlushCalls(n) PROVE FlushCalls(n)[k].fn \in RecordFns
  OBVIOUS
<1>1. CASE k <= Len(Pre(n))
  <2>1. FlushCalls(n)[k] = Pre(n)[k] /\ k \in 1..Len(Pre(n))
    BY <1>1, FlushParts
  <2>2. Fin(n) \in {"sent", "formatted"}
    BY DEF Fin
  <2>3. \/ Pre(n)[k] = CallKey(n, key, trace)
        \/ Pre(n)[k] = CallPut(Root, Texts0(n)[k - 1])
        \/ Pre(n)[k] = Call(Fin(n), n)
    BY <2>1, PreFns
  <2>4. /\ CallKey(n, key, trace).fn = "key"
        /\ CallPut(Root, Texts0(n)[k - 1]).fn = "put"
        /\ Call(Fin(n), n).fn = Fin(n)
    BY DEF Call, CallPut, CallKey
  <2> QED BY <2>1, <2>2, <2>3, <2>4 DEF RecordFns
<1>2. CASE k > Len(Pre(n))
  <2>1. k - Len(Pre(n)) \in 1..Len(Post(n)) /\ Len(Pre(n)) + (k - Len(Pre(n))) = k
    BY <1>2, FlushParts
  <2>2. FlushCalls(n)[k] = Post(n)[k - Len(Pre(n))]
    BY <2>1, FlushParts
  <2> DEFINE l == k - Len(Pre(n))
  <2>3. \/ Post(n)[l] = Call("hand_on", n)
        \/ Post(n)[l] = CallKid(Call("flush", Kids(n)[l]))
        \/ Post(n)[l] = Call("switch", n)
    BY <2>1, PostFns
  <2>4. /\ Call("hand_on", n).fn = "hand_on" /\ Call("switch", n).fn = "switch"
        /\ CallKid(Call("flush", Kids(n)[l])).fn = "flush"
    BY DEF Call, CallKid
  <2> QED BY <2>2, <2>3, <2>4 DEF RecordFns
<1>3. k \in Nat /\ Len(Pre(n)) \in Nat
  BY FlushParts
<1> QED BY <1>1, <1>2, <1>3

-----------------------------------------------------------------------------
(* Types *)

LEMMA TypeStack ==
  ASSUME FrontTypeOK, calls # <<>>, NEW more \in Seq(Frames(tree)), Go(more), tree' = tree,
         \A k \in DOMAIN more : more[k].fn = "remember" => more[k].i \in DOMAIN Kids(more[k].node)
  PROVE  /\ calls' \in Seq(Frames(tree'))
         /\ \A k \in DOMAIN calls' : calls'[k].fn = "remember" => calls'[k].i \in DOMAIN tree'.kids[calls'[k].node]
<1>1. calls \in Seq(Frames(tree)) /\ Replaced(calls, more, calls')
  BY DEF FrontTypeOK, Go, Replaced
<1>2. calls' \in Seq(Frames(tree))
  BY <1>1, Pushed
<1>3. ASSUME NEW k \in DOMAIN calls', calls'[k].fn = "remember"
      PROVE  calls'[k].i \in DOMAIN Kids(calls'[k].node)
  <2>1. CASE k \in DOMAIN more
    BY <1>1, <1>3, <2>1, Pushed
  <2>2. CASE k \notin DOMAIN more
    <3>1. k - Len(more) + 1 \in DOMAIN calls /\ calls'[k] = calls[k - Len(more) + 1]
      BY <1>1, <2>2, Pushed
    <3> QED BY <1>3, <3>1 DEF FrontTypeOK
  <2> QED BY <2>1, <2>2
<1> QED BY <1>2, <1>3 DEF Kids

LEMMA TypeNone ==
  ASSUME FrontTypeOK, calls # <<>>, Go(<<>>), tree' = tree
  PROVE  /\ calls' \in Seq(Frames(tree'))
         /\ \A k \in DOMAIN calls' : calls'[k].fn = "remember" => calls'[k].i \in DOMAIN tree'.kids[calls'[k].node]
<1>1. <<>> \in Seq(Frames(tree)) /\ DOMAIN <<>> = {}
  OBVIOUS
<1> QED BY <1>1, TypeStack

LEMMA OpenKidType ==
  ASSUME FrontTypeOK, NEW n \in Nodes, NEW i \in DOMAIN Kids(n)
  PROVE  /\ OpenKid(n, i) \in Seq(Frames(tree)) /\ Len(OpenKid(n, i)) = 2
         /\ OpenKid(n, i)[1] \in Frames(tree) /\ OpenKid(n, i)[2] \in Frames(tree)
         /\ DOMAIN OpenKid(n, i) = {1, 2}
         /\ OpenKid(n, i)[1] = Call("init", Kids(n)[i])
         /\ OpenKid(n, i)[2].fn = "remember" /\ OpenKid(n, i)[2].node = n /\ OpenKid(n, i)[2].i = i
         /\ \A k \in DOMAIN OpenKid(n, i) : OpenKid(n, i)[k].fn = "remember" =>
              OpenKid(n, i)[k].i \in DOMAIN Kids(OpenKid(n, i)[k].node)
<1> DEFINE a == Call("init", Kids(n)[i]) c == [Call("remember", n) EXCEPT !.i = i]
<1>1. a \in Frames(tree) /\ c \in Frames(tree)
  <2>1. Kids(n)[i] \in DOMAIN tree.kind /\ i \in Nat /\ n \in DOMAIN tree.kind /\ tree \in Trees
    <3>1. Kids(n)[i] \in Nodes /\ DOMAIN Kids(n) = 1..Len(Kids(n)) /\ Len(Kids(n)) \in Nat
      BY KidsType
    <3> QED BY <3>1 DEF FrontTypeOK, Nodes
  <2> QED BY <2>1, CallType
<1>2. a.fn = "init" /\ c.fn = "remember" /\ c.node = n /\ c.i = i
  BY DEF Call
<1> HIDE DEF a, c
<1>3. OpenKid(n, i) = <<a, c>>
  BY DEF OpenKid, a, c
<1>4. <<a, c>> \in Seq(Frames(tree)) /\ Len(<<a, c>>) = 2 /\ DOMAIN <<a, c>> = {1, 2}
  BY <1>1
<1>5. <<a, c>>[1] = a /\ <<a, c>>[2] = c
  OBVIOUS
<1> QED BY <1>1, <1>2, <1>3, <1>4, <1>5 DEF a

LEMMA TypeInit ==
  ASSUME FrontInit
  PROVE  FrontTypeOK
<1>1. tree \in Trees /\ Root \in Nodes
  BY TreeFacts DEF FrontInit, Nodes
<1>2. calls \in Seq(Frames(tree)) /\ \A k \in DOMAIN calls : calls[k].fn # "remember"
  <2>1. Call("init", Root) \in Frames(tree) /\ Call("opened", Root) \in Frames(tree)
    BY <1>1, CallType DEF Nodes, Fns
  <2>2. calls = <<Call("init", Root), Call("opened", Root)>>
    BY DEF FrontInit
  <2>3. Call("init", Root).fn = "init" /\ Call("opened", Root).fn = "opened"
    BY DEF Call
  <2> QED BY <2>1, <2>2, <2>3
<1>3. ASSUME NEW n \in Nodes
      PROVE  saved[n] \in Seq(Keys) /\ Len(saved[n]) = Len(Kids(n))
  <2>1. Kids(n) \in Seq(Nodes)
    BY <1>1, TreeFacts DEF Kids, Nodes
  <2>2. saved[n] = [i \in DOMAIN Kids(n) |-> "none"]
    BY DEF FrontInit
  <2>3. [i \in 1..Len(Kids(n)) |-> "none"] \in Seq(Keys) /\ Len([i \in 1..Len(Kids(n)) |-> "none"]) = Len(Kids(n))
    BY <2>1 DEF Keys
  <2> QED BY <2>1, <2>2, <2>3
<1>4. saved \in [Nodes -> Seq(Keys)]
  BY <1>3 DEF FrontInit
<1>5. /\ buf \in [Nodes -> Seq(Whats)] /\ sink \in [Nodes -> Seq(Seq(Whats))]
      /\ closed \in [Nodes -> Nat]
      /\ fmt \in Seq(Texts) /\ given \in Seq(Logs)
  BY DEF FrontInit
<1> QED BY <1>1, <1>2, <1>3, <1>4, <1>5 DEF FrontInit, FrontTypeOK, Keys, Whats

LEMMA OpenedStays ==
  ASSUME Opened, tree' = tree, key' = key, saved' = saved
  PROVE  Opened'
<1> QED BY DEF Opened, Right, Early, KeyOf, Leaf, Kids, Nodes

LEMMA RestedStays ==
  ASSUME Rested, tree' = tree, fmt' = fmt, seq' = seq, buf' = buf, sink' = sink, given' = given
  PROVE  Rested'
<1>1. Leaves' = Leaves
  BY DEF Leaves, Leaf, Nodes
<1>2. Sound(tree)' <=> Sound(tree)
  OBVIOUS
<1>3. \A m : Lines(m, Len(given))' = Lines(m, Len(given))
  BY DEF Lines
<1>4. ASSUME NEW m \in Leaves PROVE buf'[m] = <<>> /\ sink'[m] = Lines(m, Len(given))'
  <2>1. buf[m] = <<>> /\ sink[m] = Lines(m, Len(given))
    BY DEF Rested
  <2> QED BY <1>3, <2>1
<1>5. (given # <<>> => Sound(tree)) /\ seq = Len(given) /\ fmt = <<>>
  BY DEF Rested
<1>6. /\ (given # <<>> => Sound(tree))' /\ (seq = Len(given))' /\ (fmt = <<>>)'
  BY <1>2, <1>5
<1>7. \A m \in Leaves' : buf'[m] = <<>> /\ sink'[m] = Lines(m, Len(given))'
  BY <1>1, <1>4
<1> QED BY <1>6, <1>7 DEF Rested

LEMMA TypeNext ==
  ASSUME FrontTypeOK, FrontNext
  PROVE  FrontTypeOK'
<1> USE DEF opened, table, leaves
<1>1. CASE InitNode
  <2>1. calls # <<>> /\ tree' = tree
    BY <1>1 DEF InitNode, Calls
  <2>2. CASE Leaf(At)
    <3>1. Go(<<>>)
      BY <1>1, <2>2 DEF InitNode
    <3>2. /\ calls' \in Seq(Frames(tree'))
          /\ \A k \in DOMAIN calls' : calls'[k].fn = "remember" => calls'[k].i \in DOMAIN tree'.kids[calls'[k].node]
      BY <2>1, <3>1, TypeNone
    <3> QED BY <1>1, <2>1, <3>2 DEF InitNode, FrontTypeOK, Nodes, Kids
  <2>3. CASE ~Leaf(At)
    <3>1. Go(OpenKid(At, 1)) /\ 1 \in DOMAIN Kids(At) /\ At \in Nodes
      BY <1>1, <2>1, <2>3, Next1, KidsType DEF InitNode
    <3>2. OpenKid(At, 1) \in Seq(Frames(tree)) /\ \A k \in DOMAIN OpenKid(At, 1) :
            OpenKid(At, 1)[k].fn = "remember" => OpenKid(At, 1)[k].i \in DOMAIN Kids(OpenKid(At, 1)[k].node)
      BY <3>1, OpenKidType
    <3>3. /\ calls' \in Seq(Frames(tree'))
          /\ \A k \in DOMAIN calls' : calls'[k].fn = "remember" => calls'[k].i \in DOMAIN tree'.kids[calls'[k].node]
      BY <2>1, <3>1, <3>2, TypeStack
    <3> QED BY <1>1, <2>1, <3>3 DEF InitNode, FrontTypeOK, Nodes, Kids
  <2> QED BY <2>2, <2>3
<1>2. CASE Remember
  <2> DEFINE i == Head(calls).i
  <2>1. calls # <<>> /\ tree' = tree /\ At \in Nodes /\ i \in DOMAIN Kids(At)
    BY <1>2, Next1 DEF Remember, Calls, FrontTypeOK, At
  <2>2. /\ calls' \in Seq(Frames(tree'))
        /\ \A k \in DOMAIN calls' : calls'[k].fn = "remember" => calls'[k].i \in DOMAIN tree'.kids[calls'[k].node]
    <3>1. CASE i < Len(Kids(At))
      <4>1. i + 1 \in DOMAIN Kids(At) /\ Go(OpenKid(At, i + 1))
        BY <1>2, <2>1, <3>1, KidsType DEF Remember
      <4> QED BY <2>1, <4>1, OpenKidType, TypeStack
    <3>2. CASE ~(i < Len(Kids(At)))
      BY <1>2, <2>1, <3>2, TypeNone DEF Remember
    <3> QED BY <3>1, <3>2
  <2>3. key' \in Keys
    <3>1. tree.kind[At] \in Inner
      BY <2>1, KidsType DEF Leaf
    <3> QED BY <1>2, <3>1 DEF Remember, FrontTypeOK, Keys
  <2>4. saved' \in [Nodes -> Seq(Keys)] /\ \A n \in Nodes : Len(saved'[n]) = Len(Kids(n))
    <3>1. saved' = [saved EXCEPT ![At] = [saved[At] EXCEPT ![i] = key]]
      BY <1>2 DEF Remember, Remembered
    <3>2. saved[At] \in Seq(Keys) /\ Len(saved[At]) = Len(Kids(At)) /\ key \in Keys
      BY <2>1 DEF FrontTypeOK
    <3>3. [saved[At] EXCEPT ![i] = key] \in Seq(Keys) /\ Len([saved[At] EXCEPT ![i] = key]) = Len(Kids(At))
      <4> DEFINE s == saved[At]
      <4>1. s \in Seq(Keys) /\ Len(s) = Len(Kids(At)) /\ key \in Keys
        BY <3>2
      <4> HIDE DEF s
      <4>2. [s EXCEPT ![i] = key] \in Seq(Keys) /\ Len([s EXCEPT ![i] = key]) = Len(s)
        BY <2>1, <4>1, KidsType, ExceptSeq
      <4> QED BY <4>1, <4>2 DEF s
    <3> QED BY <3>1, <3>3 DEF FrontTypeOK
  <2> QED BY <1>2, <2>1, <2>2, <2>3, <2>4 DEF Remember, FrontTypeOK, Nodes, Kids
<1>3. CASE OpenEnd
  <2>1. calls # <<>> /\ tree' = tree /\ Go(<<>>) /\ Root \in Nodes
    BY <1>3, TreeFacts DEF OpenEnd, Calls, FrontTypeOK, Nodes
  <2>2. /\ calls' \in Seq(Frames(tree'))
        /\ \A k \in DOMAIN calls' : calls'[k].fn = "remember" => calls'[k].i \in DOMAIN tree'.kids[calls'[k].node]
    BY <2>1, TypeNone
  <2> QED BY <1>3, <2>1, <2>2 DEF OpenEnd, FrontTypeOK, Nodes, Kids
<1>4. CASE SwitchBack
  <2>1. calls # <<>> /\ tree' = tree /\ Go(<<>>) /\ At \in Nodes
    BY <1>4, Next1 DEF SwitchBack, Calls
  <2>2. /\ calls' \in Seq(Frames(tree'))
        /\ \A k \in DOMAIN calls' : calls'[k].fn = "remember" => calls'[k].i \in DOMAIN tree'.kids[calls'[k].node]
    BY <2>1, TypeNone
  <2> QED BY <1>4, <2>1, <2>2 DEF SwitchBack, FrontTypeOK, Nodes, Kids
<1> DEFINE what == Head(calls).what
<1>w. calls # <<>> => At \in Nodes /\ what \in Whats /\ Call("switch", At) \in Frames(tree)
                      /\ Call("free", At) \in Frames(tree)
  BY Next1, CallType DEF FrontTypeOK, Nodes, Fns
<1>b. ASSUME calls # <<>> PROVE Written \in [Nodes -> Seq(Whats)]
  BY <1>b, <1>w DEF Written, FrontTypeOK
<1>5. CASE Put
  <2>1. calls # <<>> /\ tree' = tree /\ conn' = At
    BY <1>5 DEF Put, Calls, TypedCall
  <2>2. /\ calls' \in Seq(Frames(tree'))
        /\ \A k \in DOMAIN calls' : calls'[k].fn = "remember" => calls'[k].i \in DOMAIN tree'.kids[calls'[k].node]
    <3>1. CASE Leaf(At)
      BY <1>5, <2>1, <3>1, TypeNone DEF Put
    <3>2. CASE ~Leaf(At)
      <4>1. Go(Append(PutKids(At, what), Call("switch", At)))
        BY <1>5, <3>2 DEF Put, Around
      <4>2. PutKids(At, what) \in Seq(Frames(tree)) /\ \A k \in DOMAIN PutKids(At, what) : PutKids(At, what)[k].fn = "put"
        <5>1. PutKids(At, what) \in Seq(Frames(tree))
          BY <1>w, <2>1, KidsType
        <5> QED BY <5>1 DEF PutKids, CallPut, CallKid, Call
      <4>3. \A k \in DOMAIN Append(PutKids(At, what), Call("switch", At)) :
              Append(PutKids(At, what), Call("switch", At))[k].fn \in {"put", "switch"}
        <5>1. Call("switch", At).fn = "switch"
          BY DEF Call
        <5> HIDE DEF what
        <5> QED BY <1>w, <2>1, <4>2, <5>1, AroundType
      <4> QED BY <1>w, <2>1, <4>1, <4>2, <4>3, AroundType, TypeStack
    <3> QED BY <3>1, <3>2
  <2> QED BY <1>5, <1>w, <1>b, <2>1, <2>2 DEF Put, FrontTypeOK, Nodes, Kids
<1>6. CASE PutKey
  <2>1. calls # <<>> /\ tree' = tree /\ conn' = At
    BY <1>6 DEF PutKey, Calls, TypedCall
  <2>2. /\ calls' \in Seq(Frames(tree'))
        /\ \A k \in DOMAIN calls' : calls'[k].fn = "remember" => calls'[k].i \in DOMAIN tree'.kids[calls'[k].node]
    <3>1. CASE Leaf(At)
      BY <1>6, <2>1, <3>1, TypeNone DEF PutKey
    <3>2. CASE ~Leaf(At)
      <4>1. Go(Append(KeyKids(At, what), Call("switch", At)))
        BY <1>6, <3>2 DEF PutKey, Around
      <4>2. KeyKids(At, what) \in Seq(Frames(tree)) /\ \A k \in DOMAIN KeyKids(At, what) : KeyKids(At, what)[k].fn = "key"
        <5>1. KeyKids(At, what) \in Seq(Frames(tree))
          BY <1>w, <2>1, KidsType
        <5> QED BY <5>1 DEF KeyKids, CallKey, CallKid, Call
      <4>3. \A k \in DOMAIN Append(KeyKids(At, what), Call("switch", At)) :
              Append(KeyKids(At, what), Call("switch", At))[k].fn \in {"key", "switch"}
        <5>1. Call("switch", At).fn = "switch"
          BY DEF Call
        <5> HIDE DEF what
        <5> QED BY <1>w, <2>1, <4>2, <5>1, AroundType
      <4> QED BY <1>w, <2>1, <4>1, <4>2, <4>3, AroundType, TypeStack
    <3> QED BY <3>1, <3>2
  <2> QED BY <1>6, <1>w, <1>b, <2>1, <2>2 DEF PutKey, FrontTypeOK, Nodes, Kids
<1>7. CASE Flush
  <2>1. calls # <<>> /\ tree' = tree /\ conn' = At /\ Go(FlushCalls(At))
    BY <1>7 DEF Flush, Calls, TypedCall
  <2>2. FlushCalls(At) = Pre(At) \o Post(At) /\ Pre(At) \in Seq(Frames(tree)) /\ Post(At) \in Seq(Frames(tree))
    BY <1>w, <2>1, FlushShape, PreType, PostType
  <2>3. FlushCalls(At) \in Seq(Frames(tree))
    BY <2>2
  <2>4. \A k \in DOMAIN FlushCalls(At) : FlushCalls(At)[k].fn # "remember"
    BY <1>w, <2>1, FlushFns DEF RecordFns
  <2>5. /\ calls' \in Seq(Frames(tree'))
        /\ \A k \in DOMAIN calls' : calls'[k].fn = "remember" => calls'[k].i \in DOMAIN tree'.kids[calls'[k].node]
    BY <2>1, <2>3, <2>4, TypeStack
  <2> QED BY <1>7, <1>w, <2>1, <2>5 DEF Flush, FrontTypeOK, Nodes, Kids
<1>8. CASE Formatted
  <2>1. calls # <<>> /\ tree' = tree /\ Go(<<>>)
    BY <1>8 DEF Formatted, Calls
  <2>2. /\ calls' \in Seq(Frames(tree'))
        /\ \A k \in DOMAIN calls' : calls'[k].fn = "remember" => calls'[k].i \in DOMAIN tree'.kids[calls'[k].node]
    BY <2>1, TypeNone
  <2> QED BY <1>8, <2>1, <2>2 DEF Formatted, FrontTypeOK, Nodes, Kids
<1>9. CASE HandOn
  <2>1. calls # <<>> /\ tree' = tree /\ Go(<<>>) /\ At \in Nodes
    BY <1>9, <1>w DEF HandOn, Calls
  <2>2. buf' \in [Nodes -> Seq(Whats)] /\ sink' \in [Nodes -> Seq(Seq(Whats))]
    BY <1>9, <2>1 DEF HandOn, FrontTypeOK
  <2>3. /\ calls' \in Seq(Frames(tree'))
        /\ \A k \in DOMAIN calls' : calls'[k].fn = "remember" => calls'[k].i \in DOMAIN tree'.kids[calls'[k].node]
    BY <2>1, TypeNone
  <2> QED BY <1>9, <2>1, <2>2, <2>3 DEF HandOn, FrontTypeOK, Nodes, Kids
<1>10. CASE Undefined
  BY <1>10 DEF Undefined, FrontTypeOK, Nodes, Kids
<1>11. ASSUME NEW log \in Logs, Record(log) PROVE FrontTypeOK'
  <2>1. tree' = tree /\ calls' = <<Call("flush", Root)>>
    BY <1>11 DEF Record
  <2>2. calls' \in Seq(Frames(tree)) /\ \A k \in DOMAIN calls' : calls'[k].fn # "remember"
    <3>1. Call("flush", Root) \in Frames(tree) /\ Call("flush", Root).fn = "flush"
      BY TreeFacts, CallType, CallFields DEF FrontTypeOK, Nodes, Fns
    <3> QED BY <2>1, <3>1
  <2>3. log.trace \in Whats /\ log.fields \in Seq(Texts)
    BY LogsAssumption DEF Whats
  <2>4. given' \in Seq(Logs)
    BY <1>11 DEF Record, FrontTypeOK
  <2> QED BY <1>11, <2>1, <2>2, <2>3, <2>4 DEF Record, FlushedAtFirst, FrontTypeOK, Nodes, Kids
<1>12. ASSUME NEW log \in Logs, RecordTooMany(log) PROVE FrontTypeOK'
  BY <1>12 DEF RecordTooMany, FrontTypeOK, Nodes, Kids
<1>13. CASE CloseAll
  <2>1. tree' = tree /\ calls' = <<Call("close", Root)>>
    BY <1>13 DEF CloseAll
  <2>2. calls' \in Seq(Frames(tree)) /\ \A k \in DOMAIN calls' : calls'[k].fn # "remember"
    <3>1. Call("close", Root) \in Frames(tree) /\ Call("close", Root).fn = "close"
      BY TreeFacts, CallType, CallFields DEF FrontTypeOK, Nodes, Fns
    <3> QED BY <2>1, <3>1
  <2> QED BY <1>13, <2>1, <2>2 DEF CloseAll, FrontTypeOK, Nodes, Kids
<1>14. CASE CloseNode
  <2>1. calls # <<>> /\ tree' = tree /\ conn' = At /\ Go(Append(CloseKids(At), Call("free", At)))
    BY <1>14 DEF CloseNode, Calls, TypedCall
  <2>2. CloseKids(At) \in Seq(Frames(tree)) /\ \A k \in DOMAIN CloseKids(At) : CloseKids(At)[k].fn = "close"
    BY <1>w, <2>1, KidsType, KidFields DEF CloseKids
  <2>3. \A k \in DOMAIN Append(CloseKids(At), Call("free", At)) :
          Append(CloseKids(At), Call("free", At))[k].fn \in {"close", "free"}
    <3>1. Call("free", At).fn = "free"
      BY DEF Call
    <3> QED BY <1>w, <2>1, <2>2, <3>1, AroundType
  <2>4. /\ calls' \in Seq(Frames(tree'))
        /\ \A k \in DOMAIN calls' : calls'[k].fn = "remember" => calls'[k].i \in DOMAIN tree'.kids[calls'[k].node]
    BY <1>w, <2>1, <2>2, <2>3, AroundType, TypeStack
  <2> QED BY <1>14, <1>w, <2>1, <2>4 DEF CloseNode, FrontTypeOK, Nodes, Kids
<1>15. CASE FreeNode
  <2>1. calls # <<>> /\ tree' = tree /\ Go(<<>>) /\ At \in Nodes
    BY <1>15, <1>w DEF FreeNode, Calls
  <2>2. closed' \in [Nodes -> Nat]
    BY <1>15, <2>1 DEF FreeNode, FrontTypeOK
  <2> QED BY <1>15, <2>1, <2>2, TypeNone DEF FreeNode, FrontTypeOK, Nodes, Kids
<1> QED BY <1>1, <1>2, <1>3, <1>4, <1>5, <1>6, <1>7, <1>8, <1>9, <1>10, <1>11, <1>12,
            <1>13, <1>14, <1>15 DEF FrontNext

-----------------------------------------------------------------------------
(* Opening *)

LEMMA PathOfKid ==
  ASSUME NEW t \in Trees, NEW n \in DOMAIN t.kind, NEW i \in DOMAIN t.kids[n],
         NEW o \in Path(t, n)
  PROVE  o \in Path(t, t.kids[n][i])
<1>1. t.kids[n][i] \in DOMAIN t.kind /\ KidOf(t, t.kids[n][i], n)
  BY TreeFacts DEF KidOf
<1> QED BY <1>1, PathParent

\* What is opened next, and what is opened then.
LEMMA ChainNext ==
  ASSUME FrontTypeOK, AllIn(calls, OpenFns), calls # <<>>, Chain, calls[1].fn # "opened"
  PROVE  /\ 2 \in DOMAIN calls /\ Len(calls) >= 2
         /\ \/ calls[2].fn = "opened" /\ At = Root /\ Len(calls) = 2
            \/ /\ calls[2].fn = "remember" /\ calls[2].i \in DOMAIN Kids(calls[2].node)
               /\ Kids(calls[2].node)[calls[2].i] = At /\ calls[2].node \in Nodes
<1>1. Len(calls) \in Nat /\ DOMAIN calls = 1..Len(calls) /\ 1 \in DOMAIN calls
  BY Next1 DEF FrontTypeOK
<1>2. Len(calls) # 1
  BY <1>1 DEF Chain
<1>3. 2 \in DOMAIN calls /\ Len(calls) >= 2 /\ 1 < Len(calls)
  BY <1>1, <1>2
<1>4. calls[2] \in Frames(tree)
  BY <1>3 DEF FrontTypeOK
<1>5. calls[2].fn \in OpenFns /\ calls[2].fn # "init"
  BY <1>3 DEF AllIn, Chain
<1>6. IF calls[1 + 1].fn = "opened" THEN calls[1].node = Root
      ELSE Kids(calls[1 + 1].node)[calls[1 + 1].i] = calls[1].node
  BY <1>1, <1>3 DEF Chain
<1>7. calls[1].node = At /\ 1 + 1 = 2
  BY Next1
<1>8. calls[2].fn = "opened" => Len(calls) = 2
  BY <1>3 DEF Chain
<1>9. calls[2].fn = "remember" => calls[2].i \in DOMAIN Kids(calls[2].node)
  BY <1>3 DEF FrontTypeOK
<1>10. calls[2].node \in Nodes
  BY <1>4 DEF Frames, Nodes
<1> QED BY <1>3, <1>5, <1>6, <1>7, <1>8, <1>9, <1>10 DEF OpenFns

\* The part of Chain that is about the stack only.
ChainIn(t, cs) ==
    /\ \A k \in DOMAIN cs :
         /\ (cs[k].fn = "opened") <=> (k = Len(cs))
         /\ cs[k].fn = "init" => k = 1
         /\ k < Len(cs) =>
              IF cs[k + 1].fn = "opened" THEN cs[k].node = Root
              ELSE t.kids[cs[k + 1].node][cs[k + 1].i] = cs[k].node
    /\ \A k, l \in DOMAIN cs :
         k < l /\ cs[l].fn = "remember" =>
           t.kids[cs[l].node][cs[l].i] \in Path(t, cs[k].node)

LEMMA ChainPop ==
  ASSUME NEW t, NEW F, NEW cs \in Seq(F), cs # <<>>, NEW new, Replaced(cs, <<>>, new),
         ChainIn(t, cs)
  PROVE  ChainIn(t, new) /\ \A k \in DOMAIN new : new[k].fn # "init"
<1>1. /\ new \in Seq(F) /\ Len(new) = Len(cs) - 1
      /\ Len(cs) \in Nat /\ Len(cs) > 0
      /\ DOMAIN new = 1..Len(new) /\ DOMAIN cs = 1..Len(cs)
      /\ \A k \in DOMAIN new : k + 1 \in DOMAIN cs /\ new[k] = cs[k + 1]
  BY Popped
<1>2. ASSUME NEW k \in DOMAIN new
      PROVE  /\ new[k].fn = "opened" <=> k = Len(new)
             /\ new[k].fn # "init"
             /\ k < Len(new) =>
                  IF new[k + 1].fn = "opened" THEN new[k].node = Root
                  ELSE t.kids[new[k + 1].node][new[k + 1].i] = new[k].node
  <2>1. k + 1 \in DOMAIN cs /\ new[k] = cs[k + 1] /\ k \in Nat /\ k > 0
    BY <1>1
  <2>2. (cs[k + 1].fn = "opened" <=> k + 1 = Len(cs)) /\ (cs[k + 1].fn = "init" => k + 1 = 1)
    BY <2>1 DEF ChainIn
  <2>3. ASSUME k < Len(new)
        PROVE  IF new[k + 1].fn = "opened" THEN new[k].node = Root
               ELSE t.kids[new[k + 1].node][new[k + 1].i] = new[k].node
    <3>1. k + 1 \in DOMAIN new /\ new[k + 1] = cs[(k + 1) + 1] /\ k + 1 < Len(cs)
      BY <1>1, <2>1, <2>3
    <3> QED BY <2>1, <3>1 DEF ChainIn
  <2> QED BY <1>1, <2>1, <2>2, <2>3
<1>3. ASSUME NEW k \in DOMAIN new, NEW l \in DOMAIN new, k < l, new[l].fn = "remember"
      PROVE  t.kids[new[l].node][new[l].i] \in Path(t, new[k].node)
  <2>1. k + 1 \in DOMAIN cs /\ l + 1 \in DOMAIN cs /\ k + 1 < l + 1 /\ new[k] = cs[k + 1] /\ new[l] = cs[l + 1]
    BY <1>1, <1>3
  <2> QED BY <1>3, <2>1 DEF ChainIn
<1> QED BY <1>2, <1>3 DEF ChainIn

LEMMA ChainPush ==
  ASSUME NEW t \in Trees, NEW F, NEW cs \in Seq(F), cs # <<>>,
         NEW more \in Seq(F), Len(more) = 2, NEW new, Replaced(cs, more, new),
         ChainIn(t, cs), cs[1].fn # "opened",
         NEW n \in DOMAIN t.kind, n = cs[1].node, NEW i \in DOMAIN t.kids[n],
         more[1].fn = "init", more[1].node = t.kids[n][i],
         more[2].fn = "remember", more[2].node = n, more[2].i = i
  PROVE  ChainIn(t, new)
<1>1. /\ new \in Seq(F) /\ Len(new) = Len(cs) + 1
      /\ Len(cs) \in Nat /\ Len(cs) > 0
      /\ DOMAIN new = 1..Len(new) /\ DOMAIN cs = 1..Len(cs)
      /\ new[1] = more[1] /\ new[2] = more[2]
      /\ \A k \in DOMAIN new : k > 2 => k - 1 \in DOMAIN cs /\ new[k] = cs[k - 1]
  BY PushedTwo
<1>2. Len(cs) >= 2
  <2>1. Len(cs) # 1
    BY <1>1 DEF ChainIn
  <2> QED BY <1>1, <2>1
<1>3. ASSUME NEW k \in DOMAIN new
      PROVE  /\ (new[k].fn = "opened") <=> (k = Len(new))
             /\ new[k].fn = "init" => k = 1
             /\ k < Len(new) =>
                  IF new[k + 1].fn = "opened" THEN new[k].node = Root
                  ELSE t.kids[new[k + 1].node][new[k + 1].i] = new[k].node
  <2>1. CASE k = 1
    <3>1. 2 \in DOMAIN new /\ 1 < Len(new) /\ 1 # Len(new)
      BY <1>1, <1>2
    <3> QED BY <1>1, <2>1, <3>1
  <2>2. CASE k = 2
    <3>1. 3 \in DOMAIN new /\ 2 < Len(new) /\ 2 # Len(new) /\ 1 \in DOMAIN cs /\ 1 < Len(cs)
      BY <1>1, <1>2
    <3>2. new[3] = cs[2]
      <4>1. new[3] = cs[3 - 1]
        BY <1>1, <3>1
      <4>2. 3 - 1 = 2
        OBVIOUS
      <4> QED BY <4>1, <4>2
    <3>3. IF cs[1 + 1].fn = "opened" THEN cs[1].node = Root
          ELSE t.kids[cs[1 + 1].node][cs[1 + 1].i] = cs[1].node
      BY <3>1 DEF ChainIn
    <3>4. IF new[3].fn = "opened" THEN new[2].node = Root
          ELSE t.kids[new[3].node][new[3].i] = new[2].node
      <4>1. new[2].node = cs[1].node /\ 1 + 1 = 2
        BY <1>1
      <4> QED BY <3>2, <3>3, <4>1
    <3> QED BY <1>1, <2>2, <3>1, <3>4
  <2>3. CASE k > 2
    <3>1. k - 1 \in DOMAIN cs /\ new[k] = cs[k - 1] /\ k - 1 > 1 /\ (k - 1) + 1 = k
      BY <1>1, <2>3
    <3>2. /\ (cs[k - 1].fn = "opened") <=> (k - 1 = Len(cs))
          /\ cs[k - 1].fn = "init" => k - 1 = 1
      BY <3>1 DEF ChainIn
    <3>3. ASSUME k < Len(new)
          PROVE  IF new[k + 1].fn = "opened" THEN new[k].node = Root
                 ELSE t.kids[new[k + 1].node][new[k + 1].i] = new[k].node
      <4>1. k + 1 \in DOMAIN new /\ k + 1 > 2 /\ k - 1 < Len(cs) /\ (k + 1) - 1 = k
        <5>1. k \in Nat /\ Len(new) = Len(cs) + 1 /\ Len(cs) \in Nat
          BY <1>1
        <5>2. k + 1 \in DOMAIN new
          BY <1>1, <5>1, <3>3
        <5>3. k + 1 > 2 /\ k - 1 < Len(cs) /\ (k + 1) - 1 = k
          BY <2>3, <3>3, <5>1
        <5> QED BY <5>2, <5>3
      <4>2. IF cs[(k - 1) + 1].fn = "opened" THEN cs[k - 1].node = Root
            ELSE t.kids[cs[(k - 1) + 1].node][cs[(k - 1) + 1].i] = cs[k - 1].node
        BY <3>1, <4>1 DEF ChainIn
      <4>3. new[k + 1] = cs[(k + 1) - 1]
        BY <1>1, <4>1
      <4> QED BY <3>1, <4>1, <4>2, <4>3
    <3>4. (k - 1 = Len(cs)) <=> (k = Len(new))
      BY <1>1
    <3>5. k - 1 # 1
      BY <3>1
    <3> QED BY <3>1, <3>2, <3>3, <3>4, <3>5
  <2>4. k = 1 \/ k = 2 \/ k > 2
    BY <1>1
  <2> QED BY <2>1, <2>2, <2>3, <2>4
<1>4. ASSUME NEW k \in DOMAIN new, NEW l \in DOMAIN new, k < l, new[l].fn = "remember"
      PROVE  t.kids[new[l].node][new[l].i] \in Path(t, new[k].node)
  <2>1. CASE l = 2
    <3>1. k = 1 /\ t.kids[n][i] \in DOMAIN t.kind
      BY <1>1, <1>4, <2>1, TreeFacts
    <3> QED BY <1>1, <2>1, <3>1, PathType
  <2>2. CASE l > 2
    <3>1. l - 1 \in DOMAIN cs /\ new[l] = cs[l - 1] /\ l - 1 > 1 /\ 1 \in DOMAIN cs
      BY <1>1, <2>2
    <3>2. t.kids[new[l].node][new[l].i] \in Path(t, n)
      BY <1>4, <3>1 DEF ChainIn
    <3>3. CASE k = 1
      BY <1>1, <3>2, <3>3, PathOfKid
    <3>4. CASE k = 2
      BY <1>1, <3>2, <3>4
    <3>5. CASE k > 2
      <4>1. k - 1 \in DOMAIN cs /\ new[k] = cs[k - 1] /\ k - 1 < l - 1
        BY <1>1, <1>4, <3>5
      <4>2. cs[l - 1].fn = "remember"
        BY <1>4, <3>1
      <4>3. t.kids[cs[l - 1].node][cs[l - 1].i] \in Path(t, cs[k - 1].node)
        BY <3>1, <4>1, <4>2 DEF ChainIn
      <4> QED BY <3>1, <4>1, <4>3
    <3> QED BY <1>1, <3>3, <3>4, <3>5
  <2> QED BY <1>1, <1>4, <2>1, <2>2
<1> QED BY <1>3, <1>4 DEF ChainIn

LEMMA InitPending ==
  ASSUME NEW t \in Trees, NEW cs \in Seq(Frames(t)), cs # <<>>, NEW more \in Seq(Frames(t)),
         NEW new, Replaced(cs, more, new),
         cs[1].fn = "init", NEW m \in DOMAIN t.kind, m = cs[1].node, cs[1] \in Frames(t),
         \/ t.kids[m] = <<>> /\ more = <<>>
         \/ /\ 1 \in DOMAIN t.kids[m] /\ DOMAIN more = {1, 2}
            /\ more[1].fn = "init" /\ more[1].node = t.kids[m][1] /\ more[1] \in Frames(t)
            /\ more[2].fn = "remember" /\ more[2].node = m /\ more[2].i = 1 /\ more[2] \in Frames(t),
         NEW n \in DOMAIN t.kind, NEW i \in DOMAIN t.kids[n]
  PROVE  Pending(t, new, n, i) <=> Pending(t, cs, n, i)
<1> DEFINE P == RememberSet(t, n, i)
<1>1. cs[1] \in P <=> m \in Path(t, n)
  BY DEF RememberSet, Remembers
<1>2. t.kids[n] \in Seq(DOMAIN t.kind) /\ t.kids[m] \in Seq(DOMAIN t.kind) /\ i \in Nat /\ i >= 1
  <2>1. t.kids[n] \in Seq(DOMAIN t.kind) /\ t.kids[m] \in Seq(DOMAIN t.kind)
    BY TreeFacts
  <2>2. DOMAIN t.kids[n] = 1..Len(t.kids[n]) /\ Len(t.kids[n]) \in Nat
    BY <2>1
  <2> QED BY <2>1, <2>2
<1>3. SomeIn(more, P) <=> m \in Path(t, n)
  <2>1. CASE t.kids[m] = <<>> /\ more = <<>>
    <3>1. ~SomeIn(more, P)
      BY <2>1 DEF SomeIn
    <3>2. n # m
      BY <2>1
    <3>3. m \notin Path(t, n)
      BY <2>1, <3>2, PathDown
    <3> QED BY <3>1, <3>3
  <2>2. CASE /\ 1 \in DOMAIN t.kids[m] /\ DOMAIN more = {1, 2}
             /\ more[1].fn = "init" /\ more[1].node = t.kids[m][1] /\ more[1] \in Frames(t)
             /\ more[2].fn = "remember" /\ more[2].node = m /\ more[2].i = 1 /\ more[2] \in Frames(t)
    <3>1. more[1] \in P <=> t.kids[m][1] \in Path(t, n)
      BY <2>2 DEF RememberSet, Remembers
    <3>2. more[2] \in P <=> m = n \/ \E j \in DOMAIN t.kids[m] : j > 1 /\ t.kids[m][j] \in Path(t, n)
      <4>1. more[2] \in P <=> (m = n /\ 1 <= i) \/ \E j \in DOMAIN t.kids[m] : j > 1 /\ t.kids[m][j] \in Path(t, n)
        BY <2>2 DEF RememberSet, Remembers
      <4> QED BY <1>2, <4>1
    <3>3. SomeIn(more, P) <=> more[1] \in P \/ more[2] \in P
      BY <2>2 DEF SomeIn
    <3>4. ASSUME NEW j \in DOMAIN t.kids[m], t.kids[m][j] \in Path(t, n) PROVE m \in Path(t, n)
      BY <3>4, PathKid
    <3>5. m = n => m \in Path(t, n)
      BY PathType
    <3>6. ASSUME m \in Path(t, n), m # n
          PROVE  t.kids[m][1] \in Path(t, n) \/ \E j \in DOMAIN t.kids[m] : j > 1 /\ t.kids[m][j] \in Path(t, n)
      <4>1. PICK j \in DOMAIN t.kids[m] : t.kids[m][j] \in Path(t, n)
        BY <3>6, PathDown
      <4>2. j = 1 \/ j > 1
        <5>1. DOMAIN t.kids[m] = 1..Len(t.kids[m]) /\ Len(t.kids[m]) \in Nat
          BY <1>2
        <5> QED BY <5>1
      <4> QED BY <4>1, <4>2
    <3> QED BY <2>2, <3>1, <3>2, <3>3, <3>4, <3>5, <3>6, Zenon
  <2> QED BY <2>1, <2>2
<1> HIDE DEF P
<1>4. /\ SomeIn(new, P) <=> SomeIn(more, P) \/ \E k \in DOMAIN cs : k > 1 /\ cs[k] \in P
      /\ SomeIn(cs, P) <=> cs[1] \in P \/ \E k \in DOMAIN cs : k > 1 /\ cs[k] \in P
  BY PushSome
<1>5. SomeIn(new, P) <=> SomeIn(cs, P)
  BY <1>1, <1>3, <1>4, Zenon
<1> QED BY <1>5 DEF Pending, P

OpenStack(t, cs) ==
    /\ ChainIn(t, cs)
    /\ \A k \in DOMAIN cs : /\ cs[k].fn \in OpenFns
                            /\ cs[k].fn = "remember" => cs[k].i \in DOMAIN t.kids[cs[k].node]

\* After the j-th child of m there is no other, or the next is opened.
NextKid(t, more, m, j) ==
    \/ j = Len(t.kids[m]) /\ more = <<>>
    \/ /\ j + 1 \in DOMAIN t.kids[m] /\ DOMAIN more = {1, 2}
       /\ more[1].fn = "init" /\ more[1].node = t.kids[m][j + 1] /\ more[1] \in Frames(t)
       /\ more[2].fn = "remember" /\ more[2].node = m /\ more[2].i = j + 1 /\ more[2] \in Frames(t)

\* The next frame of cs remembers fn_key for the j-th child of m.
Remembering(t, cs, more, m, j) ==
    /\ OpenStack(t, cs) /\ NextKid(t, more, m, j)
    /\ cs[1].fn = "remember" /\ cs[1] \in Frames(t)
    /\ m \in DOMAIN t.kind /\ m = cs[1].node
    /\ j \in DOMAIN t.kids[m] /\ j = cs[1].i

LEMMA RememberPending ==
  ASSUME NEW t \in Trees, NEW cs \in Seq(Frames(t)), cs # <<>>, NEW more \in Seq(Frames(t)),
         NEW new, Replaced(cs, more, new), NEW m, NEW j, Remembering(t, cs, more, m, j)
  PROVE  /\ Pending(t, cs, m, j) /\ ~Pending(t, new, m, j)
         /\ \A n \in DOMAIN t.kind : \A i \in DOMAIN t.kids[n] :
              /\ Pending(t, new, n, i) => Pending(t, cs, n, i)
              /\ Pending(t, cs, n, i) /\ ~(n = m /\ i = j) => Pending(t, new, n, i)
<1>0. /\ ChainIn(t, cs)
      /\ \A k \in DOMAIN cs : /\ cs[k].fn \in OpenFns
                              /\ cs[k].fn = "remember" => cs[k].i \in DOMAIN t.kids[cs[k].node]
      /\ cs[1].fn = "remember" /\ cs[1] \in Frames(t)
      /\ m \in DOMAIN t.kind /\ m = cs[1].node
      /\ j \in DOMAIN t.kids[m] /\ j = cs[1].i
      /\ \/ j = Len(t.kids[m]) /\ more = <<>>
         \/ /\ j + 1 \in DOMAIN t.kids[m] /\ DOMAIN more = {1, 2}
            /\ more[1].fn = "init" /\ more[1].node = t.kids[m][j + 1] /\ more[1] \in Frames(t)
            /\ more[2].fn = "remember" /\ more[2].node = m /\ more[2].i = j + 1 /\ more[2] \in Frames(t)
  BY DEF Remembering, OpenStack, NextKid
<1> USE <1>0
<1>1. \A n \in DOMAIN t.kind : /\ DOMAIN t.kids[n] = 1..Len(t.kids[n]) /\ Len(t.kids[n]) \in Nat
  <2> SUFFICES ASSUME NEW n \in DOMAIN t.kind
               PROVE  DOMAIN t.kids[n] = 1..Len(t.kids[n]) /\ Len(t.kids[n]) \in Nat
    OBVIOUS
  <2>1. t.kids[n] \in Seq(DOMAIN t.kind)
    BY TreeFacts
  <2> QED BY <2>1
<1>2. ASSUME NEW n \in DOMAIN t.kind, NEW i \in DOMAIN t.kids[n], NEW P, P = RememberSet(t, n, i)
      PROVE  /\ cs[1] \in P <=> (m = n /\ j <= i) \/ \E l \in DOMAIN t.kids[m] : l > j /\ t.kids[m][l] \in Path(t, n)
             /\ SomeIn(more, P) <=>
                  (m = n /\ j + 1 <= i) \/ \E l \in DOMAIN t.kids[m] : l > j /\ t.kids[m][l] \in Path(t, n)
             /\ SomeIn(new, P) <=> SomeIn(more, P) \/ \E k \in DOMAIN cs : k > 1 /\ cs[k] \in P
             /\ SomeIn(cs, P) <=> cs[1] \in P \/ \E k \in DOMAIN cs : k > 1 /\ cs[k] \in P
  <2>1. cs[1] \in P <=> (m = n /\ j <= i) \/ \E l \in DOMAIN t.kids[m] : l > j /\ t.kids[m][l] \in Path(t, n)
    BY <1>2 DEF RememberSet, Remembers
  <2>2. SomeIn(more, P) <=>
          (m = n /\ j + 1 <= i) \/ \E l \in DOMAIN t.kids[m] : l > j /\ t.kids[m][l] \in Path(t, n)
    <3>0. /\ DOMAIN t.kids[m] = 1..Len(t.kids[m]) /\ Len(t.kids[m]) \in Nat
          /\ DOMAIN t.kids[n] = 1..Len(t.kids[n]) /\ Len(t.kids[n]) \in Nat
      BY <1>1
    <3>1. CASE j = Len(t.kids[m]) /\ more = <<>>
      <4>1. ~SomeIn(more, P)
        BY <3>1 DEF SomeIn
      <4>2. ~(m = n /\ j + 1 <= i)
        BY <3>0, <3>1
      <4>3. \A l \in DOMAIN t.kids[m] : ~(l > j)
        BY <3>0, <3>1
      <4> QED BY <4>1, <4>2, <4>3
    <3>2. CASE /\ j + 1 \in DOMAIN t.kids[m] /\ DOMAIN more = {1, 2}
               /\ more[1].fn = "init" /\ more[1].node = t.kids[m][j + 1] /\ more[1] \in Frames(t)
               /\ more[2].fn = "remember" /\ more[2].node = m /\ more[2].i = j + 1 /\ more[2] \in Frames(t)
      <4>1. more[1] \in P <=> t.kids[m][j + 1] \in Path(t, n)
        BY <1>2, <3>2 DEF RememberSet, Remembers
      <4>2. more[2] \in P <=>
              (m = n /\ j + 1 <= i) \/ \E l \in DOMAIN t.kids[m] : l > j + 1 /\ t.kids[m][l] \in Path(t, n)
        BY <1>2, <3>2 DEF RememberSet, Remembers
      <4>3. SomeIn(more, P) <=> more[1] \in P \/ more[2] \in P
        BY <3>2 DEF SomeIn
      <4>4. \A l \in DOMAIN t.kids[m] : l > j <=> l = j + 1 \/ l > j + 1
        BY <3>0
      <4> QED BY <3>2, <4>1, <4>2, <4>3, <4>4, Zenon
    <3> QED BY <3>1, <3>2
  <2>3. /\ SomeIn(new, P) <=> SomeIn(more, P) \/ \E k \in DOMAIN cs : k > 1 /\ cs[k] \in P
        /\ SomeIn(cs, P) <=> cs[1] \in P \/ \E k \in DOMAIN cs : k > 1 /\ cs[k] \in P
    BY PushSome
  <2> QED BY <2>1, <2>2, <2>3
<1>3. Pending(t, cs, m, j)
  <2>1. j <= j
    BY <1>1
  <2>2. cs[1] \in RememberSet(t, m, j)
    BY <1>2, <2>1
  <2> QED BY <1>2, <2>2 DEF Pending
<1>4. ~Pending(t, new, m, j)
  <2> DEFINE P == RememberSet(t, m, j)
  <2>1. ~SomeIn(more, P)
    <3>1. \A l \in DOMAIN t.kids[m] : t.kids[m][l] \notin Path(t, m)
      BY PathKid
    <3>2. ~(j + 1 <= j)
      BY <1>1
    <3> QED BY <1>2, <3>1, <3>2
  <2>2. ASSUME NEW k \in DOMAIN cs, k > 1, cs[k] \in P PROVE FALSE
    <3> DEFINE c == cs[k] n == c.node
    <3>1. c \in Frames(t) /\ Remembers(t, c, m, j) /\ n \in DOMAIN t.kind
      BY <2>2 DEF RememberSet, Frames
    <3>2. c.fn # "init" /\ c.fn \in OpenFns
      BY <2>2 DEF ChainIn
    <3>3. c.fn = "remember"
      BY <3>1, <3>2 DEF Remembers
    <3>4. c.i \in DOMAIN t.kids[n] /\ 1 \in DOMAIN cs
      BY <2>2, <3>3, Pushed
    <3>5. t.kids[n][c.i] \in Path(t, m)
      BY <2>2, <3>3, <3>4 DEF ChainIn
    <3>6. n \in Path(t, m) /\ n # m
      BY <3>1, <3>4, <3>5, PathKid
    <3>7. PICK l \in DOMAIN t.kids[n] : l > c.i /\ t.kids[n][l] \in Path(t, m)
      BY <3>1, <3>3, <3>6 DEF Remembers
    <3>8. l = c.i
      BY <3>4, <3>5, <3>6, <3>7, PathOne
    <3>9. c.i \in Nat
      BY <3>1 DEF Frames
    <3> QED BY <3>7, <3>8, <3>9
  <2> QED BY <1>2, <2>1, <2>2 DEF Pending
<1>5. ASSUME NEW n \in DOMAIN t.kind, NEW i \in DOMAIN t.kids[n]
      PROVE  /\ Pending(t, new, n, i) => Pending(t, cs, n, i)
             /\ Pending(t, cs, n, i) /\ ~(n = m /\ i = j) => Pending(t, new, n, i)
  <2> DEFINE P == RememberSet(t, n, i)
  <2>0. i \in Nat /\ j \in Nat
    BY <1>1
  <2>1. (j + 1 <= i) <=> (j <= i /\ i # j)
    BY <2>0
  <2>2. /\ cs[1] \in P <=> (m = n /\ j <= i) \/ \E l \in DOMAIN t.kids[m] : l > j /\ t.kids[m][l] \in Path(t, n)
        /\ SomeIn(more, P) <=>
             (m = n /\ j + 1 <= i) \/ \E l \in DOMAIN t.kids[m] : l > j /\ t.kids[m][l] \in Path(t, n)
        /\ SomeIn(new, P) <=> SomeIn(more, P) \/ \E k \in DOMAIN cs : k > 1 /\ cs[k] \in P
        /\ SomeIn(cs, P) <=> cs[1] \in P \/ \E k \in DOMAIN cs : k > 1 /\ cs[k] \in P
    BY <1>2
  <2> HIDE DEF P
  <2>3. /\ SomeIn(new, P) => SomeIn(cs, P)
        /\ SomeIn(cs, P) /\ ~(n = m /\ i = j) => SomeIn(new, P)
    BY <2>1, <2>2, Zenon
  <2> QED BY <2>3 DEF P, Pending
<1> QED BY <1>3, <1>4, <1>5

\* Chain is ChainIn of the stack and what is known of fn_key.
LEMMA ChainIs ==
  Chain <=> /\ ChainIn(tree, calls)
            /\ calls[1].fn = "opened" => key = KeyOf(Root)
            /\ calls[1].fn = "init" /\ calls[1].node = Root => key = "leaf"
  BY DEF Chain, ChainIn, Kids

LEMMA ChainIsNext ==
  Chain' <=> /\ ChainIn(tree', calls')
             /\ (calls[1].fn)' = "opened" => key' = (KeyOf(Root))'
             /\ (calls[1].fn)' = "init" /\ (calls[1].node)' = Root => key' = "leaf"
  BY DEF Chain, ChainIn, Kids

LEMMA OpeningInit ==
  ASSUME FrontInit
  PROVE  FrontInv
<1>1. FrontTypeOK
  BY TypeInit
<1>2. /\ status = "opening" /\ given = <<>> /\ ~bad /\ key = "leaf"
      /\ seq = 0 /\ fmt = <<>> /\ \A m \in Nodes : buf[m] = <<>> /\ sink[m] = <<>> /\ closed[m] = 0
  BY DEF FrontInit
<1>3. /\ DOMAIN calls = {1, 2} /\ Len(calls) = 2 /\ calls # <<>>
      /\ calls[1].fn = "init" /\ calls[1].node = Root
      /\ calls[2].fn = "opened" /\ calls[2].node = Root
  <2>1. calls = <<Call("init", Root), Call("opened", Root)>>
    BY DEF FrontInit
  <2>2. /\ Call("init", Root).fn = "init" /\ Call("init", Root).node = Root
        /\ Call("opened", Root).fn = "opened" /\ Call("opened", Root).node = Root
    BY DEF Call
  <2> QED BY <2>1, <2>2
<1>4. Phases
  BY <1>2, <1>3 DEF Phases, AllIn, OpenFns
<1>5. Chain
  BY <1>2, <1>3, ChainIs DEF ChainIn
<1>6. ASSUME NEW n \in Nodes, NEW i PROVE Pending(tree, calls, n, i)
  <2>1. Root \in Path(tree, n) /\ calls[1] \in Frames(tree)
    BY <1>1, <1>3, PathRoot DEF FrontTypeOK, Nodes
  <2> QED BY <1>3, <2>1 DEF Pending, SomeIn, RememberSet, Remembers
<1>7. OpenSound
  BY <1>2, <1>3, <1>6 DEF OpenSound
<1>8. OpenUnsound
  <2>1. \A n \in Nodes : \A i \in DOMAIN Kids(n) : Kids(n)[i] \in Nodes
    BY <1>1, TreeFacts DEF FrontTypeOK, Nodes, Kids
  <2> QED BY <1>6, <2>1 DEF OpenUnsound, Stain
<1>9. Untouched
  BY <1>2 DEF Untouched
<1> QED BY <1>1, <1>2, <1>4, <1>5, <1>7, <1>8, <1>9 DEF FrontInv, OpeningInv

\* What is known when a log is opened.
LEMMA OpeningFacts ==
  ASSUME FrontInv, status = "opening"
  PROVE  /\ FrontTypeOK /\ tree \in Trees /\ DOMAIN tree.kind = Nodes
         /\ calls \in Seq(Frames(tree)) /\ calls # <<>> /\ given = <<>> /\ ~bad
         /\ Chain /\ ChainIn(tree, calls) /\ OpenSound /\ OpenUnsound /\ Untouched
         /\ \A m \in Nodes : closed[m] = 0
         /\ \A k \in DOMAIN calls :
              /\ calls[k].fn \in OpenFns
              /\ calls[k].fn = "remember" => calls[k].i \in DOMAIN tree.kids[calls[k].node]
         /\ 1 \in DOMAIN calls /\ Head(calls) = calls[1] /\ calls[1] \in Frames(tree)
         /\ At \in Nodes /\ calls[1].node = At
<1>1. /\ FrontTypeOK /\ calls # <<>> /\ given = <<>> /\ ~bad /\ AllIn(calls, OpenFns)
      /\ Chain /\ OpenSound /\ OpenUnsound /\ Untouched
      /\ \A m \in Nodes : closed[m] = 0
  BY DEF FrontInv, Phases, OpeningInv
<1>2. ChainIn(tree, calls)
  BY <1>1, ChainIs
<1>3. tree \in Trees /\ DOMAIN tree.kind = Nodes /\ calls \in Seq(Frames(tree))
  BY <1>1 DEF FrontTypeOK, Nodes
<1>4. \A k \in DOMAIN calls :
        /\ calls[k].fn \in OpenFns
        /\ calls[k].fn = "remember" => calls[k].i \in DOMAIN tree.kids[calls[k].node]
  BY <1>1 DEF AllIn, FrontTypeOK, Kids
<1> QED BY <1>1, <1>2, <1>3, <1>4, Next1

LEMMA OpeningInitNode ==
  ASSUME FrontInv, status = "opening", InitNode
  PROVE  OpeningInv' /\ calls' # <<>> /\ AllIn(calls, OpenFns)'
<1>1. /\ calls[1].fn = "init" /\ tree' = tree /\ saved' = saved /\ key' = key
      /\ Nodes' = Nodes
      /\ Go(IF Leaf(At) THEN <<>> ELSE OpenKid(At, 1))
  BY OpeningFacts DEF InitNode, Calls, opened, Nodes
<1>2. /\ FrontTypeOK /\ tree \in Trees /\ DOMAIN tree.kind = Nodes
      /\ calls \in Seq(Frames(tree)) /\ calls # <<>>
      /\ Chain /\ ChainIn(tree, calls) /\ OpenSound /\ OpenUnsound /\ Untouched
      /\ \A k \in DOMAIN calls :
           /\ calls[k].fn \in OpenFns
           /\ calls[k].fn = "remember" => calls[k].i \in DOMAIN tree.kids[calls[k].node]
      /\ 1 \in DOMAIN calls /\ calls[1] \in Frames(tree)
      /\ At \in Nodes /\ calls[1].node = At
  BY OpeningFacts
<1>3. Untouched'
  BY <1>1, <1>2 DEF InitNode, Untouched, table, leaves
<1>4. /\ 2 \in DOMAIN calls /\ Len(calls) >= 2
      /\ \/ calls[2].fn = "opened" /\ At = Root /\ Len(calls) = 2
         \/ /\ calls[2].fn = "remember" /\ calls[2].i \in DOMAIN Kids(calls[2].node)
            /\ Kids(calls[2].node)[calls[2].i] = At /\ calls[2].node \in Nodes
  <2>1. AllIn(calls, OpenFns) /\ calls[1].fn # "opened"
    BY <1>1, <1>2 DEF AllIn
  <2> QED BY <1>2, <2>1, ChainNext
<1>5. /\ Kids(At) = tree.kids[At] /\ Kids(At) \in Seq(Nodes)
      /\ (Kids(At) # <<>>) <=> ~Leaf(At)
      /\ ~Leaf(At) <=> 1 \in DOMAIN Kids(At)
  BY <1>2, KidsType DEF Kids
<1>6. Sound(tree) => key = "leaf"
  BY <1>1, <1>2 DEF OpenSound
<1>7. CASE Leaf(At)
  <2>1. Replaced(calls, <<>>, calls') /\ Kids(At) = <<>>
    BY <1>1, <1>5, <1>7 DEF Go, Replaced
  <2>2. /\ calls' \in Seq(Frames(tree)) /\ Len(calls') = Len(calls) - 1 /\ Len(calls) \in Nat
        /\ DOMAIN calls' = 1..Len(calls')
        /\ \A k \in DOMAIN calls' : k + 1 \in DOMAIN calls /\ calls'[k] = calls[k + 1]
    BY <1>2, <2>1, Popped
  <2>3. calls' # <<>> /\ 1 \in DOMAIN calls' /\ calls'[1] = calls[2]
    <3>1. 1 \in DOMAIN calls'
      BY <1>4, <2>2
    <3>2. 1 + 1 = 2
      OBVIOUS
    <3> QED BY <2>2, <3>1, <3>2
  <2>4. \A n \in Nodes : \A i \in DOMAIN Kids(n) : Pending(tree, calls', n, i) <=> Pending(tree, calls, n, i)
    <3>1. <<>> \in Seq(Frames(tree))
      OBVIOUS
    <3>2. calls[1].fn = "init" /\ At \in DOMAIN tree.kind /\ At = calls[1].node /\ tree.kids[At] = <<>>
      BY <1>1, <1>2, <1>5, <2>1
    <3>3. \A n \in DOMAIN tree.kind : \A i \in DOMAIN tree.kids[n] :
            Pending(tree, calls', n, i) <=> Pending(tree, calls, n, i)
      BY <1>2, <2>1, <3>1, <3>2, InitPending
    <3> QED BY <1>2, <3>3 DEF Kids
  <2>5. ChainIn(tree, calls') /\ \A k \in DOMAIN calls' : calls'[k].fn # "init"
    BY <1>2, <2>1, ChainPop
  <2>6. Chain'
    <3>1. calls'[1].fn = "opened" => key = KeyOf(Root)
      BY <1>1, <1>2, <1>4, <1>7, <2>3, ChainIs DEF KeyOf
    <3> QED BY <1>1, <2>3, <2>5, <3>1, ChainIsNext DEF KeyOf, Leaf
  <2>7. OpenSound'
    <3> SUFFICES ASSUME Sound(tree)
                 PROVE  /\ key = "leaf"
                        /\ calls'[1].fn = "remember" => key = KeyOf(Kids(calls'[1].node)[calls'[1].i])
                        /\ \A n \in Nodes : \A i \in DOMAIN Kids(n) : Right(n, i) \/ Pending(tree, calls', n, i)
      BY <1>1 DEF OpenSound, Right, KeyOf, Leaf, Kids
    <3>1. key = "leaf"
      BY <1>6
    <3>2. calls'[1].fn = "remember" => key = KeyOf(Kids(calls'[1].node)[calls'[1].i])
      BY <1>4, <1>7, <2>3, <3>1 DEF KeyOf
    <3> QED BY <1>2, <2>4, <3>1, <3>2 DEF OpenSound
  <2>8. OpenUnsound'
    <3> SUFFICES ASSUME NEW n \in Nodes, NEW i \in DOMAIN Kids(n), Early(n, i)
                 PROVE  \/ Pending(tree, calls', Kids(n)[i], Len(Kids(Kids(n)[i])))
                        \/ calls'[1].fn = "remember" /\ Leaf(Kids(calls'[1].node)[calls'[1].i]) /\ key # "leaf"
                        \/ \E m \in Nodes : \E j \in DOMAIN Kids(m) : ~Right(m, j) /\ ~Pending(tree, calls', m, j)
      BY <1>1 DEF OpenUnsound, Early, Stain, Right, KeyOf, Leaf, Kids
    <3>1. Kids(n)[i] \in Nodes /\ Len(Kids(Kids(n)[i])) \in DOMAIN Kids(Kids(n)[i])
      <4>1. Kids(n)[i] \in Nodes
        BY <1>2, KidsType
      <4>2. 1 \in DOMAIN Kids(Kids(n)[i])
        BY <1>2, <4>1, KidsType DEF Early
      <4> QED BY <1>2, <4>1, <4>2, KidsType
    <3>2. \/ Pending(tree, calls, Kids(n)[i], Len(Kids(Kids(n)[i])))
          \/ calls[1].node # Root /\ key # "leaf"
          \/ \E m \in Nodes : \E j \in DOMAIN Kids(m) : ~Right(m, j) /\ ~Pending(tree, calls, m, j)
      BY <1>1, <1>2 DEF OpenUnsound, Stain
    <3>3. CASE calls[1].node # Root /\ key # "leaf"
      BY <1>2, <1>4, <1>7, <2>3, <3>3
    <3> QED BY <2>4, <3>1, <3>2, <3>3
  <2>9. AllIn(calls, OpenFns)'
    BY <1>2, <2>2 DEF AllIn, OpenFns
  <2> QED BY <1>3, <2>3, <2>6, <2>7, <2>8, <2>9 DEF OpeningInv
<1>8. CASE ~Leaf(At)
  <2> DEFINE more == OpenKid(At, 1)
  <2>1. Replaced(calls, more, calls') /\ 1 \in DOMAIN Kids(At)
    BY <1>1, <1>5, <1>8 DEF Go, Replaced
  <2>2. /\ more \in Seq(Frames(tree)) /\ Len(more) = 2 /\ DOMAIN more = {1, 2}
        /\ more[1].fn = "init" /\ more[1].node = Kids(At)[1]
        /\ more[2].fn = "remember" /\ more[2].node = At /\ more[2].i = 1
        /\ more[1] \in Frames(tree) /\ more[2] \in Frames(tree)
    <3>1. /\ more \in Seq(Frames(tree)) /\ Len(more) = 2 /\ more[1] = Call("init", Kids(At)[1])
          /\ more[2].fn = "remember" /\ more[2].node = At /\ more[2].i = 1
      BY <1>2, <2>1, OpenKidType
    <3>2. Call("init", Kids(At)[1]).fn = "init" /\ Call("init", Kids(At)[1]).node = Kids(At)[1]
      BY DEF Call
    <3> HIDE DEF more
    <3>3. DOMAIN more = {1, 2} /\ more[1] \in Frames(tree) /\ more[2] \in Frames(tree)
      <4>1. more \in Seq(Frames(tree)) /\ Len(more) = 2
        BY <3>1
      <4>2. DOMAIN more = 1..2
        BY <4>1
      <4>3. DOMAIN more = {1, 2}
        BY <4>2
      <4> QED BY <4>1, <4>2, <4>3
    <3> QED BY <3>1, <3>2, <3>3
  <2> HIDE DEF more
  <2>3. /\ calls' \in Seq(Frames(tree)) /\ Len(calls') = Len(calls) + 1
        /\ Len(calls) \in Nat /\ Len(calls) > 0
        /\ DOMAIN calls' = 1..Len(calls') /\ DOMAIN calls = 1..Len(calls)
        /\ calls'[1] = more[1] /\ calls'[2] = more[2]
        /\ \A k \in DOMAIN calls' : k > 2 => k - 1 \in DOMAIN calls /\ calls'[k] = calls[k - 1]
    BY <1>2, <2>1, <2>2, PushedTwo
  <2>4. \A n \in Nodes : \A i \in DOMAIN Kids(n) : Pending(tree, calls', n, i) <=> Pending(tree, calls, n, i)
    BY <1>1, <1>2, <1>5, <2>1, <2>2, InitPending DEF Kids
  <2>5. ChainIn(tree, calls')
    <3>1. /\ tree \in Trees /\ calls \in Seq(Frames(tree)) /\ calls # <<>>
          /\ ChainIn(tree, calls) /\ calls[1].fn # "opened"
          /\ At \in DOMAIN tree.kind /\ At = calls[1].node
      BY <1>1, <1>2
    <3>2. Replaced(calls, more, calls') /\ 1 \in DOMAIN tree.kids[At]
      BY <1>5, <2>1
    <3>3. /\ more \in Seq(Frames(tree)) /\ Len(more) = 2
          /\ more[1].fn = "init" /\ more[1].node = tree.kids[At][1]
          /\ more[2].fn = "remember" /\ more[2].node = At /\ more[2].i = 1
      BY <1>5, <2>2
    <3> QED BY <3>1, <3>2, <3>3, ChainPush
  <2>6. Kids(At)[1] # Root /\ calls' # <<>>
    <3>1. Kids(At)[1] > At /\ At \in Nat /\ At > 0
      BY <1>2, <1>5, <2>1, TreeFacts
    <3>2. calls' # <<>>
      BY <2>3
    <3> QED BY <3>1, <3>2 DEF Root
  <2>7. Chain'
    BY <1>1, <2>2, <2>3, <2>5, <2>6, ChainIsNext
  <2>8. OpenSound'
    <3> SUFFICES ASSUME Sound(tree)
                 PROVE  /\ key = "leaf"
                        /\ calls'[1].fn = "remember" => key = KeyOf(Kids(calls'[1].node)[calls'[1].i])
                        /\ \A n \in Nodes : \A i \in DOMAIN Kids(n) : Right(n, i) \/ Pending(tree, calls', n, i)
      BY <1>1 DEF OpenSound, Right, KeyOf, Leaf, Kids
    <3> QED BY <1>2, <1>6, <2>2, <2>3, <2>4 DEF OpenSound
  <2>9. OpenUnsound'
    <3> SUFFICES ASSUME NEW n \in Nodes, NEW i \in DOMAIN Kids(n), Early(n, i)
                 PROVE  \/ Pending(tree, calls', Kids(n)[i], Len(Kids(Kids(n)[i])))
                        \/ calls'[1].fn = "init" /\ calls'[1].node # Root /\ key # "leaf"
                        \/ \E m \in Nodes : \E j \in DOMAIN Kids(m) : ~Right(m, j) /\ ~Pending(tree, calls', m, j)
      BY <1>1 DEF OpenUnsound, Early, Stain, Right, KeyOf, Leaf, Kids
    <3>1. Kids(n)[i] \in Nodes /\ Len(Kids(Kids(n)[i])) \in DOMAIN Kids(Kids(n)[i])
      <4>1. Kids(n)[i] \in Nodes
        BY <1>2, KidsType
      <4>2. 1 \in DOMAIN Kids(Kids(n)[i])
        BY <1>2, <4>1, KidsType DEF Early
      <4> QED BY <1>2, <4>1, <4>2, KidsType
    <3>2. \/ Pending(tree, calls, Kids(n)[i], Len(Kids(Kids(n)[i])))
          \/ calls[1].node # Root /\ key # "leaf"
          \/ \E m \in Nodes : \E j \in DOMAIN Kids(m) : ~Right(m, j) /\ ~Pending(tree, calls, m, j)
      BY <1>1, <1>2 DEF OpenUnsound, Stain
    <3> QED BY <2>2, <2>3, <2>4, <2>6, <3>1, <3>2
  <2>10. AllIn(calls, OpenFns)'
    <3>1. ASSUME NEW k \in DOMAIN calls' PROVE calls'[k].fn \in OpenFns
      <4>1. CASE k = 1 \/ k = 2
        BY <2>2, <2>3, <4>1 DEF OpenFns
      <4>2. CASE k > 2
        BY <1>2, <2>3, <4>2
      <4>3. k = 1 \/ k = 2 \/ k > 2
        BY <2>3
      <4> QED BY <4>1, <4>2, <4>3
    <3> QED BY <3>1 DEF AllIn, OpenFns
  <2> QED BY <1>3, <2>6, <2>7, <2>8, <2>9, <2>10 DEF OpeningInv
<1> QED BY <1>7, <1>8

LEMMA OpeningRemember ==
  ASSUME FrontInv, status = "opening", Remember
  PROVE  OpeningInv' /\ calls' # <<>> /\ AllIn(calls, OpenFns)'
<1> DEFINE j == calls[1].i
           more == IF j < Len(Kids(At)) THEN OpenKid(At, j + 1) ELSE <<>>
           kid == Kids(At)[j]
<1>1. /\ FrontTypeOK /\ tree \in Trees /\ DOMAIN tree.kind = Nodes
      /\ calls \in Seq(Frames(tree)) /\ calls # <<>>
      /\ Chain /\ ChainIn(tree, calls) /\ OpenSound /\ OpenUnsound /\ Untouched
      /\ \A k \in DOMAIN calls :
           /\ calls[k].fn \in OpenFns
           /\ calls[k].fn = "remember" => calls[k].i \in DOMAIN tree.kids[calls[k].node]
      /\ 1 \in DOMAIN calls /\ Head(calls) = calls[1] /\ calls[1] \in Frames(tree)
      /\ At \in Nodes /\ calls[1].node = At
  BY OpeningFacts
<1>2. /\ calls[1].fn = "remember" /\ tree' = tree /\ Nodes' = Nodes
      /\ saved' = [saved EXCEPT ![At][j] = key]
  BY <1>1 DEF Remember, Remembered, Calls, Nodes
<1>3. /\ Kids(At) = tree.kids[At] /\ Kids(At) \in Seq(Nodes) /\ Len(Kids(At)) \in Nat
      /\ DOMAIN Kids(At) = 1..Len(Kids(At)) /\ j \in DOMAIN Kids(At)
      /\ DOMAIN saved[At] = DOMAIN Kids(At) /\ ~Leaf(At) /\ kid \in Nodes
  <2>1. /\ Kids(At) = tree.kids[At] /\ Kids(At) \in Seq(Nodes) /\ Len(Kids(At)) \in Nat
        /\ DOMAIN Kids(At) = 1..Len(Kids(At)) /\ DOMAIN saved[At] = DOMAIN Kids(At)
        /\ (Kids(At) # <<>>) <=> ~Leaf(At)
        /\ \A i \in DOMAIN Kids(At) : Kids(At)[i] \in Nodes
    BY <1>1, KidsType DEF Kids
  <2>2. j \in DOMAIN Kids(At)
    BY <1>1, <1>2, <2>1
  <2> QED BY <2>1, <2>2
<1>4. /\ Replaced(calls, more, calls')
      /\ key' = IF j < Len(Kids(At)) THEN key ELSE tree.kind[At]
  <2>1. CASE j < Len(Kids(At))
    <3>1. Go(OpenKid(At, j + 1)) /\ key' = key
      BY <1>1, <1>3, <2>1 DEF Remember, opened
    <3> QED BY <2>1, <3>1 DEF Go, Replaced
  <2>2. CASE ~(j < Len(Kids(At)))
    <3>1. Go(<<>>) /\ key' = tree.kind[At]
      BY <1>1, <1>3, <2>2 DEF Remember
    <3> QED BY <2>2, <3>1 DEF Go, Replaced
  <2> QED BY <2>1, <2>2
<1>5. Untouched'
  BY <1>1, <1>2 DEF Remember, Untouched, table, leaves
<1>6. /\ 2 \in DOMAIN calls /\ Len(calls) >= 2
      /\ \/ calls[2].fn = "opened" /\ At = Root /\ Len(calls) = 2
         \/ /\ calls[2].fn = "remember" /\ calls[2].i \in DOMAIN Kids(calls[2].node)
            /\ Kids(calls[2].node)[calls[2].i] = At /\ calls[2].node \in Nodes
  <2>1. AllIn(calls, OpenFns) /\ calls[1].fn # "opened"
    BY <1>1, <1>2 DEF AllIn
  <2> QED BY <1>1, <2>1, ChainNext
<1>7. /\ more \in Seq(Frames(tree))
      /\ \/ j = Len(Kids(At)) /\ more = <<>>
         \/ /\ j < Len(Kids(At)) /\ j + 1 \in DOMAIN Kids(At) /\ DOMAIN more = {1, 2} /\ Len(more) = 2
            /\ more[1].fn = "init" /\ more[1].node = Kids(At)[j + 1] /\ more[1] \in Frames(tree)
            /\ more[2].fn = "remember" /\ more[2].node = At /\ more[2].i = j + 1 /\ more[2] \in Frames(tree)
  <2>1. CASE j < Len(Kids(At))
    <3>1. j + 1 \in DOMAIN Kids(At) /\ more = OpenKid(At, j + 1)
      BY <1>3, <2>1
    <3>2. /\ more \in Seq(Frames(tree)) /\ Len(more) = 2 /\ more[1] = Call("init", Kids(At)[j + 1])
          /\ more[1] \in Frames(tree) /\ more[2] \in Frames(tree) /\ DOMAIN more = {1, 2}
          /\ more[2].fn = "remember" /\ more[2].node = At /\ more[2].i = j + 1
      BY <1>1, <3>1, OpenKidType
    <3>3. /\ Call("init", Kids(At)[j + 1]).fn = "init"
          /\ Call("init", Kids(At)[j + 1]).node = Kids(At)[j + 1]
      BY DEF Call
    <3> HIDE DEF more
    <3> QED BY <2>1, <3>1, <3>2, <3>3
  <2>2. CASE ~(j < Len(Kids(At)))
    <3>1. more = <<>> /\ j = Len(Kids(At))
      BY <1>3, <2>2
    <3>2. <<>> \in Seq(Frames(tree))
      OBVIOUS
    <3> QED BY <3>1, <3>2
  <2> QED BY <2>1, <2>2
<1> HIDE DEF more
<1>8. /\ Pending(tree, calls, At, j) /\ ~Pending(tree, calls', At, j)
      /\ \A n \in Nodes : \A i \in DOMAIN Kids(n) :
           /\ Pending(tree, calls', n, i) => Pending(tree, calls, n, i)
           /\ Pending(tree, calls, n, i) /\ ~(n = At /\ i = j) => Pending(tree, calls', n, i)
  <2>1. NextKid(tree, more, At, j)
    BY <1>3, <1>7 DEF NextKid
  <2>2. OpenStack(tree, calls)
    BY <1>1 DEF OpenStack
  <2>3. At \in DOMAIN tree.kind /\ At = calls[1].node /\ j \in DOMAIN tree.kids[At] /\ j = calls[1].i
    BY <1>1, <1>3
  <2>4. /\ Pending(tree, calls, At, j) /\ ~Pending(tree, calls', At, j)
        /\ \A n \in DOMAIN tree.kind : \A i \in DOMAIN tree.kids[n] :
             /\ Pending(tree, calls', n, i) => Pending(tree, calls, n, i)
             /\ Pending(tree, calls, n, i) /\ ~(n = At /\ i = j) => Pending(tree, calls', n, i)
    <3> HIDE DEF j
    <3>1. /\ tree \in Trees /\ calls \in Seq(Frames(tree)) /\ calls # <<>> /\ more \in Seq(Frames(tree))
          /\ Replaced(calls, more, calls') /\ ChainIn(tree, calls)
          /\ calls[1].fn = "remember" /\ calls[1] \in Frames(tree)
      BY <1>1, <1>2, <1>4, <1>7
    <3>2. Remembering(tree, calls, more, At, j)
      BY <2>1, <2>2, <2>3, <3>1 DEF Remembering
    <3> QED BY <3>1, <3>2, RememberPending
  <2> QED BY <1>1, <2>4 DEF Kids
<1>9. /\ saved'[At][j] = key
      /\ \A n \in Nodes : \A i \in DOMAIN Kids(n) : ~(n = At /\ i = j) => saved'[n][i] = saved[n][i]
  <2>1. DOMAIN saved = Nodes
    BY <1>1 DEF FrontTypeOK
  <2>2. saved'[At][j] = key
    BY <1>1, <1>2, <1>3, <2>1
  <2>3. ASSUME NEW n \in Nodes, NEW i \in DOMAIN Kids(n), ~(n = At /\ i = j)
        PROVE  saved'[n][i] = saved[n][i]
    <3>1. CASE n = At
      BY <1>1, <1>2, <1>3, <2>1, <2>3, <3>1
    <3>2. CASE n # At
      BY <1>2, <2>1, <3>2
    <3> QED BY <3>1, <3>2
  <2> QED BY <2>2, <2>3
\* What of the next frames matters.
<1>10. CASE j < Len(Kids(At))
  <2>1. /\ calls' \in Seq(Frames(tree)) /\ Len(calls') = Len(calls) + 1
        /\ Len(calls) \in Nat /\ Len(calls) > 0
        /\ DOMAIN calls' = 1..Len(calls') /\ DOMAIN calls = 1..Len(calls)
        /\ calls'[1] = more[1] /\ calls'[2] = more[2]
        /\ \A k \in DOMAIN calls' : k > 2 => k - 1 \in DOMAIN calls /\ calls'[k] = calls[k - 1]
    BY <1>1, <1>3, <1>4, <1>7, <1>10, PushedTwo
  <2>2. /\ more[1].fn = "init" /\ more[1].node = Kids(At)[j + 1] /\ j + 1 \in DOMAIN Kids(At)
        /\ more[2].fn = "remember" /\ more[2].node = At /\ more[2].i = j + 1 /\ Len(more) = 2
        /\ more \in Seq(Frames(tree))
    BY <1>3, <1>7, <1>10
  <2>3. key' = key
    BY <1>4, <1>10
  <2>4. ChainIn(tree, calls')
    <3> DEFINE i == j + 1
    <3>1. /\ tree \in Trees /\ calls \in Seq(Frames(tree)) /\ calls # <<>>
          /\ ChainIn(tree, calls) /\ calls[1].fn = "remember"
          /\ At \in DOMAIN tree.kind /\ At = calls[1].node
      BY <1>1, <1>2
    <3>2. Replaced(calls, more, calls') /\ i \in DOMAIN tree.kids[At]
      BY <1>3, <1>4, <2>2
    <3>3. /\ more \in Seq(Frames(tree)) /\ Len(more) = 2
          /\ more[1].fn = "init" /\ more[1].node = tree.kids[At][i]
          /\ more[2].fn = "remember" /\ more[2].node = At /\ more[2].i = i
      BY <1>3, <2>2
    <3> HIDE DEF i
    <3>4. calls[1].fn # "opened"
      BY <3>1
    <3> QED BY <3>1, <3>2, <3>3, <3>4, ChainPush
  <2>5. Kids(At)[j + 1] # Root /\ calls' # <<>>
    <3>1. Kids(At)[j + 1] > At /\ At \in Nat /\ At > 0
      <4>1. j + 1 \in DOMAIN tree.kids[At] /\ tree.kids[At] = Kids(At)
        BY <1>3, <2>2
      <4>2. tree.kids[At][j + 1] > At
        BY <1>1, <4>1, TreeFacts
      <4>3. At \in Nat /\ At > 0
        BY <1>1, TreeFacts
      <4> QED BY <4>1, <4>2, <4>3
    <3>2. calls' # <<>>
      BY <2>1
    <3> QED BY <3>1, <3>2 DEF Root
  <2>6. Chain'
    BY <1>2, <2>1, <2>2, <2>4, <2>5, ChainIsNext
  <2>7. OpenSound'
    <3> SUFFICES ASSUME Sound(tree)
                 PROVE  /\ key = "leaf"
                        /\ calls'[1].fn = "remember" => key = KeyOf(Kids(calls'[1].node)[calls'[1].i])
                        /\ \A n \in Nodes : \A i \in DOMAIN Kids(n) :
                             saved'[n][i] = KeyOf(Kids(n)[i]) \/ Pending(tree, calls', n, i)
      BY <1>2, <2>3 DEF OpenSound, Right, KeyOf, Leaf, Kids
    <3>1. key = KeyOf(kid)
      BY <1>1, <1>2 DEF OpenSound
    <3>2. tree.kind[kid] \notin Inner
      BY <1>1, <1>3, <1>10 DEF Sound, Kids
    <3>3. key = "leaf"
      BY <3>1, <3>2 DEF KeyOf, Leaf
    <3>4. \A n \in Nodes : \A i \in DOMAIN Kids(n) :
            saved'[n][i] = KeyOf(Kids(n)[i]) \/ Pending(tree, calls', n, i)
      BY <1>1, <1>8, <1>9, <3>1 DEF OpenSound, Right
    <3> QED BY <2>1, <2>2, <3>3, <3>4
  <2>8. OpenUnsound'
    <3> SUFFICES ASSUME NEW n \in Nodes, NEW i \in DOMAIN Kids(n), Early(n, i)
                 PROVE  \/ Pending(tree, calls', Kids(n)[i], Len(Kids(Kids(n)[i])))
                        \/ calls'[1].fn = "init" /\ calls'[1].node # Root /\ key # "leaf"
                        \/ \E m \in Nodes : \E l \in DOMAIN Kids(m) :
                             saved'[m][l] # KeyOf(Kids(m)[l]) /\ ~Pending(tree, calls', m, l)
      BY <1>2, <2>3 DEF OpenUnsound, Early, Stain, Right, KeyOf, Leaf, Kids
    <3>1. Kids(n)[i] \in Nodes /\ Len(Kids(Kids(n)[i])) \in DOMAIN Kids(Kids(n)[i])
      <4>1. Kids(n)[i] \in Nodes
        BY <1>1, KidsType
      <4>2. 1 \in DOMAIN Kids(Kids(n)[i])
        BY <1>1, <4>1, KidsType DEF Early
      <4> QED BY <1>1, <4>1, <4>2, KidsType
    <3>2. \/ Pending(tree, calls, Kids(n)[i], Len(Kids(Kids(n)[i])))
          \/ At = n /\ j = i /\ key # "leaf"
          \/ Leaf(kid) /\ key # "leaf"
          \/ \E m \in Nodes : \E l \in DOMAIN Kids(m) : ~Right(m, l) /\ ~Pending(tree, calls, m, l)
      BY <1>1, <1>2 DEF OpenUnsound, Stain
    <3>3. CASE Pending(tree, calls, Kids(n)[i], Len(Kids(Kids(n)[i])))
      <4>1. CASE Kids(n)[i] = At /\ Len(Kids(Kids(n)[i])) = j
        BY <1>3, <1>10, <4>1
      <4>2. CASE ~(Kids(n)[i] = At /\ Len(Kids(Kids(n)[i])) = j)
        BY <1>8, <3>1, <3>3, <4>2
      <4> QED BY <4>1, <4>2
    <3>4. CASE key # "leaf"
      BY <2>1, <2>2, <2>5, <3>4
    <3>5. CASE \E m \in Nodes : \E l \in DOMAIN Kids(m) : ~Right(m, l) /\ ~Pending(tree, calls, m, l)
      <4>1. PICK m \in Nodes : \E l \in DOMAIN Kids(m) : ~Right(m, l) /\ ~Pending(tree, calls, m, l)
        BY <3>5
      <4>2. PICK l \in DOMAIN Kids(m) : ~Right(m, l) /\ ~Pending(tree, calls, m, l)
        BY <4>1
      <4>3. ~(m = At /\ l = j)
        BY <1>8, <4>2
      <4>4. saved'[m][l] # KeyOf(Kids(m)[l]) /\ ~Pending(tree, calls', m, l)
        BY <1>8, <1>9, <4>2, <4>3 DEF Right
      <4> QED BY <4>4
    <3> QED BY <3>2, <3>3, <3>4, <3>5
  <2>9. AllIn(calls, OpenFns)'
    <3>1. ASSUME NEW k \in DOMAIN calls' PROVE calls'[k].fn \in OpenFns
      <4>1. CASE k = 1 \/ k = 2
        BY <2>1, <2>2, <4>1 DEF OpenFns
      <4>2. CASE k > 2
        BY <1>1, <2>1, <4>2
      <4>3. k = 1 \/ k = 2 \/ k > 2
        BY <2>1
      <4> QED BY <4>1, <4>2, <4>3
    <3> QED BY <3>1 DEF AllIn, OpenFns
  <2> QED BY <1>5, <2>5, <2>6, <2>7, <2>8, <2>9 DEF OpeningInv
<1>11. CASE ~(j < Len(Kids(At)))
  <2>1. j = Len(Kids(At)) /\ more = <<>> /\ key' = tree.kind[At]
    BY <1>3, <1>4, <1>7, <1>11
  <2>2. Replaced(calls, <<>>, calls')
    BY <1>4, <2>1
  <2>3. /\ calls' \in Seq(Frames(tree)) /\ Len(calls') = Len(calls) - 1 /\ Len(calls) \in Nat
        /\ DOMAIN calls' = 1..Len(calls')
        /\ \A k \in DOMAIN calls' : k + 1 \in DOMAIN calls /\ calls'[k] = calls[k + 1]
    BY <1>1, <2>2, Popped
  <2>4. calls' # <<>> /\ 1 \in DOMAIN calls' /\ calls'[1] = calls[2]
    <3>1. 1 \in DOMAIN calls'
      BY <1>6, <2>3
    <3>2. 1 + 1 = 2
      OBVIOUS
    <3> QED BY <2>3, <3>1, <3>2
  <2>5. ChainIn(tree, calls') /\ \A k \in DOMAIN calls' : calls'[k].fn # "init"
    BY <1>1, <2>2, ChainPop
  <2>6. key' = KeyOf(At) /\ key' # "leaf"
    BY <1>3, <2>1 DEF KeyOf, Leaf, Inner
  <2>7. Chain'
    <3>1. calls'[1].fn = "opened" => key' = KeyOf(Root)
      BY <1>6, <2>4, <2>6
    <3> QED BY <1>2, <2>4, <2>5, <3>1, ChainIsNext DEF KeyOf, Leaf
  <2>8. OpenSound'
    <3> SUFFICES ASSUME Sound(tree)
                 PROVE  /\ \A k \in DOMAIN calls' : calls'[k].fn = "remember" =>
                             calls'[k].i = Len(Kids(calls'[k].node))
                        /\ calls'[1].fn = "remember" => key' = KeyOf(Kids(calls'[1].node)[calls'[1].i])
                        /\ \A n \in Nodes : \A i \in DOMAIN Kids(n) :
                             saved'[n][i] = KeyOf(Kids(n)[i]) \/ Pending(tree, calls', n, i)
      BY <1>2, <2>5 DEF OpenSound, Right, KeyOf, Leaf, Kids
    <3>1. key = KeyOf(kid)
      BY <1>1, <1>2 DEF OpenSound
    <3>2. \A n \in Nodes : \A i \in DOMAIN Kids(n) :
            saved'[n][i] = KeyOf(Kids(n)[i]) \/ Pending(tree, calls', n, i)
      BY <1>1, <1>8, <1>9, <3>1 DEF OpenSound, Right
    <3>3. ASSUME NEW k \in DOMAIN calls', calls'[k].fn = "remember"
          PROVE  calls'[k].i = Len(Kids(calls'[k].node))
      <4> DEFINE c == calls'[k] m == c.node
      <4>1. k + 1 \in DOMAIN calls /\ c = calls[k + 1] /\ 1 < k + 1
        BY <2>3
      <4>2. c.i \in DOMAIN tree.kids[m] /\ m \in Nodes
        <5>1. c \in Frames(tree)
          BY <2>3
        <5> QED BY <1>1, <3>3, <4>1, <5>1 DEF Frames
      <4>3. tree.kids[m][c.i] \in Path(tree, At)
        BY <1>1, <3>3, <4>1 DEF ChainIn
      <4>4. tree.kids[m][c.i] \in Nodes /\ tree.kind[tree.kids[m][c.i]] \in Inner
        <5> DEFINE o == tree.kids[m][c.i]
        <5>1. o \in Nodes
          BY <1>1, <4>2, TreeFacts
        <5>2. CASE o = At
          BY <1>3, <5>1, <5>2 DEF Leaf
        <5>3. CASE o # At
          <6>1. PICK l \in DOMAIN tree.kids[o] : TRUE
            BY <1>1, <4>3, <5>3, PathDown
          <6>2. tree.kids[o] # <<>>
            BY <6>1
          <6> QED BY <1>1, <5>1, <6>2, TreeFacts
        <5> QED BY <5>1, <5>2, <5>3
      <4>5. ~(c.i < Len(tree.kids[m]))
        BY <1>1, <4>2, <4>4 DEF Sound
      <4>6. DOMAIN tree.kids[m] = 1..Len(tree.kids[m]) /\ Len(tree.kids[m]) \in Nat
        BY <1>1, <4>2, KidsType DEF Kids
      <4>7. c.i = Len(tree.kids[m])
        BY <4>2, <4>5, <4>6
      <4> QED BY <4>7 DEF Kids
    <3>4. calls'[1].fn = "remember" => key' = KeyOf(Kids(calls'[1].node)[calls'[1].i])
      BY <1>6, <2>4, <2>6
    <3> QED BY <3>2, <3>3, <3>4
  <2>9. OpenUnsound'
    <3> SUFFICES ASSUME NEW n \in Nodes, NEW i \in DOMAIN Kids(n), Early(n, i)
                 PROVE  \/ Pending(tree, calls', Kids(n)[i], Len(Kids(Kids(n)[i])))
                        \/ calls'[1].fn = "remember" /\ calls'[1].node = n /\ calls'[1].i = i /\ key' # "leaf"
                        \/ \E m \in Nodes : \E l \in DOMAIN Kids(m) :
                             saved'[m][l] # KeyOf(Kids(m)[l]) /\ ~Pending(tree, calls', m, l)
      BY <1>2 DEF OpenUnsound, Early, Stain, Right, KeyOf, Leaf, Kids
    <3>1. Kids(n)[i] \in Nodes /\ Len(Kids(Kids(n)[i])) \in DOMAIN Kids(Kids(n)[i])
      <4>1. Kids(n)[i] \in Nodes
        BY <1>1, KidsType
      <4>2. 1 \in DOMAIN Kids(Kids(n)[i])
        BY <1>1, <4>1, KidsType DEF Early
      <4> QED BY <1>1, <4>1, <4>2, KidsType
    <3>2. \/ Pending(tree, calls, Kids(n)[i], Len(Kids(Kids(n)[i])))
          \/ At = n /\ j = i /\ key # "leaf"
          \/ Leaf(kid) /\ key # "leaf"
          \/ \E m \in Nodes : \E l \in DOMAIN Kids(m) : ~Right(m, l) /\ ~Pending(tree, calls, m, l)
      BY <1>1, <1>2 DEF OpenUnsound, Stain
    <3>3. CASE Pending(tree, calls, Kids(n)[i], Len(Kids(Kids(n)[i])))
      <4>1. CASE Kids(n)[i] = At /\ Len(Kids(Kids(n)[i])) = j
        <5>1. At # Root
          <6>1. Kids(n)[i] > n /\ n \in Nat /\ n > 0
            BY <1>1, TreeFacts DEF Kids
          <6> QED BY <4>1, <6>1 DEF Root
        <5>2. calls[2].fn = "remember" /\ calls[2].node = n /\ calls[2].i = i
          <6>1. /\ calls[2].fn = "remember" /\ calls[2].i \in DOMAIN tree.kids[calls[2].node]
                /\ tree.kids[calls[2].node][calls[2].i] = At /\ calls[2].node \in DOMAIN tree.kind
            BY <1>1, <1>6, <5>1 DEF Kids
          <6>2. i \in DOMAIN tree.kids[n] /\ tree.kids[n][i] = At /\ n \in DOMAIN tree.kind
            BY <1>1, <4>1 DEF Kids
          <6>3. \A a, b \in DOMAIN tree.kind : \A k \in DOMAIN tree.kids[a], l \in DOMAIN tree.kids[b] :
                  tree.kids[a][k] = tree.kids[b][l] => a = b /\ k = l
            BY <1>1, TreeFacts
          <6> QED BY <6>1, <6>2, <6>3
        <5> QED BY <2>4, <2>6, <5>2
      <4>2. CASE ~(Kids(n)[i] = At /\ Len(Kids(Kids(n)[i])) = j)
        BY <1>8, <3>1, <3>3, <4>2
      <4> QED BY <4>1, <4>2
    <3>4. CASE At = n /\ j = i /\ key # "leaf"
      BY <1>11, <3>4 DEF Early
    <3>5. CASE Leaf(kid) /\ key # "leaf"
      <4>1. saved'[At][j] # KeyOf(kid) /\ ~Pending(tree, calls', At, j)
        BY <1>8, <1>9, <3>5 DEF KeyOf
      <4> QED BY <1>1, <1>3, <4>1
    <3>6. CASE \E m \in Nodes : \E l \in DOMAIN Kids(m) : ~Right(m, l) /\ ~Pending(tree, calls, m, l)
      <4>1. PICK m \in Nodes : \E l \in DOMAIN Kids(m) : ~Right(m, l) /\ ~Pending(tree, calls, m, l)
        BY <3>6
      <4>2. PICK l \in DOMAIN Kids(m) : ~Right(m, l) /\ ~Pending(tree, calls, m, l)
        BY <4>1
      <4>3. ~(m = At /\ l = j)
        BY <1>8, <4>2
      <4>4. saved'[m][l] # KeyOf(Kids(m)[l]) /\ ~Pending(tree, calls', m, l)
        BY <1>8, <1>9, <4>2, <4>3 DEF Right
      <4> QED BY <4>4
    <3> QED BY <3>2, <3>3, <3>4, <3>5, <3>6
  <2>10. AllIn(calls, OpenFns)'
    BY <1>1, <2>3 DEF AllIn, OpenFns
  <2> QED BY <1>5, <2>4, <2>7, <2>8, <2>9, <2>10 DEF OpeningInv
<1> QED BY <1>10, <1>11

\* When nothing is called any more nothing is left to be done.
LEMMA EmptyStack ==
  ASSUME calls = <<>>
  PROVE  /\ \A P : NoneIn(calls, P)
         /\ \A fns : AllIn(calls, fns)
         /\ Led /\ FlushedOnce /\ Order /\ Connections
         /\ \A k \in DOMAIN calls : FALSE
<1>1. DOMAIN calls = {}
  OBVIOUS
<1> QED BY <1>1 DEF NoneIn, AllIn, Led, LedIn, FlushedOnce, Order, OrderIn, Connections

LEMMA OpeningEnd ==
  ASSUME FrontInv, status = "opening", OpenEnd
  PROVE  FrontInv'
<1>1. /\ FrontTypeOK /\ tree \in Trees /\ DOMAIN tree.kind = Nodes
      /\ calls \in Seq(Frames(tree)) /\ calls # <<>> /\ given = <<>> /\ ~bad
      /\ Chain /\ ChainIn(tree, calls) /\ OpenSound /\ OpenUnsound /\ Untouched
      /\ \A m \in Nodes : closed[m] = 0
      /\ 1 \in DOMAIN calls
  BY OpeningFacts
<1>2. /\ calls[1].fn = "opened" /\ conn' = Root /\ status' = "open"
      /\ UNCHANGED <<tree, opened, table, leaves, closed, bad, given>>
      /\ Go(<<>>)
  BY <1>1, OpeningFacts DEF OpenEnd, Calls
<1>3. Len(calls) = 1
  BY <1>1, <1>2 DEF ChainIn
<1>4. calls' = <<>>
  <2>1. Replaced(calls, <<>>, calls')
    BY <1>2 DEF Go, Replaced
  <2>2. calls' \in Seq(Frames(tree)) /\ Len(calls') = Len(calls) - 1
    BY <1>1, <2>1, Popped
  <2> QED BY <1>3, <2>2
<1>5. FrontTypeOK'
  BY <1>1, TypeNext DEF FrontNext
<1>6. /\ tree' = tree /\ key' = key /\ saved' = saved /\ fmt' = fmt /\ seq' = seq /\ flushed' = flushed
      /\ buf' = buf /\ sink' = sink /\ closed' = closed /\ bad' = bad /\ given' = given /\ Nodes' = Nodes
  BY <1>2 DEF opened, table, leaves, Nodes
<1>7. Phases'
  <2>1. AllIn(calls, RecordFns)'
    BY <1>4, EmptyStack DEF AllIn
  <2> QED BY <1>1, <1>2, <1>4, <1>6, <2>1 DEF Phases, AllIn
<1>8. \A n, i : ~Pending(tree, calls, n, i)
  <2> SUFFICES ASSUME NEW n, NEW i, NEW k \in DOMAIN calls, Remembers(tree, calls[k], n, i) PROVE FALSE
    BY DEF Pending, SomeIn, RememberSet
  <2>1. DOMAIN calls = 1..1
    BY <1>1, <1>3
  <2>2. k = 1
    BY <2>1
  <2> QED BY <1>2, <2>2 DEF Remembers
<1>9. Opened
  <2>1. key = KeyOf(Root)
    BY <1>1, <1>2, ChainIs
  <2>2. Sound(tree) => \A n \in Nodes : \A i \in DOMAIN Kids(n) : Right(n, i)
    BY <1>1, <1>8 DEF OpenSound
  <2>3. ASSUME NEW n \in Nodes, NEW i \in DOMAIN Kids(n), Early(n, i)
        PROVE  \E m \in Nodes : \E j \in DOMAIN Kids(m) : ~Right(m, j)
    BY <1>1, <1>2, <1>8, <2>3 DEF OpenUnsound, Stain
  <2> QED BY <2>1, <2>2, <2>3 DEF Opened
<1>10. Opened'
  BY <1>6, <1>9 DEF Opened, Right, Early, KeyOf, Leaf, Kids
<1>11. RecordingInv'
  <2>1. Connections' /\ FlushedOnce' /\ Order'
    BY <1>4, EmptyStack DEF Connections, FlushedOnce, Order, OrderIn
  <2>2. Home'
    BY <1>1, <1>2, <1>4, <1>6, TreeFacts DEF Home
  <2>3. TypedRight'
    BY <1>1, <1>4, <1>6 DEF TypedRight
  <2>5. ASSUME NEW m \in Leaves
        PROVE  sink'[m] = <<>> /\ buf'[m] = <<>> /\ NoneIn(calls', HandSet(tree, m)) /\ NoneIn(calls', WriteSet(tree, m))
    <3>1. m \in Nodes
      BY DEF Leaves
    <3> QED BY <1>1, <1>4, <1>6, <3>1 DEF Untouched, NoneIn
  <2>6. Delivery'
    <3>1. seq' = 0 /\ fmt' = <<>> /\ Len(given') = 0
      BY <1>1, <1>6 DEF Untouched
    <3>2. \A m : [i \in 1..0 |-> Line(tree.kind[m], given[i])] = <<>>
      OBVIOUS
    <3>3. Under'
      BY <1>4, <1>6, <2>5, <3>1, <3>2 DEF Under, OnItsWay, Lines, Leaves, Leaf
    <3> QED BY <3>3 DEF Delivery
  <2> QED BY <1>1, <1>6, <2>1, <2>2, <2>3, <2>6 DEF RecordingInv
<1> QED BY <1>1, <1>2, <1>5, <1>6, <1>7, <1>10, <1>11 DEF FrontInv

LEMMA OpeningNext ==
  ASSUME FrontInv, status = "opening", FrontNext
  PROVE  FrontInv'
<1>1. /\ FrontTypeOK /\ calls # <<>> /\ given = <<>> /\ ~bad
      /\ \A m \in Nodes : closed[m] = 0
      /\ 1 \in DOMAIN calls /\ Head(calls) = calls[1] /\ calls[1].fn \in OpenFns
  BY OpeningFacts
<1>2. FrontTypeOK'
  BY <1>1, TypeNext
<1>3. InitNode \/ Remember \/ OpenEnd
  <2>1. \A fn : Calls(fn) => fn \in OpenFns
    BY <1>1 DEF Calls
  <2>2. ~Mistyped(Head(calls))
    BY <1>1 DEF Mistyped, OpenFns
  <2>3. ~Ready
    BY DEF Ready
  <2>4. /\ ~Calls("switch") /\ ~Calls("put") /\ ~Calls("key") /\ ~Calls("flush") /\ ~Calls("formatted")
        /\ ~Calls("sent") /\ ~Calls("hand_on") /\ ~Calls("close") /\ ~Calls("free")
    BY <2>1 DEF OpenFns
  <2> QED BY <2>2, <2>3, <2>4 DEF FrontNext, SwitchBack, Put, PutKey, Flush, Formatted, HandOn, Undefined,
             Record, RecordTooMany, CloseAll, CloseNode, FreeNode, TypedCall
<1>4. CASE InitNode \/ Remember
  <2>1. OpeningInv' /\ calls' # <<>> /\ AllIn(calls, OpenFns)'
    BY <1>4, OpeningInitNode, OpeningRemember
  <2>2. status' = status /\ given' = given /\ bad' = bad /\ closed' = closed /\ Nodes' = Nodes
    BY <1>4 DEF InitNode, Remember, Nodes
  <2>3. Phases'
    BY <1>1, <2>1, <2>2 DEF Phases, AllIn
  <2> QED BY <1>1, <1>2, <2>1, <2>2, <2>3 DEF FrontInv
<1>5. CASE OpenEnd
  BY <1>5, OpeningEnd
<1> QED BY <1>3, <1>4, <1>5

-----------------------------------------------------------------------------
(* Recording *)

LEMMA LedPush ==
  ASSUME NEW F, NEW cs \in Seq(F), cs # <<>>, NEW more \in Seq(F), NEW new, Replaced(cs, more, new),
         NEW c, NEW d, LedIn(cs, c), LedIn(more, d),
         cs[1].fn \in Leading =>
           \/ more = <<>> /\ d = cs[1].node
           \/ /\ more # <<>> /\ more[Len(more)].node = cs[1].node /\ more[Len(more)].fn \in Leading
  PROVE  LedIn(new, d)
<1> SUFFICES ASSUME NEW k \in DOMAIN new, new[k].fn \in Typed, ~new[k].set
             PROVE  IF k = 1 THEN d = new[1].node
                    ELSE new[k - 1].node = new[k].node /\ new[k - 1].fn \in Leading
  BY DEF LedIn
<1>1. /\ Len(more) \in Nat /\ Len(cs) \in Nat /\ DOMAIN new = 1..Len(new) /\ DOMAIN cs = 1..Len(cs)
      /\ DOMAIN more = 1..Len(more) /\ Len(new) = Len(more) + Len(cs) - 1 /\ Len(cs) > 0
      /\ \A l \in DOMAIN more : l \in DOMAIN new /\ new[l] = more[l]
      /\ \A l \in DOMAIN new : l > Len(more) => /\ l - Len(more) + 1 \in DOMAIN cs
                                                /\ new[l] = cs[l - Len(more) + 1]
  BY Pushed
<1>2. CASE k \in DOMAIN more
  <2>1. new[k] = more[k] /\ k \in Nat
    BY <1>1, <1>2
  <2>2. IF k = 1 THEN d = more[1].node ELSE more[k - 1].node = more[k].node /\ more[k - 1].fn \in Leading
    BY <1>2, <2>1 DEF LedIn
  <2>3. k # 1 => k - 1 \in DOMAIN more
    BY <1>1, <1>2
  <2> QED BY <1>1, <1>2, <2>1, <2>2, <2>3
<1>3. CASE k \notin DOMAIN more
  <2> DEFINE l == k - Len(more) + 1
  <2>1. k > Len(more) /\ l \in DOMAIN cs /\ new[k] = cs[l] /\ l # 1 /\ l - 1 \in DOMAIN cs
    <3>1. k > Len(more)
      BY <1>1, <1>3
    <3> QED BY <1>1, <3>1
  <2>2. cs[l - 1].node = cs[l].node /\ cs[l - 1].fn \in Leading
    <3>1. cs[l].fn \in Typed /\ ~cs[l].set /\ l \in DOMAIN cs /\ l # 1
      BY <2>1
    <3> HIDE DEF l
    <3> QED BY <3>1 DEF LedIn
  <2>3. CASE k = Len(more) + 1
    <3>1. l - 1 = 1 /\ k - 1 = Len(more)
      BY <1>1, <2>3
    <3>2. cs[1].node = cs[l].node /\ cs[1].fn \in Leading
      BY <2>2, <3>1
    <3>3. CASE more = <<>>
      <4>1. k = 1 /\ d = cs[1].node
        BY <2>3, <3>2, <3>3
      <4> QED BY <2>1, <3>2, <4>1
    <3>4. CASE more # <<>>
      <4>1. Len(more) \in DOMAIN more /\ k # 1
        BY <1>1, <2>3, <3>4
      <4>2. new[k - 1] = more[Len(more)]
        BY <1>1, <3>1, <4>1
      <4> QED BY <2>1, <3>2, <3>4, <4>1, <4>2
    <3> QED BY <3>3, <3>4
  <2>4. CASE k # Len(more) + 1
    <3>1. k - 1 \in DOMAIN new /\ k - 1 > Len(more) /\ (k - 1) - Len(more) + 1 = l - 1 /\ k # 1
      BY <1>1, <2>1, <2>4
    <3>2. new[k - 1] = cs[(k - 1) - Len(more) + 1]
      BY <1>1, <3>1
    <3> QED BY <2>1, <2>2, <3>1, <3>2
  <2> QED BY <2>3, <2>4
<1> QED BY <1>2, <1>3

LEMMA OrderPush ==
  ASSUME NEW F, NEW cs \in Seq(F), cs # <<>>, NEW more \in Seq(F), NEW new, Replaced(cs, more, new),
         OrderIn(cs), OrderIn(more),
         \A k \in DOMAIN more : more[k].fn \in Behind => cs[1].fn \in Behind
  PROVE  OrderIn(new)
<1> SUFFICES ASSUME NEW k \in DOMAIN new, NEW l \in DOMAIN new, k < l, new[k].fn \in Behind
             PROVE  new[l].fn \notin Final \cup {"put", "key"}
  BY DEF OrderIn
<1>1. /\ Len(more) \in Nat /\ Len(cs) \in Nat /\ DOMAIN new = 1..Len(new) /\ DOMAIN cs = 1..Len(cs)
      /\ DOMAIN more = 1..Len(more) /\ Len(cs) > 0
      /\ \A i \in DOMAIN more : i \in DOMAIN new /\ new[i] = more[i]
      /\ \A i \in DOMAIN new : i > Len(more) => /\ i - Len(more) + 1 \in DOMAIN cs
                                                /\ new[i] = cs[i - Len(more) + 1]
  BY Pushed
<1>2. CASE l \in DOMAIN more
  <2>1. k \in DOMAIN more
    BY <1>1, <1>2
  <2> QED BY <1>1, <1>2, <2>1 DEF OrderIn
<1>3. CASE l \notin DOMAIN more
  <2> DEFINE j == l - Len(more) + 1
  <2>1. l > Len(more) /\ j \in DOMAIN cs /\ new[l] = cs[j] /\ 1 < j /\ 1 \in DOMAIN cs
    <3>1. l > Len(more)
      BY <1>1, <1>3
    <3> QED BY <1>1, <3>1
  <2>2. CASE k \in DOMAIN more
    <3>1. cs[1].fn \in Behind
      BY <1>1, <2>2
    <3> HIDE DEF j
    <3> QED BY <2>1, <3>1 DEF OrderIn
  <2>3. CASE k \notin DOMAIN more
    <3> DEFINE i == k - Len(more) + 1
    <3>1. k > Len(more)
      BY <1>1, <2>3
    <3>2. i \in DOMAIN cs /\ new[k] = cs[i]
      BY <1>1, <3>1
    <3>3. i < j
      BY <1>1, <3>1
    <3> HIDE DEF i, j
    <3> QED BY <2>1, <3>2, <3>3 DEF OrderIn
  <2> QED BY <2>2, <2>3
<1> QED BY <1>2, <1>3

\* What is known when a log writes.
LEMMA RecordingFacts ==
  ASSUME FrontInv, status = "open", calls # <<>>
  PROVE  /\ FrontTypeOK /\ tree \in Trees /\ DOMAIN tree.kind = Nodes /\ Root \in Nodes
         /\ calls \in Seq(Frames(tree)) /\ given # <<>> /\ ~bad
         /\ Opened /\ Connections /\ Home /\ TypedRight /\ FlushedOnce /\ Order /\ Doomed /\ Delivery
         /\ \A m \in Nodes : closed[m] = 0
         /\ \A k \in DOMAIN calls : calls[k].fn \in RecordFns
         /\ 1 \in DOMAIN calls /\ Head(calls) = calls[1] /\ calls[1] \in Frames(tree)
         /\ At \in Nodes /\ calls[1].node = At /\ calls[1].what \in Whats
<1>1. /\ FrontTypeOK /\ given # <<>> /\ ~bad /\ AllIn(calls, RecordFns)
      /\ Opened /\ RecordingInv
      /\ \A m \in Nodes : closed[m] = 0
  BY DEF FrontInv, Phases
<1>2. tree \in Trees /\ DOMAIN tree.kind = Nodes /\ calls \in Seq(Frames(tree))
  BY <1>1 DEF FrontTypeOK, Nodes
<1>3. Root \in Nodes
  BY <1>2, TreeFacts
<1> QED BY <1>1, <1>2, <1>3, Next1 DEF AllIn, RecordingInv

\* A frame of the stack that is not the first stays, and those of more come.
LEMMA Stays ==
  ASSUME NEW F, NEW cs \in Seq(F), cs # <<>>, NEW more \in Seq(F), NEW new, Replaced(cs, more, new)
  PROVE  /\ \A k \in DOMAIN cs : k # 1 => \E l \in DOMAIN new : new[l] = cs[k]
         /\ \A k \in DOMAIN more : \E l \in DOMAIN new : new[l] = more[k]
         /\ \A l \in DOMAIN new : \/ \E k \in DOMAIN more : new[l] = more[k]
                                  \/ \E k \in DOMAIN cs : k # 1 /\ new[l] = cs[k]
<1>1. /\ Len(more) \in Nat /\ Len(cs) \in Nat /\ DOMAIN new = 1..Len(new) /\ DOMAIN cs = 1..Len(cs)
      /\ DOMAIN more = 1..Len(more)
      /\ \A i \in DOMAIN more : i \in DOMAIN new /\ new[i] = more[i]
      /\ \A i \in DOMAIN new : i > Len(more) => /\ i - Len(more) + 1 \in DOMAIN cs
                                                /\ new[i] = cs[i - Len(more) + 1]
      /\ \A i \in DOMAIN cs : i > 1 => /\ i - 1 + Len(more) \in DOMAIN new
                                       /\ new[i - 1 + Len(more)] = cs[i]
  BY Pushed
<1>2. ASSUME NEW k \in DOMAIN cs, k # 1 PROVE \E l \in DOMAIN new : new[l] = cs[k]
  <2>1. k > 1
    BY <1>1, <1>2
  <2> QED BY <1>1, <2>1
<1>3. ASSUME NEW l \in DOMAIN new
      PROVE  \/ \E k \in DOMAIN more : new[l] = more[k]
             \/ \E k \in DOMAIN cs : k # 1 /\ new[l] = cs[k]
  <2>1. CASE l \in DOMAIN more
    BY <1>1, <2>1
  <2>2. CASE l \notin DOMAIN more
    <3>1. l > Len(more)
      BY <1>1, <2>2
    <3>2. l - Len(more) + 1 # 1
      BY <1>1, <3>1
    <3> QED BY <1>1, <3>1, <3>2
  <2> QED BY <2>1, <2>2
<1> QED BY <1>1, <1>2, <1>3

LEMMA HomePush ==
  ASSUME FrontTypeOK, calls # <<>>, Home, NEW more \in Seq(Frames(tree)), Replaced(calls, more, calls'),
         tree' = tree, conn' \in Nodes,
         calls[1].fn = "switch" => more = <<>> /\ conn' = calls[1].node,
         calls = <<Call("flush", Root)>> =>
           more # <<>> /\ (~Leaf(Root) => more[Len(more)] = Call("switch", Root))
  PROVE  Home'
<1>1. /\ calls' \in Seq(Frames(tree))
      /\ Len(more) \in Nat /\ Len(calls) \in Nat /\ DOMAIN calls' = 1..Len(calls') /\ DOMAIN calls = 1..Len(calls)
      /\ DOMAIN more = 1..Len(more) /\ Len(calls') = Len(more) + Len(calls) - 1 /\ Len(calls) > 0
      /\ \A i \in DOMAIN more : i \in DOMAIN calls' /\ calls'[i] = more[i]
      /\ \A i \in DOMAIN calls : i > 1 => /\ i - 1 + Len(more) \in DOMAIN calls'
                                          /\ calls'[i - 1 + Len(more)] = calls[i]
  BY Pushed DEF FrontTypeOK
<1>2. tree \in Trees /\ DOMAIN tree.kind = Nodes /\ Nodes' = Nodes
  BY DEF FrontTypeOK, Nodes
<1>3. \/ Leaf(Root)
      \/ calls[Len(calls)] = Call("switch", Root)
      \/ calls = <<Call("flush", Root)>>
  BY DEF Home
<1>4. /\ Call("switch", Root).fn = "switch" /\ Call("switch", Root).node = Root
  BY DEF Call
<1>5. ASSUME calls' = <<>> PROVE conn' = Root
  <2>1. more = <<>> /\ Len(calls) = 1
    BY <1>1, <1>5
  <2>2. CASE Leaf(Root)
    BY <1>2, <2>2, LoneRoot DEF Leaf
  <2>3. CASE ~Leaf(Root)
    BY <1>3, <1>4, <2>1, <2>3
  <2> QED BY <2>2, <2>3
<1>6. ASSUME calls' # <<>>, ~Leaf(Root) PROVE calls'[Len(calls')] = Call("switch", Root)
  <2>1. CASE Len(calls) = 1
    <3>1. calls = <<Call("flush", Root)>>
      <4>1. SUFFICES ASSUME calls[1] = Call("switch", Root) PROVE FALSE
        BY <1>3, <1>6, <2>1
      <4>2. more = <<>>
        BY <1>4, <4>1
      <4> QED BY <1>1, <1>6, <2>1, <4>2
    <3>2. Len(calls') = Len(more) /\ more # <<>> /\ more[Len(more)] = Call("switch", Root)
      BY <1>1, <1>6, <2>1, <3>1
    <3>3. Len(more) \in DOMAIN more
      BY <1>1, <3>2
    <3> QED BY <1>1, <3>2, <3>3
  <2>2. CASE Len(calls) # 1
    <3>1. calls[Len(calls)] = Call("switch", Root)
      <4>1. Len(<<Call("flush", Root)>>) = 1
        OBVIOUS
      <4> QED BY <1>3, <1>6, <2>2, <4>1
    <3>2. Len(calls) \in DOMAIN calls /\ Len(calls) > 1 /\ Len(calls) - 1 + Len(more) = Len(calls')
      BY <1>1, <2>2
    <3> QED BY <1>1, <3>1, <3>2
  <2> QED BY <2>1, <2>2
<1> QED BY <1>2, <1>5, <1>6 DEF Home, Leaf

LEMMA FlushedPush ==
  ASSUME FrontTypeOK, calls # <<>>, FlushedOnce, NEW more \in Seq(Frames(tree)), Replaced(calls, more, calls'),
         calls[1].fn # "flush", \A k \in DOMAIN more : more[k].fn # "flush",
         flushed => flushed', calls[1].fn = "formatted" => flushed'
  PROVE  /\ FlushedOnce'
         /\ calls' # <<Call("flush", Root)>>
<1>1. /\ Len(more) \in Nat /\ Len(calls) \in Nat /\ DOMAIN calls' = 1..Len(calls') /\ DOMAIN calls = 1..Len(calls)
      /\ DOMAIN more = 1..Len(more)
      /\ \A i \in DOMAIN more : i \in DOMAIN calls' /\ calls'[i] = more[i]
      /\ \A i \in DOMAIN calls' : i > Len(more) => /\ i - Len(more) + 1 \in DOMAIN calls
                                                   /\ calls'[i] = calls[i - Len(more) + 1]
      /\ \A i \in DOMAIN calls : i > 1 => /\ i - 1 + Len(more) \in DOMAIN calls'
                                          /\ calls'[i - 1 + Len(more)] = calls[i]
  BY Pushed DEF FrontTypeOK
<1>2. Call("flush", Root).fn = "flush" /\ Call("flush", Root).node = Root
  BY DEF Call
<1>3. calls # <<Call("flush", Root)>>
  <2>1. <<Call("flush", Root)>>[1] = Call("flush", Root)
    OBVIOUS
  <2> QED BY <1>2, <2>1
<1>4. ASSUME NEW k \in DOMAIN calls', calls'[k].fn = "flush"
      PROVE  /\ calls'[k].node # Root
             /\ flushed' \/ \E l \in DOMAIN calls' : l < k /\ calls'[l].fn = "formatted"
  <2> DEFINE j == k - Len(more) + 1
  <2>1. k > Len(more)
    <3>1. k \notin DOMAIN more
      BY <1>1, <1>4
    <3> QED BY <1>1, <3>1
  <2>2. j \in DOMAIN calls /\ calls'[k] = calls[j] /\ calls[j].fn = "flush"
    BY <1>1, <1>4, <2>1
  <2>3. /\ calls[j].node # Root
        /\ flushed \/ \E l \in DOMAIN calls : l < j /\ calls[l].fn = "formatted"
    <3> HIDE DEF j
    <3> QED BY <1>3, <2>2 DEF FlushedOnce
  <2>4. ASSUME NEW l \in DOMAIN calls, l < j, calls[l].fn = "formatted"
        PROVE  flushed' \/ \E i \in DOMAIN calls' : i < k /\ calls'[i].fn = "formatted"
    <3>1. CASE l = 1
      BY <2>4, <3>1
    <3>2. CASE l # 1
      <4>1. l > 1
        BY <1>1, <3>2
      <4>2. l - 1 + Len(more) \in DOMAIN calls' /\ calls'[l - 1 + Len(more)] = calls[l]
        BY <1>1, <4>1
      <4>3. l - 1 + Len(more) < k
        BY <1>1, <2>4
      <4> QED BY <2>4, <4>2, <4>3
    <3> QED BY <3>1, <3>2
  <2> QED BY <2>2, <2>3, <2>4
<1>5. FlushedOnce'
  BY <1>4 DEF FlushedOnce
<1>6. ASSUME calls' = <<Call("flush", Root)>> PROVE FALSE
  <2>1. 1 \in DOMAIN calls' /\ calls'[1] = Call("flush", Root)
    BY <1>6
  <2> QED BY <1>2, <1>4, <2>1
<1> QED BY <1>5, <1>6

LEMMA TypedPush ==
  ASSUME FrontTypeOK, calls # <<>>, TypedRight, NEW more \in Seq(Frames(tree)), Replaced(calls, more, calls'),
         tree' = tree, bad' = bad, Sound(tree) => \A k \in DOMAIN more : ~Wrong(more[k])
  PROVE  TypedRight'
<1> SUFFICES ASSUME Sound(tree)
             PROVE  ~bad /\ \A k \in DOMAIN calls' : ~(calls'[k].fn = "key" /\ calls'[k].by # KeyOf(calls'[k].node))
  BY DEF TypedRight, Wrong, KeyOf, Leaf
<1>1. ~bad /\ \A k \in DOMAIN calls : ~(calls[k].fn = "key" /\ calls[k].by # KeyOf(calls[k].node))
  BY DEF TypedRight, Wrong
<1>2. \A k \in DOMAIN more : ~(more[k].fn = "key" /\ more[k].by # KeyOf(more[k].node))
  BY DEF Wrong
<1>3. \A l \in DOMAIN calls' : \/ \E k \in DOMAIN more : calls'[l] = more[k]
                               \/ \E k \in DOMAIN calls : k # 1 /\ calls'[l] = calls[k]
  <2>1. calls \in Seq(Frames(tree))
    BY DEF FrontTypeOK
  <2> QED BY <2>1, Stays
<1> QED BY <1>1, <1>2, <1>3

\* What dooms a log but the next call does so when that is made.
LEMMA DoomedPush ==
  ASSUME FrontTypeOK, calls # <<>>, Doomed, NEW more \in Seq(Frames(tree)), Replaced(calls, more, calls'),
         tree' = tree, saved' = saved, calls[1].fn \notin {"key", "flush"}
  PROVE  Doomed'
<1>1. /\ \A k \in DOMAIN calls : k # 1 => \E l \in DOMAIN calls' : calls'[l] = calls[k]
      /\ \A k \in DOMAIN more : \E l \in DOMAIN calls' : calls'[l] = more[k]
  BY Stays DEF FrontTypeOK
<1>2. calls # <<Call("flush", Root)>>
  <2>1. <<Call("flush", Root)>>[1] = Call("flush", Root) /\ Call("flush", Root).fn = "flush"
    BY DEF Call
  <2> QED BY <2>1
<1>3. ASSUME NEW k \in DOMAIN calls, Wrong(calls[k])
      PROVE  \E l \in DOMAIN calls' : calls'[l].fn = "key" /\ calls'[l].by # KeyOf(calls'[l].node)
  <2>1. k # 1 /\ calls[k].fn = "key" /\ calls[k].by # KeyOf(calls[k].node)
    BY <1>3 DEF Wrong
  <2> QED BY <1>1, <2>1
<1>4. ASSUME NEW m \in Nodes, tree.kind[m] \in Stores, m # Root
      PROVE  \/ \E l \in DOMAIN calls' : calls'[l].fn = "key" /\ calls'[l].by # KeyOf(calls'[l].node)
             \/ \E l \in DOMAIN calls' : calls'[l].fn = "flush" /\ calls'[l].node \in Path(tree, m)
  <2>1. \/ \E k \in DOMAIN calls : Wrong(calls[k])
        \/ \E k \in DOMAIN calls : calls[k].fn = "flush" /\ calls[k].node \in Path(tree, m)
    BY <1>4 DEF Doomed
  <2>2. ASSUME NEW k \in DOMAIN calls, calls[k].fn = "flush", calls[k].node \in Path(tree, m)
        PROVE  \E l \in DOMAIN calls' : calls'[l].fn = "flush" /\ calls'[l].node \in Path(tree, m)
    <3>1. k # 1
      BY <2>2
    <3> QED BY <1>1, <2>2, <3>1
  <2> QED BY <1>3, <2>1, <2>2
<1>5. ASSUME NEW n \in Nodes, NEW i \in DOMAIN Kids(n), ~Right(n, i)
      PROVE  \/ \E l \in DOMAIN calls' : calls'[l].fn = "key" /\ calls'[l].by # KeyOf(calls'[l].node)
             \/ \E l \in DOMAIN calls' : calls'[l].fn = "key" /\ calls'[l].node \in Path(tree, n)
  <2>1. \/ \E k \in DOMAIN calls : Wrong(calls[k])
        \/ \E k \in DOMAIN calls : calls[k].fn = "key" /\ calls[k].node \in Path(tree, n)
    BY <1>2, <1>5 DEF Doomed
  <2>2. ASSUME NEW k \in DOMAIN calls, calls[k].fn = "key", calls[k].node \in Path(tree, n)
        PROVE  \E l \in DOMAIN calls' : calls'[l].fn = "key" /\ calls'[l].node \in Path(tree, n)
    <3>1. k # 1
      BY <2>2
    <3> QED BY <1>1, <2>2, <3>1
  <2> QED BY <1>3, <2>1, <2>2
<1> QED BY <1>4, <1>5 DEF Doomed, Wrong, Right, KeyOf, Leaf, Kids, Nodes

\* The line that a leaf gets.
LEMMA LineType ==
  ASSUME FrontTypeOK, NEW m \in Leaves, given # <<>>
  PROVE  Line(tree.kind[m], given[Len(given)]) \in Seq(Whats)
<1> DEFINE log == given[Len(given)] kind == tree.kind[m]
<1>1. log.trace \in Texts /\ log.fields \in Seq(Texts)
  <2>1. log \in Logs
    BY DEF FrontTypeOK
  <2> QED BY <2>1, LogsAssumption
<1>2. kind \in {"string", "stream", "memcache"}
  BY TreeFacts DEF Leaves, Leaf, Nodes, FrontTypeOK, Stores
<1>3. Delimited(log.fields) \in Seq(Whats) /\ Len(Delimited(log.fields)) = 2 * Len(log.fields)
  BY <1>1, DelimitedType
<1> HIDE DEF log, kind
<1>4. log.fields \in Seq(Whats) /\ <<log.trace>> \in Seq(Whats)
  BY <1>1 DEF Whats
<1>5. log.fields # <<>> => Tail(Delimited(log.fields)) \in Seq(Whats)
  BY <1>1, <1>3
<1>6. (IF log.fields = <<>> THEN <<>> ELSE Tail(Delimited(log.fields))) \in Seq(Whats)
  BY <1>5
<1>7. Line(kind, log) \in Seq(Whats)
  <2>1. CASE kind = "string"
    <3>1. Line(kind, log) = <<log.trace>> \o Delimited(log.fields)
      BY <2>1 DEF Line
    <3> QED BY <1>3, <1>4, <3>1
  <2>2. CASE kind = "stream"
    <3>1. Line(kind, log) = <<log.trace>> \o log.fields
      BY <2>2 DEF Line
    <3> QED BY <1>4, <3>1
  <2>3. CASE kind = "memcache"
    <3> DEFINE rest == IF log.fields = <<>> THEN <<>> ELSE Tail(Delimited(log.fields))
    <3>1. Line(kind, log) = <<log.trace>> \o rest
      BY <2>3 DEF Line
    <3>2. rest \in Seq(Whats)
      BY <1>6
    <3> HIDE DEF rest
    <3> QED BY <1>4, <3>1, <3>2
  <2> QED BY <1>2, <2>1, <2>2, <2>3
<1> QED BY <1>7 DEF log, kind

\* A step that changes nothing for the leaf m.
LEMMA WayPush ==
  ASSUME FrontTypeOK, calls # <<>>, given # <<>>, NEW more \in Seq(Frames(tree)), Replaced(calls, more, calls'),
         tree' = tree, given' = given, NEW m \in Leaves, OnItsWay(m),
         sink'[m] = sink[m], buf'[m] = buf[m],
         calls[1] \in HandSet(tree, m) => OnceIn(more, HandSet(tree, m)),
         calls[1] \notin HandSet(tree, m) => NoneIn(more, HandSet(tree, m)),
         calls[1] \in WriteSet(tree, m) =>
           /\ OnceIn(more, WriteSet(tree, m))
           /\ \A p \in DOMAIN more : more[p] \in WriteSet(tree, m) => more[p].what = calls[1].what,
         calls[1] \notin WriteSet(tree, m) => NoneIn(more, WriteSet(tree, m))
  PROVE  OnItsWay(m)'
<1> DEFINE line == Line(tree.kind[m], given[Len(given)])
<1>1. line \in Seq(Whats) /\ Len(buf[m]) \in Nat /\ calls \in Seq(Frames(tree))
  <2>1. m \in Nodes
    BY DEF Leaves
  <2> QED BY <2>1, LineType DEF FrontTypeOK
<1>2. \A N : Lines(m, N)' = Lines(m, N)
  BY DEF Lines
<1> HIDE DEF line
<1>3. CASE /\ sink[m] = Lines(m, Len(given) - 1) /\ OnceIn(calls, HandSet(tree, m)) /\ Fed(m, line)
  <2>1. OnceIn(calls', HandSet(tree, m))
    BY <1>1, <1>3, PushOnce
  <2>2. Feeds(calls', WriteSet(tree, m), line, Len(buf[m]))
    <3>1. Feeds(calls, WriteSet(tree, m), line, Len(buf[m]))
      BY <1>3 DEF Fed
    <3> QED BY <1>1, <3>1, PushFeeds
  <2>3. Fed(m, line)'
    BY <1>3, <2>2 DEF Fed, line
  <2> QED BY <1>2, <1>3, <2>1, <2>3 DEF OnItsWay, line, Lines
<1>4. CASE /\ sink[m] = Lines(m, Len(given)) /\ buf[m] = <<>>
           /\ NoneIn(calls, HandSet(tree, m)) /\ NoneIn(calls, WriteSet(tree, m))
  <2>1. 1 \in DOMAIN calls
    BY <1>1
  <2>2. calls[1] \notin HandSet(tree, m) /\ calls[1] \notin WriteSet(tree, m)
    BY <1>4, <2>1 DEF NoneIn
  <2>3. NoneIn(calls', HandSet(tree, m)) /\ NoneIn(calls', WriteSet(tree, m))
    BY <1>1, <1>4, <2>2, PushNone
  <2> QED BY <1>2, <1>4, <2>3 DEF OnItsWay, Lines
<1> QED BY <1>3, <1>4 DEF OnItsWay, line

LEMMA DeliveryPush ==
  ASSUME FrontTypeOK, calls # <<>>, given # <<>>, Order, Delivery, calls # <<Call("flush", Root)>>,
         NEW more \in Seq(Frames(tree)), Replaced(calls, more, calls'),
         tree' = tree, given' = given, calls' # <<Call("flush", Root)>>,
         \A k \in DOMAIN more : more[k].fn \notin Final,
         IF calls[1].fn \in Final THEN seq' = seq + 1 /\ fmt' = <<>> ELSE seq' = seq /\ fmt' = fmt,
         Sound(tree) => \A m \in Leaves : OnItsWay(m) => OnItsWay(m)'
  PROVE  Delivery'
<1> SUFFICES ASSUME Sound(tree) PROVE Under'
  BY DEF Delivery
<1>1. Under
  BY DEF Delivery, Start
<1>2. \A m \in Leaves : OnItsWay(m)'
  BY <1>1 DEF Under
<1>3. /\ calls \in Seq(Frames(tree)) /\ 1 \in DOMAIN calls /\ Len(calls) \in Nat /\ DOMAIN calls = 1..Len(calls)
      /\ seq \in Nat /\ Len(given) \in Nat
  BY DEF FrontTypeOK
<1>4. /\ \A k \in DOMAIN calls : k # 1 => \E l \in DOMAIN calls' : calls'[l] = calls[k]
      /\ \A l \in DOMAIN calls' : \/ \E k \in DOMAIN more : calls'[l] = more[k]
                                  \/ \E k \in DOMAIN calls : k # 1 /\ calls'[l] = calls[k]
  <2>1. \A k \in DOMAIN calls : k # 1 => \E l \in DOMAIN calls' : calls'[l] = calls[k]
    BY <1>3, Stays
  <2>2. \A l \in DOMAIN calls' : \/ \E k \in DOMAIN more : calls'[l] = more[k]
                                 \/ \E k \in DOMAIN calls : k # 1 /\ calls'[l] = calls[k]
    BY <1>3, Stays
  <2> QED BY <2>1, <2>2
<1>5. IF \E k \in DOMAIN calls' : calls'[k].fn \in Final THEN seq' = Len(given) - 1
      ELSE seq' = Len(given) /\ fmt' = <<>>
  <2>1. CASE calls[1].fn \in Final
    <3>1. ASSUME NEW k \in DOMAIN calls, k # 1 PROVE calls[k].fn \notin Final
      <4>1. 1 < k
        BY <1>3, <3>1
      <4> QED BY <1>3, <2>1, <4>1 DEF Order, OrderIn, Behind
    <3>2. \A k \in DOMAIN calls' : calls'[k].fn \notin Final
      BY <1>4, <3>1
    <3>3. seq = Len(given) - 1
      BY <1>1, <1>3, <2>1 DEF Under
    <3> QED BY <1>3, <2>1, <3>2, <3>3
  <2>2. CASE calls[1].fn \notin Final
    <3>1. (\E k \in DOMAIN calls' : calls'[k].fn \in Final) <=> (\E k \in DOMAIN calls : calls[k].fn \in Final)
      <4>1. ASSUME NEW k \in DOMAIN calls', calls'[k].fn \in Final PROVE \E l \in DOMAIN calls : calls[l].fn \in Final
        BY <1>4, <4>1
      <4>2. ASSUME NEW k \in DOMAIN calls, calls[k].fn \in Final PROVE \E l \in DOMAIN calls' : calls'[l].fn \in Final
        <5>1. k # 1
          BY <2>2, <4>2
        <5> QED BY <1>4, <4>2, <5>1
      <4> QED BY <4>1, <4>2
    <3>2. seq' = seq /\ fmt' = fmt
      BY <2>2
    <3> QED BY <1>1, <3>1, <3>2 DEF Under
  <2> QED BY <2>1, <2>2
<1>6. Leaves' = Leaves
  BY DEF Leaves, Leaf, Nodes
<1> QED BY <1>2, <1>5, <1>6 DEF Under

\* A call that is not a flush.
LEMMA RecordingPush ==
  ASSUME FrontInv, status = "open", calls # <<>>, FrontNext,
         NEW more \in Seq(Frames(tree)), Replaced(calls, more, calls'),
         tree' = tree, status' = status, key' = key, saved' = saved, closed' = closed, bad' = bad, given' = given,
         calls[1].fn # "flush", ~Wrong(calls[1]), conn' \in Nodes,
         \A k \in DOMAIN more : more[k].fn \in Leading,
         calls[1].fn = "switch" => more = <<>> /\ conn' = calls[1].node,
         flushed => flushed', calls[1].fn = "formatted" => flushed',
         IF calls[1].fn \in Final THEN seq' = seq + 1 /\ fmt' = <<>> ELSE seq' = seq /\ fmt' = fmt,
         LedIn(more, conn'),
         calls[1].fn \in Leading =>
           \/ more = <<>> /\ conn' = calls[1].node
           \/ more # <<>> /\ more[Len(more)].node = calls[1].node /\ more[Len(more)].fn \in Leading,
         Sound(tree) => \A k \in DOMAIN more : ~Wrong(more[k]),
         Doomed',
         Sound(tree) => \A m \in Leaves : OnItsWay(m) => OnItsWay(m)'
  PROVE  FrontInv'
<1>1. /\ FrontTypeOK /\ tree \in Trees /\ DOMAIN tree.kind = Nodes
      /\ calls \in Seq(Frames(tree)) /\ given # <<>> /\ ~bad
      /\ Opened /\ Connections /\ Home /\ TypedRight /\ FlushedOnce /\ Order /\ Doomed /\ Delivery
      /\ \A m \in Nodes : closed[m] = 0
      /\ \A k \in DOMAIN calls : calls[k].fn \in RecordFns
  BY RecordingFacts
<1>2. FrontTypeOK' /\ Nodes' = Nodes
  BY <1>1, TypeNext DEF Nodes
<1>3. calls # <<Call("flush", Root)>>
  <2>1. <<Call("flush", Root)>>[1] = Call("flush", Root) /\ Call("flush", Root).fn = "flush"
    BY DEF Call
  <2> QED BY <2>1
<1>4. Connections'
  <2>1. LedIn(calls, conn)
    BY <1>1 DEF Connections, Led
  <2>2. LedIn(calls', conn')
    BY <1>1, <2>1, LedPush
  <2> QED BY <2>2 DEF Connections, Led
<1>5. Home'
  BY <1>1, <1>3, HomePush
<1>6. TypedRight'
  BY <1>1, TypedPush
<1>7. FlushedOnce' /\ calls' # <<Call("flush", Root)>>
  <2>1. \A k \in DOMAIN more : more[k].fn # "flush"
    BY DEF Leading
  <2> QED BY <1>1, <2>1, FlushedPush
<1>8. Order'
  <2>1. \A k \in DOMAIN more : more[k].fn \notin Behind
    BY DEF Leading, Behind, Final
  <2>2. OrderIn(more)
    BY <2>1 DEF OrderIn
  <2>3. OrderIn(calls')
    BY <1>1, <2>1, <2>2, OrderPush DEF Order
  <2> QED BY <2>3 DEF Order
<1>9. Delivery'
  <2>1. \A k \in DOMAIN more : more[k].fn \notin Final
    BY DEF Leading, Final
  <2> QED BY <1>1, <1>3, <1>7, <2>1, DeliveryPush
<1>10. Phases'
  <2>1. \A l \in DOMAIN calls' : \/ \E k \in DOMAIN more : calls'[l] = more[k]
                                 \/ \E k \in DOMAIN calls : k # 1 /\ calls'[l] = calls[k]
    BY <1>1, Stays
  <2>2. \A l \in DOMAIN calls' : calls'[l].fn \in RecordFns
    BY <1>1, <2>1 DEF Leading, RecordFns
  <2>3. AllIn(calls, RecordFns)'
    BY <2>2 DEF AllIn, RecordFns
  <2> QED BY <1>1, <2>3 DEF Phases
<1>11. Opened'
  BY <1>1, <1>2, OpenedStays
<1>12. RecordingInv'
  BY <1>4, <1>5, <1>6, <1>7, <1>8, <1>9 DEF RecordingInv
<1> QED BY <1>1, <1>2, <1>10, <1>11, <1>12 DEF FrontInv

LEMMA NoMore ==
  ASSUME NEW F, NEW c, NEW P
  PROVE  /\ <<>> \in Seq(F) /\ DOMAIN <<>> = {} /\ LedIn(<<>>, c) /\ NoneIn(<<>>, P)
<1>1. DOMAIN <<>> = {} /\ <<>> \in Seq(F)
  OBVIOUS
<1> QED BY <1>1 DEF LedIn, NoneIn

\* A call that is done, and changes nothing for the leaf m.
LEMMA WayDone ==
  ASSUME FrontTypeOK, calls # <<>>, given # <<>>, Replaced(calls, <<>>, calls'),
         tree' = tree, given' = given, NEW m \in Leaves, OnItsWay(m),
         sink'[m] = sink[m], buf'[m] = buf[m],
         calls[1] \notin HandSet(tree, m), calls[1] \notin WriteSet(tree, m)
  PROVE  OnItsWay(m)'
<1>1. /\ <<>> \in Seq(Frames(tree)) /\ NoneIn(<<>>, HandSet(tree, m)) /\ NoneIn(<<>>, WriteSet(tree, m))
  BY NoMore
<1> QED BY <1>1, WayPush

LEMMA SwitchNext ==
  ASSUME FrontInv, status = "open", SwitchBack
  PROVE  FrontInv'
<1>1. /\ calls # <<>> /\ calls[1].fn = "switch" /\ conn' = calls[1].node /\ Replaced(calls, <<>>, calls')
      /\ tree' = tree /\ status' = status /\ key' = key /\ saved' = saved /\ closed' = closed
      /\ bad' = bad /\ given' = given /\ fmt' = fmt /\ seq' = seq /\ flushed' = flushed
      /\ sink' = sink /\ buf' = buf
  BY DEF SwitchBack, Calls, Go, Replaced, At, opened, table, leaves
<1>2. /\ FrontTypeOK /\ tree \in Trees /\ given # <<>> /\ Doomed
      /\ At \in Nodes /\ calls[1].node = At
  BY <1>1, RecordingFacts
<1>3. /\ <<>> \in Seq(Frames(tree)) /\ DOMAIN <<>> = {} /\ LedIn(<<>>, conn')
  BY NoMore
<1>4. Doomed'
  BY <1>1, <1>2, <1>3, DoomedPush
<1>5. ASSUME NEW m \in Leaves, OnItsWay(m) PROVE OnItsWay(m)'
  <2>1. calls[1] \notin HandSet(tree, m) /\ calls[1] \notin WriteSet(tree, m)
    BY <1>1 DEF HandSet, WriteSet
  <2> QED BY <1>1, <1>2, <1>5, <2>1, WayDone
<1>6. conn' \in Nodes /\ ~Wrong(calls[1]) /\ calls[1].fn \notin Final
  BY <1>1, <1>2 DEF Wrong, Final
<1>7. FrontNext
  BY DEF FrontNext
<1> QED BY <1>1, <1>3, <1>4, <1>5, <1>6, <1>7, RecordingPush

LEMMA FormattedNext ==
  ASSUME FrontInv, status = "open", Formatted
  PROVE  FrontInv'
<1>1. /\ calls # <<>> /\ calls[1].fn \in Final /\ conn' = conn /\ Replaced(calls, <<>>, calls')
      /\ tree' = tree /\ status' = status /\ key' = key /\ saved' = saved /\ closed' = closed
      /\ bad' = bad /\ given' = given /\ fmt' = <<>> /\ seq' = seq + 1
      /\ flushed' = (flushed \/ calls[1].fn = "formatted")
      /\ sink' = sink /\ buf' = buf
  BY DEF Formatted, Calls, Go, Replaced, Final, opened, table, leaves
<1>2. /\ FrontTypeOK /\ tree \in Trees /\ given # <<>> /\ Doomed /\ Home
  BY <1>1, RecordingFacts
<1>3. /\ <<>> \in Seq(Frames(tree)) /\ DOMAIN <<>> = {} /\ LedIn(<<>>, conn')
  BY NoMore
<1>4. Doomed'
  BY <1>1, <1>2, <1>3, DoomedPush DEF Final
<1>5. ASSUME NEW m \in Leaves, OnItsWay(m) PROVE OnItsWay(m)'
  <2>1. calls[1] \notin HandSet(tree, m) /\ calls[1] \notin WriteSet(tree, m)
    BY <1>1 DEF HandSet, WriteSet, Final
  <2> QED BY <1>1, <1>2, <1>5, <2>1, WayDone
<1>6. conn' \in Nodes /\ ~Wrong(calls[1]) /\ calls[1].fn \notin Leading \cup {"flush"}
  BY <1>1, <1>2 DEF Wrong, Final, Leading, Home
<1>7. calls[1].fn # "switch" /\ calls[1].fn # "flush"
  BY <1>6 DEF Leading
<1>8. flushed' \/ ~flushed
  BY <1>1
<1>9. FrontNext
  BY DEF FrontNext
<1> QED BY <1>1, <1>3, <1>4, <1>5, <1>6, <1>7, <1>9, RecordingPush

LEMMA LinesNext ==
  ASSUME NEW m, NEW N \in Nat, N # 0
  PROVE  Append(Lines(m, N - 1), Line(tree.kind[m], given[N])) = Lines(m, N)
<1> DEFINE L(i) == Line(tree.kind[m], given[i])
<1>1. Lines(m, N - 1) = [i \in 1..(N - 1) |-> L(i)] /\ Lines(m, N) = [i \in 1..N |-> L(i)]
  BY DEF Lines
<1> HIDE DEF L
<1>2. Append([i \in 1..(N - 1) |-> L(i)], L(N)) = [i \in 1..N |-> L(i)]
  OBVIOUS
<1> QED BY <1>1, <1>2 DEF L

\* What is in the buffer when it is handed on is the whole line.
LEMMA WholeLine ==
  ASSUME FrontTypeOK, calls # <<>>, given # <<>>, Order, NEW m \in Leaves,
         calls[1].fn = "hand_on", Fed(m, Line(tree.kind[m], given[Len(given)]))
  PROVE  /\ buf[m] = Line(tree.kind[m], given[Len(given)])
         /\ NoneIn(calls, WriteSet(tree, m))
<1> DEFINE line == Line(tree.kind[m], given[Len(given)])
<1>1. line \in Seq(Whats) /\ buf[m] \in Seq(Whats) /\ calls \in Seq(Frames(tree))
  <2>1. m \in Nodes
    BY DEF Leaves
  <2> QED BY <2>1, LineType DEF FrontTypeOK
<1> HIDE DEF line
<1>2. NoneIn(calls, WriteSet(tree, m))
  <2>1. ASSUME NEW k \in DOMAIN calls, calls[k] \in WriteSet(tree, m) PROVE FALSE
    <3>1. calls[k].fn \in {"put", "key"}
      BY <2>1 DEF WriteSet
    <3>2. k # 1
      BY <3>1
    <3>3. 1 \in DOMAIN calls /\ 1 < k
      BY <1>1, <3>2
    <3> QED BY <3>1, <3>3 DEF Order, OrderIn, Behind
  <2> QED BY <2>1 DEF NoneIn
<1>3. /\ Len(buf[m]) \in 0..Len(line)
      /\ \A i \in 1..Len(buf[m]) : buf[m][i] = line[i]
      /\ Feeds(calls, WriteSet(tree, m), line, Len(buf[m]))
  BY <1>1 DEF Fed, line
<1>4. Len(buf[m]) = Len(line)
  BY <1>1, <1>2, <1>3, NoFeeds
<1>5. buf[m] = line
  <2>1. \A i \in 1..Len(buf[m]) : buf[m][i] = line[i]
    BY <1>3
  <2> QED BY <1>1, <1>4, <2>1, SeqEqual
<1> QED BY <1>2, <1>5 DEF line

LEMMA HandOnNext ==
  ASSUME FrontInv, status = "open", HandOn
  PROVE  FrontInv'
<1>1. /\ calls # <<>> /\ calls[1].fn = "hand_on" /\ conn' = conn /\ Replaced(calls, <<>>, calls')
      /\ tree' = tree /\ status' = status /\ key' = key /\ saved' = saved /\ closed' = closed
      /\ bad' = bad /\ given' = given /\ fmt' = fmt /\ seq' = seq /\ flushed' = flushed
      /\ sink' = [sink EXCEPT ![At] = Append(@, buf[At])]
      /\ buf' = [buf EXCEPT ![At] = <<>>]
  BY DEF HandOn, Calls, Go, Replaced, opened, table
<1>2. /\ FrontTypeOK /\ tree \in Trees /\ given # <<>> /\ Doomed /\ Home /\ Order
      /\ At \in Nodes /\ calls[1].node = At /\ calls \in Seq(Frames(tree)) /\ calls[1] \in Frames(tree)
      /\ 1 \in DOMAIN calls
  BY <1>1, RecordingFacts
<1>3. /\ <<>> \in Seq(Frames(tree)) /\ DOMAIN <<>> = {} /\ LedIn(<<>>, conn')
      /\ \A P : NoneIn(<<>>, P)
  BY NoMore
<1>4. Doomed'
  BY <1>1, <1>2, <1>3, DoomedPush
<1>5. ASSUME NEW m \in Leaves, OnItsWay(m) PROVE OnItsWay(m)'
  <2>1. m \in Nodes /\ calls[1] \notin WriteSet(tree, m)
    BY <1>1 DEF Leaves, WriteSet
  <2>2. CASE m # At
    <3>1. calls[1] \notin HandSet(tree, m)
      BY <1>1, <1>2, <2>2 DEF HandSet
    <3>2. sink'[m] = sink[m] /\ buf'[m] = buf[m]
      BY <1>1, <2>1, <2>2 DEF FrontTypeOK
    <3> QED BY <1>1, <1>2, <1>5, <2>1, <3>1, <3>2, WayDone
  <2>3. CASE m = At
    <3>1. calls[1] \in HandSet(tree, m)
      BY <1>1, <1>2, <2>3 DEF HandSet
    <3>2. /\ sink[m] = Lines(m, Len(given) - 1) /\ OnceIn(calls, HandSet(tree, m))
          /\ Fed(m, Line(tree.kind[m], given[Len(given)]))
      BY <1>2, <1>5, <3>1 DEF OnItsWay, NoneIn
    <3>3. /\ buf[m] = Line(tree.kind[m], given[Len(given)])
          /\ NoneIn(calls, WriteSet(tree, m))
      BY <1>1, <1>2, <3>2, WholeLine
    <3>4. NoneIn(calls', HandSet(tree, m)) /\ NoneIn(calls', WriteSet(tree, m))
      BY <1>1, <1>2, <1>3, <3>1, <3>2, <3>3, PushNone
    <3>5. sink'[m] = Lines(m, Len(given)) /\ buf'[m] = <<>>
      <4>1. Len(given) \in Nat /\ Len(given) # 0
        BY <1>2 DEF FrontTypeOK
      <4>2. sink'[m] = Append(sink[m], buf[m]) /\ buf'[m] = <<>>
        BY <1>1, <2>1, <2>3, <1>2 DEF FrontTypeOK
      <4> QED BY <3>2, <3>3, <4>1, <4>2, LinesNext
    <3> QED BY <1>1, <3>4, <3>5 DEF OnItsWay, Lines
  <2> QED BY <2>2, <2>3
<1>6. conn' \in Nodes /\ ~Wrong(calls[1]) /\ calls[1].fn \notin Final \cup Leading
  BY <1>1, <1>2 DEF Wrong, Final, Home, Leading
<1>7. FrontNext
  BY DEF FrontNext
<1> QED BY <1>1, <1>3, <1>4, <1>5, <1>6, <1>7, RecordingPush

\* A leaf writes what is next for it, and nothing for another.
LEMMA WayWritten ==
  ASSUME FrontTypeOK, calls # <<>>, given # <<>>, Replaced(calls, <<>>, calls'),
         calls[1].fn \in {"put", "key"}, Leaf(At),
         tree' = tree, given' = given, sink' = sink,
         buf' = [buf EXCEPT ![At] = Append(@, calls[1].what)],
         NEW m \in Leaves, OnItsWay(m)
  PROVE  OnItsWay(m)'
<1> DEFINE line == Line(tree.kind[m], given[Len(given)])
<1>1. /\ tree \in Trees /\ calls \in Seq(Frames(tree)) /\ calls[1] \in Frames(tree) /\ 1 \in DOMAIN calls
      /\ At \in Nodes /\ calls[1].node = At /\ calls[1].what \in Whats /\ m \in Nodes
      /\ DOMAIN tree.kind = Nodes
      /\ line \in Seq(Whats) /\ buf[m] \in Seq(Whats) /\ buf \in [Nodes -> Seq(Whats)]
  BY Next1, LineType DEF FrontTypeOK, Leaves, Nodes
<1>2. calls[1] \notin HandSet(tree, m)
  BY DEF HandSet
<1>3. /\ <<>> \in Seq(Frames(tree)) /\ \A P : NoneIn(<<>>, P)
  BY NoMore
<1>4. CASE m # At
  <2>1. At \notin Path(tree, m)
    <3>1. tree.kids[At] = <<>>
      BY <1>1, TreeFacts DEF Leaf
    <3>2. DOMAIN tree.kids[At] = {}
      BY <3>1, NoMore
    <3> QED BY <1>1, <1>4, <3>2, PathDown
  <2>2. calls[1] \notin WriteSet(tree, m)
    BY <1>1, <2>1 DEF WriteSet
  <2>3. sink'[m] = sink[m] /\ buf'[m] = buf[m]
    BY <1>1, <1>4
  <2> QED BY <1>2, <2>2, <2>3, WayDone
<1>5. CASE m = At
  <2>1. calls[1] \in WriteSet(tree, m)
    BY <1>1, <1>5, PathType DEF WriteSet
  <2>2. sink[m] = Lines(m, Len(given) - 1) /\ OnceIn(calls, HandSet(tree, m)) /\ Fed(m, line)
    BY <1>1, <2>1 DEF OnItsWay, NoneIn
  <2>3. OnceIn(calls', HandSet(tree, m))
    BY <1>1, <1>2, <1>3, <2>2, PushOnce
  <2> HIDE DEF line
  <2>4. Len(buf[m]) \in Nat
    BY <1>1
  <2>5. /\ Len(buf[m]) + 1 <= Len(line) /\ line[Len(buf[m]) + 1] = calls[1].what
        /\ Feeds(calls', WriteSet(tree, m), line, Len(buf[m]) + 1)
    <3>1. Feeds(calls, WriteSet(tree, m), line, Len(buf[m]))
      BY <2>2 DEF Fed
    <3> QED BY <1>1, <2>1, <2>4, <3>1, PopFeeds
  <2>6. buf'[m] = Append(buf[m], calls[1].what)
    BY <1>1, <1>5
  <2>7. /\ Len(buf'[m]) = Len(buf[m]) + 1
        /\ \A i \in 1..Len(buf'[m]) : buf'[m][i] = line[i]
    <3>1. \A i \in 1..Len(buf[m]) : buf[m][i] = line[i]
      BY <2>2 DEF Fed
    <3>2. /\ Len(buf'[m]) = Len(buf[m]) + 1 /\ buf'[m][Len(buf[m]) + 1] = calls[1].what
          /\ \A i \in 1..Len(buf[m]) : buf'[m][i] = buf[m][i]
      BY <1>1, <2>6, AppendProperties
    <3> QED BY <2>4, <2>5, <3>1, <3>2
  <2>8. Fed(m, line)'
    BY <2>5, <2>7 DEF Fed, line
  <2>9. Lines(m, Len(given) - 1)' = Lines(m, Len(given) - 1)
    BY DEF Lines
  <2> QED BY <2>2, <2>3, <2>8, <2>9 DEF OnItsWay, line, Lines
<1> QED BY <1>4, <1>5

\* An inner node passes on what it is to write.
LEMMA WayKids ==
  ASSUME FrontTypeOK, calls # <<>>, given # <<>>,
         calls[1].fn \in {"put", "key"}, ~Leaf(At),
         NEW kids \in Seq(Frames(tree)), Len(kids) = Len(Kids(At)),
         \A i \in DOMAIN kids : /\ kids[i].fn \in {"put", "key"} /\ kids[i].node = Kids(At)[i]
                                /\ kids[i].what = calls[1].what,
         Replaced(calls, Around(At, kids), calls'),
         tree' = tree, given' = given, sink' = sink, buf' = buf,
         NEW m \in Leaves, OnItsWay(m)
  PROVE  OnItsWay(m)'
<1> DEFINE more == Around(At, kids)
           W    == WriteSet(tree, m)
<1>1. /\ tree \in Trees /\ calls \in Seq(Frames(tree)) /\ calls[1] \in Frames(tree) /\ 1 \in DOMAIN calls
      /\ At \in Nodes /\ calls[1].node = At /\ m \in Nodes /\ DOMAIN tree.kind = Nodes
      /\ DOMAIN kids = DOMAIN tree.kids[At] /\ Leaf(m)
  <2>1. DOMAIN kids = 1..Len(kids) /\ At \in Nodes
    BY Next1
  <2>2. DOMAIN Kids(At) = 1..Len(Kids(At))
    BY <2>1, KidsType
  <2> QED BY <2>1, <2>2, Next1 DEF FrontTypeOK, Leaves, Nodes, Kids
<1>2. /\ more \in Seq(Frames(tree)) /\ DOMAIN more = 1..(Len(kids) + 1)
      /\ \A k \in DOMAIN kids : more[k] = kids[k] /\ k \in DOMAIN more
      /\ more[Len(kids) + 1].fn = "switch"
      /\ Len(kids) \in Nat /\ DOMAIN kids = 1..Len(kids)
  <2>1. Call("switch", At) \in Frames(tree) /\ Call("switch", At).fn = "switch"
    BY <1>1, CallType, CallFields
  <2> QED BY <2>1, AroundType DEF Around
<1> HIDE DEF more
<1>3. \A p \in DOMAIN more : p \in DOMAIN kids \/ more[p].fn = "switch"
  BY <1>2
<1>4. calls[1] \notin HandSet(tree, m) /\ NoneIn(more, HandSet(tree, m))
  <2>1. ASSUME NEW p \in DOMAIN more, more[p] \in HandSet(tree, m) PROVE FALSE
    <3>1. more[p].fn \in {"hand_on", "flush"}
      BY <2>1 DEF HandSet
    <3> QED BY <1>2, <1>3, <3>1
  <2> QED BY <2>1 DEF HandSet, NoneIn
<1>5. \A p \in DOMAIN more : more[p] \in W => p \in DOMAIN kids /\ kids[p].node \in Path(tree, m)
  <2>1. ASSUME NEW p \in DOMAIN more, more[p] \in W PROVE p \in DOMAIN kids /\ kids[p].node \in Path(tree, m)
    <3>1. more[p].fn \in {"put", "key"} /\ more[p].node \in Path(tree, m)
      BY <2>1 DEF WriteSet
    <3> QED BY <1>2, <1>3, <3>1
  <2> QED BY <2>1
<1>6. CASE calls[1] \in W
  <2>1. At \in Path(tree, m) /\ At # m
    BY <1>1, <1>6 DEF WriteSet
  <2>2. PICK i \in DOMAIN tree.kids[At] : tree.kids[At][i] \in Path(tree, m)
    BY <1>1, <2>1, PathDown
  <2>3. \A j \in DOMAIN tree.kids[At] : tree.kids[At][j] \in Path(tree, m) => j = i
    BY <1>1, <2>1, <2>2, PathOne
  <2>4. more[i] \in W /\ i \in DOMAIN more
    <3>1. i \in DOMAIN kids /\ more[i] = kids[i] /\ i \in DOMAIN more
      BY <1>1, <1>2, <2>2
    <3>2. more[i] \in Frames(tree)
      BY <1>2, <3>1
    <3> QED BY <2>2, <3>1, <3>2 DEF WriteSet, Kids
  <2>5. \A p \in DOMAIN more : more[p] \in W => p = i
    BY <1>1, <1>5, <2>3 DEF Kids
  <2>6. OnceIn(more, W)
    BY <2>4, <2>5 DEF OnceIn
  <2>7. \A p \in DOMAIN more : more[p] \in W => more[p].what = calls[1].what
    BY <1>2, <1>5
  <2> QED BY <1>2, <1>4, <1>6, <2>6, <2>7, WayPush DEF more
<1>7. CASE calls[1] \notin W
  <2>1. At \notin Path(tree, m)
    BY <1>1, <1>7 DEF WriteSet
  <2>2. NoneIn(more, W)
    <3>1. ASSUME NEW p \in DOMAIN more, more[p] \in W PROVE FALSE
      <4>1. p \in DOMAIN tree.kids[At] /\ tree.kids[At][p] \in Path(tree, m)
        BY <1>1, <1>5, <3>1 DEF Kids
      <4> QED BY <1>1, <2>1, <4>1, PathKid
    <3> QED BY <3>1 DEF NoneIn
  <2> QED BY <1>2, <1>4, <1>7, <2>2, WayPush DEF more
<1> QED BY <1>6, <1>7

\* An inner node that passes on what it is to write.
LEMMA AroundKids ==
  ASSUME FrontTypeOK, NEW n \in Nodes, NEW kids \in Seq(Frames(tree)), NEW c,
         \A i \in DOMAIN kids : kids[i].fn \in {"put", "key"} /\ kids[i].set
  PROVE  /\ Around(n, kids) \in Seq(Frames(tree)) /\ Around(n, kids) # <<>>
         /\ \A k \in DOMAIN Around(n, kids) : Around(n, kids)[k].fn \in Leading
         /\ LedIn(Around(n, kids), c)
         /\ Around(n, kids)[Len(Around(n, kids))].node = n
         /\ Around(n, kids)[Len(Around(n, kids))].fn \in Leading
         /\ \A k \in DOMAIN kids : k \in DOMAIN Around(n, kids) /\ Around(n, kids)[k] = kids[k]
         /\ \A k \in DOMAIN Around(n, kids) : Wrong(Around(n, kids)[k]) => k \in DOMAIN kids
<1> DEFINE s == Call("switch", n) more == Around(n, kids)
<1>1. s \in Frames(tree) /\ s.fn = "switch" /\ s.node = n
  <2>1. tree \in Trees /\ n \in DOMAIN tree.kind
    BY DEF FrontTypeOK, Nodes
  <2> QED BY <2>1, CallType, CallFields
<1> HIDE DEF s
<1>2. /\ more \in Seq(Frames(tree)) /\ Len(more) = Len(kids) + 1 /\ DOMAIN more = 1..(Len(kids) + 1) /\ more # <<>>
      /\ \A k \in DOMAIN kids : more[k] = kids[k]
      /\ more[Len(kids) + 1] = s
      /\ Len(kids) \in Nat /\ DOMAIN kids = 1..Len(kids)
  BY <1>1, AroundType DEF Around, s
<1> HIDE DEF more
<1>3. \A k \in DOMAIN more : \/ k \in DOMAIN kids /\ more[k].fn \in {"put", "key"} /\ more[k].set
                             \/ k = Len(kids) + 1 /\ more[k].fn = "switch"
  BY <1>1, <1>2
<1>4. LedIn(more, c)
  BY <1>3 DEF LedIn, Typed
<1>5. \A k \in DOMAIN more : more[k].fn \in Leading
  BY <1>3 DEF Leading
<1>6. \A k \in DOMAIN more : Wrong(more[k]) => k \in DOMAIN kids
  BY <1>3 DEF Wrong
<1>7. more[Len(more)].node = n /\ more[Len(more)].fn \in Leading
  BY <1>1, <1>2 DEF Leading
<1>8. \A k \in DOMAIN kids : k \in DOMAIN more /\ more[k] = kids[k]
  BY <1>2
<1> QED BY <1>2, <1>4, <1>5, <1>6, <1>7, <1>8 DEF more

LEMMA PutKidsFns ==
  ASSUME FrontTypeOK, NEW n \in Nodes, NEW what \in Whats
  PROVE  /\ DOMAIN PutKids(n, what) = DOMAIN Kids(n)
         /\ \A i \in DOMAIN PutKids(n, what) :
              /\ PutKids(n, what)[i].fn = "put" /\ PutKids(n, what)[i].set
              /\ PutKids(n, what)[i].node = Kids(n)[i] /\ PutKids(n, what)[i].what = what
<1>1. DOMAIN PutKids(n, what) = DOMAIN Kids(n)
  BY DEF PutKids
<1>2. \A i \in DOMAIN Kids(n) : PutKids(n, what)[i] = CallKid(CallPut(Kids(n)[i], what))
  BY DEF PutKids
<1>3. ASSUME NEW i \in DOMAIN Kids(n)
      PROVE  /\ PutKids(n, what)[i].fn = "put" /\ PutKids(n, what)[i].set = TRUE
             /\ PutKids(n, what)[i].node = Kids(n)[i] /\ PutKids(n, what)[i].what = what
  <2> DEFINE kid == Kids(n)[i]
  <2>1. PutKids(n, what)[i] = CallKid(CallPut(kid, what))
    BY <1>2
  <2> HIDE DEF kid
  <2>2. /\ PutKids(n, what)[i].fn = "put" /\ PutKids(n, what)[i].set = TRUE
        /\ PutKids(n, what)[i].node = kid /\ PutKids(n, what)[i].what = what
    BY <2>1 DEF Call, CallPut, CallKid
  <2> QED BY <2>2 DEF kid
<1> QED BY <1>1, <1>3

LEMMA KeyKidsFns ==
  ASSUME FrontTypeOK, NEW n \in Nodes, NEW what \in Whats
  PROVE  /\ DOMAIN KeyKids(n, what) = DOMAIN Kids(n)
         /\ \A i \in DOMAIN KeyKids(n, what) :
              /\ KeyKids(n, what)[i].fn = "key" /\ KeyKids(n, what)[i].set
              /\ KeyKids(n, what)[i].node = Kids(n)[i] /\ KeyKids(n, what)[i].what = what
              /\ KeyKids(n, what)[i].by = saved[n][i]
<1>1. DOMAIN KeyKids(n, what) = DOMAIN Kids(n)
  BY DEF KeyKids
<1>2. \A i \in DOMAIN Kids(n) : KeyKids(n, what)[i] = CallKid(CallKey(Kids(n)[i], saved[n][i], what))
  BY DEF KeyKids
<1>3. ASSUME NEW i \in DOMAIN Kids(n)
      PROVE  /\ KeyKids(n, what)[i].fn = "key" /\ KeyKids(n, what)[i].set = TRUE
             /\ KeyKids(n, what)[i].node = Kids(n)[i] /\ KeyKids(n, what)[i].what = what
             /\ KeyKids(n, what)[i].by = saved[n][i]
  <2> DEFINE kid == Kids(n)[i] by == saved[n][i]
  <2>1. KeyKids(n, what)[i] = CallKid(CallKey(kid, by, what))
    BY <1>2
  <2> HIDE DEF kid, by
  <2>2. /\ KeyKids(n, what)[i].fn = "key" /\ KeyKids(n, what)[i].set = TRUE
        /\ KeyKids(n, what)[i].node = kid /\ KeyKids(n, what)[i].what = what
        /\ KeyKids(n, what)[i].by = by
    BY <2>1 DEF Call, CallKey, CallKid
  <2> QED BY <2>2 DEF kid, by
<1> QED BY <1>1, <1>3

LEMMA PutNext ==
  ASSUME FrontInv, status = "open", Put
  PROVE  FrontInv'
<1>1. /\ calls # <<>> /\ calls[1].fn = "put" /\ conn' = At
      /\ tree' = tree /\ status' = status /\ key' = key /\ saved' = saved /\ closed' = closed
      /\ bad' = bad /\ given' = given /\ fmt' = fmt /\ seq' = seq /\ flushed' = flushed /\ sink' = sink
      /\ Head(calls) = calls[1]
  BY DEF Put, TypedCall, Calls, opened, table
<1>2. /\ FrontTypeOK /\ tree \in Trees /\ given # <<>> /\ Doomed
      /\ At \in Nodes /\ calls[1].node = At /\ calls[1].what \in Whats
  BY <1>1, RecordingFacts
<1>3. /\ ~Wrong(calls[1]) /\ calls[1].fn \notin Final \cup {"key", "flush", "switch", "formatted"} /\ conn' \in Nodes
      /\ FrontNext
  BY <1>1, <1>2 DEF Wrong, Final, FrontNext
<1>4. CASE Leaf(At)
  <2>1. Replaced(calls, <<>>, calls') /\ buf' = [buf EXCEPT ![At] = Append(@, calls[1].what)]
    BY <1>1, <1>4 DEF Put, Go, Replaced, Written
  <2>2. /\ <<>> \in Seq(Frames(tree)) /\ DOMAIN <<>> = {} /\ LedIn(<<>>, conn')
    BY NoMore
  <2>3. Doomed'
    BY <1>1, <1>2, <1>3, <2>1, <2>2, DoomedPush
  <2>4. \A m \in Leaves : OnItsWay(m) => OnItsWay(m)'
    BY <1>1, <1>2, <1>4, <2>1, WayWritten
  <2> QED BY <1>1, <1>2, <1>3, <2>1, <2>2, <2>3, <2>4, RecordingPush
<1>5. CASE ~Leaf(At)
  <2> DEFINE kids == PutKids(At, calls[1].what)
  <2>1. Replaced(calls, Around(At, kids), calls') /\ buf' = buf
    BY <1>1, <1>5 DEF Put, Go, Replaced
  <2>2. kids \in Seq(Frames(tree)) /\ Len(kids) = Len(Kids(At))
    BY <1>2, KidsType
  <2>3. \A i \in DOMAIN kids : /\ kids[i].fn = "put" /\ kids[i].set
                               /\ kids[i].node = Kids(At)[i] /\ kids[i].what = calls[1].what
    BY <1>2, PutKidsFns
  <2> HIDE DEF kids
  <2> DEFINE more == Around(At, kids)
  <2>4. /\ more \in Seq(Frames(tree)) /\ more # <<>>
        /\ \A k \in DOMAIN more : more[k].fn \in Leading
        /\ LedIn(more, conn')
        /\ more[Len(more)].node = At /\ more[Len(more)].fn \in Leading
        /\ \A k \in DOMAIN kids : more[k] = kids[k]
        /\ \A k \in DOMAIN more : Wrong(more[k]) => k \in DOMAIN kids
    <3>1. \A i \in DOMAIN kids : kids[i].fn \in {"put", "key"} /\ kids[i].set
      BY <2>3
    <3>2. FrontTypeOK /\ At \in Nodes /\ kids \in Seq(Frames(tree))
      BY <1>2, <2>2
    <3> QED BY <3>1, <3>2, AroundKids
  <2>5. \A m \in Leaves : OnItsWay(m) => OnItsWay(m)'
    BY <1>1, <1>2, <1>5, <2>1, <2>2, <2>3, WayKids
  <2> HIDE DEF more
  <2>6. \A k \in DOMAIN more : ~Wrong(more[k])
    BY <2>3, <2>4 DEF Wrong
  <2>7. Replaced(calls, more, calls')
    BY <2>1 DEF more
  <2>8. Doomed'
    BY <1>1, <1>2, <1>3, <2>4, <2>7, DoomedPush
  <2> QED BY <1>1, <1>2, <1>3, <2>4, <2>5, <2>6, <2>7, <2>8, RecordingPush
<1> QED BY <1>4, <1>5

\* What dooms a log is passed on to the children.
LEMMA KeyDoomed ==
  ASSUME FrontTypeOK, calls # <<>>, Doomed, tree' = tree, saved' = saved,
         calls[1].fn = "key", ~Wrong(calls[1]), NEW more \in Seq(Frames(tree)), Replaced(calls, more, calls'),
         ~Leaf(At) => \A i \in DOMAIN Kids(At) :
           /\ i \in DOMAIN more
           /\ more[i].fn = "key" /\ more[i].node = Kids(At)[i] /\ more[i].by = saved[At][i]
  PROVE  Doomed'
<1>1. /\ \A k \in DOMAIN calls : k # 1 => \E l \in DOMAIN calls' : calls'[l] = calls[k]
      /\ \A k \in DOMAIN more : \E l \in DOMAIN calls' : calls'[l] = more[k]
  BY Stays DEF FrontTypeOK
<1>2. calls # <<Call("flush", Root)>>
  <2>1. <<Call("flush", Root)>>[1] = Call("flush", Root) /\ Call("flush", Root).fn = "flush"
    BY DEF Call
  <2> QED BY <2>1
<1>3. ASSUME NEW k \in DOMAIN calls, Wrong(calls[k])
      PROVE  \E l \in DOMAIN calls' : calls'[l].fn = "key" /\ calls'[l].by # KeyOf(calls'[l].node)
  <2>1. k # 1 /\ calls[k].fn = "key" /\ calls[k].by # KeyOf(calls[k].node)
    BY <1>3 DEF Wrong
  <2> QED BY <1>1, <2>1
<1>4. ASSUME NEW m \in Nodes, tree.kind[m] \in Stores, m # Root
      PROVE  \/ \E l \in DOMAIN calls' : calls'[l].fn = "key" /\ calls'[l].by # KeyOf(calls'[l].node)
             \/ \E l \in DOMAIN calls' : calls'[l].fn = "flush" /\ calls'[l].node \in Path(tree, m)
  <2>1. \/ \E k \in DOMAIN calls : Wrong(calls[k])
        \/ \E k \in DOMAIN calls : calls[k].fn = "flush" /\ calls[k].node \in Path(tree, m)
    BY <1>4 DEF Doomed
  <2>2. ASSUME NEW k \in DOMAIN calls, calls[k].fn = "flush", calls[k].node \in Path(tree, m)
        PROVE  \E l \in DOMAIN calls' : calls'[l].fn = "flush" /\ calls'[l].node \in Path(tree, m)
    <3>1. k # 1
      BY <2>2
    <3> QED BY <1>1, <2>2, <3>1
  <2> QED BY <1>3, <2>1, <2>2
<1>5. ASSUME NEW n \in Nodes, NEW i \in DOMAIN Kids(n), ~Right(n, i)
      PROVE  \/ \E l \in DOMAIN calls' : calls'[l].fn = "key" /\ calls'[l].by # KeyOf(calls'[l].node)
             \/ \E l \in DOMAIN calls' : calls'[l].fn = "key" /\ calls'[l].node \in Path(tree, n)
  <2>1. \/ \E k \in DOMAIN calls : Wrong(calls[k])
        \/ \E k \in DOMAIN calls : calls[k].fn = "key" /\ calls[k].node \in Path(tree, n)
    BY <1>2, <1>5 DEF Doomed
  <2>2. ASSUME NEW k \in DOMAIN calls, calls[k].fn = "key", calls[k].node \in Path(tree, n), k # 1
        PROVE  \E l \in DOMAIN calls' : calls'[l].fn = "key" /\ calls'[l].node \in Path(tree, n)
    BY <1>1, <2>2
  <2>3. ASSUME calls[1].node \in Path(tree, n)
        PROVE  \/ \E l \in DOMAIN calls' : calls'[l].fn = "key" /\ calls'[l].by # KeyOf(calls'[l].node)
               \/ \E l \in DOMAIN calls' : calls'[l].fn = "key" /\ calls'[l].node \in Path(tree, n)
    <3>1. /\ calls[1].node = At /\ At \in Nodes /\ tree \in Trees /\ n \in DOMAIN tree.kind
      BY Next1 DEF FrontTypeOK, Nodes
    <3>2. CASE At = n
      <4>1. ~Leaf(At)
        BY <1>5, <3>1, <3>2, KidsType, NoMore
      <4>2. /\ i \in DOMAIN more /\ more[i].fn = "key" /\ more[i].node = Kids(n)[i] /\ more[i].by = saved[n][i]
        BY <1>5, <3>2, <4>1
      <4>3. more[i].by # KeyOf(more[i].node)
        BY <1>5, <4>2 DEF Right
      <4> QED BY <1>1, <4>2, <4>3
    <3>3. CASE At # n
      <4>1. PICK j \in DOMAIN Kids(At) : Kids(At)[j] \in Path(tree, n)
        BY <2>3, <3>1, <3>3, PathDown DEF Kids
      <4>2. ~Leaf(At)
        BY <3>1, <4>1, KidsType, NoMore
      <4>3. j \in DOMAIN more /\ more[j].fn = "key" /\ more[j].node \in Path(tree, n)
        BY <4>1, <4>2
      <4> QED BY <1>1, <4>3
    <3> QED BY <3>2, <3>3
  <2> QED BY <1>3, <2>1, <2>2, <2>3
<1> QED BY <1>4, <1>5 DEF Doomed, Wrong, Right, KeyOf, Leaf, Kids, Nodes

LEMMA KeyNext ==
  ASSUME FrontInv, status = "open", PutKey
  PROVE  FrontInv'
<1>1. /\ calls # <<>> /\ calls[1].fn = "key" /\ conn' = At
      /\ tree' = tree /\ status' = status /\ key' = key /\ saved' = saved /\ closed' = closed
      /\ bad' = bad /\ given' = given /\ fmt' = fmt /\ seq' = seq /\ flushed' = flushed /\ sink' = sink
      /\ Head(calls) = calls[1] /\ ~Mistyped(calls[1])
  BY DEF PutKey, TypedCall, Calls, opened, table
<1>2. /\ FrontTypeOK /\ tree \in Trees /\ given # <<>> /\ Doomed /\ Opened
      /\ At \in Nodes /\ calls[1].node = At /\ calls[1].what \in Whats
  BY <1>1, RecordingFacts
<1>3. /\ ~Wrong(calls[1]) /\ calls[1].fn \notin Final \cup {"flush", "switch", "formatted"} /\ conn' \in Nodes
      /\ FrontNext
  BY <1>1, <1>2 DEF Wrong, Final, FrontNext, Mistyped
<1>4. CASE Leaf(At)
  <2>1. Replaced(calls, <<>>, calls') /\ buf' = [buf EXCEPT ![At] = Append(@, calls[1].what)]
    BY <1>1, <1>4 DEF PutKey, Go, Replaced, Written
  <2>2. /\ <<>> \in Seq(Frames(tree)) /\ DOMAIN <<>> = {} /\ LedIn(<<>>, conn')
    BY NoMore
  <2>3. Doomed'
    BY <1>1, <1>2, <1>3, <1>4, <2>1, <2>2, KeyDoomed
  <2>4. \A m \in Leaves : OnItsWay(m) => OnItsWay(m)'
    BY <1>1, <1>2, <1>4, <2>1, WayWritten
  <2> QED BY <1>1, <1>2, <1>3, <2>1, <2>2, <2>3, <2>4, RecordingPush
<1>5. CASE ~Leaf(At)
  <2> DEFINE kids == KeyKids(At, calls[1].what)
  <2>1. Replaced(calls, Around(At, kids), calls') /\ buf' = buf
    BY <1>1, <1>5 DEF PutKey, Go, Replaced
  <2>2. kids \in Seq(Frames(tree)) /\ Len(kids) = Len(Kids(At))
    BY <1>2, KidsType
  <2>3. /\ DOMAIN kids = DOMAIN Kids(At)
        /\ \A i \in DOMAIN kids : /\ kids[i].fn = "key" /\ kids[i].set
                                  /\ kids[i].node = Kids(At)[i] /\ kids[i].what = calls[1].what
                                  /\ kids[i].by = saved[At][i]
    BY <1>2, KeyKidsFns
  <2> HIDE DEF kids
  <2> DEFINE more == Around(At, kids)
  <2>4. /\ more \in Seq(Frames(tree)) /\ more # <<>>
        /\ \A k \in DOMAIN more : more[k].fn \in Leading
        /\ LedIn(more, conn')
        /\ more[Len(more)].node = At /\ more[Len(more)].fn \in Leading
        /\ \A k \in DOMAIN kids : k \in DOMAIN more /\ more[k] = kids[k]
        /\ \A k \in DOMAIN more : Wrong(more[k]) => k \in DOMAIN kids
    <3>1. \A i \in DOMAIN kids : kids[i].fn \in {"put", "key"} /\ kids[i].set
      BY <2>3
    <3>2. FrontTypeOK /\ At \in Nodes /\ kids \in Seq(Frames(tree))
      BY <1>2, <2>2
    <3> QED BY <3>1, <3>2, AroundKids
  <2>5. \A m \in Leaves : OnItsWay(m) => OnItsWay(m)'
    BY <1>1, <1>2, <1>5, <2>1, <2>2, <2>3, WayKids
  <2> HIDE DEF more
  <2>6. Sound(tree) => \A k \in DOMAIN more : ~Wrong(more[k])
    <3> SUFFICES ASSUME Sound(tree), NEW k \in DOMAIN more, Wrong(more[k]) PROVE FALSE
      OBVIOUS
    <3>1. k \in DOMAIN Kids(At) /\ more[k].node = Kids(At)[k] /\ more[k].by = saved[At][k]
      BY <2>3, <2>4
    <3>2. Right(At, k)
      BY <1>2, <3>1 DEF Opened
    <3> QED BY <3>1, <3>2 DEF Right, Wrong
  <2>7. Replaced(calls, more, calls')
    BY <2>1 DEF more
  <2>8. \A i \in DOMAIN Kids(At) : /\ i \in DOMAIN more /\ more[i].fn = "key"
                                   /\ more[i].node = Kids(At)[i] /\ more[i].by = saved[At][i]
    BY <2>3, <2>4
  <2>9. Doomed'
    BY <1>1, <1>2, <1>3, <2>4, <2>7, <2>8, KeyDoomed
  <2> QED BY <1>1, <1>2, <1>3, <2>4, <2>5, <2>6, <2>7, <2>9, RecordingPush
<1> QED BY <1>4, <1>5

\* What a flush does when the log is formatted is for the leaves below the node.
LEMMA PostHands ==
  ASSUME FrontTypeOK, NEW n \in Nodes, NEW m \in Leaves
  PROVE  /\ n \in Path(tree, m) => OnceIn(Post(n), HandSet(tree, m))
         /\ n \notin Path(tree, m) => NoneIn(Post(n), HandSet(tree, m))
         /\ NoneIn(Post(n), WriteSet(tree, m))
<1> DEFINE H == HandSet(tree, m)
<1>1. /\ tree \in Trees /\ DOMAIN tree.kind = Nodes /\ m \in Nodes /\ Leaf(m)
      /\ Post(n) \in Seq(Frames(tree))
  BY PostType DEF FrontTypeOK, Nodes, Leaves
<1>2. /\ \A k \in DOMAIN Post(n) :
           \/ Leaf(n) /\ k = 1 /\ Post(n)[k] = Call("hand_on", n)
           \/ ~Leaf(n) /\ k \in DOMAIN Kids(n) /\ Post(n)[k] = CallKid(Call("flush", Kids(n)[k]))
           \/ ~Leaf(n) /\ k = Len(Kids(n)) + 1 /\ Post(n)[k] = Call("switch", n)
      /\ Leaf(n) => 1 \in DOMAIN Post(n)
      /\ ~Leaf(n) => \A k \in DOMAIN Kids(n) : k \in DOMAIN Post(n)
  <2>1. DOMAIN Post(n) = 1..Len(Post(n)) /\ Post(n) # <<>>
    BY <1>1, PostType
  <2>2. Len(Post(n)) \in Nat /\ (Post(n) # <<>> => Len(Post(n)) > 0)
    BY <1>1
  <2>3. DOMAIN Kids(n) = 1..Len(Kids(n)) /\ Len(Kids(n)) \in Nat
    BY KidsType
  <2> QED BY <2>1, <2>2, <2>3, PostFns
<1>3. \A k \in DOMAIN Post(n) :
        \/ Leaf(n) /\ k = 1 /\ Post(n)[k].fn = "hand_on" /\ Post(n)[k].node = n
        \/ ~Leaf(n) /\ k \in DOMAIN Kids(n) /\ Post(n)[k].fn = "flush" /\ Post(n)[k].node = Kids(n)[k]
        \/ ~Leaf(n) /\ k = Len(Kids(n)) + 1 /\ Post(n)[k].fn = "switch"
  <2>1. /\ Call("hand_on", n).fn = "hand_on" /\ Call("hand_on", n).node = n
        /\ Call("switch", n).fn = "switch"
    BY DEF Call
  <2>2. ASSUME NEW kid PROVE CallKid(Call("flush", kid)).fn = "flush" /\ CallKid(Call("flush", kid)).node = kid
    BY DEF Call, CallKid
  <2>3. \A k \in DOMAIN Kids(n) : /\ CallKid(Call("flush", Kids(n)[k])).fn = "flush"
                                 /\ CallKid(Call("flush", Kids(n)[k])).node = Kids(n)[k]
    BY <2>2
  <2> QED BY <1>2, <2>1, <2>3
<1>4. \A k \in DOMAIN Post(n) : Post(n)[k] \in Frames(tree)
  BY <1>1
<1>5. NoneIn(Post(n), WriteSet(tree, m))
  BY <1>3 DEF NoneIn, WriteSet
<1>6. Len(Kids(n)) \in Nat /\ DOMAIN Kids(n) = 1..Len(Kids(n)) /\ Kids(n) = tree.kids[n]
  BY KidsType DEF Kids
<1>7. CASE Leaf(n)
  <2>1. n \in Path(tree, m) <=> n = m
    <3>1. DOMAIN tree.kids[n] = {}
      BY <1>6, <1>7, KidsType, NoMore
    <3>2. n \in Path(tree, m) => n = m
      BY <1>1, <3>1, PathDown
    <3> QED BY <1>1, <3>2, PathType
  <2>2. \A k \in DOMAIN Post(n) : k = 1 /\ Post(n)[k].fn = "hand_on" /\ Post(n)[k].node = n
    BY <1>3, <1>7
  <2>3. n = m => OnceIn(Post(n), H)
    <3>1. n = m => Post(n)[1] \in H
      BY <1>2, <1>4, <1>7, <2>2 DEF HandSet
    <3> QED BY <1>2, <1>7, <2>2, <3>1 DEF OnceIn
  <2>4. n # m => NoneIn(Post(n), H)
    BY <2>2 DEF NoneIn, HandSet
  <2> QED BY <1>5, <2>1, <2>3, <2>4
<1>8. CASE ~Leaf(n)
  <2>1. \A k \in DOMAIN Post(n) : Post(n)[k] \in H => k \in DOMAIN Kids(n) /\ Kids(n)[k] \in Path(tree, m)
    BY <1>3, <1>8 DEF HandSet
  <2>2. \A k \in DOMAIN Kids(n) : k \in DOMAIN Post(n) /\ (Kids(n)[k] \in Path(tree, m) => Post(n)[k] \in H)
    <3> SUFFICES ASSUME NEW k \in DOMAIN Kids(n)
                 PROVE  k \in DOMAIN Post(n) /\ (Kids(n)[k] \in Path(tree, m) => Post(n)[k] \in H)
      OBVIOUS
    <3>1. k \in DOMAIN Post(n) /\ k # Len(Kids(n)) + 1
      BY <1>2, <1>6, <1>8
    <3>2. Post(n)[k].fn = "flush" /\ Post(n)[k].node = Kids(n)[k]
      BY <1>3, <1>8, <3>1
    <3> QED BY <1>4, <3>1, <3>2 DEF HandSet
  <2>3. ASSUME n \in Path(tree, m) PROVE OnceIn(Post(n), H)
    <3>1. n # m
      BY <1>1, <1>8
    <3>2. PICK i \in DOMAIN Kids(n) : Kids(n)[i] \in Path(tree, m)
      BY <1>1, <1>6, <2>3, <3>1, PathDown
    <3>3. \A j \in DOMAIN Kids(n) : Kids(n)[j] \in Path(tree, m) => j = i
      BY <1>1, <1>6, <2>3, <3>2, PathOne
    <3> QED BY <2>1, <2>2, <3>2, <3>3 DEF OnceIn
  <2>4. ASSUME n \notin Path(tree, m) PROVE NoneIn(Post(n), H)
    <3>1. \A k \in DOMAIN Kids(n) : Kids(n)[k] \notin Path(tree, m)
      BY <1>1, <1>6, <2>4, PathKid
    <3> QED BY <2>1, <3>1 DEF NoneIn
  <2> QED BY <1>5, <2>3, <2>4
<1> QED BY <1>7, <1>8

\* What is put before it writes, at the node and then at the root.
LEMMA PreWrites ==
  ASSUME FrontTypeOK, NEW n \in Nodes
  PROVE  /\ Len(Pre(n)) \in Nat
         /\ \A k \in 1..Len(Pre(n)) :
              \/ /\ k = 1 /\ Pre(n)[k].fn = "key" /\ Pre(n)[k].node = n /\ Pre(n)[k].by = key
                 /\ Pre(n)[k].what = trace
              \/ /\ 1 < k /\ k < Len(Pre(n)) /\ Pre(n)[k].fn = "put" /\ Pre(n)[k].node = Root
                 /\ Pre(n)[k].what = Texts0(n)[k - 1]
              \/ /\ 1 < k /\ k = Len(Pre(n)) /\ Pre(n)[k].fn = Fin(n) /\ Pre(n)[k].node = n
         /\ Pre(n) # <<>> => Len(Pre(n)) = Len(Texts0(n)) + 2 /\ Len(Texts0(n)) \in Nat
<1>1. /\ Pre(n) \in Seq(Frames(tree))
      /\ Pre(n) # <<>> =>
           /\ Len(Pre(n)) = Len(Texts0(n)) + 2
           /\ Pre(n)[1] = CallKey(n, key, trace)
           /\ \A k \in DOMAIN Texts0(n) : Pre(n)[k + 1] = CallPut(Root, Texts0(n)[k])
           /\ Pre(n)[Len(Texts0(n)) + 2] = Call(Fin(n), n)
  BY PreType
<1>2. Len(Texts0(n)) \in Nat /\ DOMAIN Texts0(n) = 1..Len(Texts0(n)) /\ Len(Pre(n)) \in Nat
      /\ (Pre(n) = <<>> <=> Len(Pre(n)) = 0)
  BY <1>1, TextsType
<1>3. /\ CallKey(n, key, trace).fn = "key" /\ CallKey(n, key, trace).node = n
      /\ CallKey(n, key, trace).by = key /\ CallKey(n, key, trace).what = trace
  BY DEF Call, CallKey
<1>4. Call(Fin(n), n).fn = Fin(n) /\ Call(Fin(n), n).node = n
  BY DEF Call
<1> SUFFICES ASSUME NEW k \in 1..Len(Pre(n))
             PROVE  \/ /\ k = 1 /\ Pre(n)[k].fn = "key" /\ Pre(n)[k].node = n /\ Pre(n)[k].by = key
                       /\ Pre(n)[k].what = trace
                    \/ /\ 1 < k /\ k < Len(Pre(n)) /\ Pre(n)[k].fn = "put" /\ Pre(n)[k].node = Root
                       /\ Pre(n)[k].what = Texts0(n)[k - 1]
                    \/ /\ 1 < k /\ k = Len(Pre(n)) /\ Pre(n)[k].fn = Fin(n) /\ Pre(n)[k].node = n
  BY <1>1, <1>2
<1>5. Pre(n) # <<>> /\ Len(Pre(n)) = Len(Texts0(n)) + 2
  BY <1>1, <1>2
<1>6. CASE k = 1
  BY <1>1, <1>3, <1>5, <1>6
<1>7. CASE k = Len(Pre(n))
  BY <1>1, <1>2, <1>4, <1>5, <1>7
<1>8. CASE k # 1 /\ k # Len(Pre(n))
  <2>1. k - 1 \in DOMAIN Texts0(n) /\ (k - 1) + 1 = k /\ 1 < k /\ k < Len(Pre(n))
    BY <1>2, <1>5, <1>8
  <2> DEFINE what == Texts0(n)[k - 1]
  <2>2. Pre(n)[k] = CallPut(Root, what)
    BY <1>1, <1>5, <2>1
  <2> HIDE DEF what
  <2>3. CallPut(Root, what).fn = "put" /\ CallPut(Root, what).node = Root /\ CallPut(Root, what).what = what
    BY DEF Call, CallPut
  <2> QED BY <2>1, <2>2, <2>3 DEF what
<1> QED BY <1>6, <1>7, <1>8

\* The calls of a flush, by their places.
LEMMA FlushFrames ==
  ASSUME FrontTypeOK, NEW n \in Nodes
  PROVE  LET more == FlushCalls(n)
             P    == Len(Pre(n))
         IN  /\ more \in Seq(Frames(tree)) /\ more # <<>> /\ P \in Nat
             /\ DOMAIN more = 1..Len(more) /\ Len(more) \in Nat /\ Len(more) > P
             /\ \A k \in DOMAIN more :
                  \/ k = 1 /\ k < P /\ more[k].fn = "key" /\ more[k].node = n /\ more[k].by = key
                  \/ 1 < k /\ k < P /\ more[k].fn = "put" /\ more[k].node = Root
                  \/ 1 < k /\ k = P /\ more[k].fn = Fin(n)
                  \/ P < k /\ Leaf(n) /\ more[k].fn = "hand_on"
                  \/ /\ P < k /\ ~Leaf(n) /\ k - P \in DOMAIN Kids(n)
                     /\ more[k].fn = "flush" /\ more[k].node = Kids(n)[k - P] /\ more[k].set
                  \/ P < k /\ ~Leaf(n) /\ k = Len(more) /\ more[k].fn = "switch"
             /\ ~Leaf(n) => more[Len(more)] = Call("switch", n)
             /\ ~Leaf(n) => \A i \in DOMAIN Kids(n) : /\ P + i \in DOMAIN more /\ more[P + i].fn = "flush"
                                                      /\ more[P + i].node = Kids(n)[i]
<1> DEFINE more == FlushCalls(n)
           P    == Len(Pre(n))
           Q    == Len(Post(n))
<1>1. /\ more \in Seq(Frames(tree)) /\ more # <<>> /\ P \in Nat
      /\ Len(more) = P + Q /\ Q \in Nat /\ Q > 0
      /\ DOMAIN more = 1..Len(more)
      /\ \A k \in 1..P : more[k] = Pre(n)[k]
      /\ \A k \in 1..Q : more[P + k] = Post(n)[k]
  BY FlushParts
<1>2. /\ \A k \in 1..P :
           \/ k = 1 /\ Pre(n)[k].fn = "key" /\ Pre(n)[k].node = n /\ Pre(n)[k].by = key
           \/ 1 < k /\ k < P /\ Pre(n)[k].fn = "put" /\ Pre(n)[k].node = Root
           \/ 1 < k /\ k = P /\ Pre(n)[k].fn = Fin(n)
      /\ P > 0 => P >= 2
  <2>1. Pre(n) # <<>> => Len(Pre(n)) = Len(Texts0(n)) + 2 /\ Len(Texts0(n)) \in Nat
    BY PreWrites
  <2>2. Pre(n) = <<>> => P = 0
    OBVIOUS
  <2>3. P > 0 => P >= 2
    BY <1>1, <2>1, <2>2
  <2> QED BY <2>3, PreWrites
<1>3. /\ \A k \in 1..Q :
           \/ Leaf(n) /\ k = 1 /\ Q = 1 /\ Post(n)[k] = Call("hand_on", n)
           \/ ~Leaf(n) /\ k \in DOMAIN Kids(n) /\ Post(n)[k] = CallKid(Call("flush", Kids(n)[k]))
           \/ ~Leaf(n) /\ k = Len(Kids(n)) + 1 /\ Post(n)[k] = Call("switch", n)
      /\ ~Leaf(n) => Q = Len(Kids(n)) + 1
  BY PostFns
<1>4. Len(Kids(n)) \in Nat /\ DOMAIN Kids(n) = 1..Len(Kids(n))
  BY KidsType
<1>5. Call("hand_on", n).fn = "hand_on" /\ Call("switch", n).fn = "switch"
  BY DEF Call
<1>6. ASSUME NEW kid
      PROVE  /\ CallKid(Call("flush", kid)).fn = "flush" /\ CallKid(Call("flush", kid)).node = kid
             /\ CallKid(Call("flush", kid)).set = TRUE
  BY DEF Call, CallKid
<1>7. \A k \in 1..Q :
        \/ Leaf(n) /\ Post(n)[k].fn = "hand_on"
        \/ /\ ~Leaf(n) /\ k \in DOMAIN Kids(n)
           /\ Post(n)[k].fn = "flush" /\ Post(n)[k].node = Kids(n)[k] /\ Post(n)[k].set
        \/ ~Leaf(n) /\ k = Q /\ Post(n)[k].fn = "switch"
  <2>1. \A k \in DOMAIN Kids(n) : /\ CallKid(Call("flush", Kids(n)[k])).fn = "flush"
                                  /\ CallKid(Call("flush", Kids(n)[k])).node = Kids(n)[k]
                                  /\ CallKid(Call("flush", Kids(n)[k])).set
    BY <1>6
  <2> QED BY <1>3, <1>5, <2>1
<1> HIDE DEF more, P, Q
<1>8. ASSUME NEW k \in DOMAIN more
      PROVE  \/ k = 1 /\ k < P /\ more[k].fn = "key" /\ more[k].node = n /\ more[k].by = key
             \/ 1 < k /\ k < P /\ more[k].fn = "put" /\ more[k].node = Root
             \/ 1 < k /\ k = P /\ more[k].fn = Fin(n)
             \/ P < k /\ Leaf(n) /\ more[k].fn = "hand_on"
             \/ /\ P < k /\ ~Leaf(n) /\ k - P \in DOMAIN Kids(n)
                /\ more[k].fn = "flush" /\ more[k].node = Kids(n)[k - P] /\ more[k].set
             \/ P < k /\ ~Leaf(n) /\ k = Len(more) /\ more[k].fn = "switch"
  <2>1. CASE k <= P
    <3>1. k \in 1..P
      BY <1>1, <2>1
    <3> QED BY <1>1, <1>2, <3>1
  <2>2. CASE k > P
    <3> DEFINE l == k - P
    <3>1. l \in 1..Q /\ P + l = k
      BY <1>1, <2>2
    <3>2. more[k] = Post(n)[l]
      BY <1>1, <3>1
    <3>3. l = Q => k = Len(more)
      BY <1>1, <3>1
    <3> QED BY <1>7, <2>2, <3>1, <3>2, <3>3
  <2> QED BY <1>1, <2>1, <2>2
<1>9. ~Leaf(n) => more[Len(more)] = Call("switch", n)
  BY <1>1, <1>3, <1>4
<1>10. ASSUME ~Leaf(n), NEW i \in DOMAIN Kids(n)
       PROVE  P + i \in DOMAIN more /\ more[P + i].fn = "flush" /\ more[P + i].node = Kids(n)[i]
  <2>1. i \in 1..Q /\ i # Q /\ P + i \in DOMAIN more
    BY <1>1, <1>3, <1>4, <1>10
  <2> QED BY <1>1, <1>7, <1>10, <2>1
<1> QED BY <1>1, <1>8, <1>9, <1>10 DEF more, P

LEMMA FlushLed ==
  ASSUME FrontTypeOK, NEW n \in Nodes, n = Root \/ Pre(n) = <<>>
  PROVE  LedIn(FlushCalls(n), n)
<1> DEFINE more == FlushCalls(n)
           P    == Len(Pre(n))
<1>1. /\ DOMAIN more = 1..Len(more) /\ Len(more) \in Nat /\ P \in Nat
      /\ \A k \in DOMAIN more :
           \/ k = 1 /\ k < P /\ more[k].fn = "key" /\ more[k].node = n
           \/ 1 < k /\ k < P /\ more[k].fn = "put" /\ more[k].node = Root
           \/ more[k].fn \notin Typed
           \/ more[k].fn = "flush" /\ more[k].set
  <2>1. \A k \in DOMAIN more :
           \/ k = 1 /\ k < P /\ more[k].fn = "key" /\ more[k].node = n
           \/ 1 < k /\ k < P /\ more[k].fn = "put" /\ more[k].node = Root
           \/ more[k].fn = Fin(n)
           \/ more[k].fn \in {"hand_on", "switch"}
           \/ more[k].fn = "flush" /\ more[k].set
    BY FlushFrames
  <2> QED BY <2>1, FlushFrames DEF Fin, Typed
<1>2. P # 0 => n = Root
  OBVIOUS
<1> HIDE DEF more, P
<1> SUFFICES ASSUME NEW k \in DOMAIN more, more[k].fn \in Typed, ~more[k].set
             PROVE  IF k = 1 THEN n = more[1].node
                    ELSE more[k - 1].node = more[k].node /\ more[k - 1].fn \in Leading
  BY DEF LedIn, more
<1>3. CASE k = 1
  BY <1>1, <1>3
<1>4. CASE k # 1
  <2>1. 1 < k /\ k < P /\ more[k].node = Root /\ n = Root
    BY <1>1, <1>2, <1>4
  <2>2. k - 1 \in DOMAIN more /\ k - 1 < P
    BY <1>1, <2>1
  <2>3. \/ more[k - 1].fn = "key" /\ more[k - 1].node = n
        \/ more[k - 1].fn = "put" /\ more[k - 1].node = Root
    <3> DEFINE j == k - 1
    <3>1. j \in DOMAIN more /\ j < P /\ j # P /\ ~(P < j)
      BY <1>1, <2>2
    <3> HIDE DEF j
    <3>2. \/ more[j].fn = "key" /\ more[j].node = n
          \/ more[j].fn = "put" /\ more[j].node = Root
      BY <3>1, FlushFrames DEF more, P
    <3> QED BY <3>2 DEF j
  <2> QED BY <1>4, <2>1, <2>3 DEF Leading
<1> QED BY <1>3, <1>4

LEMMA FlushOrder ==
  ASSUME FrontTypeOK, NEW n \in Nodes
  PROVE  OrderIn(FlushCalls(n))
<1> DEFINE more == FlushCalls(n)
           P    == Len(Pre(n))
<1>1. /\ DOMAIN more = 1..Len(more) /\ Len(more) \in Nat /\ P \in Nat
      /\ \A k \in DOMAIN more : k < P => more[k].fn \in {"put", "key"}
      /\ \A k \in DOMAIN more : P < k => more[k].fn \in {"hand_on", "flush", "switch"}
  BY FlushFrames
<1> HIDE DEF more, P
<1> SUFFICES ASSUME NEW k \in DOMAIN more, NEW l \in DOMAIN more, k < l, more[k].fn \in Behind
             PROVE  more[l].fn \notin Final \cup {"put", "key"}
  BY DEF OrderIn, more
<1>2. ~(k < P)
  BY <1>1 DEF Behind, Final
<1>3. P < l
  BY <1>1, <1>2
<1> QED BY <1>1, <1>3 DEF Final

\* Only the flush of the root finds a log that is not formatted.
LEMMA FlushFacts ==
  ASSUME FrontInv, status = "open", Flush
  PROVE  /\ calls # <<>> /\ calls[1].fn = "flush" /\ ~Wrong(calls[1]) /\ conn' = At
         /\ Replaced(calls, FlushCalls(At), calls') /\ FlushCalls(At) \in Seq(Frames(tree))
         /\ tree' = tree /\ status' = status /\ key' = key /\ saved' = saved /\ closed' = closed
         /\ bad' = bad /\ given' = given /\ fmt' = fmt /\ trace' = trace /\ seq' = seq /\ flushed' = flushed
         /\ sink' = sink /\ buf' = buf
         /\ At = Root => calls = <<Call("flush", Root)>> /\ ~flushed /\ calls' = FlushCalls(Root)
         /\ At # Root => flushed /\ ~Leaf(Root) /\ key \in Inner /\ calls # <<Call("flush", Root)>>
<1>1. /\ calls # <<>> /\ calls[1].fn = "flush" /\ conn' = At
      /\ Replaced(calls, FlushCalls(At), calls')
      /\ tree' = tree /\ status' = status /\ key' = key /\ saved' = saved /\ closed' = closed
      /\ bad' = bad /\ given' = given /\ fmt' = fmt /\ trace' = trace /\ seq' = seq /\ flushed' = flushed
      /\ sink' = sink /\ buf' = buf
  BY DEF Flush, TypedCall, Calls, Go, Replaced, opened, table, leaves
<1>2. /\ FrontTypeOK /\ tree \in Trees /\ FlushedOnce /\ Opened /\ DOMAIN tree.kind = Nodes
      /\ At \in Nodes /\ calls[1].node = At /\ 1 \in DOMAIN calls /\ calls \in Seq(Frames(tree))
  BY <1>1, RecordingFacts
<1>3. FlushCalls(At) \in Seq(Frames(tree)) /\ ~Wrong(calls[1])
  BY <1>1, <1>2, FlushParts DEF Wrong
<1>4. ASSUME At = Root PROVE calls = <<Call("flush", Root)>> /\ ~flushed /\ calls' = FlushCalls(Root)
  <2>1. calls = <<Call("flush", Root)>> /\ ~flushed
    BY <1>1, <1>2, <1>4 DEF FlushedOnce
  <2>2. Tail(calls) = <<>>
    <3> DEFINE c == Call("flush", Root)
    <3>1. calls = <<c>>
      BY <2>1
    <3> HIDE DEF c
    <3> QED BY <3>1
  <2> DEFINE more == FlushCalls(Root)
  <2>3. calls' = more \o <<>> /\ more \in Seq(Frames(tree))
    BY <1>1, <1>3, <1>4, <2>2 DEF Replaced
  <2> HIDE DEF more
  <2>4. calls' = more
    BY <2>3
  <2> QED BY <2>1, <2>4 DEF more
<1>5. ASSUME At # Root PROVE flushed /\ ~Leaf(Root) /\ key \in Inner /\ calls # <<Call("flush", Root)>>
  <2>1. flushed \/ \E l \in DOMAIN calls : l < 1 /\ calls[l].fn = "formatted"
    BY <1>1, <1>2, <1>5 DEF FlushedOnce
  <2>2. \A l \in DOMAIN calls : ~(l < 1)
    BY <1>2
  <2>3. ~Leaf(Root)
    BY <1>2, <1>5, LoneRoot DEF Leaf
  <2>4. key \in Inner
    BY <1>2, <2>3 DEF Opened, KeyOf, Leaf
  <2>5. calls # <<Call("flush", Root)>>
    <3>1. <<Call("flush", Root)>>[1].node = Root
      BY DEF Call
    <3> QED BY <1>2, <1>5, <3>1
  <2> QED BY <2>1, <2>2, <2>3, <2>4, <2>5
<1> QED BY <1>1, <1>3, <1>4, <1>5

\* The flush of a store that is not the root calls the key function of the root.
LEMMA FlushOfStore ==
  ASSUME FrontInv, status = "open", Flush, At # Root
  PROVE  /\ tree.kind[At] \in Stores => /\ 1 \in DOMAIN calls' /\ calls'[1].fn = "key"
                                        /\ calls'[1].by # KeyOf(calls'[1].node)
         /\ tree.kind[At] \notin Stores => Pre(At) = <<>>
<1>1. /\ FrontTypeOK /\ At \in Nodes /\ calls \in Seq(Frames(tree)) /\ calls # <<>>
      /\ Replaced(calls, FlushCalls(At), calls') /\ FlushCalls(At) \in Seq(Frames(tree))
      /\ flushed /\ key \in Inner
  BY FlushFacts, RecordingFacts
<1>2. Pre(At) = <<>> <=> tree.kind[At] \notin Stores
  BY <1>1, PreType
<1>3. ASSUME tree.kind[At] \in Stores
      PROVE  1 \in DOMAIN calls' /\ calls'[1].fn = "key" /\ calls'[1].by # KeyOf(calls'[1].node)
  <2> DEFINE more == FlushCalls(At)
  <2>1. Pre(At) # <<>>
    BY <1>2, <1>3
  <2>2. Len(Pre(At)) = Len(Texts0(At)) + 2 /\ Len(Texts0(At)) \in Nat
    BY <1>1, <2>1, PreWrites
  <2>3. 1 \in DOMAIN more /\ Len(Pre(At)) > 1
    <3>1. DOMAIN more = 1..Len(more) /\ Len(more) \in Nat /\ Len(more) > Len(Pre(At))
      BY <1>1, FlushFrames
    <3> QED BY <2>2, <3>1
  <2>4. more[1].fn = "key" /\ more[1].node = At /\ more[1].by = key
    <3>1. ~(1 < 1) /\ ~(Len(Pre(At)) < 1)
      BY <2>3
    <3> QED BY <1>1, <2>3, <3>1, FlushFrames
  <2>5. 1 \in DOMAIN calls' /\ calls'[1] = more[1]
    BY <1>1, <2>3, Pushed
  <2>6. KeyOf(At) = "leaf"
    BY <1>3 DEF KeyOf, Leaf, Stores, Inner
  <2> QED BY <1>1, <2>4, <2>5, <2>6 DEF Inner
<1> QED BY <1>2, <1>3

LEMMA FlushConnections ==
  ASSUME FrontInv, status = "open", Flush
  PROVE  Connections' /\ Home' /\ Order' /\ Phases'
<1> DEFINE more == FlushCalls(At)
<1>1. /\ calls # <<>> /\ calls[1].fn = "flush" /\ ~Wrong(calls[1]) /\ conn' = At
      /\ Replaced(calls, more, calls') /\ more \in Seq(Frames(tree))
      /\ tree' = tree /\ status' = status /\ given' = given /\ bad' = bad
      /\ At = Root => calls = <<Call("flush", Root)>>
      /\ At # Root => calls # <<Call("flush", Root)>>
  BY FlushFacts
<1>2. /\ FrontTypeOK /\ At \in Nodes /\ calls \in Seq(Frames(tree)) /\ Order /\ Home /\ Connections
      /\ given # <<>> /\ ~bad /\ \A k \in DOMAIN calls : calls[k].fn \in RecordFns
  BY <1>1, RecordingFacts
<1>3. Connections'
  <2>1. CASE At = Root \/ tree.kind[At] \notin Stores
    <3>1. At = Root \/ Pre(At) = <<>>
      BY <2>1, FlushOfStore
    <3>2. LedIn(more, At)
      BY <1>2, <3>1, FlushLed
    <3>3. LedIn(calls, conn)
      BY <1>1, <1>2 DEF Connections, Led
    <3>4. calls[1].fn \notin Leading
      BY <1>1 DEF Leading
    <3> HIDE DEF more
    <3>5. LedIn(calls', At)
      BY <1>1, <1>2, <3>2, <3>3, <3>4, LedPush
    <3> QED BY <1>1, <3>5 DEF Connections, Led
  <2>2. CASE At # Root /\ tree.kind[At] \in Stores
    <3>1. calls'[1].fn = "key" /\ calls'[1].by # KeyOf(calls'[1].node)
      BY <2>2, FlushOfStore
    <3> QED BY <1>1, <3>1 DEF Connections, Wrong, KeyOf, Leaf
  <2> QED BY <2>1, <2>2
<1>4. Home'
  <2>1. ~Leaf(Root) /\ At = Root => more[Len(more)] = Call("switch", Root)
    BY <1>2, FlushFrames
  <2>2. more # <<>>
    BY <1>2, FlushFrames
  <2> HIDE DEF more
  <2> QED BY <1>1, <1>2, <2>1, <2>2, HomePush
<1>5. Order'
  <2>1. OrderIn(more)
    BY <1>2, FlushOrder
  <2>2. calls[1].fn \in Behind
    BY <1>1 DEF Behind
  <2> HIDE DEF more
  <2>3. OrderIn(calls')
    BY <1>1, <1>2, <2>1, <2>2, OrderPush DEF Order
  <2> QED BY <2>3 DEF Order
<1>6. Phases'
  <2>1. \A k \in DOMAIN more : more[k].fn \in RecordFns
    BY <1>2, FlushFns
  <2> HIDE DEF more
  <2>2. \A l \in DOMAIN calls' : \/ \E k \in DOMAIN more : calls'[l] = more[k]
                                 \/ \E k \in DOMAIN calls : k # 1 /\ calls'[l] = calls[k]
    BY <1>1, <1>2, Stays
  <2>3. \A l \in DOMAIN calls' : calls'[l].fn \in RecordFns
    BY <1>2, <2>1, <2>2
  <2>4. AllIn(calls, RecordFns)'
    BY <2>3 DEF AllIn, RecordFns
  <2> QED BY <1>1, <1>2, <2>4 DEF Phases
<1> QED BY <1>3, <1>4, <1>5, <1>6

LEMMA FlushTyped ==
  ASSUME FrontInv, status = "open", Flush
  PROVE  TypedRight'
<1> DEFINE more == FlushCalls(At)
<1>1. /\ calls # <<>> /\ Replaced(calls, more, calls') /\ more \in Seq(Frames(tree))
      /\ tree' = tree /\ bad' = bad
  BY FlushFacts
<1>2. FrontTypeOK /\ At \in Nodes /\ TypedRight /\ Opened /\ DOMAIN tree.kind = Nodes
  BY <1>1, RecordingFacts
<1>3. ASSUME Sound(tree), NEW k \in DOMAIN more, Wrong(more[k]) PROVE FALSE
  <2>1. k < Len(Pre(At)) /\ more[k].node = At /\ more[k].by = key /\ Len(Pre(At)) \in Nat
    BY <1>2, <1>3, FlushFrames DEF Wrong, Fin
  <2>2. At # Root
    BY <1>2, <1>3, <2>1 DEF Opened, Wrong
  <2>3. tree.kind[At] \notin Stores
    BY <1>2, <1>3, <2>2 DEF Sound
  <2>4. Len(Pre(At)) = 0
    <3>1. Pre(At) = <<>>
      BY <2>2, <2>3, FlushOfStore
    <3> QED BY <3>1
  <2>5. ~(1 = k) \/ ~(k < 0)
    OBVIOUS
  <2>6. k \in Nat
    BY <1>2, FlushFrames
  <2> QED BY <2>1, <2>4, <2>6
<1> HIDE DEF more
<1> QED BY <1>1, <1>2, <1>3, TypedPush

LEMMA FlushFlushed ==
  ASSUME FrontInv, status = "open", Flush
  PROVE  FlushedOnce' /\ calls' # <<Call("flush", Root)>>
<1> DEFINE more == FlushCalls(At)
           P    == Len(Pre(At))
<1>1. /\ calls # <<>> /\ Replaced(calls, more, calls') /\ more \in Seq(Frames(tree)) /\ flushed' = flushed
      /\ At = Root => calls = <<Call("flush", Root)>> /\ ~flushed /\ calls' = more
      /\ At # Root => flushed
  BY FlushFacts
<1>2. /\ FrontTypeOK /\ tree \in Trees /\ DOMAIN tree.kind = Nodes /\ At \in Nodes /\ FlushedOnce
      /\ calls \in Seq(Frames(tree))
  BY <1>1, RecordingFacts
<1>3. ASSUME NEW k \in DOMAIN more, more[k].fn = "flush"
      PROVE  more[k].node # Root /\ P < k /\ ~Leaf(At)
  <2>1. P < k /\ ~Leaf(At) /\ k - P \in DOMAIN Kids(At) /\ more[k].node = Kids(At)[k - P]
    BY <1>2, <1>3, FlushFrames DEF Fin
  <2> DEFINE j == k - P
  <2>2. j \in DOMAIN tree.kids[At] /\ more[k].node = tree.kids[At][j]
    BY <2>1 DEF Kids
  <2> HIDE DEF j
  <2>3. more[k].node > At /\ At \in Nat \ {0}
    BY <1>2, <2>2, TreeFacts
  <2> QED BY <2>1, <2>3 DEF Root
<1>4. ASSUME NEW k \in DOMAIN calls', calls'[k].fn = "flush"
      PROVE  /\ calls'[k].node # Root
             /\ flushed' \/ \E l \in DOMAIN calls' : l < k /\ calls'[l].fn = "formatted"
  <2>1. CASE At = Root
    <3>1. calls' = more
      BY <1>1, <2>1
    <3>2. k \in DOMAIN more /\ more[k].fn = "flush"
      BY <1>4, <3>1
    <3>3. more[k].node # Root /\ P < k /\ ~Leaf(At)
      BY <1>3, <3>2
    <3>4. P # 0 /\ P \in Nat /\ Fin(At) = "formatted"
      <4>1. tree.kind[At] \notin Stores
        BY <3>3 DEF Leaf, Inner, Stores
      <4>2. Pre(At) # <<>> /\ Pre(At) \in Seq(Frames(tree))
        BY <1>1, <1>2, <2>1, PreType
      <4> QED BY <4>1, <4>2 DEF Fin
    <3>5. P \in DOMAIN more /\ more[P].fn = "formatted"
      <4>1. P \in DOMAIN more
        BY <1>2, <3>4, FlushFrames
      <4>2. ~(P < P)
        BY <3>4
      <4> QED BY <1>2, <3>4, <4>1, <4>2, FlushFrames
    <3> QED BY <3>1, <3>3, <3>5
  <2>2. CASE At # Root
    <3>1. \/ \E l \in DOMAIN more : calls'[k] = more[l]
          \/ \E l \in DOMAIN calls : l # 1 /\ calls'[k] = calls[l]
      <4> HIDE DEF more
      <4> QED BY <1>1, <1>2, Stays
    <3>2. ASSUME NEW l \in DOMAIN calls, l # 1, calls[l].fn = "flush" PROVE calls[l].node # Root
      <4>1. calls[l].node = Root => calls = <<Call("flush", Root)>>
        BY <1>2, <3>2 DEF FlushedOnce
      <4>2. DOMAIN <<Call("flush", Root)>> = {1}
        OBVIOUS
      <4> QED BY <3>2, <4>1, <4>2
    <3> QED BY <1>1, <1>3, <1>4, <2>2, <3>1, <3>2
  <2> QED BY <2>1, <2>2
<1>5. FlushedOnce'
  BY <1>4 DEF FlushedOnce
<1>6. ASSUME calls' = <<Call("flush", Root)>> PROVE FALSE
  <2>1. 1 \in DOMAIN calls' /\ calls'[1] = Call("flush", Root)
    BY <1>6
  <2>2. Call("flush", Root).fn = "flush" /\ Call("flush", Root).node = Root
    BY DEF Call
  <2> QED BY <1>4, <2>1, <2>2
<1> QED BY <1>5, <1>6

LEMMA FlushDoomed ==
  ASSUME FrontInv, status = "open", Flush
  PROVE  Doomed'
<1> DEFINE more == FlushCalls(At)
           P    == Len(Pre(At))
           WrongIn == \E l \in DOMAIN calls' : calls'[l].fn = "key" /\ calls'[l].by # KeyOf(calls'[l].node)
<1>1. /\ calls # <<>> /\ calls[1].fn = "flush" /\ ~Wrong(calls[1])
      /\ Replaced(calls, more, calls') /\ more \in Seq(Frames(tree))
      /\ tree' = tree /\ saved' = saved
      /\ At = Root => ~flushed /\ calls' = more
      /\ At # Root => calls # <<Call("flush", Root)>>
  BY FlushFacts
<1>2. /\ FrontTypeOK /\ tree \in Trees /\ DOMAIN tree.kind = Nodes /\ At \in Nodes /\ Doomed
      /\ calls \in Seq(Frames(tree)) /\ calls[1].node = At
  BY <1>1, RecordingFacts
<1>3. /\ \A k \in DOMAIN calls : k # 1 => \E l \in DOMAIN calls' : calls'[l] = calls[k]
      /\ \A k \in DOMAIN more : \E l \in DOMAIN calls' : calls'[l] = more[k]
  <2> HIDE DEF more
  <2>1. \A k \in DOMAIN calls : k # 1 => \E l \in DOMAIN calls' : calls'[l] = calls[k]
    BY <1>1, <1>2, Stays
  <2>2. \A k \in DOMAIN more : \E l \in DOMAIN calls' : calls'[l] = more[k]
    BY <1>1, <1>2, Stays
  <2> QED BY <2>1, <2>2
<1>4. ASSUME NEW k \in DOMAIN calls, Wrong(calls[k]) PROVE WrongIn
  <2>1. k # 1 /\ calls[k].fn = "key" /\ calls[k].by # KeyOf(calls[k].node)
    BY <1>1, <1>4 DEF Wrong
  <2> QED BY <1>3, <2>1
<1>5. ASSUME NEW m \in Nodes, tree.kind[m] \in Stores, m # Root
      PROVE  WrongIn \/ \E l \in DOMAIN calls' : calls'[l].fn = "flush" /\ calls'[l].node \in Path(tree, m)
  <2>1. \/ \E k \in DOMAIN calls : Wrong(calls[k])
        \/ \E k \in DOMAIN calls : calls[k].fn = "flush" /\ calls[k].node \in Path(tree, m)
    BY <1>5, <1>2 DEF Doomed
  <2>2. ASSUME NEW k \in DOMAIN calls, calls[k].fn = "flush", calls[k].node \in Path(tree, m), k # 1
        PROVE  \E l \in DOMAIN calls' : calls'[l].fn = "flush" /\ calls'[l].node \in Path(tree, m)
    BY <1>3, <2>2
  <2>3. CASE At = m
    BY <1>5, <2>3, FlushOfStore
  <2>4. ASSUME At # m, At \in Path(tree, m)
        PROVE  \E l \in DOMAIN calls' : calls'[l].fn = "flush" /\ calls'[l].node \in Path(tree, m)
    <3>1. PICK i \in DOMAIN Kids(At) : Kids(At)[i] \in Path(tree, m)
      BY <1>2, <2>4, PathDown DEF Kids
    <3>2. ~Leaf(At)
      BY <1>2, <3>1, KidsType, NoMore
    <3>3. P + i \in DOMAIN more /\ more[P + i].fn = "flush" /\ more[P + i].node = Kids(At)[i]
      BY <1>2, <3>1, <3>2, FlushFrames
    <3> DEFINE j == P + i
    <3>4. j \in DOMAIN more /\ more[j].fn = "flush" /\ more[j].node \in Path(tree, m)
      BY <3>1, <3>3
    <3> HIDE DEF j, more
    <3> QED BY <1>3, <3>4
  <2> QED BY <1>2, <1>4, <2>1, <2>2, <2>3, <2>4
<1>6. ASSUME NEW n \in Nodes, NEW i \in DOMAIN Kids(n), ~Right(n, i)
      PROVE  WrongIn \/ \E l \in DOMAIN calls' : calls'[l].fn = "key" /\ calls'[l].node \in Path(tree, n)
  <2>1. CASE At # Root
    <3>1. \/ \E k \in DOMAIN calls : Wrong(calls[k])
          \/ \E k \in DOMAIN calls : calls[k].fn = "key" /\ calls[k].node \in Path(tree, n)
      BY <1>1, <1>2, <1>6, <2>1 DEF Doomed
    <3>2. ASSUME NEW k \in DOMAIN calls, calls[k].fn = "key", calls[k].node \in Path(tree, n)
          PROVE  \E l \in DOMAIN calls' : calls'[l].fn = "key" /\ calls'[l].node \in Path(tree, n)
      <4>1. k # 1
        BY <1>1, <3>2
      <4> QED BY <1>3, <3>2, <4>1
    <3> QED BY <1>4, <3>1, <3>2
  <2>2. CASE At = Root
    <3>1. Pre(At) # <<>>
      BY <1>1, <1>2, <2>2, PreType
    <3>2. Len(Pre(At)) = Len(Texts0(At)) + 2 /\ Len(Texts0(At)) \in Nat
      BY <1>2, <3>1, PreWrites
    <3>3. 1 \in DOMAIN more /\ P > 1
      <4>1. DOMAIN more = 1..Len(more) /\ Len(more) \in Nat /\ Len(more) > P
        BY <1>2, FlushFrames
      <4> QED BY <3>2, <4>1
    <3>4. more[1].fn = "key" /\ more[1].node = At
      <4>1. ~(1 < 1) /\ ~(P < 1)
        BY <3>3
      <4> QED BY <1>2, <3>3, <4>1, FlushFrames
    <3>5. Root \in Path(tree, n)
      BY <1>2, PathRoot
    <3> QED BY <1>1, <2>2, <3>3, <3>4, <3>5
  <2> QED BY <2>1, <2>2
<1> HIDE DEF more
<1>7. \A m \in Nodes : tree.kind[m] \in Stores /\ m # Root =>
         WrongIn \/ \E l \in DOMAIN calls' : calls'[l].fn = "flush" /\ calls'[l].node \in Path(tree, m)
  BY <1>5
<1>8. \A n \in Nodes : \A i \in DOMAIN Kids(n) : ~Right(n, i) =>
         WrongIn \/ \E l \in DOMAIN calls' : calls'[l].fn = "key" /\ calls'[l].node \in Path(tree, n)
  BY <1>6
<1> QED BY <1>1, <1>7, <1>8 DEF Doomed, Wrong, Right, KeyOf, Leaf, Kids, Nodes

\* In a sound tree all leaves make the same of a log as the root.
LEMMA RootLine ==
  ASSUME FrontTypeOK, Sound(tree), NEW m \in Leaves, given # <<>>,
         fmt = given[Len(given)].fields, trace = given[Len(given)].trace
  PROVE  Line(tree.kind[m], given[Len(given)]) = <<trace>> \o Texts0(Root)
<1>1. /\ tree \in Trees /\ DOMAIN tree.kind = Nodes /\ m \in Nodes /\ Root \in Nodes
      /\ tree.kind[m] \in Stores \cup {"string"}
  <2>1. tree \in Trees /\ DOMAIN tree.kind = Nodes /\ m \in Nodes /\ tree.kind[m] \notin Inner
    BY DEF FrontTypeOK, Nodes, Leaves, Leaf
  <2> QED BY <2>1, TreeFacts
<1>2. CASE m = Root
  BY <1>1, <1>2 DEF Line, Texts0, Stores
<1>3. CASE m # Root
  <2>1. tree.kind[m] = "string"
    BY <1>1, <1>3 DEF Sound
  <2>2. tree.kind[Root] \in Inner
    BY <1>1, <1>3, LoneRoot
  <2>3. Texts0(Root) = Delimited(fmt)
    BY <2>2 DEF Texts0, Inner
  <2> QED BY <2>1, <2>3 DEF Line
<1> QED BY <1>2, <1>3

LEMMA RootFeeds ==
  ASSUME FrontTypeOK, ~flushed, NEW m \in Leaves
  PROVE  /\ <<trace>> \o Texts0(Root) \in Seq(Whats)
         /\ Feeds(FlushCalls(Root), WriteSet(tree, m), <<trace>> \o Texts0(Root), 0)
<1> DEFINE more == FlushCalls(Root)
           P    == Len(Pre(Root))
           W    == WriteSet(tree, m)
           line == <<trace>> \o Texts0(Root)
           T    == Texts0(Root)
<1>1. /\ tree \in Trees /\ DOMAIN tree.kind = Nodes /\ m \in Nodes /\ Root \in Nodes /\ trace \in Whats
      /\ Root \in Path(tree, m)
  <2>1. tree \in Trees /\ DOMAIN tree.kind = Nodes /\ m \in Nodes /\ trace \in Whats
    BY DEF FrontTypeOK, Nodes, Leaves
  <2>2. Root \in Nodes /\ Root \in Path(tree, m)
    BY <2>1, TreeFacts, PathRoot
  <2> QED BY <2>1, <2>2
<1>2. Pre(Root) # <<>>
  BY <1>1, PreType
<1>3. P = Len(T) + 2 /\ Len(T) \in Nat /\ T \in Seq(Whats)
  BY <1>1, <1>2, PreWrites, TextsType
<1>4. /\ \A k \in 1..P : more[k] = Pre(Root)[k]
      /\ DOMAIN more = 1..Len(more) /\ more \in Seq(Frames(tree)) /\ Len(more) \in Nat /\ Len(more) > P
  BY <1>1, FlushParts, FlushFrames
<1>5. \A k \in 1..P :
        \/ k = 1 /\ Pre(Root)[k].fn = "key" /\ Pre(Root)[k].node = Root /\ Pre(Root)[k].what = trace
        \/ /\ 1 < k /\ k < P /\ Pre(Root)[k].fn = "put" /\ Pre(Root)[k].node = Root
           /\ Pre(Root)[k].what = T[k - 1]
        \/ 1 < k /\ k = P
  BY <1>1, PreWrites
<1>6. \A k \in DOMAIN more : more[k].fn \in {"put", "key"} => k < P
  BY <1>1, FlushFrames DEF Fin
<1> HIDE DEF more, P, T, W
<1>7. /\ line \in Seq(Whats) /\ Len(line) = Len(T) + 1
      /\ \A i \in 1..Len(line) : line[i] = IF i = 1 THEN trace ELSE T[i - 1]
  <2>1. line = <<trace>> \o T
    BY DEF T
  <2> HIDE DEF line
  <2> QED BY <1>1, <1>3, <2>1
<1> HIDE DEF line
<1>8. 0 + 1 = 1 /\ Len(line) = P - 1
  BY <1>3, <1>7
<1> DEFINE f == [i \in (0 + 1)..Len(line) |-> i]
<1>9. DOMAIN f = 1..(P - 1) /\ \A i \in DOMAIN f : f[i] = i
  BY <1>8
<1>10. f \in [(0 + 1)..Len(line) -> DOMAIN more]
  BY <1>3, <1>4, <1>8
<1>11. \A i, j \in DOMAIN f : i < j => f[i] < f[j]
  BY <1>9
<1>12. ASSUME NEW i \in DOMAIN f PROVE more[f[i]] \in W /\ more[f[i]].what = line[i]
  <2>1. i \in 1..P /\ i < P /\ f[i] = i /\ i \in 1..Len(line) /\ i \in DOMAIN more
    BY <1>3, <1>4, <1>8, <1>9
  <2>2. more[i].fn \in {"put", "key"} /\ more[i].node = Root /\ more[i].what = IF i = 1 THEN trace ELSE T[i - 1]
    BY <1>4, <1>5, <2>1
  <2>3. more[i] \in Frames(tree)
    BY <1>4, <2>1
  <2>4. more[i] \in W
    BY <1>1, <2>2, <2>3 DEF W, WriteSet
  <2> QED BY <1>7, <2>1, <2>2, <2>4
<1>13. ASSUME NEW k \in DOMAIN more, more[k] \in W PROVE \E i \in DOMAIN f : f[i] = k
  <2>1. k < P /\ k \in 1..(P - 1)
    BY <1>3, <1>4, <1>6, <1>13 DEF W, WriteSet
  <2> QED BY <1>9, <2>1
<1> HIDE DEF f
<1>14. Feeds(more, W, line, 0)
  BY <1>10, <1>11, <1>12, <1>13, Zenon DEF Feeds
<1> QED BY <1>7, <1>14 DEF more, W, line

LEMMA RootHands ==
  ASSUME FrontTypeOK, NEW m \in Leaves
  PROVE  OnceIn(FlushCalls(Root), HandSet(tree, m))
<1> DEFINE more == FlushCalls(Root)
           P    == Len(Pre(Root))
           H    == HandSet(tree, m)
           Q    == Len(Post(Root))
<1>1. Root \in Nodes /\ Root \in Path(tree, m)
  <2>1. tree \in Trees /\ DOMAIN tree.kind = Nodes /\ m \in Nodes
    BY DEF FrontTypeOK, Nodes, Leaves
  <2> QED BY <2>1, TreeFacts, PathRoot
<1>2. OnceIn(Post(Root), H)
  BY <1>1, PostHands
<1>3. /\ \A k \in 1..Q : more[P + k] = Post(Root)[k]
      /\ Len(more) = P + Q /\ P \in Nat /\ Q \in Nat /\ DOMAIN more = 1..Len(more)
  BY <1>1, FlushParts
<1>4. \A k \in DOMAIN more : more[k].fn \in {"flush", "hand_on"} => P < k
  BY <1>1, FlushFrames DEF Fin
<1>5. DOMAIN Post(Root) = 1..Q
  <2>1. Post(Root) \in Seq(Frames(tree))
    BY <1>1, PostType
  <2> QED BY <2>1
<1> HIDE DEF more, P, H, Q
<1>6. PICK p \in 1..Q : Post(Root)[p] \in H /\ \A l \in 1..Q : Post(Root)[l] \in H => l = p
  BY <1>2, <1>5 DEF OnceIn
<1>7. P + p \in DOMAIN more /\ more[P + p] \in H
  BY <1>3, <1>6
<1>8. ASSUME NEW k \in DOMAIN more, more[k] \in H PROVE k = P + p
  <2>1. P < k
    BY <1>4, <1>8 DEF H, HandSet
  <2> DEFINE l == k - P
  <2>2. l \in 1..Q /\ P + l = k
    BY <1>3, <2>1
  <2> HIDE DEF l
  <2>3. Post(Root)[l] \in H
    BY <1>3, <1>8, <2>2
  <2> QED BY <1>6, <2>2, <2>3
<1> QED BY <1>7, <1>8 DEF OnceIn, more, H

LEMMA FlushDelivery ==
  ASSUME FrontInv, status = "open", Flush
  PROVE  Delivery'
<1>1. /\ calls # <<>> /\ calls[1].fn = "flush"
      /\ Replaced(calls, FlushCalls(At), calls') /\ FlushCalls(At) \in Seq(Frames(tree))
      /\ tree' = tree /\ given' = given /\ fmt' = fmt /\ seq' = seq
      /\ sink' = sink /\ buf' = buf
      /\ At = Root => calls = <<Call("flush", Root)>> /\ ~flushed /\ calls' = FlushCalls(Root)
      /\ At # Root => calls # <<Call("flush", Root)>>
  BY FlushFacts
<1>2. /\ FrontTypeOK /\ tree \in Trees /\ DOMAIN tree.kind = Nodes /\ At \in Nodes
      /\ calls \in Seq(Frames(tree)) /\ calls[1].node = At /\ calls[1] \in Frames(tree)
      /\ given # <<>> /\ Order /\ Delivery
  BY <1>1, RecordingFacts
<1>3. calls' # <<Call("flush", Root)>>
  BY FlushFlushed
<1> SUFFICES ASSUME Sound(tree) PROVE Delivery'
  BY <1>1, <1>2 DEF Delivery, Sound
<1>4. CASE At = Root
  <2>1. Start
    BY <1>1, <1>2, <1>4 DEF Delivery, Under
  <2>2. \E k \in DOMAIN calls' : calls'[k].fn \in Final
    <3> DEFINE P == Len(Pre(Root))
    <3>1. P \in Nat /\ P # 0
      <4>1. Pre(Root) # <<>> /\ Pre(Root) \in Seq(Frames(tree))
        BY <1>1, <1>2, <1>4, PreType
      <4> QED BY <4>1
    <3>2. P \in DOMAIN FlushCalls(Root)
      BY <1>2, <1>4, <3>1, FlushFrames
    <3>3. FlushCalls(Root)[P].fn = Fin(Root)
      <4>1. ~(P < P)
        BY <3>1
      <4> QED BY <1>2, <1>4, <3>2, <4>1, FlushFrames
    <3> QED BY <1>1, <1>4, <3>2, <3>3 DEF Fin, Final
  <2>3. ASSUME NEW m \in Leaves PROVE OnItsWay(m)'
    <3> DEFINE line == Line(tree.kind[m], given[Len(given)])
    <3>1. line = <<trace>> \o Texts0(Root)
      BY <1>2, <2>1, RootLine DEF Start
    <3>2. line \in Seq(Whats) /\ Feeds(FlushCalls(Root), WriteSet(tree, m), line, 0)
      BY <1>1, <1>2, <1>4, <3>1, RootFeeds
    <3>3. OnceIn(FlushCalls(Root), HandSet(tree, m))
      BY <1>2, RootHands
    <3>4. buf[m] = <<>> /\ sink[m] = Lines(m, Len(given) - 1)
      BY <2>1 DEF Start
    <3> HIDE DEF line
    <3>5. Len(buf[m]) = 0 /\ Len(buf[m]) <= Len(line) /\ \A i \in 1..Len(buf[m]) : FALSE
      <4>1. Len(buf[m]) = 0
        BY <3>4
      <4> QED BY <3>2, <4>1
    <3>6. Feeds(calls', WriteSet(tree, m), line, Len(buf[m]))
      BY <1>1, <1>4, <3>2, <3>5
    <3>7. Fed(m, line)'
      BY <1>1, <3>5, <3>6 DEF Fed, line
    <3>8. OnceIn(calls', HandSet(tree, m))
      BY <1>1, <1>4, <3>3
    <3> QED BY <1>1, <3>4, <3>7, <3>8 DEF OnItsWay, Lines, line
  <2>4. Leaves' = Leaves
    BY <1>1 DEF Leaves, Leaf, Nodes
  <2>5. seq' = Len(given') - 1
    BY <1>1, <2>1 DEF Start
  <2>6. Under'
    BY <1>3, <2>2, <2>3, <2>4, <2>5 DEF Under
  <2> QED BY <2>6 DEF Delivery
<1>5. CASE At # Root
  <2>1. tree.kind[At] \notin Stores
    BY <1>2, <1>5 DEF Sound
  <2>2. Pre(At) = <<>>
    BY <1>5, <2>1, FlushOfStore
  <2>3. FlushCalls(At) = Post(At)
    <3>1. FlushCalls(At) = <<>> \o Post(At)
      BY <1>2, <2>2, FlushShape
    <3>2. Post(At) \in Seq(Frames(tree))
      BY <1>2, PostType
    <3> DEFINE p == Post(At)
    <3> HIDE DEF p
    <3>3. <<>> \o p = p
      BY <3>2 DEF p
    <3> QED BY <3>1, <3>3 DEF p
  <2> DEFINE more == FlushCalls(At)
  <2>4. \A k \in DOMAIN more : more[k].fn \notin Final
    <3>1. Len(Pre(At)) = 0
      BY <2>2
    <3>2. \A k \in DOMAIN more : k \in Nat
      BY <1>2, FlushFrames
    <3> QED BY <1>2, <3>1, <3>2, FlushFrames DEF Final
  <2>5. ASSUME NEW m \in Leaves, OnItsWay(m) PROVE OnItsWay(m)'
    <3>1. calls[1] \in HandSet(tree, m) <=> At \in Path(tree, m)
      BY <1>1, <1>2 DEF HandSet
    <3>2. calls[1] \notin WriteSet(tree, m)
      BY <1>1 DEF WriteSet
    <3>3. /\ At \in Path(tree, m) => OnceIn(more, HandSet(tree, m))
          /\ At \notin Path(tree, m) => NoneIn(more, HandSet(tree, m))
          /\ NoneIn(more, WriteSet(tree, m))
      BY <1>2, <2>3, PostHands
    <3> HIDE DEF more
    <3> QED BY <1>1, <1>2, <2>5, <3>1, <3>2, <3>3, WayPush DEF more
  <2>6. calls[1].fn \notin Final
    BY <1>1 DEF Final
  <2>7. \A m \in Leaves : OnItsWay(m) => OnItsWay(m)'
    BY <2>5
  <2> QED BY <1>1, <1>2, <1>3, <1>5, <2>4, <2>6, <2>7, DeliveryPush
<1> QED BY <1>4, <1>5

LEMMA FlushNext ==
  ASSUME FrontInv, status = "open", Flush
  PROVE  FrontInv'
<1>1. /\ calls # <<>> /\ tree' = tree /\ status' = status /\ key' = key /\ saved' = saved /\ closed' = closed
      /\ bad' = bad /\ given' = given
  BY FlushFacts
<1>2. FrontTypeOK /\ Opened /\ \A m \in Nodes : closed[m] = 0
  BY <1>1, RecordingFacts
<1>3. FrontTypeOK' /\ Nodes' = Nodes
  BY <1>1, <1>2, TypeNext DEF FrontNext, Nodes
<1>4. Opened'
  BY <1>1, <1>2, OpenedStays
<1>5. Connections' /\ Home' /\ Order' /\ Phases' /\ TypedRight' /\ FlushedOnce' /\ Doomed' /\ Delivery'
  BY FlushConnections, FlushTyped, FlushFlushed, FlushDoomed, FlushDelivery
<1>6. RecordingInv'
  BY <1>5 DEF RecordingInv
<1> QED BY <1>1, <1>2, <1>3, <1>4, <1>5, <1>6 DEF FrontInv

LEMMA UndefinedNext ==
  ASSUME FrontInv, status = "open", Undefined
  PROVE  FrontInv'
<1>1. /\ calls # <<>> /\ bad' /\ calls' = <<>>
      /\ tree' = tree /\ status' = status /\ conn' = conn /\ key' = key /\ saved' = saved
      /\ closed' = closed /\ given' = given /\ Mistyped(Head(calls))
  BY DEF Undefined, opened
<1>2. /\ FrontTypeOK /\ Opened /\ \A m \in Nodes : closed[m] = 0
      /\ Connections /\ TypedRight /\ Home /\ given # <<>>
      /\ 1 \in DOMAIN calls /\ Head(calls) = calls[1]
  BY <1>1, RecordingFacts
<1>3. ~Sound(tree)
  <2>1. SUFFICES ASSUME ~Wrong(calls[1]) PROVE FALSE
    BY <1>2 DEF TypedRight
  <2>2. /\ calls[1].fn \in {"put", "key", "flush", "close"} /\ ~calls[1].set /\ conn # calls[1].node
    BY <1>1, <1>2, <2>1 DEF Mistyped, Wrong
  <2> QED BY <1>1, <1>2, <2>1, <2>2 DEF Connections, Led, LedIn, Typed
<1>4. FrontTypeOK' /\ Nodes' = Nodes
  BY <1>1, <1>2, TypeNext DEF FrontNext, Nodes
<1>5. Opened'
  BY <1>1, <1>2, OpenedStays
<1>6. DOMAIN calls' = {}
  BY <1>1, NoMore
<1>7. Phases'
  BY <1>1, <1>2, <1>6 DEF Phases, AllIn
<1>8. RecordingInv'
  <2>1. Connections' /\ FlushedOnce' /\ Order'
    BY <1>1, <1>6 DEF Connections, FlushedOnce, Order, OrderIn
  <2>2. Home'
    BY <1>1, <1>2, <1>4 DEF Home
  <2>3. TypedRight' /\ Delivery'
    BY <1>1, <1>2, <1>3 DEF TypedRight, Delivery, Sound
  <2> QED BY <1>1, <2>1, <2>2, <2>3 DEF RecordingInv
<1> QED BY <1>1, <1>2, <1>4, <1>5, <1>7, <1>8 DEF FrontInv

\* When a log is written nothing of it is left.
LEMMA RestFacts ==
  ASSUME FrontInv, status = "open", calls = <<>>, ~bad
  PROVE  /\ FrontTypeOK /\ tree \in Trees /\ DOMAIN tree.kind = Nodes /\ Root \in Nodes
         /\ Opened /\ conn = Root /\ \A m \in Nodes : closed[m] = 0
         /\ given # <<>> => Sound(tree)
         /\ Sound(tree) => Rested
         /\ Rested
<1>1. /\ FrontTypeOK /\ Opened /\ RecordingInv /\ \A m \in Nodes : closed[m] = 0
      /\ DOMAIN calls = {}
  BY NoMore DEF FrontInv
<1>2. tree \in Trees /\ DOMAIN tree.kind = Nodes /\ Root \in Nodes
  <2>1. tree \in Trees /\ DOMAIN tree.kind = Nodes
    BY <1>1 DEF FrontTypeOK, Nodes
  <2> QED BY <2>1, TreeFacts
<1>3. conn = Root
  BY <1>1 DEF RecordingInv, Home
<1>4. calls # <<Call("flush", Root)>>
  OBVIOUS
<1>5. given # <<>> => Sound(tree)
  <2> SUFFICES ASSUME given # <<>> PROVE Sound(tree)
    OBVIOUS
  <2>1. Doomed
    BY <1>1 DEF RecordingInv
  <2>2. \A m \in Nodes : tree.kind[m] \in Stores => m = Root
    BY <1>1, <2>1 DEF Doomed
  <2>3. \A n \in Nodes : \A i \in DOMAIN Kids(n) : Right(n, i)
    BY <1>1, <1>4, <2>1 DEF Doomed
  <2>4. \A n \in Nodes : \A i \in DOMAIN Kids(n) : ~Early(n, i)
    BY <1>1, <2>3 DEF Opened
  <2> QED BY <1>2, <2>2, <2>4 DEF Sound, Early, Leaf, Kids
<1>6. Under
  BY <1>1, <1>4, <1>5 DEF RecordingInv, Delivery, Start
<1>7. ASSUME NEW m \in Leaves PROVE buf[m] = <<>> /\ sink[m] = Lines(m, Len(given))
  BY <1>1, <1>6 DEF Under, OnItsWay, OnceIn
<1>8. Rested
  BY <1>1, <1>5, <1>6, <1>7 DEF Rested, Under
<1> QED BY <1>1, <1>2, <1>3, <1>5, <1>8

LEMMA OneFrame ==
  ASSUME NEW c
  PROVE  /\ <<c>> # <<>> /\ DOMAIN <<c>> = {1} /\ <<c>>[1] = c /\ Len(<<c>>) = 1
  OBVIOUS

LEMMA RecordNext ==
  ASSUME FrontInv, NEW log \in Logs, Record(log)
  PROVE  FrontInv'
<1> DEFINE c == Call("flush", Root)
<1>1. /\ status = "open" /\ calls = <<>> /\ ~bad
      /\ trace' = log.trace /\ fmt' = log.fields /\ ~flushed'
      /\ calls' = <<c>> /\ given' = Append(given, log)
      /\ tree' = tree /\ status' = status /\ conn' = conn /\ key' = key /\ saved' = saved
      /\ closed' = closed /\ bad' = bad /\ seq' = seq /\ sink' = sink /\ buf' = buf
  BY DEF Record, Ready, FlushedAtFirst, opened, leaves
<1>2. /\ FrontTypeOK /\ tree \in Trees /\ DOMAIN tree.kind = Nodes /\ Root \in Nodes
      /\ Opened /\ conn = Root /\ \A m \in Nodes : closed[m] = 0 /\ Rested
  BY <1>1, RestFacts
<1>3. FrontTypeOK' /\ Nodes' = Nodes
  BY <1>1, <1>2, TypeNext DEF FrontNext, Nodes
<1>4. Opened'
  BY <1>1, <1>2, OpenedStays
<1>5. c.fn = "flush" /\ c.node = Root
  BY DEF Call
<1>6. /\ given \in Seq(Logs) /\ given' # <<>> /\ Len(given') = Len(given) + 1 /\ Len(given) \in Nat
      /\ given'[Len(given')] = log
      /\ \A i \in 1..Len(given) : given'[i] = given[i]
  <2>1. given \in Seq(Logs)
    BY <1>2 DEF FrontTypeOK
  <2> QED BY <1>1, <2>1
<1> HIDE DEF c
<1>7. calls' # <<>> /\ DOMAIN calls' = {1} /\ calls'[1] = c
  BY <1>1, OneFrame
<1>8. Phases'
  <2>1. AllIn(calls, RecordFns)'
    BY <1>5, <1>7 DEF AllIn, RecordFns
  <2> QED BY <1>1, <1>6, <2>1 DEF Phases
<1>9. Connections' /\ Home'
  <2>1. Led'
    BY <1>1, <1>2, <1>5, <1>7 DEF Led, LedIn
  <2>2. Home'
    BY <1>1, <1>2, <1>3, <1>7 DEF Home, c
  <2> QED BY <2>1, <2>2 DEF Connections
<1>10. TypedRight' /\ FlushedOnce' /\ Order'
  <2>1. TypedRight'
    BY <1>1, <1>5, <1>7 DEF TypedRight, Wrong
  <2>2. FlushedOnce'
    BY <1>1, <1>5, <1>7 DEF FlushedOnce, c
  <2>3. Order'
    BY <1>7 DEF Order, OrderIn
  <2> QED BY <2>1, <2>2, <2>3
<1>11. Doomed'
  <2>1. \A m \in Nodes : \E k \in DOMAIN calls' : calls'[k].fn = "flush" /\ calls'[k].node \in Path(tree, m)
    BY <1>2, <1>5, <1>7, PathRoot
  <2>2. calls' = <<Call("flush", Root)>>
    BY <1>1 DEF c
  <2> QED BY <1>1, <1>3, <2>1, <2>2 DEF Doomed
<1>12. Delivery'
  <2>1. ASSUME NEW m \in Leaves PROVE buf'[m] = <<>> /\ sink'[m] = Lines(m, Len(given) - 1)'
    <3>1. sink[m] = Lines(m, Len(given)) /\ buf[m] = <<>>
      BY <1>2 DEF Rested
    <3>2. \A i \in 1..Len(given) : Line(tree.kind[m], given[i]) = Line(tree'.kind[m], given'[i])
      BY <1>1, <1>6
    <3>3. Lines(m, Len(given)) = [i \in 1..Len(given) |-> Line(tree'.kind[m], given'[i])]
      BY <3>2 DEF Lines
    <3>4. Len(given') - 1 = Len(given)
      BY <1>6
    <3>5. Lines(m, Len(given) - 1)' = Lines(m, Len(given))
      BY <3>3, <3>4 DEF Lines
    <3> QED BY <1>1, <3>1, <3>5
  <2>2. seq' = Len(given') - 1
    BY <1>1, <1>2, <1>6 DEF Rested
  <2>3. Leaves' = Leaves
    BY <1>1 DEF Leaves, Leaf, Nodes
  <2>4. fmt' = given'[Len(given')].fields /\ trace' = given'[Len(given')].trace
    BY <1>1, <1>6
  <2>5. Start'
    BY <1>1, <1>6, <2>1, <2>2, <2>3, <2>4 DEF Start, c
  <2> QED BY <2>5 DEF Delivery
<1>13. RecordingInv'
  BY <1>9, <1>10, <1>11, <1>12 DEF RecordingInv
<1> QED BY <1>1, <1>2, <1>3, <1>4, <1>8, <1>13 DEF FrontInv

LEMMA TooManyNext ==
  ASSUME FrontInv, NEW log \in Logs, RecordTooMany(log)
  PROVE  FrontInv'
<1>1. /\ status = "open" /\ calls = <<>> /\ ~bad /\ status' = "aborted"
      /\ tree' = tree /\ calls' = calls /\ key' = key /\ saved' = saved
      /\ fmt' = fmt /\ seq' = seq /\ sink' = sink /\ buf' = buf
      /\ closed' = closed /\ bad' = bad /\ given' = given
  BY DEF RecordTooMany, Ready, opened, table, leaves
<1>2. FrontTypeOK /\ Opened /\ Rested /\ \A m \in Nodes : closed[m] = 0
  BY <1>1, RestFacts
<1>3. FrontTypeOK' /\ Nodes' = Nodes
  BY <1>1, <1>2, TypeNext DEF FrontNext, Nodes
<1>4. Opened'
  BY <1>1, <1>2, OpenedStays
<1>5. Rested'
  BY <1>1, <1>2, RestedStays
<1>6. Phases'
  BY <1>1 DEF Phases
<1> QED BY <1>1, <1>2, <1>3, <1>4, <1>5, <1>6 DEF FrontInv

LEMMA CloseAllNext ==
  ASSUME FrontInv, CloseAll
  PROVE  FrontInv'
<1> DEFINE c == Call("close", Root)
<1>1. /\ status = "open" /\ calls = <<>> /\ ~bad /\ status' = "closed" /\ calls' = <<c>>
      /\ tree' = tree /\ conn' = conn /\ key' = key /\ saved' = saved
      /\ fmt' = fmt /\ seq' = seq /\ sink' = sink /\ buf' = buf
      /\ closed' = closed /\ bad' = bad /\ given' = given
  BY DEF CloseAll, Ready, opened, table, leaves
<1>2. /\ FrontTypeOK /\ tree \in Trees /\ DOMAIN tree.kind = Nodes /\ Root \in Nodes
      /\ Opened /\ conn = Root /\ Rested /\ \A m \in Nodes : closed[m] = 0
  BY <1>1, RestFacts
<1>3. FrontTypeOK' /\ Nodes' = Nodes
  BY <1>1, <1>2, TypeNext DEF FrontNext, Nodes
<1>4. Opened'
  BY <1>1, <1>2, OpenedStays
<1>5. Rested'
  BY <1>1, <1>2, RestedStays
<1>6. c.fn = "close" /\ c.node = Root /\ c \in Frames(tree)
  BY <1>2, CallType DEF Call
<1> HIDE DEF c
<1>7. DOMAIN calls' = {1} /\ calls'[1] = c
  BY <1>1, OneFrame
<1>8. Phases'
  <2>1. AllIn(calls, CloseFns)'
    BY <1>6, <1>7 DEF AllIn, CloseFns
  <2> QED BY <1>1, <2>1 DEF Phases
<1>9. Led'
  BY <1>1, <1>2, <1>6, <1>7 DEF Led, LedIn
<1>10. Closing'
  <2>1. ASSUME NEW m \in Nodes PROVE OnceIn(calls', FreeSet(tree, m))
    <3>1. c \in FreeSet(tree, m)
      BY <1>2, <1>6, PathRoot DEF FreeSet
    <3> QED BY <1>7, <3>1 DEF OnceIn
  <2> QED BY <1>1, <1>2, <1>3, <2>1 DEF Closing
<1> QED BY <1>1, <1>3, <1>4, <1>5, <1>8, <1>9, <1>10 DEF FrontInv

-----------------------------------------------------------------------------
(* Closing *)

LEMMA ClosingFacts ==
  ASSUME FrontInv, status = "closed", calls # <<>>
  PROVE  /\ FrontTypeOK /\ tree \in Trees /\ DOMAIN tree.kind = Nodes
         /\ calls \in Seq(Frames(tree)) /\ ~bad
         /\ Opened /\ Rested /\ Led /\ Closing
         /\ \A k \in DOMAIN calls : calls[k].fn \in CloseFns
         /\ 1 \in DOMAIN calls /\ Head(calls) = calls[1] /\ calls[1] \in Frames(tree)
         /\ At \in Nodes /\ calls[1].node = At
<1>1. FrontTypeOK /\ ~bad /\ AllIn(calls, CloseFns) /\ Opened /\ Rested /\ Led /\ Closing
  BY DEF FrontInv, Phases
<1>2. tree \in Trees /\ DOMAIN tree.kind = Nodes /\ calls \in Seq(Frames(tree))
  BY <1>1 DEF FrontTypeOK, Nodes
<1> QED BY <1>1, <1>2, Next1 DEF AllIn

\* A call that keeps to what is known when a log is closed.
LEMMA ClosingPush ==
  ASSUME FrontInv, status = "closed", calls # <<>>, FrontNext,
         NEW more \in Seq(Frames(tree)), Replaced(calls, more, calls'),
         tree' = tree, status' = status, key' = key, saved' = saved, fmt' = fmt, seq' = seq,
         buf' = buf, sink' = sink, bad' = bad, given' = given,
         \A k \in DOMAIN more : more[k].fn \in CloseFns, LedIn(more, conn'),
         Closing'
  PROVE  FrontInv'
<1>1. /\ FrontTypeOK /\ tree \in Trees /\ DOMAIN tree.kind = Nodes
      /\ calls \in Seq(Frames(tree)) /\ ~bad
      /\ Opened /\ Rested /\ Led /\ 1 \in DOMAIN calls
      /\ \A k \in DOMAIN calls : calls[k].fn \in CloseFns
  BY ClosingFacts
<1>2. FrontTypeOK' /\ Nodes' = Nodes
  BY <1>1, TypeNext DEF Nodes
<1>3. Opened'
  BY <1>1, OpenedStays
<1>4. Rested'
  BY <1>1, RestedStays
<1>5. Phases'
  <2>1. \A l \in DOMAIN calls' : \/ \E k \in DOMAIN more : calls'[l] = more[k]
                                 \/ \E k \in DOMAIN calls : k # 1 /\ calls'[l] = calls[k]
    BY <1>1, Stays
  <2>2. \A l \in DOMAIN calls' : calls'[l].fn \in CloseFns
    BY <1>1, <2>1
  <2>3. AllIn(calls, CloseFns)'
    BY <2>2 DEF AllIn, CloseFns
  <2> QED BY <1>1, <2>3 DEF Phases
<1>6. Led'
  <2>1. LedIn(calls, conn) /\ calls[1].fn \notin Leading
    BY <1>1 DEF Led, CloseFns, Leading
  <2>2. LedIn(calls', conn')
    BY <1>1, <2>1, LedPush
  <2> QED BY <2>2 DEF Led
<1> QED BY <1>2, <1>3, <1>4, <1>5, <1>6 DEF FrontInv

LEMMA CloseNodeNext ==
  ASSUME FrontInv, status = "closed", CloseNode
  PROVE  FrontInv'
<1> DEFINE kids == CloseKids(At)
           more == Append(kids, Call("free", At))
<1>1. /\ calls # <<>> /\ calls[1].fn = "close" /\ conn' = At /\ Replaced(calls, more, calls')
      /\ tree' = tree /\ status' = status /\ key' = key /\ saved' = saved /\ fmt' = fmt /\ seq' = seq
      /\ buf' = buf /\ sink' = sink /\ bad' = bad /\ given' = given /\ closed' = closed
  BY DEF CloseNode, TypedCall, Calls, Go, Replaced, opened, table, leaves
<1>2. /\ FrontTypeOK /\ tree \in Trees /\ DOMAIN tree.kind = Nodes
      /\ calls \in Seq(Frames(tree)) /\ calls[1] \in Frames(tree) /\ Closing
      /\ At \in Nodes /\ calls[1].node = At
  BY <1>1, ClosingFacts
<1>3. /\ kids \in Seq(Frames(tree)) /\ DOMAIN kids = DOMAIN tree.kids[At]
      /\ \A i \in DOMAIN kids : kids[i].fn = "close" /\ kids[i].node = tree.kids[At][i] /\ kids[i].set
  <2>1. kids \in Seq(Frames(tree)) /\ DOMAIN kids = DOMAIN tree.kids[At]
    BY <1>2, KidsType DEF CloseKids, Kids
  <2>2. ASSUME NEW kid
        PROVE  /\ CallKid(Call("close", kid)).fn = "close" /\ CallKid(Call("close", kid)).node = kid
               /\ CallKid(Call("close", kid)).set = TRUE
    BY DEF Call, CallKid
  <2>3. \A i \in DOMAIN tree.kids[At] : kids[i] = CallKid(Call("close", tree.kids[At][i]))
    BY DEF CloseKids, Kids
  <2>4. \A i \in DOMAIN tree.kids[At] :
          /\ CallKid(Call("close", tree.kids[At][i])).fn = "close"
          /\ CallKid(Call("close", tree.kids[At][i])).node = tree.kids[At][i]
          /\ CallKid(Call("close", tree.kids[At][i])).set
    BY <2>2
  <2> HIDE DEF kids
  <2> QED BY <2>1, <2>3, <2>4
<1>4. Call("free", At) \in Frames(tree) /\ Call("free", At).fn = "free" /\ Call("free", At).node = At
  BY <1>2, CallType DEF Call
<1> HIDE DEF kids
<1>5. /\ more \in Seq(Frames(tree)) /\ DOMAIN more = 1..(Len(kids) + 1)
      /\ \A k \in DOMAIN kids : more[k] = kids[k]
      /\ more[Len(kids) + 1] = Call("free", At)
      /\ Len(kids) \in Nat /\ DOMAIN kids = 1..Len(kids)
  BY <1>3, <1>4, AroundType
<1> HIDE DEF more
<1>6. \A k \in DOMAIN more :
        \/ /\ k \in DOMAIN kids /\ more[k].fn = "close" /\ more[k].node = tree.kids[At][k] /\ more[k].set
        \/ k = Len(kids) + 1 /\ more[k].fn = "free" /\ more[k].node = At
  BY <1>3, <1>4, <1>5
<1>7. \A k \in DOMAIN more : more[k].fn \in CloseFns
  BY <1>6 DEF CloseFns
<1>8. LedIn(more, conn')
  BY <1>6 DEF LedIn, Typed
<1>9. ASSUME NEW m \in Nodes
      PROVE  \/ closed[m] = 0 /\ OnceIn(calls', FreeSet(tree, m))
             \/ closed[m] = 1 /\ NoneIn(calls', FreeSet(tree, m))
  <2> DEFINE S == FreeSet(tree, m)
  <2>1. \/ closed[m] = 0 /\ OnceIn(calls, S)
        \/ closed[m] = 1 /\ NoneIn(calls, S)
    BY <1>2 DEF Closing
  <2>2. calls[1] \in S <=> At \in Path(tree, m)
    BY <1>1, <1>2 DEF FreeSet
  <2>3. \A k \in DOMAIN more : more[k] \in Frames(tree)
    BY <1>5
  <2>4. \A k \in DOMAIN more : more[k] \in S =>
          \/ k \in DOMAIN tree.kids[At] /\ tree.kids[At][k] \in Path(tree, m)
          \/ k = Len(kids) + 1 /\ At = m
    BY <1>3, <1>6 DEF FreeSet
  <2>5. ASSUME At \in Path(tree, m) PROVE OnceIn(more, S)
    <3>1. CASE At = m
      <4>1. \A i \in DOMAIN tree.kids[At] : tree.kids[At][i] \notin Path(tree, m)
        BY <1>2, <3>1, PathKid
      <4>2. Len(kids) + 1 \in DOMAIN more /\ more[Len(kids) + 1] \in S
        <5>1. Len(kids) + 1 \in DOMAIN more
          BY <1>5
        <5> QED BY <1>4, <1>5, <3>1, <5>1 DEF FreeSet
      <4> QED BY <2>4, <4>1, <4>2 DEF OnceIn
    <3>2. CASE At # m
      <4>1. PICK i \in DOMAIN tree.kids[At] : tree.kids[At][i] \in Path(tree, m)
        BY <1>2, <2>5, <3>2, PathDown
      <4>2. \A j \in DOMAIN tree.kids[At] : tree.kids[At][j] \in Path(tree, m) => j = i
        BY <1>2, <2>5, <4>1, PathOne
      <4>3. i \in DOMAIN more /\ more[i] \in S
        <5>1. i \in DOMAIN more /\ i \in DOMAIN kids
          BY <1>3, <1>5, <4>1
        <5>2. more[i].fn = "close" /\ more[i].node = tree.kids[At][i]
          BY <1>3, <1>5, <5>1
        <5> QED BY <2>3, <4>1, <5>1, <5>2 DEF FreeSet
      <4> QED BY <2>4, <3>2, <4>2, <4>3 DEF OnceIn
    <3> QED BY <3>1, <3>2
  <2>6. ASSUME At \notin Path(tree, m) PROVE NoneIn(more, S)
    <3>1. At # m /\ \A i \in DOMAIN tree.kids[At] : tree.kids[At][i] \notin Path(tree, m)
      BY <1>2, <2>6, PathType, PathKid
    <3> QED BY <2>4, <3>1 DEF NoneIn
  <2> HIDE DEF S
  <2>7. OnceIn(calls, S) => OnceIn(calls', S)
    BY <1>1, <1>2, <1>5, <2>2, <2>5, <2>6, PushOnce
  <2>8. NoneIn(calls, S) => NoneIn(calls', S)
    <3>1. NoneIn(calls, S) => calls[1] \notin S
      BY <1>1, <1>2 DEF NoneIn
    <3> QED BY <1>1, <1>2, <1>5, <2>2, <2>6, <3>1, PushNone
  <2> QED BY <2>1, <2>7, <2>8 DEF S
<1>10. Closing'
  BY <1>1, <1>9 DEF Closing, Nodes
<1>11. FrontNext
  BY DEF FrontNext
<1> QED BY <1>1, <1>5, <1>7, <1>8, <1>10, <1>11, ClosingPush

LEMMA FreeNodeNext ==
  ASSUME FrontInv, status = "closed", FreeNode
  PROVE  FrontInv'
<1>1. /\ calls # <<>> /\ calls[1].fn = "free" /\ Replaced(calls, <<>>, calls')
      /\ tree' = tree /\ status' = status /\ key' = key /\ saved' = saved /\ fmt' = fmt /\ seq' = seq
      /\ buf' = buf /\ sink' = sink /\ bad' = bad /\ given' = given
      /\ closed' = [closed EXCEPT ![At] = @ + 1]
  BY DEF FreeNode, Calls, Go, Replaced, opened, table, leaves
<1>2. /\ FrontTypeOK /\ tree \in Trees /\ DOMAIN tree.kind = Nodes
      /\ calls \in Seq(Frames(tree)) /\ calls[1] \in Frames(tree) /\ Closing
      /\ At \in Nodes /\ calls[1].node = At /\ 1 \in DOMAIN calls /\ closed \in [Nodes -> Nat]
  BY <1>1, ClosingFacts DEF FrontTypeOK
<1>3. /\ <<>> \in Seq(Frames(tree)) /\ DOMAIN <<>> = {} /\ LedIn(<<>>, conn')
      /\ \A P : NoneIn(<<>>, P)
  BY NoMore
<1>4. ASSUME NEW m \in Nodes
      PROVE  \/ closed'[m] = 0 /\ OnceIn(calls', FreeSet(tree, m))
             \/ closed'[m] = 1 /\ NoneIn(calls', FreeSet(tree, m))
  <2> DEFINE S == FreeSet(tree, m)
  <2>1. \/ closed[m] = 0 /\ OnceIn(calls, S)
        \/ closed[m] = 1 /\ NoneIn(calls, S)
    BY <1>2 DEF Closing
  <2>2. calls[1] \in S <=> At = m
    BY <1>1, <1>2 DEF FreeSet
  <2> HIDE DEF S
  <2>3. CASE At = m
    <3>1. closed[m] = 0 /\ OnceIn(calls, S)
      BY <1>2, <2>1, <2>2, <2>3 DEF NoneIn
    <3>2. NoneIn(calls', S)
      BY <1>1, <1>2, <1>3, <2>2, <2>3, <3>1, PushNone
    <3>3. closed'[m] = 1
      BY <1>1, <1>2, <2>3, <3>1
    <3> QED BY <3>2, <3>3 DEF S
  <2>4. CASE At # m
    <3>1. closed'[m] = closed[m]
      BY <1>1, <1>2, <2>4
    <3>2. OnceIn(calls, S) => OnceIn(calls', S)
      BY <1>1, <1>2, <1>3, <2>2, <2>4, PushOnce
    <3>3. NoneIn(calls, S) => NoneIn(calls', S)
      BY <1>1, <1>2, <1>3, <2>2, <2>4, PushNone
    <3> QED BY <2>1, <3>1, <3>2, <3>3 DEF S
  <2> QED BY <2>3, <2>4
<1>5. Closing'
  BY <1>1, <1>4 DEF Closing, Nodes
<1>6. FrontNext
  BY DEF FrontNext
<1> QED BY <1>1, <1>3, <1>5, <1>6, ClosingPush

-----------------------------------------------------------------------------
(* Theorems *)

LEMMA RecordingNext ==
  ASSUME FrontInv, status = "open", FrontNext
  PROVE  FrontInv'
<1>1. ~(InitNode \/ Remember \/ OpenEnd \/ CloseNode \/ FreeNode)
  <2>1. ASSUME calls # <<>> PROVE Head(calls).fn \in RecordFns
    BY <2>1, RecordingFacts
  <2> QED BY <2>1 DEF InitNode, Remember, OpenEnd, CloseNode, FreeNode, TypedCall, Calls, RecordFns
<1>2. \/ SwitchBack \/ Put \/ PutKey \/ Flush \/ Formatted \/ HandOn \/ Undefined \/ CloseAll
      \/ \E log \in Logs : Record(log) \/ RecordTooMany(log)
  BY <1>1 DEF FrontNext
<1> QED BY <1>2, SwitchNext, PutNext, KeyNext, FlushNext, FormattedNext, HandOnNext, UndefinedNext,
           CloseAllNext, RecordNext, TooManyNext

LEMMA ClosingNext ==
  ASSUME FrontInv, status \in {"closed", "aborted"}, FrontNext
  PROVE  FrontInv'
<1>1. ~Ready
  BY DEF Ready
<1>2. ASSUME calls # <<>>
      PROVE  status = "closed" /\ Head(calls).fn \in CloseFns /\ ~Mistyped(Head(calls))
  <2>1. status = "closed"
    BY <1>2 DEF FrontInv, Phases
  <2>2. calls[1].fn \in CloseFns /\ Head(calls) = calls[1] /\ Led /\ 1 \in DOMAIN calls
    BY <1>2, <2>1, ClosingFacts
  <2> QED BY <2>1, <2>2 DEF Mistyped, CloseFns, Led, LedIn, Typed
<1>3. CloseNode \/ FreeNode
  <2>1. ~(InitNode \/ Remember \/ OpenEnd)
    BY <1>2 DEF InitNode, Remember, OpenEnd, Calls, CloseFns
  <2>2. ~(SwitchBack \/ Put \/ PutKey \/ Flush \/ Formatted \/ HandOn)
    BY <1>2 DEF SwitchBack, Put, PutKey, Flush, Formatted, HandOn, TypedCall, Calls, CloseFns
  <2>3. ~Undefined
    BY <1>2 DEF Undefined
  <2>4. ~CloseAll /\ \A log \in Logs : ~(Record(log) \/ RecordTooMany(log))
    BY <1>1 DEF CloseAll, Record, RecordTooMany
  <2> QED BY <2>1, <2>2, <2>3, <2>4 DEF FrontNext
<1>4. status = "closed"
  BY <1>2, <1>3 DEF CloseNode, FreeNode, TypedCall, Calls
<1> QED BY <1>3, <1>4, CloseNodeNext, FreeNodeNext

LEMMA FrontStep ==
  ASSUME FrontInv, [FrontNext]_frontVars
  PROVE  FrontInv'
<1>1. CASE FrontNext
  <2>1. status \in {"opening", "open", "closed", "aborted"}
    BY DEF FrontInv, FrontTypeOK
  <2> QED BY <1>1, <2>1, OpeningNext, RecordingNext, ClosingNext
<1>2. CASE UNCHANGED frontVars
  <2>1. /\ tree' = tree /\ status' = status /\ calls' = calls /\ conn' = conn /\ key' = key /\ saved' = saved
        /\ fmt' = fmt /\ trace' = trace /\ seq' = seq /\ flushed' = flushed
        /\ buf' = buf /\ sink' = sink /\ closed' = closed /\ bad' = bad /\ given' = given
    BY <1>2 DEF frontVars, opened, table, leaves
  <2>2. FrontTypeOK' = FrontTypeOK /\ Phases' = Phases /\ Opened' = Opened /\ Rested' = Rested
    BY <2>1 DEF FrontTypeOK, Phases, AllIn, Opened, Right, Early, Rested, Lines, Sound, Leaves, Leaf, KeyOf, Kids, Nodes
  <2>3. OpeningInv' = OpeningInv
    BY <2>1 DEF OpeningInv, Chain, OpenSound, OpenUnsound, Untouched, Stain, Pending, SomeIn, Right, Early,
                Sound, Leaf, KeyOf, Kids, Nodes
  <2>4. Led' = Led /\ Closing' = Closing
    BY <2>1 DEF Led, LedIn, Closing, OnceIn, NoneIn, Nodes
  <2>5. RecordingInv' = RecordingInv
    <3>1. Connections' = Connections /\ Home' = Home /\ TypedRight' = TypedRight /\ Doomed' = Doomed
      BY <2>1, <2>4 DEF Connections, Home, TypedRight, Doomed, Wrong, Right, Sound, Leaf, KeyOf, Kids, Nodes
    <3>2. FlushedOnce' = FlushedOnce /\ Order' = Order
      BY <2>1 DEF FlushedOnce, Order, OrderIn
    <3>3. Start' = Start /\ Under' = Under
      BY <2>1 DEF Start, Under, OnItsWay, Fed, Lines, Leaves, Leaf, Nodes
    <3> QED BY <2>1, <3>1, <3>2, <3>3 DEF RecordingInv, Delivery, Sound
  <2>6. (\A m \in Nodes : closed[m] = 0)' = (\A m \in Nodes : closed[m] = 0)
    BY <2>1 DEF Nodes
  <2> QED BY <2>1, <2>2, <2>3, <2>4, <2>5, <2>6 DEF FrontInv
<1> QED BY <1>1, <1>2

LEMMA FrontAlways == FrontSpec => []FrontInv
<1>1. FrontInit => FrontInv
  BY OpeningInit
<1>2. FrontInv /\ [FrontNext]_frontVars => FrontInv'
  BY FrontStep
<1> QED BY <1>1, <1>2, PTL DEF FrontSpec

\* The stack holds calls for nodes of the tree, each with what its function takes,
\* and the fields of the logpool_t have their types, through every opening, every
\* log and every close.
THEOREM FrontTypeCorrect == FrontSpec => []FrontTypeOK
<1>1. FrontInv => FrontTypeOK
  BY DEF FrontInv
<1> QED BY <1>1, FrontAlways, PTL

\* logpool_t has one connection and one fn_key for a whole tree of formatters: no
\* function ever finds those of a node of another kind exactly if no store is below
\* another node and only the last child of a multiplexer is an inner node.
THEOREM SoundTreesAreTyped == FrontSpec => []TypedIffSound
<1>1. FrontInv => TypedIffSound
  <2> SUFFICES ASSUME FrontInv PROVE TypedIffSound
    OBVIOUS
  <2>1. bad => ~Sound(tree)
    BY DEF FrontInv, Phases, RecordingInv, TypedRight
  <2>2. ASSUME given # <<>>, calls = <<>>, ~bad PROVE Sound(tree)
    <3>1. status \in {"open", "closed", "aborted"}
      BY <2>2 DEF FrontInv, FrontTypeOK, Phases
    <3> QED BY <2>2, <3>1, RestFacts DEF FrontInv, Rested
  <2> QED BY <2>1, <2>2 DEF TypedIffSound
<1> QED BY <1>1, FrontAlways, PTL

\* Whatever the tree, each leaf hands on each log once, whole and in order, though
\* the leaves share the table of fields and the first flush that meets it empties it.
THEOREM LogsAreDelivered == FrontSpec => []Delivered
<1>1. FrontInv => Delivered
  <2> SUFFICES ASSUME FrontInv, calls = <<>>, ~bad
               PROVE  /\ seq = Len(given) /\ fmt = <<>>
                      /\ \A n \in Leaves :
                           /\ buf[n] = <<>>
                           /\ sink[n] = [i \in DOMAIN given |-> Line(tree.kind[n], given[i])]
    BY DEF Delivered
  <2>1. status \in {"open", "closed", "aborted"}
    BY DEF FrontInv, FrontTypeOK, Phases
  <2>2. Rested
    BY <2>1, RestFacts DEF FrontInv
  <2>3. DOMAIN given = 1..Len(given)
    BY DEF FrontInv, FrontTypeOK
  <2> QED BY <2>2, <2>3 DEF Rested, Lines
<1> QED BY <1>1, FrontAlways, PTL

\* logpool_close closes each node of the tree exactly once, and each as what it is,
\* in any tree: an inner node sets each child's connection before it calls its
\* fn_close.
THEOREM EachNodeIsClosedOnce == FrontSpec => []ClosedOnce
<1>1. FrontInv => ClosedOnce
  <2> SUFFICES ASSUME FrontInv, status = "closed"
               PROVE  ~bad /\ (calls = <<>> => \A n \in Nodes : closed[n] = 1)
    BY DEF ClosedOnce
  <2>1. ~bad /\ Closing
    BY DEF FrontInv, Phases
  <2>2. ASSUME calls = <<>>, NEW n \in Nodes PROVE closed[n] = 1
    <3>1. DOMAIN calls = {}
      BY <2>2, NoMore
    <3> QED BY <2>1, <3>1 DEF Closing, OnceIn
  <2> QED BY <2>1, <2>2
<1> QED BY <1>1, FrontAlways, PTL

=============================================================================
