--------------------------- MODULE MessageChannel ---------------------------
(***************************************************************************)
(* What a connection promises the code above it: the messages one side     *)
(* wrote reach the other side whole, once, and in the order they were      *)
(* written.  ChunkStream.tla, which reads from a connection, and           *)
(* TraceThread.tla, which writes to one, are shown to implement this       *)
(* specification.                                                          *)
(***************************************************************************)
EXTENDS Naturals, Sequences

VARIABLES sent,      \* the messages written so far, oldest first
          received   \* the messages handed to the reader so far

vars == <<sent, received>>

Init == sent = <<>> /\ received = <<>>

\* The writer appends one message, whatever it is.
Send == /\ Len(sent') = Len(sent) + 1
        /\ sent' = Append(sent, sent'[Len(sent) + 1])
        /\ UNCHANGED received

\* The reader is handed the oldest message it has not been handed yet.
Receive == /\ Len(received) < Len(sent)
           /\ received' = Append(received, sent[Len(received) + 1])
           /\ UNCHANGED sent

Next == Send \/ Receive

Spec == Init /\ [][Next]_vars
=============================================================================
