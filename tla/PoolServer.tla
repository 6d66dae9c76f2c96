----------------------------- MODULE PoolServer -----------------------------
(***************************************************************************)
(* logpoold: the connections of core/server.c and the list of plugins of   *)
(* plugins/pool/pool_plugin.c.                                             *)
(*                                                                         *)
(* A READ makes the server load a procedure and put it, with the           *)
(* bufferevent of its connection, into the list; a WRITE runs every plugin *)
(* of the list; QUIT, an end of file and an error blank the slots of the   *)
(* connection and free its bufferevent.  A bufferevent is a heap address:  *)
(* once freed it may be that of a later connection.                        *)
(*                                                                         *)
(* The server has one thread.  A run of server_read_callback handles all   *)
(* messages at hand; here each is a step of its own, which allows more     *)
(* interleavings and hides none.  A plugin is what the server can tell of  *)
(* it: the logs its filters accept reach a Response on its bufferevent.    *)
(***************************************************************************)
EXTENDS Naturals, Sequences, FiniteSets

CONSTANTS Conn,       \* connections in the life of the server
          Bev,        \* addresses of bufferevents
          Procedure,  \* names of procedures
          Loadable,   \* procedures with a script in memcached
          Log,        \* logs
          Accepts,    \* the logs that the filters of a procedure let through
          InitialCapacity,  \* 4 in pool_new
          MaxSends,   \* bound: messages written by all clients
          NULL

ASSUME LoadableAssumption == Loadable \subseteq Procedure
ASSUME AcceptsAssumption  == Accepts \in [Procedure -> SUBSET Log]
ASSUME CapacityAssumption == InitialCapacity \in Nat \ {0}
ASSUME SendsAssumption    == MaxSends \in Nat
ASSUME NullAssumption     == NULL \notin Bev \cup Conn \cup Procedure

Read(p)  == [kind |-> "read", proc |-> p]
Write(l) == [kind |-> "write", log |-> l]
Quit     == [kind |-> "quit"]
Message  == {Read(p) : p \in Procedure} \cup {Write(l) : l \in Log} \cup {Quit}

Plugin == [proc : Procedure, bev : Bev]
ASSUME NullPlugin == NULL \notin Plugin

VARIABLES state,     \* of each connection, see TypeOK
          inbox,     \* messages written by each client and not handled yet
          outbox,    \* logs written to the bufferevent of each connection
          owner,     \* the connection a bufferevent is for, NULL: not allocated
          script,    \* whose initPlugin the name space holds, or NULL
          slots,     \* pool_list.list: [bev, p], both NULL when blanked
          capacity,  \* pool_list.list.capacity
          readers,   \* history: the connection that asked for each slot
          sends      \* messages written so far, for the bound

pool == <<script, slots, capacity, readers>>
vars == <<state, inbox, outbox, owner, script, slots, capacity, readers, sends>>

Init == /\ state = [c \in Conn |-> "new"]
        /\ inbox = [c \in Conn |-> <<>>]
        /\ outbox = [c \in Conn |-> <<>>]
        /\ owner = [a \in Bev |-> NULL]
        /\ script = NULL
        /\ slots = <<>>
        /\ capacity = InitialCapacity
        /\ readers = <<>>
        /\ sends = 0

-----------------------------------------------------------------------------
(* Clients and the network *)

\* server_accept_callback: the bufferevent is allocated at a free address.
Accept(c, a) == /\ state[c] = "new"
                /\ owner[a] = NULL
                /\ owner' = [owner EXCEPT ![a] = c]
                /\ state' = [state EXCEPT ![c] = "open"]
                /\ UNCHANGED <<inbox, outbox, sends>>
                /\ UNCHANGED pool

\* server_accept_callback when bufferevent_socket_new fails.
Refuse(c) == /\ state[c] = "new"
             /\ state' = [state EXCEPT ![c] = "down"]
             /\ UNCHANGED <<inbox, outbox, owner, sends>>
             /\ UNCHANGED pool

\* A client that sent QUIT sends nothing more.
Send(c, m) == /\ state[c] = "open"
              /\ sends < MaxSends
              /\ inbox' = [inbox EXCEPT ![c] = Append(@, m)]
              /\ state' = [state EXCEPT ![c] = IF m = Quit THEN "closing" ELSE @]
              /\ sends' = sends + 1
              /\ UNCHANGED <<outbox, owner>>
              /\ UNCHANGED pool

\* The client closes its socket without a QUIT, or its process ends.
Hangup(c) == /\ state[c] = "open"
             /\ state' = [state EXCEPT ![c] = "closing"]
             /\ UNCHANGED <<inbox, outbox, owner, sends>>
             /\ UNCHANGED pool

-----------------------------------------------------------------------------
(* The list of plugins *)

Slot(a, p) == [bev |-> a, p |-> p]

\* konoha_plugin_get: the script is evaluated in the one name space of the
\* server and initPlugin is looked up there; evaluating no script leaves the
\* initPlugin of an earlier one.
Loaded(p) == IF p \in Loadable THEN p ELSE script

Made(p, a) == IF p = NULL THEN NULL ELSE [proc |-> p, bev |-> a]

\* Mutation: the array grows only once it is full.
GrownLate == IF Len(slots) > capacity THEN 2 * capacity ELSE capacity

\* The capacity after ARRAY_add.
Grown == IF Len(slots) + 1 >= capacity THEN 2 * capacity ELSE capacity

\* pool_add
PoolAdd(p, a) == /\ script' = Loaded(p)
                 /\ slots' = Append(slots, Slot(a, Made(script', a)))
                 /\ capacity' = Grown

\* Mutation: the loop leaves the list at the first blank slot.
RunsUpToBlank(c, l) ==
    {i \in DOMAIN slots : /\ \A j \in 1..i : slots[j].p # NULL
                          /\ l \in Accepts[slots[i].p.proc]
                          /\ owner[slots[i].p.bev] = c}

\* The plugins whose Response writes l to the bufferevent of c.
Runs(c, l) == {i \in DOMAIN slots : /\ slots[i].p # NULL
                                    /\ l \in Accepts[slots[i].p.proc]
                                    /\ owner[slots[i].p.bev] = c}

\* pool_exec, with the Apply of the plugins.
PoolExec(l) ==
    outbox' = [c \in Conn |->
                 outbox[c] \o [i \in 1..Cardinality(Runs(c, l)) |-> l]]

\* Mutation: one slot of the connection is blanked, the others are not.
PoolDeleteFirst(a) ==
    slots' = [i \in DOMAIN slots |->
                IF slots[i].bev = a /\ \A j \in 1..i-1 : slots[j].bev # a
                THEN Slot(NULL, NULL) ELSE slots[i]]

\* pool_delete_connection
PoolDeleteConnection(a) ==
    slots' = [i \in DOMAIN slots |->
                IF slots[i].bev = a THEN Slot(NULL, NULL) ELSE slots[i]]

-----------------------------------------------------------------------------
(* Callbacks of the connection c, whose bufferevent is at a *)

Handles(c, a, kind) == /\ owner[a] = c
                       /\ inbox[c] # <<>>
                       /\ Head(inbox[c]).kind = kind

HandleRead(c, a) ==
    /\ Handles(c, a, "read")
    /\ PoolAdd(Head(inbox[c]).proc, a)
    /\ readers' = Append(readers, c)
    /\ inbox' = [inbox EXCEPT ![c] = Tail(@)]
    /\ UNCHANGED <<state, outbox, owner, sends>>

HandleWrite(c, a) ==
    /\ Handles(c, a, "write")
    /\ PoolExec(Head(inbox[c]).log)
    /\ inbox' = [inbox EXCEPT ![c] = Tail(@)]
    /\ UNCHANGED <<state, owner, sends>>
    /\ UNCHANGED pool

\* pool_delete_connection and bufferevent_free; what is left in the input of
\* the bufferevent goes with it.
Release(c, a) == /\ PoolDeleteConnection(a)
                 /\ owner' = [owner EXCEPT ![a] = NULL]
                 /\ state' = [state EXCEPT ![c] = "down"]
                 /\ inbox' = [inbox EXCEPT ![c] = <<>>]
                 /\ UNCHANGED <<outbox, script, capacity, readers, sends>>

\* Mutation: the loop is left on QUIT without bufferevent_free.
HandleQuitKeeps(c, a) ==
    /\ Handles(c, a, "quit")
    /\ state' = [state EXCEPT ![c] = "down"]
    /\ inbox' = [inbox EXCEPT ![c] = <<>>]
    /\ UNCHANGED <<outbox, owner, sends>>
    /\ UNCHANGED pool

HandleQuit(c, a) == Handles(c, a, "quit") /\ Release(c, a)

\* server_event_callback with BEV_EVENT_EOF, once the input was handled.
Eof(c, a) == /\ owner[a] = c
             /\ state[c] = "closing"
             /\ inbox[c] = <<>>
             /\ Release(c, a)

\* server_event_callback with BEV_EVENT_ERROR, at any time.
Error(c, a) == owner[a] = c /\ Release(c, a)

\* What the event loop does as soon as the socket is readable.
Callback(c) == \E a \in Bev : \/ HandleRead(c, a)
                              \/ HandleWrite(c, a)
                              \/ HandleQuit(c, a)
                              \/ Eof(c, a)

Next == \E c \in Conn :
          \/ \E a \in Bev : Accept(c, a)
          \/ Refuse(c)
          \/ \E m \in Message : Send(c, m)
          \/ Hangup(c)
          \/ \E a \in Bev : HandleRead(c, a)
          \/ \E a \in Bev : HandleWrite(c, a)
          \/ \E a \in Bev : HandleQuit(c, a)
          \/ \E a \in Bev : Eof(c, a)
          \/ \E a \in Bev : Error(c, a)

Spec == Init /\ [][Next]_vars

\* The event loop gets to every connection that has something to read.
FairSpec == Spec /\ \A c \in Conn : WF_vars(Callback(c))

-----------------------------------------------------------------------------
(* Properties *)

States == {"new", "open", "closing", "down"}

\* The shapes of the variables.
TypeOK == /\ state \in [Conn -> States]
          /\ inbox \in [Conn -> Seq(Message)]
          /\ outbox \in [Conn -> Seq(Log)]
          /\ owner \in [Bev -> Conn \cup {NULL}]
          /\ script \in Procedure \cup {NULL}
          /\ slots \in Seq([bev : Bev \cup {NULL}, p : Plugin \cup {NULL}])
          /\ capacity \in Nat
          /\ readers \in Seq(Conn)
          /\ sends \in Nat

Blank == Slot(NULL, NULL)

\* A slot is blank as soon as the connection that asked for it is gone, and
\* until then it and the Response of its plugin hold the bufferevent of that
\* very connection: pool_exec never writes to a bufferevent that was freed,
\* nor to a later connection whose bufferevent has the same address.
SlotsLive ==
    \A i \in DOMAIN slots :
      \/ slots[i] = Blank /\ state[readers[i]] = "down"
      \/ /\ slots[i].bev # NULL /\ owner[slots[i].bev] = readers[i]
         /\ slots[i].p # NULL => slots[i].p.bev = slots[i].bev

\* ARRAY_add never writes behind the end of the list, which is never more
\* than twice as long as what was added to it needs.
ListBounds == /\ Len(slots) <= capacity
              /\ capacity \in {InitialCapacity} \cup 0 .. 2 * Len(slots)

\* The bufferevent of every connection that leaves, with a QUIT or without,
\* is freed in the end.
Released ==
    \A c \in Conn : state[c] = "closing" ~> \A a \in Bev : owner[a] # c

\* Slots, blanks and bufferevents implement subscriptions: a connection is
\* sent what it asked for and nothing else.
Served == {c \in Conn : \E a \in Bev : owner[a] = c}
Live   == {i \in DOMAIN slots : slots[i].p # NULL}
Subscription(i) == [id |-> i, conn |-> owner[slots[i].p.bev],
                    proc |-> slots[i].p.proc]
Subscriptions == {Subscription(i) : i \in Live}
Clients == INSTANCE PubSub
    WITH open <- Served, asked <- Len(slots), subs <- Subscriptions, feed <- outbox
ImplementsPubSub == Clients!Spec
=============================================================================
