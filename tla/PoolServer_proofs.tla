-------------------------- MODULE PoolServer_proofs --------------------------
(***************************************************************************)
(* Proofs about PoolServer for any number of connections, addresses and    *)
(* messages, any procedures, and any initial capacity of the list.         *)
(***************************************************************************)
EXTENDS PoolServer, FiniteSetTheorems, TLAPS

-----------------------------------------------------------------------------
(* The inductive invariant *)

\* A connection is served with at most one bufferevent, and only while its
\* client has not been refused or released.
OneBev == /\ \A a, b \in Bev : owner[a] # NULL /\ owner[a] = owner[b] => a = b
          /\ \A a \in Bev : owner[a] # NULL => state[owner[a]] \in {"open", "closing"}

\* The list always has room for one element more than it holds.
Room == /\ Len(slots) < capacity
        /\ capacity = InitialCapacity \/ capacity <= 2 * Len(slots)

\* SlotsLive speaks of readers[i] for every slot, so the two sequences have
\* to be of one length; that a release blanks every slot of its connection
\* needs OneBev.
IInv == /\ TypeOK
        /\ OneBev
        /\ Room
        /\ Len(readers) = Len(slots)
        /\ SlotsLive

\* NULL is none of the things it stands in for.
LEMMA NullDiffers == /\ \A c \in Conn : c # NULL
                     /\ \A a \in Bev : a # NULL
                     /\ \A p \in Procedure : p # NULL
BY NullAssumption

\* What a message of each kind carries.
LEMMA MessageFields ==
  ASSUME NEW m \in Message
  PROVE  /\ m.kind = "read" => m.proc \in Procedure
         /\ m.kind = "write" => m.log \in Log
         /\ m = Quit <=> m.kind = "quit"
BY DEF Message, Read, Write, Quit

LEMMA InboxHead ==
  ASSUME TypeOK, NEW c \in Conn, inbox[c] # <<>>
  PROVE  /\ Head(inbox[c]) \in Message
         /\ Tail(inbox[c]) \in Seq(Message)
<1>1. inbox[c] \in Seq(Message)
  BY DEF TypeOK
<1> QED
  BY <1>1

LEMMA SlotFields ==
  ASSUME TypeOK, NEW i \in DOMAIN slots
  PROVE  /\ i \in 1..Len(slots)
         /\ slots[i].bev \in Bev \cup {NULL}
         /\ slots[i].p \in Plugin \cup {NULL}
         /\ slots[i] = Slot(slots[i].bev, slots[i].p)
         /\ slots[i].p # NULL => slots[i].p.proc \in Procedure /\ slots[i].p.bev \in Bev
<1> DEFINE T == [bev : Bev \cup {NULL}, p : Plugin \cup {NULL}]
<1>0. slots \in Seq(T)
  BY DEF TypeOK
<1> HIDE DEF T
<1>1. i \in 1..Len(slots) /\ slots[i] \in T
  BY <1>0
<1> USE DEF T
<1>2. slots[i].bev \in Bev \cup {NULL} /\ slots[i].p \in Plugin \cup {NULL}
  BY <1>1
<1>3. slots[i] = Slot(slots[i].bev, slots[i].p)
  BY <1>1 DEF Slot
<1>4. slots[i].p # NULL => slots[i].p.proc \in Procedure /\ slots[i].p.bev \in Bev
  BY <1>2 DEF Plugin
<1> QED
  BY <1>1, <1>2, <1>3, <1>4

LEMMA ReaderType ==
  ASSUME TypeOK, Len(readers) = Len(slots), NEW i \in DOMAIN slots
  PROVE  readers[i] \in Conn
<1>1. i \in 1..Len(readers) /\ readers \in Seq(Conn)
  BY DEF TypeOK
<1> QED
  BY <1>1

-----------------------------------------------------------------------------
(* Every step preserves the type invariant *)

LEMMA InitType == Init => TypeOK
<1> SUFFICES ASSUME Init PROVE TypeOK
  OBVIOUS
<1>1. /\ <<>> \in Seq(Message) /\ <<>> \in Seq(Log) /\ <<>> \in Seq(Conn)
      /\ <<>> \in Seq([bev : Bev \cup {NULL}, p : Plugin \cup {NULL}])
  OBVIOUS
<1>2. /\ inbox \in [Conn -> Seq(Message)] /\ outbox \in [Conn -> Seq(Log)]
      /\ state \in [Conn -> States] /\ owner \in [Bev -> Conn \cup {NULL}]
  BY <1>1, Zenon DEF Init, States
<1>3. capacity \in Nat /\ sends \in Nat
  BY CapacityAssumption DEF Init
<1>4. script \in Procedure \cup {NULL}
  BY DEF Init
<1>5. slots = <<>> /\ readers = <<>>
  BY DEF Init
<1> QED
  BY <1>1, <1>2, <1>3, <1>4, <1>5, Zenon DEF TypeOK

\* Blanking slots leaves a list of slots of the same length.
LEMMA PoolDeleteType ==
  ASSUME TypeOK, NEW a \in Bev, PoolDeleteConnection(a)
  PROVE  /\ slots' \in Seq([bev : Bev \cup {NULL}, p : Plugin \cup {NULL}])
         /\ Len(slots') = Len(slots)
         /\ DOMAIN slots' = DOMAIN slots
<1> DEFINE T == [bev : Bev \cup {NULL}, p : Plugin \cup {NULL}]
           P == [i \in DOMAIN slots |-> slots[i].bev = a]
           blank == Slot(NULL, NULL)
<1>1. blank \in T /\ slots \in Seq(T)
  BY DEF Slot, TypeOK
<1>2. P \in [DOMAIN slots -> BOOLEAN]
  BY Zenon
<1>3. slots' = [i \in DOMAIN slots |-> IF P[i] THEN blank ELSE slots[i]]
  BY DEF PoolDeleteConnection
<1> HIDE DEF P, T, blank
<1>4. slots' \in Seq(T) /\ Len(slots') = Len(slots)
  BY <1>1, <1>2, <1>3
<1>5. DOMAIN slots' = DOMAIN slots
  BY <1>3, Zenon
<1> QED
  BY <1>4, <1>5 DEF T

LEMMA ReleaseType ==
  ASSUME TypeOK, NEW c \in Conn, NEW a \in Bev, Release(c, a)
  PROVE  TypeOK'
<1>1. slots' \in Seq([bev : Bev \cup {NULL}, p : Plugin \cup {NULL}])
  BY PoolDeleteType DEF Release
<1>2. inbox' \in [Conn -> Seq(Message)]
  BY DEF TypeOK, Release
<1> QED
  BY <1>1, <1>2 DEF TypeOK, Release, States

LEMMA ReadType ==
  ASSUME TypeOK, NEW c \in Conn, NEW a \in Bev, HandleRead(c, a)
  PROVE  TypeOK'
<1>1. Head(inbox[c]).proc \in Procedure /\ Tail(inbox[c]) \in Seq(Message)
  BY InboxHead, MessageFields DEF HandleRead, Handles
<1>2. script' \in Procedure \cup {NULL}
  BY <1>1 DEF HandleRead, PoolAdd, Loaded, TypeOK
<1>3. Slot(a, Made(script', a)) \in [bev : Bev \cup {NULL}, p : Plugin \cup {NULL}]
  BY <1>2 DEF Slot, Made, Plugin
<1>4. slots' \in Seq([bev : Bev \cup {NULL}, p : Plugin \cup {NULL}])
  BY <1>3 DEF HandleRead, PoolAdd, TypeOK
<1>5. capacity' \in Nat
  BY DEF HandleRead, PoolAdd, Grown, TypeOK
<1>6. readers' \in Seq(Conn)
  BY DEF HandleRead, TypeOK
<1>7. inbox' \in [Conn -> Seq(Message)]
  BY <1>1 DEF HandleRead, TypeOK
<1> QED
  BY <1>2, <1>4, <1>5, <1>6, <1>7 DEF HandleRead, TypeOK

LEMMA RunsFinite ==
  ASSUME TypeOK, NEW c, NEW l
  PROVE  IsFiniteSet(Runs(c, l)) /\ Cardinality(Runs(c, l)) \in Nat
<1>1. Len(slots) \in Nat /\ DOMAIN slots = 1..Len(slots)
  BY DEF TypeOK
<1>2. IsFiniteSet(1..Len(slots))
  BY <1>1, FS_Interval
<1>3. Runs(c, l) \in SUBSET (1..Len(slots))
  BY <1>1 DEF Runs
<1>4. IsFiniteSet(Runs(c, l))
  BY <1>2, <1>3, FS_Subset
<1> QED
  BY <1>4, FS_CardinalityType

LEMMA WriteType ==
  ASSUME TypeOK, NEW c \in Conn, NEW a \in Bev, HandleWrite(c, a)
  PROVE  TypeOK'
<1>1. Head(inbox[c]).log \in Log /\ Tail(inbox[c]) \in Seq(Message)
  BY InboxHead, MessageFields DEF HandleWrite, Handles
<1>2. ASSUME NEW d \in Conn, NEW l \in Log
      PROVE  outbox[d] \o [i \in 1..Cardinality(Runs(d, l)) |-> l] \in Seq(Log)
  <2>1. [i \in 1..Cardinality(Runs(d, l)) |-> l] \in Seq(Log)
    BY RunsFinite
  <2>2. outbox[d] \in Seq(Log)
    BY DEF TypeOK
  <2> QED
    BY <2>1, <2>2
<1>3. outbox' \in [Conn -> Seq(Log)]
  BY <1>1, <1>2 DEF HandleWrite, PoolExec
<1>4. inbox' \in [Conn -> Seq(Message)]
  BY <1>1 DEF HandleWrite, TypeOK
<1> QED
  BY <1>3, <1>4 DEF HandleWrite, TypeOK, pool

LEMMA SendType ==
  ASSUME TypeOK, NEW c \in Conn, NEW m \in Message, Send(c, m)
  PROVE  TypeOK'
<1>1. inbox' \in [Conn -> Seq(Message)]
  BY DEF Send, TypeOK
<1>2. state' \in [Conn -> States]
  BY DEF Send, TypeOK, States
<1> QED
  BY <1>1, <1>2 DEF Send, TypeOK, pool

LEMMA NextType == TypeOK /\ [Next]_vars => TypeOK'
<1> SUFFICES ASSUME TypeOK, [Next]_vars PROVE TypeOK'
  OBVIOUS
<1>1. ASSUME NEW c \in Conn, NEW a \in Bev, Accept(c, a) PROVE TypeOK'
  BY <1>1 DEF Accept, TypeOK, States, pool
<1>2. ASSUME NEW c \in Conn, Refuse(c) PROVE TypeOK'
  BY <1>2 DEF Refuse, TypeOK, States, pool
<1>3. ASSUME NEW c \in Conn, Hangup(c) PROVE TypeOK'
  BY <1>3 DEF Hangup, TypeOK, States, pool
<1>4. ASSUME NEW c \in Conn, NEW a \in Bev,
             HandleQuit(c, a) \/ Eof(c, a) \/ Error(c, a)
      PROVE  TypeOK'
  BY <1>4, ReleaseType DEF HandleQuit, Eof, Error
<1>5. CASE UNCHANGED vars
  BY <1>5 DEF vars, TypeOK
<1> QED
  BY <1>1, <1>2, <1>3, <1>4, <1>5, SendType, ReadType, WriteType DEF Next

-----------------------------------------------------------------------------
(* Every step preserves the rest *)

\* The steps that leave the list and the bufferevents alone.
LEMMA QuietInv ==
  ASSUME IInv, UNCHANGED <<owner, slots, capacity, readers>>, TypeOK',
         NEW c \in Conn,
         \/ state' = state
         \/ state[c] = "open" /\ state' = [state EXCEPT ![c] = "closing"]
         \/ state[c] = "new" /\ state' = [state EXCEPT ![c] = "down"]
  PROVE  IInv'
<1> USE DEF IInv
<1>1. state \in [Conn -> States] /\ owner \in [Bev -> Conn \cup {NULL}]
  BY DEF TypeOK
<1>2. OneBev'
  BY <1>1 DEF OneBev
<1>3. Room' /\ (Len(readers) = Len(slots))'
  BY DEF Room
<1>4. \A i \in DOMAIN slots : readers[i] \in Conn
  BY ReaderType
<1>5. SlotsLive'
  BY <1>1, <1>4 DEF SlotsLive, Blank
<1> QED
  BY <1>2, <1>3, <1>5

LEMMA AcceptInv ==
  ASSUME IInv, TypeOK', NEW c \in Conn, NEW a \in Bev, Accept(c, a)
  PROVE  IInv'
<1> USE DEF IInv
<1>1. state \in [Conn -> States] /\ owner \in [Bev -> Conn \cup {NULL}]
  BY DEF TypeOK
<1>2. OneBev'
  BY <1>1, NullDiffers DEF OneBev, Accept
<1>3. Room' /\ (Len(readers) = Len(slots))'
  BY DEF Room, Accept, pool
<1>4. \A i \in DOMAIN slots : readers[i] \in Conn /\ slots[i].bev \in Bev \cup {NULL}
  BY SlotFields, ReaderType
<1>5. SlotsLive'
  BY <1>1, <1>4, NullDiffers DEF SlotsLive, Blank, Accept, pool
<1> QED
  BY <1>2, <1>3, <1>5

LEMMA ReleaseInv ==
  ASSUME IInv, TypeOK', NEW c \in Conn, NEW a \in Bev, owner[a] = c, Release(c, a)
  PROVE  IInv'
<1> USE DEF IInv
<1>1. state \in [Conn -> States] /\ owner \in [Bev -> Conn \cup {NULL}]
  BY DEF TypeOK
<1>2. owner' = [owner EXCEPT ![a] = NULL] /\ state' = [state EXCEPT ![c] = "down"]
  BY DEF Release
<1>3. DOMAIN slots' = DOMAIN slots /\ Len(slots') = Len(slots)
  BY PoolDeleteType DEF Release
<1>4. OneBev'
  BY <1>1, <1>2, NullDiffers DEF OneBev
<1>5. Room'
  BY <1>3 DEF Room, Release
<1>6. (Len(readers) = Len(slots))'
  BY <1>3 DEF Release
<1>7. ASSUME NEW i \in DOMAIN slots
      PROVE  \/ slots'[i] = Blank /\ state'[readers[i]] = "down"
             \/ /\ slots'[i].bev # NULL /\ owner'[slots'[i].bev] = readers[i]
                /\ slots'[i].p # NULL => slots'[i].p.bev = slots'[i].bev
  <2>1. readers[i] \in Conn /\ slots[i].bev \in Bev \cup {NULL}
    BY SlotFields, ReaderType
  <2>2. slots'[i] = IF slots[i].bev = a THEN Blank ELSE slots[i]
    BY DEF Release, PoolDeleteConnection, Blank
  <2>3. \/ slots[i] = Blank /\ state[readers[i]] = "down"
        \/ /\ slots[i].bev # NULL /\ owner[slots[i].bev] = readers[i]
           /\ slots[i].p # NULL => slots[i].p.bev = slots[i].bev
    BY DEF SlotsLive
  <2>4. CASE slots[i].bev = a
    BY <1>1, <1>2, <2>1, <2>2, <2>3, <2>4, NullDiffers DEF Blank, Slot
  <2>5. CASE slots[i].bev # a
    BY <1>1, <1>2, <2>1, <2>2, <2>3, <2>5
  <2> QED
    BY <2>4, <2>5
<1>8. readers' = readers
  BY DEF Release
<1>9. SlotsLive'
  BY <1>3, <1>7, <1>8 DEF SlotsLive, Blank
<1> QED
  BY <1>4, <1>5, <1>6, <1>9

\* ARRAY_add keeps room for one more.
LEMMA GrownRoom ==
  ASSUME NEW n \in Nat, NEW cap \in Nat, NEW new \in Nat,
         n < cap, cap = InitialCapacity \/ cap <= 2 * n,
         new = IF n + 1 >= cap THEN 2 * cap ELSE cap
  PROVE  n + 1 < new /\ (new = InitialCapacity \/ new <= 2 * (n + 1))
OBVIOUS

LEMMA ReadInv ==
  ASSUME IInv, TypeOK', NEW c \in Conn, NEW a \in Bev, HandleRead(c, a)
  PROVE  IInv'
<1> USE DEF IInv
<1>1. /\ owner[a] = c /\ UNCHANGED <<owner, state>>
      /\ slots' = Append(slots, Slot(a, Made(script', a)))
      /\ readers' = Append(readers, c)
      /\ capacity' = Grown
  BY DEF HandleRead, Handles, PoolAdd
<1>2. /\ Len(slots) \in Nat /\ capacity \in Nat /\ capacity' \in Nat
      /\ slots \in Seq([bev : Bev \cup {NULL}, p : Plugin \cup {NULL}])
      /\ readers \in Seq(Conn)
      /\ Slot(a, Made(script', a)) \in [bev : Bev \cup {NULL}, p : Plugin \cup {NULL}]
  <2>1. script' \in Procedure \cup {NULL}
    BY DEF TypeOK
  <2>2. Slot(a, Made(script', a)) \in [bev : Bev \cup {NULL}, p : Plugin \cup {NULL}]
    BY <2>1 DEF Slot, Made, Plugin
  <2> QED
    BY <2>2 DEF TypeOK
<1>3. Len(slots') = Len(slots) + 1 /\ Len(readers') = Len(readers) + 1
  BY <1>1, <1>2
<1>4. OneBev'
  BY <1>1 DEF OneBev
<1>5. Room'
  <2>1. Len(slots) < capacity /\ (capacity = InitialCapacity \/ capacity <= 2 * Len(slots))
    BY DEF Room
  <2>2. capacity' = IF Len(slots) + 1 >= capacity THEN 2 * capacity ELSE capacity
    BY <1>1 DEF Grown
  <2>3. /\ Len(slots) + 1 < capacity'
        /\ capacity' = InitialCapacity \/ capacity' <= 2 * (Len(slots) + 1)
    BY <1>2, <2>1, <2>2, GrownRoom
  <2> QED
    BY <1>3, <2>3 DEF Room
<1>6. (Len(readers) = Len(slots))'
  BY <1>3
<1>7. SlotsLive'
  <2> SUFFICES ASSUME NEW i \in DOMAIN slots'
               PROVE  \/ slots'[i] = Blank /\ state[readers'[i]] = "down"
                      \/ /\ slots'[i].bev # NULL /\ owner[slots'[i].bev] = readers'[i]
                         /\ slots'[i].p # NULL => slots'[i].p.bev = slots'[i].bev
    BY <1>1 DEF SlotsLive, Blank
  <2>1. i \in 1..Len(slots) \/ i = Len(slots) + 1
    BY <1>1, <1>2, <1>3
  <2>2. CASE i \in 1..Len(slots)
    <3>1. slots'[i] = slots[i] /\ readers'[i] = readers[i] /\ i \in DOMAIN slots
      BY <1>1, <1>2, <2>2
    <3> QED
      BY <3>1 DEF SlotsLive
  <2>3. CASE i = Len(slots) + 1
    <3>1. slots'[i] = Slot(a, Made(script', a)) /\ readers'[i] = c
      BY <1>1, <1>2, <2>3
    <3> QED
      BY <1>1, <3>1, NullDiffers DEF Slot, Made
  <2> QED
    BY <2>1, <2>2, <2>3
<1> QED
  BY <1>4, <1>5, <1>6, <1>7

LEMMA InitInv == Init => IInv
<1> SUFFICES ASSUME Init PROVE IInv
  OBVIOUS
<1>1. TypeOK
  BY InitType
<1>2. OneBev
  BY DEF Init, OneBev
<1>3. slots = <<>> /\ readers = <<>> /\ Len(slots) = 0 /\ Len(readers) = 0
  BY DEF Init
<1>4. Room
  BY <1>3, CapacityAssumption DEF Init, Room
<1>5. SlotsLive
  BY <1>3 DEF SlotsLive
<1> QED
  BY <1>1, <1>2, <1>3, <1>4, <1>5 DEF IInv

LEMMA NextInv == IInv /\ [Next]_vars => IInv'
<1> SUFFICES ASSUME IInv, [Next]_vars PROVE IInv'
  OBVIOUS
<1>1. TypeOK'
  BY NextType DEF IInv
<1>2. ASSUME NEW c \in Conn, NEW m \in Message, Send(c, m) PROVE IInv'
  <2>1. \/ state' = state
        \/ state[c] = "open" /\ state' = [state EXCEPT ![c] = "closing"]
    BY <1>2 DEF Send, IInv, TypeOK
  <2> QED
    BY <1>1, <1>2, <2>1, QuietInv DEF Send, pool
<1>3. ASSUME NEW c \in Conn, Refuse(c) \/ Hangup(c) PROVE IInv'
  BY <1>1, <1>3, QuietInv DEF Refuse, Hangup, pool
<1>4. ASSUME NEW c \in Conn, NEW a \in Bev, HandleWrite(c, a) PROVE IInv'
  BY <1>1, <1>4, QuietInv DEF HandleWrite, pool
<1>5. ASSUME NEW c \in Conn, NEW a \in Bev,
             HandleQuit(c, a) \/ Eof(c, a) \/ Error(c, a)
      PROVE  IInv'
  BY <1>1, <1>5, ReleaseInv DEF HandleQuit, Handles, Eof, Error
<1>6. CASE UNCHANGED vars
  BY <1>6 DEF vars, IInv, TypeOK, OneBev, Room, SlotsLive, Blank
<1> QED
  BY <1>1, <1>2, <1>3, <1>4, <1>5, <1>6, AcceptInv, ReadInv DEF Next

-----------------------------------------------------------------------------
(* The list implements subscriptions *)

\* What a slot with a plugin stands for.
LEMMA LiveSlot ==
  ASSUME IInv, NEW i \in Live
  PROVE  /\ i \in DOMAIN slots /\ i \in 1..Len(slots) /\ i \in Nat
         /\ slots[i].p.proc \in Procedure
         /\ slots[i].p.bev \in Bev
         /\ slots[i].p.bev = slots[i].bev
         /\ owner[slots[i].p.bev] = readers[i]
         /\ readers[i] \in Conn
<1>1. i \in DOMAIN slots /\ slots[i].p # NULL
  BY DEF Live
<1>2. TypeOK /\ SlotsLive /\ Len(readers) = Len(slots)
  BY DEF IInv
<1>3. slots[i] # Blank
  BY <1>1 DEF Blank, Slot
<1>4. slots[i].p.bev = slots[i].bev /\ owner[slots[i].bev] = readers[i]
  BY <1>1, <1>2, <1>3 DEF SlotsLive
<1> QED
  BY <1>1, <1>2, <1>4, SlotFields, ReaderType

\* The abstract module counts with its own instance of FiniteSets.
LEMMA SameCardinality == ASSUME NEW S PROVE Clients!Cardinality(S) = Cardinality(S)
BY Zenon DEF Cardinality, Clients!Cardinality

\* As many subscriptions let l through to d as plugins that run for it.
LEMMA ReceiversRuns ==
  ASSUME IInv, NEW d \in Conn, NEW l
  PROVE  Cardinality(Clients!Receivers(d, l)) = Cardinality(Runs(d, l))
<1> DEFINE R == Runs(d, l)
           S == Clients!Receivers(d, l)
           f == [i \in R |-> Subscription(i)]
<1>1. R \subseteq Live
  BY DEF Runs, Live
<1>2. ASSUME NEW i \in Live
      PROVE  /\ Subscription(i).id = i
             /\ Subscription(i).conn = owner[slots[i].p.bev]
             /\ Subscription(i).proc = slots[i].p.proc
  BY DEF Subscription
<1>3. ASSUME NEW i \in Live
      PROVE  i \in R <=> Subscription(i) \in S
  BY <1>2 DEF Runs, Live, Clients!Receivers, Subscriptions
<1>4. f \in [R -> S]
  BY <1>1, <1>3
<1>5. \A i, j \in R : f[i] = f[j] => i = j
  BY <1>1, <1>2
<1>6. \A s \in S : \E i \in R : f[i] = s
  BY <1>1, <1>3 DEF Clients!Receivers, Subscriptions
<1> HIDE DEF R, S, f
<1>7. f \in Injection(R, S) /\ f \in Surjection(R, S)
  BY <1>4, <1>5, <1>6 DEF Injection, Surjection, IsInjective
<1>9. ExistsBijection(R, S)
  BY <1>7 DEF ExistsBijection, Bijection
<1> USE DEF R, S
<1>8. IsFiniteSet(R)
  BY RunsFinite DEF IInv
<1> QED
  BY <1>8, <1>9, FS_Bijection

\* A step that leaves owner and slots alone leaves the subscriptions alone.
LEMMA QuietMap ==
  ASSUME UNCHANGED <<owner, slots>>
  PROVE  UNCHANGED <<Served, Len(slots), Subscriptions>>
BY DEF Served, Subscriptions, Subscription, Live

LEMMA AcceptMap ==
  ASSUME IInv, NEW c \in Conn, NEW a \in Bev, Accept(c, a)
  PROVE  Clients!Open(c)
<1>1. owner \in [Bev -> Conn \cup {NULL}]
  BY DEF IInv, TypeOK
<1>2. owner[a] = NULL /\ owner' = [owner EXCEPT ![a] = c] /\ UNCHANGED <<slots, outbox>>
  BY DEF Accept, pool
<1>3. Served' = Served \cup {c}
  BY <1>1, <1>2, NullDiffers DEF Served
<1>4. Live' = Live
  BY <1>2 DEF Live
<1>5. ASSUME NEW i \in Live PROVE Subscription(i)' = Subscription(i)
  <2>1. slots[i].p.bev # a
    BY <1>2, LiveSlot, NullDiffers
  <2> QED
    BY <1>1, <1>2, <2>1, LiveSlot DEF Subscription
<1>6. Subscriptions' = Subscriptions
  BY <1>4, <1>5 DEF Subscriptions
<1> QED
  BY <1>2, <1>3, <1>6 DEF Clients!Open

LEMMA ReleaseMap ==
  ASSUME IInv, NEW c \in Conn, NEW a \in Bev, owner[a] = c, Release(c, a)
  PROVE  Clients!Close(c)
<1>1. owner \in [Bev -> Conn \cup {NULL}] /\ TypeOK /\ OneBev
  BY DEF IInv, TypeOK
<1>2. owner' = [owner EXCEPT ![a] = NULL] /\ outbox' = outbox
  BY DEF Release
<1>3. /\ DOMAIN slots' = DOMAIN slots /\ Len(slots') = Len(slots)
      /\ \A i \in DOMAIN slots :
           slots'[i] = IF slots[i].bev = a THEN Slot(NULL, NULL) ELSE slots[i]
  BY <1>1, PoolDeleteType DEF Release, PoolDeleteConnection
<1>4. Served' = Served \ {c}
  BY <1>1, <1>2, NullDiffers DEF Served, OneBev
<1>5. Live' = {i \in Live : slots[i].bev # a}
  BY <1>3 DEF Live, Slot
<1>6. ASSUME NEW i \in Live
      PROVE  /\ slots[i].bev # a <=> Subscription(i).conn # c
             /\ slots[i].bev # a => Subscription(i)' = Subscription(i)
  <2>1. /\ slots[i].p.bev = slots[i].bev /\ slots[i].bev \in Bev
        /\ i \in DOMAIN slots /\ owner[slots[i].bev] = readers[i] /\ readers[i] \in Conn
    BY LiveSlot
  <2>2. Subscription(i).conn = owner[slots[i].bev]
    BY <2>1 DEF Subscription
  <2>3. slots[i].bev # a <=> Subscription(i).conn # c
    BY <1>1, <2>1, <2>2, NullDiffers DEF OneBev
  <2>4. ASSUME slots[i].bev # a PROVE Subscription(i)' = Subscription(i)
    <3>1. slots'[i] = slots[i] /\ owner'[slots[i].bev] = owner[slots[i].bev]
      BY <1>1, <1>2, <1>3, <2>1, <2>4
    <3> QED
      BY <2>1, <3>1 DEF Subscription
  <2> QED
    BY <2>3, <2>4
<1>7. Subscriptions' = {s \in Subscriptions : s.conn # c}
  <2>1. Subscriptions' = {Subscription(i)' : i \in Live'}
    BY DEF Subscriptions
  <2>2. \A i \in Live' : i \in Live /\ Subscription(i)' = Subscription(i)
                           /\ Subscription(i).conn # c
    BY <1>5, <1>6
  <2>3. \A i \in Live : Subscription(i).conn # c => i \in Live'
    BY <1>5, <1>6
  <2> QED
    BY <2>1, <2>2, <2>3 DEF Subscriptions
<1> QED
  BY <1>2, <1>3, <1>4, <1>7 DEF Clients!Close

LEMMA ReadMap ==
  ASSUME IInv, NEW c \in Conn, NEW a \in Bev, HandleRead(c, a)
  PROVE  Clients!Ask(c)
<1> DEFINE new == Slot(a, Made(script', a))
<1>1. /\ owner[a] = c /\ UNCHANGED <<owner, outbox>>
      /\ slots' = Append(slots, new)
  BY DEF HandleRead, Handles, PoolAdd
<1>2. script' \in Procedure \cup {NULL} /\ TypeOK
  BY ReadType DEF IInv, TypeOK
<1>3. /\ Len(slots) \in Nat /\ Len(slots') = Len(slots) + 1
      /\ DOMAIN slots = 1..Len(slots) /\ DOMAIN slots' = 1..Len(slots) + 1
      /\ \A i \in 1..Len(slots) : slots'[i] = slots[i]
      /\ slots'[Len(slots) + 1] = new
  <2> DEFINE T == [bev : Bev \cup {NULL}, p : Plugin \cup {NULL}]
  <2>1. slots \in Seq(T)
    BY <1>2 DEF TypeOK
  <2> HIDE DEF T, new
  <2> QED
    BY <1>1, <2>1
<1>4. c \in Served /\ Served' = Served
  BY <1>1 DEF Served
<1>5. \A i \in DOMAIN slots : Subscription(i)' = Subscription(i)
  BY <1>1, <1>3 DEF Subscription
<1>6. CASE script' = NULL
  <2>1. new.p = NULL
    BY <1>6 DEF Made, Slot
  <2>2. Live' = Live
    BY <1>3, <2>1 DEF Live
  <2>3. Subscriptions' = Subscriptions
    BY <1>5, <2>2 DEF Subscriptions, Live
  <2> QED
    BY <1>1, <1>3, <1>4, <2>3 DEF Clients!Ask
<1>7. CASE script' # NULL
  <2>1. new.p = [proc |-> script', bev |-> a] /\ new.p # NULL /\ script' \in Procedure
    BY <1>2, <1>7, NullPlugin DEF Made, Slot, Plugin
  <2>2. PICK n \in Nat : n = Len(slots) + 1
    BY <1>3
  <2>3. Live' = Live \cup {n}
    BY <1>3, <2>1, <2>2 DEF Live
  <2>4. Subscription(n)' = [id |-> n, conn |-> c, proc |-> script']
    BY <1>1, <1>3, <2>1, <2>2 DEF Subscription
  <2>5. Subscriptions'
          = Subscriptions \cup {[id |-> n, conn |-> c, proc |-> script']}
    <3>1. Subscriptions' = {Subscription(i)' : i \in Live'}
      BY DEF Subscriptions
    <3>2. \A i \in Live : Subscription(i)' = Subscription(i)
      BY <1>5 DEF Live
    <3> QED
      BY <2>3, <2>4, <3>1, <3>2 DEF Subscriptions
  <2> QED
    BY <1>1, <1>3, <1>4, <2>1, <2>2, <2>5 DEF Clients!Ask
<1> QED
  BY <1>6, <1>7

LEMMA WriteMap ==
  ASSUME IInv, NEW c \in Conn, NEW a \in Bev, HandleWrite(c, a)
  PROVE  \E l \in Log : Clients!Publish(l)
<1> DEFINE l == Head(inbox[c]).log
<1>1. l \in Log
  BY InboxHead, MessageFields DEF HandleWrite, Handles, IInv
<1>2. outbox' = [d \in Conn |->
                   outbox[d] \o [i \in 1..Cardinality(Runs(d, l)) |-> l]]
  BY DEF HandleWrite, PoolExec
<1>3. UNCHANGED <<Served, Len(slots), Subscriptions>>
  BY QuietMap DEF HandleWrite, pool
<1> HIDE DEF l
<1>4. outbox' = [d \in Conn |->
        outbox[d] \o Clients!Copies(l, Cardinality(Clients!Receivers(d, l)))]
  BY <1>2, ReceiversRuns DEF Clients!Copies
<1>5. Clients!Publish(l)
  BY <1>3, <1>4, SameCardinality DEF Clients!Publish
<1> QED
  BY <1>1, <1>5

LEMMA InitMap == Init => Clients!Init
<1> SUFFICES ASSUME Init PROVE Clients!Init
  OBVIOUS
<1>1. Served = {}
  BY NullDiffers DEF Init, Served
<1>2. Len(slots) = 0 /\ Subscriptions = {}
  BY DEF Init, Subscriptions, Live
<1> QED
  BY <1>1, <1>2 DEF Init, Clients!Init

LEMMA NextMap == IInv /\ [Next]_vars => [Clients!Next]_(Clients!vars)
<1> SUFFICES ASSUME IInv, [Next]_vars PROVE [Clients!Next]_(Clients!vars)
  OBVIOUS
<1>1. ASSUME NEW c \in Conn, NEW a \in Bev, Accept(c, a) PROVE Clients!Next
  BY <1>1, AcceptMap DEF Clients!Next
<1>2. ASSUME UNCHANGED <<owner, slots, outbox>> PROVE UNCHANGED Clients!vars
  BY <1>2, QuietMap DEF Clients!vars
<1>3. ASSUME NEW c \in Conn,
             \/ Refuse(c) \/ Hangup(c)
             \/ \E m \in Message : Send(c, m)
      PROVE  UNCHANGED Clients!vars
  BY <1>2, <1>3 DEF Refuse, Hangup, Send, pool
<1>4. ASSUME NEW c \in Conn, NEW a \in Bev, HandleRead(c, a) PROVE Clients!Next
  BY <1>4, ReadMap DEF Clients!Next
<1>5. ASSUME NEW c \in Conn, NEW a \in Bev, HandleWrite(c, a) PROVE Clients!Next
  BY <1>5, WriteMap DEF Clients!Next
<1>6. ASSUME NEW c \in Conn, NEW a \in Bev,
             HandleQuit(c, a) \/ Eof(c, a) \/ Error(c, a)
      PROVE  Clients!Next
  BY <1>6, ReleaseMap DEF HandleQuit, Handles, Eof, Error, Clients!Next
<1>7. CASE UNCHANGED vars
  BY <1>2, <1>7 DEF vars
<1> QED
  BY <1>1, <1>3, <1>4, <1>5, <1>6, <1>7 DEF Next

-----------------------------------------------------------------------------
(* Theorems *)

\* The inductive invariant holds in every reachable state.
THEOREM Invariance == Spec => []IInv
BY InitInv, NextInv, PTL DEF Spec

\* Type correctness.
THEOREM TypeCorrect == Spec => []TypeOK
<1>1. IInv => TypeOK
  BY DEF IInv
<1> QED
  BY <1>1, Invariance, PTL

\* No slot of the pool outlives the connection that asked for it, and none
\* refers to the bufferevent of another connection.
THEOREM SlotsCorrect == Spec => []SlotsLive
<1>1. IInv => SlotsLive
  BY DEF IInv
<1> QED
  BY <1>1, Invariance, PTL

\* ARRAY_add never writes behind the end of the list.
THEOREM BoundsCorrect == Spec => []ListBounds
<1>1. IInv => ListBounds
  BY DEF IInv, Room, ListBounds, TypeOK
<1> QED
  BY <1>1, Invariance, PTL

\* The server implements subscriptions: what a client is sent is what the
\* procedures it asked for let through, as often as it asked and in the order
\* in which the server handled the logs, until it leaves and not beyond.
THEOREM PubSubCorrect == Spec => ImplementsPubSub
BY InitMap, NextMap, Invariance, PTL DEF Spec, Clients!Spec, ImplementsPubSub
=============================================================================
