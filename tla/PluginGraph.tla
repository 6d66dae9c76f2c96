---------------------------- MODULE PluginGraph ----------------------------
(***************************************************************************)
(* plugins/pool: the plugins of a pool procedure.  A procedure, a C module *)
(* or a konoha script, clones plugins and hangs them into each other's     *)
(* apply and failed; pool_plugin_init then creates all that hang from the  *)
(* one it returns.  A log is given to that root and is handed on plugin by *)
(* plugin, each call with a state word that a Timer sets and a Statics     *)
(* reads.  All of this is nested calls of one thread: stack holds the      *)
(* calls still to be made.                                                 *)
(*                                                                         *)
(* The window of a Timer loses old logs as TimerWindow says, a React tells *)
(* changes as React says: here the one may lose any first part of its      *)
(* logs, and the other tell either.  A Close frees a connection, a Stream  *)
(* writes to one and, when it is disposed of, waits for its end.           *)
(***************************************************************************)
EXTENDS Naturals, Sequences, FiniteSets

CONSTANTS Plugins,   \* the structs POOL_PLUGIN_CLONE hands out
          Scripts,   \* the procedures: [api, ops]
          Logs,      \* what filters can tell of a log: sets of Features
          Data,      \* what the fexit of a Statics may return
          Unpassed,  \* what a konoha method may find in an argument not passed
          NULL, Nop, \* no plugin; pool_nop_plugin
          MaxLogs,   \* bound: logs given to the procedure
          MaxWindow  \* bound: logs in the window of a Timer

Kinds == {"print", "key", "val", "copy", "react", "timer", "statics",
          "create", "response", "close", "stream"}

\* The log has the key of a filter, its value, the trace name of a React.
Features == {"key", "val", "trace"}

ASSUME PluginsAssumption == NULL \notin Plugins /\ Nop \notin Plugins /\ NULL # Nop
ASSUME LogsAssumption    == Logs # {} /\ Logs \subseteq SUBSET Features
ASSUME DataAssumption    == Data \subseteq Nat /\ Unpassed \subseteq Nat
ASSUME BoundsAssumption  == MaxLogs \in Nat /\ MaxWindow \in Nat \ {0}

\* Operations of a procedure.
New(p, kind, flag) == [op |-> "new", p |-> p, kind |-> kind, flag |-> flag]
Hang(field, p, q)  == [op |-> field, p |-> p, q |-> q]
Return(p)          == [op |-> "return", p |-> p]

Flag      == Nat \X Nat \X Nat
Operation == [op : {"new"}, p : Plugins, kind : Kinds, flag : Flag]
               \cup [op : {"apply", "failed"}, p : Plugins, q : Plugins]
               \cup [op : {"return"}, p : Plugins]

\* The operations of s hang q into p.
Hangs(s, p, q) == \E i \in DOMAIN s.ops : /\ s.ops[i].op \in {"apply", "failed"}
                                          /\ s.ops[i].p = p
                                          /\ s.ops[i].q = q

ASSUME ScriptsAssumption == Scripts \subseteq [api : {"c", "konoha"}, ops : Seq(Operation)]

IsTimer(s, p) == \E i \in DOMAIN s.ops : s.ops[i].op = "new" /\ s.ops[i].p = p
                                         /\ s.ops[i].kind = "timer"

\* No Timer hangs below a Timer: S is what does.  LogList_append copies a log
\* with the link to the next one, which is another list's only there.
TimersApart(s) ==
    \E S \in SUBSET Plugins : \A p, q \in Plugins :
      Hangs(s, p, q) /\ (p \in S \/ IsTimer(s, p)) => q \in S /\ ~IsTimer(s, q)

ASSUME TimersAssumption == \A s \in Scripts : TimersApart(s)

\* The flags of a plugin that has none.
NoFlag == <<0, 0, 0>>

\* example/mod_cpuwatch.c; the window is both the apply and the failed of
\* the React.
CpuWatch ==
    [api |-> "c",
     ops |-> << New(0, "print", NoFlag), New(1, "val", NoFlag),
                New(2, "copy", NoFlag), New(3, "react", NoFlag),
                New(4, "timer", <<0, 1, 2>>), New(5, "statics", NoFlag),
                New(6, "response", NoFlag),
                Hang("apply", 0, 1), Hang("apply", 1, 2), Hang("apply", 2, 3),
                Hang("apply", 3, 4), Hang("failed", 3, 4),
                Hang("apply", 4, 5), Hang("apply", 5, 6), Return(0) >>]

\* example/mod_example1.c builds the same graph.
TidUsage == CpuWatch

\* The konoha script of example/cpuwatch.c.
QueryScript == [api |-> "konoha", ops |-> <<New(0, "response", NoFlag), Return(0)>>]

VARIABLES script,   \* the procedure, and what of it is still to run
          plugin,   \* the structs: [kind, inited, apply, failed, flag, mem]
          root,     \* what the procedure returned
          stack,    \* the calls still to be made: [f, p, e, s]
          window,   \* the list of each Timer
          context,  \* context of each Statics: none, open or closed (freed)
          bev,      \* the bufferevent of each Close (bev) and Stream (io->bev):
                    \* live, freed; quit: the QUIT of io_close is sent to the
                    \* server of a Stream; joined: the loop has ended after it
          phase,    \* build, run, dispose or crashed
          count,    \* history: logs given to the procedure
          made,     \* history: how often Create was run, by plugin
          misused,  \* history: Statics that used a context that is not open
          stale     \* history: pool_plugin_dispose has read freed memory

graph  == <<script, plugin, root, made>>
data   == <<window, context, bev, misused>>
vars   == <<script, plugin, root, stack, window, context, bev, phase, count,
            made, misused, stale>>

Unused == [kind |-> "none", inited |-> FALSE, apply |-> NULL, failed |-> NULL,
           flag |-> NoFlag, mem |-> "unused"]

Init == /\ script \in Scripts
        /\ plugin = [p \in Plugins |-> Unused]
        /\ root = NULL
        /\ stack = <<>>
        /\ window = [p \in Plugins |-> <<>>]
        /\ context = [p \in Plugins |-> "none"]
        /\ bev = [p \in Plugins |-> "live"]
        /\ phase = "build"
        /\ count = 0
        /\ made = [p \in Plugins |-> 0]
        /\ misused = {}
        /\ stale = FALSE

-----------------------------------------------------------------------------
\* The procedure.

Op(op) == phase = "build" /\ script.ops # <<>> /\ Head(script.ops).op = op

Advance == script' = [script EXCEPT !.ops = Tail(@)]

\* The flags of a Timer.  Timer.create is registered with three parameters
\* and reads a fourth.
Flags(flag) ==
    IF script.api = "konoha"
    THEN {[flag EXCEPT ![3] = word] : word \in Unpassed} ELSE {flag}

\* POOL_PLUGIN_CLONE, and the X.create of the konoha package
Clone == /\ Op("new")
         /\ LET op == Head(script.ops)
            IN  \E flag \in Flags(op.flag) :
                  plugin' = [plugin EXCEPT ![op.p] =
                               [Unused EXCEPT !.kind = op.kind, !.mem = "live",
                                              !.flag = flag]]
         /\ Advance
         /\ UNCHANGED <<root, stack, data, phase, count, made, stale>>

\* p->base.apply = &q->base, PoolPlugin.apply
SetApply == /\ Op("apply")
            /\ LET op == Head(script.ops)
               IN  plugin' = [plugin EXCEPT ![op.p].apply = op.q]
            /\ Advance
            /\ UNCHANGED <<root, stack, data, phase, count, made, stale>>

\* p->base.failed = &q->base, PoolPlugin.failed
SetFailed == /\ Op("failed")
             /\ LET op == Head(script.ops)
                IN  plugin' = [plugin EXCEPT ![op.p].failed = op.q]
             /\ Advance
             /\ UNCHANGED <<root, stack, data, phase, count, made, stale>>

Call(f, p, e, s) == [f |-> f, p |-> p, e |-> e, s |-> s]
Init_(p)         == Call("init", p, {}, 0)
Created(p)       == Call("created", p, {}, 0)
Dispose_(p)      == Call("dispose", p, {}, 0)
Free(p)          == Call("free", p, {}, 0)

\* return pool_plugin_init(p)
ReturnRoot == /\ Op("return")
              /\ root' = Head(script.ops).p
              /\ stack' = <<Init_(Head(script.ops).p)>>
              /\ phase' = "run"
              /\ Advance
              /\ UNCHANGED <<plugin, data, count, made, stale>>

-----------------------------------------------------------------------------
\* The calls.

Top == Head(stack)

\* The call to be made is f of a plugin of one of these kinds.
Calls(f, kinds) == /\ phase # "crashed"
                   /\ stack # <<>>
                   /\ Top.f = f
                   /\ Top.p \in Plugins
                   /\ plugin[Top.p].kind \in kinds

This == plugin[Top.p]

\* The function makes these calls and returns.
Makes(calls) == stack' = calls \o Tail(stack)

\* Mutation: the plugin calls itself, not its child.
ApplySelf(s) == Call("apply", Top.p, Top.e, s)

\* _p->apply->Apply(_p->apply, e, s)
Apply(s) == Call("apply", This.apply, Top.e, s)

\* Mutation: the flag is not looked at.
ToCreateAlways(p) == plugin[p].mem = "live"

\* pool_plugin_init.  A plugin that is created already is returned.
ToCreate(p) == ~plugin[p].inited

OrNop(p) == IF p = NULL THEN Nop ELSE p

\* The Create of p is waiting for those of its children.
BeingCreated(p) == \E i \in DOMAIN stack : stack[i].f = "created" /\ stack[i].p = p

Crash == /\ phase' = "crashed"
         /\ stack' = <<>>

\* p hangs below itself: its flag is set after the Create of its children only,
\* and the recursion has no end but that of the C stack.
PoolPluginInitLoops ==
    /\ Calls("init", Kinds)
    /\ BeingCreated(Top.p)
    /\ Crash
    /\ UNCHANGED <<graph, data, count, stale>>

\* The Create functions: all of them create apply, then failed.
PoolPluginInit ==
    /\ Calls("init", Kinds)
    /\ ~BeingCreated(Top.p)
    /\ IF ToCreate(Top.p)
       THEN /\ plugin' = [plugin EXCEPT ![Top.p].apply = OrNop(@),
                                        ![Top.p].failed = OrNop(@)]
            /\ made' = [made EXCEPT ![Top.p] = @ + 1]
            /\ Makes(<<Init_(OrNop(This.apply)), Init_(OrNop(This.failed)),
                       Created(Top.p)>>)
       ELSE /\ Makes(<<>>)
            /\ UNCHANGED <<plugin, made>>
    /\ UNCHANGED <<script, root, data, phase, count, stale>>

\* _p->flags |= 1; the list of a Timer and the map of a React are new.
PoolPluginCreated ==
    /\ Calls("created", Kinds)
    /\ plugin' = [plugin EXCEPT ![Top.p].inited = TRUE]
    /\ window' = [window EXCEPT ![Top.p] = <<>>]
    /\ Makes(<<>>)
    /\ UNCHANGED <<script, root, context, bev, misused, phase, count, made, stale>>

\* pool_nop_plugin: nothing is done, and nothing is freed.
NopPlugin == /\ phase # "crashed"
             /\ stack # <<>>
             /\ Top.p = Nop
             /\ Makes(<<>>)
             /\ UNCHANGED <<graph, data, phase, count, stale>>

\* pool_exec: every log begins with state 0.
PoolExec == /\ phase = "run"
            /\ stack = <<>>
            /\ count < MaxLogs
            /\ \E e \in Logs : stack' = <<Call("apply", root, e, 0)>>
            /\ count' = count + 1
            /\ UNCHANGED <<graph, data, phase, stale>>

\* What is done to freed memory: it goes unnoticed, or the process ends.
MayCrash == \/ Makes(<<>>) /\ UNCHANGED phase
            \/ Crash

\* The child is given a copy of the log, in a state of its own.
CopyApply == /\ Calls("apply", {"copy"})
             /\ Makes(<<Apply(0)>>)
             /\ UNCHANGED <<graph, data, phase, count, stale>>

\* Mutation: the state word is not handed on.
PrintStateLost == 0

PrintState == Top.s

PrintApply == /\ Calls("apply", {"print"})
              /\ Makes(<<Apply(PrintState)>>)
              /\ UNCHANGED <<graph, data, phase, count, stale>>

\* The key of a konoha KeyFilter is an argument that is not passed: it may
\* match or not.
KeyMatches(e) == IF script.api = "konoha" THEN BOOLEAN ELSE {"key" \in e}

KeyApply == /\ Calls("apply", {"key"})
            /\ \E match \in KeyMatches(Top.e) :
                 Makes(IF match THEN <<Apply(0)>> ELSE <<>>)
            /\ UNCHANGED <<graph, data, phase, count, stale>>

ValApply == /\ Calls("apply", {"val"})
            /\ Makes(IF {"key", "val"} \subseteq Top.e THEN <<Apply(0)>> ELSE <<>>)
            /\ UNCHANGED <<graph, data, phase, count, stale>>

\* The state word is whether the value has changed.
ReactApply ==
    /\ Calls("apply", {"react"})
    /\ IF "trace" \in Top.e
       THEN \/ Makes(<<Apply(1)>>)
            \/ Makes(<<Call("failed", This.failed, Top.e, 0)>>)
       ELSE Makes(<<>>)
    /\ UNCHANGED <<graph, data, phase, count, stale>>

\* LogList_append: the logs that are left, and the new one.
Appended(p, e) ==
    {Append(SubSeq(window[p], k, Len(window[p])), e) :
       k \in {k \in 1..(Len(window[p]) + 1) : Len(window[p]) - k + 2 <= MaxWindow}}

TimerApply ==
    /\ Calls("apply", {"timer"})
    /\ \E list \in Appended(Top.p, Top.e) :
         /\ window' = [window EXCEPT ![Top.p] = list]
         /\ Makes(<<Apply(This.flag[1])>>
                  \o [i \in DOMAIN list |->
                        Call("apply", This.apply, list[i], This.flag[2])]
                  \o <<Apply(This.flag[3])>>)
    /\ UNCHANGED <<graph, context, bev, misused, phase, count, stale>>

TimerFailed ==
    /\ Calls("failed", {"timer"})
    /\ \E list \in Appended(Top.p, Top.e) :
         window' = [window EXCEPT ![Top.p] = list]
    /\ Makes(<<>>)
    /\ UNCHANGED <<graph, context, bev, misused, phase, count, stale>>

Misuse(p) == misused' = misused \cup {p}

\* State 0: p->context = p->finit(p->context), a new context whatever
\* became of the last.
StaticsStart ==
    /\ Calls("apply", {"statics"})
    /\ Top.s = 0
    /\ IF context[Top.p] = "open" THEN Misuse(Top.p) ELSE UNCHANGED misused
    /\ context' = [context EXCEPT ![Top.p] = "open"]
    /\ Makes(<<>>)
    /\ UNCHANGED <<graph, window, bev, phase, count, stale>>

\* The function and the fexit of a konoha Statics take the konoha function that
\* they call from memory they have just allocated.
FromMalloc == script.api = "konoha"

\* State 1: p->function, on the context there is.
StaticsLog ==
    /\ Calls("apply", {"statics"})
    /\ Top.s = 1
    /\ IF context[Top.p] # "open" THEN Misuse(Top.p) ELSE UNCHANGED misused
    /\ IF FromMalloc THEN Crash
       ELSE Makes(<<>>) /\ UNCHANGED phase
    /\ UNCHANGED <<graph, window, context, bev, count, stale>>

\* State 2: p->fexit, which frees the context in the examples; the pointer
\* stays.  Its result says which child goes on; the failed one is applied
\* too.
StaticsFinish ==
    /\ Calls("apply", {"statics"})
    /\ Top.s = 2
    /\ IF context[Top.p] # "open" THEN Misuse(Top.p) ELSE UNCHANGED misused
    /\ context' = [context EXCEPT ![Top.p] = "closed"]
    /\ IF FromMalloc THEN Crash
       ELSE /\ \E d \in Data :
                 Makes(IF d # 0 THEN <<Apply(d)>>
                       ELSE <<Call("apply", This.failed, Top.e, 0)>>)
            /\ UNCHANGED phase
    /\ UNCHANGED <<graph, window, bev, count, stale>>

\* Any other state is reported, and taken for a result of 0.
StaticsError ==
    /\ Calls("apply", {"statics"})
    /\ Top.s \notin {0, 1, 2}
    /\ Makes(<<Call("apply", This.failed, Top.e, 0)>>)
    /\ UNCHANGED <<graph, data, phase, count, stale>>

\* finit, write_size, write_data and fexit make a log of their own.
CreateApply ==
    /\ Calls("apply", {"create"})
    /\ \E e \in Logs : Makes(<<Call("apply", This.apply, e, 0)>>)
    /\ UNCHANGED <<graph, data, phase, count, stale>>

\* The log is written to the client, too.
ResponseApply == /\ Calls("apply", {"response"})
                 /\ Makes(<<Apply(Top.s)>>)
                 /\ UNCHANGED <<graph, data, phase, count, stale>>

ResponseFailed == /\ Calls("failed", {"response"})
                  /\ Makes(<<Call("apply", This.failed, Top.e, Top.s)>>)
                  /\ UNCHANGED <<graph, data, phase, count, stale>>

\* The connection is freed, for the first log; nobody is called.  The pointer
\* stays, and the next log frees it again.
CloseApply ==
    /\ Calls("apply", {"close"})
    /\ IF bev[Top.p] = "live"
       THEN /\ bev' = [bev EXCEPT ![Top.p] = "freed"]
            /\ Makes(<<>>) /\ UNCHANGED phase
       ELSE MayCrash /\ UNCHANGED bev
    /\ UNCHANGED <<graph, window, context, misused, count, stale>>

\* The bytes of the LogEntry, from its link to the next, are written to the next
\* server, to which they are no message that it knows; nobody is called.
StreamApply ==
    /\ Calls("apply", {"stream"})
    /\ IF bev[Top.p] = "live" THEN Makes(<<>>) /\ UNCHANGED phase ELSE MayCrash
    /\ UNCHANGED <<graph, data, count, stale>>

\* The connection of a Close ends, and the server's callback frees it; that of a
\* Stream ends, and the thread of its loop frees it, whatever this thread does:
\* because the server breaks it off, aborts, or has read the QUIT.
ConnectionEnds(p) ==
    /\ phase # "crashed"
    /\ plugin[p].mem = "live"
    /\ \/ plugin[p].kind = "close" /\ stack = <<>>
       \/ plugin[p].kind = "stream"
    /\ \/ bev[p] = "live" /\ bev' = [bev EXCEPT ![p] = "freed"]
       \/ bev[p] = "quit" /\ bev' = [bev EXCEPT ![p] = "joined"]
    /\ UNCHANGED <<graph, stack, window, context, misused, phase, count, stale>>

\* All other Failed functions only return.
OtherFailed == /\ Calls("failed", Kinds \ {"timer", "response"})
               /\ Makes(<<>>)
               /\ UNCHANGED <<graph, data, phase, count, stale>>

-----------------------------------------------------------------------------
\* Disposal.

Disposal == /\ phase = "run"
            /\ stack = <<>>
            /\ phase' = "dispose"
            /\ stack' = <<Dispose_(root)>>
            /\ UNCHANGED <<graph, data, count, stale>>

\* Mutation: the failed child is forgotten.
DisposedChildrenApply == <<Dispose_(This.apply)>>

DisposedChildren == <<Dispose_(This.apply), Dispose_(This.failed)>>

\* pool_plugin_dispose and the Dispose functions.  In freed memory the
\* pointer to Dispose may still be the zero of bzero, or anything.
PoolPluginDispose ==
    /\ Calls("dispose", Kinds)
    /\ IF This.mem = "live"
       THEN /\ Makes(DisposedChildren \o <<Free(Top.p)>>)
            /\ UNCHANGED <<phase, stale>>
       ELSE stale' = TRUE /\ MayCrash
    /\ UNCHANGED <<graph, data, count>>

\* The Dispose of a Stream, after its children: io_close sends a QUIT.  If the
\* connection has ended and the loop's thread has not, yet, it is written to a
\* freed bufferevent.
StreamQuit ==
    /\ Calls("free", {"stream"})
    /\ \/ /\ bev[Top.p] = "live"
          /\ bev' = [bev EXCEPT ![Top.p] = "quit"]
          /\ UNCHANGED <<stack, phase>>
       \/ bev[Top.p] = "freed" /\ Crash /\ UNCHANGED bev
    /\ UNCHANGED <<graph, window, context, misused, count, stale>>

\* io_close joins the loop's thread, which ends with the connection.
Joined(p) == plugin[p].kind = "stream" => bev[p] \in {"freed", "joined"}

\* The list of a Timer goes with it.
PluginFree ==
    /\ Calls("free", Kinds)
    /\ Joined(Top.p)
    /\ plugin' = [plugin EXCEPT ![Top.p].mem = "freed"]
    /\ window' = [window EXCEPT ![Top.p] = <<>>]
    /\ Makes(<<>>)
    /\ UNCHANGED <<script, root, context, bev, misused, phase, count, made, stale>>

Step == \/ Clone \/ SetApply \/ SetFailed \/ ReturnRoot
        \/ PoolPluginInit \/ PoolPluginInitLoops \/ PoolPluginCreated \/ NopPlugin
        \/ CopyApply \/ PrintApply \/ KeyApply \/ ValApply \/ ReactApply
        \/ TimerApply \/ TimerFailed
        \/ StaticsStart \/ StaticsLog \/ StaticsFinish \/ StaticsError
        \/ CreateApply \/ ResponseApply \/ ResponseFailed
        \/ CloseApply \/ StreamApply \/ OtherFailed
        \/ PoolPluginDispose \/ StreamQuit \/ PluginFree

Next == Step \/ PoolExec \/ Disposal \/ (\E p \in Plugins : ConnectionEnds(p))

\* The thread goes on with a call that is made wherever it can.  That another
\* server ends a connection is not taken for granted, nor that logs come.
Spec == Init /\ [][Next]_vars /\ WF_vars(Step)

-----------------------------------------------------------------------------
\* Properties.

Child(p, q) == q \in {plugin[p].apply, plugin[p].failed}

\* The plugins that hang from members of S are members of S.
Closed(S) == \A p \in S : {plugin[p].apply, plugin[p].failed} \cap Plugins \subseteq S

\* What hangs from the root: the least set of plugins with the root that is
\* closed.
Reachable == LET sets == {S \in SUBSET Plugins : {root} \cap Plugins \subseteq S /\ Closed(S)}
             IN  {p \in Plugins : \A S \in sets : p \in S}

Idle == phase = "run" /\ stack = <<>>

(* pool_plugin_init creates every plugin of the graph, and none twice,       *)
(* though a Timer hangs from a React twice: a second Create would drop its   *)
(* list, and the map of a React.                                             *)
CreatedOnce ==
    /\ \A p \in Plugins : made[p] <= 1
    /\ Idle => \A p \in Reachable : made[p] = 1 /\ plugin[p].inited

\* Called by a Timer of flags 0, 1, 2 only, with nothing but Prints and
\* Responses between.
Keeps(q, above, live) ==
    \A r \in live :
      /\ plugin[r].kind \in {"statics", "response"} => plugin[r].failed # q
      /\ plugin[r].apply = q =>
           \/ plugin[r].kind = "timer" /\ plugin[r].flag = <<0, 1, 2>>
           \/ plugin[r].kind \in {"print", "response"} /\ r \in above

KeepState ==
    LET live == Reachable
    IN  UNION {S \in SUBSET (live \ {root}) : \A q \in S : Keeps(q, S, live)}

(* The states of a Timer reach a Statics in order, through Prints and        *)
(* Responses whatever is applied or buffered in between: function and fexit  *)
(* are never called on a context that is missing or freed, none is leaked,   *)
(* and none stays open between two logs.                                     *)
Bracketed ==
    (script.api = "c" /\ root # NULL) =>
      \A p \in {p \in KeepState : plugin[p].kind = "statics"} :
        p \notin misused /\ (Idle => context[p] # "open")

Shared == \E p, q \in Reachable, r \in Plugins :
             \/ p # q /\ Child(p, r) /\ Child(q, r)
             \/ plugin[p].apply = r /\ plugin[p].failed = r

(* pool_plugin_dispose of the root frees every plugin of the graph and no    *)
(* other.  Only a plugin that hangs from two places is disposed of after it  *)
(* is freed, as the Timer of test/pool.c.                                    *)
Disposed ==
    /\ stale => Shared
    /\ (phase = "dispose" /\ stack = <<>>) =>
         {p \in Plugins : plugin[p].mem = "freed"} = Reachable

\* The Dispose of a Stream has sent its QUIT, and waits.
Waits == /\ stack # <<>>
         /\ Top.f = "free" /\ This.kind = "stream" /\ bev[Top.p] = "quit"

(* Whatever the plugins, however they share children and whether they hang   *)
(* below themselves, an initialisation, a log and a disposal come to an end: *)
(* no call goes round for ever, and none waits but the disposal of a Stream, *)
(* for the server at the other end to close the connection.                  *)
CallsReturn == []<>(stack = <<>>) \/ <>[]Waits
=============================================================================
