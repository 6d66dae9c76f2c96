# Verification of logpool

logpool is a logging library in C with a server. A program traces key/value
logs through a chain of *filters*; one backend sends them to the server
`logpoold`. Clients ask the server for a *procedure*, a script that builds a
graph of pool plugins; every log the server receives is run through the graphs
of all clients, and what a graph lets through goes back to its client.

```
 program --> logpool.c --> filters (plugins/trace) --> io (tracer) --+
                                                                     | TCP
 logtail <-- io (client) <-- TCP <-- response plugin                 v
                                        ^                   core/server.c
                                        |                   + chunk_stream
                                 plugin graph  <-- pool_exec (plugins/pool)
```

## Inventory

| part | state | operations | what is hard | what makes it correct |
|---|---|---|---|---|
| framing, `core/stream.c` | `buffer`, `cur`, `len` of a chunk_stream; the input of its bufferevent | `chunk_stream_get`, `_check_size`, `_reset`, `_next` | messages split or joined by TCP; the window moves between the size checks of one call; the client's event thread adds input meanwhile; messages larger than the buffer | the messages returned are those written, none is left behind |
| server, `core/server.c`, `plugins/pool/pool_plugin.c`, `include/array.h` | bufferevents, list of slots, name space of procedures | accept, READ, WRITE, QUIT, end of file, error | any order of these over several connections; raw pointers in slots; addresses used again; growth of the list | no pointer outlives its connection; clients see subscriptions |
| Timer plugin, `plugins/pool/time.c` | linked list of copied logs with counts and times | apply, failed | logs with different counts; the clock of `pool_exec`; unsigned subtraction | fresh logs are shown, expired ones go, none is lost |
| React plugin, `plugins/pool/react.c`, `core/map.c` | hash map from key to (log, value) | apply: set every value, compare the old one | probing, resize, removal without tombstone, equal hashes; records point into logs that others free | the map is a map; a change of value is reported exactly when there is one |
| plugin graph and the other pool plugins (`copy`, `create`, `key`, `val`, `print`, `statics`, `response`, `close`, `stream`), with the konoha binding that builds graphs | the graph, the context of `statics` | clone, chain, Create, Apply, Failed, Dispose | a plugin shared by two parents; start/continue/finish calls from a Timer; a state word handed from call to call | every plugin is created once and disposed of; a Statics never uses a context that is not open |
| client and tracer io, `core/client.c`, `core/trace.c`, `core/io.c` | `io->bev`, `io->base`, thread flag | open, read, write, close, event thread | the two threads share `io`; events race with writes and with close | close ends; nothing is written to a freed bufferevent |
| logging frontend, `core/logpool.c`, `plugins/trace/*` | formatter table, string buffers, filter chain | open, record, flush, close | call sequences through filters and multiplexer, buffers that fill up | every backend sees the fields of a log in order, flushed once |
| string formatting, `plugins/trace/lpstring.h`, `lpstring.c`, and the readers of a message, `LogEntry_get`, `Log_get` | a buffer; the lengths in the header | put_d, put_i, put_hex, put_f, flush, get | extreme values; fields told apart by lengths alone | the digits denote the number; a reader gets what was written under a key |
| viewer, `logpool-viewer` | nodes, their points, lines and texts; the selection; one editor | add, move, connect, edit, generate | a gesture of several events leaves selections behind; pointers between two nodes | lines and texts stay with their nodes; what is generated is what is drawn |

How they interact: the tracer and the client use the framing of
`include/protocol.h` to talk to the server over TCP; the server's callbacks run
in one thread and call into the pool; the pool calls plugins synchronously; a
Response plugin writes to the bufferevent of its connection, the only reference
from a plugin back into the server. Tracer and client each start a thread for
their libevent loop that shares the `io` structure with the caller.

## Modules

| module | models |
|---|---|
| `MessageChannel` | abstract: a FIFO of messages |
| `ChunkStream` | `core/stream.c` with its two readers, `server_read_callback` and `io_client_read` |
| `MCChunkStream` | an instance of `ChunkStream` for TLC |
| `PubSub` | abstract: subscriptions |
| `PoolServer` | `core/server.c`, `pool_plugin.c`, `ARRAY_add`, `response.c`, `konoha_plugin_get` |
| `MCPoolServer` | an instance of `PoolServer` |
| `PoolServer_proofs` | theorems about `PoolServer` |
| `TimerWindow` | `plugins/pool/time.c`, the counts of `include/log.h`, the clock of `pool_exec` |
| `TimerWindow_proofs` | theorems about `TimerWindow` |
| `PoolMap` | `core/map.c` as operators on the value of a map |
| `MapUse` | a map and any caller |
| `React` | `plugins/pool/react.c` below a `copy.c`, on top of `PoolMap` |
| `MapUsers` | the composition of `React` and `MapUse`, the two users of `PoolMap` |
| `MapUsers_proofs` | theorems about the operators of `PoolMap`, about `MapUse`, `React` and `MapUsers` |
| `MCPoolMap` | an instance of `MapUsers` |
| `PluginGraph`, `MCPluginGraph` | `pool_plugin.c` and all plugins of `plugins/pool` as a graph of nested calls, built from C or from konoha, with the connections of Close and Stream; 670 procedures |
| `PluginGraph_proofs` | theorems about `PluginGraph` |
| `TraceThread` | `core/trace.c` with `io_open` and `io_close`: the two threads of a connection |
| `LogFrontend`, `MCLogFrontend` | `core/logpool.c` with the formatters of `plugins/trace`; all small trees of them |
| `Tracer_proofs` | theorems about what a program writes its logs with: `TraceThread` and `LogFrontend` |
| `ClientThread` | `core/client.c` with `io_open` and `io_close`: the two threads of a client |
| `ClientThread_proofs` | theorems about `ClientThread` |
| `LogWire`, `MCLogWire` | `plugins/trace/lpstring.h` and `lpstring.c`, `LogEntry_get`, `Log_get`; all numbers of eight bits and small logs |
| `Message_proofs` | theorems about the messages of logpool: `ChunkStream`, which cuts them out of a connection, and `LogWire`, which writes what is in them |
| `Viewer`, `MCViewer` | `logpool-viewer`: nodes, points, lines, the editor, `codegen`; an instance |
| `Viewer_proofs` | theorems about `Viewer` |

In each module the operators called `...Once`, `...Late` and so on that a
comment introduces with "Mutation:" are not part of the model. Each is a bug that
this code could have; put in the place of the definition that follows it, it
makes TLC report a property as violated.

### ChunkStream

A byte is named by its position in the stream its peer wrote, so the buffer's
contents tell which bytes the program looks at. `buffer`, `cur` and `len` are the
fields of `struct chunk_stream`; `arrived` and `taken` delimit the
bufferevent's input; `need` is `reqsize`; `pc` is the place in the loop of
the reader. One step is one size check with the decoding behind it. `threaded` says from
the start on which of the two readers a behaviour is of: in the server (`FALSE`) bytes arrive
only between two runs of the callback; in a client (`TRUE`) at any time. A size computed from bytes that do
not start a message is any size of the instance, so a wrong window leads to
wrong messages and is not hidden by the naming of bytes. The sum of the lengths is taken modulo `Word`, as
`klen` and `vlen` are of 16 bits; `ShapesAssumption` says that what is written stays below it, as
no writer's buffer has more than 1024 bytes.

### PoolServer

`slots` is `pool_list.list`, one record for each READ in the server's life;
`capacity` its capacity; `owner` says which bufferevents are allocated and for
whom, so that freeing is `owner[a] = NULL` and an address can be used again;
`script` is whose `initPlugin` the name space of the konoha interpreter holds;
`inbox` and `outbox` are the messages a connection has sent and has been sent.
One step handles one message. `readers` is a history variable.

A plugin graph is abstracted to the set of logs that it lets through to one
Response (`Accepts`); the stateful plugins have modules of their own.
`konoha_plugin_get` evaluates the script that memcached returns and then looks
`initPlugin` up in the one name space; the model takes the evaluation of a
missing script to change nothing, so an earlier procedure is found.

### TimerWindow

`list` is the linked list behind its dummy head; `tail` is not a variable, because
between two calls it is the last log of the list, or the head if there is none;
`Kept` says what an append leaves reachable, the reset of `tail` to the head
included. `logs` and `freed` are history variables, `shown` what the last
`timer_apply` passed on. The count of a log is any of `Refcs`, as a React above
the Timer has raised it by the number of values in the log. A difference of times is taken
modulo `Word`, which is larger than every time (`WordAssumption`), so a clock that went back
makes a log look very old. `ClockForward` says that it has not: `Fresh` and what depends on it hold
whatever the clock does, and `StaleBound` is about a clock that goes forward.

### PoolMap, MapUse, React

A map is a record: `records`, `used` for `used_size`, and `freed`, the history of
what `ffree` was called for. `mask` is a modulo, since tables are powers of two.
`Stops` are the probes at which the loop of `pmap_set_no_resize` returns; if there is
none, the loop reaches its `assert(0)`. `Moved(m)[i]` is the new table after `i` rounds of the loop of
`pmap_record_resize`. A key is the pair of its two hashes, since neither map of the repository
ever compares the characters; the instances choose hashes so that keys collide, wrap around
and fall apart when the table grows.

In `MapUse`, `removes` is a history: after a removal a set may put a key into the table
twice, and a key with the hash 0 takes a record that counts as free, so `GetsLast`
speaks of maps without removals, as React's is, and of the other keys. The assumptions
on the keys say what the code's comparison makes of them: two names with the same hashes are one
key (`DistinctAssumption`), and where there are removals no key has two hashes of 0
(`RemoveAssumption`), for the removal of such a key while it is absent would find a
free record and count `used_size` down.

In `React` the value of a record is `[e, val]`, the log it points into and the value
found there, so that reading an old value through the record is the pair's `val`.
`refc` has the counts of all logs, `told` what became of the last. `Appended(log, e)[i]` is the
state after `i` rounds of the loop of `react_append_log`, the map, the counts and its flag. The first field
of a log is the one `react_apply` takes the trace's name from, and it goes into the map
like any other. `Dispose` empties the map and gives every reference back. The properties
speak of places: `<<m, i>>` is the i-th field of the m-th log, `Latest` are the places whose key occurs at no later one
(`Before`), and the map is to hold exactly these. No name of a key has
the djbhash 0 (`KeyAssumption`); see Limits for what would become of one.

A behaviour of `MapUsers` is one of `MapUse` or one of `React`, side by side in one state space.

### PluginGraph

A procedure is a sequence of operations (`POOL_PLUGIN_CLONE`, `base.apply = `,
`base.failed = `, `return pool_plugin_init`), as `example/mod_cpuwatch.c` and the methods of
`konoha/package/logpool/logpool_glue.c` write them. Everything after that is nested calls of
one thread, so the state holds a `stack` of calls still to be made, and one step makes the
first of them: a function replaces itself by the calls it makes. `s` is the state word of a
call. A `context` of a Statics is `"open"` between `finit` and `fexit`, which frees it in the examples.
The list of a Timer may lose any first part (`TimerWindow` says which), a React may tell
either child (`React` says which). A konoha method reads arguments that its signature does not
have (`Unpassed`, `KeyMatches`), and a konoha Statics calls through memory it has just
allocated (`FromMalloc`, `Crash`). Reading freed memory in a disposal finds the zeroes of `bzero`, or
anything (`PoolPluginDispose`). `made`, `misused` and `stale` are histories.

`bev` is the connection of a Close or a Stream. A Close frees its own for the first log and again for the
second, as the pointer stays; using what is freed goes unnoticed or ends the process (`MayCrash`). A Stream's
connection may end at any time (`ConnectionEnds`): for one thing, what is written there are the bytes of the
`LogEntry` and not of its data, which no server takes for a message of its own. The Dispose of a Stream sends a QUIT (`StreamQuit`)
and then waits in `io_close` for the thread of the connection (`Joined`), which ends when the server at the other end closes
it. The inside of that wait is `TraceThread`.

A plugin that hangs below itself is created without end, as `pool_plugin_init` sets the flag it looks at
after the children are created: when `pool_plugin_init` meets a plugin whose Create is still under way
(`BeingCreated`), the process ends (`PoolPluginInitLoops`). `TimersAssumption` excludes that a Timer hangs below
another: `LogList_append` copies a log with its link to the next, and there the link is one of
the other's list. No procedure of the repository does this.

`Bracketed` is about the Statics that get their calls from a Timer of the flags 0, 1, 2 with
nothing but Prints and Responses between (`KeepState`): a Copy, a filter or a Create begins
with state 0 again, so below these a Statics only ever opens contexts. `Reachable` and `KeepState` are
stated as sets without recursion, the least set with the root that is closed under children, and the union of
all sets whose members are Prints and Responses or lead to others of the set only. `Disposed` says that a
disposal reads freed memory only if a plugin hangs from two places, as in
`test/pool.c:46-47`; that it does so then is a consequence of the code, see Limits.
`CallsReturn` says that no call goes round for ever, and that none waits but the disposal of a Stream: either the
stack is empty again and again, or that disposal waits for good (`Waits`). A process that has ended has
nothing left on the stack.

### Viewer

A point is a pair of a node and a name. `conn` and `mate` are `connected_nodes` and
`connected` of a point, `line` is the index of its line in the scene; an index that no point
has any more is a line nobody moves. `selection` and `point` are Qt's selection and the
`selected_point` of each node: the two are set together by a click on a point, and apart by
clicks on a title or on nothing. `grab` is the point the button is held on, between the press
and the release. The editor has one text and one item it is synchronized with. A text is the sequence of its parts
between colons: `RM_LABEL` takes away all up to the last colon, of a label (`key:`) and of what is typed in its
place alike, so that of `host:port` only `port` is generated (`WithoutLabel`); scripts are generated whole. `program` is what
`codegen` has written: declarations and assignments by number; `calls` are the calls of
`nodeToCode` that are still to be made, and one step makes the next of them, which writes its
plugin and puts the calls it makes itself before the others. `Cyclic` is stated without
recursion: what a recursion meets is in every set that holds where it begins and is closed
under children. `Generated` says by which mapping from plugins to nodes the program is what is
drawn, once no call is left. `typed` and `titles` are
histories: `titles` has the nodes that were selected by their title and have not been selected by a point or
unselected since. Positions are members of a small set; drawing, sizes and layout are left out.
What Qt does is taken from how the code uses it, and is marked external.

### TraceThread

`main` and `thread` are the two threads; one step is one statement that the other
can notice. `out` is what was written and not yet read by the server: the
bufferevent's output, the sockets and the server's input together. `peer` is the
connection as the tracer sees it. A write to a bufferevent that is freed or `NULL`
sends nothing and may end the program (`BufferWrite`). libevent's callbacks are one
step each; `BEV_EVENT_TIMEOUT` cannot occur, as the timeouts are commented out. `failed`
remembers that connecting has failed or that the server has left early; `AllLogged`
is about connections to which that has not happened, the other properties about all.
A log in `Large` does not fit in the server's 128 bytes (`core/stream.c:65`), while the buffer of
`plugins/trace/stream.c` takes 1024: the server never handles it, nor anything behind it, so a QUIT
behind it is never seen and the close waits in `pthread_join` until the connection fails. `CallsEnd` therefore
promises the end of a close where every log that was written does `Fit`. At a log in `Unknown` the server
ends (`abort()`, `core/server.c:62-64`), which ends the close, too.

### ClientThread

As `TraceThread`, with the other handshake of `core/client.c`: `client_thread_start`
spins while the flag is set, the loop's thread sets and clears it without a lock, a
close tells the loop to end and joins the thread if the flag is set. What the server
sends is a sequence of logs of two parts each that arrive one by one; `taken` is how much
`chunk_stream_get` has moved to the stream's buffer, whose inside is `ChunkStream`. A thread that
uses what the other has freed is `"undefined"` from then on and does nothing more. The
server may end at any time.

### LogFrontend

`tree` is what `logpool_open` was given: filters with one child, multiplexers with some,
and leaves of three kinds, `"string"` for file, syslog and stderr, which differ only
in where the finished line goes, `"stream"` and `"memcache"`. The other variables are the `logpool_t` and its nodes. `conn` is
`connection`, for which node a function is being called; `key` is `fn_key`, which
all nodes share and inner nodes replace in their init and remember in theirs (`saved`).

The functions call each other through the tree. `calls` is what is still to be called, the next call
first, and a step is one function up to the calls it makes, which take its place on the
stack: `Put` of a multiplexer puts a `"put"` for each of its children there, and behind them the `"switch"` that
sets `connection` back. A call whose caller has set `connection` to its own node before has the mark `set`; the others find it
as it is. `fn_key` is read when the call is made, so a key's call says of which kind of node
the function is (`by`). What is behind a call, as the rest of `logpool_Multiplexer_init` is behind
the init of a child, is a call of its own (`"remember"`, `"formatted"`, `"sent"`, `"hand_on"`, `"free"`).
A function that finds the connection of another node, or that is called for a node of another
kind (`Mistyped`), sets `bad`; that is undefined, and nothing is said of what comes
after. A field or a delimiter is one token, and `sink` is what each leaf has
handed on. The priority of a filter is never asked for (`core/logpool.c:48` has it as a TODO), so a filter lets every
log through, and has no priority in the model.

### LogWire

A text is a sequence of `Chars`, a word has `2 * Half` values; the conversions are operators
that follow the code digit by digit, with its shifts as divisions: `Quotients(v, b)` is what the
divisions leave of a number, one after the other, and `Places(v, b)` how many there are until
nothing is left, which is where the loop of `put_d` ends and where `put_hex` begins. `LogsAssumption` says of the
logs what the functions of `logpool.h` take: a number is a word, and a name, a key and a string hold no NUL,
as `strlen` measures them. `buf`, `info` and `sent` are the buffer,
the lengths in the header and what was handed on. A field is one step of `logpool_format_flush`;
`LogEntry_get` and `Log_get`, the same loop twice, are one step for each field. `LOG_r` has the
length 0 in `logpool_record`, so a raw value is empty. `logpool_string_null` writes the
terminating zero of its literal, too: a message's value is five characters, and a line
of syslog ends there, which `LineWhole` therefore excepts.

## Runs

| run | instance | shows |
|---|---|---|
| `chunk_stream` | both readers; header 2, pairs 1, buffer 6 bytes, words of 2 bits; 3 messages of 4 shapes, one of 6 bytes and one of 7 | `Window`, `Reception`, `CallbackDrains`, `NullOnlyIfIncomplete`; under fairness `AllDelivered`, and `ImplementsChannel` |
| `pool_server` | 3 connections, 2 addresses, a procedure with and one without a script, 1 log, 4 messages, initial capacity 2 | `SlotsLive`, `ListBounds`, `ImplementsPubSub`; under fairness `Released` |
| `timer_window` | 5 logs with 1 or 2 references within 10 microseconds, after 8 of which the clock jumps back, interval 2 | `NoLeak`, `FreshShown`, `StaleBound`, `AssertHolds` |
| `timer_clock` | that of `timer_window` over two seconds of the clock | `FreshShownInTime` is violated: see Findings |
| `pool_map` | a caller: 7 keys, one with hash 0, a table of 4 that grows to 8, 6 sets and one removal; React: 5 keys, 8 logs of up to 4 fields, 5 logs in a row | `Placeable`, `GetsLast`; `RefsExact`, `HoldsLatest`, `ToldExactly` |
| `plugin_graph` | 670 procedures of up to 8 plugins, circles among them, 2 logs of 3 kinds, 2 logs in a window; connections end at any time | `CreatedOnce`, `Bracketed`, `Disposed`; under fairness `CallsReturn` |
| `trace_thread` | up to 3 logs of 4, one too large for the server and one of no protocol it knows; connecting fails, the server ends at any time | `IoOutlivesThread`, `AllLogged`, `ImplementsChannel`; under fairness `CallsEnd` |
| `log_frontend` | all 1164 trees of up to 5 nodes, 4 logs of up to 3 fields, 2 logs in a row, capacity 3 | `TypedIffSound`, `Delivered`, `ClosedOnce` |
| `log_wire` | words of 8 bits, every number of every type, floats about 0, 1 and the ends of an `int32_t`, logs of up to 3 of 11 fields, 5 wanted keys | `Denotes`, `GetsFirst`, `LineWhole` |
| `client_thread` | up to 3 logs in 2 parts; connecting fails, the server ends at any time | `InOrder`, `ReaderCloses`; under fairness `CloseEnds` |
| `client_open` | the same with one log | `OpenEnds` is violated: see Findings |
| `viewer` | Logpool with 2 points, 2 nodes with 3 points and 1 text each, a text with a colon, 2 positions, 4 acts | `CrashOnly`, `LinesFollow`, `TextsOwn`, `Generated` |

The type invariants of `ChunkStream`, `PoolServer`, `TraceThread`, `ClientThread`, `TimerWindow`, `PluginGraph`,
`MapUse`, `React` and `Viewer` are parts of the inductive invariants that are proved. A run that is left with `CHECK_DEADLOCK FALSE`
is of a system that comes to an end, as its configuration says.

`TypedIffSound` says for which trees the frontend is safe to use: no stream and no
memcached below a filter or a multiplexer, and a filter or a multiplexer only as the last
child of a multiplexer. In exactly these no function takes one structure for another,
and in them `Delivered` says that every leaf gets every log once, whole and in order.

### Bounds, and why they are enough

*ChunkStream*: a header of two bytes can be cut in the middle, the table of
lengths can be cut off from the header, and the buffer holds two messages of
middle size or one of the largest, so each of the three size checks
happens with an empty, a partly and a fully sufficient window, at the front of the
buffer and behind it. One shape is a byte larger than the buffer. Three messages are a
message with both neighbours. The
proofs hold for all sizes and any number of messages.

*PoolServer*: three connections on two addresses force an address to be used
again while a third connection is alive; a connection can ask twice and leave, and another write
to a third that asked behind a blank slot; the list grows from its capacity of 2. A
procedure that has no script gives an empty slot, or an earlier procedure. That
filters of two procedures differ is not part of the instance: `PubSubCorrect` is proved for
any `Accepts`, and without bounds.

*TimerWindow*: five logs are enough for one to age from two references to none,
be freed, and leave another behind it. `UsecPerSec` and `MsecPerSec` are scaled down
from 1000000 and 1000, so that the instance has one jump of the clock; `Word` only has to be larger
than every time. The proofs hold for any number of logs, any counts and any clock.

*PoolMap*: a table of four is filled to its last record before it grows, and
the table of eight takes up to six of the seven keys. After one removal each further
set can already meet the hole it left, and more removals only make more holes. The hashes 3, 7, 11 and 15 are one place in the
first table and two in the second; one key has the hash 0. In `React` five keys make the map grow, two share
their first hash, and the watched key occurs alone, twice in one log, and not at all. The proofs hold for any
keys, any hashes and tables of any size.

*PluginGraph*: the procedure of the examples has seven plugins, with a Timer that hangs from a
React twice, and that of `test/pool.c` eight, the last a Stream. Behind these come all chains of three plugins whose first is a Timer, a Print, a Val or a
React and whose last is a Statics, a Timer, a Response or a Key, each in four shapes: plain,
with the last plugin shared by apply and failed, shared over two levels, and forked. So every
kind occurs between a Timer and a Statics. Forks behind a Statics, and konoha chains,
complete them, and so do four procedures with a circle: a plugin below itself, a circle of three through the
root, one behind the root, and one that does not hang from the root and is never met. Two logs show what the first leaves behind in
windows, contexts and connections. The proofs hold for any procedure in which no Timer hangs below a Timer.

*TraceThread*: the threads meet in the opening, at a write and in the close; more logs
repeat the same states with a longer buffer. Three logs put one that does not fit, or one of an unknown protocol, before, between
and behind others. The proofs hold for any number.

*LogFrontend*: five nodes are enough for a multiplexer with an inner first child and with
a leaf behind it, for three levels below the root, and for three leaves that share one
log. Two logs show what the first leaves behind in the buffers, the table and the flag. A
log of three fields does not fit in the table, which has to keep one place.

*LogWire*: the conversions work on one digit or nibble at a time, so eight bits have all their
cases: one to three digits, an even and an odd number of them for `reverse`, the least integer, the
sign bit. Keys that begin alike, an empty key and a `TraceID` of the program's own stand
in every pair of positions.

*Viewer*: two nodes and Logpool can be connected in a chain, a fork, to one node twice and in a circle. Adding nodes is not counted as an act; four acts are two connections and what moves,
selects or types in between. The nodes are symmetric.

*ClientThread*: three logs of two parts let a read find nothing, a part, one log, a log
and a part, and more. The proofs hold for any number of logs.

### Fairness

`ChunkStream!FairSpec`: TCP delivers what was written and the event loop reads it
(`Arrival`); a started reader goes on (`Reader`): it runs in a thread of its own
or in the event loop, and waits for nothing but input; the client calls
`io_client_read` again (`ClientRead`), as `tools/logtail.c` does in its loop.
`PoolServer!FairSpec`: the event loop gets to every connection that has something
to read. Nothing is assumed about clients, accepts and errors.
`PluginGraph!Spec`: the thread goes on with a call wherever it can (`Step`). It cannot while the disposal of
a Stream waits for the other server, and nothing is assumed about that (`ConnectionEnds` has no fairness). Neither logs
nor a disposal are assumed to come.
`TraceThread!FairSpec`: both threads go on when they can, connecting ends one way or
the other, and the server's event loop handles a message that is whole in its buffer, which one in
`Large` never is. That a program writes or closes is not assumed, nor that a connection breaks.
`ClientThread!FairSpec`: the calls of `io_open` and `io_close` go on, and so does the loop,
which handles one of its events if there are any. Nothing is assumed about reads, about
the server, and about whether a program closes.

## Findings

`timer_clock`: `TimeMilliSecond` (`plugins/pool/pool_plugin.c:122`) returns
`tv_sec * 1000 + tv_usec`. The same function in `test/plugin_bench.c:12` divides
the microseconds by 1000, as the name says. An interval of N milliseconds is
thus N microseconds within a second, and at the end of a second the clock jumps
back and every log of the window counts as expired. TLC shows a log younger
than the interval that a `timer_apply` does not hand on.

`client_open`: `client_thread_start` (`core/client.c:97`) waits *while* `IO_MODE_THREAD` is
set, where the tracer waits for the new thread. If the new thread sets the flag before the
opener first looks at it, `io_open` spins until the connection ends, which it never has to.
`test/test_c.c:24-26` opens and then writes. In the other order `io_open` returns before
the thread has set the flag; a close that follows at once does not join the thread, and
`io_close` frees what it runs on. `ReaderCloses` says what saves a program that has read
something, and no more than that is true.

Limits, which no comment of the code denies: `OversizeBlocks`, a part of `Reception`, says that nothing behind a
message of more than 128 bytes is ever handled, a QUIT included; a program that closes behind one waits until the connection
breaks (`CallsEnd` excepts it). `TypedIffSound` says which
combinations of formatters take one structure for another. `client_cb_event`
frees the bufferevent at the end of file but leaves `io->bev` as it is, which the next read or
write uses (`core/client.c:33`; in the model the thread is then `"undefined"`).
`logpool_io_client_close` (`plugins/trace/stream.c:180`) reads `lp->io` after
`logpool_string_close` has freed `lp`; there is nothing to explore about it.
A key whose djbhash is 0 counts as a free record: it can be set and found, but it is lost when
another key takes its record or the table grows, and nothing ever gives back the reference of its log (`core/map.c`; `KeyAssumption` of `React`).
A plugin that is both apply and failed of another is disposed of twice (`Disposed`). The server drops the procedures it
runs without disposing of them, but `test/pool.c:79` disposes of the graph whose Timer hangs twice from a React
(`:46-47`): the second disposal of the Timer reads what the first has freed.
A procedure whose plugins form a circle makes `pool_plugin_init` call itself without end, because
the flag it looks at is set after the children are created; no procedure of the repository has one.
A Timer below a Timer would take over the rest of the other's list with each log (`plugins/pool/time.c:68`); it is
excluded (`TimersAssumption`).
A Close leaves a freed bufferevent behind (`plugins/pool/close.c:12`), for its own next log and for the server, which still has it for the
connection; `PluginGraph` has the first of these, and `PoolServer` has no Close. A Stream writes a log from the link of its entry on
(`plugins/pool/stream.c:11`), so the next server reads the link where the protocol is; a `NULL` link is protocol 0,
at which that server aborts. The disposal of a Stream waits for that server (`CallsReturn` excepts it).
`LOG_u` prints numbers from 2^63 on as negative ones, `put_f` cuts the part before the
point to 32 bits (`Denotes`). In the viewer, a node that is selected by its title may have no
selected point when it is connected, and a circle of nodes never ends in `codegen`
(`CrashOnly`); a server typed as `host:port` is generated as `port`; moving the Logpool node leaves its lines where they were (`LinesFollow` excepts
them); the sixth point of Logpool is an index behind the end of a vector (`node.cpp:425`).

The DEBUG assertion of `time.c:46` assumes that logs lose their last reference in
the order of the list, which is false when their counts differ. `timer_window`
shows that it holds nevertheless: the last log of the list is aged at most once
and starts with at least one reference, so the condition above it is never true.

## Proofs

All proofs are for arbitrary values of the constants, under the named
assumptions that the modules state about them.

*Message_proofs*, first about `ChunkStream` (`Spec => []IInv`, then `TypeCorrect`, `WindowCorrect`,
`FramingCorrect` and `OversizeCorrect`, together `ReceptionCorrect`, `NullCorrect`,
`DrainsCorrect`, `ChannelCorrect`). `Window` and `Framing` are not inductive: that the next bytes
are a message follows only if the window begins at the boundary between the
messages returned and the rest (`taken - len = Boundary`), and that a returned
message is whole only if `need` was computed from that message (`NeedOK`).
`NullCorrect` and `DrainsCorrect` need that no pending request exceeds the buffer unless
the message it belongs to does; they speak of messages that fit.
`ChannelCorrect` is the refinement of `MessageChannel`, which says nothing of liveness: that a
message is received at last is `AllDelivered`.

Then about `LogWire`, for logs of any length, any characters and any word (`NumbersDenote`, `FirstGot`,
`LinesWhole`). That the digits of a number denote it (`WrittenNumeral`) is shown for `DigitsOf`, the digits by
`Quotients`, to which `put_d`, reversed, and `put_hex` come down: read from the left, the first k of n digits
are what n - k divisions leave. The provers have no induction over such a recursive function; `UpTo` takes its place, that a
set with 0 which holds the next of each of its numbers holds them all. `PutIRight` needs that
minus the least integer, taken as a word, is its opposite; `PutFRight` that `0xcd` and a shift by 11
divide by 10 what is below 100 (`TenthByShift`). The invariant `WireInv`
says that what is written is `Laid` out: there are offsets at which the keys and the values lie one behind the
other, with the lengths that the header gives them (`UnderWay`), from the first step until after the
message is handed on; that a reader stands `At` one of them, and at no earlier one was its
key, whatever the texts hold; and that a line `Grows` by a comma, a key and a value (`LineSoFar`), and holds no
end before its own unless a field is null, so that `printf` shows all of it.

*PoolServer_proofs* (`SlotsCorrect`, `BoundsCorrect`, `PubSubCorrect`).
The invariant adds to `SlotsLive` that a connection has one bufferevent at most and
only while it is open (`OneBev`), without which a release would miss slots, that the list
always has room for one more (`Room`), and that `readers` is as long as the list. The
refinement of `PubSub` maps each slot with a plugin to a subscription; the core of the
proof is a bijection between the plugins that run for a connection and its
subscriptions that let the log through.

*Tracer_proofs*, first about `TraceThread` (`TypeCorrect`, `IoCorrect`, `LoggedCorrect`, `TracerDelivers`).
`Threads` ties the flag and the lock to where the loop's thread is, so that a close which
finds the flag unset knows the thread has finished or never began. For `AllLogged`, which is about connections that have not `failed`, `Conserved` says that what was written is what was handled with what is on its way, and
`Ends` that the bufferevent is freed only after the server's end. `TracerDelivers` is the
refinement of `MessageChannel`, failures included: `Silent` says that after a failure the server handles nothing more, so
`Conserved` holds whenever it handles something.

Then about `LogFrontend` (`FrontTypeCorrect`, `SoundTreesAreTyped`, `LogsAreDelivered`, `EachNodeIsClosedOnce`), for any
trees, any logs and any number of them; `TreesAssumption` says what a tree is, nodes numbered parents first. The
properties are about moments when nothing is left to call, so `FrontInv` is about the stack in between, in
three parts. While a log is opened, the stack is the `Chain` of the nodes from the next one up to the root. In a
sound tree `fn_key` is that of the leaves until the first inner node is open, and then only last
children are left (`OpenSound`). In a tree where an inner child is not the last, its `fn_key` gets to a leaf
behind it or to a node above (`OpenUnsound`, `Stain`), so that somebody has remembered a function of another kind when the
opening ends. While a log is recorded, a call finds `connection` as the call before it leaves it
(`Led`, `Home`), every leaf's formatting but the root's finds `is_flushed` set (`FlushedOnce`), and what is formatted goes before what is handed
on (`Order`). What makes a tree unsound is still to be called, or has been (`Doomed`): that is why no log gets
through such a tree. For each leaf the line of the log is in two parts, the front of it in the buffer, and the rest
on the stack, in its order and spread over calls for nodes above the leaf; exactly one call there will hand it on (`OnItsWay`, `Fed`). While a
log is closed, each node is closed and its call gone, or exactly one call will close it (`Closing`).
That the path from the root to a node goes through one child of each node on it (`PathOne`) is shown at the least node for which
it would fail: `Path(t, m)` is the least set with `m` that has with a node its parent, and parents have lower numbers.

*ClientThread_proofs* (`TypeCorrect`, `OrderCorrect`, `CloseCorrect`). `Threads` says that
once a part has arrived the thread has set its flag, so that a close that comes after a
part was taken joins the thread before it frees. `InOrder` is inductive with `TypeOK`: a read
that fails changes `taken` only.

*TimerWindow_proofs* (`TypeCorrect`, `NoneLost`, `FreshHandedOn`, `StaleLeaves`,
`AssertionHolds`). `Suffix` says that the list is the end of the sequence of all logs
and that what was freed is the rest, which is `NoLeak` and more. A log leaves the list only when it and all before it
have lost their references, so `FreshShown` needs that a fresh log has never been
aged (`Untouched`), whatever the clock has done. `StaleBound` needs `Counted`: as long as the clock goes forward, the count of a
log is what it began with less the number of logs that found it expired. The DEBUG assertion follows
from `Untouched`, as the last log has not been aged before.

*PluginGraph_proofs* (`TypeCorrect`, `EachCreatedOnce`, `WindowsBracketed`, `GraphDisposed`), for every procedure,
circles included. None of the three properties says what is still on the
stack, and all of them depend on it: `Grouped`, that the calls on it are all of one kind,
creations, handlings or disposals; `Creating`, that a plugin which was met by `pool_plugin_init` is created with all its
children, or its Create waits on the stack for those that are not (`Waiting`), so that a second meeting finds the flag set
or is a circle; that children are created before what they hang from (`Ordered`), so that no circle is ever run or disposed of; `Bracketing`,
that the calls a window has left to make go on with the state that its Statics is in;
`Disposing`, that the children of a plugin the disposal has met are met or their disposal waits, and that
none waits twice unless some plugin hangs from two places.

*MapUsers_proofs*, first about the operators, for any table and any values:
`AlwaysPlaceable`, that a set ends at some record; `SetReplaces`, that the records after
a set are those before it without the key's, and the new one, growing included; `GetFinds`, that a get
returns the record of its key; `RemoveFits`, that a removal keeps the count.
Then about any caller: `PlacedAlways` and `FoundAlways`. `Counted` says that `used_size` is at least the number of records
that a key lies in, so that a table which is not full by that count has room; it is an inequality because
the record of a key with the hash 0 is taken for a free one, and counted again when something overwrites it. `Chained`
says that every record is reached by the probes of its key over records that are all in use, which
a removal breaks: `GetsLast` is therefore about maps nothing was removed from. A table grows round by round, and what holds of
the rounds is shown by the first round at which it would fail (`MinLeast`).

Then about `React` (`ReferencesExact`, `LatestHeld`, `ChangesTold`, `NeverStuck`). The invariant is that the map is
`Counted` and `Chained`, that its records are those of the latest place of every key
(`Follows`) and that each log has one reference and one more for each record that points to it (`Counts`).
Between the rounds of `react_append_log` the counts are ahead, as the references of all
fields are taken before the first is set: `Stage` says by how much, and that the flag tells whether
the watched key has changed so far, two values of it in one log included. `NeverStuck` is
about `MapUsers`, that neither React nor any other caller, under `RemoveAssumption`, meets the `assert(0)` of `pmap_set_no_resize`.

*Viewer_proofs* (`TypeCorrect`, `CrashesOnly`, `LinesAlwaysFollow`, `TextsAlwaysOwn`, `GeneratedRight`), for any nodes and
any number of acts. `Selecting` says that a node that is selected, and not by its title, has a selected
point, and that the point is its own, which `CrashOnly` needs at a release. `LinesFollow` needs `Lined`: a point has a mate as long as
it has a connection, the mate is at another node, and the line of two points that are each other's mate is the line of no
third point that has one, however often points were connected again. `TextsOwn` needs that a node has the texts of its kind and no others. `Generated` is about
the end of the calls of `nodeToCode`, so the invariant `Coded` is about every moment before: the plugins so far
`Stand` for nodes by some mapping; each child of such a node is in the chain or still to be called for; and
nothing is so twice (`Once`). A step extends the mapping by the node it meets.

Model-checked only: liveness (`AllDelivered`, `Released`, `CallsReturn`, `CallsEnd`,
`CloseEnds`), which is out of the prover's reach. Every other property that a passing run
checks is a theorem.

## Not modelled

`core/llcache.cpp` (LLVM, not part of the default build), `tools/idl-gen.cpp` (a generator of C
code), benchmarks, the registration of konoha classes, and drawing in the viewer. What
`codegen` writes does not compile against the plugins of this tree, so `Viewer` and `PluginGraph` are not
composed. The length of the buffers of `lpstring.h` is looked at by no code. A message of
an unknown protocol, at which the server calls `abort()`, is in `TraceThread` (`Unknown`) but not in
`PoolServer`, which has no state to speak of once its process has ended.

## Plan

Done: `ChunkStream` with `MessageChannel`, `PoolServer` with `PubSub`, `TraceThread`,
`ClientThread`, `TimerWindow`, `PluginGraph`, `PoolMap` with `MapUse` and `React`, `LogFrontend`, `LogWire` and `Viewer`, checked
and proved. Left, in this order:

1. The composition of `TraceThread` with `ChunkStream` and `PoolServer`, all three through `MessageChannel`:
   what a tracer writes before its close is what the subscribed clients are sent.
