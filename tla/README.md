# Verification of asyncsys

TLA+ models of the asyncsys library (`src/src`), the TLC configurations that
check them on small instances, and theorems about them that TLAPS proves for
every value of the constants.

- [The system](#the-system)
- [Modules](#modules)
- [Runs](#runs)
- [Proofs](#proofs)
- [What the checks found](#what-the-checks-found)
- [What is not modelled](#what-is-not-modelled)
- [Plan](#plan)

## The system

asyncsys is a C++ library of event loops and, on top of them, clients and
servers for an RPC protocol, HTTP, redis, mysql and kafka. Every thread that
does network work has one `asyncnet`: an epoll instance, tables of callbacks
indexed by descriptor, and a queue of callbacks that other threads hand it
through `notify`. Almost everything else belongs to the loop of one thread and
is never locked; what makes it hard is that handlers, user callbacks and close
callbacks call each other while the state of the object is half changed. The
exceptions, shared by threads, are `asyncnet::notify`, the server's `session`,
the object pool and the event registry.

| Component | State | Operations | Talks to |
|---|---|---|---|
| event loop (`net/asyncnet.cpp`) | `m_read`, `m_write`, `m_client`, `m_close` and `m_wbuffer` by descriptor, `m_running`, `m_flags` | `connect`, `start`, `set_client`, `send`, `set_timer`, `stop_timer`, `__wait` and the handlers it dispatches to | kernel; callbacks of everything below |
| wake-up (`notify`) | `m_trigger`, `m_mutex`, the eventfd, `m_thdset`, `m_running` | `notify`, `notify_all`, `__onevent`, `stop` | any thread to any loop |
| server start (`net/asyncsys.cpp`) | none | `start`, `connect`, `splitaddr` | one thread and loop per core on one listening descriptor |
| connection (`service/client.cpp`, `ioBuffer.h`) | `m_fd`, `m_thdid`, `m_iobuf` | `send`, `__realsend`, `recv`, `clear` | its loop; `dispatch` of the layer above |
| server session (`service/session.cpp`) | `m_client`, `m_list`, `m_notified`, `m_mutex` | `send`, `set_client`, `stop`, the notified callback | connection, `notify` |
| heartbeat (`net/heartbeat.cpp`) | `m_count`, a timer | `tick`, `ontime` | `send` and `stop` of a session |
| RPC client session (`service/msgsession.cpp`) | `m_list`, `m_state`, `m_client`, `m_timer` | `query`, `send`, `stop`, `__onconnect`, `__onclose`, `__retry`, `on_dispatch` | connection, timers, `msgdispatch`, user callbacks |
| dispatch (`msgdispatch.inl`, `msg/`, `pbmsg/`) | handler maps | `on_dispatch`, `on_dispatchex`, `query`, `onevent` | session |
| connection pool (`service/connectpool.h`) | per-thread free lists, `m_cnt_total` | `data`, `reset` | client sessions |
| redis, mysql, kafka clients | `m_list`, `m_state`, `m_fd`, `m_timer` | `query`, connect, close, retry | the library of each, the loop |
| HTTP (`http/`) | parser state, `m_request` | parser callbacks, `serialize` | session |
| event registry (`net/asyncevent.cpp`, `pool.h`, `rwlock.cpp`) | `m_events`, `m_objects` | `onevent`, `emit`, `insert`, `get`, `for_each` | any thread |
| small algorithms | | `condition`, WebSocket header, base64, md5, JSON | |

What makes each of them correct, and what can go wrong that a test would hardly
reach, is listed line by line under `hazards` in `PROJECT.json`. In short:

- *wake-up*: what is handed to `notify` is run once, in order, by the right
  loop, and no loop sleeps on work; no two loops wait for each other's mutex.
- *clients (RPC, redis, mysql)*: queries are resolved in order, once, and with
  their own answer, although answers carry no number; a client is never stuck
  with queries and nothing under way; it has one connection or one retry timer.
- *server session*: no message is duplicated or forgotten between the four
  places it can be in; the owner is woken whenever something is parked.
- *event loop*: a handler is called only for the connection it was registered
  for; a descriptor is closed once, by its owner.
- *streams (RPC, HTTP)*: messages are dispatched whole, once and in order,
  however their bytes arrive.
- *connection pool*: a client is used by one scope at a time, and only in the
  thread whose loop it is tied to.
- *event registry, object pool*: no threads wait for each other's locks, nor
  one for itself.
- *conversions*: what one half makes the other takes apart; a digest does not
  depend on how its message was cut.

## Modules

| Module | Models | Source |
|---|---|---|
| `TaskQueue` | abstract: a first-in first-out queue of tasks per loop | |
| `Notify` | `notify`, `notify_all`, `__onevent`, `stop`, the dispatch of `__wait`, `__onaccept` as a holder of `m_mutex` | `net/asyncnet.cpp` |
| `QueryQueue` | abstract: queries resolved in order, once, each with its answer or an error | |
| `MsgSession` | the RPC client session with its dispatch, heartbeat and connection | `service/msgsession.cpp`, `service/msgdispatch.inl`, `net/heartbeat.cpp` |
| `Session` | the server session: sends of several threads | `service/session.cpp` |
| `Connections` | abstract: what is opened is closed once, after the one call of its close callback if it has one | |
| `FdTable` | the callback tables by descriptor, timers, and the handlers of epoll events | `net/asyncnet.cpp` |
| `Framing` | a stream of messages between two ends: partial writes, partial reads, the input buffer, the loop of `client::recv` | `net/asyncnet.cpp`, `service/client.cpp`, `ioBuffer.h`, `msg/mydispatch.h` |
| `RedisCli` | the redis client on hiredis's asynchronous API | `redis/rediscli.cpp` |
| `MysqlCli` | the mysql client on libmysqlclient's nonblocking API | `mysql/mysqlcli.cpp` |
| `ConnectPool` | pools of clients, free lists by thread | `service/connectpool.h` |
| `Http` | one connection of the HTTP server: the parser's callbacks, the router, the answers | `http/`, `service/client.cpp` |
| `Registry` | the event registry and the object pool, and the locks their callbacks run under | `net/asyncevent.cpp`, `rwlock.cpp`, `pool.h` |
| `Md5`, `Md5Transform` | the digest and the context it is made in; what a block makes of its state | `md5.cpp` |
| `Base64`, `WsMsg`, `Address` | conversions, as operators | `base64.cpp`, `wsmsg/`, `net/asyncsys.cpp` |
| `Helpers` | `Registry`, `Md5` and the conversions side by side, with the properties of the conversions | |
| `*Proofs` | the proofs about the module they are named after; `BaseProofs` those about `Notify` and `Helpers` (with `Registry`, `Md5`, `Base64`, `WsMsg` and `Address`), and `StreamProofs` those about `Framing` and `Http` | |
| `MC*` | instances for TLC | |

The names are those of the code. In every module the definitions headed
*Faulty* are not part of the specification: each is the definition that follows
it with one plausible mistake, kept to show that the property named beside it
in `PROJECT.json` (`mutants`) would notice.

### Notify

One action per step that another thread can see. `notify` is two (`Push`, under
the mutex, and `Write` of the eventfd); `__onevent` is `Swap`, `ReadEvent` and
one `RunTask` or `RunThrows` per callback, either of which may notify before it ends. The eventfd is edge triggered, so
besides its counter (`m_eventfd`) the kernel's ready list is state (`ready`):
a write puts the descriptor on it, `epoll_wait` takes it off, and reports it
only if the counter is not zero at that moment. A thread inside a callback has
its pending `notify` calls in `calls`. `AcceptCalls` says which loops the accept
callback of a loop names; the mutex is held while it runs.

`ImplementsTaskQueue` maps a loop's queue to `taken \o m_trigger`: the swap is
a stutter, and a throwing callback is the one thing that drops others.

### MsgSession

Everything happens on one thread, but not one handler at a time: `query` may
close the connection inside `::send`, which calls `__onclose`, which calls the
callback of the failed query, which may call `query`. `stack` is the call stack
of the loop. An action is what runs between two calls out of the session; it
pushes the frame of what it calls, and the actions guarded by `Top = ...` go on
when control comes back. `Close` is the whole of `__clientclose` and `__onclose`
up to the user callback, and is reached from every place the code reaches it
from. A frame `"undefined"` stands for a use of the `client` that a close has
destroyed below `client::recv`: nothing is claimed after it, and the liveness
property excepts it.

`Faults` chooses what else fails: `::send` with an error other than `EAGAIN`,
`socket()`, `timerfd_create`, and callbacks that throw out of `__onclose` and
`__retry_timeout` (the ones in `msgdispatch` and `on_dispatch` are caught there).
A query that is old enough (`old`) is timed out by the next `__retry_timeout`.
The handler of a push and that of an answer differ in the command: a query's
own command has no handler. The server is the one of `mydispatch::server`: it
answers requests in order and sends no heartbeats of its own.

The queue of `QueryQueue` is `m_list`. The ghost `done` records the callbacks.

### Session

A send is a number. The foreign write is two actions, `SendForeign` (which
takes the mutex and reads the client) and one of `ForeignWritten`, `ForeignFull`,
`ForeignError`, `ForeignStray`, because the owner's loop goes on meanwhile: it
may flush `m_wbuffer`, or close the connection, in which case the number of the
descriptor may belong to another connection when the write happens
(`ForeignStray`). `Hand` is a run of `asyncnet::send` calls on the owner's thread.
`wire` is a history: what was written to each connection and by which of the
three ways. A callback handed to `notify` is run by its loop, but not always soon:
that a wake-up may be lost is what `Notify` shows, and a thread that is not the owner
hands its callback over in just that way (`session.cpp:15`). `lost` says that the
wake-up for the queued callback was read away. The callback then runs if and when
something else wakes the loop; nobody is assumed to do so, and no sender does, as
`m_notified` stays set. A write takes a message whole or not at all.

### FdTable

What the loop opens (listeners, connections, timers) is numbered; `file` says what
each descriptor refers to now, and the tables say whose callback each holds, so
that a callback left behind by an earlier owner of the number shows. `stack`
holds the callbacks that are running and what each of their callers will still
do: `"closing"` is a `__clientclose` that waits for the close callback,
`"client"` an `__onclient` with the event bits it has not come to. A callback may
do anything the library lets it do with what it validly holds (`known`): a
client keeps its `m_fd` until `client::clear`, a timer its `m_timer` until it is
stopped or expires. `OtherThread` takes and gives back descriptor numbers.

`batch` is what `epoll_wait` reported. An event names a descriptor, and by the
time it is handled an earlier handler may have closed that descriptor and
something else may have been opened under the number; the same goes for the
second half of `__onclient` after its read callback closed the connection. The
code cannot tell (`stale` records it): the handler then calls, clears or closes
what belongs to the new owner. The run ends there, and the properties are about
everything before.

A listener has no close callback, as no caller of `asyncsys::start` passes one
(`ListenCloses` is `{FALSE}` in the run; the assertion of `__emplace_back`,
`asyncnet.cpp:119`, is then false).

### Framing

A byte is the number of its message and its place in it, so that the contents of
the receiver's `ioBufferEx` need not be kept: they are the bytes of the stream
that were taken and not popped (`Avail`, `NextByte`), and `m_size`, `m_Pos` and
`m_max` are the counters of the code. `client::recv` is one action per call it
makes (`AppendBytes`, `DispatchWhole`, `DispatchPart`), as bytes arrive meanwhile; the
loop of `__send` one action per message. `Whole` is what `mydispatch` makes of
the length and the size it is given. Two things the code does not handle are
histories and exceptions of the properties: a send that was taken in part (`cut`,
below), and a length that is read before its bytes have arrived (`torn`). A
callback that closes the connection may destroy the client whose `recv` is
running; that ends the run.

### RedisCli and MysqlCli

Both keep their queries in `m_list`, have one at work, and come back by a timer;
both implement `QueryQueue`, as `MsgSession` does. They run on one loop, and
what makes them hard is again that callbacks call `query` in the middle; but
they call no socket themselves, so that a `pc` is enough and no stack is needed.

hiredis (in `RedisCli`) is what rediscli relies on: it keeps commands until the
socket is writable (`obuf`), calls the callback of the oldest on each reply, and
when a context goes, calls `cleanup`, then the callbacks that still wait, with a
null reply, and then the disconnect callback. The head is popped only after its
callback has run (`Returns`); `m_events` is the event mask, which `__onconnect`
overwrites and hiredis edits. libmysqlclient (in `MysqlCli`) has one call,
`mysql_real_query_nonblocking`, that begins a query and carries one on: `op` and
`asked` say which it will do. Each status it may return is possible at each call.

What the code does not handle is a choice of `Faults`, and recorded when it
happens: `conn = "stranded"` in `RedisCli` (no descriptor, hiredis connecting
anew by itself, no timer, a callback that throws in `__retry_timeout`, before the
timer is set, or below the disconnect) and `missed` in `MysqlCli` (a status that is ignored, a
connect that fails for another reason than the network, a callback that throws,
no timer). The properties say how far they go then.

A callback of `RedisCli` that throws on a reply (`Throws`, `rediscli.cpp:216`) leaves
through hiredis to `__wait`, before `pop_front` and `__onquery`: the connection stays
good, and the query stays at the head without text and callback (`spent`). Nothing
is sent for those behind it. Only a loss brings it out, by its age in
`__retry_timeout` (`ExpireSpent`); a client that connects again before that gives
hiredis an empty command, which it does not survive (`ConnectSpent`).

`MysqlCli` distinguishes the first result of an answer, after which `__onrecv`
asks for an error once more (`mysqlcli.cpp:192`), from those of the loop behind it
(198-202), where nobody does (`checked`): a connection that breaks while rows
are fetched there is found out by the next query that is started on it, and with none in the list the
client rests on it, without a timer (`missed`). The destructor of `rediscli`
leaves the retry timer armed, and the timer then uses what is destroyed
(`"undefined"`).

### ConnectPool

The lists of free clients are thread local and belong to the address, so that
pools of one address share them; the counter is the pool's, and atomic. An
operation touches its own thread's list and the counter once, hence one action
each. `obj` of a pool that was not made by `make` throws after it counted
(`CreateThrows`). The counter has `2 * Half` values, so that it wraps in a run
as an `int` would.

### Http

The stream is a sequence of units, the least pieces in which the parts of a
request (URL, header name, header value, body) may arrive; the parser calls a
data callback once for all units of a part that are at hand (`At`). `fed`, `upto`
and `base` are how far parser, dispatch and buffer are. A callback that throws
does so through `http_parser_execute` and `client::recv` up to `__wait`: nothing is
popped, and the next `recv` hands the buffer over again. A request that asks for
another protocol (`Upgrades`) stops the parser, and `dispatch` drops the rest of the
buffer as after an error (`DispatchReturns`), but the parser goes on with what comes next.

`conn` is the connection under it. An answer is two sends (`SendList`), each of which
may fail and close the client in the middle of `dispatch` (`asyncnet.cpp:340-343`): what
the client holds is parsed on, what is in the socket is not read. The next answer
finds the client invalid (`check_valid`, `session.cpp:51`) and makes the session
drop it, which destroys the client and the parser: nothing is claimed any more if that
happens below `dispatch` (`"undefined"`). The peer may hang up (`HangsUp`). Units
arrive between dispatches only (`UnitsArrive`), since nobody looks at the socket
during one.

### Registry, Md5, Base64, WsMsg, Address

`Registry` is about who waits for whom. Reading, inserting and erasing are one
step under their lock, but `emit` runs its callback under the read lock and
`for_each` its function under the mutex, so these are on the `stack` of their
thread while callbacks go on to other operations (`waits`). Callbacks keep the
rules stated at the head of the module, without which a thread waits for
itself at once. glibc's default lock prefers readers (`RdFree`): a nested `emit` is
safe for this reason only, and the mutant shows that it would not be with a lock
that prefers writers.

`Md5` is the context of `md5.cpp`, and `Md5Transform` what a block of 64 bytes
makes of its state, which is a parameter of `Md5`: a word is a sequence of 16-bit
limbs, two of them or four, since `UINT4` is an `unsigned long`. `Base64` and
`WsMsg` are the functions of the code, the loops of `base64.cpp` written by what
they leave at each place of their output. `Address` is over tokens, as the regular expressions
are of words, numbers and dotted quads. `Helpers` makes these one
specification: a behaviour is that of the registry, or of a digest, or one
conversion.

## Runs

| Run | Instance | Shows |
|---|---|---|
| `notify_safety` | 2 loops, 1 application thread, 3 tasks of which one throws and one stops the loop | types, no lock cycle, refinement of `TaskQueue`, only the eventfd read loses wake-ups |
| `notify_liveness` | the same with 2 tasks | a task whose wake-up is under way is run |
| `notify_lost_wakeup` | the same, nothing throws | **violation**: a wake-up is lost (below) |
| `msgsession` | 4 queries, 1 push, all faults | types, the wire carries only the head's messages, no idle session with queries, one way back, refinement of `QueryQueue`, every query is resolved |
| `session_sends` | 2 connections on 2 loops, 3 threads, 4 messages | each message in one place, the only reordering there is, parked work is notified and sent |
| `fdtable_safety` | 3 descriptors, 3 things opened | tables, close callbacks and closes belong to the present owner of the descriptor; nothing is closed silently, twice, or forgotten; buffered messages are armed; refinement of `Connections` |
| `framing_stream` | messages of 2, 5, 3 and 2 bytes, 2 of them the length; 3 bytes of buffer, 5 of connection | messages come in order, once and whole; `recv` leaves no whole message; each is dispatched in the end |
| `redis_client` | 4 queries, all faults | one command at a time, the head's; it is served or on its one way back; a loss fails one query; refinement of `QueryQueue`; every query is resolved |
| `mysql_client` | 4 queries of up to 2 rows, all faults | the same, but that nothing is on a wire: no query is started twice on a connection |
| `connect_pool` | 2 threads, 2 pools, 3 clients, counter of 3 bits | clients are not shared, not more than were held at once, and dropped only over the limit |
| `http` | 3 requests, the second without callback and asking for an upgrade, each of 10 units; sends that fail, hang-ups | each callback gets its whole request; answers are whole and in order; each request that the client read, but for those behind an upgrade, is handed to a callback |
| `utilities` | 3 threads, 2 events and objects, callbacks 2 deep; messages of up to 128 bytes in pieces of 8, 55, 64; up to 4 bytes of base64; sizes around 126 and the scaled 32-bit limit | no threads wait for each other; digests do not depend on the pieces; conversions are undone |

The type invariants of `Framing`, `RedisCli`, `MysqlCli`, `ConnectPool`, `Http`, `Registry`
and `Md5` are conjuncts of a property of their runs. (`Registry` and `Http` name theirs
`RegistryTypeOK` and `HttpTypeOK`, and likewise `Init`, `Next` and `Spec`, because a
module of proofs extends each of them together with another.)

*Bounds.* Two loops are enough for every pair of `m_mutex` and eventfd races,
since a loop interacts with another only as a caller of `notify`; three tasks
allow one in `m_trigger`, one in `taken` and one being run, and a thrower in
front of another task. Four queries allow one in service, one behind it, one
made from a callback of the first and one timed out; the states of the
connection do not depend on the number. One push is enough to find the session
in each of its states, as each is an event of its own. Two connections, each
owned by another loop, are what a session whose client changes hands needs, and
the third thread is one that owns neither; four messages fill all of
`m_list`, `m_wbuffer`, a write under way and the wire at once. The sizes of
`MaxQueries`, `MaxPushes` and `MaxMsgs` bound only the calls the environment makes.
In `FdTable` three things opened are a listener or connection whose event is
pending, one whose callback closes it, and one that gets its number; `MaxOpens`
bounds the calls, and the handlers of one descriptor do not look at a second
one but in `__onaccept`. In `Framing` one message is longer than the first buffer,
which must grow for it; it alone fills the connection, so that sends meet a full
and a nearly full one, and a read may end in every place of a message.
The four queries of `RedisCli` and `MysqlCli` are those of `MsgSession`; two rows
are a result that has a next one. In `ConnectPool` two clients that are out are
over the limit of 1, and the third is another thread's; counters of 3 bits wrap
after a few reuses. Three requests of `Http` are one before and one behind an upgrade,
and one that the client still holds when an answer of an earlier one fails; a
part of two halves is cut or not. Callbacks of `Registry` two deep are an `emit`
in an `emit` and one in a `for_each`; three threads are one that reads, one that
waits to write and one that has the mutex. 128 bytes of `Md5` are every place
the pieces lead to in a block (55, 56 and 64 among them), and the padding of one
and of two blocks. Symmetry is used in `connect_pool` and
`fdtable_safety`, which have no liveness property.

*Fairness.* Threads run and callbacks return (weak fairness of their steps).
`Push` and the notified callback of a session (`Notice`) are strongly fair: they
wait for a mutex that others may take again and again, and get it in the end;
`Notice` only while its wake-up was not lost.
In `Framing` what was written arrives, sockets are polled when they have room or bytes.
In `MsgSession` a connect ends, the server answers what it received, a timer
fires; `Age` is strongly fair because the clock goes on whatever the loop does.
Nobody is assumed to call `query`, `send` or `notify`, to break a connection or
not to. In `RedisCli` and `MysqlCli` the same: connects end, servers answer, timers
fire, callbacks return. In `Http` what has arrived is read and parsed; nobody is
assumed to send or to answer.

*Deadlock* checking is off where the behaviour is bounded by calls that may all
have been made, and a loop may be stopped.

## Proofs

All of them hold for every value of the constants that the `ASSUME` of the
module admits. `LoopsNeverCircle` has one hypothesis more, `NoAcceptCircle`, and
the last four of `FdTable` another, `NoListenClose` (nobody gives `start` a close
callback); their statements name them. The others have none.

| Theorem (module) | Statement | Argument |
|---|---|---|
| `TypeCorrect` (`BaseProofs`) | `Spec => []TypeOK` | inductive |
| `TasksRunAtMostOnce` | `Spec => []AtMostOnce` | with it: a task in `calls` is not yet in any line, and is there once per loop. No run checks it: in the runs it follows from the refinement |
| `WakeupsLostOnlyByRead` | `Spec => OnlyReadUncovers` | a loop that waits has no undispatched batch |
| `RefinesTaskQueue` | `Spec => ImplementsTaskQueue` | `taken` is empty outside `__onevent`; each action maps to a step of `TaskQueue` or a stutter |
| `LoopsNeverCircle` | `NoAcceptCircle` gives `Spec => []NoLockCycle` | of any set of loops one's accept callback notifies none of the set; a loop calls under its mutex only what its accept callback may call (`AcceptInv`) |
| `SessionTypes` (`MsgSessionProofs`) | `Spec => []TypeOK` | `TypeInv`: with the number of queries made bounded by `MaxQueries` |
| `AnswersServeHead`, `NoQueryForgotten` | `Spec => []WireServesHead`, `[]ListIsServed` | parts of `SessionInv`, below |
| `ComesBackOnce` | `Spec => []OneWayBack` | one timer or connection by `SessionInv`; at least one by `RetryInv`: while `conn` is closing, a frame that leads to `__retry` is on the stack |
| `RefinesQueryQueue` | `Spec => ImplementsQueryQueue` | the answer on the wire is the head's (`WireServesHead`) |
| `SendTypes` (`SessionProofs`) | `Spec => []TypeOK` | inductive |
| `NoticesCoverParked` | `Spec => []NoticeCoversParked` | with `SendingInv` it is inductive (`NoticeInv`) |
| `OnlyForeignReorders` | `Spec => []OnlyForeignOvertakes` | `OrderInv`, below |
| `MessagesInOnePlace` | `Spec => []InOnePlace` | `PlaceInv`: what is not written, the `m_wbuffer` and the wire of each connection, and what is gone share no message, hold none twice, and together are `1 .. sent` |
| `FdTypes` (`FdTableProofs`) | `Spec => []TypeOK` | inductive |
| `DescriptorsAreOwned`, `ClosedOnce`, `CallbacksAreOwn` | `NoListenClose` gives `Spec => []OwnDescriptors`, `[]CloseCalledOnce`, `[]OwnCallbacks` | `Owned`, below. No run checks the second: in the runs it follows from the refinement |
| `RefinesConnections` | `NoListenClose` gives `Spec => ImplementsConnections` | by `Owned`, below: a step opens, watches, tells or closes one, or leaves all as they were, but for `Throw` |
| `CommandIsTheHead`, `ServesOrComesBack` (`RedisCliProofs`) | `Spec => []WireServesHead`, `[]ServedOrComingBack` | `ServeInv`, below |
| `LossKeepsTheRest` | `Spec => LossFailsOne` | a callback on a loss begins when nothing is on the wire (`WireInv`) |
| `RefinesQueryQueue` | `Spec => ImplementsQueryQueue` | the queue is `m_list` without a head whose callback has begun |
| `ClientsAreNotShared` (`ConnectPoolProofs`) | `Spec => []NotShared` | each client is in one place, in the thread that made it (`ThreadInv`) |
| `ClientsWithinPeak` | `Spec => []NoMoreThanPeak` | a client is made only when the free list of the thread is empty, so all it made are out |
| `DropsOnlyOverLimit` | `Spec => DroppedOverLimit` | `CountInv`: the counter is at most the clients out and the `make`s that threw, unless it wrapped |
| `QueriesStartOnce`, `ServesOrComesBack` (`MysqlCliProofs`) | `Spec => []StartedOnce`, `[]ServedOrComingBack` | `ServeInv` of `MysqlCli`, below |
| `RefinesQueryQueue` | `Spec => ImplementsQueryQueue` | as in `RedisCliProofs`; `NumInv`, since a result is that of the query that was started |
| `DispatchedInOrder` (`StreamProofs`) | `Spec => []InOrder` (`Framing`) | `OrderInv` of `Framing`, below |
| `RequestsHandedWhole`, `AnswersComeInOrder` | `HttpSpec => []HandedWhole`, `[]AnswersInOrder` | `HttpInv`, below |
| `LocksNeverCircle` (`BaseProofs`) | `RegistrySpec => []NoDeadlock` | `LockInv`: a thread waits for no lock that the callbacks it runs may not ask for, so nobody who holds one waits for a holder of another |
| `DigestsOfWholes` (`BaseProofs`) | `HelpersSpec => []DigestOfWhole` | `HoldsMessage`, below |
| `ConversionsRound` | `HelpersSpec => []RoundTrip` | lemmas about the conversions, below; what is converted never changes (`InputsStay`) |

The invariants of `MsgSession` are not inductive: each is about the session at
rest or about the wire, and the code passes through states in the middle of
calls where they say nothing. `SessionInv` says what is true there: only
callbacks on messages and `client::recv` ever have something running above
them, so that the frames of a send and of a close are always innermost
(`StackInv`); how `conn`, `m_client`, the wire and `m_timer` go together
(`ConnInv`); that the send of a query is that of the head, on an empty wire
(`SendInv`); and that a connected session which waits with queries queued has a
callback on its stack whose return will call `__send` (`ServedInv`).

In `Session` a thread inside `client::__realsend` has `m_mutex`, is alone there,
and began when nothing was parked (`SendingInv`): that is why what it parks, the
youngest message, is behind nothing older. `OrderInv` extends the order of what
is written by what will be: each `m_wbuffer` and `m_list` is sorted, nothing in
a connection is younger than anything parked, and of what is on the wire only
foreign writes are younger than messages still in `m_wbuffer`.

`ServeInv` of `RedisCli` has two parts. `ConnInv` says how `m_state`, the hiredis
context and the timer go with the connection in the middle of each callback.
`WireInv` says that at most one command is under way, that it is the head's, that
none is while a callback runs, and that the event mask asks for its next event
(nor is one of a head whose callback threw, `spent`):
`__onconnect` overwrites the mask, and `query` and hiredis edit it, so that a lost
bit would leave the head waiting for ever on a good connection.

`Owned` of `FdTable` is about descriptors, about what is opened, about the stack
and about the events still to be handled. A callback that will be followed by
a close promises it to its caller: until then the descriptor is the caller's, is
in no epoll and is used by nobody (`FrameOk`), and no two frames of the stack
promise the same (`Shape`). What is open and not registered is promised to
somebody or was leaked (`SocketOk`), and so is a connection whose close callback
was called (`CloseOk`, which also says that the tables hold a close callback only of
what is owed a call of it, was told, or was leaked). An event is of the present state of what it is about, if
that is still open (`EventOk`). Every step touches one descriptor and what is open
there, and `LocalStep` says once why all the rest of the invariant stays. With `Owned`,
a close finds its connection without a callback or already told, and a call of the
callback finds it owed; so each step is one of `Connections`. That promise is about
order too: `__clientclose` keeps the descriptor until its close callback has returned,
so that nobody can get the number while the callback still runs.

`ServeInv` of `MysqlCli` has four parts. `ConnInv` says how the descriptor, the timer and
the library go with `m_state` in the middle of each callback, `AskInv` that what the
library is at work on, or has the result of, is the head. The history of the starts
needs the other two: the list holds the queries made last, in order, and none behind
the head was ever started (`NumInv`); and the head was started on this connection
only while it is at work or being answered (`OnceInv`), so that the next call of
`mysql_real_query_nonblocking` either carries it on or begins another.

`OrderInv` of `Framing` is about the place of every byte. What asyncnet keeps are the
last messages sent (`SendInv`); a byte that begins a message is followed by all of it,
and a byte that ends one by the begin of the next, if by anything (`StreamInv`); and what
has left the buffer is exactly what was dispatched (`FrontInv`), so that the first byte
still there begins the next message. It holds while the stream is in step; a message
that was cut, or a length read too early, leaves only `SendInv`.

`HttpInv` is over the numbers of units. `Req(n)` and `Cut(n)` say where in which request the
parser is after `n` of them. It stops within a part only at the end of what has arrived
(`PlaceInv`), hence hears of the halves of a part in one callback or in two, and
`m_request` ends with what there is of the request so far (`UrlInv`, `BodyInv`, `NameInv`).
After a callback has thrown, the buffer is parsed again from `base` by a parser that
expects a new request: if `base` is the begin of one, that request and its
successors are handed over again, and no header in `m_request` may by then be of a
later one (`HeaderInv`); otherwise the parser is `Lost` and calls nobody any more. While
none has thrown, callbacks, requests and pieces in `m_request` are as many as the
complete requests (`CountInv`), and nobody whose request is in `later` has been answered
(`WireInv`).

`HoldsMessage` of `Helpers` says what a digest context holds in terms of the message
alone (`Holds`): its count is the length, its buffer what is behind the last complete
block, and its state what `MD5Transform` makes of the complete blocks one after another
(`StateAfter`). `UpdateHolds` is the step: an update that fills no block only adds to the
buffer (`UpdateWaits`); one that does takes as its first block the buffer and the begin
of its input, as its others the blocks of the whole message behind that
(`UpdateTransforms`), and states may be made in two goes (`StateAfterMore`). The padding
is given to the context as two more updates, and there is one number of zeros that
fills up to 56 bytes (`ZerosAre`), so that what `MD5Final` makes is the digest of the
padded message (`FinalIs`). None of this looks into `MD5Transform`. `StateAfter` is a
recursive function, and nothing may be said of it by unfolding alone; that it exists is
`StateAfterDef`, and inductions over blocks are over the set of the numbers at which a
statement holds, which is all of `Nat` by its least element (`NatSetInduction`).

`ConversionsRound` rests on three lemmas. `BytesBack`: each character that is not a pad
stands for six bits (`Sextet`), the tables undo each other (`CharacterBack`),
`base64_decode` stops at the first pad (`StopsAt`), and of any three bytes two
neighbouring sextets give back one (`SextetsHold`), so that every place of the output is
that of the input or a zero. `HeaderIs`: the three forms of the size, by its two limits.
`UrlsSplit`: the last "@" is the one in front of the address, and no ":" is in a
password (`UrlWithPassword`); a name of one word leaves `spliturl` no
":" to find (`UrlWithoutPassword`). It needs of the words, numbers and addresses only that
none is a ":" or an "@" (`HelpersAssumption`).

Only model-checked: the liveness properties (`CoveredRuns`, `QueryResolved` of
the three clients, `ParkedIsSent`, `AllDispatched`, `AllHanded`), for which the
prover has no fairness rules. Every other property of a run that is expected to
pass is a theorem. What `MD5Transform` computes is not proved either, as it is
recursive and works on bits: TLC evaluates it, and `KnownDigests`, an assumption of
`MCHelpers`, compares two digests with those of RFC 1321.

## What the checks found

`notify_lost_wakeup`: `asyncnet::__onevent` takes the queued callbacks first and
reads the eventfd after. A `notify` of another thread between the two queues its
callback and has its wake-up read away; the descriptor is edge triggered, so
`epoll_wait` sleeps until somebody calls `notify` again. `OnlyReadUncovers`
shows that this is the only such window, `CoveredRuns` that everything else is
run. `test/main.cpp:107-110` hands `notify` a callback and counts on it.

The rest is what writing the models showed of the code. Unless it says
otherwise, a model contains it and the properties say where it ends their claims;
what no model contains is listed in the next section.

- Three assertions of the loop are false in use, and off in the default
  (release) build. A refused connection leaves its callback in `m_client`, so that
  the next `connect` that gets the number finds the slot taken
  (`asyncnet.cpp:116`). No caller of `asyncsys::start` gives the close callback that
  `__emplace_back` asserts (`asyncnet.cpp:119`). `::send` on a non-blocking socket
  may take a part of a message, which `send` asserts it does not
  (`asyncnet.cpp:348`) and `__send` does not look at: the rest is forgotten, and the
  receiver reads lengths where there are none.
- A descriptor that is closed and reused between `epoll_wait` and the handler, or
  by a callback in the middle of `__onclient`, gets the events of its earlier owner.
- `Md5` is not MD5 on a build where `unsigned long` has 64 bits: `UINT4` is said to
  be a four byte word (`md5.cpp:31-32`) and has eight. Digests still depend on the
  message only, which is what `DigestOfWhole` says of both; `KnownDigests` is about a
  build with four. The text of `md5::encode` is each word by `%x`, without leading
  zeros and with the bytes in the order of a number rather than of MD5.
- The string `base64::encode` returns holds the terminating NUL, so that its length is
  no multiple of 4 and `base64::decode` of it is all zeros. `RoundTrip` says both: the
  bytes come back without the NUL, and nothing but zeros with it.
- `asyncsys::splitaddr` takes `host:port` for a port on 127.0.0.1, as the pattern
  for a port alone is searched for before that for a name, and the first word of a
  name with dots for the name (`asyncsys.cpp:56-84`).
- `m_request` of the HTTP server is never reset, so that a request has the headers
  and the body of those before it on the connection. A callback that throws has
  its whole buffer parsed again. A header that arrives in two pieces becomes two.
- `rediscli` and `mysqlcli` are stranded by some failures, with nothing under way
  and no timer: when the library fails at once, when hiredis connects anew by
  itself, when a status is neither an error nor 0, when a connection breaks during the
  rows of a result that is not the first, when a callback throws on a loss or a timeout, when
  `timerfd_create` fails. The destructor of `rediscli` leaves its timer armed.
- A callback of `rediscli` that throws on a reply leaves its query at the head of a
  good connection: those behind it are not sent before the connection is lost.
- A callback that a sender of another thread hands to the owner of a session may lose its
  wake-up, as above; the session is then silent until something else wakes the loop.
- An HTTP answer that fails closes the connection in the middle of the buffer, and the next
  answer destroys the client whose `recv` is running. A request behind an upgrade is lost if
  it came in the same portion, and parsed if it came in the next.
- `obj` of a pool that was not made by `make` throws after it has counted the client.

The exceptions in the properties:

- `OneWayBack` of `MsgSession` excepts a `stranded` session (`socket()` or
  `timerfd_create` failed, or a callback threw out of `__onclose` or
  `__retry_timeout`): nobody calls `__retry` and it never connects again. The
  properties of `RedisCli` and `MysqlCli` except the cases above.
- `QueryResolved` of `MsgSession` also excepts one whose heartbeat called `stop`: it
  forgets its client and leaves the connection open, and is told of nothing
  any more.
- `ServedOrComingBack` and `QueryResolved` of `RedisCli` also except the queries behind one
  whose callback threw (`spent`). Order, and that none is resolved twice, are
  claimed after it too.
- `NoticeCoversParked` and `ParkedIsSent` except a connection on which a foreign
  write got an error other than `EAGAIN`: the message is parked and nobody is
  told. `ParkedIsSent` also excepts a session whose wake-up was lost (`lost`).
- `AllHanded` excepts requests behind one for an upgrade, those the client had not read when
  the connection closed, and everything after a callback threw or the client was
  destroyed below its `recv`.
- The properties of `FdTable` except behaviours in which an event met with the new
  owner of a reused descriptor (`stale`, the `lost` of `Connections`), and
  `CloseCalledOnce` and `Connections` (`"half"`) a connection whose close callback threw: `__clientclose` stops in the middle, and the next event
  of the descriptor calls the callback again.
- `InOrder` and `AllDispatched` except streams of which a message was cut or a
  length read too early: `mydispatch` reads `len` whatever the size is.

## What is not modelled

- Where callbacks are stored. A `std::function` of `m_read` or `m_close` is called in
  place (`asyncnet.cpp:206`) while it may resize the vector it is in (114-115: it
  connects, accepts or sets a timer) or clear its own entry (369, 554: it closes its own
  descriptor or stops its own timer). The models run every callback to its end.
- Partial writes outside `Framing`: elsewhere `::send` is all or nothing.
- A one-shot timer that stops itself in its callback and is closed once more behind it
  (`asyncnet.cpp:365`, `416`): in `FdTable` its owner has forgotten the number when it fires.
- Accept callbacks that notify along a circle of loops: `AcceptCalls` has none, and `NoLockCycle`
  says that nothing else makes one.
- The server of `MsgSession` beyond its answers. That it answers every query is an
  assumption about the other end: `mydispatch::server` ignores messages without
  payload (`mydispatch.h:21`) and those it has no handler for.
- A `connectpool` that was not made by `make` and has the address of one that was: its `obj`
  also loses a free client of the other (`connectpool.h:63-73`). No property is about how
  many clients are free.
- HTTP answers from other threads: what a session does with them is in `Session`.
- The `_ex` states of the loop, but as the redis and mysql clients use them; the
  sessions run on connections whose descriptors are not reused, except in
  `ForeignStray`.
- Destructors, but those of `rediscli` and `mysqlcli`; the wall clock going backwards;
  how threads are started.
- The layout of messages beyond their length; `on_dispatchex`, the protobuf
  dispatch and the generated protobuf code: maps from a number to a callback.
- kafka, which wraps a library and keeps no state of its own; `condition`,
  process, logging, strings, JSON and thread ids: straight-line helpers, without
  state that outlives a call.

## Plan

Done: the event loop (`Notify`, `FdTable`), the sessions (`MsgSession`, `Session`), the
streams (`Framing`, `Http`), the clients on libraries (`RedisCli`, `MysqlCli`), the pool, the
registry and its locks, the conversions, and the proofs above.

Left: `on_dispatchex` and the protobuf client, as a second kind of query of `MsgSession`.
