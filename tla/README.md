# dictionary_server: a TLA+ verification project

The repository holds a redis proxy (`ProxyServer/`), a sender that ships
dictionary files towards redis (`sender/`), a ZooKeeper helper (`public/`) and
a vendored copy of the muduo network library (`3thPartLibary/muduo`), which
both programs run on. This directory models them in TLA+, checks the models
with TLC on small instances and proves the central invariants with TLAPS.

The proxy and the parts of muduo it runs on come first: they are complete in
the source, and their correctness rests on callbacks, threads and tables that
tests hardly reach. Of the sender, the dictionary scanner is modelled; most of
the rest is a draft (section 1). `PROJECT.json` maps every definition to the lines it models and
lists runs, mutants, hazards and findings.

## 1. Inventory

| Component | State | Operations | Interacts with | What makes it correct |
|---|---|---|---|---|
| `ProxyServer` | `clientConns_`: redis connection id -> client | `onQuery`, `onSet`, `queryInLoop`, `setInLoop`, `commandCallback` | codec (callbacks), pool (calls), base loop (functors) | a reply goes to the client that asked, once; a request is served with its own message |
| `HiredisPool`, `Hiredis` | three maps of connections per server, a channel per connection | `connect`, `command`, and hiredis' connect, write, read, reply and disconnect callbacks | event loop (channels), hiredis (external) | a connection is in one map; a free one is idle; a reply finds its caller |
| `ProtobufCodec`, `Dispatcher` | none of their own; the connection's input buffer | `onMessage`, `parse`, `fillEmptyBuffer` | TcpConnection (bytes), ProxyServer (messages) | frames do not depend on how the stream is cut; damage closes the connection |
| muduo `Buffer` | a vector, two indexes | `readFd`, `append`, `retrieve`, `makeSpace` | codec, TcpConnection | the unread bytes survive every move and growth |
| muduo `EventLoop` | functor queue, wakeup descriptor, `quit_` | `loop`, `queueInLoop`, `runInLoop`, `quit`, `doPendingFunctors` | every other thread | no wakeup is lost, functors run once and in order |
| muduo `Channel`, `EPollPoller`, `PollPoller` | interest, index, the map of channels, the kernel's list | `enable*`, `disable*`, `remove`, `poll` | every class with a descriptor | what is asked for is watched; an event reaches a live channel |
| muduo `TimerQueue` | three sets of timers, one timerfd | `addTimer`, `cancel`, `handleRead` | callbacks and other threads | no timer lost, late, leaked, or ended by another's cancel |
| muduo `EventLoopThread` | `loop_`, a thread | `startLoop`, `threadFunc`, destructor | its owner | what is queued is run, the thread ends |
| muduo `TcpConnection` | `state_`, output buffer, channel | `send`, `shutdown`, `handleRead/Write/Close`, `connectDestroyed` | base thread and I/O thread | data before FIN, nothing used after its end |
| muduo `TcpServer`, `Acceptor`, `EventLoopThreadPool` | `connections_`, `idleFd_`, `next_` | `start`, `newConnection`, `removeConnection`, `handleRead` | base loop and I/O loops | map and functors agree; the server survives the descriptor limit |
| muduo `Connector`, `TcpClient` | the attempt, back-off, `connect_` twice | `connect`, `stop`, `disconnect`, `retry`, `restart`, destructor | timers, another thread | one attempt at a time, no leak, `stop` wins |
| muduo `ThreadPool` | queue, `running_` | `run`, `stop`, `runInThread` | the sender's `Scanner` | no task waits while a worker sleeps; `stop` returns |
| sender `Scanner`, `PreRankScoreDic` | last time stamp, data vector | `IsNewDictArrivedAndFetcher`, `FetcherData`, `TransferData` | pool threads | what is loaded is the file |
| `Configure` | addresses, counts | `parse` | the constructor of the others | constants of the models |
| `HashKit` | none | hash functions; only `hash_fnv1_64` is used | pool | a key always reaches the same server |
| sender `DispatchServer`, `Peer`, `TransferManager`, `SendHadler` | handlers, sessions | dispatch, blocking request | codec, peers | a session gets its own answer |
| sender `NodeManager`, `ConservatorHandler` | node table, ZooKeeper session | add, remove, expire, reconnect | ZooKeeper | the table follows the registry |
| sender `codec.h`, `Client`, `SystemConfig`, `StringUtil` | buffers, settings | length header, split, parse | | pure functions |

Hard behaviours: callbacks of hiredis in an order the pool does not choose;
requests handed between the I/O thread and the base loop; `state_` of a
connection read and written by two threads; start and end of loop threads;
descriptors and heap addresses that are reused while an older pointer to them
is still about; timers cancelled while they run; a client told to stop while it
reconnects; frames cut anywhere; connections, requests and descriptors at their
limits.

### Not modelled

- Generated code (`Query.pb.*`), logging, formatting, time and string utilities,
  `Configure` and `SystemConfig`: they compute values the models take as
  constants and keep no state the properties speak of.
- `HashKit`: the proxy uses `hash_fnv1_64` modulo the number of servers. The
  models take it as the constant function `serverOf`, so what is shown holds for
  every hash. Its 64-bit products exceed TLC's integers; `ketama`, `modula` and
  `random` are commented out, and `md5.c` serves only them.
- muduo's examples, tests, http and inspect servers, `protorpc`, `BlockingQueue`
  and `CountDownLatch`: neither program uses them. They are most of the
  repository's lines, which is why the map covers a small share of it.
- Sender: `DispatchServer`, `Peer`, `SendHadler` and `TransferManager` use types
  and members that are declared nowhere and register commands of another
  program (`sender/cmd`, in no build target); `NodeManager` and
  `ConservatorHandler` lean on an external ZooKeeper client whose behaviour the
  source does not show. Modelling them would be invention.
- Inside modelled classes: `TcpConnection`'s high-water-mark callback and
  `~TcpServer` (never used by the proxy), a second `TcpClient::connect()` and
  `~TcpClient` outside the loop's thread (see section 4), `Buffer::shrink`,
  `findCRLF` and the narrow integer accessors.

The vendored muduo lacks `Channel::disableReading`, which the proxy calls, so the
proxy is built against a later muduo; the parts modelled here are the same.

## 2. Modules

| Module | Models |
|---|---|
| `Hiredis` | pool and connections; one action per callback or call |
| `ProxyServer` | extends `Hiredis`: clients, requests, routing, two threads |
| `ReplyRouter` | the abstract promise of the proxy to its clients |
| `Buffer` | muduo's `Buffer` as a record with its operations |
| `ProtobufCodec` | extends `Buffer`: framing of one connection's stream |
| `EventLoop` | one loop, any number of other threads |
| `EventLoopThread` | extends `EventLoop`: owner, start, destruction |
| `Poller` | channels, both pollers, the kernel's interest list, reused descriptors |
| `TimerQueue` | timers as heap objects, the timerfd, users in and out of the loop |
| `TcpConnection` | one connection, base thread and I/O thread |
| `TcpServer` | accepting, the map, I/O loops, the descriptor limit |
| `Connector` | a connection attempt as a record with its member functions |
| `TcpClient` | extends `Connector`: the loop, the client, two other threads |
| `ThreadPool` | workers, queue, condition variable, `stop` |
| `Scanner` | extends `ThreadPool`: the dictionary file and its readers |
| `MC*` | constants and symmetry for TLC |
| `ProxyServerProofs` | theorems on the pool and the proxy |
| `EventLoopProofs`, `TimerQueueProofs`, `PollerProofs` | theorems on one loop, its timers and its pollers |
| `ConnectionProofs` | theorems on a connection, its buffer and the codec |
| `TcpServerProofs`, `TcpClientProofs` | theorems on the server and the connector |
| `ScannerProofs` | theorems on the thread pool and the dictionary |

Definitions whose comment begins "Mutant of" are faulty variants of the
definition after them. They are used by no specification; a mutant run puts one
in place of its original to show that the property it is paired with notices.

### Hiredis

A slot `<<serverId, connId>>` is one `ServerConn`. `inactiveConns_`,
`activeFreeConns_` and `activeBusyConn_` are the keys of the three maps;
`channel`, `reading` and `writing` say which slots have a channel and what it
watches; `replies[x]` is hiredis' queue of callbacks; `context` is the stage of
the `redisAsyncContext`. All handlers run in the base loop's thread, so each is
one step. hiredis is external: `redisAsyncHandleWrite`, `redisAsyncHandleRead`
and the tear-down of a context are modelled by the callbacks they make, in
their order (on tear-down: waiting commands get a null reply, then the
disconnect callback). A failed assertion, or the undefined behaviour behind it
in a build without assertions, ends the process: `fault` says where. `NDEBUG`
is the build: `removeChannel` destroys the channel whose handler is running, so
with assertions nothing gets past the first connect, and the runs that look
further use `NDEBUG = TRUE`, where the use of the freed channel may or may not
end the process (`DestroyChannelInHandler`). `disconnect()` has no caller.

### ProxyServer

A request is a member of `Commands`, an occurrence read once from
`connOf[r]`; `serverOf[r]` is where its key hashes. With `numThreads = 1` (what
`main.cc` passes) `runInLoop` queues the handler: `dispatching` is the request
whose callback is still on the I/O thread's stack, and a handler run after
`OnMessageReturn` reads a pointer out of scope, modelled as any request's
message or the end of the process. With `numThreads = 0` the handler runs at
once. `RequestInLoop` is `queryInLoop` and `setInLoop`, which differ in the
command text only. What happens inside one client's `TcpConnection` is left to
that module: here a reply is sent when the client is connected.

### EventLoop, EventLoopThread

`pc` is the place of the loop's thread; a push (under `mutex_`) and the
following `wakeup()` are two steps of a caller. `queued` and `executed` are
history. `EventLoopThread` adds the owner: `Publish` and `loop()` are separate
steps of the thread, `quit()` is two steps of the owner.

### TcpConnection

`send()` and `shutdown()` are split where the base thread reads `state_` and
where it acts on it. Data are counted in units and the kernel takes any part of
a write. A write that fails with `EPIPE` drops the message as `sendInLoop`
does, any other error buffers it; the write event is not handled before the
close of the peer while the channel is reading, which is the order of
`handleEventWithGuard`. Where `handleClose`, `removeConnectionInLoop` or
`Channel::remove` fails an assertion the model stops, whatever the build
(`fault`): with assertions the process ends there, and with `NDEBUG`, the build
the proxy needs, nothing is claimed of what follows. The liveness properties
excuse it (`~Alive`); section 4 says how it comes about.

### ProtobufCodec, Buffer

Bytes are numbered by their place in the stream, so that the buffer's content
says which bytes it holds. A frame is a record of what the codec reads from it;
the damaged frames differ from a good one in one field each (check sum, type
name, body, name length too small or too large, length too small, too large,
negative). A read is `readFd` with its two blocks; `retrieve` and `makeSpace`
move the indexes as the code does.

### Poller

One loop under either poller (`usePoll` is chosen at the start, as
`MUDUO_USE_POLL` is). `life` says what a `Channel` address holds. A handler or a
functor may do to the channels what muduo's classes and `Hiredis` do: a channel
is removed only when it has no interest, by a functor or in its own handler, and
destroyed anywhere once it is not registered, in its own handler too, as
`Hiredis::removeChannel` does against the assertion of `~Channel` (section 4;
the model goes on, as a build without assertions does, and the address may be
used again at once). The assertion of
`EventLoop::removeChannel` against removing another channel of the same batch of
events (`EventLoop.cc:213`) is a rule of the users, not something checked.
`Connector` removes its channel and destroys it later while the `TcpConnection`
for the same descriptor already has a channel; the model has that too. `lapsed`
is history: it marks channels that were once without interest, which
`PollPoller` does not watch again.

### TimerQueue

`heap` maps addresses to `Timer` objects and addresses are reused, so a
`TimerId` (address and sequence number) may be stale. `handleRead` is split into
taking the batch, one step per callback, and `reset`; between them callbacks add
and cancel. Another thread's `addTimer` is three steps: create, queue, and read
the sequence for the `TimerId`. The clock saturates at `Horizon`.

### TcpServer

Loop 0 is the base loop. A connection's `state` follows it from the functor that
establishes it to the last pointer that is dropped, and its descriptor counts
until then. `Acceptor::handleRead` at the limit is split at each system call
(close the reserve, accept, close, reopen), because other threads open
descriptors in between; if one does (`taken`), the code has no reserve left and
the properties say so.

### Connector, TcpClient

`Connector` is a record because every function of it runs either in the loop or
sets one flag from outside; `TcpClient` composes these functions. `stop()` and
`disconnect()` are split where other threads can see a step, and
`removeConnection` is split between its test of `connect_` and `restart()`.
`Destroy` is `~TcpClient` anywhere in the loop's thread: in a handler, after
`newConnection()` in the client's own callback, or between two functors, with
whatever is queued; only a destruction while another thread is inside `stop()` is
left out. `ConnectorGone` says that the last `ConnectorPtr` was dropped, and
`Dangling` that the Connector's channel or a functor with its bare `this` was
left; the model stops there.

### ThreadPool, Scanner

A worker's test of `running_` and its `take()` are separate steps; waiting on the
condition variable may end spuriously. A file is its version, its change time
and whether it ends in a newline. `Scanner` models what the statements of the
sender say; the header of the module lists the slips that keep it from
compiling, and a constructor that would never return, and how each is read.

## 3. Runs

| Run | Instance | Shows |
|---|---|---|
| `proxy_server` | 1 I/O thread, 2 servers x 1 connection, 2 clients, 3 requests (one client pipelines two) | routing, one own reply, refinement of `ReplyRouter`, progress |
| `proxy_inline` | no I/O thread, 1 server x 2 connections, 3 requests, one malformed | the pool's maps, channels and pending commands under competition; accepted commands are answered |
| `event_loop_thread` | an owner, 2 users, 4 functors, one queued by another | no lost wakeup, order, functors queued before `loop()`, join after `quit()` |
| `tcp_connection` | up to 3 answers of 3 units | bare `this` is safe, data before FIN, progress of close and shutdown |
| `protobuf_codec` | all streams of up to 3 of 11 kinds of frames, reads of 3 sizes | the buffer's content, independence of the cuts, exactly damage closes |
| `poller` | 3 channels, 3 descriptors, both pollers | no assertion of a poller, interest is watched, events and handlers to come are of live channels |
| `timer_queue` | 3 timers on 2 addresses, one-shot and periodic | armed in time, one owner per timer, nothing lost, cancelled stays out |
| `tcp_client` | 2 connection objects, delays 1 to 3 | no assertion on the Connector's state, who may leave something of it behind, sockets accounted for, `stop` stops, eventually connects |
| `tcp_server` | 0 or 2 I/O threads, 4 clients, 3 descriptors, 1 other user | map and functors, the reserve, waiting and closed clients |
| `scanner` | 2 workers, 2 queued checks, 2 replacements of the file | wakeups of the pool, what is loaded, `stop` joins |
| `hiredis_disconnect` | violation | assertion of `userDisconnectCallback` |
| `proxy_message_scope` | violation | message read out of scope |

Bounds. Two connections of one server are needed for competition, two servers
for ids that could collide, two clients for a misdirected reply, and two
requests of one client for a second answer; the two instances have them, and the
proofs of section 5 cover all larger ones for the safety properties they state.
`Word` stands for 2^32 in `genUniqueConId`; the proof needs only
`NConns <= Word`. In `tcp_connection` `shutdown()` follows every
answer, so one at most is accepted (`OneAnswer`, proved) and those after it are
refused; its three units are taken by the kernel at once, in part or not at all.
`sendInLoop` therefore never finds earlier data waiting. In `protobuf_codec` `kMaxMessageLen` is 20 instead of
64 MB, with frames at the bound and one above; the reads are shorter than a
header and a name, shorter than the largest frame and longer than several, and
the buffer starts smaller than a frame so that it must move, grow and use the
second block. `poller` needs three entries for a removal in the middle of
`pollfds_`, and an event list that is full at once. In `timer_queue` a third
timer must reuse an address, and two clock values lie in a new timer's future.
`tcp_client`: two `TcpConnection` objects, one more than are ever alive at once
(`ConnsOK`, proved), so a second one would show; the delays reach and stay at
their maximum.
`tcp_server`: two clients fit beside the reserve and a third is refused; two I/O
loops show the round robin. In `scanner` two workers overlap.

`CHECK_DEADLOCK FALSE` is set where the system may stop: a process that aborted,
a loop that was told to quit, a stream that has ended, a client or pool that was
stopped, a bound on clients or timers that is used up. `poller` never stops.

Fairness. The pool and the proxy: the loops keep handling ready channels and
queued functors, and redis answers a command it was sent (that is the
environment; if the connection is lost instead, the null reply answers).
`EventLoop`: a thread that can run does, but `poll()` is only sure to return
when the wakeup descriptor is readable; neither its ten-second time-out nor
other traffic is relied on, so a lost wakeup would show. Callers finish
`queueInLoop` once they have pushed. `TcpConnection`: both threads run their
queues and the peer reads; nobody has to send or to close. `ProtobufCodec`: the
peer sends its stream and `onMessage` runs on. `TcpServer`: loops run their
functors, which the base loop does after every round of events however many
there are (hence strong fairness for it), and the listening socket is read while
clients wait; clients need not come or go. `TcpClient`: the loop runs functors
and due timers; of the network it is assumed that, among infinitely many
attempts, `::connect` gets under way and a connection succeeds again and again
(strong fairness), as a server that comes back lets it. `ThreadPool`: every
worker that can run does, `stop()` goes on once begun, nobody has to call it.
`Poller` and `TimerQueue` are checked for safety only.

## 4. Findings

The two violation runs are disagreements between the code and one of its
assertions or comments; `PROJECT.json` quotes them: the map that
`userDisconnectCallback` searches (`Hiredis.cc:208`), and the message bound by
`std::ref` while `main.cc` takes one I/O thread for none (`ProxyServer.cc:140`).

Modelling met more. Four more places break an assertion or comment of the code
itself. The models have them, so TLC reaches each one, and the passing
properties name them as the exceptions they are:

- `Hiredis.cc:128`: `removeChannel` destroys the channel whose handler is running,
  which the assertion of `~Channel` (`Channel.cc:38`) forbids: from `handleWrite`
  on the first write event of every connection, and from
  `userDisconnectCallback`. The functor queued a line above to keep the channel
  alive holds another, unused pointer (`channel_`). In `Poller`, `Destroy(c)` runs
  in `c`'s own handler, and `ReportedIsAlive` speaks of the handlers still to
  come; in `Hiredis` the runs use `NDEBUG = TRUE`, and `DestroyChannelInHandler`
  may end the process.
- `Connector.cc:39`: `~Connector` asserts that `channel_` is null. An attempt that
  succeeds hands its connection over before the queued `resetChannel` has run;
  `~TcpClient` in between, in the client's own connection callback, in a later
  handler of the iteration or in an earlier functor, sees a connection, neither
  stops nor keeps the Connector (`TcpClient.cc:85-93`), and lets it go with
  `channel_` set. Without the assertion `resetChannel` (`Connector.cc:157`, a bare
  `this`) runs on a deleted object. So does a `stopInLoop` that is still queued.
  `ConnectorNeverAborts` says that this destructor is the only place that does
  so, and that nothing worse is left behind.
- `TcpConnection.cc:212`: `shutdown()` reads `state_` in the base thread and sets
  it later ("use compare and swap", 209). A connection closed in between comes
  back as `kDisconnecting`; a `sendInLoop` still queued then takes its data and
  enables writing, the next event closes the connection again, and the second
  `removeConnectionInLoop` fails `assert(n == 1)` (`TcpServer.cc:163`).
  `ClosedIsDestroyed` and `ShutdownTakesEffect` excuse it by `~Alive`.
- `PollPoller.cc:106`: an ignored entry's descriptor is never restored when its
  channel is enabled again, though the comments at 100 and 104 call it temporary.
  hiredis does that to every new connection (`delWrite`, then `addRead`), so under
  `MUDUO_USE_POLL` no reply would be read. `InterestIsWatched` excludes such
  `lapsed` channels. For the same poller, an `Acceptor` destroyed before
  `listen()` fails the assertion at 121; that is kept out of the model.

The others are races and limits a maintainer should know. Most are branches of a model, and the passing properties that meet them
name them as exceptions; a second `connect()`, a destruction from outside the
loop's thread and a stalled loop are kept out of the models, as said below:

- `EventLoop.cc:107`: `loop()` clears `quit_`, so a `quit()` before it is lost and
  `~EventLoopThread` never joins; `QuitInsideLoopJoins` speaks of the other case.
- `TimerQueue.cc:127`: `addTimer` of another thread reads the sequence of a timer
  the loop may have deleted, against "Must be thread safe" (`TimerQueue.h:47`).
  A `cancel` that overtakes the queued add has no effect, and a timer cancelled
  by an earlier callback of its own batch still runs once.
- `TcpClient.cc:175`: a `restart()` that has passed the test of `connect_` undoes
  a `stop()` (`overtaken` in `StopStops`). A second `connect()` while one is under
  way fails an assertion of `Connector`, and `~TcpClient` outside the loop's
  thread is unsafe. In the handler of another channel it may also remove the
  channel of an attempt whose event is in the same batch (`EventLoop.cc:213`). If
  the loop stalls for longer than the first delay, a retry may come before
  `resetChannel`. These last four are not in the model.
- `Acceptor.cc:80`: a descriptor opened elsewhere inside the EMFILE branch takes
  the reserve for good (`taken`), and the base loop spins while clients wait.
- `ProtobufCodec`: after damage only the write side is shut down; what the peer
  goes on sending stays in the input buffer.
- `PreRankScoreDic.cc`: the time stamp is advanced before the fetch, the vector is
  swapped without a lock, a file replaced within the second is not seen, and the
  rows of a file that ends in a newline are dropped. `LoadedIsTheFile` lists
  these exceptions and shows that there is no other.

## 5. Proofs

Every theorem has the form "specification implies always" or "implies the
abstract specification", for all values of the constants that satisfy the named
`ASSUME`s. Each component has one inductive invariant, a conjunction of named
parts; TLC checked it on the component's run, with `Nat` and `Seq` cut to finite
sets, before it was proved. A proof has one lemma or step per action, and below
it one step per part that the action can disturb. `RepliesAreRouted`,
`ProxyImplementsRouter` and the other results below are listed in
`PROJECT.json`.

### The proxy and its pool

All of these are in `ProxyServerProofs`.

- The pool: `IInv`. It strengthens the checked invariants by tying the map
  a slot is in to the stage of its context (`StageOK`), since a callback is known
  by the context it comes for while the code searches a map. From it:
  `TypeCorrect`, `SlotAccounting`, `FreeConnectionsAreIdle`, `AtMostOnePending`,
  `CallbackAssertionsHold`, `InterestHasChannel`.
- The proxy: `ProxyImplementsHiredis` shows every step of the proxy to
  be a step of the pool, so that `IInv` holds in the proxy. `IdsInjective` shows
  that `genUniqueConId` separates connections, and from these and `ProxyInv`
  follow `ProxyTypeCorrect`, `RepliesAreRouted` and `OneOwnReply`. The argument
  for routing: a new entry of `clientConns_` is made for a connection that was
  free, and `IInv` says no command waited there; a refused request writes under
  -1, which is no connection's id. The argument for a single reply: a client
  with an answer is no longer `kConnected`.
- `ProxyImplementsRouter`: the refinement. `OnePlace` is what it needs beyond
  `ProxyInv`: a request is once in the base loop's queue or once on a redis
  connection, never in both, so that a step which ends it in one place ends it
  altogether. Each callback of hiredis maps to an answer, a drop or a stutter
  of `ReplyRouter`.

### The loop

- `EventLoopProofs`: `LInv` says, beside the types, where a wakeup is owed and
  when the flag `callingPendingFunctors_` is up; from it `WakeupsAreNotLost` and
  `FunctorsRunInOrder`, the latter from lemmas on concatenation.
- `TimerQueueProofs`: `QInv`. `OwnersOK` divides the living `Timer` objects among
  the list, the batch whose callbacks run, the queued adds and the thread that
  has just created one; `HeapOK` makes sequence numbers tell them apart although
  addresses are reused; `ListsOK` keeps the two sets and the objects in step, so
  that `cancelInLoop` erases the entry it looks for. `FatesOK` relates the place
  of a timer to what was asked of it: one cancelled while in the batch is in
  `cancelingTimers_`, and that entry is found again by `reset` because the address
  cannot be reused before. `FdOK` is the armed timerfd. From it `TimerInvariant`,
  `NothingLostTheorem`, `CancelledStaysOutTheorem`, `ArmedTheorem` and
  `OwnedOnceTheorem` (by counting the four disjoint sets).
- `PollerProofs`: `PInv`. `MapOK` says that two channels in use never share a
  descriptor and that the map has the registered channels and nothing else, so a
  reused descriptor or address finds no trace of the last one. Under epoll
  (`EPollOK`) the index of a channel tells whether the kernel has its entry. Under
  poll (`PollOK`) every registered channel has a place in `pollfds_`, marked or not,
  and every place a channel; since a mark still names the descriptor, no two
  channels have the same place (`IndexUnique`). `removeChannel` moves the last
  entry: it belongs to some registered channel, and the descriptor it names,
  unmarked, leads through the map to that channel and no other (`InvPollRemove`).
  `ActiveOK` says that `poll()` reports a channel once and that it stays registered
  until its handler is called: what a handler removes is its own channel, so what
  it deletes, its own channel included, is never one still to come. From it `PollersNeverAbort`, `WatchedTheorem` and `AliveTheorem`.

### Connections

- `ConnectionProofs`, first part: `TInv`. `BareThisTheorem` says that functors with a bare
  `this` are never behind `connectDestroyed`. The argument: `connectDestroyed` is
  queued by `removeConnectionInLoop`, which runs in the base thread while that
  thread is in no `send()` or `shutdown()` of its own (`LastFunctor`), and only
  after the peer closed, from when `state_` is never `kConnected` again
  (`GoingDown`), although `shutdown()` may put it back to `kDisconnecting`.
  `DataBeforeFinTheorem` follows one answer: every accepted answer is followed by
  `shutdown()`, so one at most is accepted (`OneAnswer`), and its units are in the
  queued functor, in the buffer or on the wire (`UnitsAccounted`, `FinOK`). The
  types of the counters follow from that accounting (`TcpTypes`).
- `ConnectionProofs`, second part: `FInv`. The lemmas on `Buffer` are the contracts of
  its operations: `makeSpace` leaves `Content` alone whether it grows or moves
  (`MakeSpaceKeeps`), `append` and `readFd`, with one block or two, put their bytes
  after it (`AppendAppends`, `ReadAppends`), `retrieve` takes from the front
  (`RetrieveTakes`). With them `BufferTheorem` is one step per action. `FilledParses`
  shows that what `fillEmptyBuffer` makes, `parse` accepts and has the length its
  header says. So the frames before the front one are intact and dispatched
  (`DispatchedOK`), a rejected front frame is damaged (`ShutOK`), and between two
  reads nothing more can be taken (`QuietOK`), which gives `ChunkingTheorem` and
  `ClosesTheorem`. The positions of the frames, a recursive function of the stream,
  are treated by the least place where a claim would fail (`FirstOne`): `EndExists`
  shows that the recursion has a solution, `EndIs` and `EndGrows` what it says.
- `TcpServerProofs`: `VInv`. `FunctorsOK` says what state a queued functor finds
  and that it waits once; `ConnsOK` that a connection whose state calls for a
  functor has it. With `IdsOK` (an id is given once) this is `MapTheorem`.
  `FdsOK` counts descriptors: while the reserve is given up, its slot stays free
  unless another thread took it (`ReserveTheorem`). `NotStarted` says that
  the base loop does nothing before `start()`, which therefore finds it idle.
- `TcpClientProofs`: `CInv`. `FunctorsOK` says that no functor waits twice and what
  state of the Connector it finds: `startInLoop` an idle one, `resetChannel` a
  removed channel, `stopInLoop` only after `stop()`. `OneAtATime` says that a
  timer, an attempt and a connection exclude each other, which is why the
  assertions of `NeverAbortsTheorem` hold; the theorem also says that a Connector
  is let go with something left of it only by `~TcpClient` with a connection; `ConnsOK` that at most one connection is not
  destroyed (`SocketsTheorem`); `StopOK` that what runs after `stop()` is taken back by
  the `stopInLoop` that waits (`StopTheorem`); `GoneOK` what is left of the
  Connector after `~TcpClient`. The lemmas `RetryDrops`, `StopDrops`,
  `FailuresDrop`, `StartStarts` and `HandleWriteConnects` are the contracts of its member
  functions.

### The sender

- `ScannerProofs`: `PoolInv` is `NoTaskWaitsForSleeper` with the types; the work is in
  counting the woken workers (`OneMoreWoken`, `OneLessWoken`) through `notify`,
  spurious wakeups and the exit of a worker. `DicInv` follows one check of the
  file: unless checks overlapped there is one checker, change times only grow
  (`TimesOK`), so rows read under the current time stamp are the current file's
  (`ReadIsTheFile`). From these `PoolWakesEnough` and `DictionaryIsLoaded`.

### Assumptions, and what is not proved

The assumptions on constants are the `ASSUME`s of the modules, evaluated by the
runs: bounds are naturals, the ids of connections fit their word, workers, timer
addresses and descriptors are finite sets (they are counted), `Conns` is a non-empty set of
positive numbers (0 stands for no connection). `StreamsAssumption` says what a peer
sends: frames of `fillEmptyBuffer` that are not above `kMaxMessageLen`, and damaged
frames whose damage the codec can tell, either by the length or, the length being
right, by another field. A length that is wrong but in range makes the codec wait
for bytes or cut elsewhere, and damage that keeps the Adler sum passes; nothing is
claimed of them. Actions that a model bounds
(`MaxSends`, `MaxTimers`, `MaxClients`, ...) are bounded by arbitrary constants.

The type invariants, `FreeIsIdle` and `IInv` are proved for all instances, so no
run repeats them. Every invariant, action property and refinement a passing run
checks is stated by a theorem, except the liveness properties. Only
model-checked are those that need fairness, which is out of the prover's reach:
`PendingAnswered`, `TakenIsAnswered`, `QueuedBeforeLoopIsCalled`,
`QuitInsideLoopJoins`, `ClosedIsDestroyed`, `ShutdownTakesEffect`, `StreamIsRead`,
`EventuallyConnects`, `BacklogDrains`, `ClosedIsForgotten` and `StopJoins`.

## 6. Plan

All components the proxy runs on are modelled, and their safety is proved. What
could be added, in this order:

1. for `EventLoopThread`, the safety side of its liveness: that `EventLoop`'s
   invariant `LInv` holds there too, as the pool's does in the proxy;
2. for each liveness property, the invariant that names what is enabled in the
   states where it still has to happen, so that only the fairness argument is left
   to TLC;
3. the parts listed as left out in section 1, should the programs come to use them
   (the high-water-mark callback, `~TcpServer`, a second `connect()`).
