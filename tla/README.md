# A TLA+ model of fuurin

fuurin lets *workers* share topics through a *broker*.  A worker dispatches
topics, the broker stores and relays them, and a worker that joins late asks the
broker for a snapshot.  Both are `Runner`s: an object the application owns, which
starts a `Session` in a thread of its own and talks to it over inproc sockets.
This directory holds specifications of those parts translated from the C++
sources, the TLC configurations that check them on small instances, and proofs
checked by TLAPS that most of the safety properties hold for every instance.

`PROJECT.json` lists, for every definition that models code, the lines it stands
for, and for every property a variant of the code that breaks it.  The operators
marked "Variant" in the modules are those broken forms; no specification uses
them.

## The system

| part | state | operations | hard part |
|---|---|---|---|
| `Runner`, `Session` | `token_`, `running_`, three inproc channels, the future of the thread | `start`, `stop`, `isRunning`, operations, events, `Session::run` | channels outlive the sessions; the 8-bit token is all that separates them; `isRunning` from a second thread; starts that throw |
| `Worker` | `seqNum_`, the conflated report of the session | `dispatch`, `sync`, `seqNumber`, `prepareConfiguration` | the number must survive sessions that end at any point |
| `zmq::Timer`, `IOSteadyTimer` | the ASIO timer, two promises, the notification socket | `start`, `stop`, `consume`, `isActive`, the handlers | two threads; handlers already queued when a cancel arrives; who deletes the timer and when |
| `ConnMachine` | `state_`, two timers, the sockets | `onStart`, `onStop`, `onPing`, two expiries | lost announcements and keepalives, broker restarts, expiries that were not consumed before a restart |
| `SyncMachine` | `state_`, indexes, retries, `seqNum_`, a timer, a socket per index | `onSync`, `onHalt`, `onReply`, `onTimerTimeoutFired`, `setNextIndex` | late replies, cut snapshots, numbers that start over |
| `BrokerSession` | `storTopic_`, `storWorker_`, `zhugz_` | `collectWorkerMessage`, `storeTopic`, `replySnapshot`, `sendHugz` | duplicates, eviction, discarded topics |
| `WorkerSession` | `workerSeqNum_`, the two machines, the sockets | `operationReady`, `socketReady`, `collectBrokerMessage`, `recvBrokerSnapshot` | two sockets that race, stale readiness in one poll batch |
| `LRUCache` | list and map | `put`, `find`, the update in place | who is evicted |
| `zmq::Part`, `PartMulti`, `Topic`, `Event`, `Operation`, configurations | bytes | `pack`, `unpack`, `toPart`, `fromPart`, `withSeqNum`, `toUint64` | lengths at their limit, Parts that are too short, signed bytes |
| `WorkerServiceImpl` (gRPC) | the calls, two loops, `active_`, two cancellations | the RPCs, `WaitForEvent`, `runClient`, `runEvents`, `shutdown`, the destructor | many threads on one socket, sessions that fail unseen, shutdown at any moment |
| `zmq::Socket`, `Poller`, `PollerAuto` | the ZeroMQ socket, its endpoints, the observers of a socket, what a poller polls | `open`, `close`, constructors and destructors of pollers | `open()` that throws at any step, names still in use, pollers told of sockets and sockets of pollers |
| `Cancellation`, `waitForEvent` | a deadline on an `IOSteadyTimer`, the queue of events | `cancel`, `setDeadline`, `waitForEvent`, the `waitFor` helpers | threads that take each other's events, a deadline among a flood of them |
| `Arg`, `Uuid`, `Part`, `TokenPool` | counted blocks, a string made on demand, owned buffers, tokens in a socket pair | copies, moves, assignments, conversions | several threads, deletion by the last holder |
| settings | topics and endpoints of the object, of the configuration, of the sockets | the setters, `prepareConfiguration`, `connOpen`, `sendSync` | changed while a session runs and reconnects |
| C bindings | the future of the last session | the functions of `CWorker` and `CBroker` | deletion at any moment |

The parts interact as follows.  The application calls `Runner`, which sends
operations to its session.  A worker's session drives the two machines, which own
timers and open and close sockets.  The broker's session receives topics and
announcements on one pair of sockets, relays on the same pair, and answers
snapshot requests on another one.  Nothing orders what travels on the two.  The
gRPC service wraps a worker: calls of its clients become requests to the one thread
that drives it, and its events are published to the streams of the clients.

## Modules

- **Runner** - the caller's thread, another thread inside `isRunning()` and the
  session threads, over `ops`, `evs` and `fin` (the conflated completion).  `start()`
  is two actions (`Start`, `StartSends`), because the session's thread runs between
  `std::async` and the sending of the configuration, and `isRunning()` of another
  thread is two (`ObserverTakes`, `ObserverStores`).  `gen` numbers the calls of
  `start()`; the code never reads it.  `StartThrows` is `createSession()` throwing
  while the caller keeps the future of the last session.  `stuck` holds the sessions whose
  thread waits in a receive (`RecvBlocks`, `RecvReturns`).
- **Worker** - extends Runner with the life of the sequence number: each action of
  Runner that carries the number is conjoined with what it does to it.  The number
  goes to the session packed in the configuration, and comes back as a Part of its
  own read by `toUint64()` (`Reported`), a different conversion.
- **CBindings** - extends Worker with what a C object adds to it, the future of its
  last session and its deletion, for a worker and for a broker; the functions of the
  binding are named as in C.
- **Timer** - the owner's thread and the ASIO thread.  `stop()` is three actions
  because it blocks twice.  `io` is the queue of handlers.  **TimerSpec** is what a
  timer promises to its owner, in two variables; Timer is checked to implement it,
  and the machines instantiate it for their timers.  **Cancellation** is the other user
  of the same `IOSteadyTimer`: a single shot whose expiry is never read.
- **Sockets** - sockets that open over a list of endpoints, one action per endpoint and
  per observer told, and pollers that are made over an array of them, one action per
  socket; `Shut` is what `close()` and every exception undo.  ZeroMQ keeps the name of a
  closed socket for a while (`closing`).
- **Waiting** - threads in `waitForEvent()`, each with its batch of ready items, on one
  queue.  A call with a timeout binds the one inproc name its Cancellation has in every
  call, and fails when another call holds it.
- **Args** - log arguments as slots that refer to counted blocks, arrays among them,
  whose elements are slots too; an assignment releases, then copies, in two actions, and
  a deletion destroys one element at a time.
- **Uuids** - the string of a Uuid, written in two halves under its mutex, while other
  threads ask for it.
- **Transfer** - Parts that own buffers, and messages of two Parts sent and received
  frame by frame.
- **TokenPool** - threads on a pool, its tokens in the bytes they travel in and read by
  `toUint32()`.
- **Subscriptions** - topics and endpoints from the setters of the C++, C and command
  line interfaces, through the configuration packed at `start()`, to the sockets a
  session opens, reopens and asks for snapshots with, for a worker and for a broker.
- **Library** - the eight classes above side by side.  They share no state, so that a
  behaviour of Library is one of one class while the others rest, and their state spaces
  add up.
- **ConnMachine** and **SyncMachine** - one action per handler.  `calls`, `closed` and
  `asked` report which callbacks the handler made.
- **Connection** - ConnMachine, the broker's keepalive and a network that loses
  messages, with broker and worker started and stopped at will.  `heard` and `topics` are
  what the worker's socket has received, `thread` where its session is: in the loop, or in
  one of the two receives.
- **Synchronization** - SyncMachine, the requests at the brokers behind its sockets
  and the replies on their way.  A broker may answer late, partly, or not at all; `thread`
  is as in Connection, and may have thrown.
- **WorkerSession** - the loop of a session, with both machines instantiated.
  `Wait` takes all the ready items at once in the order of the poller, and one action
  per item serves them; the handlers close, open and notify as the callbacks of the
  machines say.  An exception of `open()` ends the loop.
- **LruCache** - the cache as operators on sequences.
- **Broker** - the storage of a broker session; **Delivery** - workers, channels,
  the broker and a receiver with its snapshot downloads, losses, reconnections and
  restarts; **MCDelivery** gives the topics of the runs.
- **Packing** - the bytes of a Part, integers, strings, arrays and containers in it;
  **Messages** - topics, events, operations and configurations on top of it;
  **Exchange** - one message from sender to reader; **MCExchange** gives the messages.
- **Service** - the threads of the gRPC calls as the client makes them, the client and
  events loops, and the thread that shuts the service down.  A `Dispatch` is open (`reading`)
  until its client closes it, and a stream is `stalled` while its client does not read.
- **RunnerProofs** (Runner, Subscriptions, Waiting), **TimerProofs** (Sockets, Timer,
  Cancellation, TimerSpec, ConnMachine, Connection), **TransferProofs** (Uuids, Transfer),
  **ArgsSyncProofs** (Args, Synchronization), **WorkerSessionProofs**,
  **DeliveryProofs** (LruCache, Broker, Delivery), **ConvergenceProofs** (Delivery,
  on top of the former) and **ServiceProofs** - the theorems.

What the models abstract: outside Packing, Messages and Exchange a message is a
record, and a topic its worker, number, name and type; everywhere, uuids and addresses
are values; logging is left out, and so is the time that passes (a timer may expire at
any moment once armed).  The messages of a PAIR, PUSH or CLIENT socket are FIFO;
RADIO/DISH ones are FIFO and may be lost.
These assumptions, and the behaviour of ASIO's queue, are external to the code.

## Runs

| run | distinct states | asks | result |
|---|---|---|---|
| `worker` | 362,059 | a worker or a broker behind its C binding: several sessions over the same channels, token of three values, a start that may throw, dispatching, `seqNumber()` read at any time, deletion | `ExclusiveSession`, `OwnOperations`, `EventOrder`: one session at a time, own operations only, events in order; `StopEndsSession`, `DeleteReturns`: a session told to stop ends and deletion returns, unless the session waits for ever in a receive; `NumbersIncrease`: numbers sent to the broker increase over all the sessions |
| `library` | 72,520 | each class of Library by itself | `NoDangling`, `TimerProgress`, `Implements`: no access to a deleted timer, `stop()` returns and a timer left alone expires, TimerSpec is implemented; `PollersFollow`, `OpenIsWhole`, `OpenReturns`: pollers poll what is open, `open()` is all or nothing and ends; `TimeoutIsTrue`, `WaitEnds`: a timeout is told after the deadline and not before, and a wait with one ends, in the timeout, an event or the failure to bind; `RefCounts`, `StringsTrue`, `MessagesWhole`, `TokensConserved`, `SettingsOfStart` |
| `connection` | 14,358 | a worker and a broker over a lossy network | `TimersFollow`: timers follow the state; `Reconnects`, `NoticesLoss`: a running broker is found and a lost one noticed, unless the thread waits for ever in a receive |
| `synchronization` | 27,330 | two sockets, one retry, snapshots of up to two elements | `OneSocket`, `OnlyCurrentReplies`, `WholeSnapshot`: success means a whole snapshot of the current request; `DownloadEnds`: a download ends, with the same exception |
| `delivery_lossy` | 520,980 | two workers, two names, losses, reconnections, repeated downloads | `BackIsLatest`: the storage ends with the last topic of each name; `Converges`: a receiver that completed a download and lost nothing has it |
| `delivery_restart` | 227,849 | two channels per worker, restarts of all three, a storage for one name | `RelayedOnce`, `DeliveredOnce`: no topic is relayed or delivered twice or after a newer one, within a session |
| `worker_session` | 405,964 | one session from start to end, timers and messages in the middle of a batch, `open()` that throws | `PolledIsOpen`, `EventProtocol`, `EmptyOnlyReopened`: the poller holds the open sockets, the events come in order, and a socket is read empty only while it is being reopened or was closed by a timeout |
| `exchange` | 178,009 | messages of every kind with lengths around the limits, and Parts nobody packed | `RoundTrips`, `ReadsWithin`: what is read is what was sent, only what cannot be stored is refused, nothing is read past the end |
| `service` | 229,322 | a getter, setters, a Dispatch, a stream, sessions that fail or do not stop, a shutdown | `StreamShape`, `NothingMissed`, `NoSessionLeft`, `Answered`, `ShutdownEnds`: streams are whole and miss nothing, getters return, shutdown ends and leaves no session, unless a client or a session holds it up |

Three runs look for a behaviour that a text in the sources excludes, and find it:

- `delivery_empty_topic`: `storeTopic()` leaves an empty entry for the name of a topic
  it discards, on which the next snapshot asserts.  It takes a worker that restarts
  with the same uuid and a lower number.
- `worker_high_bytes`: `toUint64()` converts each `char` on its own, and where `char` is
  signed a byte of 0x80 or more fills all the bytes above it.  The number a worker
  reports is then read as one close to 2^64, from which the next session goes on, until
  it comes round.  A number is exact as long as only its top byte is above 0x7f; the
  `worker` run stays within those.
- `service_crossed`: two getters wait on the one CLIENT socket of the service, and one
  takes the reply meant for the other.

Other differences between texts and code that the models make visible, without a
run of their own: `onSync()` uses `nextIndex()` only after a failure, whereas
syncmachine.h says always; exceeding `maxRetry()` leads to `Failed`, whereas
syncmachine.h says `Halted`; a snapshot holds one topic per name, whereas worker.h
speaks of every stored state; after 256 starts in a row that throw, the token comes
round; an expiry that was not consumed before a ping still drops the connection that
the ping confirmed; an event relayed before a snapshot and read after it is discarded
when an element of the snapshot had a higher number.  `waitForStarted()` takes the first
`Started` in the queue, which may be one that an earlier session left there.

The receives of `socketReady()` (sessionworker.cpp:147, 155) have no timeout, and several
properties have them as their exception.  When a timeout and a message are in one batch,
the timeout closes and opens the socket, and the receive that follows waits on a socket
with nothing in it; the session serves nothing, not even a `Stop` or its timers, until a
broker sends something.  On a socket that was closed for good the receive throws, and the
session ends.  `EmptyOnlyReopened` says when this can happen, `stuck` of Runner and `thread`
of Connection and Synchronization are what it does there, and it sets bounds to three
statements of the repository's README.md:

- line 91, that a worker connects again by itself: `Reconnects` holds unless the thread
  waits for ever, for a snapshot, or for a delivery from a broker that no announcement
  reached;
- lines 154-155, that a synchronization is retried until it succeeds: there are `maxRetry()`
  retries, after which it has failed, and `DownloadEnds` holds with the exception above;
- that a session stops when told to: `StopEndsSession` and `DeleteReturns` hold with it.

`server_->Shutdown()` of the service has no deadline and waits for the calls in progress.
A client that keeps its `Dispatch` open, or does not read the stream of its `WaitForEvent`,
keeps `shutdown()` from returning, and so does a session that does not stop (`HeldUp`);
`ShutdownEnds` says that nothing else does.

A `Start` that follows the failure of a session, before the monitoring timer of
`runClient()` has released it, throws out of that loop: `Answered` and `ShutdownEnds`
speak of the behaviours in which it did not.

Reading the smaller classes brought out a few more points, which the models keep to one
side of, or which no property is about:

- Two threads in `waitForEvent()` with a timeout bind the same inproc name
  (runner.cpp:203): the second tries for five seconds and throws, although runner.h:241
  calls the function thread-safe.  `BindFails` of Waiting is that exception.
- A second deadline, or `cancel()`, while a deadline is pending deletes an `IOSteadyTimer`
  whose handlers are still queued (zmqcancel.cpp:103).  No caller in the code does it, and
  Cancellation sets one deadline per object.
- `Uuid::operator=` locks its left side only: copying an object while another thread
  converts it is a data race, left out of Uuids.
- Assigning to an array argument one of its own elements reads the block that the
  assignment has just released; no caller does, and Args has no such step.
- `TokenPool::get()` reads a token with `toUint32()`, which sign extends like `toUint64()`:
  the token 128 comes out as 0xffffff80, and so does 384.  A range such as 0 to 255 gives
  out numbers that are not in it, and one up to 384 the same number twice.
  `TokensConserved` counts tokens by what `get()` makes of them.
- A `TokenPool` whose last token is the largest value of its type fills itself for ever;
  the range that is checked ends before it.
- A topic named `HUGZ` is taken for a keepalive and never delivered; `UPDT` is refused.
- `LRUCache::put()` never returns `end()`, so that the "too many topics" branch of
  sessionworker.cpp is not reached.

### Bounds

- `Worker`: `TokenMod = 3` makes the token come round within four starts, one of which
  may throw: a session, a failure, a successor and a second holder of the token.
  `MaxOps` bounds the queue so that leftovers of a session and the operations of the
  next fit.  Numbers have two bytes of 16 values; the session stops dispatching at
  `MaxSeq`, from 0 in `worker` and from 14 in `worker_high_bytes`, where the bound is
  met only after the number came round.
- `Timer`, `Cancellation`: objects are reused after four, more than can be referenced at
  once.
- `Sockets`: two sockets and two pollers of one thread and a socket of another that wants
  the same names; two endpoints are the least that can fail half way, and arrays hold two
  different sockets or the same one twice.
- `Waiting`: two threads, two types and two events: one to take, one that is not waited
  for.
- `Args`: three arguments and two blocks, arrays of two: a block held by an element of
  the other, and further holders.
- `Uuids`: two objects, two values and two threads, one of which owns both objects.
- `Transfer`: a pipe of one message and four buffers, one per Part; a fifth owner is a
  frame on its way, for which a Part has given its buffer up.
- `TokenPool`: bytes of four values and tokens of two bytes, 2 to 6: with bytes in the upper
  half and without, and two, 2 and 6, that `toUint32()` reads as the same number.
- `Subscriptions`: two topics besides `UPDT`, a default address and another, lists of at
  most two.
- `Connection`: two messages each way, one current and one late, and two of each kind in
  the worker's socket.
- `Synchronization`: two indexes and one retry give every way a socket is left; the
  code's own values are one index and one retry.  `SeqMod = 16` for 256: the numbers
  come round, and the messages in flight are of one request.  A session whose receive throws is
  over, so that the run does not check for deadlock.
- `Delivery`: two topics per worker are the least in which one overtakes the other.
  Capacities leave no worker out of `storWorker_`, beyond which the code promises nothing.
  In `delivery_lossy` they leave no name out of `storTopic_` either; that `BackIsLatest` and
  `Converges` outlive an eviction is what the theorems say.
- `WorkerSession`: `SeqSize = 2` lets request numbers repeat; one waiting message per
  socket is enough for one read and one left behind, two operations for one served and
  one waiting.
- `Exchange`: bytes of 16 values and lengths of one byte bring the largest length down
  to 15, so that strings and containers of exactly that size, and of one byte more, are
  among the messages; names have at most two bytes.  Parts nobody packed have up to ten
  bytes, three more than the smallest topic: enough for one whose name is cut.
- `Service`: one getter, one `Dispatch` and any number of setters, with two requests on the
  wire, one behind the other; in `service` the two kinds of getters are one, since they
  differ in the reply only, and `service_crossed` has both and two calls, the least that can
  cross.  One stream, two events and a queue of two give an event before, during and after
  the join, and two that wait for a client that does not read.
- Symmetry is used for workers, only in runs without temporal properties.

### Fairness

Threads that can run do so: the session's loop and the caller inside `start()` or the
deletion of a C object (Runner, Worker, CBindings), both threads of a timer, a thread
inside `open()` or `waitForEvent()`, the sessions' handlers, the loops of the service,
its calls once they have a message to receive, and the thread that shuts it down.  Armed
timers expire, deadlines pass, and `bind()` gives up on a name that stays in use, because
its tries are bounded in time.

The thread of a worker's session may be held up in a receive, again and again.  Its steps
are strongly fair, because whatever is ready when the thread returns to its poller is in
the next batch; nothing obliges a receive to return.  In Connection the arrival and the
handling of keepalives and announcements are strongly fair as well: the network may lose
any message, not all of those sent again and again.  A stream of the service goes on if its
client reads from time to time.

Nobody is obliged to call anything, a broker to answer, a client to read or to close its
stream, a session of the service that was told to stop to do so, nor anything to fail.

## Proofs

Every theorem holds for all values of the constants within the named assumptions of
the modules, and whatever hypothesis is said below.  TLC checks the same definitions
on the runs above.  An invariant that a run checks is seldom inductive; what follows
says what the proof adds to it.

- **RunnerProofs**, Runner: `TypeOK`, `ExclusiveSession`, `OwnOperations`, `StartFirst`
  and `EventOrder` hold under `NoWrap`: either no start throws, and then the token may
  come round as often as it likes, or fewer starts are tried than there are tokens.
  The inductive invariant says where the one live session is (loop, ending, conflated
  completion, or completion taken by the second thread), that operations are queued in
  the order of the sessions, that leftovers precede the session's `Start`, and that
  the events already sent are of this session or earlier ones.  Subscriptions:
  `SettingsOfStart` for any topics and addresses.  The invariant ties what was asked at
  `start()` to the configuration on its way, and that to the sockets, for a worker and for
  a broker.  Waiting: `TimeoutIsTrue`, an action property, for any number of threads: a
  batch holds the cancellation only if the deadline has passed, and `Timeout` is told by
  that item only.
- **TimerProofs**, Sockets: `PollersFollow` and `OpenIsWhole` for any number of sockets,
  pollers, names and threads.  The first is inductive once it speaks of the sockets a
  poller has gone through so far, and says that a plain `Poller` went through open ones
  only; the second once it says that what is open is a beginning of the list of endpoints,
  and what is bound their names.  Timers: `NoDangling` for both users of `IOSteadyTimer`,
  and `Implements`, that its two threads implement TimerSpec (the safety part;
  `TimerProgress` stays with TLC).  `TimerInv` follows the one thing an object is ever
  waiting for (to be started, waiting, fired, aborted, kept for its owner), with the cancel
  of `stop()` somewhere in the queue besides it; every step of either thread leads from one
  of these to another, and from them the refinement mapping is read off.  Connection:
  `TypeOK`, `SocketsFollow`, `TimersFollow` and `NoPingHalted` for any number of messages
  in flight.  A step of Connection is first shown to be a step of ConnMachine or to leave
  it alone, so that the machine's invariant is proved once, over the machine.
- **TransferProofs**, Uuids: `StringsTrue` for any number of objects and threads: a string
  is read only if it is kept, kept only if whole, and one being made is all right but for
  the halves still to be written.  Transfer: `MessagesWhole` for any buffers, values and
  high-water mark.  `TransferInv` says that every buffer is in one Part or one frame
  (`OneOwner`), and what the frames of the pipe, the Parts of the `recv()` at work and those
  of the `send()` at work hold of the calls of `send()` not yet received (`InPipe`, `InRecv`,
  `InSend`).
- **ArgsSyncProofs**, Args: `RefCounts` for any number of arguments and blocks and any size
  of arrays.  The strengthening says what an operation in progress has in hand: a block
  that is not allocated has empty elements, an argument being assigned holds nothing, and
  an array being filled is held by nobody else.  Synchronization: `OneSocket`,
  `DownloadWatched`, `OnlyCurrentReplies`, `WholeSnapshot` and `STypeOK` for any number of
  sockets, retries and elements and any width of the sequence number.  `NetInv` says that
  messages exist only on the socket of the current request, all of them current, that a
  request and a reply are not there at once, and that the replies in flight continue what
  was received: what is still to come of beginning and elements and what was accepted of
  them add up to the snapshot.
- **WorkerSessionProofs**: `PolledIsOpen`, `EventProtocol` and `EmptyOnlyReopened` for any
  number of operations and messages that wait.  None is inductive by itself, and each
  needs the others' reasons, so there is one invariant, `SessionInv`: the sockets and what
  the application was told follow the states of the two machines (`Machines`); `Start` is
  the first operation and served before any other (`Operations`); only an open socket
  holds messages, that of the snapshot only during a download, and its completion is the
  last of them (`Network`); the poller lists what is open (`Poller`); and each item of the
  batch still to be served has something to read or belongs to a socket that a timeout
  served earlier in the batch has closed (`Batch`).
- **DeliveryProofs**: `BackIsLatest` and `DeliveredOnce` without further hypothesis, whatever
  is lost, evicted or restarted; `RelayedOnce` if `storWorker_` has room for every worker
  (`AtMost(WorkerCap, Workers)`), without which a forgotten worker's topics are relayed
  again.  They rest on lemmas about the caches: what `put()` and the update in place do to
  the keys, the order and the items, and what `storeTopic()` does to both caches.  Some
  are by induction on a length, with a principle over a set of numbers, which the provers
  can instantiate.  The invariants `Accepted` and `Seen` bound the numbers already relayed
  and delivered by the number remembered of their worker.
- **ConvergenceProofs**: `Converges` if `storWorker_` has room for every worker and not both
  broker and workers may be restarted.  With both, a
  broker that forgot the numbers accepts low ones from a worker that counts anew, and a
  receiver that remembers the high ones discards them.  The invariant says
  of every stored topic the receiver wants that it was given to it, is in the snapshot on
  its way, or is on its way as an update that will not be discarded; and of every number
  that it is behind what the broker may still accept.
- **ServiceProofs**: `StreamShape` and `NothingMissed` from `StreamInv`, which relates what a
  stream has written, what waits in its queue and how many events were published; and
  `NoSessionLeft` from `LoopInv`, which says where the `Stop` and the cancellation of a
  shutdown are in the one socket of the service while the client loop has a session, for
  any number of calls, events and messages in that socket.  A `Dispatch` may still send
  while `server_->Shutdown()` waits, but none is in progress once it has returned
  (`ReadingServed`), so that the last `Stop` comes after all that calls sent.

`TypeOK`, `StartFirst`, `SocketsFollow`, `NoPingHalted`, `STypeOK` and `DownloadWatched` are
only proved.

Two of the proofs found something out about the models.  The cases of `SyncEvents` of
WorkerSession and of the operations in Worker overlapped, so that they said less than the
code, where an `if` comes first; they now have its order.

What is only model-checked, and why:

- liveness under fairness, which the prover does not support: `StopEndsSession`,
  `DeleteReturns`, `TimerProgress`, `OpenReturns`, `WaitEnds`, `Reconnects`, `NoticesLoss`,
  `DownloadEnds`, `Answered` and `ShutdownEnds`;
- `NumbersIncrease`, `TokensConserved`, `RoundTrips` and `ReadsWithin`, because Worker,
  CBindings, TokenPool, Messages and Exchange use the bitwise operators of Packing, which
  the prover cannot read; what the folds of Packing compute for every input would moreover
  need an induction over data.

## Not modelled

- Logging, errors and the stopwatch: formatting, reporting and reading the clock.
- Socket options, which are values handed to ZeroMQ, and waiting in a poller, which is
  ZeroMQ's; groups, routing ids and `share()` of a Part.
- The life of the ZeroMQ context and of the io thread from outside.
- Accessors, comparison and printing of topics, events and configurations; the members of
  `LRUCache` that the broker does not use.
- In the gRPC programs the command line, the output and the conversion to protocol
  buffers, and with it the generated code.
- A second deadline in a Cancellation and the data race of `Uuid::operator=`, as said
  above.

What could still be added: WorkerSession as an implementation of the session that Runner
assumes, and Delivery of an abstract store.
