# A TLA+ verification of opio

opio is a C++ library for message-based network programs on asio. This directory
holds TLA+ models of its stateful parts, the TLC runs that check them on small
instances, and TLAPS proofs of what matters most for all instances. Every
definition is translated from the source; `PROJECT.json` says which lines each
one stands for ("map"), what can go wrong in the code and which property watches
it ("hazards"), and what each run shows ("runs").

## 1. The system

Two layers lie over asio. `opio::net` moves bytes: TCP connections, acceptor,
connector, a UDP receiver, buffers. `opio::proto_entry` moves protobuf messages
over one TCP connection: it cuts packages out of the input, watches the peer
with heartbeats, and serialises what is sent. A code generator instantiates
`templates/entry.tmpl.hpp` for a set of messages.

### Components, state, operations

| component | state | operations | what makes it correct |
|---|---|---|---|
| TCP connection (`net/tcp/connection.hpp`) | write queue, running flag, enabled flags, shutdown flag and handler, read buffer | `schedule_send` and variants, read loop, shutdown, timeout, destructor | bytes leave in order, once; no byte and no callback is forgotten; one shutdown; one reader of the buffer |
| watchdog (`net/operation_watchdog.hpp`) | timer, key | start, cancel, expire | a late timer never ends a later write |
| entry (`proto_entry/entry_base.hpp`, `entry.tmpl.hpp`) | active flag, shutdown handler, package input, heartbeat timer | `handle_input`, `close`, `terminate`, `handle_shutdown` | ends once, takes its connection along, loses no message, leaves no complete package waiting |
| heartbeat (same file) | last input, requests sent, timer | `on_check_heartbeat`, `update_last_input_at` | a live peer is kept, a dead one noticed in bounded time |
| back pressure (`ext/back_pressure.hpp`) | per stream: in flight, slot, drops | `bp_send_raw_buf`, `send_finished` | one buffer under way, the latest always wins, never stalls |
| package input (`pkg_input.hpp`) | ring of buffers, offset, sizes, "served" flag | `append`, `Next`, `BackUp`, `Skip`, `skip_bytes`, `read_buffer`, `view_pkg_header` | one stream of bytes, whatever the buffers are |
| acceptor, connector | asio acceptor / resolver and socket | open, close, accept; resolve, connect | accepting goes on while open; every call and attempt is answered, and truly |
| UDP receiver | socket, `m_receiving` | start, stop, receive loop | a started receiver receives, whatever stops came before |
| asio thread | io_context, thread | start, stop, join | stop ends it, whatever work is left |
| entry, reading (`raw_bytes_handler_t`, `net/buffer.hpp`) | read buffer, size asked for last | grow, search, fall back to the configured size | the handler knows what is read into, although nobody tells it; the size stays bounded |
| entry, sending (`entry.tmpl.hpp`) | packages begun, calls still to make | `send`, `send_with_cb`, `send_vec_with_cb`, `post_send`, heartbeats | a package leaves in one piece; its callback tells the truth, once it was taken |
| output buffers, message carrier, configuration, statistics, logger | values | - | not modelled, see section 8 |

### How they interact

- The **connection** runs on its strand (or, single-threaded, on a no-op strand).
  The user's calls are dispatched or posted to it. It calls the user through the
  input handler, the send completion callbacks and the shutdown handler. Every
  outstanding asynchronous operation holds a shared pointer to the connection.
- The **entry** owns a connection and has a strand of its own. The connection's
  input handler dispatches buffers to the entry's strand and its shutdown handler
  posts `handle_shutdown` there; both hold the entry weakly. The entry dispatches
  sends and the shutdown to the connection's strand. With the single thread
  traits both strands are no-ops and *dispatch* is a plain call.
- A **completion callback** runs inside the handler that completed the write, and
  what it calls on the connection runs at once, inside that callback.
- **Heartbeat** is a timer on the entry's strand; **package input** is a plain
  object that only the entry's strand (and within it the protobuf parser) uses.
- **Back pressure** sits on the entry: it sends with a completion callback, which
  runs on the connection's strand and posts `send_finished` to the entry's.
- **Acceptor**, **connector** and **UDP receiver** are loops or chains of handlers on an
  `io_context`, started and stopped by posts of the user; an **asio thread** may be what runs it.

### What is hard

Three ways of writing share one queue: a send may bypass the queue when nothing
is under way, a short queue is written synchronously, the rest asynchronously,
and each can stop in the middle. A completion callback may call
the connection that is calling it. A package can take two calls to the
connection, with other threads in between. Cancellation never stops a handler that is
already queued (timers, reads, receives), so every handler can come late.
Termination has five causes on two strands. Sizes and positions of the package
input span a ring that can be full and wrapped. `PROJECT.json` lists the hazards
at their lines; those without a property say why.

## 2. The modules

| module | models | reads like |
|---|---|---|
| `ByteStream` | the abstract promise of a connection's output | accept, hand on in order, close |
| `Connection`, `MCConnection` | `connection_t` with strand and watchdog; TLC instance | section 3 |
| `ConnectionProofs` | proofs about `Connection` and `ConnectionCallbacks`, refinement of `ByteStream` | section 7 |
| `ConnectionCallbacks`, `MCCallbacks` | the connection with callbacks that call it back; TLC instance | section 3 |
| `Heartbeat`, `HeartbeatProofs` | the heartbeat of `entry_base_t` in discrete time; proofs | section 4 |
| `BackPressure`, `BackPressureProofs` | `bp_entry_t` over a connection; proofs | section 5 |
| `EntrySend`, `EntrySendProofs` | the generated entry's sends, from any thread, next to back pressure; proofs | section 5 |
| `ReadBuffer` | the connection's read buffer and the handler that sizes it | section 4 |
| `EntryReads`, `EntryReadsProofs` | heartbeat and reads composed: input comes on one strand and counts on another; proofs | section 4 |
| `InputStream`, `PkgInput`, `PkgInputProofs` | the abstract input stream; `pkg_input_t`; proofs, refinement of the stream | section 6 |
| `Entry`, `EntryProofs` | `entry_base_t` and the generated entry, input to end; proofs | section 6 |
| `Acceptor`, `Connector`, `UdpReceiver`, `AsioThread` | the class of that name each | section 6 |
| `Endpoints`, `EndpointsProofs` | the four of them composed on one `io_context`; proofs | section 6 |

Definitions named `X_Something` and commented "mutant" are deliberately wrong
forms of `X`: with one of them in place of `X` the property that `PROJECT.json`
pairs it with fails. They show that the properties can fail, and are used nowhere else.

## 3. Connection

Bytes are numbered in the order of acceptance, so `wire`, the bytes given to the
peer, shows loss, duplication and reordering. An item of `wq` is a
`single_writable_sequence_t`: its bytes, the offsets where its buffers end
(all the code needs to count and compact them) and its callbacks.

- `ScheduleSend`, `TakeNextBuffer` (`AggressiveWrite`, `AggressivePartial`,
  `AppendOnly`) and `AppendDone` are one `schedule_send_*`: buffer by buffer,
  either straight to the socket or to the queue, then the callback and
  `initiate_write_if_necessary`. They are steps because each is a system call
  whose outcome the peer decides; `pc` keeps the strand busy in between.
- `SyncWriteAll`, `SyncWriteError`, `SyncWriteWouldBlock`, `StartLargeWrite` and
  `SkipInitiate` are the branches of `initiate_write_if_necessary`; `AfterWriteOk`
  goes round its loop by setting `pc` to "initiate" again.
- `AsyncTransfer`, `AsyncFail`: the socket; `AsyncWriteDone`: the completion, a
  handler that competes with others for the strand. The same goes for
  `TimerExpires` and `HandleWriteOperationTimeout`: an expired timer becomes an
  entry of `timeouts` that cancelling does not remove.
- `AfterReadInput` / `AfterReadNext` bracket the user's input handler, inside
  which user calls are possible.
- `Release`, `StopIo`, `Destroy`: the last shared pointer goes, the `io_context`
  is stopped, the destructor answers the callbacks that remain.

`ConcatSmallBuffers` is checked in place: it decides when an item has room.

`shutdown_impl` calls the shutdown handler before it sets `m_shutdown_was_called`, and what the
handler calls on the connection runs at once. `HandlerCalls` says how often the handler
calls `shutdown()` before its outermost call returns: each of these calls passes the guard too,
cancels the watchdog and calls the handler again (`CallsFromHandler`, `ShutdownImpl`). With
`{0}` the handler never does; with `{0, 1}` it may, once, which is what a handler does
that ignores the second call (`src/net/examples/tcp/slow_proxy.cpp:206`). This is the locking of the
default traits, none; with a mutex such a handler waits for itself.

`Connection` takes the callbacks of one item as one step. `ConnectionCallbacks`
splits `after_write` there: `AsyncWriteDoneCalls` and `SyncWriteAllCalls` are the
part before the first callback, `RunNextCallback` gives control to one,
`CallbackReturns` takes it back, `CallbacksDone` pops the item and goes on. While a
callback runs the strand is free for the calls it makes (`AnyTime`) and for no
handler of its own (`HandlerOfItsOwn`); `frames` holds the `after_write` calls that
are nested in each other. `CallbackSends` says in which writes callbacks call back. For
asynchronous writes (run `conn_write`) all promises hold: the running flag is
set until the item is popped, so what the callback sends is queued. For synchronous
ones it is not set, and the stream breaks (run `conn_reenter`).

## 4. Heartbeat

A tick is any unit of time. `since` and `waited` are ages, so that no clock grows.
A timer never fires early and its handler waits for the strand at most `MaxLag`.
`CheckTooEarly`, `CheckReplyTimeout` and `CheckSendsRequest` are the branches of
`on_check_heartbeat`; `NextCheck` has its two ways to choose the next moment. A
live peer is one whose input comes within `ReplyTime` of a request.

`Patience` is what the code guarantees: how long a peer may at least take. It is
the smaller of both timeouts, less the lag, and not the await timeout: an input
does not set the timer again, so the check after it, and with it the next
request, may come later than `initiate_heartbeat_timeout` after the input, while
the moment of closing is still counted from the input.

`ReadBuffer` has the two sides of one decision. The connection reads into
`readBuffer` and, after the handler has returned, takes the buffer it was given or
resizes what is left of its own (`NextReadBuffer`). The handler sees only how many
bytes came; it compares them with the size it asked for last, or with the
configured one, to conclude whether the buffer was full (`FullyUtilized`).
`ReadFills`, `ReadMuch` with `DoubleSize` and `SizeFound`, and `ReadLittle` are the three
outcomes. The assertion in the search loop (`entry_base.hpp:845`) is not
taken as a guard: release builds do not have it, and it does not hold (section 7).

`EntryReads` composes both: `ReadInput` is the connection's strand up to the dispatch,
`HandleInput` the entry's, and `posted` is what lies between them. Only the
second is a sign of life, so a busy strand makes a live peer look silent. The
properties of the heartbeat are checked of this composition.

## 5. Back pressure

The buffers of a stream are numbered. `out` is what the connection accepted and
has not written, `finished` the posted completions. The connection is reduced to
what `Connection` is shown to do: writes in order, success callback after the
write. Its end has three parts, as in the code. `ConnectionShutdown` is `shutdown_impl`: it rejects what comes,
answers nothing and leaves the queue as it is, and a write that runs may still succeed after it.
`WriteFails` is `after_write` with an error: nothing is written any more, and the callbacks of the item that
was being written hear of it, those behind do not. `ConnectionDestroyed` is the destructor, which answers the
rest; it needs the entry, which owns the connection, to be given up (`held`, `EntryGone`)
and the last write to have ended (`writing`).

`EntrySend` puts the other senders next to it, on the same connection. A package is
a "plain" image, an image with one attached binary ("attached", one call with two
buffers), or `send_vec_with_cb` ("vec", a call for the head and one for what is attached,
with the callback). `BeginSend` makes the package, `CallConnection` is one call, and each
call is preceded by a look at `m_connection_is_active` (`passed`), without a lock
in between. `Callers` are the threads and the strand; `StrandIsFree` keeps
heartbeats, back pressure and the completion tasks from running inside a send
of the strand. Which pieces make up the item that fails is open (`IsItem`): an item takes what several calls
bring, up to `MaxLength` buffers, and what one call brings goes into one item unless that is full.

## 6. Package input and entry

`PkgInput` keeps the ring slot by slot: `bufs`, `first`, `count`, `offset`,
`total`, `served`. The recursions of `skip_bytes` and `copy_n_bytes_to` are steps
that nothing interrupts (`call`). `Position` maps the ring to the place of
the reader, and `ImplementsInput` checks that every operation returns
the bytes that `InputStream`, which knows nothing of buffers, says. `InputStream` is what the protobuf
interface asks for: a `Skip` beyond the end goes to the end. The code does not do that (section 7), so the
refinement, and that `ByteCount()` is what the parser took (`CountIsParsed`), are stated for a parser
that never skips beyond the end (`LongSkips` is FALSE). That is the entry's case: the generated code parses
through a `LimitingInputStream` of the package's size, once all of it is there (`entry.tmpl.hpp:405`).

`Entry` reduces packages to units: a head, and one unit of content for kinds that
have any, so that a read may bring half a package or several. Kinds stand for the
branches of the input loop: a message; one whose consumer throws; an unknown id;
one the parser rejects; heartbeats; a head refused by itself. A failed
package leaves content in the stream, which a later input would read as a head of
any kind (`NextHead`). Tasks of the strand are a queue; those that hold the entry
strongly are `Strong`, the others find nothing once the entry is `Gone`.
`inline` says that the entry has the single thread traits.

`reading` is the outstanding read. `after_read` calls the input handler first and reads again only if reading is
still enabled when that has returned (`ReadAgain`). With the single thread traits the input loop runs inside that call
(`LoopReturns`), so an entry that terminates there has no read left; with strands
the buffer is only dispatched, and the connection reads on. A read that was outstanding when another handler
shut the connection down may have completed with data: that data still reaches the entry.

`Acceptor`, `Connector`, `UdpReceiver` and `AsioThread` have the variables and the
actions of one class each, in three groups: what the user does, what the system
completes, and the handlers. `Endpoints` lets a step of one component leave the
others unchanged, and a handler run only while the thread is in one of its two
loops. `LocalEndpointThrows` is the way into the `catch` of `open_impl` and `close_impl` on an open acceptor: the
call is answered with the exception and the acceptor stays as it is. The handlers of each component run in the order in which they were queued;
between components the order is left open. An operation that has completed is an
entry of the queue that closing or cancelling no longer reaches. An exception
in `handle_resolve` is the one that gets through to `asio_thread_t`, and a handler that was
the last work in the graceful loop stops the `io_context` (`HandlerRan`).

## 7. What is checked and what is proved

### Runs

| run | instance | shows | states, time |
|---|---|---|---|
| `conn_write` | 3 sends from 4 shapes, with and without callback, limits of 2, watchdog, shutdown, stopped `io_context`; callbacks of asynchronous writes call back, the shutdown handler calls `shutdown()` or not | order, queue invariant, nothing stuck, callbacks truthful, ordered and never lost, no spurious timeout, refinement of `ByteStream` | 4.1M, 75 s |
| `conn_ops` | 2 sends, reading, stopping, shutdown, handler changes, a shutdown handler that calls `shutdown()` or not, fairness | one reader of the buffer, one shutdown, writes end, released connections are destroyed | 198k, 55 s |
| `conn_reenter` | violation | a send from the callback of a synchronous write breaks the stream | |
| `conn_read_loop` | violation | `stop_reading`, `start_reading` start a second read loop | |
| `conn_cb_twice` | violation | a failed write's callbacks run again in the destructor | |
| `conn_cb_count` | violation | compaction lets an item take more callbacks than the assertion allows | |
| `entry_reads` | initiate 3, await 6, lag up to 3; configured sizes 1, 3, 4, 7 under a limit of 6; 2 inputs on their way | read sizes known and limited; live peers kept, silent ones noticed, in bounded time | 14k, 1 s |
| `entry_send` | the strand and a thread with a package each, one stream with 3 buffers; the entry may terminate or be given up, writes and connection may fail any time | packages whole, callbacks true, called while the connection is open and at the latest after the entry is given up, section 5's promises and progress | 168k, 50 s |
| `pkg_input` | ring of 3, buffers of 1 or 2 bytes, 5 bytes in all | ring invariant, count, refinement of `InputStream`, calls end, with `LongSkips` FALSE | 38k, 6 s |
| `entry` | 3 units in reads of 1 or 2, one `close()`, both traits | section 6's promises, no append to a stream being served, and that both ends notice each other | 914k, 2 min |
| `entry_after` | violation | with strands, messages are delivered after termination | |
| `endpoints` | 5 requests of the user to four components (at most 3 `open`/`close`, 3 `start`/`stop`, 2 threads), 2 connections, 2 datagrams | accepting, receiving, answers, the end of the thread | 193k, 42 s |

### Why the bounds are enough

- *Connection.* Shapes of one and two buffers with limits of 2 contain a buffer
  below, at and above each limit (quick write, concatenation, gathered write), an
  item that compacts and one that does not. Three sends are one being written,
  one in the frozen item's successor and one behind it: a fourth adds only length.
  All safety properties of these runs are proved without these bounds. With
  three sends a callback can send twice, or two callbacks of one item once each.
- *Heartbeat.* The lag is as large as the initiate timeout, so a check can come
  when the moment of closing is already past (the overload branch). All times are
  covered by the proofs, except for liveness.
- *Reads.* Of the sizes, 3 doubles to the limit exactly, 4 past it at once, 1 after several
  steps, and 7 is configured above it. Two inputs on
  their way are one being handled late and one behind it.
- *Sending.* A package is torn by one call of another caller between two of its own,
  so one package of each of two callers, a heartbeat and a stream are enough. Three buffers
  are one under way, one that waits in the slot and one that replaces it. An item of the connection that fails may be any beginning
  of the queue here, whose length stays below `MaxLength` (16). That several streams do
  not disturb each other is proved for every set of them (`BackPressureProofs`).
- *Package input.* Five bytes in buffers of one or two overfill the ring of three, wrap
  it around, and end copies inside, at the end of and beyond a buffer.
  `Buffer_Queue_Capacity` is 8 in the code; the arithmetic is the same.
- *Entry.* Three units are a message and another package, or two messages of which
  the second is incomplete, cut anywhere; one `close()` next to one failure of
  the connection and one heartbeat already has the causes of an end overlap in every order.
- *Endpoints.* The components meet only in the thread, so what matters is that
  each gets its longest story next to a thread that starts: `open`, `close`,
  `open` and one more request; `start`, `stop`, `start` likewise; a thread that is started,
  stopped, joined and started again with a connect attempt and a call under way. Two
  completions can lie before and behind a `close` or a cancel.

Constants bounded for TLC only: `MaxSends`, `MaxReads`, `MaxBufs`, `MaxBytes`,
`MaxBuf`, `MaxUnits`, `MaxChunk`, `MaxClose`, `MaxCalls`, `MaxConns`, `MaxSwitches`,
`MaxDatagrams`, `MaxStarts`, `MaxRequests`, `MaxMsgs`, `MaxPosted`. `CHECK_DEADLOCK FALSE` is
set for sending, entry and endpoints: there the environment may have nothing left to
send or to ask, and an entry or a thread that ended has nothing left to do.

### Fairness

- *Connection*: the strand finishes what it began and runs every handler queued
  to it (strong fairness where other handlers compete), timers fire, an operation
  on a socket that was shut down fails. Nothing is assumed of the peer, nor that
  the user releases the connection.
- *Heartbeat and reads*: time passes and a due check runs. The peer need not send, nor the search for a size get on.
- *Sending*: posted completions run, a send that the strand has begun goes on, and the
  connection either writes what it accepted, or fails, or is shut down, which `WriteEnds`
  justifies; a connection that nobody refers to any more is destroyed (`ReleasedIsDestroyed`). Nothing is
  assumed about when the entry is given up: `CallbackEnds` promises an answer after that only if it happens.
  Other threads owe nothing: one may stop between its two calls.
- *Package input*: a call goes on until it returns.
- *Entry*: both strands run what was given to them. The peer owes nothing.
- *Endpoints*: a running loop takes the handlers of every component that has some,
  a resolver and a connect attempt complete, and the thread moves on when a loop
  returns (`run_for` returns after its time). The user and the peers owe nothing.

### Proofs

All theorems are for every value of the constants under the modules' named
assumptions (sizes are naturals, the limit of a gathered write is positive,
timeouts and read sizes are positive, no stream has the tag of a package). Three hypotheses
are on top of that, each because the code does not bear its opposite:
`ReadBufferHasOneOwner` is for users that do not call `stop_reading` and
`start_reading` with a read outstanding (run `conn_read_loop`), and the theorems about
`ConnectionCallbacks` (named `Cb...`), but for `CbShutdownHappensOnce`, are for
`CallbackSends \subseteq {"async"}`: no callback of a synchronous write calls
the connection back (run `conn_reenter`). `CountIsWhatWasParsed` and
`InputImplementsStream` are for `~LongSkips`: no `Skip` beyond the end (see below). The inductive invariants held in
these instances before they were proved; the runs leave them, and what else only restates
a proved invariant (`TypeOK` of `Connection`, `Heartbeat` and `BackPressure`, `LatestIsKept`,
`DropsCounted`), to the proofs.

- `ConnectionProofs`. `StreamInOrder` is not inductive: what is on the wire says
  nothing about what is in the queue. `StreamInv` adds that queue items hold
  consecutive runs of the numbering up to `accepted` (`Chain`), that the wire ends where the
  next unwritten byte begins (`Frontier`, with a case for the item being written
  and one for its remaining bytes), that aggressive writing implies an empty
  queue, and how the flags agree. Lemmas say what appending, compaction and freezing do
  to runs; one lemma per handler shows that it preserves the invariant.
  `ConnectionImplementsStream` maps each step to a step of `ByteStream` or to a
  stutter, with the invariant to show that what goes out is what is due.
- `ConnectionProofs`, the rest. A late timer does no harm because keys only grow: a timer on its
  way whose key is the watchdog's belongs to the watchdog's operation, and while the running
  flag is set that is the outstanding write (`WatchInv`). The three properties of callbacks
  need one invariant (`CallbackInv`): an uncalled callback waits in the queue behind the last byte of
  its send, in the order of the sends, unless its send is still being taken; then
  what is written is a prefix, success is said of written bytes only, and popping an
  item calls callbacks in order. Shutdown and the owner of the read buffer are
  nearly inductive.
- `ConnectionProofs`, callbacks that call back. A call from a callback is a step of `Connection`
  (`InnerIsNext`), so it keeps `StreamInv`, which holds inside the callbacks of an
  asynchronous write because the running flag is still set. What is new is the frame (`FrameInv`): one
  `after_write` at most is under way; its item has its last byte on the wire, and the
  item's callbacks that are unanswered are those left in the frame, in ascending order (`SortedInv`), so
  that each is told the truth, in its turn. Calls leave the item in front alone since they only append
  (`CallsInFrame`, `FrontIsKept`), so at the end it can be popped as in `Connection`
  (`ItemIsPopped`). In the callbacks of a synchronous write `StreamInv` fails, because the written item is
  not marked as running: there only a timer may expire and the user let go (`InnerInSync`), and
  `QueueInv`, which does not say where writing goes on, bridges the gap.
- `HeartbeatProofs`. `TimerInv` relates the timer, the age of the last input and the
  age of the request: without a request the timer ends within `Horizon` of the
  input; with one it ends exactly at the moment of closing, or one initiate
  timeout after the request when that moment was past. From this `ReplyWait`,
  `AlivePeerIsKept` and `DetectionBound` follow by arithmetic.
- `BackPressureProofs`. One inductive invariant carries all four properties. `NeverGoesBack`
  needs `UnderWayInv` in it: what is under way is the last buffer handed over
  and newer than what was written. The lemmas about steps speak of a queue that may hold elements of
  other senders (`Shared`), so that they serve `EntrySend`, too.
- `EntrySendProofs`. `PackagesWhole` looks at what has been written and what waits; `SendInv` adds the calls
  that are still to be made. A vec whose head is the last thing the connection took
  has its second call ahead, or its thread found the entry inactive between the two, which the strand
  cannot (`Awaits`); of two pieces of one package the first is a head (`PiecesOK`); and a package of
  which success was told has no piece waiting and no call ahead (`SuccessOK`). The streams' invariant
  is then carried over from `BackPressureProofs`.
- `PkgInputProofs`. `RingInv` says that the buffers in the ring are in order; for the
  wraps and the appends to a full ring this is stated with a function that gives the byte each buffer
  begins at (`RingOrder`). `InputInv` adds what an operation under way has done
  so far: how far a skip has come, and that a copy holds the bytes up to where
  it stands (`CallOrder`), and the balance of `ByteCount()` (`CountOrder`). With it each step is a step
  of `InputStream` or a stutter.
- `EntryReadsProofs`. `ReadSizeKnown` is nearly inductive; what is missing is that a search
  never starts from zero, for a size of zero could be doubled for ever (`ReadInv`). A step of
  `EntryReads` is a step of `Heartbeat` and a step of `ReadBuffer`, one of them perhaps a stutter,
  so what `HeartbeatProofs` shows holds of the composition. `ReadIsLimited` is about a search by doubling:
  a buffer above the limit is the end of a chain of doublings that began at the configured
  size, and as the buffer came from that same chain the search ends there at the latest
  (`GrowthInv`; the chain is a function from its steps to sizes, no recursion).
- `EndpointsProofs`. The components share no variable but the thread's, so each
  conjunct is kept by the steps of its own component and by the others that leave its
  variables alone. The acceptor's answers need the order of its queue: the calls
  in it are the latest, and unanswered (`CallsQueued`), so that the call
  that is answered next is later than all answered before. The receiver's need that behind every
  cancelled or refused receive something leads on.
- `EntryProofs`. `terminate()` runs once because it leaves the shutdown handler "called" and the
  entry inactive, and the timer cancelled. The heartbeat runs because there is
  a timer or exactly one check on the strand (`OneCheck`), until the entry is gone; and what
  is gone stays so.
- `EntryProofs`, the input. `StreamInv` holds the input loop and the tasks together: the input tasks on
  the strand sum up to the bytes posted and not yet handled (`Fits`), content stands behind a head that has
  some and nowhere else across that seam (`Aligned`), and messages delivered, in the stream and on their
  way are all that were read (`Unconsumed`). This is for active entries: one that
  has ended stops in the middle of the stream. `NoMessageLost`, `StreamIsDrained` and `AppendNotServed` follow.

Only model-checked: every liveness property, since fairness and ENABLED are beyond the
proof system.

### Where code and documentation disagree

1. *A send from a completion callback* (`connection.hpp:2755`, run `conn_reenter`): the
   item that was written synchronously is still in front and is written again.
2. *A second read loop* (`connection.hpp:1308`, run `conn_read_loop`).
3. *Callbacks called twice* (`connection.hpp:2741`, run `conn_cb_twice`): the
   failed item stays in the queue, where the destructor finds it.
4. *Too many callbacks in an item* (`connection.hpp:257`, run `conn_cb_count`).
5. *Messages after termination* (`entry_base.hpp:1154`, run `entry_after`), for entries with strands.

Met while modelling, without a run of their own:

- The shutdown handler called again (`connection.hpp:2424-2428`): `m_shutdown_was_called` is set after the
  handler returns, so a handler that calls `shutdown()` is called once more for each such call, and one
  that always does recurses without end (the handler of `src/net/examples/tcp/slow_proxy.cpp:206`
  looks at the reason first). `ShutdownOnce` says exactly how often.
- Callbacks that wait for the destructor (`connection.hpp:2741`, `3052-3106`): the doc (97-100) lists a failure
  of an earlier item among what calls a callback; but a failure answers the callbacks of one item, a shutdown none,
  and the entry keeps its connection. `CallbackEnds` promises an answer to the rest only once the entry is given up.
- `Skip` beyond the end (`pkg_input.hpp:139-151`): the contract says that the stream goes to its end and
  `ByteCount()` is the total size. The code adds what it could not skip to the count and
  leaves the stream where it is. `InputStream` is written from the contract; the code implements it
  where no `Skip` is that long (`LongSkips`), which the entry's `LimitingInputStream` sees to.
- The limit of the read size (`entry_base.hpp:845`): a configured size that is no power-of-two fraction of
  32 MB is doubled past the limit it asserts (8000000, say, after a read of more than 32000000
  bytes). It stays below twice the limit (`ReadIsLimited`).
- Connection. `didnt_send` is also told to sends of which bytes went out. With an item
  popped under an outer callback, the span of callbacks that
  `run_send_completion_callbacks` walks dangles; the model stops at the wrong stream. With a real mutex and
  `aggressive_dispatch` the completion of an asynchronous write takes no lock (2566-2572) and
  a send that is refused loses its callback (1956-1961).
- Entry. An input after the parser gave up, on an entry already terminated, runs into the assertion
  `!m_first_buffer_served` (`pkg_input.hpp:172`); `AppendNotServed` holds of active entries.
  A shutdown handler that throws is called again by the catch of `handle_input` and by the connection's
  shutdown. The wait for a heartbeat reply can be shorter than configured (section 4).
- Sending. `schedule_send_vec_raw_bufs` (`entry_base.hpp:1088`) hands its container to the connection as if
  it were one buffer; `post_send_with_cb` and `dispatch_send` with a callback swap their
  arguments; nothing in the repository calls them. An inactive entry drops a send together with its
  callback. `simple_buffer_t::empty()` returns `0 != m_size`.
- Endpoints. An accept that completed before `close()` is still handed to the
  user after it, and its handler then accepts on a closed acceptor, which fails at
  once, again and again, until the next `open()`; an `open()` whose `bind` failed leaves
  the acceptor open, so that the next one is told it runs already; a receive that
  completed behind the cancel survives `stop_listening()`, and a later start makes two
  receive loops on one buffer; what is thrown in `handle_resolve` loses the callback
  and ends the thread; a thread started again after `stop()` may find the
  `io_context` stopped, and then gives it the graceful while only.

The properties say what holds nevertheless. Four hazards have no property
(`PROJECT.json` says why): the destructor's guess at which callbacks didn't send, the mutex mode,
a shutdown handler that throws, the second receive loop.

## 8. What is not modelled

- Connection: buffers of size zero; the Windows close path; handlers that end
  with `operation_aborted`; callbacks that throw; the mutex mode of aggressive
  dispatch; socket options; read timestamps; `reset_input_handler`. Posted
  sends are taken as calls at the time they run. Callbacks of failed sends do not call back: they
  are the last thing their handlers do. Shutdown handlers call nothing on the connection but `shutdown()`.
- Entry: construction from another thread; a shutdown handler that throws; `send_vec` without a
  callback; one image sent to many entries. A header's advertised size is taken as
  the size of the header.
- Reads: the connection's own read loop is in `Connection`, its buffer's sizes in
  `ReadBuffer`; they are not composed, since nothing but the buffer itself is shared.
- Endpoints: an acceptor without its user's pointer; a message handler of the receiver
  that throws, which aborts the process;
  executors with several threads; `start_listening` from two threads at once.
- Output buffers, message carrier, protobuf engines: C++ object lifetimes, not states.
- Configuration, statistics, logging, formatting, address look-up: no control
  that reads them back.

## 9. Plan

Done: all modules of section 2 and the proofs of section 7. Next, in this order:

1. A shutdown handler that throws; construction of the entry in steps.
2. The mutex mode of the connection: the same handlers, with steps of other threads between
   the points where the mutex is taken.
3. The small-object rules of `heterogeneous_buffer.hpp`, last.
