# Verification of ttrpc-rust

TLA+ models of the runtime crate of ttrpc-rust (`src/src/` of the repository
tree, called *the crate* below), the TLC configurations that check them on small
instances, and TLAPS proofs of the invariants that hold for every size.
`PROJECT.json` maps every definition to the lines it models, and lists the runs,
the hazards, the findings and the theorems.

Run everything from this directory:

    tlc -workers 2 -config MCShutdown.cfg MCShutdown     # one line per run in PROJECT.json
    tlapm SyncServerProofs.tla
    tlapm SyncListenerProofs.tla
    tlapm SyncClientProofs.tla
    tlapm AsyncListenerProofs.tla
    tlapm AsyncClientProofs.tla
    tlapm AsyncServerProofs.tla
    tlapm FrameProofs.tla
    tlapm TypedRpcProofs.tla

## 1. The system

ttrpc is an RPC protocol over stream sockets: ten-byte headers (length, stream
id, type, flags), REQUEST, RESPONSE and DATA frames, client-chosen odd stream
ids. The crate has two independent implementations that share the wire format.

| Component | State it keeps | Operations | What is hard |
|---|---|---|---|
| shutdown notifier (`asynchronous/shutdown.rs`) | flag, waiter counter, two tokio `Notify` | `wait_shutdown`, `clone`, `subscribe`, `drop`, `shutdown`, `wait_all_exit` | lost wake-ups between atomic steps; new waiters while one waits for the last |
| async client (`asynchronous/client.rs`) | id counter, stream registry, one response channel per call | `request`, `new_stream`, dispatch of inbound frames, teardown | deadlines and cancellation at each await; teardown racing new calls |
| async connection (`asynchronous/connection.rs`) | writer task, outbound channel, read loop | `run_writer`, `write_message`, `Connection::run` | half-written frames; order of writer end and registry drain |
| streams (`asynchronous/stream.rs`) | local/remote closed, acknowledgement channels | `send`, `close_send`, `recv`, drops of the halves | acknowledgements lost at teardown; halves that outlive each other |
| async server connection (`asynchronous/server.rs`) | one task per inbound frame, stream registry, `handler_shutdown` | `handle_msg`, `handle_request`, `handle_method`, `handle_stream`, `exit` | tasks of one stream racing; graceful drain with a time limit |
| async listener (`asynchronous/server.rs`, `asynchronous/transport/`) | listeners, accept tasks, `stop_listen` channels, accept hooks on the blocking pool | `start`, `stop_listen`, `disconnect`, `shutdown`, drop | listener hand-over, cancelled calls, hooks that outlive their time-out, descriptor reuse |
| sync server connection (`sync/server.rs`, `sync/channel.rs`) | reader, response thread, worker pool with a shared count, quit flag | pool growth and shrinkage, quit, join | thread counting, rendezvous control channel, missed quit |
| sync listener (`sync/server.rs`, `sync/sys/*/net.rs`) | listener threads, monitor pipe or connection event, connection map keyed by descriptor, reaper thread | `start`, `stop_listen`, `disconnect`, `shutdown`, accept, reap | descriptor numbers that the kernel gives out again, a second `start`, who still holds a sender to the reaper |
| sync client (`sync/client.rs`, `sync/sys/*/net.rs`) | sender thread, receiver thread, map of pending calls, shared descriptor | connect, `request`, receive loop, drop | descriptor life time, rendezvous under the map's mutex, calls that time out, hang-up |
| payload transform (`security_extension.rs`) | outbound and inbound transform state, limits | reserve, seal, enqueue; open | sealing order against queueing, drops of sealed frames |
| wire format (`proto.rs`, `sync/channel.rs`) | none between frames | write header and payload, read, size check, discard of an oversized payload | short reads and writes, end of the stream at any byte, interrupted writes |
| generated bindings (`compiler/src/codegen.rs`, `ttrpc-codegen-prost/src/svcgen.rs`, `asynchronous/utils.rs`) | none of their own | stubs, method tables, handler macros | stub, flags, table and macro must agree about who sends what; two terminal frames |

Interaction: an async call takes an id, registers its response channel, reserves
a slot of the outbound channel, seals and pushes its frame; the writer task puts
frames on the socket; the connection task reads, looks the stream id up in the
registry and hands the item over. On the server the connection task spawns one
task per frame and waits on a one-shot (`wait_rx`) until the frame has been
classified; stream handlers are spawned separately and answer through the same
outbound channel. `server_shutdown` stops the connection task,
`handler_shutdown` the frame tasks. In the sync server a reader thread feeds
workers through a channel, workers feed a response thread, and a control channel
without buffer tells `client_handler` to look at `quit` and at the pool.

What makes each part correct: no lost wake-up and an exact counter (shutdown);
exact registry, no cross-talk between calls, deadlines that bound a call, a
teardown that ends every call, whole frames only (clients); registration before
data, drain before exit, final frame last, a shutdown that completes (server);
pool bound, exact count, descriptor closed last, a hang-up that ends in the
reaper (sync server); a listener that survives `stop_listen`, nothing left behind
after a shutdown, hooks that look at their own connection (async listener); a map and a
reaper that agree, calls that return (sync listener); frames out as they went in
(wire format); both ends of a generated method telling the same story (bindings).

## 2. Modules

| Module | Models | Composed of / used by |
|---|---|---|
| `UnaryCalls` | abstract: what `Client::request` promises, whichever client implements it | implemented by `AsyncClient` and `SyncClient` (`CallsRefine`) |
| `FrameFifo` | abstract: what the wire format promises | implemented by `Frame` (`FramesRefine`) |
| `ShutdownPromise` | abstract: what the notifier promises, each call at one moment | implemented by `Shutdown` (`PromiseKept`); what `AsyncServer` and `AsyncListener` rely on |
| `Shutdown` | one notifier, its handles and callers, at the grain of single atomic accesses | instance of `ShutdownPromise`; proofs in `AsyncServerProofs` |
| `AsyncClient` | one client connection: calls, sends, outbound channel with permits, transform, writer, connection task, registry | instance of `UnaryCalls`; `AsyncClientProofs` |
| `AsyncServer` | one server connection: reader, frame tasks, stream handlers, writer, both shutdown flags | `AsyncServerProofs` |
| `AsyncListener` | the `Server` around its connections: accept tasks, hooks, `start`, `stop_listen`, `disconnect`, `shutdown`, drop | relies on `ShutdownPromise`; `AsyncListenerProofs` |
| `SyncServer` | one connection of the thread-based server with pool, map entry, reaper and `disconnect` | `SyncServerProofs` |
| `SyncListener` | the thread-based `Server` around its connections: listener threads, map, reaper, descriptor numbers | `SyncListenerProofs` |
| `SyncClient` | one connection of the thread-based client: callers, sender, receiver, map, descriptor | instance of `UnaryCalls`; `SyncClientProofs` |
| `Frame` | one direction of a connection, byte by byte, with the outbound and inbound pipeline | instance of `FrameFifo`; `FrameProofs` |
| `TypedRpc` | one RPC from generated stub to generated handler and back | composes the two ends that `AsyncClient` and `AsyncServer` model one at a time; `TypedRpcProofs` |

Each `MC` module gives the sets of its component's instance. `TypeOK` is the first
conjunct of one invariant of each module (`RegistryExact`, `RegisteredInTime`,
`ListenerKept`, `ReapExact`, `MapExact`, `PipelineExact`, `ExchangeExact`); that of
`Shutdown` (`NotifierTypeOK`) and of `SyncServer` is proved instead.

### Shutdown

`wpc[h]` is where a `Waiter` is: idle, about to test the flag, about to create
its `Notified` future, with a future that exists but is not awaited yet,
awaiting it, or between its `fetch_sub` and its `notify_waiters`. `cpc[c]` is the
same for a task that uses the `Notifier`. tokio's `Notify` is external:
`notify_waiters` completes every future that exists at that moment and stores no
permit. The flag and the counter are accessed with relaxed ordering; the model
treats them as sequentially consistent. That is sound here: a future that is
created after a `notify_waiters` has read `Notify`'s own SeqCst call counter,
so the flag or counter value written before that call is visible to the re-check
that follows. `CancelWait` is a losing `select!` branch, `Elapse` the `timeout`
of `wait_all_exit`. The initial predicate, the next-state relation and the
specification carry the prefix `Notifier`, because their proofs share a module with
those of the server connection. `Seen` is what the users of the notifier can tell of a
control point: a call that tests, creates its future or awaits it is waiting, a handle
that is off the count is gone.

### AsyncClient

A *task* is a unary call, a stream opening, or one `send`/`close_send`. Its `pc`
goes `init - register - reserve - permit - wait|open|ack - done`; each arrow is a
shared access of the code (id counter, registry lock, semaphore of the outbound
channel, transform lock and push, response channel). `streams` is the registry,
`mailbox` the unbounded response channels, `chan` the outbound channel (its free
slots are what queued frames and unused permits leave over), `wstate`/`wmsg` the
writer task, `run` the connection task. `stuck` holds frames pushed with an old
permit after the writer ended. `Cancel` drops a caller's future at an await
point; `Expire` and `Timeout` are the deadline and `timeout_at`. `Controlled` is
whether a frame still carries the `MessageControl` that lets the writer discard
it: only unary requests, and only without a transform. `WriteInterrupted`,
`WriteFails` and an aborted writer may leave a half-written frame (`torn`). The
transform is represented by the order in which frames were sealed (`nonce`).
A frame is refused with a permit in hand by the transform, or without one because it is
too large (`TransformFails`). An item carries the call it answers, and a `request` that
took another call's item would end as "crossed".
The peer is external and conforming: it answers a request it has received, a
unary one once with a RESPONSE, a stream with DATA frames and one last frame; "bad"
stands for any frame the reader refuses. `RegistryExact` depends on that: for a DATA
frame under the id of a unary call `ClientReader` hands the item over and keeps the entry
(`client.rs:432-438`), and `request` has disarmed its guard by then, so the entry would
stay.

### AsyncServer

A frame is `<<rpc, k>>`, the k-th frame of an RPC on the wire; every frame has a
task with its own `pc`. `HandleMsg` of the reader spawns it and `WaitRx` waits
until it is past classification. `hpc`, `hrx` and `hbox` are the stream handler,
its receiving half and its bounded channel; the handler is application code that
may receive, send, drop its receiving half, return, or never do anything.
`transform_send` is one step here (the race between a permit and the writer's end is
in `AsyncClient`); it may fail while the writer lives, when the transform refuses the
frame or makes it too large. The failure of an answer is logged, the answer dropped and the
connection kept (`server.rs:542-549`): its task ends as "lost". A task is cancelled at an await point by
`handler_shutdown`; the spawned handler is not. A frame of an unknown type only
releases `wait_tx` and has no action of its own; the test of
`handler_shutdown` at the head of `ServerReader::handle_msg` cannot succeed while
the connection task still reads. A handler does not give a clone of its sender
away.

### SyncServer

Workers are interchangeable, so `at[p]` counts the threads at control point `p`;
this keeps the model finite and lets the proofs hold for any number of threads.
`wtc` and `quit` are SeqCst atomics, one access per step. The control channel
has capacity zero: `ControlSend` is a rendezvous with `main = "recv"`, or fails
at once when the receiver is gone. `WorkerWoken` and `WorkerClosed` are the two
results of `workload_rx.recv`; a woken worker tests `quit` and in a step of its own
(`WorkerTaken`) leaves the count. A write error empties the response channel
because the response thread drops its receiver. The failure to start a thread
(a panic in the code) is not modelled.

### SyncClient

`pc`, `queue`, `snd` and `rcv` are the control points of the callers, of the channel
to the sender thread, of the sender and of the receiver. The result channels have
capacity zero: `SendTo` is a rendezvous with a caller in `recv`, waits for one that
is about to enter it, and fails when it has returned. The receiver keeps the
mutex of the map across that rendezvous (`locked`), as `trans_resp` and the drain
do. `held` is the set of live clones of the `Client`, `strong` the reference the
receiver upgrades around `poll`; `DropOwner` is `ClientConnection::drop`, which closes
the descriptor on Unix, while on Windows the two threads own the pipe. Reads and
writes on a closed number are modelled by what may happen: an error, bytes of
another file, or a call that blocks for as long as that file has nothing to say
(`rcv = "foreign"`). The peer answers, repeats itself, sends frames of the wrong type or
of unknown streams, and may stop in the middle of a frame. `make_socket` that
succeeds before a `connect` that fails leaves the descriptor open, as the code does; on
Windows so does a pipe that was opened before `create_event` failed
(`windows/net.rs:192-195`, `334-337`).

### SyncListener

`lpc[t]` is the control point of the t-th listener thread (each `start` starts one);
on Unix `accept` polls the monitor pipe and the socket, on Windows it waits for an
overlapped connection event. `connections` is the map from descriptor number to
connection, `queue` and `reaping` the reaper's channel and work. `owner` is the
process's descriptor table: a number may be given out again as soon as its descriptor
is closed, and `close` of a number closes what has it then, which `stray` records when it
was not the caller's. That happens: `PipeListener::close` closes the number of the
monitor pipe again in every further `stop_listen` or `shutdown`, and an `accept4` may have
got that number meanwhile. After such a close the promises about the map are void, and
`ReapExact` says so. `blocking` is a socket that the application passed to
`add_listener` without `O_NONBLOCK`. The reaper holds the mutex of
the map from the removal of an entry until the descriptor is closed, which is why
`Insert` and `ShutAll` wait for `reaping = None`. What happens inside a connection is
`SyncServer`; here `HandlerEnds` stands for it, and `NotifyReaper` waits until the
connection is in the map (`sync_rx`).

### AsyncListener

The calls take `&mut self`, so `op` and `svc` describe the one under way; at each
await its future may be dropped (`Cancel`). `tx` is the stop channel kept by the
server, `req[t]` and `handed` the request and the reply with the listener. A task
whose stop sender is replaced by a later `start` ends and drops its listener.
`unwrap` on a closed channel is the state `panicked`; `ended` is an accept task whose
custom stream came to its end, which drops the listener. A connection goes `queued -
accepted - hook - served - gone`; `WithWaiter` are the stages in which it holds
a waiter of the server's notifier. `blk` is the hook's closure on the blocking pool:
abort cancels it only while it is queued. `fdOwner` is the descriptor table, in
which the lowest free number is taken.

### Frame and FrameFifo

A byte is the pair of its frame and its offset, so a header or a payload is
recognised only if it is made of the right bytes; a header put together from other
bytes is garbage. `Write` puts any part of the current segment on the wire (the
first segment is a page with header and start of the payload), `ReadSome` takes any
part of what is there. The asynchronous and the synchronous reader differ at the
end of the stream: `read_exact` fails, `read_into` returns what there is and the
caller goes on. `Submit` is the outbound pipeline with its size check before and
after the transform. `PreCheck` keeps a transform from running for a payload that
would then be refused. The abstract specification knows only the lengths of the
frames whose writing began and what the reader returned.

Three assumptions about the surroundings. A transport that failed a write takes no further
byte: the sender thread of the client goes on with the next request after an error
(`sync/client.rs:180-189`), and if the socket then took bytes again, they would follow half a
frame. A transform that refuses a payload has changed nothing (it is then a stutter
of `Submit`). The overhead a transform declares is at most the limit: the code subtracts
with saturation (`security_extension.rs:560`), so that with a larger one an empty payload would pass
the first check, be sealed, use up a nonce and be refused, which `PipelineExact` excludes.

### TypedRpc

`method` has the two streaming flags of the schema; stub and handler are each generated
by the rust-protobuf or the prost generator, and `ServiceName` is how each
names the service. The client's steps are those of the generated stub (`CallUnary`,
`CallStream`), of the typed senders and receivers and of the registry; the server's are
dispatch, one task per frame, and the handler macro around the service method. The
service method reads, sends, drops its receiver and returns as it likes. `timed` is
whether the request carries a time limit: a unary method is then cancelled when it is
over and the task answers DEADLINE_EXCEEDED (`MethodTimesOut`); a stream's handler is only
told. An answer that is too large is replaced by a small one with INVALID_ARGUMENT
(`Answers`). The connection is healthy here and no transform refuses a frame: those
failures are in `AsyncClient` and `AsyncServer`.

## 3. Runs

Bounds are chosen so that every action fires and every queue fills.

| Run | Instance | Checks |
|---|---|---|
| `shutdown` | 3 handles, 2 callers, with timeout (187 thousand states) | exact counter, no lost wake-up, implements `ShutdownPromise`; liveness of both waits |
| `client_calls` | 3 unary calls, one with a deadline, outbound channel of 1 slot | the calls implement `UnaryCalls`; teardown reaches all, frames whole, a deadline bounds a call |
| `client_stream` | one duplex stream with a `send` and a `close_send` on clones of its sender, without or with a stateful transform; or two calls through the transform, with a single stream id so that the second call wraps onto the first (330 thousand) | exact registry, truthful acknowledgements, nonce order; teardown ends every call |
| `server_stream` | two unary requests, one with an even id, or one stream of request, data and close through one-slot channels, rejecting transform | registration before data, graceful drain, result last, shutdown completes |
| `sync_server` | pool 1/2/3 (min/default/max), 2 requests (548 thousand) | pool bound, exact count, descriptor closed last, a hang-up is reaped |
| `sync_client` | 2 callers, one with a timeout, 2 frames from the peer, both platforms | exact map, descriptor not closed under its users, implements `UnaryCalls`; a hang-up ends calls, a drop releases everything |
| `sync_listener` | 2 connections, 2 descriptor numbers of which the monitor pipe has one, 2 starts, both platforms, blocking or not (171 thousand) | map, reaper and descriptor table agree, `disconnect` is complete; a connection that ended is reaped, the calls return |
| `async_listener` | 2 listeners, one of them a custom stream, 2 connections, 3 numbers, blocking pool of 1 thread, 2 starts (294 thousand) | `stop_listen` keeps the listener, nothing left, hooks sound; calls and connections end |
| `frame` | payloads of 0, 3, 4, 5 bytes around a limit of 4, header of 2, page of 4, overhead 1, transport buffer of 4, 3 frames | pipeline exact; implements `FrameFifo`; the end of the stream ends the reader |
| `typed_rpc` | 2 requests, 2 responses, one-slot stream channel, all four kinds, all pairs of generators, with and without a time limit (547 thousand) | both ends agree about the exchange, the outcome is truthful; a call that waits ends |
| `server_order`, `sync_server_quit` | small instances | violations, see below |

Two requests are enough in `sync_server` to empty a pool of two, trigger a refill
of two and bring four workers to a limit of three. One slot of outbound channel
makes every call but one wait for a permit. Three calls let one call's answer be
on its way while another has been abandoned and a third registers. Two
connections over two numbers let the second get the number of the first while that is
still queued at the reaper in a mutant, and let one be closed by a second `close` of the
monitor pipe's number in the code. In `async_listener` three numbers let a second connection
take the number of a first one whose hook still runs.
The sizes in `frame` put a payload at the limit, over it, over it only after sealing,
and over a page, and the buffer is smaller than a frame.

`CHECK_DEADLOCK FALSE` everywhere: a connection ends, and callers may stop calling.

### Refinement

`AsyncClient` and `SyncClient` map their control points to `UnaryCalls`: a call is
idle, pending, ok or failed, it ends at most once, and it is ok only if the peer has
answered this very call since it was made. A result that belongs to another call maps to a value
`UnaryCalls` does not have, so cross-talk is a refinement error. `Frame` implements `FrameFifo`
with its own variables `sent` and `got`. `Shutdown` implements `ShutdownPromise` with
its flag and with `Seen` of every control point: a handle is made, waits and is dropped, a
caller asks, waits and returns, each in one step. All four are checked by
TLC as properties and proved (section 4).

### Fairness

- `Shutdown`, `AsyncClient`, `AsyncServer`: weak fairness of each task's own
  steps: tokio polls a task that has been woken, and timers fire. The peer, the
  readiness of the socket, cancellation and the application's choices are not
  fair in the client: `DeadlineBounds` holds against a peer that never reads. In
  the server `WriteOk \/ WriteFails` is fair: the peer takes what is written or
  the socket fails. Without that the reader may wait for room in the outbound
  channel forever (`handle_err` is called from the read loop) and a shutdown is
  not noticed. `ExitElapsed` is part of the reader's fair steps: the timer of
  five seconds.
- `AsyncListener`: the runtime polls what is ready, the hook's time-out and the
  time limit of `disconnect` fire. Hooks need not return, peers need not hang up.
- `SyncServer`: weak fairness of each kind of thread; method handlers return.
  Strong fairness of the two blocking control sends, because the standard
  library's rendezvous channel serves blocked senders in the order they came.
- `SyncListener`: threads are scheduled and sleeps end. Clients, hooks, accept errors
  and the end of a connection are free, also of one that was told to quit, which
  `sync_server_quit` shows may not end. `CallsReturn` says of `disconnect` that it returns if
  every connection it told to quit does, and of `stop_listen` that only a hook or an
  `accept4` on a blocking socket can keep it.
- `SyncClient`: threads are scheduled and timers fire. A write returns once the
  peer has closed, if the descriptor is still open; otherwise it may block for ever, and so
  may a read of a number that has become another file. `DropReleases` excepts
  the thread that is in there. `ReadySome` is strongly fair: a signal may interrupt a poll, but
  not every one.
- `Frame`: the reader reads on, the writer writes while there is room.
- `TypedRpc`: both runtimes run their tasks, a client that waits takes what comes,
  the service method reads its input and returns once it has ended, except a unary
  method under a time limit: there the limit ends the call. Whether the client closes or
  drops its stream is free.

### What the violations show

Each is a statement of the repository that the code does not keep; details and
quotations are in `PROJECT.json`.

- `server_order`: `wait_tx` is dropped before a DATA frame is delivered, so two
  frames of one stream race; a close can overtake data.
- `sync_server_quit`: `quit` is set after `client_handler` has tested it and before it
  blocks in `control_rx.recv()`, with every other thread ending silently;
  `disconnect` then waits for the reaper forever.

Behaviours of the models that the properties leave room for; except where it is noted,
nothing in the repository says otherwise:

- a `send()` holding a permit when the writer ends pushes its frame into a channel
  that is no longer read and waits for its acknowledgement for as long as any
  sender lives;
- when the client and all senders are dropped the writer ends normally and `run()`
  leaves without `disconnect()`; a receiving half that is still held waits forever;
- a stream handler blocked in `recv()` is not released when its connection is gone,
  because its own receiver keeps the registry alive;
- an answer that the server's transform refuses is logged and dropped; its client
  waits until its own deadline or the end of the connection;
- `stop_listen` of the asynchronous server that is cancelled between the request and the
  reply loses the listener, and one whose custom stream has ended panics (`ListenerKept`
  admits exactly these);
- a thread of the synchronous client that uses the descriptor number after the close may
  block in another file's read or write;
- a second `stop_listen` of the synchronous server (or `shutdown` after it) closes the
  number of the monitor pipe once more; a listener thread that was past its `poll` at the
  first one may have accepted a connection under that number, which is then closed under
  its threads, although `sync/server.rs:744` says that connections are left open
  (`ReapExact` says that nothing else does this, and that on Windows nothing does);
- a synchronous listener that was stopped and started again never accepts: its
  monitor pipe stays closed;
- a client that sends on after the service method has succeeded may be told that the
  stream is not active instead of the result (`OutcomeTruthful` says exactly when);
- a schema without a package whose client and server come from different generators
  does not find its service.

## 4. Proofs

`SyncServerProofs` (all thresholds that `Server::start` accepts, any number of
threads and requests) proves `TypeOK`, `PoolBound`, `CountExact`,
`RecvErrorMeansQuit` (a worker finds its channel closed only after `quit`) and
`CloseAfterIO`. None of them is inductive alone. The strengthening adds `Covered`
(the count is at least the number of workers that will still decrement it, also
after `quit`, when `CountExact` no longer holds; this is what keeps it from
underflowing), `ReaderQuits` (a reader that has ended has left `quit` set) and
`Joined` (past the joins of `client_handler` the reader and the response thread have
ended). `MoveCounts` and `LeaveCounts` state once what a worker's step does to the
counts. Assumed: `PoolAssumption`, which is the check of `Server::start`.

`SyncListenerProofs` (any connections, descriptor numbers and number of starts, both
platforms, blocking or not) proves `ReapExact` and `GoneMeansClosed`. `ReapExact` is
not inductive: nothing in it says whose a number is between `accept` and the insertion
into the map. The invariant `IInv` adds `Hands` (an accepted connection is in the hand of
exactly one listener thread, and one that is about to be inserted has no entry yet),
`Filed` (an entry has the number it is filed under, also after a stray close), `Owned` (an
open descriptor has a connection that is in a listener's hand, in the map under that number, or
being reaped), `Queued` (no number is in the queue twice, and the connection being
reaped is done; both only while nothing was closed under its owner) and `Reaper` (the
reaper ends only in `disconnect`, with nothing left in its queue).
`GoneMeansClosed` holds also after a stray close, so `Hands`, `Owned` and `Reaper` may not
depend on `stray`. `OnlyMonitor` shows on top of it that the first stray close is a second
one of the monitor pipe. Assumed: `None` is no connection and
no number, and the monitor pipe has a number.

`SyncClientProofs` (any finite set of callers, any traffic of the peer, both platforms)
proves `MapExact`, `DescriptorOwned` and the refinement of `UnaryCalls`. The invariant
follows a request and the resources around it: `Owners` (a call borrows a clone, the
descriptor is closed only without clones and without the receiver's upgraded
reference), `Requests` (queue, sender's hand and map hold a request at one place, and
until it is in the map only a timeout ends its call), `Mutex` (what the receiver knows
while it holds the map), `Entries` (`MapExact` with the one moment inside the drain at
which it would fail without the mutex), `Ids` (the counter is twice the number of ids
given out, plus one, so none is given out twice) and `Traffic` (an answer carries the id
of the request it answers). The refinement follows from `Entries` and `Traffic`: the
caller found under an id is the one whose answer has that id. Assumed: fewer
calls than there are odd ids, and callers are not named like outcomes.

`AsyncListenerProofs` (any finite sets of listeners and connections, any descriptor
numbers, pool size and number of starts) proves `ListenerKept`, `NothingLeft` and
`HookSound`. `ListenerKept` rests on `Stopping` (the stop sender leads to the task of
the latest start, a request that is under way is that of the current call, and its task is
there to take it or has replied) and on `Owned` (a listener is in one place, which a
restart that puts listeners back must preserve). `NothingLeft` is inductive as it
stands. `HookSound` needs `Waiting` (a
connection is in one backlog, once), `Table` (an open number refers to the connection
whose socket or duplicate has it, and the two differ) and `Stages` (a duplicate is open
exactly while its hook is queued or running, also when the connection is already
gone). `MinFree` shows that the kernel's choice of the lowest number is a free one.

`AsyncClientProofs` (any finite sets of calls, streams and sends, any workload, any
capacity of the outbound channel) has two invariants. `IInv` needs no assumption about
stream ids and gives `NonceOrder`, `AckTruthful` and `FramesWhole`: `Tasks` (a task
under way has no outcome; what is queued, in hand or on the wire was handed over with a
permit), `Writer` (nothing is queued, and nothing torn, unless its state says so), `Acks`
(an acknowledged send is on the wire) and `Nonces` (wire, writer and channel, read in
this order, carry consecutive numbers).
`IInv2` adds `Ids`, `Registry` (whose entry and mailbox an id stands for, and that an
answer in a call's mailbox is one to this call)
and `TornDown`, and gives `RegistryExact`, `TeardownReachesAll` and the refinement of
`UnaryCalls`. These are proved under `NoWrap`: the counter does not come around during
the behaviour. That is not a convenience. The code adds two to a 32-bit counter
and does not look whether the id is in use, so that after 2^31 calls a
call may replace the registry entry of one that is still open, and frames for the
first then reach the second.

`AsyncServerProofs` (any unary and streaming requests, any number of DATA frames in both
directions, any capacities) proves `RegisteredInTime`, `GracefulDrain` and `ResultIsLast`.
`Reading` says that a task which has not classified its frame is the one the
reader waits for, and that `handler_shutdown` is set only after the read loop: such a task
is never cancelled, so registration cannot be skipped. `Tasks` and `Handlers` tie a
task's control point and the registry to its stream's handler. `Flight` carries
`ResultIsLast`: a DATA frame is queued only while its handler awaits the
acknowledgement, one at a time, and a result that is queued or written means the handler
is done. `Drain` carries `GracefulDrain`: unless the connection has failed, a
request task that is gone, and whose answer was not refused on its way out, has it in
the channel, in the writer's hand or on the wire; with `Writing` (the writer ends by itself only when everyone is gone and
its channel is empty) only the wire is left at the end.

The same module has the proofs about the notifier those flags are (any finite sets of
handles and callers): `NotifierTypeOK`, `Accounting`, `NoLostWakeup`, the
refinement `PromiseKept` and, of it, `OkMeansAllExited` as a statement of its own. The inductive invariant is the conjunction of the
first three: the counter equals the number of live handles (so that "decremented to
zero" implies "no live handle"), and whoever made a waited-for condition true without
having notified yet is still at its notification. The cardinality facts about
adding and removing one handle come from `FiniteSetTheorems`. The refinement needs
`Accounting` at one place: a `wait_all_exit` that loads zero returns `Ok`, and that is the
step `Joined` only if no handle exists at that very moment (`ExistingIsLive`).

`FrameProofs` (any header and page size, limit, overhead, payload sizes and transport
buffer) proves `PipelineExact` and the refinement of `FrameFifo`. `Pipeline` says that
what has been numbered is sent or in the channel, in consecutive numbers and within the
limit. `Flight` and `Reading` describe the bytes between the writer's offset and the
reader's by how far one lies behind another (`Behind`): the bytes on the wire and in the
read buffer are consecutive, the first one on the wire follows the last one read, and the
read buffer starts where the reader's state expects. `BehindAdds` (distances add up)
replaces an induction over the bytes, so that a read or write of any length is one
step of the argument.

`TypedRpcProofs` (any number of requests and responses, any channel capacity, all four
kinds of method, all pairs of generators) proves `ExchangeExact` and `OutcomeTruthful`.
`Calling` and `Serving` tie the control points of the stub and of the handler to their
counters. `Transit` puts every frame of the client in exactly one place: on the wire, in
its task, in the stream channel, or taken. In the other direction `Mailbox` and
`Wire` say that the replies the client still takes are consecutive up to the first terminal one and that a close is
behind all of them: without it, a frame that overtook another could be
taken as the next one. `Truth` says that frames under way tell what is so, those with
which the server answers by itself included: a time limit that is over stays over because
the method was cancelled, and an answer too large has been returned. The hard part
is "not active", which a task answers when its frame finds the stream unregistered. That
the handler then missed something stays true, because an unregistered handler takes nothing
more; that it did is a pigeonhole argument (`FS_PigeonHole`): the requests it took have
distinct numbers, and the number of the frame that failed is none of them, so it took fewer
than were sent.

TLC checks each inductive invariant on the instance of the component's run, that of
`AsyncServer` also with a unary request and a stream together, two sends and an outbound
channel of two slots (13.4 million states), that of
`TypedRpc` also with three requests and a stream channel of two slots (2.6 million).

Only model-checked:

- the liveness properties (`ShutdownReachesAll`, `ExitIsNoticed`, `DeadlineBounds`,
  `TeardownEndsCalls`, `ShutdownCompletes`, `HangupReaps`, `HangupEndsCalls`,
  `DropReleases`, `EndedIsReaped`, `CallsReturn`, `ShutdownEnds`, `EofEnds`, `RpcEnds`): fairness and
  `ENABLED` are outside the prover;
- what happens to unary calls when ids do wrap: `client_stream` shows for one id that
  no entry is left and every call still ends. Reaching it takes two billion calls
  during one.

## 5. Not modelled, and why

- The encoding of the header's fields and of protobuf messages, metadata, error
  texts, logging: data without state; no property depends on them. A payload that
  cannot be decoded is an error of the call and changes nothing else.
- The additional authenticated data of `security_extension.rs`: data only. A refused
  transform does not use up a nonce, since the length is tested first (`PipelineExact`).
- Address parsing and socket options (`common.rs`, `transport/`): only the outcomes
  of connect, accept, read, write and poll appear, as choices.
- Synchronous generated bindings: they add encoding to `Client::request` and to the
  method handlers, which `SyncClient` and `SyncServer` already have.
- The text the code generators write, their options and file handling: what the
  generated asynchronous code does is in `TypedRpc`, how names are put into camel case is not.
- Refill of the worker pool is not claimed: a surplus worker is on the count
  between its `fetch_add` and its `fetch_sub`, and a worker that takes a frame in
  that window does not ask for a refill.
- Three leaks are in the models without a property: a connection whose
  handler thread cannot be spawned (`SpawnFails`), a socket whose `connect` fails, and a
  Windows pipe whose events cannot be created.
- The panic that follows a failure to start a worker, reader or response thread.

## 6. Plan

A client and a server joined by a connection that breaks: what each side may
believe about a call that was under way. The proofs of `AsyncClient` and
`AsyncServer` are the two halves of it.
