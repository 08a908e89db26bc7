# A TLA+ model of razor-rpc

razor-rpc is a multiplexing RPC library: many requests share one connection, and
several coroutines on each side share the state of that connection through
channels and atomics. This directory holds TLA+ modules translated from the Rust
sources, TLC configurations that check them on small instances, and TLAPS proofs of
every safety property, action property and refinement that the passing runs check.
`PROJECT.json` lists components, runs, mutants, findings, hazards and theorems, and
gives for each definition the source lines it stands for.

## The system

| Part | Source | Module |
|---|---|---|
| a task and its completion | `stream/src/client/task.rs`, `client/mod.rs` | `ClientTask`, abstract: `TaskLedger` |
| timer of sent tasks | `stream/src/client/timer.rs` | `ClientTaskTimer` |
| TCP client transport | `transport/tcp/src/client.rs` | `TcpClient` (write side, peer), `ClientStream` (read path), `WireCall` (bytes) |
| client connection, throttler | `stream/src/client/stream.rs`, `throttler.rs` | `ClientStream` |
| connection pool | `stream/src/client/pool.rs` | `ConnPool` |
| failover pool, call loop | `stream/src/client/failover.rs`, `src/client/mod.rs` | `FailoverPool`, `MCFailoverPool` |
| TCP server transport | `transport/tcp/src/server.rs` | `TcpServer` (write side, client), `RpcServer` (read path), `WireCall` (bytes) |
| RPC server, handlers | `stream/src/server/{server,task,dispatch}.rs`, `src/server/{dispatch,task}.rs` | `RpcServer`, abstract: `PeerContract` |
| frame headers, actions, error codec | `stream/src/proto.rs`, `error.rs` | `Proto`, `ErrCodec` |
| response buffers | `stream/src/buffer.rs` | `Buffers` |
| one call from argument to result | the above, `src/client/task.rs`, `src/server/service.rs`, `macros`, `stream/macros` | `WireCall`, `MCWireCall` |
| graceful restart | `stream/src/server/graceful.rs` | `GracefulServer`, `MCGracefulServer` |
| payload codec | `codec` | reduced to its outcomes in `WireCall` |
| QUIC and RDMA transports | `transport/{quic,rdma}` | stubs, not modelled |

A user's call goes `FailoverPool` → `ConnPool` → `ClientStream` → `TcpClient`, over
the wire to `TcpServer` → reader → handler → writer, and back to the receiver
coroutine of the `ClientStream`, which completes the task. `ClientStream` and
`RpcServer` model the two ends of a connection with frames reduced to their sequence
numbers; `WireCall` models the same connection with frames spelt out and coroutines
reduced to their order of events.

## The modules

**ClientTask, ClientTaskTimer, TcpClient, ClientStream** are one specification in
layers. `ClientStream` extends the others and gives the steps of two processes: the
sender (`spc`), which runs what the user calls (`send_task`, `flush_req`, `ping`,
`set_error_and_exit`, drop), and the receiver (`rpc`), which runs `receive_loop`.
A step is the code between two accesses to shared state: raising
`pending_task_count`, testing `closed`, writing, registering and waiting for the
throttler are separate; so are the receiver's setting `closed`, cleaning, and testing
the counter. `Poll` is one poll of `ReceiverTimerFuture`, `Tick` a second of the
timer. Frames are their sequence numbers, and a response arrives in two parts (header,
body). The peer answers in any order, may answer twice, may stall a write until
`write_timeout` and may go away, `MaxFaults` times in all. A header may be on its way
(`"split"`) when the close cancels its read: `Cancellable` drops the bytes read so far, and
the rest of the frame, which no longer begins with a header, is a 0 on the wire (`Cut`).

**TaskLedger** says what a user is promised: a task accepted gets one verdict, never
replaced, and the connection is freed only when nothing is owed.

**TcpServer, RpcServer** have one listener process per listener, a reader and a
writer per connection, handlers (`running`, the requests that hold a `RespNoti`) and
the coroutine in `close()`. A handler answers, refuses, or drops its `RespNoti` without a
result (`HandlerDrops`; `forgone` records it). `PeerContract`, instantiated per connection,
is what the client relies on: no answer without a request, none twice, none after the
end of the stream, and no orderly end while a request is unanswered that the service
has not dropped.

**ConnPool** has a set of workers, one of which (id 0) is the monitor, the bounded
channel, and a server that goes down and comes back (`Flip`). A stream is reduced to
whether using it succeeds.

**FailoverPool** has the routers, the retry coroutine and the call loop. A ConnPool
is reduced to what `ConnPool` shows of it: it answers each request it takes, and once
unhealthy it stays so. `MCFailoverPool` supplies the address
lists, which a configuration file cannot write.

**ErrCodec, Proto, Buffers** are operators: the encodings of errors and actions with
the casts between `i8`, `i32` and `u32` written out modulo the width (`Half` stands for
2^31), the headers of requests and responses, and `AllocateBuf` for each type of buffer.

**WireCall** sends calls over a connection. A wire is the sequence of units written
and not read yet, each the header of a frame or one byte of a body, so a reader that
takes a wrong number of them has lost its place. Its actions are the steps of a call:
`Send` (or `SendCut`, a write that fails midway), `ServerRead` with splitting the
action, looking up service and method and decoding, `Serve` with encoding the result
or the error, and one action for each way in which `recv_one_resp` reads a response:
`RecvErrno`, `RecvErrString`, `RecvResp`, `RecvDump`, `ClientDrop`. `layer` chooses
between the API with several services or one, and the stream layer with task enums.
`asked` and `want` record what the caller asked and the handler answered.

**GracefulServer** has a process per pid. A process takes over or binds its sockets
one by one, writes the pid file, announces itself in the file named after its pid,
serves, and on a signal forks a successor and polls for its file until
`restart_timeout`; it then leaves or goes on. `Faults` lists which operations may
fail and crashes are steps of their own. `excused` records the few outcomes in which
the code lets go of a promise, and `misled` the processes that serve on under a pid file
that names a dead successor, so that the properties can name them (below).

Definitions named `X_Suffix` before a definition `X` are faulty variants of it (a
dropped guard, an off-by-one); each property of a passing run is violated when one
of them takes the place of the original.

### Abstractions worth knowing

- Pairs of flags that one thread stores one after the other, with nothing of its own
  in between, are stored together (`WriteErrorCleanup`, `FlushErrorFlags`,
  `SetErrorAndExit`). Atomics are sequentially consistent; the code loads `closed`
  with `Acquire`, and whether the counter protocol survives weaker orderings is not
  examined.
- `ClientStream`: a failed allocation is left to `WireCall`, and so is a header that does
  not decode, unless it was cut by the close: the rest of a cut frame is taken not to
  look like a header. On the server both are the fault `garble`. Responses that arrive
  when the receiver has stopped reading are left out. A task of `BadTasks` may fail to
  encode; `unsent` are those that did.
- Sequence numbers and counters are naturals; their 64-bit wrap is out of reach of any
  run of the program and is not modelled.
- `ConnPool`: `cleanup` is one step, as nobody else can reach what its `try_recv` has
  taken; `spawn`'s counter and spawn are one step; `send_task` returns (the throttler
  and `task_timeout` see to it). A sender that waits for room in the full channel is
  a post that has not happened yet.
- `FailoverPool`: the health reads of one `select` are one step; `max_retries` is 0,
  as every caller passes `None`. An address is in a list once; of two copies the code
  makes two pools.
- `RpcServer`: a handler does not both set a result and return an error. A listener that
  is aborted may still accept any number of connections (the code stops at its next
  await, so this allows more than it does).
- `Buffers`, `WireCall`: the capacity of a `None` of an `Option<Buffer>` is what
  `Buffer::alloc` would grant. That allocation may fail is modelled where a blob is read
  by the server, given to a task or thrown away, with one outcome for all causes.
- `GracefulServer`: when an inherited socket does not convert, the bind that follows fails,
  since the predecessor has the address open; `SO_REUSEPORT` is not set.
- `WireCall`: a message is its length, its owner and whether it decodes. Strings are
  sequences over `Words`, a set that contains the separators and names the code
  looks at. `Partial` says how many bytes an encoder that fails may have written.

## The runs

| Run | Instance | Shows |
|---|---|---|
| `client_connection` | 2 calls of `send_task` or `ping`, window 1, both timeouts 1, one task that may not encode, split headers, 1 fault | `TaskConserved`, `NothingStranded`, `CountExact`, `FlushedBeforeWait`, `RegNeverBlocks`, refinement of `TaskLedger` (`LedgerSpec`), `LiveFrameKept`, `NoEarlyTimeout`, `PatientExit`, `Settles` |
| `server_replies` | 1 connection, 2 listeners, a request, a ping, a bad request, all faults | `ReplyConserved`, `IdleFlushed`, `ClosedQuiet`, refinement of `PeerContract` (`ContractSpec`), `CloseReturns`, `Drained`, `Answered` |
| `pool_live` | 3 workers, 3 tasks, 1 spawn, 2 flips | `OneMonitor`, `WorkersCounted`, `PoolConserved`, `TaskServed`, `ReachableExits` |
| `failover_calls` | leader mode, a call and a bare request, limit 2, 1 update, 1 sick pool | `SendsBounded`, `QueuedOnce`, `RetryMovesOn`, `CallReturns` |
| `graceful_restart` | 4 pids, 2 addresses, 1 fault of six kinds, 1 crash, 3 signals | `ListensInOrder`, `AddressesKept`, `OneServer`, `PidFileCurrent`, `ChildTookOver`, `RestartReturns`, `KeepsServing` |
| `wire_calls` | 2 calls on each layer, 10 errors, 9 buffers, messages of 0 and 2 bytes, blobs of 0 and 3 | `RequestsInSync`, `ResponsesInSync`, `HandlerSeesRequest`, `Faithful`, `FitsUnlessSpare` |
| `client_dropped_task` | 1 task, I/O stalls | `NoTaskDropped` does not hold |
| `client_graceful_exit` | 1 task, `task_timeout` 2, `read_timeout` 1, no fault | `GracefulExit` does not hold |
| `failover_leader` | 3 requests, redirects | `LeaderPicked` does not hold |
| `wire_signed_error` | the instance of `wire_calls` | `NumbersUnchanged` does not hold |
| `wire_spare_vec` | the instance of `wire_calls` | `BlobFits` does not hold |
| `wire_partial_resp` | `wire_calls` with an encoder that fails after 1 byte | `ResponsesInSync` does not hold |

Why the bounds are enough for the cases in question: with a window of one the second
task fills it, and two calls are the least for which a stale `min_delay_seq`, a
half-cleaned timer or a ping between tasks matters; `task_timeout` 1 has a task pass
from the channel through the current second and a batch before it expires; one fault
at any point is what each error path handles, and an error stops the connection;
three workers allow a monitor, a promoted worker and a spawned
one; a retry limit of 2 is the least at which both retry loops run more than once;
four pids and three signals allow a failed restart, a successful one and a restart of
the successor; two calls are the least for which a lost place in a wire shows. With
`Half` 4 and `S` 2 an `i32` has three bits and an `i8` two, so that the extreme values
of the types and sums of lengths beyond them occur. That more
tasks, a wider window, longer timeouts, more faults or, in `FailoverPool`, stateless
mode change nothing for the safety properties is what the theorems say; `WindowBound`,
which needs three tasks to be of interest, is proved and not in a run.

`MaxTasks`, `MaxCalls`, `MaxReqs`, `MaxPosts`, `MaxSpawns`, `MaxFlips`,
`MaxUpdates`, `MaxSick`, `MaxFaults`, `MaxCrashes`, `MaxSignals` and `CallSeq` are
bounds; the other constants are configuration values of the code or the user's
services, actions, errors and buffers. The theorems below hold for all their values.
Deadlock is checked in every run.

### Fairness

The runtime keeps polling a coroutine that can go on and serves its timers: weak
fairness of the sender's own steps, of the receiver, of each reader, writer and
worker, of the retry coroutine and of `close()`; the operating system runs every
process (`graceful_restart`). `Tick` has strong fairness, since a due tick is served
by every poll and polls come and go. Users and clients are never forced to act. That
handlers finish is a premise of `Drained` and `Answered` only (`CloseReturns` does
without). In `failover_calls` the answers of a ConnPool are fair. `TaskServed` gives one
half of that: a task is handed to a stream or failed by the pool. The other half is
`Settles` of the stream, which ends every task but allows it to be destroyed
(`client_dropped_task`); a request destroyed there never comes back, and `CallReturns`
speaks of the others. `Settles` and `CallReturns` are put as "again and again nothing is
under way": calls are bounded, so from some point on nothing is.

### Where code and documentation differ

Six runs end in a counterexample to what a comment or a document says.

- `client_dropped_task`: `has_err` set while a response body is read makes the
  receiver drop the read with the task in it; no completion is signalled.
- `client_graceful_exit`: `stream.rs:3-4` says that after a drop the reader does "not exit
  until all the ClientTask have a response or after `task_timeout` is reached". The
  header is awaited for `read_timeout` only, and the defaults are 5 s for it and 20 s for
  `task_timeout` (`client/mod.rs:48-49`). A header cut by the close ends it as well.
  What does hold is `PatientExit`: with tasks waiting, such a connection is given up only
  when each of them has waited for `read_timeout`, or when the header was cut.
- `failover_leader`: of two racing redirects, one stores an index of the older
  configuration, and new requests miss the leader.
- `wire_signed_error`: a negative `i8`, `i16` or `i32` error is encoded as a `u32` above the
  type's maximum, which the caller does not decode (`error.rs:351`, `error.rs:357`).
- `wire_spare_vec`: `Vec::reserve` is given `blob_len - capacity` where it expects what is
  missing from the length (`buffer.rs:18`, `buffer.rs:38`): a vector with spare capacity
  may end up with less room than `set_len` says. What does hold is `FitsUnlessSpare`: no
  other buffer is overrun.
- `wire_partial_resp`: when the encoder of a response fails after it wrote some bytes,
  the text of the error is appended behind them while the header announces the text
  alone. The client loses its place in the stream.

The passing properties are stated beside these: `TaskConserved` counts a destroyed task
as a state of its own, `Faithful` has negative numbers come back as the decode error they
become (`Told`) and says nothing of a connection on which a buffer was overrun, since
the program's behaviour is then undefined, and the theorems on responses assume
`Partial \subseteq {0}`.

Others were met while modelling and have no run.

Client connection and pools:
- A request that does not encode leaves `pending_task_count` raised, and the
  receiver of a dropped connection then never exits. `CountExact` has a term for such
  requests, and `Settles` leaves them out.
- The response of a ping does reach `take_task` (`timer.rs:128` says not).
- `worker_count` counts every worker that runs, the monitor among them, while its comment
  says "dynamic worker count (not the monitor)" (`pool.rs:56`). `run` uses it in the first
  sense (1 is "the monitor is alone"), and so does `WorkersCounted`.
- A pool dropped while its server is unreachable keeps its monitor, which does not look
  at the channel in between; `ReachableExits` speaks of a server that is reachable.
- `is_ok` of a pool is never set back to true, and `connected_worker_count` is raised
  on leaving `run_worker` as well.

Wire:
- A user's error text that equals the text of an internal error, whose prefix is
  reserved, reaches the caller as that error (`Told`).
- A negative `RpcAction::Num` is read as the length of a text (`Carried` excludes it).
  `Num(0)` with an empty message is taken for a ping.
- A response whose blob is longer than `i32::MAX`, or whose message is longer than
  `u32::MAX`, loses the place in the stream, and the sum of the two lengths at
  `transport/tcp/src/client.rs:193` wraps (`Carried` excludes these).
- The buffer for a message is sized by `msg_len` before the flag says that the field
  is an error number (`client.rs:125`).
- The branch of the endpoint macro for methods without arguments cannot be reached.

Graceful restart:
- A file left by a successor that announced itself late is taken for the
  announcement of a new successor if the pid is given out again (`graceful.rs:115`);
  `Reuse` = FALSE excludes it, and with `Reuse` = TRUE `ChildTookOver` does not hold.
- A successor that has written the pid file and dies before its predecessor has seen
  its announcement leaves its own pid there. The predecessor serves on, and `restart()`
  does not write the file back: until a later restart succeeds the pid file names a dead
  process. `PidFileCurrent` names exactly this case (`misled`); no comment or document
  says what the file holds then.
- When `try_wait` fails, predecessor and successor both stay (`"two"`); so do predecessor and
  grandchild when the successor was ready, handed over in its turn and was gone when
  its own predecessor gave it up (`"outrun"`); `write_pid_file` that fails midway leaves
  no readable pid (`"torn"`); a successor that is alive when the time is up may still
  fail (`"late"`).
- The child announces itself before its signal handlers are installed (a `Crash`).
- With no listener, the child's parsing of an empty `listen_fds` panics; `Addrs` is not
  empty.

## The proofs

Eight modules hold theorems, each for every value of the constants that satisfies the
named `ASSUME`s of the modules it is about (bounds and timeouts are naturals, the
window is positive, a service's name has no dot in it, and so on). Where a theorem
needs more, it says so with `ASSUME ... PROVE`.

| Module | Theorem | States | Needs |
|---|---|---|---|
| `ClientPromiseProofs` | `Typing`, `Conservation`, `Counting`, `Draining` | `TypeOK`, `TaskConserved`, `CountExact`, `NothingStranded` | |
| | `Throttling`, `FlushFirst`, `Registering` | `WindowBound`, `FlushedBeforeWait`, `RegNeverBlocks` | |
| | `Refinement` | `LedgerSpec`: the connection implements `TaskLedger` | |
| | `Punctuality`, `Delivery` | `NoEarlyTimeout`, `LiveFrameKept` | |
| | `Patience` | `PatientExit` | |
| `RpcServerProofs` | `Typing`, `Conservation`, `Flushing`, `Closing` | `TypeOK`, `ReplyConserved`, `IdleFlushed`, `ClosedQuiet` | |
| | `Refinement` | `ContractSpec`: each connection implements `PeerContract` | |
| `ConnPoolProofs` | `Typing`, `Counting`, `Monitoring`, `Conservation` | `TypeOK`, `WorkersCounted`, `OneMonitor`, `PoolConserved` | |
| `FailoverPoolProofs` | `Typing`, `Queueing`, `Bounding` | `TypeOK`, `QueuedOnce`, `SendsBounded` | |
| | `MovingOn` | `RetryMovesOn` | `NoDuplicates` |
| `GracefulServerProofs` | `Typing`, `InheritedOrder`, `SingleServer`, `CurrentPidFile` | `TypeOK`, `ListensInOrder`, `OneServer`, `PidFileCurrent` | |
| | `Handover`, `NoGap` | `ChildTookOver`, `AddressesKept` | `Reuse = FALSE` |
| `WireFrameProofs` | `RequestsSynced` | `RequestsInSync` | `Carried` |
| | `ResponsesSynced` | `ResponsesInSync` | `Carried`, `Partial \subseteq {0}` |
| `WireCallProofs` | `HandlersSee` | `HandlerSeesRequest` | `Carried` |
| | `Typing` | `TypeOK` | `Carried`, `Partial \subseteq {0}` |
| | `BlobsFit`, `Faithfulness` | `FitsUnlessSpare`, `Faithful` | the same |

None of the hypotheses is for the prover's convenience: the section above says what
the program does where one of them does not hold, and `wire_partial_resp` shows one
case. `MCWireCall` assumes `Carried`, so TLC evaluates it on the instance.

### The arguments

**Client connection.** `ClientStreamProofs` has the lemmas on the channel and on the
timer's operations and the step lemmas of `Inv == Countable /\ TypeOK /\ Core`;
`ClientPromiseProofs` has the theorems. No property is inductive alone. That a task is not
completed twice needs the places that may hold it to be disjoint: the batches of the
timer from one another and from the channel (`Apart`), and the sender's hands, the
timer and the receiver's hands (`HandsApart`), and what may be in those hands where
(`CurShape`, `HeldShape`). That the count is exact when an encoding fails needs such a
task to be destroyed, and so registered nowhere (`UnsentGone`). `NothingStranded` rests on `ClosedShape` and
`CountExact`: when the receiver tests the counter, `closed` is set and the timer is
empty; if the count is zero the channel is empty and the sender is not between raising
the counter and registering, and a sender that raises it later sees `closed`.
The other properties add invariants of their own, each proved on top of `Inv`:
- `Window`: what is in flight exceeds the window only between registering and the end of the
  throttler's wait, and then the frame that filled it was flushed;
- `Freed`: the connection is freed only after it was dropped, which with
  `NothingStranded` lets every step map to a step or a stutter of `TaskLedger`;
- `Aging`: a task in the i-th batch was registered at least i ticks ago;
- `Ordered` and `Frames`: sequence numbers grow from the oldest batch to the channel and on to the
  sender's hands, and `min_delay_seq` is below all that has not timed out, so
  `take_task` never gives up on a number it may still meet;
- `Closing` and `Fading`: once the connection is closed nobody registers and the channel
  is empty, so during a read that began after the close each tick leaves one more
  batch empty behind it. When the read times out, what is left is in batches at least
  `read_timeout` old, and by `Aging` so are the tasks in them, which is `PatientExit`.

**Server.** `ConnInv` for each connection: a request that was read is in one place, with
the reader, in a handler, among the replies or dropped by its handler (`Placed`); none has
been lost while
the client is there and the writer has not failed (`Covered`); a writer that stopped
without an error was the last coroutine, and one that waits has flushed (`Shape`).
`Listening` says that a connection without coroutines is held by one listener at most,
which `ClosedQuiet` needs. With `ConnInv`, each step maps to one of `PeerContract` of one
connection and to a stutter for the others.

**Pools.** In `ConnPool` the properties are put without cardinalities (`Single`,
`Placed`), together with what a worker's place says of its id (`Role`). In
`FailoverPool` the bound on sends needs a budget for each place of a request
(`InBudget`), from which what both loops have left can be read. `RetryMovesOn` needs
`Track`: configurations with the same version are the same, and a request is with the
pool that its task names in its configuration; arithmetic modulo the number of pools
does the rest, as long as no address is in a list twice.

**Graceful restart.** `Inv` follows the list of sockets through a start, taken over or
bound. `OneLine`: one process is the server or about to become it, and while a
predecessor is undecided it is its successor. `Named` adds that the pid file names the process that
would go on if its successor failed, unless that process is `misled`, `Kept` that there is such a process, and
`Announcing` that a file named after a pid was written by the process that has it.

**Wire.** Let the marks of a wire be the sizes of the frames at its headers. `Chain`
says that where a frame begins the next one begins behind it, `Whole` that none is cut
off; a reader that takes the first frame leaves a wire of the same kind. `ReqInv` and
`RespInv` say so of the two wires, and with them that the readers compute the size the
encoders wrote, casts included. `BlobInv` follows the buffers through `AllocateBuf`: each has
the room its length says, or was offered as a vector with spare room.
For the contents, `AskInv` says that a complete request on the wire is the frame of what its caller
asked, and that a handler was given one that is not to be rejected; `ReplyInv` says where a call is
(`Places`: no number is in two of the request wire, the handlers and the response
wire), which numbers are pings, and that a response is the refusal due or the answer
the handler gave. Routing rests on `SplitUnique`: an action is split at its first dot,
which is the one behind the service since a service's name has none.

Two conventions keep the proofs within the prover's means. A trivial fact about a record update is used
throughout (`RecordUpdate`), since a record update among the facts of a step spares
tlapm an inference of types that grows with the module; it is hidden where a step
depends on types. Library theorems that few steps need are instantiated near the end
of a module (those on finite sets in `ClientPromiseProofs`, and in `WireCallProofs` the existence
of a least number, which the lemmas before it assume as `WellOrdered`). A step that takes
more than a third of the default time limit has a limit of its own (`SMTT`, `ZenonT`).

### Only model-checked

Liveness is out of the prover's reach and stays with TLC: `Settles`,
`CloseReturns`, `Drained`, `Answered`, `TaskServed`, `ReachableExits`,
`CallReturns`, `RestartReturns` and `KeepsServing`. So do the six violations.

## Not modelled

- Bytes of encoded messages (`codec`): whether encoding and decoding succeed and how
  long the result is are inputs of `WireCall`.
- Expansion and diagnostics of the macros; what the generated code does at run time is
  in `WireCall`.
- Socket options, logging, metrics; the QUIC and RDMA transports, which are stubs.
- The composition of `ClientStream` with `RpcServer`: the client's peer is freer than
  what `PeerContract` allows, and `RpcServer` is shown to keep to that contract.
- Details seen while modelling and left out: `recv_one_resp` never returns `Ok`, so
  `last_resp_ts` is not stored; `ping` does not skip on a full throttler; an
  `idle_timeout` of 0 cancels at once where 0 means none elsewhere.
