# crynet: a TLA+ model of the actor runtime and of the skynet kernel

The repository holds two programs. `crynet-server` is a C++ actor runtime that is
being migrated from skynet; `skynet` is the C original that it follows. This
project models the parts of both that decide whether messages are delivered: who may
run, when, and what is left behind when a service goes. The two are modelled
apart: the C++ runtime runs on one thread with reentrant handlers, the C kernel
on many threads with spinlocks and reference counts.

Paths below are relative to `src/`; `core/` is `crynet-server/core/`, and
`skynet-src/` is `skynet/skynet-src/`.

## 1. Inventory

### crynet-server

| part | state | operations | what makes it correct |
|---|---|---|---|
| handle registry (`core/actor/.../handle_registry`) | next handle, handle -> name, name -> handle | allocate, register, unregister, find | the maps are inverse to each other and agree with the slots |
| session manager (`session_manager`) | next identifier, pending caller/callee pairs | begin, lookup, complete, cancel for a handle | one response per request, to the requester only; nothing pending for a released service |
| mailbox (`message_queue`) | messages, overload threshold and size | enqueue, dequeue, take_overload | FIFO; every crossing of the threshold is reported once |
| service context (`service_context`) | life-cycle state | initialize, start, stop, release | no message accepted unless running |
| ready queue and scheduler (`core/scheduler`) | FIFO, index, in-flight set | mark_ready, acquire_next, complete | a service is at most once ready or in flight, never both |
| actor system (`actor_system`) | slots and all of the above | register, send, stop, release, shutdown, call, respond, timeouts, dispatch_batch | serial execution, no lost wake-up, nothing survives a release |
| timer queue (`core/scheduler/timer`) | near wheel, levels, current tick | schedule_after, cancel, cancel_for_target, poll_expired | what is due is handed over, once, in order |
| worker loop, runner, monitor; monitor runner | stop flags, per-worker route and versions, sleeping count | run_once, run_until_idle, check_stalled | stops when asked, counts sleepers, reports a stall and only a stall |
| metrics | counters | one per event | they add up |
| bootstrap, startup application | services started so far | initialize, start, run, shutdown | all or nothing |
| logger, build configuration, V8 stub | - | - | not modelled |

Components interact by direct calls on one thread. The hard part is *reentrancy*:
`dispatch_batch` calls a service's handler in the middle of its loop, and the
handler may call anything, `dispatch_batch` and `release_service` included.
`pump_timers` turns expired timeouts into sends. No part of crynet-server persists
anything, so there is nothing to recover after a crash.

### skynet

| part | state | operations | what makes it correct |
|---|---|---|---|
| message queues (`skynet_mq.c`) | per service: ring, `in_global`, `release`; the global queue | push, pop, mark_release, release, global push/pop | a queue is in one place; no message is stranded or lost |
| contexts (`skynet_server.c`) | reference count, init flag | new, send, dispatch, exit, release | no use after free, no dispatch before init |
| handle storage (`skynet_handle.c`) | hash table of contexts, sorted names | register, retire, grab, name, find | a live handle is found, a retired one is not |
| threads (`skynet_start.c`) | sleeping count, quit | workers, timer, monitor, socket thread | work is picked up; everything stops at the end |
| timer (`skynet_timer.c`) | wheel with a 32-bit tick | timeout, update | as for the C++ timer queue, over the wrap-around |
| monitor (`skynet_monitor.c`) | version pair and route per worker | trigger, check | reports what hangs |
| sockets (`socket_server.c`, `skynet_socket.c`) | a table of sockets with their send buffers, a pipe of commands, a batch of events | connect, listen, accept, send, close, shutdown, start, pause; the socket thread's poll | streams stay whole and in order, what was accepted goes out, a close is the last thing heard |
| harbor (`service_harbor.c`, `skynet_harbor.c`) | per remote node: connection, status, queue; per global name: handle, queue | send by handle or name, commands N, S and A, incoming data | order per sender and destination, the right service, nothing waits for ever |
| gate, logger, snlua | - | - | not modelled |

Components share memory between threads; a lock protects one queue, the global
queue or the handle table at a time. The socket server has one thread that owns the sockets and a lock
per socket for the one thing that services do themselves, the direct write. The harbor is a
sequential service; what is concurrent there is the cluster. The hard behaviours are the interleavings of a
push with the pop that finds the queue empty, of a retirement with senders and
dispatchers that still hold references, of a failing launch with both, and of going to
sleep with being told to stop; of a direct write with the socket thread's buffers, of a close
with messages and events under way, of the reuse of a slot with commands for the socket before;
and, between nodes, of names, connections and handshakes that come in any order or fail.

`PROJECT.json` lists the components with their status and, under `hazards`, the lines
where these things bite and the properties that watch them.

## 2. Modules

| module | models |
|---|---|
| `MessageQueue`, `WorkerScheduler`, `SessionManager`, `HandleRegistry`, `Timeouts` | the passive parts of the C++ runtime, as operators on their state |
| `ActorSystem` | composes them: one action per public operation |
| `ActorSystem_proofs` | the theorems about `ActorSystem` |
| `TimerSpec` | what a timeout queue promises, without a wheel |
| `TimerQueue` | the timing wheel, and the refinement mapping to `TimerSpec` |
| `WorkerRuntime` | worker loop, runner, monitor and monitor runner over the scheduler of `WorkerScheduler` |
| `SkynetKernel`, `MC_SkynetKernel` | queues, contexts and threads of skynet |
| `SocketServer`, `MC_SocketServer` | the TCP socket server of skynet |
| `Harbor` | the harbor services of a cluster and the connections between them |
| `WorkerRuntime_proofs`, `SkynetKernel_proofs`, `Harbor_proofs` | the theorems about these modules |
| `SocketServer_proofs`, `SocketTransfers_proofs`, `SocketStreams_proofs` | the theorems about `SocketServer`: the lives of sockets, what is under way to them, and the bytes they write |
| `Inductions` | lemmas about sums over finite sets and about sequences that the proofs share |

Definitions whose comment says `mutation` are wrong on purpose: plausible bugs
that the properties must notice. They take no part in any specification.

### ActorSystem

A variable for each member of the C++ class. `stack` is the C++ call stack, reduced to the
`dispatch_batch` activations on it: the service, how many messages the batch may still
take, and whether its handler is running. An operation can be called when the stack
is empty (by the owner of the system) or when the innermost activation is in its handler;
each is one step. `dispatch_batch` is split: `DispatchBatch` acquires a service,
`DispatchNext` takes a message and enters the handler, `HandlerReturns` leaves it,
`BatchEnds` completes the batch and marks the service ready again if there is more.
`pump_timers` is `PumpTimers` (poll) and `PumpNext` (one send each), during which
nobody else can call.

`TimerQueue` is represented by the set of pending timeouts of `Timeouts`, which is what
`TimerSpec` says of it. Message payloads are left out. `returned` is a
history variable: the session identifiers that `call` has given to its callers.

Assumed of handlers: they do not throw, and they do not release a service that is on the
dispatch stack, nor call `shutdown` (`dispatch_batch` keeps a reference to the slot, so the
code has undefined behaviour there). Session, timer and handle identifiers are 64-bit
counters in the code and do not wrap in the model.

### TimerQueue

`near` and `levels` are the buckets, `tick` is `m_current_tick`. A poll sets
`start` and `until` and then takes one `PollStep` per iteration of the code's loop (collect,
advance, collect). Sizes are constants where the code has 256, 64 and 4, so that
the wheel turns over within a few ticks. `hung` records that `move_bucket` would not return.

The refinement: while a poll is in progress the abstract queue still has its old tick
and owns what has been collected; the poll takes effect when it returns. In between
steps of the poll are stuttering steps, and its last one is the abstract `SpecPoll`.

### WorkerRuntime

One `run_until_idle` of a runner at a time, turn by turn: `BeginTurn` pumps the timers and
acquires a service, `DispatchMessage` tells the monitor (the observer is the plugin's
`on_dispatch_begin`) and enters the handler, `EndBatch` completes the batch, and the turn
ends idle (`on_idle`, the run returns) or busy (`on_dispatch_end`). Handlers send, schedule, release
other services, ask for the stop and run a monitor check; a check in a
handler is the only way in which this single-threaded program can see a message
that is still being executed. A mailbox is its size, a route is its target. `progress`
is a history variable: what a check should find out from the versions.
`sched` is the scheduler of `ActorSystem`, and released handles stay in it as there. A timeout that is cancelled
with its service leaves a hole in `due`, which pumping skips.

Assumed: services are running until they are released; runners have distinct worker
identifiers that the monitor knows; handlers return, and run no nested turn. `m_stop_requested` of the
loop is set exactly when the runner sees the monitor's quit flag, which is never taken back,
so it is not a variable of its own.

### SkynetKernel

A step is one critical section or one atomic operation. Each thread has a place `pc`
in `thread_worker`/`skynet_context_message_dispatch`, and a call on a context in progress
(`op`: still to push, to release, or to delete), because `skynet_context_push` is a
grab under the table's lock, a push under the queue's lock and an atomic decrement,
with room for everybody else in between. `held` is the queue a worker owns, `nextq` the one it
has popped before it puts `held` back, `new` the service it is launching.
`Outside` stands for the timer and the socket thread as senders. The handler of a message may send,
retire any service (itself too) and launch one.

Abstracted: the handle table is a set and a handle is used once; the ring buffer is a
sequence; a message is the handle of its source; the overload warning, logging, names and
remote destinations are left out. An init function may send and retire but not launch.
A context becomes visible together with its queue: between the two assignments in
`skynet_context_new` nobody else has been told the handle.

### SocketServer

`slot` is the table of sockets, `pipe` the commands that services have written and the socket thread has not
read, `batch` what is left of the events of the last `sp_wait`, `poll` the place of `socket_server_poll` in
its loop. The socket thread takes one command or event per step, with one exception: `force_close` frees the
send lists before it takes the lock, so it is `ForceClose` and, once the lock is free, `FinishClose`.
A call of a service is split where another thread can come in between: `Open` is the CAS of `reserve_id`
and `Publish` the rest up to the command; a send is `Send` (the checks and the try-lock), `DoubleCheck` and `DirectWrite`
(the second check reads the buffers before the rest), `Wake` (the `W` command for what was not written),
or `inc_sending_ref` and `SendCommand`.

A message has two parts: enough to be cut once. `wire` is what was written to a connection, `held`, `opened`,
`closed` and `late` are what services have been told. The kernel is the environment: connect, accept, read and
write have any outcome, and any event that the socket waits for may come, in any order and any batch. A
hang-up makes a connection readable and writable too, so it is seen as such only where neither is asked for.

Assumed: services send to sockets that were reported open. A command or event for the former socket of
a slot that meets the slot between the CAS and the write of the new id finds the old id there. The
code takes it for the old socket; some of these cases end in the assertion of `force_close`,
others change the new socket. The model records that this happened (`stale`) and goes no further;
`AssertionsHold` says that it is the only way to a failing assertion. The properties of
the sockets hold up to there and claim nothing after it.

Left out: UDP, bound descriptors (`B`), socket options, userobject buffers, the owner of a socket, buffer warnings and statistics,
the exit command, and failures of `epoll_ctl` on an open descriptor, which the code reports or ignores without
a change of state.

### Harbor

`remote[n][p]` is the slave entry that node n has for p, `name[n]` its entry for the one global name, which stands for
a service of `Owner`. `conn` and `stream` are the network: a connection has the node that opened it, the node
it was meant for and the node that answered, and in each direction a sequence of frames, of which the handshake
byte is one. The slave services, in Lua and outside this repository's C code, are
the environment: they connect (`CommandS`, only to later nodes, as slaves do), accept
(`CommandA`) and announce the name (`update_name`). A connection may `Break` at any time and loses what is
under way; a message may be too big for the receiver, which then closes the connection. After a break the harbor keeps the
descriptor, as the code does: `S` and `A` are refused and sends are lost until the slave closes it. A frame is read as a whole:
`STATUS_CONTENT` is left out, and with it that `close_harbor` does not reset `s->read`, so that after a
big message whose header came in pieces the frames of the next connection would be misread.

`moved` and `early` record the messages that took the two ways of `dispatch_name_queue` which
`RightDestination` names as exceptions (see there).

## 3. Runs

| run | bounds | what it shows |
|---|---|---|
| `ActorSystem` | 2 services, 3 messages offered, 1 call, 1 timeout, nesting depth 2, batches of up to 2, threshold 1 | all safety properties of the actor system and the fairness of the ready queue |
| `ActorSystemLive` | smaller, with fairness | every running service's mailbox is drained |
| `ActorSystemLeak` | as above | **violated**: a failed `call` leaves a pending session |
| `TimerQueue` | wheel of 2 x 2 x 2 ticks, 2 timeouts, 2 targets, its whole range | the wheel implements `TimerSpec`, and stays well placed |
| `TimerQueueWrap` | the same wheel, past its range | **violated**: a timeout beyond the range is never handed over |
| `WorkerRuntime` | 2 services, 2 workers, 3 messages or timeouts, 2 cycles, batches of up to 2, 2 stall reports | sleepers are counted, routes follow the messages, stalls are real |
| `WorkerRuntimeIdle` | the same with 1 worker | **violated**: a run ends as idle while a service has mail |
| `SkynetKernel` | 2 workers (weights -1 and 0) and an outside sender, 2 services, 2 messages, with fairness | all properties of the kernel, deadlock freedom included; messages are taken, queues freed, workers stop |
| `SocketServer` | 2 slots, 3 ids, 2 services, 2 messages, 4 calls | streams, losses, wake-ups, closing and assertions of the socket server |
| `SocketServerClose` | the same | **violated**: a close that was put off for a message that is then dropped |
| `Harbor` | 3 nodes of which 2 send, 2 connections, 2 messages | order, destination and progress of messages between nodes |
| `HarborEarly` | the same | **violated**: messages go out over a connection whose id is not checked yet |

Why the bounds are enough. `ActorSystem`: two services with nested dispatch give a service
that waits while it is in flight, one that is ready behind it, and a third party (the
owner); three messages with batches of two give a batch that leaves mail behind, and with
threshold 1 two doublings and the fall back. `TimerQueue`: every
pair of expiry and current tick of a wheel with two levels occurs, with every cascade;
beyond two timeouts buckets only get longer. `WorkerRuntime`: two workers for a busy turn of
one while the other sleeps, three messages and batches of two for a check between two messages of a batch. `SkynetKernel`: a race there is between
a queue's holder and one or two others that push to it, retire it or launch it; three
threads and two services give each of these pairs, and two messages error reports from a dropped
queue to a live service; a third message makes the liveness check longer than it is worth, as the safety properties are
proved for any number. `SocketServer`: with three ids on two slots a slot is used twice,
with commands and events of its first socket still under way; two services and two messages give a direct write
against buffered data, against another service and against a close; one call to open and one to close leave two for
the rest. `Harbor`: three nodes give a connection to the wrong one, two connections a
second attempt after the first, and two messages every pair of waiting places. Proofs (section 4) remove the bounds for the actor system, the worker runtime, the kernel and the harbor.

Fairness. `ActorSystem`: the worker loop calls `dispatch_batch` and `pump_timers` again
and again, and handlers return; weak fairness of the dispatching steps. What services and the
owner do beside that is not assumed. `SkynetKernel`: every thread is scheduled, handlers and
init functions return, and the timer thread signals a sleeping worker every 2.5 ms
(`thread_timer`), hence weak fairness of `\E t : Wakeup(t)`: of some worker, not of each.
Liveness depends on that signal, because a push does not signal.

`CHECK_DEADLOCK FALSE` in the runs of `ActorSystem`, `TimerQueue`, `WorkerRuntime`, `SocketServer` and `Harbor`: they are passive and
may stay idle for good once their bounds are used up. The services of `SocketServer` are interchangeable, which
the run uses as a symmetry. `SkynetKernel` is checked for deadlock; `Terminated`
is the state in which all workers have stopped.

### Properties

*Actor system.* `SerialExecution`, `ReadyQueueConsistent`, `NoLostWakeup`, `ReadyHasWork`:
the scheduling core. `NothingOutlivesRelease`, `RegistryConsistent`: life cycle; of timeouts they say
nothing, as `schedule_timeout` takes any target, a released service too.
`OneResponsePerSession`: request and response. `WithinThreshold`, `MetricsBalance`: accounting.
`NoOvertaking` (action property), `EventuallyServed` (liveness).

*Timer queue.* `EachTimerOnce`, `WellPlaced`, `PollReturns`, and `ImplementsTimerSpec`.

*Worker runtime.* `SleepersCounted`, `RouteFollowsDispatch`, and `StallIsReal` (action property).

*Kernel.* `OnePlace` (hence one message at a time per service, and the assertion of
`skynet_globalmq_push`), `NoStrandedMail`, `RefCountExact`, `NoUseAfterFree`,
`NoDispatchBeforeInit` (the assertion of `dispatch_message`), `MessagesConserved`;
`EventuallyDispatched`, `EventuallyFreed`, `EventuallyStopped`.

*Sockets.* `StreamIntact` (nothing cut or repeated; order among what a service sends at high priority, which
overtakes low priority by design), `NoSilentLoss`, `TransmissionArmed` (every rest has a writer),
`NothingAfterClose`, `AssertionsHold`.

*Harbor.* `InOrder`, `RightDestination`, `NothingStranded`. `InOrder` speaks of all messages of one node to another, however they
were sent; `MayPass` has its exceptions. A message that waits for its name is passed by messages to a handle, which
need not wait for it; and `dispatch_name_queue` sends it past the harbor's queue if the name comes during the handshake (finding 5).
`RightDestination` has two exceptions, both of messages that were sent to a name before it was known. If the node of the name is not connected when the name comes,
`dispatch_name_queue` moves them to the node's queue with a header that has no handle yet, and nobody adds it: they arrive
for handle 0, where there is no service. If the connection is in its handshake they are sent at once, although
`remote_send_handle` waits for the id of the other end there, and may reach the wrong node (finding 5).

### Findings

1. `TimerQueue`: the wheel covers 2^32 ticks (49.7 days of milliseconds). skynet's tick has 32 bits, wraps, and
   moves bucket 0 of the last level when it does. The C++ tick has 64 bits
   and the test `current_tick == 0` is never true again, so a timeout whose expiry
   lies past the next multiple of 2^32 ticks is lost. With delays of 2^32 ticks and
   more `move_bucket` can also loop forever. The run `TimerQueueWrap` shows the first.
2. `ActorSystem::call` does not close the session when the request cannot be sent
   (`ActorSystemLeak`).
3. `run_until_idle` (of the actor system, the worker loop and the worker runner) stops when
   a batch dispatches nothing. A released service at the head of the ready queue makes such a
   batch, so the run stops while services behind it have mail (`WorkerRuntimeIdle`). The next
   run takes them up: messages are late, not lost.
4. `close_socket` puts the close off while a message is counted as under way; the message then finds the
   socket closing and is dropped, nothing turns the write event on, and only a write event closes
   the socket. It stays half closed with its slot and descriptor until the peer ends the connection (`SocketServerClose`).
5. `service_harbor.c:9` has a connection that was opened with `S` wait for the id of the other end, "check it", "and at last send queue".
   `dispatch_name_queue` looks at the descriptor only: what waited for a name goes out as soon as the name is known, before
   the check and before what is in the harbor's queue (`HarborEarly`).

## 4. Proofs

Every theorem holds for all values of the constants: any number of services, workers, nodes, names, sessions,
messages and nested dispatches. A component's proofs are in modules of their own.

| module | theorems, each `Spec => []P` for the property P of the same name |
|---|---|
| `ActorSystem_proofs` | `TypeCorrect`, `SerialExecutionHolds`, `ReadyQueueConsistentHolds`, `NoLostWakeupHolds`, `ReadyHasWorkHolds`, `NothingOutlivesReleaseHolds`, `RegistryConsistentHolds`, `WithinThresholdHolds`, `OneResponseHolds`, `MetricsBalanceHolds`, and the action property `NoOvertakingHolds` |
| `WorkerRuntime_proofs` | `RuntimeTypeCorrect`, `SleepersCountedHolds`, `RouteFollowsDispatchHolds`, and the action property `StallIsRealHolds` |
| `SkynetKernel_proofs` | `KernelTypeCorrect`, `OnePlaceHolds`, `NoStrandedMailHolds`, `RefCountExactHolds`, `NoUseAfterFreeHolds`, `NoDispatchBeforeInitHolds`, `MessagesConservedHolds` |
| `SocketServer_proofs` | `ClosedIsFinal` (`NothingAfterClose`) |
| `SocketTransfers_proofs` | `SocketTypeCorrect` (`TypeOK`), `QueuedIsUnderWay` (`TransmissionArmed`), `AssertionsAreSound` (`AssertionsHold`) |
| `SocketStreams_proofs` | `StreamIsIntact` (`StreamIntact`), `NothingIsLost` (`NoSilentLoss`) |
| `Harbor_proofs` | `RightDestinationHolds`, `NothingStrandedHolds`, `InOrderHolds` |

Assumptions. The named assumptions of the modules say that the constants are numbers of the right kind, that the marker for
"none" is not a member of the sets it is added to, and that the sets of workers and of services are finite. `KernelAssumption` also says that 2 to
the power of a weight is a positive number, because the prover has no axioms for `^`; TLC evaluates it on the instances.

*Actor system: scheduling.* The type invariant is inductive alone. The five scheduling properties are proved together,
as none is inductive without the others: that a batch's end may mark its service ready
needs that the service is not ready already (`ReadyQueueConsistent`); that `acquire_next`
does not start a service a second time needs that ready and in flight are disjoint,
and the equality of in-flight set and stack; `NoLostWakeup` is kept by a send to a service in flight
only because the service is on the stack, and by `BatchEnds` only because the stack has it
once; `ReadyHasWork` survives `DispatchNext` because the service on the stack is not ready, and
survives a send because the mailbox has just grown; and releasing a service keeps
`NoLostWakeup` because nothing running is left of it. The lemmas `MarkReadyEffect`, `AcquireNextEffect` and
`CompleteEffect` say what the scheduler's operations do to the queue, its index and the in-flight set;
`SendSched` is the preservation by `send`, which six actions use.

*Actor system: services.* `RegistryConsistent` and `WithinThreshold` are inductive with the type. `OneResponsePerSession` needs that
session identifiers grow and have one entry each, and that a response in a mailbox is to a session that was opened
(`SessionsInOrder`): otherwise `begin` could open the session of a response that is already under way.
`NoOvertaking` follows from the effects of the scheduler's operations and the scheduling invariant.

*Worker runtime.* `IInv` adds to the properties what a turn in progress guarantees (`TurnInv`), that timeouts under way count as
sends (`MailInv`), that until a turn has dispatched something no worker has a route (`RouteInv`, the reason why clearing
the route at the end of busy turns is enough), and that the versions the monitor compares stand for progress (`VersionInv`),
from which `StallIsReal` follows in each check.

*Kernel.* `OnePlace`, `NoStrandedMail`, `RefCountExact` and `NoUseAfterFree` are proved together. What they need beside the type is
what a thread holds at each place of its program (`ControlInv`); that a queue somewhere has its `in_global` flag or is
released, and only released queues are dropped (`FlagInv`), so that a push never links a queue twice; that whoever deletes a context
took its last reference (`LastReference`); and that the lives of a context and its queue go together, and a
context in the table that is not initialised is being launched (`LifeInv`). `RefCountExact` equates the count with the
cardinality of a set of reference holders, and each action is shown to change this set by the one
element by which it changes the count. From the exact count it follows that a context with a user is not freed.

*Harbor.* `HInv` consists of the type; the protocol of a connection (`LinkInv`: the opening end greets first, the
answering end writes nothing before that greeting is read, an end past its handshake has the id it expects at the other end
and only frames left to read, and an unused connection is empty); the frames (`FrameInv`: a frame outside the queue of its name is one of a
message sent, addressed to the end it travels to, with the handle exactly if it never moved to a harbor's queue; a
message in the queue of its name is nowhere else, since messages are new); and `SafeInv`, which is `NothingStranded` together with
the fact that a harbor is given up only after a failure. `LinkKept` and `FrameStep` reduce each action to what it does to a single
stream; `SendInv` is `remote_send_handle`, which two actions use.

*Order of delivery.* A message from one node to another waits in the queue of its name, in the queue of a harbor, or in
a stream, until it is read. `OrderInv(E)` speaks of two messages of one pair of nodes that are not an exception of `MayPass`, with any
set E that has `early` as a subset in place of `early`: a step that adds to `early` is then no different from the others, as the E of its end
will do for its start as well. What was read or written was sent before what is in the queue of a harbor (`QueueLater`), what was read before what the
stream that is read still holds, and this before a stream that has not been answered yet (`ReadLater`); each queue and each stream is
sorted by itself (`AllSorted`). No message that was sent by name is anywhere else before the name is known, and then the queue of the name
is empty for good, and what waits there is marked as `waited` (`NameFirst`). A connection whose opener's greeting is not read yet is the one that the opener uses (`OneAwaited`),
which leaves one stream to wait for.

*Sums.* `MessagesConserved` and `MetricsBalance` contain the sum of the lengths of all queues. `Inductions` proves what is needed of such a
sum, which the models write with `MapThenSumSet` of the community modules: it is a natural number, changing one summand changes it by the difference, it
is at least each summand (`TotalOf`, `TotalNat` and the lemmas before them). These are inductions over the size of a finite set. The
induction theorems of the library cannot be instantiated here, but `NatLessThanWellFounded` and `WFMin` can: a least
counterexample is chosen and refuted. Each action is then shown to change one queue, one thread and one counter in step.

*Sockets.* `LifeInv` is about slots and their ids. An id belongs to its slot, and a slot that is in use has an id that a service
knows; one that is not has no buffers. After the SOCKET_CLOSE of an id its socket is at most half closed for reading, so nothing
can report it again (`Life`). The id that `reserve_id` took is new, the slot is its caller's, and one command at most opens it
(`Booked`). A `force_close` that waits for the lock has a socket to close (`Closes`). `NothingAfterClose` is part of it.
`ArmedInv` is `TransmissionArmed` read slot by slot, with the fact that nothing is queued on a connection that was accepted and not
started. `MailInv` numbers the messages in the order of the send calls and says that they are in this order in the pipe, before
those in the hands of the service that sends. `CountInv` says that `sending` is the number of the messages of the id that are in the
pipe or counted and about to be, and that `wb_size` is what is in the lists; the first can thus be taken back without going below
zero, and the second is bounded by what was sent and is no longer on its way. The type and the assertions follow.

*Streams.* `StreamIntact` speaks of the bytes on the wire and `NoSilentLoss` of those that are not there, and neither is inductive:
what is written next is in the buffers. `StreamInv` is about the line of an id (`Line`): what was written to it, followed by what waits
in its slot, the rest of a direct write first, then the high list, then the low list. A line is in order and repeats nothing, and no second part comes
without its first right before it (`Pure`); it has messages of its id only, none of which is still on its way (`Owned`), and those that are in
the pipe come later than those of their service in it (`Later`). While the socket sends, no message of a line is cut (`Full`), and none
that was sent to the id and is not on its way is missing (`Kept`). `send_buffer` moves the border between the two halves of a line and does
not change it; closing takes from its end, when the socket no longer sends (`Shrinks`, `OrderedShrinks`). A message enters a line in two ways only, and both are
one lemma (`OrderedInsert`): `send_socket` puts it behind the high list or behind everything, where what it goes before is of low
priority and has not begun; a direct write puts it at the border, where what waits must not be of the same service. The latter is why the lock
matters: from `can_direct_write` to the write nobody has sent anything of this service that is not written, in the buffers or in the pipe
(`Alone`), because `sending` was 0 and counts exactly the messages in the pipe (`CountInv`), and because what the socket thread puts into the lists
meanwhile came through the pipe. A low message that has begun is moved to the high list (`raise_uncomplete`), so the low list has
whole messages only, which a high one may go before.

As in the properties, `stale` excepts what happens after something of an earlier socket has reached a slot that `reserve_id` has
taken and not yet given its new id.

All inductive invariants were checked by TLC on the instances of section 3 before they were proved.

Checked by TLC only, and why:

- liveness and fairness (`EventuallyServed`, `EventuallyDispatched`, `EventuallyFreed`, `EventuallyStopped`), which are
  out of the prover's reach;
- `TimerQueue` and its refinement of `TimerSpec`: the wheel folds `AddEntry` over buckets, filters them with
  `SelectSeq` and places timeouts by powers of the level size, all of which the prover knows only as names.

## 5. Not modelled, and plan

Left out for good: logging, formatting, configuration parsing, the V8 stub, dynamic loading,
allocation, the client's editor settings, and the third-party code under `skynet/3rd` and `third-party`
(Lua, lpeg, md5, wepoll, V8 headers), which is most of the repository's lines and none of this program's logic.

Left out of the model, with the reason:

- The hash table of `skynet_handle.c` with growth and reuse of handles. `SkynetKernel` has a set of
  handles; the window between `skynet_handle_register` and the assignment of `ctx->handle` is listed as a hazard.
- `skynet_timer.c`: the wheel is the one that `TimerQueue` models, with a tick that wraps. `skynet_monitor.c`: a warning by
  versions, modelled for its C++ successor in `WorkerRuntime`.
- Bootstrap and startup: calls of `register_service` and `send` and one run, which `ActorSystem` and `WorkerRuntime`
  allow in any order. Handlers that throw.
- The UDP half of the socket server, and the gate, which cuts streams into packages.

What is left of the plan is the proof that the wheel of `TimerQueue` implements `TimerSpec`.
