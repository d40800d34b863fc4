# TLA+ models of OS_ProgrammingTest_inLinux

The repository is a collection of programs about operating system programming:
a thread pool, a family of asynchronous TCP servers that grow from version to
version, HTTP and WebSocket servers, servers on epoll, select and blocking
sockets, and some sixty small exercises with processes, threads, pipes, signals
and files.  This directory holds TLA+ models of the programs that have a state
machine worth checking, configurations for TLC, and proofs for TLAPS.

Paths below are relative to `src/`.  `BASE` is
`networkProgrammingByAsio/serverBaseOnAsync`, and `V10` is
`BASE/v10_baseOnV9_v2`, the last and most complete of the callback servers.

## 1. The system

### 1.1 Thread pool (`threadPool/`)

* **State.** A ring buffer `TaskQueue` (array, `head_`, `tail_`, `size_`) with a
  mutex of its own; a mutex `tpMutex` and a condition variable `queueNotEmpty`;
  three atomic counters (`m_alive_threads`, `m_busy_threads`, `m_exit_threads`)
  and the flag `shutdown_flags`; the threads.
* **Operations.** `addTask` from any thread, `worker_Func` in every worker,
  `manager_Func` in a manager that grows and shrinks the pool, the constructor and
  the destructor.
* **Interaction.** Callers and workers meet in the task queue and the condition
  variable; the manager reads the counters without a lock and makes workers exit
  through `m_exit_threads` and notifications that look like any other.
* **Hard.** `addTask` and the manager notify without `tpMutex`; a notification may
  wake the wrong worker or nobody; counters are changed inside and outside the
  lock; the destructor races with growth, with sleeping workers and with callers.
* **Correct when** the ring is a bounded FIFO; `takeTask` never meets an empty
  queue; the counters agree with the threads; no task is lost or run twice; a
  worker sleeps only when there is nothing to do; the destructor returns.

### 1.2 The v10_v2 server (`V10`)

One `io_context` run by a pool of threads (`AsioThreadPool`); `Server` accepts;
each `Session` reads frames on its strand, posts complete messages to the
`LogicSystem` (one worker thread), whose callbacks call `Session::send`.

* **Reading (`Session::start`, `handle_Read`).** State: `_data`, the header node,
  the body node, `_b_head_parse`.  A frame is a header of four bytes (id and
  length) and a body, and may arrive in any pieces.  Hard: seven places re-arm the
  read, each must leave exactly one outstanding; id and length are signed and only
  tested from above.  Correct when the messages posted are the frames of the stream,
  the copies stay inside their buffers (which they do but for the length -1), and
  the session is never deaf.
* **Logic (`LogicSystem`).** State: `_msg_queue`, `_b_stop`, the worker.  Operations:
  `PostMsgToQueue`, `DealMsg`, the destructor.  Hard: it notifies only when the
  queue's size becomes one; `_b_stop` is a plain bool written without the mutex.
  Correct when every message is dealt with once, in order, also when a stop comes,
  and the destructor returns.
* **Sending (`Session::send`, `handle_Write`).** State: `_send_queue`.  `send` runs
  on the logic thread, `handle_Write` on the strand; both decide from the queue's
  size whether to start an `async_write`.  Correct when at most one write is
  outstanding, frames leave whole and in order, and a failed session starts no
  write.
* **Accepting and keeping (`Server`).** State: the map `_sessions`.  A session is
  destroyed when nobody holds it: the map, an outstanding handler, a queued
  message.  Hard: `handle_Accept` starts a session before it inserts it.  Correct
  when failed sessions leave the map and are released.
* **Shutdown (`AsioThreadPool::stop`, `main.cpp`).** The signal handler calls `stop`,
  which joins threads whose `io_context` still has an accept outstanding.  Correct
  when the process ends once its clients have left.

### 1.3 The other asynchronous servers (`BASE`)

* **v1 to v3** echo whatever a read brings.  A session of v1 is a raw pointer that
  deletes itself in the handler that sees an error, and has one operation
  outstanding at a time, so that nobody comes back to it; v2 introduces
  `shared_ptr` and the map; v3 the send queue, and reads while it writes.  v3 hands
  `async_write` the read buffer itself.
* **v4 to v9** cut the stream into frames: v4 with a length in host byte order, v5 in
  network order and with a limit on the queue, v6 with JSON, v7 with exact-length
  reads instead of the loop, v8 with an id in the header, v9 with the logic system.
  Correct when a client gets the answers to its frames in order, whatever the pieces.
* **v10** keeps one `io_context` per thread (`AsioIOServicePool`), so a session
  needs no strand; the acceptor is on main's, and accepts on another thread than the
  session's.
* **The coroutine server** (`coroutineServer/`) reads in a coroutine with exact-length
  reads.  Three threads meet in a session: the pool's runs the coroutine and
  `HandleWrite`, the logic worker calls `send`, main's runs `HandleAccept`.  `send`
  and `HandleWrite` decide under `_send_lock` and start the write after it.
* **Shutdown** differs from one to the next: v9 only stops main's `io_context`; the
  pool of v10 is a static that resets its work guards and joins its threads after
  `main`; the coroutine server calls `Stop` in the handler; v10_v2 joins there.

### 1.4 Servers whose connections share one thread

* **Epoll reactor** (`CSTest/ServerBaseOnEpoll/epoll_reactor/epoll_loop.c`).  State:
  the table `g_events`, the kernel's interest list, `checkpos`.  Operations:
  `acceptconn`, `recvdata`, `senddata`, the idle scan, `epoll_wait`.  Hard: table
  entries and descriptor numbers are used again while a batch of events is being
  dispatched; the limit of the table; a scan that looks at a hundred entries per
  turn.  Correct when table, interest list and open descriptors agree, every event
  reaches the connection it is for, idle connections and no others are closed.
* **Epoll echo server** (`CSTest/ServerBaseOnEpoll/epollConcurrency.cpp`).  State: the
  interest list and the open descriptors.  Hard: every error but that of `write`
  ends the process, whoever caused it; the sockets block, so a client that does not
  read holds the only thread in `write`.  Correct when, as long as it runs and is
  not held there for good, everybody is served.
* **Select server** (`CSTest/ServerBaseOnSelect/MultiIOServer.cpp`).  State:
  `socketSet`, `allset`, `maxfd`, and the count `ret` of what is ready.  Hard: it
  erases from the list it walks over; a refused client sends it back to `select`
  before it has looked at anybody else; `write` may block; the last connection the
  list admits can have a descriptor an `fd_set` has no room for.  Correct when list,
  set and open descriptors agree as far as a set reaches, and connections are served
  while it is not crowded and not held in `write` for good.
* **HTTP server** (`networkProgrammingByAsio/HttpServerBaseOnBeast/server.cpp`).
  State: one request, one response and one deadline timer per connection.  Hard:
  the timer's handler does not look at its error code; it may be queued together
  with the handler of the read or the write.  Correct when a request that was read
  is answered in time and every connection is released.
* **WebSocket server** (`networkProgrammingByAsio/webSocketServerBaseOnBeast/`).
  State: the map of `ConnectionMgr`; a send queue per connection.  Hard: a
  read and a write may fail in either order; the buffer of a write is freed
  before the write is done.  Correct when one write at a time is outstanding,
  messages are echoed in order, and a connection whose client has left is released.

### 1.5 Programs of several processes or threads

* **Blocking servers** (`CSTest/concurrencyServer.cpp`, `multiThreadServer.cpp` on
  `EasySocket.hpp`).  Ten processes or threads accept from one port.  `receive`
  closes the descriptor at the end of the stream, the destructor again.  Correct
  when no server touches the connection of another one's client (processes), and
  every connection is closed.
* **Semaphore ring** (`semTest/sem_PC.cpp`).  An array, two semaphores, no lock.
  Correct when producer and consumer keep off each other's slots and products are
  read once, in order.
* **Containers** (`theaatingTest/`: the list of `p_c_Try.cpp`, `threadSafe_queue.cpp`,
  `threadSafe_stack.cpp`).  Notifications inside or after the lock, or a test of
  `empty()` that is stale when `pop` runs.  Correct when every value is taken once.
* **Parents and children** (`SignalSetTest/KillSubProcess.cpp`, the pool of
  `concurrencyServer.cpp`, `WaitExercise/main.cpp`).  One SIGCHLD may stand for
  several children, which may die before the handler is there.  Correct when
  every dead child is collected.
* **Pipes** (`PipeTry/`).  A reader meets the end when nobody holds the writing end.
  Correct when `wc` counts all that `ls` wrote, and the processes end.

The rest are exercises of single calls, clients, code that never compiled
(`asyncAPI_Try`) and build files; `PROJECT.json` lists them with the reason each is
not modelled.

## 2. The modules

| Module | Code | Contents |
| --- | --- | --- |
| `BoundedFifo` | abstract | what a bounded task queue promises |
| `TaskQueue` | `threadPool/taskQueue.h` | the ring buffer; implements `BoundedFifo` |
| `ThreadPool` | `threadPool/threadpool.h` | callers, workers, manager, destructor |
| `LogicSystem` | `V10/LogicSystem.cpp`, the coroutine server's | posting, the worker, the stop |
| `FrameReader` | `V10/session_v9.cpp` 4-166 | `start`, `handle_Read` |
| `ByteChannel` | abstract | what sending frames promises |
| `SendQueue` | `V10/session_v9.cpp` 168-227 | `send`, `handle_Write`; implements `ByteChannel` |
| `SessionRegistry` | `V10/server_v9.cpp`, who holds a session | accept, insert, fail, release |
| `Shutdown` | `main.cpp` and pools of v9, v10, v10_v2, coroutine | signal handler, stops, joins, destructors |
| `FrameSessions` | sessions and servers of v4 to v10 | a connection from its bytes to its answers |
| `SimpleSessions` | sessions and servers of v1 to v3 | who deletes a session, what is outstanding |
| `CoroutineSession` | `BASE/coroutineServer/` | the coroutine, `send`, `HandleWrite`, late insertion |
| `EpollReactor` | `epoll_loop.c` | the table, the callbacks, the loop |
| `EpollEcho` | `epollConcurrency.cpp` | the loop, errors that end the process |
| `SelectServer` | `MultiIOServer.cpp` | the loop, its sets and limits |
| `HttpConnection` | `HttpServerBaseOnBeast/server.cpp` | request, response, deadline |
| `WebSocketConnection` | `webSocketServerBaseOnBeast/` | accept, upgrade, echo, map |
| `BlockingServers` | `concurrencyServer.cpp`, `multiThreadServer.cpp`, `EasySocket.hpp` | tables of descriptors, closing twice |
| `SemaphoreRing` | `semTest/sem_PC.cpp` | producer, consumer, two semaphores |
| `BlockingContainers` | `theaatingTest/` | list, queue and stack between threads |
| `ChildReaping` | three programs that fork | SIGCHLD, `waitpid` |
| `PipePair` | `PipeTry/` | who holds which end |
| `MC...` | | instances for TLC |
| `ThreadPoolProofs`, `LogicSystemProofs`, `FrameReaderProofs`, `SendQueueProofs` | | theorems about the module of that name |
| `HandoverProofs` | | theorems about `MCHandover`: `TaskQueue`, `SemaphoreRing`, `BlockingContainers`, `ChildReaping`, `PipePair` |
| `SessionsProofs` | | theorems about `MCSessions`: `FrameSessions`, `SimpleSessions`, `CoroutineSession` |
| `SessionRegistryProofs` | | theorems about `MCSessionRegistry`: `SessionRegistry`, `Shutdown` |
| `ServersProofs` | | theorems about `MCServers`: `EpollReactor`, `HttpConnection`, `WebSocketConnection`, `SelectServer`, `EpollEcho`, `BlockingServers` |

How they fit together: `ThreadPool` keeps its task queue as the abstract FIFO,
which `TaskQueue` is proved to implement.  `FrameReader` ends where a message is
posted, `LogicSystem` begins there and ends where a callback runs, and `SendQueue`
begins where the callback calls `send`; `SessionRegistry` abstracts all three to
what they mean for the life of a session, and `Shutdown` abstracts sessions to work
of an `io_context`.  `FrameSessions` and `CoroutineSession` compose the whole way of a
connection, from bytes to answers, for the versions in which it runs on one
or two threads; they leave the sleeping and waking of the logic worker to
`LogicSystem`.

Modules that share a run are put beside each other in an `MC` module: a variable
`which`, chosen initially, says which of them runs, so their state spaces add up
instead of multiplying (`MCHandover`, `MCSessions`, `MCSessionRegistry`,
`MCServers`).  Their properties are conjunctions of the components' own.  These
four modules name every bound as a constant, with an assumption, and the
configuration gives it its value: the theorems of section 4 are about the `MC`
modules themselves, for every value.

### 2.1 How state and actions correspond to the code

Variables keep the names of the fields they stand for.  A thread's position is a
label named after what it does next.  What is done under a lock that every
reader and writer of the data takes is one step; every access that others can see
is a step of its own.

* **TaskQueue.** Every operation holds `queue_mutex_` throughout: one action each,
  split by its early return (`AddTask`/`AddTaskFull`, `TakeTask`/`TakeTaskEmpty`).
* **ThreadPool.** `worker_Func` is `Lock` → `CheckSize` → `CheckFlag` → `EnterWait` →
  (`WakeUp`, `ExitSurplus`, `AfterWait`) → `TestShutdown` → `Take` → `MarkBusy` →
  `RunCallback` → `MarkIdle`.  `CheckSize`, `CheckFlag` and `EnterWait` are separate
  because `addTask` and the destructor can act between them.  `wait` puts the worker
  to sleep and frees `tpMutex` in one step, as the standard demands; spurious
  wakeups are included.  The manager's three reads are three steps and its decisions
  use what it has read.
* **LogicSystem.** As above; each read of `_b_stop` is a step because it is written
  without the mutex.  The history variables `posted` and `popped` say what
  went in and out.
* **FrameReader.** A byte is its position in the stream, so a frame put together
  from the wrong bytes shows.  A step is a completion of `async_read_some` with any
  number of bytes, or one round of the loop of `handle_Read` (`HeadPartial`,
  `RejectHead`, `NodeThrows`, `HeadThenPartialBody`, `HeadThenWholeBody`,
  `BodyPartial`, `BodyWhole`: the loop's ways through).  Decoding the header gives
  the fields of the frame whose header bytes it got, and any header for any other
  bytes; the fields are integers of either sign.  `Below` is the comparison of a
  `size_t` with a signed length.  `ended` says that the process is over: `new` has
  thrown, or bytes copied behind a node have destroyed something (`Damage`, at any
  time after it or never).
* **SendQueue.** `async_write` is composed: the socket takes a frame in `Parts`
  pieces, so two writes at once could mix.  Completion and handler are two steps.
* **SessionRegistry.** `handle_Accept` is three steps (start, insert, accept again)
  because the session's handlers may run on another thread in between.  `Held(s)`
  is the set of shared pointers to `s`.
* **Shutdown.** `main` goes through `run` (`ioc.run()`, or the wait of v10_v2),
  `server`, `ioc` (the destructors of its locals, in reverse order), `statics` (the
  singletons, in `statics` as long as they live: in any order where they are static
  members of a template, the logic system first where they are local statics),
  `join` and `ended`.  A thread leaves `run()` when its `io_context` has no guard, no
  session with a read, and no accept.
* **FrameSessions.** `version` says which version was built; its handlers carry the
  version's prefix (`v6_handle_Read`), and where versions do the same they share an
  operator.  Bytes are numbers here, since the versions differ in byte order.  One
  thread runs all handlers, so a completion and its handler are one action; only
  v10's `handle_Accept` is two, because it runs on another thread.  A round of the
  loop over one piece is `Round`, and `Rounds` is a recursive function that repeats
  it, in which `done` collects the frames and the branch that completed each.
* **SimpleSessions.** As above; `object` says whether a session has been deleted
  (v1), and the memory of a node without a length is `Unknown`.
* **CoroutineSession.** A step of the coroutine goes from one `co_await` to the next;
  completion and resumption are two steps.  `writers` holds the threads that have
  unlocked `_send_lock` to start a write.
* **EpollReactor.** A turn of the loop is `Scan`, `EpollWait` and a `Dispatch` per
  event; clients act between any two.  `g_events` is the table with the fields
  `fd`, `call_back`, `events`, `status`, and of `len` and `last_active` what is asked
  of them.  `accept` gives the lowest free descriptor, as POSIX says.
* **SelectServer, EpollEcho.** The same grain: `Select`, `ListenReady`, a `Visit` per
  connection, `NewMaxfd`; `EpollWait` and a callback per event; in both `Write`
  follows a `Read` that brought data as a step of its own, because it waits while
  the connection has no room.  `peer` says what `read` and `write` on a descriptor
  are going to meet, `unread` how many echoes the client has still to read.
  Descriptor `n` of the select server stands for `n + 3`, so `FD_SETSIZE`, 1024, is
  1021 or `MaxConnect`.  `FD_SET` of that number either does no harm (`Accept`; the
  connection is kept and not watched) or is the end of what can be said (`Overrun`).
* **HttpConnection, WebSocketConnection.** One thread runs every handler, so a
  handler is a step; an operation completes in a step before it.
* **BlockingServers.** Processes have a table of descriptors each, threads share one;
  nothing else differs.  A read that is going on keeps its connection when its
  number is closed.
* **SemaphoreRing.** Every access to a slot is a step; products are numbered
  instead of random, which leaves the code's order of accesses as it is.
* **BlockingContainers, ChildReaping, PipePair.** A step per system call, or per
  section under a lock.  A signal is a flag: it is not queued.

**Slips.** Most modules contain a few definitions called *slips* in their comments,
such as `WriteAtOnce` next to `Push`.  They are not part of the specification.
Each is a mistake one could make in the line beside it; `PROJECT.json` ("mutants")
says which property then fails, which shows that the property depends on that line.

## 3. What is checked

Bounds are named by the constants in the configurations and the `WITH` clauses of
the `MC` modules.  The programs may come to an end (everything sent, pool destroyed,
connection released), so all configurations but that of the reactor's echo have
`CHECK_DEADLOCK FALSE`.

| Run | Instance | What it shows |
| --- | --- | --- |
| `handover` | task queue of 3 slots with 3 tasks; pool of one thread that may grow to 2 workers, queue of 1, 2 tasks; semaphore ring of 3 slots; 3 values for 2 consumers; 3 children; a pipe that holds 2 of 3 lines | `RingConsistent`, `ImplementsFifo`: the ring's fields agree and every history is one of the bounded FIFO; `NothingLost`, `EverythingArrives`: what the ring, the containers, the children and the pipe hand over arrives, once and in order; `DestructorReturns`: the pool's destructor joins every thread; `ProcessesEnd`: no zombie stays and the pipe's processes end |
| `pool_safety` | 1-2 threads configured, 4 slots for threads, a queue of 2, 2 tasks | `LockedSection`, `CountersAgree`, `EachTaskOnce`: mutex, `takeTask`, shutdown, counters and tasks, in every interleaving of a pool that grows by two, shrinks and is destroyed at any moment |
| `pool_sleep` | 1 thread configured, 2 slots, a queue of 2 | **violated**: a task can be queued while every worker sleeps |
| `logic` | 2 posters, 3 messages, one with an unknown id, a stop at any time | `QueueIsAttended`, `DrainedBeforeExit`, `EveryPostDealtWith`: every message posted before the worker ends is dealt with, in order; nobody sleeps over a message |
| `logic_stop` | the same | **violated**: the destructor can wait for ever |
| `frame_reader` | 8 streams of 2 or 3 frames, real header length, pieces of up to 9 bytes | `FramesReassembled`, `ReadingIsSafe`, `EveryFramePosted`: frames are put together whatever the pieces, the buffers hold unless a length is -1, the read chain never breaks, every good frame is posted and every bad one has the fate the code gives it |
| `sessions` | send queue with 4 messages of 2 pieces and a limit of 1; v4 to v10 with 3 streams, `MAX_LENGTH` 6 and a limit of 0; v1 to v3 with 2 sessions of 2 bytes; the coroutine with 3 streams and a limit of 1 | `WritesFollowQueue`, `ImplementsChannel`, `AcceptedIsSent`: one write at a time, whole frames in order, all that was accepted; `AnswersInOrder`, `EveryFrameAnswered`: every version answers the frames of its client in order, none left out but by a full queue; `OneOperationEach`: no session has two writes, no handler comes back to a deleted session; `LostIsReleased`: a lost session is let go of by its handlers, the logic system and the map, except that the map may keep one inserted after it was lost |
| `registry` | 2 sessions, 1 or 2 threads, 1 message each; the shutdown of v9, v10 and the coroutine server with 2 clients and pools of 2 and 1 | `MapFollowsSessions`, `FailedWritesStop`, `FailedIsReleased`: sessions that are served are in the map, failed ones stop writing and, with one thread, leave it and are released; `ThreadsAsLongAsNeeded`, `EndsWhenClientsLeave`: a pool's thread runs as long as a session needs it, and the stopped process ends |
| `registry_zombie` | 2 sessions, 2 threads, 2 messages | **violated**: a dead session can stay in the map |
| `shutdown` | v10_v2, 2 clients, 2 threads | **violated**: the process does not end although every client has left |
| `servers` | reactor with 2 entries, 3 descriptors, 1 entry per scan; 2 HTTP connections; 3 WebSocket messages; select server for 3 connections with 2 or 4 descriptors and an `fd_set` for 2 of them; echo server with 2 descriptors; both with 2 sends and room for 1 echo; 2 blocking servers of either kind with 2 clients | `TableFollowsKernel`, `IdleIsClosed`, `DataIsReceived` (reactor), `NoAnswerLost` (HTTP), `OneWriter`, `EveryEcho` (WebSocket), `KeepsItsDescriptors` (select, echo, blocking), `ReadyIsServed` (select, echo), `EventuallyReleased` (HTTP, WebSocket, blocking) |
| `reactor_echo` | the same reactor | **violated**: a connection that just sent data is closed |

`TypesOK` of four runs is the conjunction of the type invariants of the modules that
run there.

Why the bounds are enough.  The pool needs a thread that sleeps, one that works and
growth by `stepSize`, which four slots give; in `handover` it keeps to two threads
because liveness does not allow the symmetry of workers.  A ring of three slots
has every relation of head and tail, wrapped or not; in the semaphore ring
products are numbered modulo one more than the slots, so a product that is one turn
too old shows.  The logic system needs two messages to have one posted while another
is dealt with, and a third for a queue that is neither empty nor about to be.  The
streams have empty and longest bodies, several frames in one piece, frames cut
anywhere, an id and a length above the bound, a negative id and the lengths -1 and
-2, each with a frame before it and all but one with a frame behind.  Four messages and a limit of one make `send`
meet the empty, the busy and the full queue twice.  The tables and the descriptors of
the reactor and the select server both run out, and the scan needs two turns to go
round the table.  The select server has a descriptor too few for its limit, or one
more than its limit, with a watched, an unwatched and a refused connection at once.
Two sends are what it takes to meet a connection that the echo has found broken, and
with room for one echo also to block `write`.  Two blocking servers are enough for a descriptor number to go from
one's client to the other's.  Two clients put a session on each thread of the pool
in `Shutdown`.  `LogicSystem` is checked with `NotifyAfterUnlock = TRUE`: notifying
right after the push, as v10_v2 does, is among the behaviours of notifying some time
after it, as the coroutine server does; the theorems hold for both values.

### 3.1 Fairness

* Threads that can take a step eventually do (weak fairness of each worker, of the
  manager, of a caller inside `addTask`, of the destructor once called, of each
  process).  Nobody has to call anything: submitting tasks, posting, stopping,
  sending and connecting have no fairness, nor has the signal.  The producers of
  `semTest` and `theaatingTest` are loops, so theirs are fair.
* `WF_vars(WorkerStep(w))` says that a worker that wants `tpMutex` while it is free
  for good gets it.  Spurious wakeups are possible and never required.
* An operation on a socket completes when it can: `async_write` progresses or fails,
  a read completes when its bytes are there or the connection has failed.  A client
  need not send or leave.
* `SessionRegistry` and `CoroutineSession` use strong fairness where a completion
  needs a free thread or the strand, which come and go: `io_context` queues handlers
  first in, first out, so each of them runs in the end.
* The loops on `epoll_wait` and `select` go on, but for the time they wait for
  something to be ready and, in the select and the echo server, for room in `write`:
  the sockets block, and no client need read or leave, so there is no fairness that
  ends such a write, and `ReadyIsServed` excepts a thread that stays in one
  (`<>[]Stuck`).  The reactor's sockets do not block, and its `epoll_wait` returns
  after a second at the latest.
* In the HTTP server time passes: the deadline timer expires.
* A child of `KillSubProcess` and of `WaitExercise` ends, as their commands do; one
  of the server's pool need not.  A signal that is pending and not blocked is
  delivered.

### 3.2 Findings

* `threadpool.h:51`: `addTask` notifies without `tpMutex`.  A worker between its test
  of the queue and `wait` misses it; the task stays until another notification.
  (The mutex of the destructor, by contrast, does its work: `LockedSection`.)
* `LogicSystem.cpp:80`: `_b_stop` is set and the worker notified without `_mutex`; the
  worker between its test and `wait` misses both and the destructor never returns.
* `server_v9.cpp:24`: with several threads a session may fail before it is inserted
  and then stay in the map for ever.  With one thread this cannot happen.
* `AsioThreadPool.cpp:26`: the signal handler of v10_v2 joins threads that the
  acceptor's outstanding accept keeps in `run()`; the process does not end.
* `epoll_loop.c:153`: `eventset` clears the data `recvdata` has just received; nothing
  is sent back and the connection is closed.

Two comments of the repository say something of the lifetime of sessions that the
code does not do.  The properties that pass are what the code does:

* `session_version2.h:2-4` says that in v1 a handler that meets an error deletes the
  session while other handlers are still queued, so that there are several errors
  and several deletions.  `session.cpp:40-42` says that this does not happen, because
  each operation is started once and the next by its handler.  The code agrees with
  the second: a session of v1 has one operation outstanding, and none when it is
  deleted (`NoUseAfterFree` in `OneOperationEach`).
* `session_version2.cpp:17` says that `async_write` and `async_read` must not be
  outstanding together, or the reference count never falls to 0.  v3 and all later
  versions have both outstanding together.  Each handler holds one reference and
  gives it back when it ends, so a lost session is released (`FailedIsDeleted` and
  `FrameSessions!LostIsReleased` in `LostIsReleased`).  In v2 itself there is only
  one operation at a time.

Seen while modelling, without a run of its own:

* `session_v9.cpp:70`: a negative length passes the tests that the comment at line 58
  calls defensive.  Below -1, `new char[_total_len + 1]` throws out of the handler
  and the process ends; with -1, `bytes_transfered < msg_len` compares a `size_t`
  with a negative number and is always true, and all the client sends from then on is
  copied behind a node without room.  `ReadingIsSafe` states exactly this exception.
* `MultiIOServer.cpp:45,64`: with the limit of descriptors raised the select server
  admits 1021 connections, the last with descriptor 1024.  `FD_SET` writes behind the
  set; if that does no harm the connection is still not watched.
* `epollConcurrency.cpp:109`, `MultiIOServer.cpp:96`: `write` to a client that sends and
  does not read blocks the only thread, and nobody else is served meanwhile.
* v7 puts its `'\0'` at the length of the header node and not of the body node
  (`session_v7.cpp:56`), behind the end of every body shorter than `max_length`.
  `FrameSessions` leaves the write out.
* In the HTTP server a JSON value of another type than the code expects throws out of
  the handler and out of `run()` (`server.cpp:150`), which ends the server.
  `HttpConnection` has no such request.
* `m_alive_threads` leaves out the threads of the constructor (`CountersAgree` states
  the relation that does hold), so growth overshoots the maximum; the assumption on
  the number of thread slots in `ThreadPool` is the bound that holds instead.
* With threads, the second close of `EasySocket` may hit another server's client;
  `KeepsItsDescriptors` therefore speaks of processes only.
* In v10 and the coroutine server the `Server` on `main`'s stack is destroyed while
  sessions of the pool are served on and keep a pointer to it.
* v3 writes from the read buffer, whose content may have changed, and with a length
  that was never set; for v3 `AnswersInOrder` only counts.
* v6 puts the answer into the member `id` when the header came in an earlier piece.
* The coroutine server takes a frame without a body for the end of the stream.
* In the echo server on epoll one client that resets its connection ends the process.

## 4. What is proved

All theorems hold for every value of the constants that satisfies the named
assumptions of the module (a positive capacity, a `NoTask` that is no task, enough
thread slots, finitely many sessions and callers, ...).  Every proof of an invariant
has the same three steps: `Init` implies the inductive invariant, every action
preserves it, and it implies the property.

* **TaskQueue** (in `HandoverProofs`). `RingSafety`: types and `RingConsistent`,
  which is inductive itself.  `RingImplementsFifo`: `Spec => Fifo!Spec` under the
  mapping `contents`. The lemmas are about indices modulo the capacity: taking
  shifts the contents by one, adding appends.
* **ThreadPool.** `LockedSectionHolds`.  `IInv` is `Types /\ MutexHeld /\ TaskSeen
  /\ FlagSet /\ ShutdownNotMissed`.  That a worker never takes from an empty queue
  is not inductive: a worker about to take a task has seen one several labels
  earlier. `TaskSeen` says that from the moment a worker under the mutex has seen a
  task the queue is non-empty, because only the holder of the mutex takes.
  `FlagSet` ties `shutdown_flags` to the position of the destructor; with it no
  worker can pass `CheckFlag` towards sleep after the flag was set, and `WakeAll`,
  which needs the mutex, finds none on the way.

  `CountersAgreeHolds`.  `CInv` adds the types of the counters and that a worker is
  idle exactly where the counters say so.  Both counters are cardinalities of sets
  of workers; every step moves one worker in or out of them and changes the counter
  with it, except a growth, which adds `GrowBy` slots at once.  That the sets are
  finite is what `SlotAssumption` is for.

  `EachTaskOnceHolds`.  `TInv` adds `HandsHold`: who has a task in hand, by label.
  Four steps move a task (`AddTaskCheck`, `AddTaskQueue`, `Take`, `RunCallback`),
  and each takes it out of one place and puts it into another.  The lemmas
  `CountExcept`, `CountAppend` and `CountTail` say what an assignment to one
  element, an `Append` and a `Tail` do to the number of places that hold a value;
  `TaskMoves` adds them up.

  `TypeCorrect`.  `PoolInv` joins the three invariants to the types of what is left
  (`Others`: what the manager has read, `m_exit_threads`, the callers), because a
  counter of threads stays a natural number only as long as it counts them.
* **LogicSystem.** `QueueIsAttendedHolds`, and `DrainSafe` (an action property).
  `IInv` is `TypeOK /\ WorkerKnows /\ NoSleepOverMessage /\ InOrder`.  `WorkerKnows`
  says what the worker knows of the queue at each label; it is why a notification at
  size one is enough.
* **FrameReader.** `Reassembly`, `ReadingIsSafeHolds`, for all streams and pieces and
  for headers with any integers as fields, negative ones included.  `IInv` says how
  far `handle_Read` is in the stream: `taken`, the position up to which it has used
  bytes up, is the start of frame `k` plus what the header node or the body node
  holds (`HeadNode`, `BodyNode`).  Behind a header with the length -1 `k` stays where
  it is, so a body node that is left belongs to that frame (`Nodes`); an end of the
  process goes back to a negative length (`TerminateKeeps`).
* **SendQueue.** `WritesFollowQueueHolds`.  `IInv` is the types and `Phase`: idle,
  writing the front node, waiting for the handler, or failed.  The three parts of
  `WritesFollowQueue` are read off it.

  `SendQueueImplementsChannel`: `Spec => Channel!Spec` under the mapping
  `Unwritten`. `CInv` adds that a message is in the queue once and not again after
  its frame was begun (`QueuedOnce`; the model sends each message once), and that
  the last piece on the wire tells how far the front frame has got (`WireKnows`).
  With it the mapping is `Rest`, a function of the queue and the wire
  (`UnwrittenIsRest`), and four lemmas about `Pending`, the pieces of a queue
  without the first few, carry the steps: a push adds a frame, a piece written is
  the head, popping a written frame changes nothing.
* **SessionRegistry** (in `SessionRegistryProofs`). `MapFollowsSessionsHolds`,
  `FailedWritesStopHolds`.  `IInv` adds to the property what
  the acceptor holds at each place (`AcceptorHolds`: a session not yet started does
  nothing), that on one thread no handler of a session runs inside `handle_Accept`
  (`OneThread`), which is what keeps a started session unread until it is in the
  map, and `WritesQueued`: a write that is outstanding or has failed keeps its node
  in the queue, so that `send` finds the queue busy and starts no write after a
  failure.  `AloneWhenFree` turns the count of running handlers into "none runs".
* **EpollReactor** (in `ServersProofs`). `TableFollowsKernelHolds`.  `IInv` states
  the agreement of table and interest list from both sides (`ListIsUsed`: a
  registration is in the list exactly if it is the entry of a used slot or of the
  listening socket), what a used entry holds (`UsedIsOpen`, `FdsDiffer`), that an
  open descriptor has an entry (`OpenIsUsed`), and that the events left in a batch
  are registrations of the list (`BatchIsCurrent`).  The last says that no event is
  stale: a callback removes or changes only its own registration, and a new
  connection gets an entry that no registration points to.  Three lemmas about the
  table carry every step: `DropStep` (some connections end), `FillStep` (an entry is
  filled), `SameTable`.
* **SemaphoreRing** (in `HandoverProofs`). `SlotsSafe`: `SlotsCounted`,
  `IndicesCounted` and `SlotsDiffer` for every number of slots.  The distance of the
  two indices is what the semaphore says (`IndicesCounted`), and a thread that has a
  slot in its hands has taken it out of that count, so the two cannot be at the same
  one.  `ProductsInOrder`: `ReadsInOrder`.  `Stored` says where the unread products
  lie: in consecutive slots from `First` on, numbered one after the other from the
  one read last.
* **BlockingContainers, ChildReaping, PipePair** (in `HandoverProofs`).
  `ContainersHold`: `BoxInv` says that every value lies at one place (`OnePlace`),
  that the queue has given out the first ones in order (`FirstIn`), and that the
  consumers never all sleep over a value unless a notification is to come.
  `ReapingHolds`: `ReapInv` says that while there is a zombie a signal is pending
  or the handler is in its loop (`Heard`), and that a blocked
  signal is unblocked after the handler is there (`Listening`).  `PipeHolds`:
  `PipeInv` has `written = counted + pipe`, and that a living `ls` holds its writing
  end, so `wc` cannot have met the end before.  `NothingLostHolds` puts them
  together with the semaphore ring.
* **Shutdown** (in `SessionRegistryProofs`). `ThreadsAsLongAsNeededHolds`.
  `StopInv` says which `io_context` a session can have been given (`Homes`), that a
  work guard keeps its thread in `run()` (`Guarded`), and what has been done when
  `main` and the signal handler are where they are (`InOrder`).
* **HttpConnection, WebSocketConnection** (in `ServersProofs`). `NoAnswerLostHolds`.
  `HttpTimed` is the reason: nothing but the timer's own expiry stops it or closes
  the socket until the handler of the write has cancelled it.  `HttpAsked` says how
  far a request that was read has got.  `OneWriterHolds`: `WebInv` ties the queue to
  the write, with a failed write in the place of one outstanding.
* **SelectServer, EpollEcho, BlockingServers** (in `ServersProofs`).
  `KeepsItsDescriptorsHolds`.  The select server keeps in `allset` what an `fd_set`
  has room for, and with the default limit of descriptors that is everything, because
  the lowest free one is then always below `FD_SETSIZE`.  `SelectInv` adds that `ret`
  still counts what the scan is to meet (`MoreToVisit`) and that the client `select`
  has reported still waits (`WaitsToBeAccepted`).  In both loops the descriptor a
  `Write` is for is open, whatever clients do while it waits.  A process of the blocking server
  has in its own table, at the number it uses, its client or nothing (`OwnNumber`).
  For threads that is false, as section 3.2 says.
* **FrameSessions** (in `SessionsProofs`). `FramesInvariant`, for every stream of
  frames whose lengths are shorts, every `MAX_LENGTH` and every limit of the queue.
  `FramesInv` has two witnesses: `i`, the frame being read, and `j`, the first that
  the logic system has not dealt with (in v4 to v8 `j` is `i`).  What the node
  holds, put before what is left of the input, is the stream from frame `i` on
  (`Taken`, `Follows`); the logic system's queue holds the frames from `j` to `i -
  1` (`DoneIs`); and what was sent or is queued answers, by an increasing function,
  frames before `j`, all of them if none was refused (`OutOK`).

  `IsStream` says what the bytes after each frame are, frame by frame, so that the
  proof does not have to unfold `FlattenSeq`.  The loop is taken apart in the same
  way: a round keeps the relation of node, piece and stream, and takes a byte
  (`RoundStep`), so after as many rounds as the piece has bytes none is left
  (`RoundsResult`). The lemma `Induction`, from the well-foundedness of `<` on the
  natural numbers, is what lets such a relation be carried along the recursive
  functions `Rounds` and `AnswerAll`. Concatenations are hidden behind `Cat`, of
  which associativity and lengths are proved once.
* **SimpleSessions** (in `SessionsProofs`). `SimpleInv` is a property of each
  session (`SessionOK`): in v1 and v2 it has one operation outstanding, and what it
  owes its client is what it is writing or has queued (`v1_owes`, `v2_owes`,
  `v3_owes`).  A session of v1 lives while it is busy, which is why nobody comes
  back to a deleted one.
* **CoroutineSession** (in `SessionsProofs`). `CoroutineInv`: a queue that is not
  empty has one writer, on its way (`writers`) or outstanding, unless the session is
  closed (`WriterOK`); the coroutine stands at frame `next` and has passed on legal
  frames only (`ReadOK`); of the frames with a callback, those sent, refused and
  waiting for the logic system are those before `next`, and the ones sent come
  before the ones waiting (`AnswersOK`).

`AnswersInOrderHolds` and `OneOperationEachHolds` join the last three.  In each `MC`
module that puts components beside each other a lemma (`EachRunsAlone`,
`SessionsApart`, `OneOfTheTwo`, `OneServerRuns`) says that its behaviours are
behaviours of every component, so a theorem about a component holds in the
composition; `HandoverSafe`, `RegistrySafe` and `ServersSafe` state the outcome.
Every safety property that a passing run checks is stated by a theorem.

Only model-checked: liveness (`DestructorReturns`, `EverythingArrives`,
`ProcessesEnd`, `EveryPostDealtWith`, `EveryFramePosted`, `AcceptedIsSent`,
`EveryFrameAnswered`, `LostIsReleased`, `FailedIsReleased`, `EndsWhenClientsLeave`,
`IdleIsClosed`, `DataIsReceived`, `EventuallyReleased`, `EveryEcho`,
`ReadyIsServed`), which is out of the prover's reach under fairness, as `ENABLED`
is.  That `ThreadPool` behaves the same with the ring buffer in the place of its
abstract queue is an argument by refinement, not a theorem; so is the claim that
`FrameReader`, `LogicSystem` and `SendQueue` put one behind the other make the
session of v10_v2.

## 5. What is not modelled, and why

* Data races inside library objects: `_sessions` changed by several threads, a
  socket used from two threads at once.  The models take each call as atomic and
  examine the order of the calls.
* Headers with negative fields in the sessions of v4 to v10 and of the coroutine
  server (`FrameSessions`, `CoroutineSession`); `FrameReader` has them, for the code
  of v10_v2.  Buffers filled to the last byte, and everything else that depends on
  the contents of messages.
* Callbacks that throw (the logic system's, the HTTP server's at `server.cpp:150`) or
  take long; failed allocations; failures of `epoll_ctl`, `fcntl` and `bind`.
* SIGPIPE in the blocking servers: a client of the model sends once, and the second
  write to one that has gone is what raises it.  A `write` of theirs that blocks holds
  up one connection of one server, as its clients read what they asked for.
* What memory written out of bounds destroys, beyond the end of the process
  (`FrameReader`, `SelectServer`); the `'\0'` of v7.
* What a use of freed memory does beyond the write of the WebSocket server, which
  may send anything (`Garbage`: `EveryEcho` counts it as the echo and says nothing of
  the text), and v3's (`Unknown`): in particular what a session does with the `Server`
  or the logic system after they have been destroyed.
* `asyncAPI_Try`, which names a member function without its class and has never been
  compiled.
* The thread exercises, each one call of the library under one lock; file and
  signal exercises of single system calls; straight-line clients (they are the
  environment of the servers' models); the order of calls of the blocking
  `TCPserver1` and `TCPserver2`; build files.

## 6. What could come next

1. `FrameReader`, `LogicSystem` and `SendQueue` in one specification with the
   strand, against `ByteChannel` from stream to wire; today `FrameSessions` makes
   that claim for v9 and v10, whose reading and sending v10_v2 shares.
2. `ThreadPool` over `TaskQueue` instead of the abstract queue, in one theorem.
