# ThreadLibrary in TLA+

TLA+ models, TLC configurations and TLAPS proofs for ThreadLibrary, a C++ library
in four parts: `thread` (threads, locks, a thread pool), `log` (an asynchronous
logger), `net` (a reactor: event loops, TCP server and client) and `base`
(helpers). The reference is the code; line numbers below are those of
`src/framework/...`.

Contents: [inventory](#1-inventory), [modules](#2-modules),
[runs](#3-runs), [fairness](#4-fairness), [proofs](#5-proofs),
[findings](#6-findings), [what is not modelled](#7-what-is-not-modelled),
[plan](#8-plan).

## 1. Inventory

### thread

**ThreadPool** (`ThreadPool.cpp`). State: the queue `queue_`, `running_`, the vector
`threads_`, one mutex, the condition `notEmpty_`. (`max_queue_size_` is 0 for ever, no
bound: it is private, and `setTaskQueueSize`, `ThreadPool.hpp:24`, is declared and
defined nowhere; so nobody ever waits on `notFull_`.) `start(n)` creates the
threads; `runTask` runs the task on the caller if there are no threads, otherwise
pushes it and signals one worker; each worker runs `runInThread`,
which repeats `take` and calls the task; the destructor calls `stop`, which resets
`running_`, wakes everyone on `notEmpty_` and joins. Hard: signals to one of many
sleepers, spurious wake-ups, tasks that call `runTask` themselves, `running_` and
`threads_.empty()` read without the mutex, threads that could not be created, the
destructor overlapping a draining queue. Correct if: a task is taken once and in
order; no task is left with every worker asleep; nothing runs once the destructor has
returned; the destructor returns.

**Thread, Condition, MutexLock, CountDownLatch** (`Thread.cpp`, ...). Thin layers over
pthreads, with some state of their own: `started_`/`joined_` of a Thread, the
holder of a MutexLock, the count of a latch. Hard: `pthread_create` failing,
`join` without `start` or twice, the latch's count reached before anyone waits.
Correct if: a thread is joined once and after it was started; the latch opens
exactly when counted down.

**BlockingQueue, BoundedBlockingQueue**: templates that no file of the repository
instantiates.

### log

**AsyncLogging** (`AsyncLogging.cpp`, `FixBuffer.hpp`). State shared under the mutex:
`currentBuffer_`, the spare `nextBuffer_`, the full `buffers_`; the logging thread's
own `newBuffer1`, `newBuffer2`, `buffersToWrite`; `running_`, read and written
without the mutex. `Append` fills buffers; `ThreadFunc` waits for a full one or for
the flush interval, swaps, writes and recycles; `Start` and `Stop` create and join
the thread. Hard: appending while a write is under way, the spares running out,
too many buffers (all but two are dropped), a line as long as a buffer, `Stop`
notifying without the mutex. Correct if: no line is written twice, overtaken or
lost but in the two known ways; the recycling assertions hold; a line reaches the
file although nothing follows it; `Stop` returns.

**LogFile, LogStream, Logging, FileUtils** (`LogFile.cpp`, ...). A `Logger` composes a line
in the 4000 bytes of its own `LogStream` and hands it to an output function when it
is destroyed; a FATAL one then flushes and aborts. `LogFile::append`, under a mutex,
writes to a `WriteFile` (stdio) and rolls by size and, every `checkEveryN_` lines, by
period, or flushes by time. Hard: files are named by the second, so that a roll within
one is refused; the clock set back; `fopen` failing unnoticed; numbers converted in
place; reading a file that is being written, `read` failing into a `size_t`. Correct
if: each line is in one file; a file is left in time; a FATAL line is on the disk when
the process ends; a formatted number is the number.

### net

**EventLoop** (`EventLoop.cpp`). State: the queued tasks `task_` (mutex), `doing_task_`,
`loop_`, `quit_`, the eventfd `wakeup_fd_`, the ready channels. `Loop` repeats
poll, handlers, queued tasks; `RunInLoop`/`QueueInLoop`/`Quit` may come from any
thread. Hard: the loop blocks without a time-out (`Poller.cpp:18`), so a missed
wake-up is never made up for; tasks that queue tasks; a quit between the test and
the poll, or between the two stores `Loop` begins with. Correct if: the loop never blocks
with work it was given; tasks run once and in order; a batch ends; `Quit` stops the loop.

**Poller and Channel** (`Poller.cpp`, `Channel.cpp`). State: the array `pollfds_`, the
map `channels_`, and in each channel its events and `poll_index_` into the array.
`UpdateChannel` adds or rewrites an entry through the index, `RemoveChannel` moves
the last entry into the gap. Hard: the index of a third channel changes; a
descriptor to be ignored is stored as `-fd-1`; a removed channel lives on while its
descriptor serves another. Correct if: each channel's index is its own and poll()
watches for each what it asked for last.

**TcpConnection** (`TcpConnection.cpp`). `status_`, the output buffer and the close path
of one connection, called from its loop's thread and, for
`Send`/`Shutdown`/`ForceClose`, from others. Hard: `status_` tested and set on one
thread while the loop sets it on another; closing inside the channel's own callback;
output left over by a short write; the high-water callback, which runs between that
write and the keeping of its rest and may call the connection again; SIGPIPE. Correct if:
messages arrive whole and in order; half-close waits for the output; callbacks come in
order; the close path runs once and leaves the poll list alone afterwards.

**Buffer, Endian** (`Buffer.cpp`, `Endian.hpp`). A vector with two indices; room for a
header in front. Hard: moving the content to the front instead of growing, the second
buffer of `ReadFd`, sizes that are unsigned. Correct if it is a queue of bytes.

**Connector and TcpClient** (`Connector.cpp`, `TcpClient.cpp`). Connect, retry and
stop through queued tasks; the client owns the connector and a connection. Hard: a
queued reset or start that comes late, another thread's task between the two that one
method queues, an error and a writable event in one poll, a client destroyed on another
thread or inside a callback. Correct if: one attempt is under way at a time, no
check of the status aborts the process, no socket leaks, `Stop` stops.

**EventLoopThreadPool, TcpServer, Acceptor** (`EventLoopThreadPool.cpp`, ...). One loop
per pool thread, connections handed out in turn; a spare descriptor that is closed to
accept and refuse a client when there are no more. Hard: the threads create their
loops concurrently into one vector, which the acceptor reads; connections are erased
from the server's map by their own loops. Correct if: each thread runs its own loop,
each connection gets an existing one, every client is answered.

**Socket, InetAddress**: wrappers of system calls.

How they interact: TcpServer and TcpClient are driven by an EventLoop's thread and
hand work to it with `RunInLoop`/`QueueInLoop`; the EventLoop calls the handlers of
the channels its Poller reports; handlers update the Poller through their channel;
EventLoopThreadPool runs each loop as one task of a ThreadPool; everything logs
through Logging, whose output a program may direct to an AsyncLogging.

## 2. Modules

| module | models | state | actions |
|---|---|---|---|
| `TaskExecutor` | abstract: what an executor of callbacks promises | `pending`, `active`, `closed` | `Submit`, `Begin`, `RunInline`, `Finish`, `Close` |
| `ThreadPool` | ThreadPool.cpp, Thread::start/join | `queue_`, `running_`, `threads_`; per thread where it is (`pc`), the task it hands over (`arg`) and the one it runs (`cur`); the owning thread | `RunTask*`, `ReadRunning`, `Take*`, `FinishTask`, `SpuriousWakeup`, `start`, `StartThread`, `Destroy`, `Join`, `StopReturns` |
| `EventLoop` | EventLoop.cpp, Poller::Poll | `task_`, `doing_task_`, `loop_`, `quit_`, `wakeup_fd_`; the loop thread's place, batch and stack | `QueueInLoop`, `RunInLoop`, `Quit`, `Client*`, `WakeUP`, `Loop`, `ResetQuit`, `TestQuit`, `Poll*`, `Handle*`, `DoPendingTask`, `BeginTask`, `FinishTask`, `BatchDone`, `Destroy` |
| `AsyncLogging` | AsyncLogging.cpp, FixBuffer.hpp, CountDownLatch | the buffers of both sides, `running_`, the thread and its owner; `file`, and as history `total` and `lost` | `Append*`, `Begin`, `TestRunning`, `WaitForSeconds`, `Timeout`, `Swap`, `Write`, `Start`, `LatchWait`, `Stop`, `StopNotify`, `Join` |
| `PollSet` | abstract: what channels may expect of a poll list | `wanted`, `watched`, `reported` | `Renew`, `Ask`, `Withdraw`, `Poll` |
| `Poller` | Poller.cpp and the calls Channel.cpp makes to it | `table` (the array, the map and the channels' members), `life`, `active` | `Construct`, `EnableEvent`, `DisableEvent`, `DisableAllEvents`, `RemoveSelfInPoll`, `RemoveUnused`, `Poll`, `Destruct` |
| `PollTable` | the methods of Poller and Channel as operators on one record | | |
| `ByteQueue` | abstract: a queue of bytes with room for a header | `queue`, `room`, `call` | its operations, `Abort` |
| `Endian`, `Buffer` | Endian.hpp, Buffer.cpp | `buffer` (vector and indices), `call` (the last call and its result) | one per method |
| `TcpConnection` | TcpConnection.cpp, Channel::HandleEvent, over `PollTable` | `net` (table, status, output, socket and callbacks of each connection; the `stack` of callbacks under way); the loop's `active`, `task_`, `batch`; `call` of each thread | `Poll`, `Handle`, `DoPendingTask`, `RunTask`, `Reply`, `CallbackReturns`, `Test`, `Set`, `Queue`, `Peer*` |
| `Connector` | Connector.cpp as operators on one record | | |
| `TcpClient` | TcpClient.cpp and the loop that runs it | `connector`, `connection_`, `held`, `close_callback_`, `life`; the loop; `call`; `failed` | `Start`, `Stop`, `QueueInLoop`, `Connection`, `Release`, `Destroy*`, `HandleEvent`, `GoOn`, `Run*Task`, `Network` |
| `TcpServer` | TcpServer.cpp, Acceptor.cpp, EventLoopThreadPool.cpp | the vector of loops and its index, each `worker` and `client`, the map `connect_`, the descriptors `fd`, `idle_fd_`, `failed` | `EmplaceLoop`, `EmplacedLoop`, `BackLoop`, `Accept*`, `CloseIdle`, `OpenIdle`, `Insert`, `Establish`, `BeginErase`, `Erase`, ... |
| `LogStream` | LogStream.cpp, FixBuffer.hpp, utils.cpp, Logger | pure operators | |
| `LogFile` | LogFile.cpp, FileUtils.cpp, the end of Logger | `log`, `disk`, `now`, `logger`, `reader`, `aborted`; as history `lines`, `unopened` | `Log`, `Flush`, `Abort`, `StdioWrites`, `Clock`, `OpenReader`, `Read*` |
| `MCBuffer`, `MCLogFile` | instances for TLC | | |
| `MCPoller` | `Poller` for TLC: the symmetry of channels | | |
| `*_proofs` | theorems about the module they are named after; `Logging_proofs`, about `AsyncLogging`, `LogStream` and `LogFile` | | |

Conventions. An action is what one thread does between two points where another can
step in: a critical section, a single unprotected read or write, or, where one
thread alone uses the data, a whole call. `Condition::wait` is a sleep from which a
notify or a spurious wake-up returns to the locked test. A mutated form of a
definition (`Swap_CurrentFirst`, ...) stands before it: it is the definition with a
plausible bug, and shows for each checked property that the bug would be found.

**ThreadPool.** `pc` of a worker says whether it is about to read `running_`, about to
hold the mutex in `take`, asleep, in a task, in a task's own `runTask`, or gone.
`notify` picks any one sleeper. A client calls `runTask` while no destructor runs:
that is the C++ rule for any member function. The task is opaque; it ends and may
call `runTask` before that. A failed `pthread_create` leaves the Thread in
`threads_`, as the code does; joining it is the `aborted` state.

**EventLoop.** A client's `QueueInLoop` is two steps, the push and the write of the
eventfd, because the loop may run between them; the same holds for `Quit`. On the
loop's own thread they are one step. The ready channels are the eventfd and one
other that stands for all I/O: what its handler does is to call into the loop.
`early` is history: tasks the loop's thread queued outside `Loop()`. For those
`QueueInLoop` writes no wake-up (`EventLoop.cpp:100`) and they wait for the next
event; the properties exclude them by name.

**AsyncLogging.** A line is a number and a length. `unique_ptr` is a sequence of at
most one buffer, so that "moved from" is `<<>>`. A swap and a write are each one
step; the swap is the critical section and the write touches the logging thread's
data only. `lost` records the lines the code throws away: those too long for a
buffer, and those of dropped buffers.

**Poller.** The methods are pure operators on the table, and an action applies those
that one caller applies in a row. The state of a channel (`life`) encodes the order
in which the library's classes call them, with one exception: TcpConnection's
`HandleClose` goes on to update a channel it has just removed. `TcpConnection` does
that with the same operators, and there it breaks the list (section 6). What is
checked and proved of `Poller` is thus the Poller's own part: it holds as long as a
removed channel is not updated again.

**Buffer.** A method is an operator on a buffer, and methods call one another as in the
code; an action is one call from outside, with its result in `call`. A pointer into
the content is an index, a byte has two values (one is CR, the other LF), and a
FATAL message is the last call.

**TcpConnection.** What runs in the loop is an operator on `net`, and an action is one
callback or task up to the point where it calls the user. On the loop's thread
`RunInLoop` calls at once, so that a user's callback runs in the middle of its caller:
`net.stack` holds the callbacks under way, each with what its caller does when it
returns (`Resumed`): nothing, keep the rest of a short write (the high-water callback,
`TcpConnection.cpp:327-336`) or shut down (write complete, 234-240). While it runs it may
call `Send`, `Shutdown` and `ForceClose` of its connection (`Reply`), any number of times,
and these may call back again. Callbacks call their own connection only, and those of
the end of a connection, DOWN and CLOSE, call nothing. `interrupted` is history: what was
called while the rest of a short write was still on the stack. On another thread a call
is up to three steps: the test of `status_`, its setting, the queueing. `reopened` is
history: connections whose DISCONNECTED was overwritten by such a late setting. The
socket takes a byte at a time (`Room`), may be reset at any time, and raises SIGPIPE as
the kernel does.
Sockets do not block: that is true of the ones Connector makes and not of the ones
Acceptor makes (`Socket.cpp:105`), for which a write can take the loop's whole time.

**Connector, TcpClient.** `failed` names what ended the process: a FATAL message or a
use of something destroyed. Nothing continues after it, since nothing in the code
does. A method of the connector that queues two tasks takes the mutex twice: it stops
after the first, with what is left in `rest`, and other threads' tasks may fall between
the two. `life` splits the destructor on another thread into the reading of
`connection_` and what follows from it; the destructor in the loop, in a callback or a
task, is one step (`DestroyInLoop`), after which the connection lives as long as
something has a pointer to it (`Owned`): a queued task, or `held`, a copy the user took or
the argument of the callback that runs.

**TcpServer.** `emplace_back` and `back` on the unlocked vector are three steps of a
worker, of which the first reads and the second writes: overlapping ones lose a
loop, one of the outcomes such a race may have; and a `GetNextLoop()` during one may read
an entry that was moved. `accept` may fail for want of a descriptor, for reasons that are
logged, or for one that is FATAL (`AcceptErrs`). `inside` marks a thread in
the unlocked map, so that two at once are seen. The acceptor's `HandleRead` without
a descriptor is five steps, between which other parts of the process open and close
descriptors. All connections are named "-1" since `next_connect_id_` is not advanced.

**LogFile.** Composing a line is part of the step that appends it: it works on the
thread's own stream, of which only the length matters to the file. A file is a
sequence of lines, and a reader's bytes are lines. The time read by `append_unlocked`
and again by `getLogFileName` is one.

## 3. Runs

| run | instance | states | checks |
|---|---|---|---|
| `thread_pool` | 2 workers, 2 clients, 3 tasks | 8 438 | `TypeOK`, `NoLostWakeup`, `ImplementsExecutor`, `QueuedTaskRuns`, `StopReturnsEventually` |
| `event_loop` | 2 clients, 3 tasks, nesting 2 | 12 321 | `TypeOK`, `NoLostWakeup`, `ImplementsExecutor`, `QueuedTaskRuns`, `BatchEnds`, `QuitStops` |
| `async_logging` | buffers of 3 bytes, lines of 1 to 3, 5 lines, at most 2 buffers written | 37 304 | `TypeOK`, `RecycleNeverEmpty`, `LinesInOrder`, `LineWritten`, `StopReturns` |
| `poller` | 3 interchangeable channels, descriptors 0 to 2, two events | 92 572 | `TypeOK`, `IndexOwn`, `ImplementsPollSet` |
| `buffer` | 2 values of a byte, headroom 2, initially 1, content up to 3, integers of 1 and 2 bytes | 74 077 | `TypeOK`, `ImplementsByteQueue`, `GrowthBounded` |
| `tcp_connection` | 1 connection, 1 other thread, 2 messages of 3 bytes, room for 1, high water at 2, 1 queued task besides the batch | 631 527 | `WholeMessages`, `ToldInOrder`, `ShutdownAfterOutput`, `Completes` |
| `tcp_client` | 2 threads, 3 starts, 2 stops, 2 descriptors | 165 832 | `SocketOwned`, `FailsOnlyWhen`, `StopTakesEffect` |
| `tcp_server` | up to 2 I/O threads, 2 clients, 3 descriptors | 164 254 | `IdleFdOwn`, `FailsOnlyWhen`, `Answered` |
| `log_file` | 2 interchangeable threads, 3 lines, times 0 to 3 in periods of 2, lines of two lengths, numbers of 8 bits | 2 379 484 | `LinesOnce`, `RollsInTime`, `FatalOnDisk`, `ReadPrefix`, `WholeItems` |
| `poller_close` | 2 connections, 1 other thread | violation | `IgnoredOnlyIfNone` |
| `thread_pool_join` | as `thread_pool` | violation | `JoinsStarted` |

What they show:

- `NoLostWakeup` (pool): one signal per task is enough. A worker sleeps only while
  each queued task has another worker already awake and on its way to it. Signalling
  only when the queue was empty, an optimisation one would be tempted to make, breaks
  it.
- `ImplementsExecutor` (pool, loop): both are executors in one and the same sense,
  `TaskExecutor`: FIFO, at most once, and nothing runs after the destructor. For the
  pool this rests on `stop` joining every worker, for the loop on swapping the queue.
- `NoLostWakeup` (loop): in poll() with unannounced work, the eventfd is readable or a
  client is about to write it, for both reasons to wake, tasks and quit, and for both
  sides. It rests on `doing_task_`: a task that queues a task must wake its own loop.
- `QueuedTaskRuns`, `StopReturnsEventually`, `BatchEnds`, `QuitStops`: the liveness
  that these are for, with the exceptions the code really has stated in the property
  (threads never created; a `Quit` between `loop_ = true` and `quit_ = false`, which is
  forgotten).
- `LinesInOrder`: at any moment the file, the buffers being written, the full ones and
  the current one, in this order, hold each accepted line once and ascending.
- `RecycleNeverEmpty`: the two assertions in `ThreadFunc` (114, 121).
- `LineWritten`, `StopReturns`: the time limit of the wait makes up both for a buffer
  that never fills and for a notify that comes before the wait.
- `IndexOwn`: array, map and indices agree at all times. `ImplementsPollSet`: through
  the swaps, the encoding and the reuse of descriptors, poll() watches for each
  channel what that channel asked for last.

- `ImplementsByteQueue`: results and content of a Buffer are those of a queue, also
  after the content was moved to the front or a header was put before it, and when
  `RetrieveUntil` computes a distance from an index it has just reset. `GrowthBounded`:
  a buffer used for ever is bounded by what it held at once.
- `WholeMessages`: a message that is dropped (a full socket, or output before it) is
  dropped whole, and none overtakes another of its thread. That it is dropped at all,
  without an error (`TcpConnection.cpp:306`), is what the property allows for. The
  exception is a `Send` in the high-water callback, which sees no output waiting and writes
  into the middle of the message that called it.
- `ToldInOrder`: UP first, nothing after CLOSE, no message after DOWN, and no use of the
  list out of its bounds, whatever closes at once: the peer, a callback, a queued
  ForceClose. It states three exceptions: another thread's `Shutdown` that tests CONNECTED and
  sets DISCONNECTING after the close, and, for the list only, that a second connection
  closes or the high-water callback closes its own, after which `SendInLoop` asks for
  WRITEEVENT through an index of a removed channel. With three connections A, B, C,
  closing A leaves an entry of A's at its index; when that entry is the last and B closes,
  the list looks up a channel nobody has (`Poller.cpp:84`). The proof of the property found
  the second one: two connections, as many as TLC's runs have, do not show it.
- `ShutdownAfterOutput`, `Completes`: SHUT_WR waits for the output that is buffered and
  comes when it is gone, but for a `Shutdown` in the high-water callback, which comes
  before the rest of the message. Messages queued by other threads may come after it: their
  write raises SIGPIPE, which nobody handles, and `Completes` says so.
- `SocketOwned`: each open descriptor is an attempt's that the list watches or a method is
  about to close or hand over, or the connection's. `FailsOnlyWhen` of `TcpClient`: a single
  `Start`, however often it is retried and stopped, never meets its own attempt; what it takes
  to abort at `Connector.cpp:38` (two `Start`), to lose a channel by a late `ResetChannel`
  (two `Start` and a `Stop`), to call a destroyed client (another thread destroyed it) and to
  poll a destroyed connection (that, or a callback with a pointer to it destroyed the client)
  is stated cause by cause. Not exempted are a refused attempt that poll() reports
  (`Connector.cpp:169`) and any end of a connection (`TcpClient.cpp:162`): they abort
  always, and there is nothing to pin down.
- `StopTakesEffect`: no attempt survives a `Stop` that is not followed by a `Start`.
- `IdleFdOwn`: closing the spare descriptor, accepting with it and opening it again never
  touches a descriptor another part opened in between. `FailsOnlyWhen` of `TcpServer`
  bounds each failure to its cause: an index out of the vector only before the loops
  exist or at the second connection of a single thread, a wrong loop only
  with two threads, a destroyed channel in a list only after two connections at once.
  `Answered`: otherwise every client is established or refused.
- `LinesOnce`: flushes, rolls, refused rolls and files that cannot be opened neither
  repeat nor reorder a line, and the lines lost are those of a file that was not opened;
  names ascend although the clock may be set back. `RollsInTime`: how late a roll may be.
  A file may have more than `checkEveryN_` lines of a later period, though never in a
  row: when the clock is set back, a line of the file's own period may be the one that is
  looked at, which resets `count_`. The proof found that, of which the three lines of
  the run do not tell.
  `FatalOnDisk`: what other threads do between a FATAL line, its flush and `abort` does not
  matter. `ReadPrefix`: `readToByte` with a failing `read` is its exception.
  `WholeItems`: conversion, checked for every number of 8 bits at every place of a
  stream, against the value of the numeral.

Bounds and why they are enough. Two workers and two clients are what a signal to the wrong
thread needs, three tasks one more than threads of a kind, so that a queue builds up behind
both. The loop needs a queued
task, one in the batch and one nested. Five lines of up to a buffer's length fill the
current and the spare buffer, force an allocation and leave more than two buffers to write,
which here is the limit that stands for 25. Three channels are the removed one, the one
moved and a bystander; descriptor 0 is included because `-0` would not be negative.
`MaxDepth` bounds nested `RunInLoop` calls and `MaxLines` the lines; a connection needs a
message of three bytes so that one write leaves more than the next takes, and two messages
so that one can overtake, of which the rest after a write reaches the high-water mark of 2;
`task_` holds one task while the batch holds another; two starts and a stop are the fewest
that make a late reset hit a later attempt, and the run has one more of each; two clients
and three descriptors let the spare one be needed and taken; three lines are one more than
`checkEveryN_`, and times 0 to 3 are two periods. `MaxArrival`, `MaxTask`, `MaxStart`,
`MaxStop`, `MaxItem`, `MaxLine` and `MaxTime` bound what is counted; tasks are used again, so
nothing bounds their number. Deadlock is not checked: each of these systems may stop (a
destroyed pool, a loop outside `Loop()` and destroyed, an aborted process, no lines left to
append).

## 4. Fairness

Weak fairness of a thread's own next step: the scheduler runs every thread, and the
library's mutexes are held for bounded sections only. Strong fairness of a task's
return (`FinishTask`) and of a handler's (`HandlerReturns`), which calling into the
library disables and enables again: a user callback that never returns blocks its
thread, and no property is claimed for it. In `EventLoop` the loop's step requires
poll() to return only when the eventfd is readable; I/O, signals, clients calling,
`Quit` and `Destroy` have no fairness. In `ThreadPool` a spurious wake-up has none,
and in `AsyncLogging` the time-out is part of the logging thread's step, since
`pthread_cond_timedwait` ends by itself. In all modules starting an operation is
never fair, finishing one is. `TcpConnection` asks one thing of the outside, that the
peer goes on reading; `TcpClient` and `TcpServer` ask nothing of the network; `Buffer` and
`LogFile` have no fairness.

## 5. Proofs

Checked by TLAPS for all values of the constants that meet the modules' assumptions
(finite sets of threads and of connections; a task is not `NoTask`; sizes
positive; at least two buffers kept; descriptors are naturals, finitely many; the
numbers of calls `TcpClient` makes are naturals; `checkEveryN_` and the period positive; the
items of a log line are texts and numbers of `Bits` bits). Two assumptions of `LogStream` are
facts about numbers, evaluated by TLC for the instance's: `PowerAssumption`, that 0 is among
the numbers of `Bits` bits, since the provers know no powers; and `NumericAssumption`, that
`kMaxNumericSize` characters hold every number: in the code 32 for the 20 characters of
64 bits.

| module | theorem | says |
|---|---|---|
| `ThreadPool_proofs` | `TypeCorrect`, `NoLostWakeupCorrect` | `Spec => []TypeOK`, `[]NoLostWakeup` |
| | `ImplementsExecutorCorrect` | the refinement of `TaskExecutor` |
| `EventLoop_proofs` | `TypeCorrect`, `NoLostWakeupCorrect`, `ImplementsExecutorCorrect` | the same, and the refinement of `TaskExecutor` |
| `Logging_proofs` | `TypeCorrect`, `RecycleNeverEmptyCorrect` | no overflow, `currentBuffer_` never null; the assertions hold |
| | `LinesInOrderCorrect` | file and buffers hold each accepted line once, in order |
| | `LinesOnceCorrect`, `RollsInTimeCorrect`, `FatalOnDiskCorrect`, `ReadPrefixCorrect`, `WholeItemsCorrect` | the five invariants of `LogFile`; `FileInvariant` is the inductive one under them |
| `Buffer_proofs` | `TypeCorrect`, `GrowthCorrect` | the indices stay in order and inside the vector; the vector grows only as far as its content needs |
| | `ImplementsByteQueueCorrect` | the refinement of `ByteQueue`: results and content are those of a queue |
| `Poller_proofs` | `TypeCorrect`, `IndexOwnCorrect`, `PollSetImplemented` | indices agree; the refinement of `PollSet` |
| `TcpConnection_proofs` | `WholeMessagesCorrect`, `ToldInOrderCorrect`, `ShutdownAfterOutputCorrect` | the three invariants of its run, and its types |
| `TcpServer_proofs` | `IdleFdOwnCorrect`, `FailsOnlyWhenCorrect` | the spare descriptor stays the acceptor's; each failure has its stated cause |
| `TcpClient_proofs` | `SocketOwnedCorrect`, `FailsOnlyWhenCorrect` | no descriptor leaks; each failure has its stated cause |

The arguments:

- *ThreadPool.* `NoLostWakeup` compares the length of the queue with a number of
  threads. The lemmas `MoveIn`, `MoveOut` and `MoveAround` say how the set of threads
  in a given state changes when one thread moves; `SignalMoves` what a notify does to
  it; `WakeWorker` combines them. The
  invariant is then inductive together with `TypeOK`. `NotCreated` (a worker not in
  `threads_` has no thread) keeps `StartThread` from waking a worker that exists.
  The refinement needs three facts more. `OnePlace`: no task is in two places among the
  queue, the threads' `arg` and `cur`, else `Finish` of one would end both. `Holding`:
  who may hold a task, at which point of its code. `Stopped`: how far the owner has
  come in `stop`, and that once it has joined a worker that worker is gone. With them
  each action is one step of `TaskExecutor` or none.
- *EventLoop.* `Inv` adds to `TypeOK` that something is on the stack only while user code
  may run, and never the same task twice. `Covered` strengthens `NoLostWakeup` from `poll`
  to the whole part of a turn in which a wake-up can still be missed: from the end of the
  batch on, a quit or a queued task comes with a readable eventfd or a client on its way.
  The refinement follows action by action; the mapped queue is `batch \o task_`, and
  `ConcatAppend`/`ConcatPop` say that pushing and popping it is pushing on `task_` and
  popping `batch`.
- *AsyncLogging.* `RecycleNeverEmpty` is not inductive: the swap gives away
  `newBuffer2` only when `nextBuffer_` was taken, and then a buffer was pushed.
  `NextTaken` (no spare implies a full buffer) and `SparesHeld` (outside a write the
  logging thread has both spares) make it so. `LinesInOrder` is about `Lines`, a
  recursive function over buffers. `Lines(s \o t)` is `Lines(s) \o Lines(t)` by a least
  counterexample: the set of lengths for which it fails has a least element
  (`NatLessThanWellFounded`, used through a set and so within reach of the provers), and
  that is absurd. The invariant says that the spares are empty, that the lines of the
  file, of the buffers being written, of the full ones and of the current one ascend in
  this order, and that they are exactly `1..total` without those in `lost`.
- *LogStream.* `WholeItems` says what a recursive conversion gives for every number.
  `RecursionExists` shows that a function with the defining equation exists, so that
  `convert`'s has it; `RecursionNumeral` shows, by a least counterexample among the numbers, that
  what it gives has no needless zero and reads as the number. Reading is a fold:
  `FoldExists`, `RunsThrough` and `RunsAgree` replace a fold by any function that takes its
  steps, from which `MoreDigits`, for a numeral one digit longer, follows. `AllInsertsWhole` adds
  `NumericAssumption`, and `ComposedFits` that a line never fills its buffer. The proof
  is why `convertHex` is defined on naturals only: over negative numbers, which the
  code's `uintptr_t` has not, the recursion does not end, and the function would be undefined.
- *LogFile.* `FileInv` speaks of the files with what stdio still holds (`KeptFiles`), so
  that flushing changes nothing it says (`FlushKeeps`). `Well`: the last file is the open
  one, bears the name of the last roll, and no file has a later one; that a roll is refused
  unless the clock is past it keeps names ascending. `Contents`: the numbers ascend through
  the files, are those of `1..lines` without `unopened`, and every length fits. `AllInTime`
  is `RollsInTime` with what makes it inductive (`StillInTime`): of the open file,
  `writen_bytes_` is the sum of its lines, and one of the last `count_ + 1` lines is of its
  period, if it has that many. `LoggersKnow`: the line of a thread between its flush and
  `abort` is on the disk with all before it (`Saved`), which whatever others do keeps, since
  files only grow (`Grows`). `ReaderInv`: until `readToByte` goes back, what was read is the
  file up to `offset`. One lemma per branch of `append_unlocked` says what it keeps.
- *Poller.* The work is in lemmas about a table `t` and a set `S` of channels with
  `InStep(t, S)`: `AddedInStep`, `RewrittenInStep`, `RemovedInStep`, `PassedInStep`
  say what each method does to it. `WatchedInStep` turns what poll() sees of such a
  table into the channels' own events. `Inv` adds that live channels have different
  descriptors (`FdsDistinct`) and that a new channel has no index (`NewUnlisted`);
  each action is then one lemma that gives both `Inv'` and its step of `PollSet`.
- *Buffer.* `TypeOK` is not inductive: `RetrieveAll()` sets both indices to the
  headroom, so the vector must not become shorter than it (`Sound`). One lemma per
  method says that it keeps a buffer sound and what it does to its length;
  `EnsureSound` has the arithmetic of `MakeSpace()`, in both branches, and
  `RetrieveUntilSound` covers the distance that wraps around as a `size_t`.
  `AssignedIndices` and its siblings replace the assignments to two or three members
  by a record, which the SMT backend does not find by itself. The refinement compares
  contents byte by byte (`ContentAt`, `SameContent`, `CopiedAt`): both branches of
  `MakeSpace()` keep the content and make the room asked for, and after it a write
  appends (`EnsureContent`, `AppendContent`), a read drops (`RetrieveContent`), and
  `ReadFd` is one append of what its two buffers took together (`ReadFdContent`).
  `RetrieveUntil` in wrapped arithmetic is a drop only while the content is shorter than
  `SizeRange`, which is the invariant `Bounded`.
- *TcpConnection.* The list comes first. `Entries(t, S)` holds of it whatever the
  connections do, even after the stray write of finding `poller_close`: every entry bears
  the descriptor of a channel that was once put in the list (`S`), a channel in
  `channels_` is there under its own descriptor, and an entry with that descriptor is
  where its index says. `Live` and `Full` say more, the one until a reopening or a close in
  the high-water callback, the other until the first close. They give what `ToldInOrder`
  needs: an entry that poll() reports leads to a connection that is up (`EntryOwner`), and
  two reports of one connection come from one entry, so that at most one of them closes
  it (`ActiveIn`), and none that still waits does while callbacks of it are under way
  (`Quiet`).
  `NetIn` adds what holds of each connection between two steps: what it was told
  agrees with its status (`ToldAt`), output that waits is waited for and excludes SHUT_WR
  (`OutputAt`), and what was sent, what a callback keeps from the output (`Held`) and what
  waits are whole messages (`Whole`). `StackIn` speaks of the callbacks under way, however
  deep they nest: they are all of one connection; over a short write's only a `Send` makes
  another, and until one does the output is empty, so that the rest comes to its place;
  HandleWrite makes only the outermost. One lemma per method says that it keeps `NetIn`,
  leaves the other connections alone and adds no bytes or one message (`...Moves`), or, in
  the high-water callback, that it joins `interrupted`. The messages are numbered over all
  calls, so their order needs the queue: `QueueIn` and `CallIn` say of `batch \o task_` and
  of the calls under way that a message that waits is later than all its thread has sent
  (`Fresh`) and than those that wait before it (`Follows`), that Establish comes first
  and once, and that a Shutdown comes after its assignment to `status_`.
- *TcpServer.* `IInv` adds to the type and to `FailsOnlyWhen` itself: nothing is called
  idle while the acceptor has given its descriptor up (`IdleKept`), a descriptor's owner
  is alive, a waiting client waits once, a connection is queued in its own loop, once
  (`TasksQueued`), `GetNextLoop` leaves the first loop only if there is no second
  (`IndexStays`), a single worker finds the vector empty (`SingleWorker`), and while no
  two connections were alive at once the map holds the only one (`OneAtATime`).
- *TcpClient.* Most of the invariant is asked only until something has failed. `Shape` says
  for each `status_` and `rest` what is at the descriptors: nothing, one attempt that the list
  watches or a late `ResetChannel` has doomed, or the connection. `Rounds` keeps events and
  tasks apart, and says who of a destroyed client's parts are left. `OneStart`: of a single
  `Start` there is one call, one task or one attempt. A late `ResetChannel` is harmless for
  two reasons, each with a part of its own. `NeverStopped`: without a `Stop`, every queued
  `ResetChannel` has a `StartInLoop` behind it (`NoLone`), so that the attempt it dooms is
  followed by a `StartInLoop` that is FATAL before poll() is called again. `StartedOnce`: with
  one `Start`, every `ResetChannel` comes before the next `StartInLoop` (`Ordered`) and finds
  nothing. Handlers are composed from operators on the connector; a lemma for each says
  which of eight effects it has on the fields (`Method`), and the parts of the invariant are
  shown per effect.

TLC checked each of these invariants on the instances of section 3 before it was proved.
An induction over data is within reach where it can be put as a least counterexample
in a set of numbers (`Lines`, the numerals of `LogStream`, folds over sequences, and the
events one poll reports in `TcpClient`); the library's induction theorems cannot be
instantiated.

Every invariant and every refinement of section 3's passing runs is proved. Model-checked
only: the liveness properties, which are out of the prover's reach.

## 6. Findings

- `poller_close`. `TcpConnection::HandleClose` calls `ConnectDestroyed`, which removes
  the channel from the list (`TcpConnection.cpp:207`), and then `DisableAll` (265),
  which writes an entry through the index the channel still has. With two
  connections A and B in one loop, closing A moves B's entry to A's index; the write
  replaces it by A's ignored descriptor, and B is never polled again. When A was the
  last entry the write goes one past the end of the vector, into reserved memory. With a
  third connection a second close may look up a channel that is not in the map and
  read through a null pointer.
  `Poller.cpp:60` says of that branch "ignore this pollfd".
- `thread_pool_join`. `Thread::start` swallows a failing `pthread_create`;
  `ThreadPool::stop` joins the thread and `assert(started_)` (`Thread.cpp:104`) fails.

Other behaviour met on the way, for which no line of the repository promises anything
else, is listed as hazards in `PROJECT.json`, and is part of the models: in
`EventLoopThreadPool` the start-up race and `GetNextLoop`'s inverted comparison; in
`TcpServer` the names that are all the same, so that a second connection is destroyed
while its channel is listed, and the unlocked map; in `TcpClient` the inverted thread
check, and a connection that outlives a client destroyed in the loop; in `Connector` the
queued reset and the error and write callbacks of one poll; in `TcpConnection` messages
dropped, DISCONNECTED overwritten, SIGPIPE after a half-close, and what a high-water callback
calls while the rest of its message is not kept yet; in `ReadFile` a failure kept in a
`size_t`.

## 7. What is not modelled

- Time stamps, colours, levels and floating point numbers of log lines.
- What a user's callback does, beyond calling into the library and returning; in
  `TcpConnection`, beyond calling its own connection.
- A bound of `ThreadPool`'s queue, which no program can set, and with it `notFull_`.
- `ThreadPool`'s thread-init callback, thread names and ids.
- `TcpClient::Disconnect` (it is `TcpConnection::Shutdown`) and `Connector::Restart`
  (behind a statement that aborts); the destruction of a `TcpServer`.
- A connection over a socket that blocks; signals but SIGPIPE.
- Writing to a disk that is full.
- Memory allocation failing; C++ lifetime errors other than those named.
- InetAddress, and the options of Socket: nothing modelled depends on them.
- BlockingQueue, BoundedBlockingQueue: used nowhere. Sample programs.

## 8. Plan

The modules planned are written. What is left, in order of weight:

1. A byte stream with a half-close as the abstract specification of `TcpConnection`.
2. `CountDownLatch` and the holder of `MutexLock`.
