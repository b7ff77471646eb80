----------------------------- MODULE ThreadPool -----------------------------
(***************************************************************************)
(* Threads::ThreadPool: a queue of tasks, guarded by mutex_, drained by a   *)
(* fixed set of worker threads; notEmpty_ wakes a worker for a new task.    *)
(* The queue has no bound: max_queue_size_ is private, the constructor sets *)
(* it to 0, and setTaskQueueSize() is declared and not defined.  So isFull()*)
(* is false, and nobody ever waits on notFull_ or notifies it.              *)
(*                                                                         *)
(* A critical section of mutex_ is one action.  Condition::wait releases    *)
(* the mutex and sleeps in one step; a thread that is woken, by a notify or *)
(* spuriously, goes back to the locked test of its while loop.  What the    *)
(* code does outside the mutex (the loop's read of running_, the test of    *)
(* threads_.empty(), creating and joining threads) is a step of its own.    *)
(***************************************************************************)
EXTENDS Integers, Sequences, FiniteSets

CONSTANTS
    Worker,         \* the threads start() may create
    Client,         \* other threads that call runTask()
    Task,           \* the callbacks; one may be submitted again once it ended
    NoTask          \* an empty std::function

ASSUME WorkerAssumption == IsFiniteSet(Worker)
ASSUME ClientAssumption == IsFiniteSet(Client) /\ Worker \cap Client = {}
ASSUME TaskAssumption == NoTask \notin Task

VARIABLES
    queue_,         \* the tasks waiting, front first
    running_,
    threads_,       \* the workers created so far, in order of creation
    pc,             \* where each thread is, see WorkerState and ClientState
    arg,            \* the task a thread is handing to runTask(), or NoTask
    cur,            \* the task a thread is executing, or NoTask
    owner,          \* what the thread that owns the pool is doing
    toStart,        \* how many threads start() has yet to create
    joined          \* how many threads stop() has joined

vars == <<queue_, running_, threads_, pc, arg, cur, owner, toStart, joined>>

Actor == Worker \cup Client

WorkerState == {
    "none",         \* not created, or pthread_create failed
    "loop",         \* about to read running_ in runInThread()
    "take",         \* in take(), about to hold mutex_ and test the queue
    "wait",         \* asleep on notEmpty_
    "run",          \* executing a task
    "submit",       \* that task is in runTask(), about to hold mutex_
    "exit"}         \* runInThread() has returned

ClientState == {"idle", "run", "submit"}

OwnerState == {"idle", "starting", "joining", "done", "aborted"}

TypeOK ==
    /\ queue_ \in Seq(Task)
    /\ running_ \in BOOLEAN
    /\ threads_ \in Seq(Worker)
    /\ pc \in [Actor -> WorkerState \cup ClientState]
    /\ \A w \in Worker : pc[w] \in WorkerState
    /\ \A c \in Client : pc[c] \in ClientState
    /\ arg \in [Actor -> Task \cup {NoTask}]
    /\ cur \in [Actor -> Task \cup {NoTask}]
    /\ \A a \in Actor : pc[a] = "submit" => arg[a] \in Task
    /\ \A a \in Actor : pc[a] = "run" => cur[a] \in Task
    /\ \A w \in Worker : pc[w] = "submit" => cur[w] \in Task
    /\ owner \in OwnerState
    /\ toStart \in Nat
    /\ owner = "starting" => toStart > 0
    /\ joined \in Nat

Init ==
    /\ queue_ = <<>>
    /\ running_ = FALSE
    /\ threads_ = <<>>
    /\ pc = [a \in Actor |-> IF a \in Worker THEN "none" ELSE "idle"]
    /\ arg = [a \in Actor |-> NoTask]
    /\ cur = [a \in Actor |-> NoTask]
    /\ owner = "idle"
    /\ toStart = 0
    /\ joined = 0

-----------------------------------------------------------------------------
Created == {threads_[i] : i \in DOMAIN threads_}

Queued == {queue_[i] : i \in DOMAIN queue_}

In(f, s) == {a \in Actor : f[a] = s}

Those(s) == In(pc, s)

\* Thread a of a process that has not aborted is about to do step s.
At(a, s) == pc[a] = s /\ owner # "aborted"

\* The tasks nobody holds: those a caller can hand over now.
Fresh == Task \ (Queued \cup {arg[a] : a \in Actor} \cup {cur[a] : a \in Actor})

\* pthread_cond_signal: some thread asleep at `asleep` in the control state f,
\* if there is one, resumes at `awake`.
Signal(f, asleep, awake) ==
    IF In(f, asleep) = {}
    THEN {f}
    ELSE {[f EXCEPT ![a] = awake] : a \in In(f, asleep)}

\* Mutated forms of notEmpty_notify: signal only a queue that was empty; and
\* no signal at all.
notify_WasEmpty(f) == IF queue_ = <<>> THEN Signal(f, "wait", "take") ELSE {f}
notify_Never(f) == {f}

notEmpty_notify(f) == Signal(f, "wait", "take")

\* Mutated form of notEmpty_notifyAll: one sleeper is woken, not all.
notifyAll_One(f) == notEmpty_notify(f)

notEmpty_notifyAll(f) ==
    {[a \in Actor |-> IF f[a] = "wait" THEN "take" ELSE f[a]]}

-----------------------------------------------------------------------------
(* runTask().  A client calls it any time before the destructor; a worker   *)
(* calls it from inside the task it executes.                               *)

Caller(a) == IF a \in Worker THEN "run" ELSE "idle"

RunTaskInline(c, t) ==
    /\ At(c, "idle")
    /\ owner \in {"idle", "starting"}
    /\ threads_ = <<>>
    /\ pc' = [pc EXCEPT ![c] = "run"]
    /\ cur' = [cur EXCEPT ![c] = t]
    /\ UNCHANGED <<queue_, running_, threads_, arg, owner, toStart, joined>>

RunTaskCall(a, t) ==
    /\ At(a, Caller(a))
    /\ a \in Client => owner \in {"idle", "starting"}
    /\ threads_ # <<>>
    /\ pc' = [pc EXCEPT ![a] = "submit"]
    /\ arg' = [arg EXCEPT ![a] = t]
    /\ UNCHANGED <<queue_, running_, threads_, cur, owner, toStart, joined>>

RunTaskPush(a) ==
    /\ At(a, "submit")
    /\ queue_' = Append(queue_, arg[a])
    /\ arg' = [arg EXCEPT ![a] = NoTask]
    /\ pc' \in notEmpty_notify([pc EXCEPT ![a] = Caller(a)])
    /\ UNCHANGED <<running_, threads_, cur, owner, toStart, joined>>

-----------------------------------------------------------------------------
(* runInThread() and take().                                                *)

ReadRunning(w) ==
    /\ At(w, "loop")
    /\ pc' = [pc EXCEPT ![w] = IF running_ THEN "take" ELSE "exit"]
    /\ UNCHANGED <<queue_, running_, threads_, arg, cur, owner, toStart, joined>>

TakeWait(w) ==
    /\ At(w, "take")
    /\ queue_ = <<>> /\ running_
    /\ pc' = [pc EXCEPT ![w] = "wait"]
    /\ UNCHANGED <<queue_, running_, threads_, arg, cur, owner, toStart, joined>>

\* Mutated form of TakeTask: the front is popped and not kept.
TakeTask_Lost(w) ==
    /\ At(w, "take")
    /\ queue_ # <<>>
    /\ queue_' = Tail(queue_)
    /\ pc' = [pc EXCEPT ![w] = "run"]
    /\ UNCHANGED <<running_, threads_, arg, cur, owner, toStart, joined>>

TakeTask(w) ==
    /\ At(w, "take")
    /\ queue_ # <<>>
    /\ cur' = [cur EXCEPT ![w] = Head(queue_)]
    /\ queue_' = Tail(queue_)
    /\ pc' = [pc EXCEPT ![w] = "run"]
    /\ UNCHANGED <<running_, threads_, arg, owner, toStart, joined>>

\* Woken by stop() with nothing queued: an empty task is returned and skipped.
TakeNull(w) ==
    /\ At(w, "take")
    /\ queue_ = <<>> /\ ~running_
    /\ pc' = [pc EXCEPT ![w] = "loop"]
    /\ UNCHANGED <<queue_, running_, threads_, arg, cur, owner, toStart, joined>>

\* The task returns, in a worker to runInThread(), in a client to runTask().
FinishTask(a) ==
    /\ At(a, "run")
    /\ cur' = [cur EXCEPT ![a] = NoTask]
    /\ pc' = [pc EXCEPT ![a] = IF a \in Worker THEN "loop" ELSE "idle"]
    /\ UNCHANGED <<queue_, running_, threads_, arg, owner, toStart, joined>>

\* pthread_cond_wait may return without a signal.
SpuriousWakeup(w) ==
    /\ At(w, "wait")
    /\ pc' = [pc EXCEPT ![w] = "take"]
    /\ UNCHANGED <<queue_, running_, threads_, arg, cur, owner, toStart, joined>>

-----------------------------------------------------------------------------
(* The owner: start(), ~ThreadPool() and the stop() it calls.               *)

\* A start() that finds threads_ non-empty prints "start failed" and returns.
start(n) ==
    /\ owner = "idle"
    /\ threads_ = <<>>
    /\ running_' = TRUE
    /\ toStart' = n
    /\ owner' = IF n = 0 THEN "idle" ELSE "starting"
    /\ UNCHANGED <<queue_, threads_, pc, arg, cur, joined>>

\* One turn of the loop in start(); Thread::start() ignores the failure of
\* pthread_create, so the Thread object is in threads_ either way.
StartThread(w, created) ==
    /\ owner = "starting"
    /\ w \notin Created
    /\ threads_' = Append(threads_, w)
    /\ pc' = IF created THEN [pc EXCEPT ![w] = "loop"] ELSE pc
    /\ toStart' = toStart - 1
    /\ owner' = IF toStart = 1 THEN "idle" ELSE "starting"
    /\ UNCHANGED <<queue_, running_, arg, cur, joined>>

\* Whoever destroys the pool sees to it that no client is inside it.
Destroy ==
    /\ owner = "idle"
    /\ \A c \in Client : pc[c] = "idle"
    /\ running_' = FALSE
    /\ IF running_
       THEN pc' \in notEmpty_notifyAll(pc) /\ owner' = "joining"
       ELSE pc' = pc /\ owner' = "done"
    /\ UNCHANGED <<queue_, threads_, arg, cur, toStart, joined>>

\* Mutated form of Join: threads are detached, not waited for.
Join_Detach ==
    /\ owner = "joining"
    /\ joined < Len(threads_)
    /\ joined' = joined + 1
    /\ UNCHANGED <<queue_, running_, threads_, pc, arg, cur, owner, toStart>>

\* Thread::join() waits for the thread; on one that never started it fails the
\* assertion started_ (without assertions: joins thread 0) and the process ends.
Join ==
    /\ owner = "joining"
    /\ joined < Len(threads_)
    /\ LET w == threads_[joined + 1]
       IN  \/ pc[w] = "exit" /\ joined' = joined + 1 /\ owner' = owner
           \/ pc[w] = "none" /\ owner' = "aborted" /\ joined' = joined
    /\ UNCHANGED <<queue_, running_, threads_, pc, arg, cur, toStart>>

StopReturns ==
    /\ owner = "joining"
    /\ joined = Len(threads_)
    /\ owner' = "done"
    /\ UNCHANGED <<queue_, running_, threads_, pc, arg, cur, toStart, joined>>

-----------------------------------------------------------------------------
TakeStep(w) == ReadRunning(w) \/ TakeWait(w) \/ TakeTask(w) \/ TakeNull(w)

OwnerStep == Join \/ StopReturns \/ \E w \in Worker : StartThread(w, TRUE)

Next ==
    \/ \E c \in Client, t \in Fresh : RunTaskInline(c, t)
    \/ \E a \in Actor, t \in Fresh : RunTaskCall(a, t)
    \/ \E a \in Actor : RunTaskPush(a) \/ FinishTask(a)
    \/ \E w \in Worker :
           ReadRunning(w) \/ TakeWait(w) \/ TakeTask(w) \/ TakeNull(w) \/ SpuriousWakeup(w)
    \/ \E n \in 0..Cardinality(Worker) : start(n)
    \/ \E w \in Worker, created \in BOOLEAN : StartThread(w, created)
    \/ Destroy \/ Join \/ StopReturns

\* The scheduler runs every thread, a thread that waits for mutex_ gets it in
\* the end, and a task that keeps calling runTask() returns in the end.
Fairness ==
    /\ \A w \in Worker : WF_vars(TakeStep(w))
    /\ \A a \in Actor : WF_vars(RunTaskPush(a)) /\ SF_vars(FinishTask(a))
    /\ WF_vars(OwnerStep)

Spec == Init /\ [][Next]_vars /\ Fairness

-----------------------------------------------------------------------------
\* A worker sleeps on notEmpty_ only while each queued task has a worker of its
\* own already on the way to it: runTask() signals once per task, and no order
\* of signals, spurious wake-ups and workers coming back from a task leaves a
\* task behind with nobody to take it.
NoLostWakeup ==
    Those("wait") # {} => Len(queue_) <= Cardinality(Those("take"))

\* runTask(), take() and stop() together are an executor: tasks begin in order
\* and once, and when the destructor returns no task is running, since stop()
\* has joined every worker.
Executor == INSTANCE TaskExecutor WITH
    pending <- queue_,
    active <- {cur[a] : a \in Actor} \ {NoTask},
    closed <- owner = "done"

ImplementsExecutor == Executor!Spec

\* A queued task is taken, unless the pool is stopped first or no thread could be
\* created.
QueuedTaskRuns ==
    \A t \in Task :
        t \in Queued ~> \/ t \notin Queued
                        \/ ~running_
                        \/ \A w \in Worker : pc[w] = "none"

\* stop() returns: its notifyAll reaches every worker that sleeps in take(),
\* and no worker goes to sleep after it.  Joining a thread that was never created
\* ends the process.
StopReturnsEventually == owner = "joining" ~> owner \in {"done", "aborted"}

\* "assert(started_)" in Thread::join(): stop() joins started threads only.
JoinsStarted ==
    owner = "joining" /\ joined < Len(threads_) => pc[threads_[joined + 1]] # "none"
=============================================================================
