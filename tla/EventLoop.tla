------------------------------ MODULE EventLoop ------------------------------
(***************************************************************************)
(* Net::EventLoop: one thread alternates between poll(), the handlers of    *)
(* the ready channels and the tasks other code queued for it.  The eventfd  *)
(* wakeup_fd_ is how another thread gets it out of poll(), whose time-out   *)
(* Poller::Poll() replaces by -1: a wake-up that is missed is not made up.  *)
(*                                                                         *)
(* The loop thread takes one step per statement another thread can fall     *)
(* between.  A client thread queues or quits in two steps: it changes the   *)
(* shared variable, then writes wakeup_fd_.  What the loop thread does to   *)
(* task_, quit_ and wakeup_fd_ within one call of its own is one step, for  *)
(* it is the only reader of the last two.                                   *)
(***************************************************************************)
EXTENDS Naturals, Sequences

CONSTANTS
    Client,         \* the threads other than the loop's that call into it
    Task,           \* the callbacks; one may be queued again once it ended
    MaxDepth        \* bound on RunInLoop() calls nested on the loop's stack

ASSUME DepthAssumption == MaxDepth \in Nat \ {0}

VARIABLES
    task_,          \* queued tasks, front first
    doing_task_,    \* DoPendingTask() is running its batch
    loop_,          \* Loop() has been entered and not left
    quit_,
    wakeup_fd_,     \* the eventfd's counter is not zero
    pc,             \* where the loop thread is, see LoopState
    active,         \* the ready channels still to handle in this turn
    handler,        \* an I/O channel's callback is on the stack
    batch,          \* the tasks DoPendingTask() took and has not begun
    stack,          \* the tasks the loop thread is executing, innermost first
    cpc,            \* client threads: "idle", or "wake": about to call WakeUP()
    early           \* history: queued by the loop thread outside Loop()

vars == <<task_, doing_task_, loop_, quit_, wakeup_fd_, pc, active, handler,
          batch, stack, cpc, early>>

LoopState == {
    "out",          \* outside Loop(): before it, or after it returned
    "start",        \* in Loop(), about to reset quit_
    "test",         \* about to test quit_
    "poll",         \* in poll()
    "handle",       \* calling HandleEvent() on the active channels
    "run",          \* in DoPendingTask(), past the swap
    "dead"}         \* the EventLoop has been destroyed

Channel == {"wakeup", "io"}

TypeOK ==
    /\ task_ \in Seq(Task) /\ batch \in Seq(Task) /\ stack \in Seq(Task)
    /\ {doing_task_, loop_, quit_, wakeup_fd_, handler} \subseteq BOOLEAN
    /\ pc \in LoopState
    /\ loop_ <=> pc \notin {"out", "dead"}
    /\ doing_task_ <=> pc = "run"
    /\ batch # <<>> => doing_task_
    /\ active \subseteq Channel
    /\ handler => pc = "handle"
    /\ cpc \in [Client -> {"idle", "wake"}]
    /\ early \subseteq Task

Init ==
    /\ task_ = <<>> /\ batch = <<>> /\ stack = <<>>
    /\ doing_task_ = FALSE /\ loop_ = FALSE /\ quit_ = FALSE
    /\ wakeup_fd_ = FALSE
    /\ pc = "out"
    /\ active = {} /\ handler = FALSE
    /\ cpc = [c \in Client |-> "idle"]
    /\ early = {}

-----------------------------------------------------------------------------
Elements(q) == {q[i] : i \in DOMAIN q}

Fresh == Task \ (Elements(task_) \cup Elements(batch) \cup Elements(stack))

\* Code of the library's user is running on the loop thread: before or after
\* Loop(), in a channel's callback, or in a task.
UserCode == pc = "out" \/ handler \/ stack # <<>>

\* Mutated forms of QueueInLoop: the loop thread never wakes itself; and what a
\* task queues joins the batch under way.
QueueInLoop_NeverWakes(t) ==
    /\ UserCode
    /\ task_' = Append(task_, t)
    /\ early' = IF pc = "out" THEN early \cup {t} ELSE early
    /\ UNCHANGED <<doing_task_, loop_, quit_, wakeup_fd_, pc, active, handler, batch,
                   stack, cpc>>

QueueInLoop_JoinsBatch(t) ==
    /\ UserCode
    /\ IF doing_task_
       THEN batch' = Append(batch, t) /\ task_' = task_
       ELSE batch' = batch /\ task_' = Append(task_, t)
    /\ wakeup_fd_' = (wakeup_fd_ \/ doing_task_)
    /\ early' = IF pc = "out" THEN early \cup {t} ELSE early
    /\ UNCHANGED <<doing_task_, loop_, quit_, pc, active, handler, stack, cpc>>

\* QueueInLoop() on the loop thread.  There it wakes the loop only for the sake
\* of the batch under way: a handler is followed by DoPendingTask() anyway.
QueueInLoop(t) ==
    /\ UserCode
    /\ task_' = Append(task_, t)
    /\ wakeup_fd_' = (wakeup_fd_ \/ doing_task_)
    /\ early' = IF pc = "out" THEN early \cup {t} ELSE early
    /\ UNCHANGED <<doing_task_, loop_, quit_, pc, active, handler, batch, stack, cpc>>

\* RunInLoop() on the loop thread calls the task.
RunInLoop(t) ==
    /\ UserCode
    /\ Len(stack) < MaxDepth
    /\ stack' = <<t>> \o stack
    /\ UNCHANGED <<task_, doing_task_, loop_, quit_, wakeup_fd_, pc, active,
                   handler, batch, cpc, early>>

Quit ==
    /\ UserCode
    /\ quit_' = TRUE
    /\ wakeup_fd_' = TRUE
    /\ UNCHANGED <<task_, doing_task_, loop_, pc, active, handler, batch, stack,
                   cpc, early>>

\* Mutated form of ClientQueue: another thread queues and does not wake the loop.
ClientQueue_NoWake(c, t) ==
    /\ pc # "dead"
    /\ cpc[c] = "idle"
    /\ task_' = Append(task_, t)
    /\ UNCHANGED <<doing_task_, loop_, quit_, wakeup_fd_, pc, active, handler,
                   batch, stack, cpc, early>>

\* QueueInLoop(), or the RunInLoop() that calls it, on another thread.
ClientQueue(c, t) ==
    /\ pc # "dead"
    /\ cpc[c] = "idle"
    /\ task_' = Append(task_, t)
    /\ cpc' = [cpc EXCEPT ![c] = "wake"]
    /\ UNCHANGED <<doing_task_, loop_, quit_, wakeup_fd_, pc, active, handler,
                   batch, stack, early>>

\* Mutated form of ClientQuit: quit_ is set and the loop is not woken.
ClientQuit_NoWake(c) ==
    /\ pc # "dead"
    /\ cpc[c] = "idle"
    /\ quit_' = TRUE
    /\ UNCHANGED <<task_, doing_task_, loop_, wakeup_fd_, pc, active, handler,
                   batch, stack, cpc, early>>

ClientQuit(c) ==
    /\ pc # "dead"
    /\ cpc[c] = "idle"
    /\ quit_' = TRUE
    /\ cpc' = [cpc EXCEPT ![c] = "wake"]
    /\ UNCHANGED <<task_, doing_task_, loop_, wakeup_fd_, pc, active, handler,
                   batch, stack, early>>

WakeUP(c) ==
    /\ cpc[c] = "wake"
    /\ wakeup_fd_' = TRUE
    /\ cpc' = [cpc EXCEPT ![c] = "idle"]
    /\ UNCHANGED <<task_, doing_task_, loop_, quit_, pc, active, handler, batch,
                   stack, early>>

-----------------------------------------------------------------------------
(* Loop().                                                                  *)

Loop ==
    /\ pc = "out" /\ stack = <<>>
    /\ ~loop_
    /\ loop_' = TRUE
    /\ pc' = "start"
    /\ UNCHANGED <<task_, doing_task_, quit_, wakeup_fd_, active, handler, batch,
                   stack, cpc, early>>

\* loop_ is true by now: what another thread's Quit() stored is overwritten.
ResetQuit ==
    /\ pc = "start"
    /\ quit_' = FALSE
    /\ pc' = "test"
    /\ UNCHANGED <<task_, doing_task_, loop_, wakeup_fd_, active, handler, batch,
                   stack, cpc, early>>

TestQuit ==
    /\ pc = "test"
    /\ pc' = IF quit_ THEN "out" ELSE "poll"
    /\ loop_' = ~quit_
    /\ active' = {}
    /\ UNCHANGED <<task_, doing_task_, quit_, wakeup_fd_, handler, batch, stack,
                   cpc, early>>

\* poll() returns every channel that is ready; whether an I/O channel is, is up
\* to the network.
Poll(ready) ==
    /\ pc = "poll"
    /\ ready # {}
    /\ "wakeup" \in ready <=> wakeup_fd_
    /\ active' = ready
    /\ pc' = "handle"
    /\ UNCHANGED <<task_, doing_task_, loop_, quit_, wakeup_fd_, handler, batch,
                   stack, cpc, early>>

\* A signal ends poll() with EINTR: the turn goes on with no active channel.
PollInterrupted ==
    /\ pc = "poll"
    /\ active' = {}
    /\ pc' = "handle"
    /\ UNCHANGED <<task_, doing_task_, loop_, quit_, wakeup_fd_, handler, batch,
                   stack, cpc, early>>

\* EventLoop::HandleRead: the read resets the eventfd's counter.
HandleRead ==
    /\ pc = "handle" /\ ~handler
    /\ "wakeup" \in active
    /\ wakeup_fd_' = FALSE
    /\ active' = active \ {"wakeup"}
    /\ UNCHANGED <<task_, doing_task_, loop_, quit_, pc, handler, batch, stack,
                   cpc, early>>

HandleEvent ==
    /\ pc = "handle" /\ ~handler
    /\ "io" \in active
    /\ handler' = TRUE
    /\ active' = active \ {"io"}
    /\ UNCHANGED <<task_, doing_task_, loop_, quit_, wakeup_fd_, pc, batch, stack,
                   cpc, early>>

HandlerReturns ==
    /\ handler /\ stack = <<>>
    /\ handler' = FALSE
    /\ UNCHANGED <<task_, doing_task_, loop_, quit_, wakeup_fd_, pc, active, batch,
                   stack, cpc, early>>

\* Mutated form of DoPendingTask: the queue is copied, not swapped.
DoPendingTask_Copy ==
    /\ pc = "handle" /\ ~handler /\ active = {}
    /\ doing_task_' = TRUE
    /\ batch' = task_
    /\ pc' = "run"
    /\ UNCHANGED <<task_, loop_, quit_, wakeup_fd_, active, handler, stack, cpc, early>>

DoPendingTask ==
    /\ pc = "handle" /\ ~handler /\ active = {}
    /\ doing_task_' = TRUE
    /\ batch' = task_
    /\ task_' = <<>>
    /\ early' = {}
    /\ pc' = "run"
    /\ UNCHANGED <<loop_, quit_, wakeup_fd_, active, handler, stack, cpc>>

BeginTask ==
    /\ pc = "run" /\ stack = <<>>
    /\ batch # <<>>
    /\ stack' = <<Head(batch)>>
    /\ batch' = Tail(batch)
    /\ UNCHANGED <<task_, doing_task_, loop_, quit_, wakeup_fd_, pc, active,
                   handler, cpc, early>>

FinishTask ==
    /\ stack # <<>>
    /\ stack' = Tail(stack)
    /\ UNCHANGED <<task_, doing_task_, loop_, quit_, wakeup_fd_, pc, active,
                   handler, batch, cpc, early>>

\* Mutated form of BatchDone: doing_task_ is left set.
BatchDone_NoReset ==
    /\ pc = "run" /\ stack = <<>>
    /\ batch = <<>>
    /\ pc' = "test"
    /\ UNCHANGED <<task_, doing_task_, loop_, quit_, wakeup_fd_, active, handler,
                   batch, stack, cpc, early>>

BatchDone ==
    /\ pc = "run" /\ stack = <<>>
    /\ batch = <<>>
    /\ doing_task_' = FALSE
    /\ pc' = "test"
    /\ UNCHANGED <<task_, loop_, quit_, wakeup_fd_, active, handler, batch, stack,
                   cpc, early>>

\* ~EventLoop, on the loop thread; no client may still be inside.
Destroy ==
    /\ pc = "out" /\ stack = <<>>
    /\ \A c \in Client : cpc[c] = "idle"
    /\ pc' = "dead"
    /\ UNCHANGED <<task_, doing_task_, loop_, quit_, wakeup_fd_, active, handler,
                   batch, stack, cpc, early>>

-----------------------------------------------------------------------------
Next ==
    \/ \E t \in Fresh : QueueInLoop(t) \/ RunInLoop(t)
    \/ \E c \in Client, t \in Fresh : ClientQueue(c, t)
    \/ \E c \in Client : ClientQuit(c) \/ WakeUP(c)
    \/ \E ready \in SUBSET Channel : Poll(ready)
    \/ Quit \/ Loop \/ ResetQuit \/ TestQuit \/ PollInterrupted
    \/ HandleRead \/ HandleEvent \/ HandlerReturns
    \/ DoPendingTask \/ BeginTask \/ FinishTask \/ BatchDone \/ Destroy

\* The loop thread inside Loop().
LoopStep ==
    \/ ResetQuit \/ TestQuit
    \/ \E ready \in SUBSET Channel : "wakeup" \in ready /\ Poll(ready)
    \/ HandleRead \/ HandleEvent \/ DoPendingTask \/ BeginTask \/ BatchDone

\* The scheduler runs the loop thread and lets a client finish its call; a
\* handler and a task return, however often they call into the loop.  Nothing
\* makes I/O, a signal or another Loop() happen.
Fairness ==
    /\ WF_vars(LoopStep)
    /\ SF_vars(HandlerReturns)
    /\ \A d \in 1..MaxDepth : SF_vars(Len(stack) = d /\ FinishTask)
    /\ \A c \in Client : WF_vars(WakeUP(c))

Spec == Init /\ [][Next]_vars /\ Fairness

-----------------------------------------------------------------------------
Waking == \E c \in Client : cpc[c] = "wake"

\* The loop does not block in poll() on work it has been given: while tasks or a
\* quit await it, wakeup_fd_ is readable or a client is about to make it so.
\* The exception is a task the loop's own thread queued outside Loop():
\* QueueInLoop() skips the wake-up for it, and it waits for the next event.
NoLostWakeup ==
    pc = "poll" /\ (quit_ \/ ~(Elements(task_) \subseteq early))
        => wakeup_fd_ \/ Waking

\* The loop is an executor of its queue: the swapped batch and what is queued
\* behind it run in order and once, and never after the destructor.
Executor == INSTANCE TaskExecutor WITH
    pending <- batch \o task_,
    active <- Elements(stack),
    closed <- pc = "dead"

ImplementsExecutor == Executor!Spec

\* A queued task is begun unless the loop is not running or is told to quit.
QueuedTaskRuns ==
    \A t \in Task :
        t \in Elements(task_) \ early
            ~> t \notin Elements(batch \o task_) \/ quit_ \/ pc \in {"out", "dead"}

\* DoPendingTask() comes to an end, and I/O is served again, even if every task
\* it runs queues another one.
BatchEnds == pc = "run" ~> pc # "run"

\* Quit() makes Loop() return, whichever thread calls it, once Loop() has reset
\* quit_.  A Quit() of another thread between loop_ = true and quit_ = false is
\* forgotten, although a loop_ read before the call would say that the loop runs.
QuitStops == quit_ /\ loop_ /\ pc # "start" ~> ~loop_
=============================================================================
