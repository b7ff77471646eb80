---------------------------- MODULE TaskExecutor ----------------------------
(***************************************************************************)
(* What an executor of callbacks promises to those who hand it a task: a    *)
(* submitted task is started at most once, in the order of submission, it   *)
(* is either waiting or running and never both, a task may also be run on   *)
(* the caller's own stack, and once the executor is closed nothing runs:    *)
(* neither a task that was waiting nor one that was under way.              *)
(*                                                                         *)
(* Threads::ThreadPool and Net::EventLoop both implement it, each with its  *)
(* own threads, locks and wake-ups; ThreadPool.tla and EventLoop.tla state  *)
(* the mappings.                                                           *)
(***************************************************************************)
EXTENDS Sequences

CONSTANT Task       \* the callbacks a client can submit

VARIABLES
    pending,        \* submitted, not begun: a FIFO queue
    active,         \* begun, not finished
    closed          \* the executor has been destroyed

vars == <<pending, active, closed>>

Waiting == {pending[i] : i \in DOMAIN pending}

TypeOK ==
    /\ pending \in Seq(Task)
    /\ active \subseteq Task
    /\ closed \in BOOLEAN

Init ==
    /\ pending = <<>>
    /\ active = {}
    /\ closed = FALSE

Submit(t) ==
    /\ t \notin Waiting \cup active
    /\ pending' = Append(pending, t)
    /\ UNCHANGED <<active, closed>>

Begin ==
    /\ pending # <<>>
    /\ Head(pending) \notin active
    /\ pending' = Tail(pending)
    /\ active' = active \cup {Head(pending)}
    /\ UNCHANGED closed

RunInline(t) ==
    /\ t \notin Waiting \cup active
    /\ active' = active \cup {t}
    /\ UNCHANGED <<pending, closed>>

Finish(t) ==
    /\ t \in active
    /\ active' = active \ {t}
    /\ UNCHANGED <<pending, closed>>

\* What is still waiting is dropped with the executor, what runs is awaited.
Close ==
    /\ active = {}
    /\ closed' = TRUE
    /\ UNCHANGED <<pending, active>>

Next ==
    /\ ~closed
    /\ \/ Begin
       \/ Close
       \/ \E t \in Task : Submit(t) \/ RunInline(t) \/ Finish(t)

Spec == Init /\ [][Next]_vars
=============================================================================
