--------------------------- MODULE EventLoop_proofs ---------------------------
(***************************************************************************)
(* For any number of clients and tasks: EventLoop is type correct, loses no *)
(* wake-up, and its safety part implements TaskExecutor.                    *)
(***************************************************************************)
EXTENDS EventLoop, SequenceTheorems, TLAPS

-----------------------------------------------------------------------------
(* Sequences and their elements.                                            *)

\* Pushing a task on a queue,
LEMMA PushBack ==
    ASSUME NEW S, NEW q \in Seq(S), NEW t \in S
    PROVE  /\ Append(q, t) \in Seq(S)
           /\ Elements(Append(q, t)) = Elements(q) \cup {t}
<1>1. /\ Append(q, t) \in Seq(S)
      /\ DOMAIN q = 1..Len(q) /\ Len(q) \in Nat
      /\ DOMAIN Append(q, t) = 1..(Len(q) + 1)
      /\ \A i \in 1..Len(q) : Append(q, t)[i] = q[i]
      /\ Append(q, t)[Len(q) + 1] = t
  OBVIOUS
<1> QED
  BY <1>1 DEF Elements

\* and popping it from one.
LEMMA PopFront ==
    ASSUME NEW S, NEW q \in Seq(S), q # <<>>
    PROVE  /\ Head(q) \in S /\ Tail(q) \in Seq(S)
           /\ Head(q) = q[1] /\ 1 \in DOMAIN q
           /\ DOMAIN q = 1..Len(q) /\ Len(q) \in Nat
           /\ DOMAIN Tail(q) = 1..(Len(q) - 1)
           /\ \A i \in 1..(Len(q) - 1) : Tail(q)[i] = q[i + 1]
OBVIOUS

\* Pushing a new task on the stack.
LEMMA PushFront ==
    ASSUME NEW S, NEW q \in Seq(S), NEW t \in S
    PROVE  /\ <<t>> \o q \in Seq(S)
           /\ DOMAIN q = 1..Len(q) /\ Len(q) \in Nat
           /\ DOMAIN (<<t>> \o q) = 1..(Len(q) + 1)
           /\ (<<t>> \o q)[1] = t
           /\ \A i \in 2..(Len(q) + 1) : (<<t>> \o q)[i] = q[i - 1]
           /\ Elements(<<t>> \o q) = Elements(q) \cup {t}
<1> DEFINE r == <<t>> \o q
<1>1. /\ r \in Seq(S) /\ Len(r) = Len(q) + 1 /\ Len(q) \in Nat
      /\ DOMAIN q = 1..Len(q) /\ DOMAIN r = 1..(Len(q) + 1)
      /\ r[1] = t
      /\ \A i \in 2..(Len(q) + 1) : r[i] = q[i - 1]
  OBVIOUS
<1> HIDE DEF r
<1>2. Elements(r) = Elements(q) \cup {t}
  <2>1. Elements(r) \subseteq Elements(q) \cup {t}
    <3> SUFFICES ASSUME NEW i \in DOMAIN r PROVE r[i] = t \/ r[i] \in Elements(q)
      BY DEF Elements
    <3>1. i = 1 \/ (i \in 2..(Len(q) + 1) /\ i - 1 \in DOMAIN q)
      BY <1>1
    <3> QED
      BY <1>1, <3>1 DEF Elements
  <2>2. \A i \in DOMAIN q : q[i] = r[i + 1] /\ i + 1 \in DOMAIN r
    BY <1>1
  <2>3. 1 \in DOMAIN r
    BY <1>1
  <2> QED
    BY <1>1, <2>1, <2>2, <2>3 DEF Elements
<1> QED
  BY <1>1, <1>2 DEF r

\* An empty queue holds no task.
LEMMA EmptyElements == Elements(<<>>) = {}
BY DEF Elements

-----------------------------------------------------------------------------
\* A task is on the stack only where user code runs, and once.
StackOK ==
    /\ stack # <<>> => pc \in {"out", "run"} \/ handler
    /\ \A i, j \in DOMAIN stack : stack[i] = stack[j] => i = j

Inv == TypeOK /\ StackOK

\* The constructor establishes the invariant.
LEMMA InvInit == Init => Inv
<1> SUFFICES ASSUME Init PROVE Inv
  OBVIOUS
<1>1. <<>> \in Seq(Task) /\ DOMAIN <<>> = {}
  OBVIOUS
<1>2. TypeOK
  BY <1>1 DEF Init, TypeOK, LoopState, Channel
<1>3. StackOK
  BY <1>1 DEF Init, StackOK
<1> QED
  BY <1>2, <1>3 DEF Inv

\* Every step keeps it.
LEMMA InvStep == Inv /\ [Next]_vars => Inv'
<1> SUFFICES ASSUME Inv, [Next]_vars PROVE Inv'
  OBVIOUS
<1> USE DEF Inv, TypeOK, StackOK, LoopState, Channel
<1>1. ASSUME NEW t \in Fresh, QueueInLoop(t) PROVE Inv'
  <2>1. t \in Task /\ Append(task_, t) \in Seq(Task)
    BY DEF Fresh
  <2> QED
    BY <1>1, <2>1 DEF QueueInLoop
<1>2. ASSUME NEW t \in Fresh, RunInLoop(t) PROVE Inv'
  <2>1. t \in Task /\ t \notin Elements(stack)
    BY DEF Fresh
  <2>2. stack' \in Seq(Task) /\ \A i, j \in DOMAIN stack' : stack'[i] = stack'[j] => i = j
    <3> DEFINE r == <<t>> \o stack
    <3>1. /\ r \in Seq(Task) /\ Len(stack) \in Nat
          /\ DOMAIN stack = 1..Len(stack)
          /\ DOMAIN r = 1..(Len(stack) + 1)
          /\ r[1] = t
          /\ \A i \in 2..(Len(stack) + 1) : r[i] = stack[i - 1]
      BY <2>1, PushFront
    <3>2. stack' = r
      BY <1>2 DEF RunInLoop
    <3> HIDE DEF r
    <3>3. ASSUME NEW i \in DOMAIN r, NEW j \in DOMAIN r, r[i] = r[j] PROVE i = j
      <4>1. ASSUME NEW k \in 2..(Len(stack) + 1)
            PROVE  r[k] # t /\ k - 1 \in DOMAIN stack
        <5>1. k - 1 \in DOMAIN stack
          BY <3>1
        <5> QED
          BY <2>1, <3>1, <5>1 DEF Elements
      <4>2. CASE i = 1 \/ j = 1
        BY <3>1, <3>3, <4>1, <4>2
      <4>3. CASE i # 1 /\ j # 1
        <5>1. i - 1 \in DOMAIN stack /\ j - 1 \in DOMAIN stack
          BY <3>1, <4>1, <4>3
        <5>2. stack[i - 1] = stack[j - 1]
          BY <3>1, <3>3, <4>3
        <5>3. i - 1 = j - 1
          BY <5>1, <5>2
        <5> QED
          BY <3>1, <5>3
      <4> QED
        BY <4>2, <4>3
    <3> QED
      BY <3>1, <3>2, <3>3
  <2>3. UserCode /\ UNCHANGED <<task_, doing_task_, loop_, quit_, wakeup_fd_, pc, active,
                                handler, batch, cpc, early>>
    BY <1>2 DEF RunInLoop
  <2>4. pc \in {"out", "run"} \/ handler
    BY <2>3 DEF UserCode
  <2> QED
    BY <2>2, <2>3, <2>4
<1>3. CASE Quit
  BY <1>3 DEF Quit
<1>4. ASSUME NEW c \in Client, NEW t \in Fresh, ClientQueue(c, t) PROVE Inv'
  <2>1. t \in Task /\ Append(task_, t) \in Seq(Task)
    BY DEF Fresh
  <2> QED
    BY <1>4, <2>1 DEF ClientQueue
<1>5. ASSUME NEW c \in Client, ClientQuit(c) PROVE Inv'
  BY <1>5 DEF ClientQuit
<1>6. ASSUME NEW c \in Client, WakeUP(c) PROVE Inv'
  BY <1>6 DEF WakeUP
<1>7. CASE Loop
  BY <1>7 DEF Loop
<1>20. CASE ResetQuit
  BY <1>20 DEF ResetQuit
<1>8. CASE TestQuit
  BY <1>8 DEF TestQuit
<1>9. ASSUME NEW ready \in SUBSET Channel, Poll(ready) PROVE Inv'
  BY <1>9 DEF Poll
<1>10. CASE PollInterrupted
  BY <1>10 DEF PollInterrupted
<1>11. CASE HandleRead
  BY <1>11 DEF HandleRead
<1>12. CASE HandleEvent
  BY <1>12 DEF HandleEvent
<1>13. CASE HandlerReturns
  BY <1>13 DEF HandlerReturns
<1>14. CASE DoPendingTask
  BY <1>14 DEF DoPendingTask
<1>15. CASE BeginTask
  <2>1. Head(batch) \in Task /\ Tail(batch) \in Seq(Task)
    BY <1>15, PopFront DEF BeginTask
  <2>2. /\ <<Head(batch)>> \in Seq(Task) /\ DOMAIN <<Head(batch)>> = {1}
    BY <2>1
  <2>3. batch # <<>> /\ pc = "run"
    BY <1>15 DEF BeginTask
  <2> QED
    BY <1>15, <2>1, <2>2, <2>3 DEF BeginTask
<1>16. CASE FinishTask
  <2>1. /\ stack # <<>> /\ stack' = Tail(stack)
        /\ UNCHANGED <<task_, doing_task_, loop_, quit_, wakeup_fd_, pc, active,
                       handler, batch, cpc, early>>
    BY <1>16 DEF FinishTask
  <2>2. /\ Tail(stack) \in Seq(Task)
        /\ DOMAIN stack = 1..Len(stack) /\ Len(stack) \in Nat
        /\ DOMAIN Tail(stack) = 1..(Len(stack) - 1)
        /\ \A i \in 1..(Len(stack) - 1) : Tail(stack)[i] = stack[i + 1]
    BY <2>1, PopFront
  <2>3. \A i, j \in DOMAIN Tail(stack) : Tail(stack)[i] = Tail(stack)[j] => i = j
    <3> SUFFICES ASSUME NEW i \in DOMAIN Tail(stack), NEW j \in DOMAIN Tail(stack),
                        Tail(stack)[i] = Tail(stack)[j]
                 PROVE  i = j
      OBVIOUS
    <3>1. /\ i + 1 \in DOMAIN stack /\ j + 1 \in DOMAIN stack
          /\ stack[i + 1] = stack[j + 1]
      BY <2>2
    <3>2. i + 1 = j + 1
      BY <3>1
    <3> QED
      BY <2>2, <3>2
  <2> QED
    BY <2>1, <2>2, <2>3
<1>17. CASE BatchDone
  BY <1>17 DEF BatchDone
<1>18. CASE Destroy
  BY <1>18 DEF Destroy
<1>19. CASE UNCHANGED vars
  BY <1>19 DEF vars
<1> QED
  BY <1>1, <1>2, <1>3, <1>4, <1>5, <1>6, <1>7, <1>8, <1>9, <1>10, <1>11, <1>12,
     <1>13, <1>14, <1>15, <1>16, <1>17, <1>18, <1>19, <1>20 DEF Next

\* The invariant holds in every reachable state.
LEMMA InvCorrect == Spec => []Inv
BY InvInit, InvStep, PTL DEF Spec

\* The control points, doing_task_, loop_ and the batch stay consistent.
THEOREM TypeCorrect == Spec => []TypeOK
<1>1. Inv => TypeOK
  BY DEF Inv
<1> QED
  BY <1>1, InvCorrect, PTL

-----------------------------------------------------------------------------
\* NoLostWakeup is about poll() only.  Its strengthening holds at each point
\* from the swap of one turn to the next poll(): between HandleRead, which
\* resets wakeup_fd_, and DoPendingTask, which empties the queue, it need not.
Woken == wakeup_fd_ \/ Waking

Covered ==
    /\ pc \in {"out", "run", "start", "test", "poll"} =>
         Elements(task_) \subseteq early \/ Woken
    /\ pc = "poll" /\ quit_ => Woken

\* Every step keeps announced work covered.
LEMMA CoveredStep == Inv /\ Covered /\ [Next]_vars => Covered'
<1> SUFFICES ASSUME Inv, Covered, [Next]_vars PROVE Covered'
  OBVIOUS
<1> USE DEF Covered, Woken
<1>a. ASSUME UNCHANGED <<task_, early, cpc>>, wakeup_fd_ => wakeup_fd_',
             pc' \notin {"handle", "dead"} =>
                 pc \in {"out", "run", "start", "test", "poll"},
             pc' = "poll" /\ quit_' => Woken'
      PROVE  Covered'
  BY <1>a DEF Waking
<1>1. ASSUME NEW t \in Fresh, QueueInLoop(t) PROVE Covered'
  <2>1. t \in Task /\ Elements(task_') = Elements(task_) \cup {t}
    BY <1>1, PushBack DEF Fresh, QueueInLoop, Inv, TypeOK
  <2>2. UserCode /\ pc' = pc /\ quit_' = quit_ /\ cpc' = cpc
        /\ wakeup_fd_' = (wakeup_fd_ \/ doing_task_)
        /\ early' = IF pc = "out" THEN early \cup {t} ELSE early
    BY <1>1 DEF QueueInLoop
  <2>3. Woken => Woken'
    BY <2>2 DEF Waking
  <2>4. CASE pc = "out"
    BY <2>1, <2>2, <2>3, <2>4
  <2>5. CASE pc = "run"
    BY <2>2, <2>5 DEF Inv, TypeOK
  <2>6. CASE pc \notin {"out", "run"}
    <3>1. pc = "handle"
      BY <2>2, <2>6 DEF UserCode, Inv, TypeOK, StackOK
    <3> QED
      BY <2>2, <3>1
  <2> QED
    BY <2>4, <2>5, <2>6
<1>2. ASSUME NEW t \in Fresh, RunInLoop(t) PROVE Covered'
  BY <1>2, <1>a DEF RunInLoop, Waking
<1>3. CASE Quit
  BY <1>3 DEF Quit
<1>4. ASSUME NEW c \in Client, NEW t \in Fresh, ClientQueue(c, t) PROVE Covered'
  <2>1. cpc'[c] = "wake"
    BY <1>4 DEF ClientQueue, Inv, TypeOK
  <2> QED
    BY <2>1 DEF Waking
<1>5. ASSUME NEW c \in Client, ClientQuit(c) PROVE Covered'
  <2>1. cpc'[c] = "wake"
    BY <1>5 DEF ClientQuit, Inv, TypeOK
  <2> QED
    BY <2>1 DEF Waking
<1>6. ASSUME NEW c \in Client, WakeUP(c) PROVE Covered'
  BY <1>6 DEF WakeUP
<1>7. CASE Loop
  BY <1>7, <1>a DEF Loop
<1>20. CASE ResetQuit
  BY <1>20, <1>a DEF ResetQuit
<1>8. CASE TestQuit
  BY <1>8, <1>a DEF TestQuit
<1>9. ASSUME NEW ready \in SUBSET Channel, Poll(ready) PROVE Covered'
  BY <1>9 DEF Poll
<1>10. CASE PollInterrupted
  BY <1>10 DEF PollInterrupted
<1>11. CASE HandleRead
  BY <1>11 DEF HandleRead
<1>12. CASE HandleEvent
  BY <1>12 DEF HandleEvent
<1>13. CASE HandlerReturns
  BY <1>13 DEF HandlerReturns, Inv, TypeOK
<1>14. CASE DoPendingTask
  BY <1>14, EmptyElements DEF DoPendingTask
<1>15. CASE BeginTask
  BY <1>15, <1>a DEF BeginTask
<1>16. CASE FinishTask
  BY <1>16, <1>a DEF FinishTask, Waking
<1>17. CASE BatchDone
  BY <1>17, <1>a DEF BatchDone
<1>18. CASE Destroy
  BY <1>18 DEF Destroy
<1>19. CASE UNCHANGED vars
  BY <1>19 DEF vars, Waking
<1> QED
  BY <1>1, <1>2, <1>3, <1>4, <1>5, <1>6, <1>7, <1>8, <1>9, <1>10, <1>11, <1>12,
     <1>13, <1>14, <1>15, <1>16, <1>17, <1>18, <1>19, <1>20 DEF Next

\* The loop never blocks in poll(), whose wait has no time-out, while a task or
\* a Quit() another thread handed it, or its own batch queued, is unserved.
THEOREM NoLostWakeupCorrect == Spec => []NoLostWakeup
<1>1. Init => Covered
  BY EmptyElements DEF Init, Covered
<1>2. Covered => NoLostWakeup
  BY DEF Covered, Woken, NoLostWakeup
<1> QED
  BY <1>1, <1>2, InvCorrect, CoveredStep, PTL DEF Spec
-----------------------------------------------------------------------------
(* The refinement: pending is batch \o task_.                               *)

\* The tasks of the batch and of the queue.
LEMMA ConcatElements ==
    ASSUME NEW S, NEW b \in Seq(S), NEW q \in Seq(S)
    PROVE  Elements(b \o q) = Elements(b) \cup Elements(q)
<1> DEFINE r == b \o q
<1>1. /\ DOMAIN b = 1..Len(b) /\ Len(b) \in Nat
      /\ DOMAIN q = 1..Len(q) /\ Len(q) \in Nat
      /\ DOMAIN r = 1..(Len(b) + Len(q))
      /\ \A i \in 1..(Len(b) + Len(q)) :
             r[i] = IF i <= Len(b) THEN b[i] ELSE q[i - Len(b)]
  BY ConcatProperties
<1> HIDE DEF r
<1>2. ASSUME NEW i \in DOMAIN r PROVE r[i] \in Elements(b) \cup Elements(q)
  <2>1. CASE i <= Len(b)
    BY <1>1, <2>1 DEF Elements
  <2>2. CASE ~(i <= Len(b))
    <3>1. i - Len(b) \in DOMAIN q /\ r[i] = q[i - Len(b)]
      BY <1>1, <2>2
    <3> QED
      BY <3>1 DEF Elements
  <2> QED
    BY <2>1, <2>2
<1>3. ASSUME NEW i \in DOMAIN b PROVE b[i] \in Elements(r)
  <2>1. i \in DOMAIN r /\ r[i] = b[i]
    BY <1>1
  <2> QED
    BY <2>1 DEF Elements
<1>4. ASSUME NEW i \in DOMAIN q PROVE q[i] \in Elements(r)
  <2>1. i + Len(b) \in DOMAIN r /\ r[i + Len(b)] = q[i]
    BY <1>1
  <2> QED
    BY <2>1 DEF Elements
<1>5. Elements(r) \subseteq Elements(b) \cup Elements(q)
  BY <1>2 DEF Elements
<1>6. Elements(b) \subseteq Elements(r)
  BY <1>3 DEF Elements
<1>7. Elements(q) \subseteq Elements(r)
  BY <1>4 DEF Elements
<1> QED
  BY <1>5, <1>6, <1>7 DEF r

\* Pushing on the queue pushes on batch and queue together,
LEMMA ConcatAppend ==
    ASSUME NEW S, NEW b \in Seq(S), NEW q \in Seq(S), NEW t \in S
    PROVE  b \o Append(q, t) = Append(b \o q, t)
<1>1. /\ Append(q, t) = q \o <<t>>
      /\ b \o q \in Seq(S)
      /\ Append(b \o q, t) = (b \o q) \o <<t>>
  BY AppendIsConcat, ConcatProperties
<1>2. <<t>> \in Seq(S)
  OBVIOUS
<1> QED
  BY <1>1, <1>2, ConcatAssociative

\* and popping the batch pops them.
LEMMA ConcatPop ==
    ASSUME NEW S, NEW b \in Seq(S), NEW q \in Seq(S), b # <<>>
    PROVE  /\ b \o q # <<>>
           /\ Head(b \o q) = Head(b)
           /\ Tail(b \o q) = Tail(b) \o q
<1> DEFINE r == b \o q
           u == Tail(r)
           v == Tail(b) \o q
<1>1. /\ r \in Seq(S) /\ Len(r) = Len(b) + Len(q)
      /\ \A i \in 1..(Len(b) + Len(q)) :
             r[i] = IF i <= Len(b) THEN b[i] ELSE q[i - Len(b)]
  BY ConcatProperties
<1>2. Len(b) \in Nat \ {0} /\ Len(q) \in Nat
  OBVIOUS
<1> HIDE DEF r
<1>3. r # <<>> /\ Head(r) = Head(b)
  BY <1>1, <1>2
<1>4. /\ u \in Seq(S) /\ Len(u) = Len(r) - 1
      /\ \A i \in 1..(Len(r) - 1) : u[i] = r[i + 1]
  BY <1>1, <1>3, HeadTailProperties
<1>5. /\ Tail(b) \in Seq(S) /\ Len(Tail(b)) = Len(b) - 1
      /\ \A i \in 1..(Len(b) - 1) : Tail(b)[i] = b[i + 1]
  BY HeadTailProperties
<1>6. /\ v \in Seq(S) /\ Len(v) = Len(b) - 1 + Len(q)
      /\ \A i \in 1..(Len(b) - 1 + Len(q)) :
             v[i] = IF i <= Len(b) - 1 THEN Tail(b)[i] ELSE q[i - (Len(b) - 1)]
  BY <1>5, ConcatProperties
<1> HIDE DEF u, v
<1>7. ASSUME NEW i \in 1..Len(u) PROVE u[i] = v[i]
  <2>1. u[i] = r[i + 1] /\ i + 1 \in 1..(Len(b) + Len(q))
    BY <1>1, <1>2, <1>4
  <2>2. CASE i <= Len(b) - 1
    BY <1>1, <1>2, <1>4, <1>5, <1>6, <2>1, <2>2
  <2>3. CASE ~(i <= Len(b) - 1)
    <3>1. /\ i \in 1..(Len(b) - 1 + Len(q)) /\ ~(i + 1 <= Len(b))
          /\ i - (Len(b) - 1) = (i + 1) - Len(b)
      BY <1>1, <1>2, <1>4, <2>3
    <3>2. r[i + 1] = q[(i + 1) - Len(b)]
      BY <1>1, <2>1, <3>1
    <3>3. v[i] = q[i - (Len(b) - 1)]
      BY <1>6, <2>3, <3>1
    <3> QED
      BY <2>1, <3>1, <3>2, <3>3
  <2> QED
    BY <2>2, <2>3
<1>8. u = v
  <2>1. Len(u) = Len(v)
    BY <1>1, <1>2, <1>4, <1>6
  <2> QED
    BY <1>4, <1>6, <1>7, <2>1, SeqEqual
<1> QED
  BY <1>3, <1>8 DEF r, u, v

\* A new loop is an empty executor.
LEMMA RefinesInit == Init => Executor!Init
<1> SUFFICES ASSUME Init PROVE Executor!Init
  OBVIOUS
<1>1. batch \o task_ = <<>> /\ Elements(stack) = {} /\ pc # "dead"
  BY EmptyElements DEF Init
<1> QED
  BY <1>1 DEF Executor!Init

\* Every step of the loop is a step of the executor or leaves it as it is.
LEMMA RefinesStep == Inv /\ [Next]_vars => [Executor!Next]_(Executor!vars)
<1> SUFFICES ASSUME Inv, [Next]_vars PROVE [Executor!Next]_(Executor!vars)
  OBVIOUS
<1>0. /\ batch \in Seq(Task) /\ task_ \in Seq(Task) /\ stack \in Seq(Task)
      /\ Executor!Waiting = Elements(batch) \cup Elements(task_)
      /\ (stack # <<>> \/ handler \/ pc = "out" => pc # "dead")
  <2>1. batch \in Seq(Task) /\ task_ \in Seq(Task) /\ stack \in Seq(Task)
    BY DEF Inv, TypeOK
  <2>2. Executor!Waiting = Elements(batch \o task_)
    BY DEF Executor!Waiting, Elements
  <2> QED
    BY <2>1, <2>2, ConcatElements DEF Inv, TypeOK, StackOK
\* A step that only moves the loop or a client stutters.
<1>a. ASSUME UNCHANGED <<batch, task_, stack>>, (pc = "dead") <=> (pc' = "dead")
      PROVE  UNCHANGED Executor!vars
  BY <1>a DEF Executor!vars, Elements
\* Handing in a task, from any thread, is Submit.
<1>b. ASSUME NEW t \in Fresh, pc # "dead", task_' = Append(task_, t),
             UNCHANGED <<batch, stack, pc>>
      PROVE  Executor!Next
  <2>1. t \in Task /\ t \notin Executor!Waiting \cup Elements(stack)
    BY <1>0 DEF Fresh
  <2>2. batch' \o task_' = Append(batch \o task_, t)
    BY <1>0, <1>b, <2>1, ConcatAppend
  <2>3. Elements(stack') = Elements(stack) /\ (pc' = "dead" <=> pc = "dead")
    BY <1>b
  <2>4. Executor!Submit(t)
    BY <2>1, <2>2, <2>3 DEF Executor!Submit, Elements
  <2> QED
    BY <1>b, <2>1, <2>4 DEF Executor!Next
<1>1. ASSUME NEW t \in Fresh, QueueInLoop(t) PROVE Executor!Next
  BY <1>1, <1>0, <1>b DEF QueueInLoop, UserCode
<1>2. ASSUME NEW t \in Fresh, RunInLoop(t) PROVE Executor!Next
  <2>1. t \in Task /\ t \notin Executor!Waiting \cup Elements(stack)
    BY <1>0 DEF Fresh
  <2>2. Elements(stack') = Elements(stack) \cup {t}
    BY <1>0, <1>2, <2>1, PushFront DEF RunInLoop
  <2>3. UserCode /\ UNCHANGED <<batch, task_, pc>>
    BY <1>2 DEF RunInLoop
  <2>4. Executor!RunInline(t)
    BY <2>1, <2>2, <2>3 DEF Executor!RunInline, Elements
  <2> QED
    BY <1>0, <2>1, <2>3, <2>4 DEF Executor!Next, UserCode
<1>3. CASE Quit
  BY <1>3, <1>a DEF Quit
<1>4. ASSUME NEW c \in Client, NEW t \in Fresh, ClientQueue(c, t) PROVE Executor!Next
  BY <1>4, <1>b DEF ClientQueue
<1>5. ASSUME NEW c \in Client, ClientQuit(c) PROVE UNCHANGED Executor!vars
  BY <1>5, <1>a DEF ClientQuit
<1>6. ASSUME NEW c \in Client, WakeUP(c) PROVE UNCHANGED Executor!vars
  BY <1>6, <1>a DEF WakeUP
<1>7. CASE Loop
  BY <1>7, <1>a DEF Loop
<1>20. CASE ResetQuit
  BY <1>20, <1>a DEF ResetQuit
<1>8. CASE TestQuit
  BY <1>8, <1>a DEF TestQuit
<1>9. ASSUME NEW ready \in SUBSET Channel, Poll(ready) PROVE UNCHANGED Executor!vars
  BY <1>9, <1>a DEF Poll
<1>10. CASE PollInterrupted
  BY <1>10, <1>a DEF PollInterrupted
<1>11. CASE HandleRead
  BY <1>11, <1>a DEF HandleRead
<1>12. CASE HandleEvent
  BY <1>12, <1>a DEF HandleEvent
<1>13. CASE HandlerReturns
  BY <1>13, <1>a DEF HandlerReturns
\* The swap moves the queue to the batch, which is empty then.
<1>14. CASE DoPendingTask
  <2>1. /\ pc = "handle" /\ pc' = "run"
        /\ batch' = task_ /\ task_' = <<>> /\ stack' = stack
    BY <1>14 DEF DoPendingTask
  <2>2. batch = <<>>
    BY <2>1 DEF Inv, TypeOK
  <2>3. batch' \o task_' = batch \o task_
    BY <1>0, <2>1, <2>2, ConcatEmptySeq
  <2> QED
    BY <2>1, <2>3 DEF Executor!vars, Elements
<1>15. CASE BeginTask
  <2>1. /\ pc = "run" /\ pc' = pc /\ stack = <<>> /\ batch # <<>>
        /\ stack' = <<Head(batch)>> /\ batch' = Tail(batch) /\ task_' = task_
    BY <1>15 DEF BeginTask
  <2>2. Elements(stack) = {} /\ Elements(stack') = {Head(batch)}
    BY <2>1 DEF Elements
  <2>3. /\ batch \o task_ # <<>>
        /\ Head(batch \o task_) = Head(batch)
        /\ Tail(batch \o task_) = batch' \o task_'
    BY <1>0, <2>1, ConcatPop
  <2>4. Executor!Begin
    BY <2>1, <2>2, <2>3 DEF Executor!Begin
  <2> QED
    BY <2>1, <2>4 DEF Executor!Next
<1>16. CASE FinishTask
  <2>1. /\ stack # <<>> /\ stack' = Tail(stack)
        /\ UNCHANGED <<batch, task_, pc>>
    BY <1>16 DEF FinishTask
  <2>2. /\ Head(stack) \in Task /\ Head(stack) = stack[1] /\ 1 \in DOMAIN stack
        /\ DOMAIN stack = 1..Len(stack) /\ Len(stack) \in Nat
        /\ DOMAIN stack' = 1..(Len(stack) - 1)
        /\ \A i \in 1..(Len(stack) - 1) : stack'[i] = stack[i + 1]
    BY <1>0, <2>1, PopFront
  <2>3. Elements(stack') = Elements(stack) \ {Head(stack)}
    <3>1. ASSUME NEW i \in DOMAIN stack'
          PROVE  stack'[i] \in Elements(stack) /\ stack'[i] # Head(stack)
      <4>1. i + 1 \in DOMAIN stack /\ i + 1 # 1 /\ stack'[i] = stack[i + 1]
        BY <2>2
      <4> QED
        BY <2>2, <4>1 DEF Elements, Inv, StackOK
    <3>2. ASSUME NEW i \in DOMAIN stack, stack[i] # Head(stack)
          PROVE  stack[i] \in Elements(stack')
      <4>1. i - 1 \in DOMAIN stack' /\ stack'[i - 1] = stack[i]
        BY <2>2, <3>2
      <4> QED
        BY <4>1 DEF Elements
    <3> QED
      BY <3>1, <3>2 DEF Elements
  <2>4. Head(stack) \in Elements(stack)
    BY <2>2 DEF Elements
  <2>5. Executor!Finish(Head(stack))
    BY <2>1, <2>3, <2>4 DEF Executor!Finish
  <2> QED
    BY <1>0, <2>1, <2>2, <2>5 DEF Executor!Next
<1>17. CASE BatchDone
  BY <1>17, <1>a DEF BatchDone
<1>18. CASE Destroy
  <2>1. /\ pc = "out" /\ pc' = "dead" /\ stack = <<>>
        /\ UNCHANGED <<batch, task_, stack>>
    BY <1>18 DEF Destroy
  <2>2. Executor!Close
    BY <2>1, EmptyElements DEF Executor!Close
  <2> QED
    BY <2>1, <2>2 DEF Executor!Next
<1>19. CASE UNCHANGED vars
  BY <1>19, <1>a DEF vars
<1> QED
  BY <1>1, <1>2, <1>3, <1>4, <1>5, <1>6, <1>7, <1>8, <1>9, <1>10, <1>11, <1>12,
     <1>13, <1>14, <1>15, <1>16, <1>17, <1>18, <1>19, <1>20 DEF Next

\* The loop implements the abstract executor: queued tasks begin in the order of
\* their submission, once each, and none begins or is cut off by ~EventLoop.
THEOREM ImplementsExecutorCorrect == Spec => ImplementsExecutor
BY RefinesInit, RefinesStep, InvCorrect, PTL
   DEF Spec, ImplementsExecutor, Executor!Spec
=============================================================================
