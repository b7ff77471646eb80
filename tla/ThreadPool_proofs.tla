-------------------------- MODULE ThreadPool_proofs --------------------------
(***************************************************************************)
(* For any number of workers, clients and tasks: ThreadPool is type correct, *)
(* notEmpty_ loses no wake-up and the pool implements TaskExecutor.  A      *)
(* cardinality changes by one thread at a time, so the first lemmas count   *)
(* what moving one thread does to the set of threads at a step; the         *)
(* refinement follows a task from place to place.                           *)
(***************************************************************************)
EXTENDS ThreadPool, FiniteSetTheorems, TLAPS

\* There are finitely many threads.
LEMMA ActorFinite == IsFiniteSet(Actor)
BY WorkerAssumption, ClientAssumption, FS_Union DEF Actor

\* So the threads at one step can be counted.
LEMMA InFinite ==
    ASSUME NEW f, NEW s
    PROVE  IsFiniteSet(In(f, s)) /\ Cardinality(In(f, s)) \in Nat
<1>1. In(f, s) \in SUBSET Actor
  BY DEF In
<1> QED
  BY <1>1, ActorFinite, FS_Subset, FS_CardinalityType

\* Moving thread a to s adds one thread at s.
LEMMA MoveIn ==
    ASSUME NEW S, NEW f \in [Actor -> S], NEW a \in Actor, NEW s, f[a] # s
    PROVE  Cardinality(In([f EXCEPT ![a] = s], s)) = Cardinality(In(f, s)) + 1
<1>1. In([f EXCEPT ![a] = s], s) = In(f, s) \cup {a}
  BY DEF In
<1>2. a \notin In(f, s)
  BY DEF In
<1> QED
  BY <1>1, <1>2, InFinite, FS_AddElement

\* Moving it away from s takes one from there.
LEMMA MoveOut ==
    ASSUME NEW S, NEW f \in [Actor -> S], NEW a \in Actor, NEW s, f[a] = s,
           NEW r, r # s
    PROVE  Cardinality(In([f EXCEPT ![a] = r], s)) = Cardinality(In(f, s)) - 1
<1>1. In([f EXCEPT ![a] = r], s) = In(f, s) \ {a}
  BY DEF In
<1>2. a \in In(f, s)
  BY DEF In
<1>3. IsFiniteSet(In(f, s))
  BY InFinite
<1>4. Cardinality(In(f, s) \ {a}) = Cardinality(In(f, s)) - 1
  <2>. DEFINE A == In(f, s)
  <2>. HIDE DEF A
  <2>1. Cardinality(A \ {a}) = IF a \in A THEN Cardinality(A) - 1 ELSE Cardinality(A)
    BY <1>3, FS_RemoveElement DEF A
  <2>. QED
    BY <1>2, <2>1 DEF A
<1> QED
  BY <1>1, <1>4

\* Moving it between other places leaves s as it is.
LEMMA MoveAround ==
    ASSUME NEW S, NEW f \in [Actor -> S], NEW a \in Actor, NEW s, f[a] # s,
           NEW r, r # s
    PROVE  In([f EXCEPT ![a] = r], s) = In(f, s)
BY DEF In

\* A signal either finds nobody asleep, or moves one sleeper to `awake`; no
\* other place changes.
LEMMA SignalMoves ==
    ASSUME NEW S, NEW f \in [Actor -> S], NEW x, NEW y, x # y,
           NEW g \in Signal(f, x, y)
    PROVE  /\ \/ In(g, x) = {} /\ g = f
              \/ /\ In(f, x) # {}
                 /\ Cardinality(In(g, y)) = Cardinality(In(f, y)) + 1
<1>1. CASE In(f, x) = {}
  BY <1>1 DEF Signal
<1>2. CASE In(f, x) # {}
  <2>1. PICK a \in In(f, x) : g = [f EXCEPT ![a] = y]
    BY <1>2 DEF Signal
  <2>2. a \in Actor /\ f[a] = x
    BY <2>1 DEF In
  <2>3. Cardinality(In(g, y)) = Cardinality(In(f, y)) + 1
    BY <2>1, <2>2, MoveIn
  <2> QED
    BY <1>2, <2>3
<1> QED
  BY <1>1, <1>2

\* What a signal on notEmpty_ does to the two places the invariant counts.
LEMMA WakeWorker ==
    ASSUME NEW S, NEW f \in [Actor -> S], NEW g \in notEmpty_notify(f)
    PROVE  \/ In(g, "wait") = {}
           \/ /\ In(f, "wait") # {}
              /\ Cardinality(In(g, "take")) = Cardinality(In(f, "take")) + 1
<1>1. g \in Signal(f, "wait", "take")
  BY DEF notEmpty_notify
<1> QED
  BY <1>1, SignalMoves

-----------------------------------------------------------------------------
\* A Worker that start() has not created yet is nowhere.
NotCreated == \A w \in Worker : w \notin Created => pc[w] = "none"

PcType(f) ==
    /\ f \in [Actor -> WorkerState \cup ClientState]
    /\ \A w \in Worker : f[w] \in WorkerState
    /\ \A c \in Client : f[c] \in ClientState

\* The front and the rest of a queue that is not empty.
LEMMA HeadTail ==
    ASSUME NEW S, NEW q \in Seq(S), q # <<>>
    PROVE  /\ Head(q) \in S /\ Tail(q) \in Seq(S)
           /\ Len(q) \in Nat \ {0} /\ Len(Tail(q)) = Len(q) - 1
OBVIOUS

\* A signal keeps the control points of the two kinds of thread apart: only a
\* worker sleeps on notEmpty_.
LEMMA SignalType ==
    ASSUME NEW f, PcType(f), NEW g \in Signal(f, "wait", "take")
    PROVE  /\ PcType(g)
           /\ \A a \in Actor : g[a] # f[a] => f[a] = "wait" /\ g[a] = "take"
<1>1. CASE In(f, "wait") = {}
  BY <1>1 DEF Signal
<1>2. CASE In(f, "wait") # {}
  <2>1. PICK a \in In(f, "wait") : g = [f EXCEPT ![a] = "take"]
    BY <1>2 DEF Signal
  <2>2. a \in Actor /\ f[a] = "wait"
    BY <2>1 DEF In
  <2>3. a \notin Client
    BY <2>2 DEF PcType, ClientState
  <2> QED
    BY <2>1, <2>2, <2>3 DEF PcType, WorkerState, ClientState
<1> QED
  BY <1>1, <1>2

\* The constructor's values have their types.
LEMMA TypeInit == Init => TypeOK
<1> SUFFICES ASSUME Init PROVE TypeOK
  OBVIOUS
<1> USE ClientAssumption, TaskAssumption DEF Init, Actor
<1>1. /\ pc \in [Actor -> WorkerState \cup ClientState]
      /\ \A w \in Worker : pc[w] \in WorkerState
      /\ \A c \in Client : pc[c] \in ClientState
  BY DEF WorkerState, ClientState
<1>2. /\ \A a \in Actor : pc[a] = "submit" => arg[a] \in Task
      /\ \A a \in Actor : pc[a] = "run" => cur[a] \in Task
      /\ \A w \in Worker : pc[w] = "submit" => cur[w] \in Task
  OBVIOUS
<1>3. /\ queue_ \in Seq(Task) /\ threads_ \in Seq(Worker)
      /\ arg \in [Actor -> Task \cup {NoTask}]
      /\ cur \in [Actor -> Task \cup {NoTask}]
  OBVIOUS
<1> QED
  BY <1>1, <1>2, <1>3 DEF TypeOK, OwnerState

\* Every step keeps them.
LEMMA TypeStep == TypeOK /\ [Next]_vars => TypeOK'
<1> SUFFICES ASSUME TypeOK, [Next]_vars PROVE TypeOK'
  OBVIOUS
<1> USE ClientAssumption, TaskAssumption DEF TypeOK, WorkerState, ClientState, OwnerState, Actor, At
<1>1. ASSUME NEW c \in Client, NEW t \in Fresh, RunTaskInline(c, t) PROVE TypeOK'
  BY <1>1 DEF RunTaskInline, Fresh
<1>2. ASSUME NEW a \in Actor, NEW t \in Fresh, RunTaskCall(a, t) PROVE TypeOK'
  BY <1>2 DEF RunTaskCall, Fresh, Caller
<1>4. ASSUME NEW a \in Actor, RunTaskPush(a) PROVE TypeOK'
  <2> DEFINE f == [pc EXCEPT ![a] = Caller(a)]
  <2>1. PcType(f) /\ pc' \in Signal(f, "wait", "take")
    BY <1>4 DEF RunTaskPush, notEmpty_notify, Caller, PcType
  <2>2. /\ f[a] \in {"run", "idle"}
        /\ f[a] = "run" => cur[a] \in Task
        /\ \A b \in Actor : b # a => f[b] = pc[b]
        /\ f[a] = "run" <=> a \in Worker
    BY <1>4 DEF RunTaskPush, Caller
  <2> HIDE DEF f
  <2>3. PcType(pc') /\ \A b \in Actor : pc'[b] # f[b] => pc'[b] = "take"
    BY <2>1, SignalType
  <2>4. /\ queue_' \in Seq(Task) /\ arg' \in [Actor -> Task \cup {NoTask}]
        /\ \A b \in Actor : b # a => arg'[b] = arg[b]
        /\ UNCHANGED <<running_, threads_, cur, owner, toStart, joined>>
    BY <1>4 DEF RunTaskPush
  <2>5. \A b \in Actor : pc'[b] \in {"run", "submit"} =>
            \/ pc'[b] = pc[b] /\ b # a
            \/ b = a /\ cur[a] \in Task /\ pc'[b] = "run"
    <3> SUFFICES ASSUME NEW b \in Actor, pc'[b] \in {"run", "submit"}
                 PROVE  \/ pc'[b] = pc[b] /\ b # a
                        \/ b = a /\ cur[a] \in Task /\ pc'[b] = "run"
      OBVIOUS
    <3>1. pc'[b] = f[b]
      BY <2>3
    <3> QED
      BY <2>2, <3>1
  <2>6. \A b \in Actor : pc'[b] = "submit" => arg'[b] \in Task
    BY <2>4, <2>5
  <2>7. /\ \A b \in Actor : pc'[b] = "run" => cur[b] \in Task
        /\ \A w \in Worker : pc'[w] = "submit" => cur[w] \in Task
    BY <2>5
  <2> QED
    BY <2>3, <2>4, <2>6, <2>7 DEF PcType
<1>5. ASSUME NEW a \in Actor, FinishTask(a) PROVE TypeOK'
  BY <1>5 DEF FinishTask
<1>6. ASSUME NEW w \in Worker, SpuriousWakeup(w) PROVE TypeOK'
  BY <1>6 DEF SpuriousWakeup
<1>7. ASSUME NEW w \in Worker, ReadRunning(w) PROVE TypeOK'
  BY <1>7 DEF ReadRunning
<1>8. ASSUME NEW w \in Worker, TakeWait(w) PROVE TypeOK'
  BY <1>8 DEF TakeWait
<1>9. ASSUME NEW w \in Worker, TakeTask(w) PROVE TypeOK'
  <2>1. Head(queue_) \in Task /\ Tail(queue_) \in Seq(Task)
    BY <1>9, HeadTail DEF TakeTask
  <2> QED
    BY <1>9, <2>1 DEF TakeTask
<1>10. ASSUME NEW w \in Worker, TakeNull(w) PROVE TypeOK'
  BY <1>10 DEF TakeNull
<1>11. ASSUME NEW n \in 0..Cardinality(Worker), start(n) PROVE TypeOK'
  <2>1. n \in Nat
    BY <1>11, WorkerAssumption, FS_CardinalityType
  <2> QED
    BY <1>11, <2>1 DEF start
<1>12. ASSUME NEW w \in Worker, NEW created \in BOOLEAN, StartThread(w, created)
       PROVE  TypeOK'
  <2>1. threads_' \in Seq(Worker)
    BY <1>12 DEF StartThread
  <2>2. toStart' \in Nat /\ (owner' = "starting" => toStart' > 0)
    BY <1>12 DEF StartThread
  <2>3. PcType(pc') /\ \A a \in Actor : pc'[a] # pc[a] => pc'[a] = "loop"
    BY <1>12 DEF StartThread, PcType
  <2> QED
    BY <1>12, <2>1, <2>2, <2>3 DEF StartThread, PcType
<1>13. CASE Destroy
  <2>1. pc' \in notEmpty_notifyAll(pc) \/ pc' = pc
    BY <1>13 DEF Destroy
  <2>2. PcType(pc') /\ \A a \in Actor : pc'[a] # pc[a] => pc'[a] = "take"
    BY <2>1 DEF notEmpty_notifyAll, PcType
  <2> QED
    BY <1>13, <2>2 DEF Destroy, PcType
<1>14. CASE Join
  BY <1>14 DEF Join
<1>15. CASE StopReturns
  BY <1>15 DEF StopReturns
<1>16. CASE UNCHANGED vars
  BY <1>16 DEF vars
<1> QED
  BY <1>1, <1>2, <1>4, <1>5, <1>6, <1>7, <1>8, <1>9, <1>10, <1>11, <1>12,
     <1>13, <1>14, <1>15, <1>16 DEF Next

\* Only start() creates a thread, and puts it in threads_ with the same step.
LEMMA CreatedOnce == TypeOK /\ NotCreated /\ [Next]_vars => NotCreated'
<1> SUFFICES ASSUME TypeOK, NotCreated, [Next]_vars, NEW v \in Worker, v \notin Created'
             PROVE  pc'[v] = "none"
  BY DEF NotCreated
<1>1. v \notin Created => pc[v] = "none"
  BY DEF NotCreated
<1>2. CASE threads_' = threads_ /\ \A a \in Actor : pc'[a] # pc[a] => pc[a] # "none"
  BY <1>1, <1>2 DEF Created, Actor
<1>3. ASSUME NEW w \in Worker, NEW created \in BOOLEAN, StartThread(w, created)
      PROVE  pc'[v] = "none"
  <2>1. v \notin Created /\ v # w
    <3>1. /\ threads_ \in Seq(Worker) /\ threads_' = Append(threads_, w)
          /\ v \notin {threads_'[i] : i \in DOMAIN threads_'}
      BY <1>3 DEF StartThread, Created, TypeOK
    <3>2. /\ DOMAIN threads_' = 1..(Len(threads_) + 1)
          /\ DOMAIN threads_ = 1..Len(threads_) /\ Len(threads_) \in Nat
          /\ threads_'[Len(threads_) + 1] = w
          /\ \A i \in 1..Len(threads_) : threads_'[i] = threads_[i]
      BY <3>1
    <3> QED
      BY <3>1, <3>2 DEF Created
  <2> QED
    BY <1>1, <1>3, <2>1 DEF StartThread, TypeOK
<1>4. ASSUME NEW a \in Actor, RunTaskPush(a) PROVE pc'[v] = "none"
  <2> DEFINE f == [pc EXCEPT ![a] = Caller(a)]
  <2>1. PcType(f) /\ pc' \in Signal(f, "wait", "take")
    BY <1>4 DEF RunTaskPush, notEmpty_notify, Caller, PcType, TypeOK, Actor,
               WorkerState, ClientState
  <2>2. f[v] = "none"
    BY <1>1, <1>4 DEF RunTaskPush, At, TypeOK, Actor, Created
  <2> HIDE DEF f
  <2> QED
    BY <2>1, <2>2, SignalType DEF Actor
<1>5. ASSUME NEW w \in Worker, TakeTask(w) PROVE pc'[v] = "none"
  BY <1>2, <1>5 DEF TakeTask, At, TypeOK, Actor
<1>6. CASE Destroy
  BY <1>2, <1>6 DEF Destroy, notEmpty_notifyAll, TypeOK
<1>7. ASSUME NEW a \in Actor, FinishTask(a) PROVE pc'[v] = "none"
  BY <1>2, <1>7 DEF FinishTask, At, TypeOK
<1>8. ASSUME NEW w \in Worker,
             ReadRunning(w) \/ TakeWait(w) \/ TakeNull(w) \/ SpuriousWakeup(w)
      PROVE  pc'[v] = "none"
  BY <1>2, <1>8 DEF ReadRunning, TakeWait, TakeNull, SpuriousWakeup, At, TypeOK, Actor
<1>9. ASSUME NEW c \in Client, NEW t \in Fresh, RunTaskInline(c, t)
      PROVE  pc'[v] = "none"
  BY <1>2, <1>9 DEF RunTaskInline, At, TypeOK, Actor
<1>10. ASSUME NEW a \in Actor, NEW t \in Fresh, RunTaskCall(a, t)
       PROVE  pc'[v] = "none"
  BY <1>2, <1>10 DEF RunTaskCall, Caller, At, TypeOK, Actor
<1>11. CASE Join \/ StopReturns \/ UNCHANGED vars \/ \E n \in 0..Cardinality(Worker) : start(n)
  BY <1>2, <1>11 DEF Join, StopReturns, vars, start
<1> QED
  BY <1>3, <1>4, <1>5, <1>6, <1>7, <1>8, <1>9, <1>10, <1>11 DEF Next

\* Every variable keeps the type its C++ declaration and the control points of
\* the threads give it.
THEOREM TypeCorrect == Spec => []TypeOK
BY TypeInit, TypeStep, PTL DEF Spec
-----------------------------------------------------------------------------
\* What the argument below needs of the types.
LEMMA Counts ==
    ASSUME TypeOK
    PROVE  /\ pc \in [Actor -> WorkerState \cup ClientState]
           /\ Len(queue_) \in Nat
           /\ Cardinality(In(pc, "take")) \in Nat
BY InFinite DEF TypeOK

\* Every step keeps each queued task and its worker together: a push adds one of
\* each, a take removes one of each.
LEMMA NoLostWakeupStep ==
    TypeOK /\ NotCreated /\ NoLostWakeup /\ [Next]_vars => NoLostWakeup'
<1> SUFFICES ASSUME TypeOK, NotCreated, NoLostWakeup, [Next]_vars PROVE NoLostWakeup'
  OBVIOUS
<1> DEFINE S == WorkerState \cup ClientState
<1>0. /\ pc \in [Actor -> S]
      /\ Len(queue_) \in Nat
      /\ Cardinality(In(pc, "take")) \in Nat
  BY Counts
<1>a. Worker \subseteq Actor /\ Client \subseteq Actor
  BY DEF Actor
\* A step that moves one thread between places other than wait and take.
<1>b. ASSUME NEW a \in Actor, NEW r, r \notin {"wait", "take"},
             pc[a] \notin {"wait", "take"},
             pc' = [pc EXCEPT ![a] = r], queue_' = queue_
      PROVE  NoLostWakeup'
  <2>1. In(pc', "wait") = In(pc, "wait") /\ In(pc', "take") = In(pc, "take")
    BY <1>0, <1>b, MoveAround
  <2> QED
    BY <1>b, <2>1 DEF NoLostWakeup, Those
\* A step that brings one thread to take.
<1>c. ASSUME NEW a \in Actor, pc[a] # "take",
             pc' = [pc EXCEPT ![a] = "take"], queue_' = queue_
      PROVE  NoLostWakeup'
  <2>1. Cardinality(In(pc', "take")) = Cardinality(In(pc, "take")) + 1
    BY <1>0, <1>c, MoveIn
  <2>2. In(pc', "wait") \subseteq In(pc, "wait")
    BY <1>0, <1>c DEF In
  <2>3. Len(queue_') = Len(queue_)
    BY <1>c
  <2> QED
    BY <1>0, <2>1, <2>2, <2>3 DEF NoLostWakeup, Those
\* A step after which the queue is empty.
<1>d. ASSUME queue_' = <<>> PROVE NoLostWakeup'
  <2>1. Len(queue_') = 0 /\ Cardinality(In(pc', "take")) \in Nat
    BY <1>d, InFinite
  <2> QED
    BY <2>1 DEF NoLostWakeup, Those
<1>1. ASSUME NEW c \in Client, NEW t \in Fresh, RunTaskInline(c, t)
      PROVE  NoLostWakeup'
  BY <1>1, <1>a, <1>b DEF RunTaskInline, At
<1>2. ASSUME NEW a \in Actor, NEW t \in Fresh, RunTaskCall(a, t)
      PROVE  NoLostWakeup'
  BY <1>2, <1>b DEF RunTaskCall, Caller, At
<1>4. ASSUME NEW a \in Actor, RunTaskPush(a) PROVE NoLostWakeup'
  <2> DEFINE f == [pc EXCEPT ![a] = Caller(a)]
  <2>1. f \in [Actor -> S] /\ pc' \in notEmpty_notify(f)
    BY <1>0, <1>4 DEF RunTaskPush, Caller, WorkerState, ClientState
  <2>2. In(f, "wait") = In(pc, "wait") /\ In(f, "take") = In(pc, "take")
    <3>1. /\ pc[a] # "wait" /\ pc[a] # "take"
          /\ Caller(a) # "wait" /\ Caller(a) # "take"
      BY <1>4 DEF RunTaskPush, Caller, At
    <3> QED
      BY <1>0, <3>1, MoveAround
  <2>3. Len(queue_') = Len(queue_) + 1
    BY <1>4 DEF RunTaskPush, TypeOK
  <2>4. \/ In(pc', "wait") = {}
        \/ /\ In(f, "wait") # {}
           /\ Cardinality(In(pc', "take")) = Cardinality(In(f, "take")) + 1
    <3> HIDE DEF f, S
    <3> QED
      BY <2>1, WakeWorker
  <2> HIDE DEF f
  <2> QED
    BY <1>0, <2>2, <2>3, <2>4 DEF NoLostWakeup, Those
<1>5. ASSUME NEW a \in Actor, FinishTask(a) PROVE NoLostWakeup'
  BY <1>5, <1>b DEF FinishTask, At
<1>6. ASSUME NEW w \in Worker, SpuriousWakeup(w) PROVE NoLostWakeup'
  BY <1>6, <1>a, <1>c DEF SpuriousWakeup, At
<1>7. ASSUME NEW w \in Worker, ReadRunning(w) PROVE NoLostWakeup'
  BY <1>7, <1>a, <1>b, <1>c DEF ReadRunning, At
<1>8. ASSUME NEW w \in Worker, TakeWait(w) PROVE NoLostWakeup'
  BY <1>8, <1>d DEF TakeWait
<1>9. ASSUME NEW w \in Worker, TakeTask(w) PROVE NoLostWakeup'
  <2>1. w \in Actor /\ pc[w] = "take" /\ pc' = [pc EXCEPT ![w] = "run"]
    BY <1>9, <1>a DEF TakeTask, At
  <2>2. In(pc', "wait") = In(pc, "wait")
    BY <1>0, <2>1, MoveAround
  <2>3. Cardinality(In(pc', "take")) = Cardinality(In(pc, "take")) - 1
    BY <1>0, <2>1, MoveOut
  <2>4. Len(queue_') = Len(queue_) - 1
    BY <1>9, HeadTail DEF TakeTask, TypeOK
  <2> QED
    BY <1>0, <2>2, <2>3, <2>4 DEF NoLostWakeup, Those
<1>10. ASSUME NEW w \in Worker, TakeNull(w) PROVE NoLostWakeup'
  BY <1>10, <1>d DEF TakeNull
<1>11. ASSUME NEW n \in 0..Cardinality(Worker), start(n) PROVE NoLostWakeup'
  BY <1>11 DEF start, NoLostWakeup, Those
<1>12. ASSUME NEW w \in Worker, NEW created \in BOOLEAN, StartThread(w, created)
       PROVE  NoLostWakeup'
  <2>1. pc[w] = "none"
    BY <1>12 DEF StartThread, NotCreated
  <2> QED
    BY <1>12, <1>a, <1>b, <2>1 DEF StartThread, NoLostWakeup, Those
<1>13. CASE Destroy
  <2>1. CASE pc' = pc
    BY <1>13, <2>1 DEF Destroy, NoLostWakeup, Those
  <2>2. CASE pc' \in notEmpty_notifyAll(pc)
    BY <2>2 DEF notEmpty_notifyAll, NoLostWakeup, Those, In
  <2> QED
    BY <1>13, <2>1, <2>2 DEF Destroy
<1>14. CASE Join
  BY <1>14 DEF Join, NoLostWakeup, Those
<1>15. CASE StopReturns
  BY <1>15 DEF StopReturns, NoLostWakeup, Those
<1>16. CASE UNCHANGED vars
  BY <1>16 DEF vars, NoLostWakeup, Those
<1> QED
  BY <1>1, <1>2, <1>4, <1>5, <1>6, <1>7, <1>8, <1>9, <1>10, <1>11, <1>12,
     <1>13, <1>14, <1>15, <1>16 DEF Next

\* Every task that is queued while a worker sleeps has a worker of its own on
\* the way to it: no interleaving of runTask(), take(), spurious wake-ups and
\* stop() loses a notEmpty_ signal, whatever the number of threads.
THEOREM NoLostWakeupCorrect == Spec => []NoLostWakeup
<1>1. Init => NoLostWakeup
  BY DEF Init, NoLostWakeup, Those, In
<1>2. Init => NotCreated
  BY DEF Init, NotCreated, Actor
<1> QED
  BY <1>1, <1>2, TypeInit, TypeStep, CreatedOnce, NoLostWakeupStep, PTL DEF Spec
-----------------------------------------------------------------------------
(* The refinement of TaskExecutor: no task is in two places, a thread holds *)
(* a task only where it can, and stop() leaves nobody behind.               *)

Entries(q) == {q[i] : i \in DOMAIN q}

NoRepeat(q) == \A i, j \in DOMAIN q : q[i] = q[j] => i = j

\* A task waits at one place of the queue, or one thread hands it over, or one
\* thread executes it.
OnePlace ==
    /\ NoRepeat(queue_)
    /\ \A a \in Actor : cur[a] \notin Queued /\ arg[a] \notin Queued
    /\ \A a, b \in Actor : arg[a] = cur[b] => arg[a] = NoTask
    /\ \A a, b \in Actor : a # b /\ arg[a] = arg[b] => arg[a] = NoTask
    /\ \A a, b \in Actor : a # b /\ cur[a] = cur[b] => cur[a] = NoTask

Holding ==
    /\ \A a \in Actor : arg[a] # NoTask => pc[a] = "submit"
    /\ \A w \in Worker : cur[w] # NoTask => pc[w] \in {"run", "submit"}
    /\ \A c \in Client : cur[c] # NoTask => pc[c] = "run"

\* How far the owner is, and what that says of the threads.
Stopped ==
    /\ owner = "starting" => running_
    /\ owner = "idle" /\ ~running_ => threads_ = <<>>
    /\ owner \in {"joining", "done"} => \A c \in Client : pc[c] = "idle"
    /\ joined <= Len(threads_)
    /\ \A i \in 1..joined : pc[threads_[i]] = "exit"
    /\ owner = "done" => \A w \in Worker : pc[w] \in {"none", "exit"}

\* What each critical section that signals does to the control points.
LEMMA PushMoves ==
    ASSUME TypeOK, NEW a \in Actor, RunTaskPush(a)
    PROVE  /\ pc[a] = "submit" /\ pc'[a] = Caller(a)
           /\ \A b \in Actor \ {a} :
                  pc'[b] = pc[b] \/ (pc[b] = "wait" /\ pc'[b] = "take")
<1> DEFINE f == [pc EXCEPT ![a] = Caller(a)]
<1>1. PcType(f) /\ pc' \in Signal(f, "wait", "take")
  BY ClientAssumption DEF RunTaskPush, notEmpty_notify, Caller, PcType, TypeOK, Actor,
     WorkerState, ClientState
<1>2. f[a] = Caller(a) /\ f[a] # "wait" /\ \A b \in Actor \ {a} : f[b] = pc[b]
  BY DEF TypeOK, Caller
<1>3. pc[a] = "submit"
  BY DEF RunTaskPush, At
<1> HIDE DEF f
<1>4. \A b \in Actor : pc'[b] # f[b] => f[b] = "wait" /\ pc'[b] = "take"
  BY <1>1, SignalType
<1> QED
  BY <1>2, <1>3, <1>4

\* take() moves its worker on.
LEMMA TakeMoves ==
    ASSUME TypeOK, NEW w \in Worker, TakeTask(w)
    PROVE  /\ pc[w] = "take" /\ pc'[w] = "run"
           /\ \A b \in Actor \ {w} : pc'[b] = pc[b]
BY DEF TakeTask, At, TypeOK, Actor

\* notifyAll wakes the sleepers on notEmpty_ and nobody else.
LEMMA DestroyMoves ==
    ASSUME TypeOK, Destroy
    PROVE  \A b \in Actor : pc'[b] = pc[b] \/ (pc[b] = "wait" /\ pc'[b] = "take")
BY DEF Destroy, notEmpty_notifyAll, TypeOK

\* A sequence without repetitions keeps none when a new element is pushed or
\* the front popped.
LEMMA Pushed ==
    ASSUME NEW S, NEW q \in Seq(S), NEW t \in S,
           NoRepeat(q),
           t \notin Entries(q), NEW r, r = Append(q, t)
    PROVE  /\ NoRepeat(r)
           /\ Entries(r) = Entries(q) \cup {t}
<1> DEFINE n == Len(q)
<1>1. /\ n \in Nat /\ DOMAIN q = 1..n /\ DOMAIN r = 1..(n + 1)
      /\ r[n + 1] = t /\ \A i \in 1..n : r[i] = q[i]
  OBVIOUS
<1>2. \A i \in 1..n : r[i] # t
  BY <1>1 DEF Entries
<1> HIDE DEF n
<1>3. \A i \in 1..(n + 1) : i \in 1..n \/ i = n + 1
  BY <1>1
<1>4. \A i \in 1..n : i \in 1..(n + 1)
  BY <1>1
<1>5. n + 1 \in 1..(n + 1)
  BY <1>1
<1>6. NoRepeat(r)
  BY <1>1, <1>2, <1>3 DEF NoRepeat
<1>7. Entries(r) = Entries(q) \cup {t}
  BY <1>1, <1>3, <1>4, <1>5 DEF Entries
<1> QED
  BY <1>6, <1>7

\* Popping the front leaves the other elements, each once.
LEMMA Popped ==
    ASSUME NEW S, NEW q \in Seq(S), q # <<>>,
           NoRepeat(q),
           NEW r, r = Tail(q)
    PROVE  /\ NoRepeat(r)
           /\ Entries(r) = Entries(q) \ {Head(q)}
           /\ Head(q) \in Entries(q)
<1> DEFINE n == Len(q)
<1>1. /\ n \in Nat /\ n > 0 /\ DOMAIN q = 1..n /\ DOMAIN r = 1..(n - 1)
      /\ Head(q) = q[1] /\ \A i \in 1..(n - 1) : r[i] = q[i + 1]
  OBVIOUS
<1> HIDE DEF n
<1>2. 1 \in 1..n /\ \A i \in 1..(n - 1) : i + 1 \in 1..n /\ i + 1 # 1
  BY <1>1
<1>3. \A i \in 1..n : i = 1 \/ (i - 1 \in 1..(n - 1) /\ (i - 1) + 1 = i)
  BY <1>1
<1>4. NoRepeat(r)
  <2>1. SUFFICES ASSUME NEW i \in 1..(n - 1), NEW j \in 1..(n - 1), r[i] = r[j]
                 PROVE  i = j
    BY <1>1 DEF NoRepeat
  <2>2. i + 1 = j + 1
    BY <1>1, <1>2, <2>1 DEF NoRepeat
  <2> QED
    BY <1>1, <2>2
<1>5. \A i \in 1..n : i # 1 => q[i] = r[i - 1]
  BY <1>1, <1>3
<1>6. Entries(r) = Entries(q) \ {Head(q)}
  <2>1. ASSUME NEW x \in Entries(r)
        PROVE  x \in Entries(q) \ {Head(q)}
    <3>1. PICK i \in 1..(n - 1) : x = r[i]
      BY <1>1, <2>1 DEF Entries
    <3>2. x = q[i + 1] /\ i + 1 \in 1..n /\ i + 1 # 1
      BY <1>1, <1>2, <3>1
    <3> QED
      BY <1>1, <1>2, <3>2 DEF Entries, NoRepeat
  <2>2. ASSUME NEW x \in Entries(q) \ {Head(q)}
        PROVE  x \in Entries(r)
    <3>1. PICK i \in 1..n : x = q[i] /\ i # 1
      BY <1>1, <2>2 DEF Entries
    <3>2. i - 1 \in 1..(n - 1) /\ x = r[i - 1]
      BY <1>3, <1>5, <3>1
    <3> QED
      BY <1>1, <3>2 DEF Entries
  <2> QED
    BY <2>1, <2>2
<1> QED
  BY <1>1, <1>2, <1>4, <1>6 DEF Entries

\* Every step: what it leaves alone of where the threads are.
LEMMA StepMoves ==
    ASSUME TypeOK, NotCreated, [Next]_vars, NEW b \in Actor, pc'[b] # pc[b]
    PROVE  /\ pc[b] # "exit"
           /\ pc[b] = "idle" => owner \in {"idle", "starting"}
           /\ pc[b] = "none" => owner = "starting"
<1> DEFINE Allowed == /\ pc[b] # "exit"
                      /\ pc[b] = "idle" => owner \in {"idle", "starting"}
                      /\ pc[b] = "none" => owner = "starting"
<1>1. ASSUME NEW c \in Client, NEW t \in Fresh, RunTaskInline(c, t) PROVE Allowed
  BY <1>1 DEF RunTaskInline, At, TypeOK
<1>2. ASSUME NEW a \in Actor, NEW t \in Fresh, RunTaskCall(a, t) PROVE Allowed
  BY <1>2 DEF RunTaskCall, Caller, At, TypeOK, Actor
<1>3. ASSUME NEW a \in Actor, RunTaskPush(a) PROVE Allowed
  BY <1>3, PushMoves
<1>4. ASSUME NEW w \in Worker, TakeTask(w) PROVE Allowed
  BY <1>4, TakeMoves
<1>5. ASSUME NEW a \in Actor, FinishTask(a) PROVE Allowed
  BY <1>5 DEF FinishTask, At, TypeOK
<1>6. ASSUME NEW w \in Worker,
             ReadRunning(w) \/ TakeWait(w) \/ TakeNull(w) \/ SpuriousWakeup(w)
      PROVE  Allowed
  BY <1>6 DEF ReadRunning, TakeWait, TakeNull, SpuriousWakeup, At, TypeOK
<1>7. ASSUME NEW w \in Worker, NEW created \in BOOLEAN, StartThread(w, created)
      PROVE  Allowed
  BY <1>7 DEF StartThread, NotCreated, TypeOK
<1>8. CASE Destroy
  BY <1>8, DestroyMoves
<1>9. CASE Join \/ StopReturns \/ UNCHANGED vars \/ \E n \in 0..Cardinality(Worker) : start(n)
  BY <1>9 DEF Join, StopReturns, vars, start
<1> QED
  BY <1>1, <1>2, <1>3, <1>4, <1>5, <1>6, <1>7, <1>8, <1>9 DEF Next

\* The threads' own steps are none of the owner's.
LEMMA ThreadSteps ==
    ASSUME \/ \E c \in Client, t \in Fresh : RunTaskInline(c, t)
           \/ \E a \in Actor, t \in Fresh : RunTaskCall(a, t)
           \/ \E a \in Actor : RunTaskPush(a) \/ FinishTask(a)
           \/ \E w \in Worker : \/ ReadRunning(w) \/ TakeWait(w) \/ TakeTask(w)
                               \/ TakeNull(w) \/ SpuriousWakeup(w)
           \/ UNCHANGED vars
    PROVE  UNCHANGED <<running_, threads_, owner, joined>>
BY DEF RunTaskInline, RunTaskCall, RunTaskPush, FinishTask, SpuriousWakeup,
       ReadRunning, TakeWait, TakeTask, TakeNull, vars

\* The workers start() has created so far stay where they are in threads_.
LEMMA Grown ==
    ASSUME TypeOK, NEW w \in Worker, NEW created \in BOOLEAN, StartThread(w, created)
    PROVE  /\ Len(threads_) \in Nat /\ Len(threads_') = Len(threads_) + 1
           /\ \A i \in 1..Len(threads_) : threads_'[i] = threads_[i]
BY DEF StartThread, TypeOK

\* threads_ as a sequence of workers.
LEMMA CreatedSeq ==
    ASSUME TypeOK
    PROVE  /\ Len(threads_) \in Nat /\ joined \in Nat
           /\ \A i \in 1..Len(threads_) : threads_[i] \in Worker
           /\ Created = {threads_[i] : i \in 1..Len(threads_)}
BY DEF TypeOK, Created

\* A joined thread stays joined, and no client comes back once stop() has begun.
LEMMA StoppedStep ==
    TypeOK /\ NotCreated /\ Stopped /\ [Next]_vars => Stopped'
<1> SUFFICES ASSUME TypeOK, NotCreated, Stopped, [Next]_vars PROVE Stopped'
  OBVIOUS
<1>a. \A b \in Actor : pc'[b] # pc[b] =>
          /\ pc[b] # "exit"
          /\ pc[b] = "idle" => owner \in {"idle", "starting"}
          /\ pc[b] = "none" => owner = "starting"
  BY StepMoves
<1>b. Worker \subseteq Actor /\ Client \subseteq Actor
  BY DEF Actor
<1>c. /\ Len(threads_) \in Nat /\ joined \in Nat
      /\ \A i \in 1..Len(threads_) : threads_[i] \in Worker
      /\ Created = {threads_[i] : i \in 1..Len(threads_)}
  BY CreatedSeq
<1>d. joined <= Len(threads_) /\ \A i \in 1..joined : pc[threads_[i]] = "exit"
  BY DEF Stopped
<1>e. \A i \in 1..joined : i \in 1..Len(threads_) /\ threads_[i] \in Actor
  BY <1>b, <1>c, <1>d
\* A thread that is joined has returned, and stays so.
<1>f. \A i \in 1..joined : pc'[threads_[i]] = "exit"
  BY <1>a, <1>d, <1>e
<1>g. CASE UNCHANGED <<running_, threads_, owner, joined>>
  BY <1>a, <1>b, <1>d, <1>f, <1>g DEF Stopped
<1>1. ASSUME NEW n \in 0..Cardinality(Worker), start(n) PROVE Stopped'
  BY <1>1, <1>d, <1>f DEF start, Stopped
<1>2. ASSUME NEW w \in Worker, NEW created \in BOOLEAN, StartThread(w, created)
      PROVE  Stopped'
  <2>1. /\ Len(threads_') = Len(threads_) + 1
        /\ \A i \in 1..Len(threads_) : threads_'[i] = threads_[i]
    BY <1>2, Grown
  <2>2. joined' = joined /\ joined' <= Len(threads_')
    BY <1>2, <1>c, <1>d, <2>1 DEF StartThread
  <2>3. \A i \in 1..joined' : pc'[threads_'[i]] = "exit"
    BY <1>e, <1>f, <2>1, <2>2
  <2>4. owner' \in {"idle", "starting"} /\ running_'
    BY <1>2 DEF StartThread, Stopped
  <2> QED
    BY <2>2, <2>3, <2>4 DEF Stopped
<1>3. CASE Destroy
  <2>1. /\ UNCHANGED <<threads_, joined>> /\ owner' \in {"joining", "done"}
        /\ \A c \in Client : pc[c] = "idle" /\ owner = "idle"
        /\ ~running_ => owner' = "done" /\ pc' = pc
        /\ running_ => owner' = "joining"
    BY <1>3 DEF Destroy
  <2>2. \A c \in Client : pc'[c] = "idle"
    BY <1>3, <1>b, <2>1, DestroyMoves
  <2>3. owner' = "done" => \A w \in Worker : pc'[w] \in {"none", "exit"}
    <3>1. owner' = "done" => threads_ = <<>> /\ pc' = pc
      BY <1>3, <2>1 DEF Stopped, Destroy
    <3>2. threads_ = <<>> => Created = {}
      BY DEF Created
    <3> QED
      BY <3>1, <3>2 DEF NotCreated
  <2> QED
    BY <1>d, <1>f, <2>1, <2>2, <2>3 DEF Stopped
<1>4. CASE Join
  <2>1. PICK w : /\ w = threads_[joined + 1] /\ joined < Len(threads_)
                 /\ \/ pc[w] = "exit" /\ joined' = joined + 1 /\ owner' = owner
                    \/ owner' = "aborted" /\ joined' = joined
                 /\ owner = "joining" /\ UNCHANGED <<running_, threads_, pc>>
    BY <1>4 DEF Join
  <2>2. joined' \in Nat /\ joined' <= Len(threads_')
    BY <1>c, <2>1
  <2>3. \A i \in 1..joined' : i \in 1..joined \/ (i = joined + 1 /\ joined' = joined + 1)
    BY <1>c, <2>1
  <2>4. \A i \in 1..joined' : pc'[threads_'[i]] = "exit"
    BY <1>d, <2>1, <2>3 DEF TypeOK, OwnerState
  <2>5. owner' \in {"joining", "aborted"} /\ \A c \in Client : pc'[c] = "idle"
    BY <2>1 DEF Stopped
  <2> QED
    BY <2>2, <2>4, <2>5 DEF Stopped
<1>5. CASE StopReturns
  <2>1. /\ owner = "joining" /\ owner' = "done" /\ joined = Len(threads_)
        /\ UNCHANGED <<running_, threads_, pc, joined>>
    BY <1>5 DEF StopReturns
  <2>2. \A w \in Worker : pc'[w] \in {"none", "exit"}
    BY <1>c, <1>d, <2>1 DEF NotCreated
  <2>3. \A c \in Client : pc'[c] = "idle"
    BY <2>1 DEF Stopped
  <2> QED
    BY <1>d, <1>f, <2>1, <2>2, <2>3 DEF Stopped
<1> QED
  BY <1>g, <1>1, <1>2, <1>3, <1>4, <1>5, ThreadSteps DEF Next

\* A task is given to a thread on its way to where it may hold one, and taken from
\* it before it goes on.
LEMMA HoldingStep ==
    TypeOK /\ NotCreated /\ Holding /\ [Next]_vars => Holding'
<1> SUFFICES ASSUME TypeOK, NotCreated, Holding, [Next]_vars PROVE Holding'
  OBVIOUS
<1> USE ClientAssumption, TaskAssumption DEF Holding
<1>a. /\ Worker \subseteq Actor /\ Client \subseteq Actor
      /\ \A a \in Actor : a \in Worker \/ a \in Client
      /\ \A c \in Client : c \notin Worker
      /\ arg \in [Actor -> Task \cup {NoTask}]
      /\ cur \in [Actor -> Task \cup {NoTask}]
      /\ pc \in [Actor -> WorkerState \cup ClientState]
      /\ \A c \in Client : pc[c] \notin {"wait", "take"}
  BY DEF Actor, TypeOK, ClientState
<1>1. ASSUME NEW c \in Client, NEW t \in Fresh, RunTaskInline(c, t) PROVE Holding'
  BY <1>1, <1>a DEF RunTaskInline, At
<1>2. ASSUME NEW a \in Actor, NEW t \in Fresh, RunTaskCall(a, t) PROVE Holding'
  BY <1>2, <1>a DEF RunTaskCall, Caller, At
<1>3. ASSUME NEW a \in Actor, RunTaskPush(a) PROVE Holding'
  <2>1. /\ pc[a] = "submit" /\ pc'[a] = Caller(a)
        /\ \A b \in Actor \ {a} :
               pc'[b] = pc[b] \/ (pc[b] = "wait" /\ pc'[b] = "take")
        /\ cur' = cur /\ arg' = [arg EXCEPT ![a] = NoTask]
    BY <1>3, PushMoves DEF RunTaskPush
  <2> QED
    BY <1>a, <2>1 DEF Caller
<1>4. ASSUME NEW w \in Worker, TakeTask(w) PROVE Holding'
  <2>1. /\ pc[w] = "take" /\ pc'[w] = "run"
        /\ \A b \in Actor \ {w} : pc'[b] = pc[b]
        /\ arg' = arg /\ cur' = [cur EXCEPT ![w] = Head(queue_)]
    BY <1>4, TakeMoves DEF TakeTask
  <2> QED
    BY <1>a, <2>1
<1>5. ASSUME NEW a \in Actor, FinishTask(a) PROVE Holding'
  BY <1>5, <1>a DEF FinishTask, At
<1>6. ASSUME NEW w \in Worker, TakeWait(w) PROVE Holding'
  BY <1>6, <1>a DEF TakeWait, At
<1>7. ASSUME NEW w \in Worker, SpuriousWakeup(w) PROVE Holding'
  BY <1>7, <1>a DEF SpuriousWakeup, At
<1>8. ASSUME NEW w \in Worker, ReadRunning(w) \/ TakeNull(w) PROVE Holding'
  BY <1>8, <1>a DEF ReadRunning, TakeNull, At
<1>9. ASSUME NEW w \in Worker, NEW created \in BOOLEAN, StartThread(w, created)
      PROVE  Holding'
  <2>1. pc[w] = "none"
    BY <1>9 DEF StartThread, NotCreated
  <2> QED
    BY <1>9, <1>a, <2>1 DEF StartThread
<1>10. CASE Destroy
  <2>1. \A b \in Actor : pc'[b] = pc[b] \/ (pc[b] = "wait" /\ pc'[b] = "take")
    BY <1>10, DestroyMoves
  <2> QED
    BY <1>10, <1>a, <2>1 DEF Destroy
<1>11. CASE Join \/ StopReturns \/ UNCHANGED vars \/ \E n \in 0..Cardinality(Worker) : start(n)
  BY <1>11 DEF Join, StopReturns, vars, start
<1> QED
  BY <1>1, <1>2, <1>3, <1>4, <1>5, <1>6, <1>7, <1>8, <1>9, <1>10, <1>11 DEF Next

\* A fresh task is in none of the three places.
LEMMA FreshTask ==
    ASSUME NEW t \in Fresh
    PROVE  /\ t \in Task /\ t \notin Queued /\ t # NoTask
           /\ \A a \in Actor : arg[a] # t /\ cur[a] # t
BY TaskAssumption DEF Fresh

\* runTask() under the mutex: the task goes from the caller to the end of the queue.
LEMMA PushEffect ==
    ASSUME TypeOK, OnePlace, NEW a \in Actor, RunTaskPush(a)
    PROVE  /\ arg[a] \in Task /\ arg[a] # NoTask /\ arg[a] \notin Queued
           /\ \A b \in Actor : cur[b] # arg[a]
           /\ arg' = [arg EXCEPT ![a] = NoTask] /\ cur' = cur
           /\ queue_' = Append(queue_, arg[a])
           /\ NoRepeat(queue_')
           /\ Queued' = Queued \cup {arg[a]}
           /\ owner # "aborted" /\ owner' = owner /\ pc[a] = "submit"
<1>a. Queued = Entries(queue_) /\ Queued' = Entries(queue_')
  BY DEF Queued, Entries
<1>1. /\ arg' = [arg EXCEPT ![a] = NoTask] /\ cur' = cur
      /\ queue_' = Append(queue_, arg[a])
      /\ owner # "aborted" /\ owner' = owner /\ pc[a] = "submit"
  BY DEF RunTaskPush, At
<1>2. arg[a] \in Task /\ arg[a] # NoTask /\ queue_ \in Seq(Task)
  BY <1>1, TaskAssumption DEF TypeOK
<1>3. arg[a] \notin Queued /\ \A b \in Actor : cur[b] # arg[a]
  BY <1>2 DEF OnePlace
<1>4. NoRepeat(queue_)
  BY DEF OnePlace
<1>5. /\ NoRepeat(queue_')
      /\ Entries(queue_') = Entries(queue_) \cup {arg[a]}
  BY <1>1, <1>2, <1>3, <1>4, <1>a, Pushed
<1> QED
  BY <1>1, <1>2, <1>3, <1>5, <1>a

\* take(): the front of the queue goes to the worker, whose hands were empty.
LEMMA TakeEffect ==
    ASSUME TypeOK, OnePlace, Holding, NEW w \in Worker, TakeTask(w)
    PROVE  /\ queue_ # <<>> /\ Head(queue_) \in Task /\ Head(queue_) \in Queued
           /\ cur[w] = NoTask /\ arg' = arg
           /\ cur' = [cur EXCEPT ![w] = Head(queue_)]
           /\ queue_' = Tail(queue_)
           /\ NoRepeat(queue_')
           /\ Queued' = Queued \ {Head(queue_)}
           /\ owner # "aborted" /\ owner' = owner /\ pc[w] = "take"
<1>a. Queued = Entries(queue_) /\ Queued' = Entries(queue_')
  BY DEF Queued, Entries
<1>1. /\ queue_ # <<>> /\ arg' = arg /\ queue_' = Tail(queue_)
      /\ cur' = [cur EXCEPT ![w] = Head(queue_)]
      /\ owner # "aborted" /\ owner' = owner /\ pc[w] = "take"
  BY DEF TakeTask, At
<1>2. queue_ \in Seq(Task)
  BY DEF TypeOK
<1>3. Head(queue_) \in Task
  BY <1>1, <1>2, HeadTail
<1>4. cur[w] = NoTask
  BY <1>1 DEF Holding
<1>5. NoRepeat(queue_)
  BY DEF OnePlace
<1>6. /\ NoRepeat(queue_')
      /\ Entries(queue_') = Entries(queue_) \ {Head(queue_)}
      /\ Head(queue_) \in Entries(queue_)
  BY <1>1, <1>2, <1>5, Popped
<1> QED
  BY <1>1, <1>3, <1>4, <1>6, <1>a

\* A task moves from one place to the next, and enters only when it is in none.
LEMMA OnePlaceStep ==
    TypeOK /\ Holding /\ OnePlace /\ [Next]_vars => OnePlace'
<1> SUFFICES ASSUME TypeOK, Holding, OnePlace, [Next]_vars PROVE OnePlace'
  OBVIOUS
<1>a. /\ arg \in [Actor -> Task \cup {NoTask}]
      /\ cur \in [Actor -> Task \cup {NoTask}]
      /\ NoTask \notin Queued /\ Worker \subseteq Actor /\ Client \subseteq Actor
  <2>1. queue_ \in Seq(Task)
    BY DEF TypeOK
  <2>2. Queued \subseteq Task
    BY <2>1 DEF Queued
  <2> QED
    BY <2>2, TaskAssumption DEF TypeOK, Actor
<1>b. /\ NoRepeat(queue_)
      /\ \A a \in Actor : cur[a] \notin Queued /\ arg[a] \notin Queued
      /\ \A a, b \in Actor : arg[a] = cur[b] => arg[a] = NoTask
      /\ \A a, b \in Actor : a # b /\ arg[a] = arg[b] => arg[a] = NoTask
      /\ \A a, b \in Actor : a # b /\ cur[a] = cur[b] => cur[a] = NoTask
  BY DEF OnePlace
<1>c. CASE UNCHANGED <<queue_, arg, cur>>
  BY <1>c DEF OnePlace, Queued, NoRepeat
<1>1. ASSUME NEW c \in Client, NEW t \in Fresh, RunTaskInline(c, t) PROVE OnePlace'
  <2>1. /\ cur' = [cur EXCEPT ![c] = t] /\ arg' = arg /\ queue_' = queue_
        /\ Queued' = Queued
    BY <1>1 DEF RunTaskInline, Queued
  <2>2. t \notin Queued /\ \A a \in Actor : arg[a] # t /\ cur[a] # t
    BY FreshTask
  <2> QED
    BY <1>a, <1>b, <2>1, <2>2 DEF OnePlace
<1>2. ASSUME NEW a \in Actor, NEW t \in Fresh, RunTaskCall(a, t) PROVE OnePlace'
  <2>1. /\ arg' = [arg EXCEPT ![a] = t] /\ cur' = cur /\ queue_' = queue_
        /\ Queued' = Queued
    BY <1>2 DEF RunTaskCall, Queued
  <2>2. t \notin Queued /\ \A b \in Actor : arg[b] # t /\ cur[b] # t
    BY FreshTask
  <2> QED
    BY <1>a, <1>b, <2>1, <2>2 DEF OnePlace
<1>3. ASSUME NEW a \in Actor, RunTaskPush(a) PROVE OnePlace'
  <2>1. /\ arg[a] # NoTask /\ \A b \in Actor : cur[b] # arg[a]
        /\ arg' = [arg EXCEPT ![a] = NoTask] /\ cur' = cur
        /\ NoRepeat(queue_')
        /\ Queued' = Queued \cup {arg[a]}
    BY <1>3, PushEffect
  <2> QED
    BY <1>a, <1>b, <2>1 DEF OnePlace
<1>4. ASSUME NEW w \in Worker, TakeTask(w) PROVE OnePlace'
  <2>1. /\ Head(queue_) \in Queued
        /\ cur[w] = NoTask /\ arg' = arg
        /\ cur' = [cur EXCEPT ![w] = Head(queue_)]
        /\ NoRepeat(queue_')
        /\ Queued' = Queued \ {Head(queue_)}
    BY <1>4, TakeEffect
  <2> QED
    BY <1>a, <1>b, <2>1 DEF OnePlace
<1>5. ASSUME NEW a \in Actor, FinishTask(a) PROVE OnePlace'
  <2>1. /\ cur' = [cur EXCEPT ![a] = NoTask] /\ arg' = arg /\ queue_' = queue_
        /\ Queued' = Queued
    BY <1>5 DEF FinishTask, Queued
  <2> QED
    BY <1>a, <1>b, <2>1 DEF OnePlace
<1>6. ASSUME NEW w \in Worker, SpuriousWakeup(w) PROVE OnePlace'
  BY <1>c, <1>6 DEF SpuriousWakeup
<1>7. ASSUME NEW w \in Worker, \/ ReadRunning(w) \/ TakeWait(w) \/ TakeNull(w)
      PROVE  OnePlace'
  BY <1>c, <1>7 DEF ReadRunning, TakeWait, TakeNull
<1>8. ASSUME NEW w \in Worker, NEW created \in BOOLEAN, StartThread(w, created)
      PROVE  OnePlace'
  BY <1>c, <1>8 DEF StartThread
<1>9. CASE \/ Destroy \/ Join \/ StopReturns \/ UNCHANGED vars
           \/ \E n \in 0..Cardinality(Worker) : start(n)
  BY <1>c, <1>9 DEF Destroy, Join, StopReturns, vars, start
<1> QED
  BY <1>1, <1>2, <1>3, <1>4, <1>5, <1>6, <1>7, <1>8, <1>9 DEF Next

-----------------------------------------------------------------------------
Inv == TypeOK /\ NotCreated /\ OnePlace /\ Holding /\ Stopped

\* The constructor establishes the invariant.
LEMMA InvInit == Init => Inv
<1> SUFFICES ASSUME Init PROVE Inv
  OBVIOUS
<1>1. TypeOK
  BY TypeInit
<1>2. NotCreated
  BY DEF Init, NotCreated, Actor
<1>3. Queued = {} /\ DOMAIN queue_ = {}
  BY DEF Init, Queued
<1>4. OnePlace
  BY <1>3 DEF Init, OnePlace, NoRepeat
<1>5. Holding
  BY DEF Init, Holding, Actor
<1>6. Stopped
  BY DEF Init, Stopped
<1> QED
  BY <1>1, <1>2, <1>4, <1>5, <1>6 DEF Inv

\* Every step keeps it.
LEMMA InvStep == Inv /\ [Next]_vars => Inv'
BY TypeStep, CreatedOnce, OnePlaceStep, HoldingStep, StoppedStep DEF Inv

\* The set of tasks under way.
Active == {cur[a] : a \in Actor} \ {NoTask}

\* Once the destructor has returned, or when nothing was ever started and no
\* client is inside, no task is under way.
LEMMA Idle ==
    ASSUME Inv, \A c \in Client : pc[c] = "idle",
           \A w \in Worker : pc[w] \in {"none", "exit"}
    PROVE  Active = {}
<1>1. \A a \in Actor : cur[a] = NoTask
  BY DEF Inv, Holding, Actor
<1> QED
  BY <1>1 DEF Active

\* The constructor makes an empty executor.
LEMMA RefinesInit == Init => Executor!Init
<1> SUFFICES ASSUME Init PROVE Executor!Init
  OBVIOUS
<1>1. queue_ = <<>> /\ {cur[a] : a \in Actor} \ {NoTask} = {} /\ ~(owner = "done")
  BY DEF Init
<1> QED
  BY <1>1 DEF Executor!Init

\* Every step of the pool is a step of the executor or leaves it as it is.
LEMMA RefinesStep == Inv /\ [Next]_vars => [Executor!Next]_(Executor!vars)
<1> SUFFICES ASSUME Inv, [Next]_vars PROVE [Executor!Next]_(Executor!vars)
  OBVIOUS
<1>a. /\ TypeOK /\ NotCreated /\ OnePlace /\ Holding /\ Stopped
      /\ arg \in [Actor -> Task \cup {NoTask}]
      /\ cur \in [Actor -> Task \cup {NoTask}]
      /\ Worker \subseteq Actor /\ Client \subseteq Actor
      /\ Executor!Waiting = Queued
  BY DEF Inv, TypeOK, Actor, Executor!Waiting, Queued
\* No thread acts once the destructor has returned.
<1>b. owner = "done" => /\ \A c \in Client : pc[c] = "idle"
                        /\ \A w \in Worker : pc[w] \in {"none", "exit"}
  BY <1>a DEF Stopped
<1>c. CASE UNCHANGED <<queue_, cur, owner>>
  BY <1>c DEF Executor!vars
<1>1. ASSUME NEW c \in Client, NEW t \in Fresh, RunTaskInline(c, t)
      PROVE  Executor!Next
  <2>1. /\ cur' = [cur EXCEPT ![c] = t] /\ queue_' = queue_ /\ owner' = owner
        /\ owner # "done" /\ pc[c] = "idle"
    BY <1>1 DEF RunTaskInline, At
  <2>2. t \in Task /\ t \notin Queued /\ t # NoTask /\ t \notin Active
    BY FreshTask DEF Active
  <2>3. cur[c] = NoTask
    BY <1>a, <2>1 DEF Holding
  <2>4. Active' = Active \cup {t}
    BY <1>a, <2>1, <2>2, <2>3 DEF Active
  <2>5. Executor!RunInline(t)
    BY <1>a, <2>1, <2>2, <2>4 DEF Executor!RunInline, Active
  <2> QED
    BY <2>1, <2>2, <2>5 DEF Executor!Next
<1>2. ASSUME NEW a \in Actor, RunTaskPush(a) PROVE Executor!Next
  <2>1. /\ arg[a] \in Task /\ arg[a] \notin Queued
        /\ \A b \in Actor : cur[b] # arg[a]
        /\ cur' = cur /\ queue_' = Append(queue_, arg[a])
        /\ owner' = owner /\ pc[a] = "submit"
    BY <1>a, <1>2, PushEffect
  <2>2. owner # "done"
    BY <1>b, <2>1 DEF Actor
  <2>3. Executor!Submit(arg[a])
    BY <1>a, <2>1 DEF Executor!Submit
  <2> QED
    BY <2>1, <2>2, <2>3 DEF Executor!Next
<1>3. ASSUME NEW w \in Worker, TakeTask(w) PROVE Executor!Next
  <2>1. /\ queue_ # <<>> /\ Head(queue_) \in Task /\ Head(queue_) \in Queued
        /\ cur[w] = NoTask
        /\ cur' = [cur EXCEPT ![w] = Head(queue_)]
        /\ queue_' = Tail(queue_)
        /\ owner' = owner /\ pc[w] = "take"
    BY <1>a, <1>3, TakeEffect
  <2>2. owner # "done"
    BY <1>b, <2>1
  <2>3. Head(queue_) \notin Active /\ Head(queue_) # NoTask
    BY <1>a, <2>1, TaskAssumption DEF OnePlace, Active
  <2>4. Active' = Active \cup {Head(queue_)}
    BY <1>a, <2>1, <2>3 DEF Active
  <2>5. Executor!Begin
    BY <2>1, <2>3, <2>4 DEF Executor!Begin, Active
  <2> QED
    BY <2>2, <2>5 DEF Executor!Next
<1>4. ASSUME NEW a \in Actor, FinishTask(a) PROVE Executor!Next
  <2>1. /\ cur' = [cur EXCEPT ![a] = NoTask] /\ queue_' = queue_ /\ owner' = owner
        /\ pc[a] = "run"
    BY <1>4 DEF FinishTask, At
  <2>2. owner # "done"
    BY <1>b, <2>1 DEF Actor
  <2>3. cur[a] \in Task /\ cur[a] # NoTask
    BY <1>a, <2>1, TaskAssumption DEF TypeOK
  <2>4. \A b \in Actor : b # a => cur[b] # cur[a]
    BY <1>a, <2>3 DEF OnePlace
  <2>5. Active' = Active \ {cur[a]} /\ cur[a] \in Active
    BY <1>a, <2>1, <2>3, <2>4 DEF Active
  <2>6. \E t \in Task : Executor!Finish(t)
    BY <2>1, <2>3, <2>5 DEF Executor!Finish, Active
  <2> QED
    BY <2>2, <2>6 DEF Executor!Next
\* The two steps with which the destructor returns.
<1>d. ASSUME owner' = "done", owner # "done", UNCHANGED <<queue_, cur>>,
             \A c \in Client : pc[c] = "idle",
             \A w \in Worker : pc[w] \in {"none", "exit"}
      PROVE  Executor!Next
  <2>1. Active = {} /\ Active' = Active
    BY <1>d, Idle DEF Active
  <2>2. Executor!Close
    BY <1>d, <2>1 DEF Executor!Close, Active
  <2> QED
    BY <1>d, <2>2 DEF Executor!Next
<1>5. CASE Destroy
  <2>1. CASE running_
    <3>1. UNCHANGED <<queue_, cur>> /\ owner' = "joining" /\ owner = "idle"
      BY <1>5, <2>1 DEF Destroy
    <3> QED
      BY <3>1 DEF Executor!vars
  <2>2. CASE ~running_
    <3>1. /\ UNCHANGED <<queue_, cur>> /\ owner' = "done" /\ owner = "idle"
          /\ \A c \in Client : pc[c] = "idle"
      BY <1>5, <2>2 DEF Destroy
    <3>2. Created = {}
      BY <1>a, <2>2, <3>1 DEF Stopped, Created
    <3>3. \A w \in Worker : pc[w] \in {"none", "exit"}
      BY <1>a, <3>2 DEF NotCreated
    <3> QED
      BY <1>d, <3>1, <3>3
  <2> QED
    BY <2>1, <2>2
<1>6. CASE StopReturns
  <2>1. /\ owner = "joining" /\ owner' = "done" /\ joined = Len(threads_)
        /\ UNCHANGED <<queue_, cur>>
    BY <1>6 DEF StopReturns
  <2>2. \A c \in Client : pc[c] = "idle"
    BY <1>a, <2>1 DEF Stopped
  <2>3. \A w \in Worker : pc[w] \in {"none", "exit"}
    BY <1>a, <2>1, CreatedSeq DEF NotCreated, Stopped
  <2> QED
    BY <1>d, <2>1, <2>2, <2>3
<1>7. CASE Join
  <2>1. UNCHANGED <<queue_, cur>> /\ owner = "joining" /\ owner' \in {"joining", "aborted"}
    BY <1>7 DEF Join
  <2> QED
    BY <2>1 DEF Executor!vars
<1>8. ASSUME NEW n \in 0..Cardinality(Worker), start(n) PROVE UNCHANGED Executor!vars
  <2>1. UNCHANGED <<queue_, cur>> /\ owner = "idle" /\ owner' \in {"idle", "starting"}
    BY <1>8 DEF start
  <2> QED
    BY <2>1 DEF Executor!vars
<1>9. ASSUME NEW w \in Worker, NEW created \in BOOLEAN, StartThread(w, created)
      PROVE  UNCHANGED Executor!vars
  <2>1. /\ UNCHANGED <<queue_, cur>> /\ owner = "starting"
        /\ owner' \in {"idle", "starting"}
    BY <1>9 DEF StartThread
  <2> QED
    BY <2>1 DEF Executor!vars
<1>10. ASSUME NEW a \in Actor, NEW t \in Fresh, RunTaskCall(a, t)
       PROVE  UNCHANGED Executor!vars
  BY <1>10 DEF RunTaskCall, Executor!vars
<1>11. ASSUME NEW w \in Worker, SpuriousWakeup(w) PROVE UNCHANGED Executor!vars
  BY <1>11 DEF SpuriousWakeup, Executor!vars
<1>12. ASSUME NEW w \in Worker, \/ ReadRunning(w) \/ TakeWait(w) \/ TakeNull(w)
       PROVE  UNCHANGED Executor!vars
  BY <1>12 DEF ReadRunning, TakeWait, TakeNull, Executor!vars
<1>13. CASE UNCHANGED vars
  BY <1>c, <1>13 DEF vars
<1> QED
  BY <1>1, <1>2, <1>3, <1>4, <1>5, <1>6, <1>7, <1>8, <1>9, <1>10, <1>11, <1>12, <1>13
  DEF Next

\* The pool is an executor whatever the threads and the tasks: tasks
\* begin in the order runTask() queued them, each once, and none is under way
\* when the destructor has returned, since stop() has joined every worker.
THEOREM ImplementsExecutorCorrect == Spec => ImplementsExecutor
BY InvInit, InvStep, RefinesInit, RefinesStep, PTL
   DEF Spec, ImplementsExecutor, Executor!Spec
=============================================================================
