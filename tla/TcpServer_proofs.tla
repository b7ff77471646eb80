-------------------------- MODULE TcpServer_proofs --------------------------
(***************************************************************************)
(* The acceptor never closes a descriptor that is not its own, and what can *)
(* go wrong in a TcpServer goes wrong only under the conditions of          *)
(* FailsOnlyWhen, for every number of threads, clients and descriptors.     *)
(***************************************************************************)
EXTENDS TcpServer, FiniteSetTheorems, SequenceTheorems, WellFoundedInduction, TLAPS

Living == {c \in Client : client[c] \in Alive}

\* While HandleRead() has given up idle_fd_, nothing is called idle.
IdleKept ==
    IF acceptor \in {"accept", "close", "close again"}
    THEN \A f \in Fd : fd[f] = Idle <=> f = idle_fd_
    ELSE \A f \in Fd : fd[f] # Idle

OwnersAlive == \A f \in Fd : fd[f] \in Client => client[fd[f]] \in Alive

\* Clients that wait are there once, and one is there to be refused.
BacklogPending ==
    /\ \A i \in 1..Len(backlog) : client[backlog[i]] = "pending"
    /\ \A i, j \in 1..Len(backlog) : backlog[i] = backlog[j] => i = j
    /\ acceptor \in {"close", "accept again"} => backlog # <<>>

\* A connection to be established is queued in its own loop, once.
TasksQueued ==
    \A l \in Loop :
        /\ \A i \in 1..Len(task_[l]) :
               client[task_[l][i]] = "queued" /\ own_loop_[task_[l][i]] = l
        /\ \A i, j \in 1..Len(task_[l]) : task_[l][i] = task_[l][j] => i = j

\* GetNextLoop() leaves the first loop only if there is no second.
IndexStays ==
    /\ thread_num_ > 1 => current_index_ = 0
    /\ thread_num_ = 1 => current_index_ <= 1

\* A single worker finds the vector empty and leaves its loop in it.
SingleWorker ==
    /\ \A w \in Worker : w > thread_num_ => worker[w].at = "new"
    /\ thread_num_ = 1 =>
           /\ worker[1].at \in {"new", "emplace"} => eventloop_vec = <<>>
           /\ worker[1].at = "emplace" => worker[1].read = <<>>
           /\ worker[1].at \in {"back", "Loop"} => eventloop_vec = <<1>>
    /\ \A l \in Worker : inside[l] # Nobody => thread_num_ > 0

\* As long as there was one connection at a time, the map holds the one that is to
\* be established.
OneAtATime ==
    /\ Cardinality(Living) <= most
    /\ connect_ # Nobody => client[connect_] \in Alive
    /\ most <= 1 =>
           /\ dangling = {}
           /\ \A c \in Client : client[c] = "queued" => connect_ = c

IInv ==
    /\ TypeOK
    /\ IdleKept
    /\ OwnersAlive
    /\ BacklogPending
    /\ TasksQueued
    /\ IndexStays
    /\ SingleWorker
    /\ OneAtATime
    /\ FailsOnlyWhen

-----------------------------------------------------------------------------
(* Constants and sets.                                                      *)

\* The sets the constants bound, and the names that are nobody's.
LEMMA Numbers ==
    /\ MaxThread \in Nat /\ MaxClient \in Nat /\ MaxFd \in Nat /\ MaxFd > 0
    /\ Loop \subseteq Nat /\ Base \in Loop /\ Worker \subseteq Loop /\ Fd \subseteq Nat /\ 0 \in Fd
    /\ Nobody \notin Client /\ Unused \notin Client /\ Idle \notin Client /\ Other \notin Client
    /\ Unused # Idle /\ Unused # Other /\ Idle # Other /\ -1 \notin Fd
BY BoundAssumption DEF Loop, Base, Worker, Fd, Client, Nobody, Unused, Idle, Other

\* A set of numbers has a least one.
LEMMA LeastNumber ==
    ASSUME NEW S \in SUBSET Nat, S # {}
    PROVE  \E n \in S : \A m \in S : n <= m
<1>. DEFINE R == OpToRel(<, Nat)
<1>1. IsWellFoundedOn(R, Nat)  BY NatLessThanWellFounded
<1>2. \A x, y \in Nat : x < y => <<x, y>> \in R  BY DEF OpToRel
<1>. HIDE DEF R
<1>3. PICK x \in S : \A y \in S : ~(<<y, x>> \in R)  BY <1>1, WFMin
<1>4. \A y \in S : ~(y < x)  BY <1>2, <1>3
<1>. QED  BY <1>4

\* The descriptor the kernel hands out is one that was free.
LEMMA LowestUnopened ==
    ASSUME TypeOK, Unopened # {}
    PROVE  Lowest(Unopened) \in Fd /\ fd[Lowest(Unopened)] = Unused
<1>1. Unopened \in SUBSET Nat  BY Numbers DEF Unopened
<1>2. \E n \in Unopened : \A m \in Unopened : n <= m  BY <1>1, LeastNumber
<1>3. Lowest(Unopened) \in Unopened  BY <1>2 DEF Lowest
<1>. QED  BY <1>3 DEF Unopened

\* There are finitely many clients.
LEMMA LivingFinite ==
    /\ IsFiniteSet(Client) /\ Cardinality(Client) = MaxClient
    /\ IsFiniteSet(Living) /\ Cardinality(Living) \in 0..MaxClient
<1>1. IsFiniteSet(Client) /\ Cardinality(Client) = MaxClient
  <2>1. 1 \in Int /\ MaxClient \in Int /\ MaxClient >= 0  BY Numbers
  <2>2. /\ IsFiniteSet(1..MaxClient)
        /\ Cardinality(1..MaxClient) = IF 1 > MaxClient THEN 0 ELSE MaxClient - 1 + 1
    BY <2>1, FS_Interval
  <2>. QED  BY <2>1, <2>2 DEF Client
<1>2. Living \in SUBSET Client  BY DEF Living
<1>3. IsFiniteSet(Living) /\ Cardinality(Living) <= MaxClient  BY <1>1, <1>2, FS_Subset
<1>. QED  BY <1>1, <1>3, FS_CardinalityType

\* Two that are alive are more than one.
LEMMA TwoLiving ==
    ASSUME NEW a \in Living, NEW b \in Living, a # b
    PROVE  Cardinality(Living) > 1
<1>1. IsFiniteSet({a}) /\ Cardinality({a}) = 1  BY FS_Singleton
<1>2. IsFiniteSet({a} \cup {b}) /\ Cardinality({a} \cup {b}) = 2  BY <1>1, FS_AddElement
<1>3. {a} \cup {b} \in SUBSET Living  OBVIOUS
<1>. QED  BY <1>2, <1>3, LivingFinite, FS_Subset

-----------------------------------------------------------------------------
(* Types.                                                                   *)

\* Start() makes the invariant true.
LEMMA InitInv == Init => IInv
<1>. SUFFICES ASSUME Init PROVE IInv  OBVIOUS
<1>0. current_index_ = 0 /\ most = 0 /\ idle_fd_ = 0  BY DEF Init
<1>a. thread_num_ \in Loop /\ eventloop_vec = <<>> /\ backlog = <<>>  BY DEF Init
<1>b. acceptor = "accept" /\ failed = "" /\ connect_ = Nobody /\ dangling = {}  BY DEF Init
<1>1. TypeOK
  <2>1. [c \in Client |-> "none"]
            \in [Client -> {"none", "pending", "closed", "refused"} \cup Alive]
    OBVIOUS
  <2>2. [f \in Fd |-> IF f = 0 THEN Idle ELSE Unused] \in [Fd -> Client \cup {Unused, Idle, Other}]
    OBVIOUS
  <2>3. worker \in [Worker -> [at : {"new", "emplace", "back", "Loop"}, read : Seq(Worker)]]
    <3>1. [at |-> "new", read |-> <<>>] \in [at : {"new", "emplace", "back", "Loop"},
                                             read : Seq(Worker)]
      OBVIOUS
    <3>. QED  BY <3>1 DEF Init
  <2>6. own_loop_ \in [Client -> Loop] /\ inside \in [Loop -> Client \cup {Nobody}]
    BY Numbers DEF Init
  <2>7. task_ \in [Loop -> Seq(Client)]
    <3>1. <<>> \in Seq(Client)  OBVIOUS
    <3>. QED  BY <3>1 DEF Init
  <2>4. client = [c \in Client |-> "none"] /\ fd = [f \in Fd |-> IF f = 0 THEN Idle ELSE Unused]
    BY DEF Init
  <2>5. eventloop_vec \in Seq(Worker) /\ backlog \in Seq(Client) /\ most \in 0..MaxClient
        /\ current_index_ \in Nat
    BY <1>0, <1>a, Numbers
  <2>. QED  BY <1>0, <1>a, <1>b, <2>1, <2>2, <2>3, <2>4, <2>5, <2>6, <2>7, Numbers DEF TypeOK
<1>2. Living = {}  BY DEF Init, Living, Alive
<1>3. Cardinality(Living) <= most  BY <1>0, <1>2, FS_EmptySet
<1>4. IdleKept /\ OwnersAlive  BY Numbers DEF Init, IdleKept, OwnersAlive
<1>5. IndexStays  BY <1>0 DEF IndexStays
<1>6. BacklogPending
  <2>1. backlog = <<>> /\ acceptor = "accept" /\ Len(backlog) = 0  BY DEF Init
  <2>. QED  BY <2>1 DEF BacklogPending
<1>7. TasksQueued
  <2>1. \A l \in Loop : Len(task_[l]) = 0  BY DEF Init
  <2>. QED  BY <2>1 DEF TasksQueued
<1>8. SingleWorker
  <2>1. \A w \in Worker : worker[w].at = "new" /\ inside[w] = Nobody
    BY Numbers DEF Init
  <2>2. thread_num_ = 1 => 1 \in Worker  BY <1>a DEF Worker, Base
  <2>3. eventloop_vec = <<>>  BY DEF Init
  <2>. QED  BY <2>1, <2>2, <2>3 DEF SingleWorker
<1>9. OneAtATime /\ FailsOnlyWhen
  BY <1>3, Numbers DEF Init, OneAtATime, FailsOnlyWhen
<1>. QED  BY <1>1, <1>4, <1>5, <1>6, <1>7, <1>8, <1>9 DEF IInv

\* An entry whose queue is extended by one or loses its first.
LEMMA QueueType ==
    ASSUME NEW S, NEW q \in Seq(S), NEW x \in S
    PROVE  /\ Append(q, x) \in Seq(S)
           /\ q # <<>> => Tail(q) \in Seq(S) /\ Head(q) \in S
OBVIOUS

\* The connection is up or closed, and then owns no descriptor.
LEMMA EstablishedType ==
    ASSUME TypeOK, NEW c \in Client, NEW l \in Loop, NEW holder, Established(c, l, holder)
    PROVE  /\ client' \in [Client -> {"none", "pending", "closed", "refused"} \cup Alive]
           /\ fd' \in [Fd -> Client \cup {Unused, Idle, Other}]
           /\ dangling' \subseteq Loop
BY DEF TypeOK, Established, Alive

\* Every step keeps the types; HandleRead() has somebody to refuse.
LEMMA TypeStep ==
    ASSUME TypeOK, BacklogPending, [Next]_vars
    PROVE  TypeOK'
<1>. USE Numbers
<1>1. ASSUME NEW w \in Worker, WorkerStep(w) PROVE TypeOK'
  <2>1. CASE EmplaceLoop(w)
    BY <2>1 DEF EmplaceLoop, TypeOK, server
  <2>2. CASE EmplacedLoop(w)
    <3>. DEFINE next == [at |-> "back", read |-> <<>>]
    <3>1. worker[w].read \in Seq(Worker)  BY DEF TypeOK
    <3>2. Append(worker[w].read, w) \in Seq(Worker)  BY <3>1, AppendProperties
    <3>3. next \in [at : {"new", "emplace", "back", "Loop"}, read : Seq(Worker)]
      OBVIOUS
    <3>4. eventloop_vec' \in Seq(Worker) /\ worker' = [worker EXCEPT ![w] = next]
      BY <2>2, <3>2 DEF EmplacedLoop
    <3>. HIDE DEF next
    <3>5. worker' \in [Worker -> [at : {"new", "emplace", "back", "Loop"}, read : Seq(Worker)]]
      BY <3>3, <3>4 DEF TypeOK
    <3>. QED  BY <2>2, <3>4, <3>5 DEF EmplacedLoop, TypeOK, server
  <2>3. CASE BackLoop(w)
    BY <2>3 DEF BackLoop, TypeOK, server
  <2>. QED  BY <1>1, <2>1, <2>2, <2>3 DEF WorkerStep
<1>2. ASSUME Accept PROVE TypeOK'
  <2>. DEFINE c == Head(backlog)
  <2>1. c \in Client /\ backlog' \in Seq(Client)  BY <1>2 DEF Accept, TypeOK
  <2>2. fd' \in [Fd -> Client \cup {Unused, Idle, Other}]
    BY <1>2, <2>1 DEF Accept, TypeOK
  <2>3. client' \in [Client -> {"none", "pending", "closed", "refused"} \cup Alive]
    BY <1>2, <2>1 DEF Accept, TypeOK, Alive
  <2>4. inside' \in [Loop -> Client \cup {Nobody}]
    BY <1>2, <2>1 DEF Accept, TypeOK
  <2>5. own_loop_' \in [Client -> Loop] /\ current_index_' \in Nat
    <3>1. CASE UNCHANGED <<own_loop_, current_index_>>  BY <3>1 DEF TypeOK
    <3>2. CASE thread_num_ # 0 /\ ~(current_index_ >= Len(eventloop_vec))
      <4>1. own_loop_' = [own_loop_ EXCEPT ![c] = eventloop_vec[current_index_ + 1]]
            /\ current_index_' = NextIndex
        BY <1>2, <3>2 DEF Accept
      <4>2. eventloop_vec \in Seq(Worker) /\ current_index_ \in Nat  BY DEF TypeOK
      <4>3. Len(eventloop_vec) \in Nat  BY <4>2, LenProperties
      <4>4. current_index_ + 1 \in 1..Len(eventloop_vec)  BY <3>2, <4>2, <4>3
      <4>5. eventloop_vec[current_index_ + 1] \in Worker  BY <4>2, <4>4, ElementOfSeq
      <4>6. own_loop_' \in [Client -> Loop]  BY <2>1, <4>1, <4>5 DEF TypeOK
      <4>7. current_index_' \in Nat  BY <4>1, <4>2 DEF NextIndex
      <4>. QED  BY <4>6, <4>7
    <3>. QED  BY <1>2, <3>1, <3>2 DEF Accept
  <2>6. most' \in 0..MaxClient
    <3>. DEFINE n == Cardinality({d \in Client : client'[d] \in Alive})
    <3>1. {d \in Client : client'[d] \in Alive} \in SUBSET Client  OBVIOUS
    <3>2. n \in 0..MaxClient  BY <3>1, LivingFinite, FS_Subset, FS_CardinalityType
    <3>3. most' = IF n > most THEN n ELSE most  BY <1>2 DEF Accept
    <3>. HIDE DEF n
    <3>. QED  BY <3>2, <3>3 DEF TypeOK
  <2>. QED  BY <1>2, <2>1, <2>2, <2>3, <2>4, <2>5, <2>6 DEF Accept, TypeOK
<1>3. ASSUME AcceptFails PROVE TypeOK'
  BY <1>3 DEF AcceptFails, TypeOK, pool, server
<1>e. ASSUME AcceptErrs PROVE TypeOK'
  <2>1. backlog # <<>>  BY <1>e DEF AcceptErrs
  <2>2. Head(backlog) \in Client /\ Tail(backlog) \in Seq(Client)
    BY <2>1, HeadTailProperties DEF TypeOK
  <2>3. client' \in [Client -> {"none", "pending", "closed", "refused"} \cup Alive]
        /\ backlog' \in Seq(Client)
    BY <1>e, <2>2 DEF AcceptErrs, TypeOK
  <2>. QED  BY <1>e, <2>3 DEF AcceptErrs, TypeOK, pool
<1>4. ASSUME CloseIdle PROVE TypeOK'
  BY <1>4 DEF CloseIdle, Released, TypeOK, pool, server
<1>5. ASSUME AcceptIdle PROVE TypeOK'
  <2>1. acceptor' = "close again"  BY <1>5 DEF AcceptIdle
  <2>2. CASE Unopened = {}
    BY <1>5, <2>1, <2>2 DEF AcceptIdle, TypeOK, pool
  <2>3. CASE Unopened # {}
    <3>1. Lowest(Unopened) \in Fd  BY <2>3, LowestUnopened
    <3>2. backlog # <<>>  BY <1>5 DEF AcceptIdle, BacklogPending
    <3>3. Head(backlog) \in Client /\ Tail(backlog) \in Seq(Client)
      BY <3>2, HeadTailProperties DEF TypeOK
    <3>4. /\ idle_fd_' = Lowest(Unopened) /\ fd' = [fd EXCEPT ![idle_fd_'] = Idle]
          /\ client' = [client EXCEPT ![Head(backlog)] = "refused"] /\ backlog' = Tail(backlog)
      BY <1>5, <2>3 DEF AcceptIdle
    <3>5. client' \in [Client -> {"none", "pending", "closed", "refused"} \cup Alive]
      BY <3>3, <3>4 DEF TypeOK
    <3>6. fd' \in [Fd -> Client \cup {Unused, Idle, Other}] /\ idle_fd_' \in Fd
      BY <3>1, <3>4 DEF TypeOK
    <3>. QED  BY <1>5, <2>1, <3>3, <3>4, <3>5, <3>6 DEF AcceptIdle, TypeOK, pool
  <2>. QED  BY <2>2, <2>3
<1>6. ASSUME OpenIdle PROVE TypeOK'
  <2>1. CASE Unopened = {}  BY <1>6, <2>1 DEF OpenIdle, TypeOK, pool, server
  <2>2. CASE Unopened # {}
    <3>1. Lowest(Unopened) \in Fd  BY <2>2, LowestUnopened
    <3>2. idle_fd_' = Lowest(Unopened) /\ fd' = [fd EXCEPT ![idle_fd_'] = Idle]
      BY <1>6, <2>2 DEF OpenIdle
    <3>3. fd' \in [Fd -> Client \cup {Unused, Idle, Other}] /\ idle_fd_' \in Fd
      BY <3>1, <3>2 DEF TypeOK
    <3>. QED  BY <1>6, <3>3 DEF OpenIdle, TypeOK, pool, server
  <2>. QED  BY <2>1, <2>2
<1>7. ASSUME Insert PROVE TypeOK'
  <2>. DEFINE c == inside[Base]
  <2>1. c \in Client  BY <1>7 DEF Insert, TypeOK
  <2>2. connect_' \in Client \cup {Nobody} /\ inside' \in [Loop -> Client \cup {Nobody}]
    BY <1>7, <2>1 DEF Insert, TypeOK
  <2>3. CASE own_loop_[c] = Base
    <3>1. Established(c, Base, connect_') /\ UNCHANGED task_  BY <1>7, <2>3 DEF Insert
    <3>. QED  BY <1>7, <2>1, <2>2, <3>1, EstablishedType DEF Insert, TypeOK, pool
  <2>4. CASE own_loop_[c] # Base
    <3>1. /\ task_' = [task_ EXCEPT ![own_loop_[c]] = Append(@, c)]
          /\ client' = [client EXCEPT ![c] = "queued"] /\ UNCHANGED <<fd, dangling>>
      BY <1>7, <2>4 DEF Insert
    <3>2. task_' \in [Loop -> Seq(Client)]
      BY <2>1, <3>1, QueueType DEF TypeOK
    <3>3. client' \in [Client -> {"none", "pending", "closed", "refused"} \cup Alive]
      BY <2>1, <3>1 DEF TypeOK, Alive
    <3>. QED  BY <1>7, <2>2, <3>1, <3>2, <3>3 DEF Insert, TypeOK, pool
  <2>. QED  BY <2>3, <2>4
<1>8. ASSUME NEW l \in Loop, Establish(l) PROVE TypeOK'
  <2>1. Head(task_[l]) \in Client /\ Tail(task_[l]) \in Seq(Client)
    BY <1>8, HeadTailProperties DEF Establish, TypeOK
  <2>2. task_' \in [Loop -> Seq(Client)]  BY <1>8, <2>1 DEF Establish, TypeOK
  <2>. QED  BY <1>8, <2>1, <2>2, EstablishedType DEF Establish, TypeOK, pool
<1>9. ASSUME NEW l \in Loop, Erase(l) PROVE TypeOK'
  BY <1>9 DEF Erase, TypeOK, pool
<1>10. ASSUME NEW l \in Loop, PollDangling(l) PROVE TypeOK'
  BY <1>10 DEF PollDangling, TypeOK, pool, server
<1>11. ASSUME NEW c \in Client, BeginErase(c) PROVE TypeOK'
  BY <1>11 DEF BeginErase, TypeOK, pool
<1>12. ASSUME NEW c \in Client, Arrive(c) PROVE TypeOK'
  BY <1>12, QueueType DEF Arrive, TypeOK, pool
<1>13. ASSUME NEW c \in Client, PeerCloses(c) PROVE TypeOK'
  BY <1>13 DEF PeerCloses, TypeOK, pool, Alive
<1>14. ASSUME OtherFd PROVE TypeOK'
  BY <1>14, LowestUnopened DEF OtherFd, TypeOK, pool, server
<1>15. CASE UNCHANGED vars
  BY <1>15 DEF vars, pool, server, TypeOK
<1>. QED
  BY <1>1, <1>2, <1>3, <1>4, <1>5, <1>6, <1>7, <1>8, <1>9, <1>10, <1>11, <1>12, <1>13,
     <1>14, <1>15, <1>e
  DEF Next, AcceptorStep, LoopStep, PollStep, CloseStep, Environment

-----------------------------------------------------------------------------
(* The descriptors.                                                         *)

\* The steps that leave idle_fd_ alone: what becomes of the descriptors.
FdsMove ==
    \/ UNCHANGED fd
    \/ \E f \in Fd, x \in Client \cup {Other} : fd[f] = Unused /\ fd' = [fd EXCEPT ![f] = x]
    \/ \E f \in Fd : fd[f] = Other /\ fd' = [fd EXCEPT ![f] = Unused]
    \/ \E c \in Client : fd' = [f \in Fd |-> IF fd[f] = c THEN Unused ELSE fd[f]]

\* None of these steps makes or takes an idle descriptor.
LEMMA MovedIdle ==
    ASSUME TypeOK, FdsMove
    PROVE  \A f \in Fd : fd'[f] = Idle <=> fd[f] = Idle
BY Numbers DEF FdsMove, TypeOK

\* A connection that is destroyed gives up its own descriptors only.
LEMMA EstablishedMove ==
    ASSUME TypeOK, NEW c \in Client, NEW l \in Loop, NEW holder, Established(c, l, holder)
    PROVE  FdsMove
BY DEF Established, FdsMove

\* idle_fd_ is given up and taken back by HandleRead() alone.
LEMMA IdleStep ==
    ASSUME IInv, [Next]_vars
    PROVE  IdleKept'
<1>. USE Numbers
<1>0. TypeOK /\ IdleKept /\ BacklogPending  BY DEF IInv
<1>1. ASSUME FdsMove, UNCHANGED <<idle_fd_, acceptor>> PROVE IdleKept'
  BY <1>0, <1>1, MovedIdle DEF IdleKept
<1>2. ASSUME Accept PROVE IdleKept'
  <2>1. Lowest(Unopened) \in Fd /\ fd[Lowest(Unopened)] = Unused
    BY <1>0, <1>2, LowestUnopened DEF Accept
  <2>2. Head(backlog) \in Client  BY <1>0, <1>2, HeadTailProperties DEF Accept, TypeOK
  <2>3. FdsMove  BY <1>2, <2>1, <2>2 DEF Accept, FdsMove
  <2>. QED  BY <1>1, <1>2, <2>3 DEF Accept
<1>e. ASSUME AcceptErrs PROVE IdleKept'
  BY <1>0, <1>e DEF AcceptErrs, IdleKept
<1>3. ASSUME AcceptFails PROVE IdleKept'
  BY <1>0, <1>3 DEF AcceptFails, IdleKept
<1>4. ASSUME CloseIdle PROVE IdleKept'
  <2>1. \A f \in Fd : fd[f] = Idle <=> f = idle_fd_  BY <1>0, <1>4 DEF CloseIdle, IdleKept
  <2>2. \A f \in Fd : fd'[f] # Idle
    BY <1>0, <1>4, <2>1 DEF CloseIdle, Released, TypeOK
  <2>3. acceptor' \in {"accept again", "open"}  BY <1>4 DEF CloseIdle
  <2>. QED  BY <2>2, <2>3 DEF IdleKept
<1>5. ASSUME acceptor \in {"accept again", "open"},
             acceptor' \in {"accept", "close again"},
             \/ idle_fd_' = -1 /\ UNCHANGED fd
             \/ /\ Unopened # {}
                /\ idle_fd_' = Lowest(Unopened)
                /\ fd' = [fd EXCEPT ![idle_fd_'] = Idle]
      PROVE  IdleKept'
  <2>1. \A f \in Fd : fd[f] # Idle  BY <1>0, <1>5 DEF IdleKept
  <2>2. \A f \in Fd : fd'[f] = Idle <=> f = idle_fd_'
    BY <1>0, <1>5, <2>1, LowestUnopened DEF TypeOK
  <2>. QED  BY <1>5, <2>2 DEF IdleKept
<1>6. ASSUME AcceptIdle PROVE IdleKept'
  BY <1>5, <1>6 DEF AcceptIdle
<1>7. ASSUME OpenIdle PROVE IdleKept'
  BY <1>5, <1>7 DEF OpenIdle
<1>8. ASSUME Insert PROVE IdleKept'
  <2>1. inside[Base] \in Client  BY <1>0, <1>8 DEF Insert, TypeOK
  <2>2. FdsMove
    BY <1>0, <1>8, <2>1, EstablishedMove DEF Insert, FdsMove
  <2>. QED  BY <1>1, <1>8, <2>2 DEF Insert
<1>9. ASSUME NEW l \in Loop, Establish(l) PROVE IdleKept'
  <2>1. Head(task_[l]) \in Client  BY <1>0, <1>9, HeadTailProperties DEF Establish, TypeOK
  <2>2. FdsMove  BY <1>0, <1>9, <2>1, EstablishedMove DEF Establish
  <2>. QED  BY <1>1, <1>9, <2>2 DEF Establish
<1>10. ASSUME NEW l \in Loop, Erase(l) PROVE IdleKept'
  <2>1. inside[l] \in Client  BY <1>0, <1>10 DEF Erase, TypeOK
  <2>2. FdsMove  BY <1>10, <2>1 DEF Erase, FdsMove
  <2>. QED  BY <1>1, <1>10, <2>2 DEF Erase
<1>11. ASSUME OtherFd PROVE IdleKept'
  <2>1. FdsMove  BY <1>0, <1>11, LowestUnopened DEF OtherFd, FdsMove
  <2>. QED  BY <1>1, <1>11, <2>1 DEF OtherFd
<1>12. ASSUME UNCHANGED <<fd, idle_fd_, acceptor>> PROVE IdleKept'
  BY <1>1, <1>12 DEF FdsMove
<1>. QED
  BY <1>2, <1>3, <1>4, <1>6, <1>7, <1>8, <1>9, <1>10, <1>11, <1>12, <1>e
  DEF Next, AcceptorStep, LoopStep, PollStep, CloseStep, WorkerStep, Environment,
      EmplaceLoop, EmplacedLoop, BackLoop, BeginErase, PollDangling, Arrive, PeerCloses, vars

\* The first client that waits is pending, and is not there again.
LEMMA FirstWaiting ==
    ASSUME TypeOK, BacklogPending, backlog # <<>>
    PROVE  /\ Head(backlog) \in Client /\ client[Head(backlog)] = "pending"
           /\ Len(Tail(backlog)) = Len(backlog) - 1 /\ Len(backlog) \in Nat
           /\ \A i \in 1..Len(Tail(backlog)) :
                  /\ i + 1 \in 1..Len(backlog) /\ Tail(backlog)[i] = backlog[i + 1]
                  /\ Tail(backlog)[i] # Head(backlog)
<1>1. backlog \in Seq(Client)  BY DEF TypeOK
<1>2. Len(backlog) \in Nat /\ Len(backlog) > 0 /\ Head(backlog) = backlog[1]  BY <1>1
<1>3. /\ Len(Tail(backlog)) = Len(backlog) - 1
      /\ \A i \in 1..Len(Tail(backlog)) : Tail(backlog)[i] = backlog[i + 1]
  BY <1>1, HeadTailProperties
<1>4. \A i \in 1..Len(Tail(backlog)) : i + 1 \in 1..Len(backlog) /\ i + 1 # 1
  BY <1>2, <1>3
<1>5. 1 \in 1..Len(backlog)  BY <1>2
<1>6. \A i \in 1..Len(Tail(backlog)) : backlog[i + 1] # backlog[1]
  BY <1>4, <1>5 DEF BacklogPending
<1>7. Head(backlog) \in Client  BY <1>1, HeadTailProperties
<1>. QED  BY <1>2, <1>3, <1>4, <1>5, <1>6, <1>7 DEF BacklogPending

\* accept() has failed: the client that waits first is gone, or nothing is changed but
\* that the process ends.
LEMMA ErrsFacts ==
    ASSUME TypeOK, BacklogPending, AcceptErrs
    PROVE  /\ UNCHANGED <<thread_num_, pool, own_loop_, task_, connect_, inside, dangling, most,
                          fd, idle_fd_, acceptor>>
           /\ acceptor = "accept"
           /\ \/ /\ backlog # <<>>
                 /\ Head(backlog) \in Client /\ client[Head(backlog)] = "pending"
                 /\ client' = [client EXCEPT ![Head(backlog)] = "closed"]
                 /\ backlog' = Tail(backlog) /\ UNCHANGED failed
              \/ UNCHANGED <<client, backlog>> /\ failed' = "accept"
BY FirstWaiting DEF AcceptErrs

\* A connection closes its descriptors before it is forgotten.
LEMMA OwnersStep ==
    ASSUME IInv, [Next]_vars
    PROVE  OwnersAlive'
<1>. USE Numbers
<1>0. TypeOK /\ OwnersAlive /\ BacklogPending  BY DEF IInv
<1>1. ASSUME NEW c \in Client, NEW x \in Alive, client' = [client EXCEPT ![c] = x],
             UNCHANGED fd
      PROVE  OwnersAlive'
  BY <1>0, <1>1 DEF OwnersAlive, TypeOK
<1>2. ASSUME NEW c \in Client, NEW x, client' = [client EXCEPT ![c] = x],
             fd' = [f \in Fd |-> IF fd[f] = c THEN Unused ELSE fd[f]]
      PROVE  OwnersAlive'
  BY <1>0, <1>2 DEF OwnersAlive, TypeOK
<1>3. ASSUME UNCHANGED client,
             \A f \in Fd : fd'[f] \in Client => fd'[f] = fd[f]
      PROVE  OwnersAlive'
  BY <1>0, <1>3 DEF OwnersAlive, TypeOK
<1>4. ASSUME NEW c \in Client, NEW l \in Loop, NEW holder, Established(c, l, holder)
      PROVE  OwnersAlive'
  <2>1. CASE holder = c  BY <1>1, <1>4, <2>1 DEF Established, Alive
  <2>2. CASE holder # c  BY <1>2, <1>4, <2>2 DEF Established
  <2>. QED  BY <2>1, <2>2
<1>5. ASSUME Accept PROVE OwnersAlive'
  <2>1. Head(backlog) \in Client  BY <1>0, <1>5, FirstWaiting DEF Accept
  <2>2. Lowest(Unopened) \in Fd  BY <1>0, <1>5, LowestUnopened DEF Accept
  <2>3. fd' = [fd EXCEPT ![Lowest(Unopened)] = Head(backlog)]
        /\ client' = [client EXCEPT ![Head(backlog)] = "accepted"]
    BY <1>5 DEF Accept
  <2>. QED  BY <1>0, <2>1, <2>2, <2>3 DEF OwnersAlive, TypeOK, Alive
<1>6. ASSUME AcceptIdle PROVE OwnersAlive'
  <2>1. CASE Unopened = {}  BY <1>3, <1>6, <2>1 DEF AcceptIdle
  <2>2. CASE Unopened # {}
    <3>. DEFINE c == Head(backlog)
    <3>1. c \in Client /\ client[c] = "pending"
      BY <1>0, <1>6, FirstWaiting DEF AcceptIdle, BacklogPending
    <3>2. client[c] \notin Alive  BY <3>1 DEF Alive
    <3>3. /\ fd' = [fd EXCEPT ![idle_fd_'] = Idle]
          /\ client' = [client EXCEPT ![c] = "refused"]
      BY <1>6, <2>2 DEF AcceptIdle
    <3>4. \A f \in Fd : fd'[f] \in Client => fd'[f] = fd[f] /\ fd[f] # c
      BY <1>0, <3>2, <3>3 DEF OwnersAlive, TypeOK
    <3>. HIDE DEF c
    <3>. QED  BY <1>0, <3>1, <3>3, <3>4 DEF OwnersAlive, TypeOK
  <2>. QED  BY <2>1, <2>2
<1>7. ASSUME CloseIdle PROVE OwnersAlive'
  BY <1>0, <1>3, <1>7 DEF CloseIdle, Released, server, TypeOK
<1>8. ASSUME OpenIdle PROVE OwnersAlive'
  BY <1>0, <1>3, <1>8 DEF OpenIdle, server, TypeOK
<1>9. ASSUME Insert PROVE OwnersAlive'
  <2>1. inside[Base] \in Client  BY <1>0, <1>9 DEF Insert, TypeOK
  <2>. QED  BY <1>1, <1>4, <1>9, <2>1 DEF Insert, Alive
<1>10. ASSUME NEW l \in Loop, Establish(l) PROVE OwnersAlive'
  <2>1. Head(task_[l]) \in Client  BY <1>0, <1>10, HeadTailProperties DEF Establish, TypeOK
  <2>. QED  BY <1>4, <1>10, <2>1 DEF Establish
<1>11. ASSUME NEW l \in Loop, Erase(l) PROVE OwnersAlive'
  <2>1. inside[l] \in Client  BY <1>0, <1>11 DEF Erase, TypeOK
  <2>. QED  BY <1>2, <1>11, <2>1 DEF Erase
<1>12. ASSUME NEW c \in Client, Arrive(c) PROVE OwnersAlive'
  <2>1. client[c] \notin Alive  BY <1>12 DEF Arrive, Alive
  <2>. QED  BY <1>0, <1>12, <2>1 DEF Arrive, OwnersAlive, TypeOK
<1>13. ASSUME NEW c \in Client, PeerCloses(c) PROVE OwnersAlive'
  BY <1>1, <1>13 DEF PeerCloses, Alive
<1>14. ASSUME OtherFd PROVE OwnersAlive'
  BY <1>0, <1>3, <1>14 DEF OtherFd, server, TypeOK
<1>e. ASSUME AcceptErrs PROVE OwnersAlive'
  <2>1. CASE UNCHANGED client  BY <1>0, <1>3, <1>e, <2>1 DEF AcceptErrs
  <2>2. CASE ~UNCHANGED client
    <3>. DEFINE c == Head(backlog)
    <3>1. /\ c \in Client /\ client[c] = "pending" /\ fd' = fd
          /\ client' = [client EXCEPT ![c] = "closed"]
      BY <1>0, <1>e, <2>2, ErrsFacts
    <3>2. client[c] \notin Alive  BY <3>1 DEF Alive
    <3>3. \A f \in Fd : fd[f] \in Client => fd[f] # c
      BY <1>0, <3>2 DEF OwnersAlive
    <3>. HIDE DEF c
    <3>. QED  BY <1>0, <3>1, <3>3 DEF OwnersAlive, TypeOK
  <2>. QED  BY <2>1, <2>2
<1>15. ASSUME UNCHANGED <<fd, client>> PROVE OwnersAlive'
  BY <1>3, <1>15
<1>. QED
  BY <1>5, <1>6, <1>7, <1>8, <1>9, <1>10, <1>11, <1>12, <1>13, <1>14, <1>15, <1>e
  DEF Next, AcceptorStep, LoopStep, PollStep, CloseStep, WorkerStep, Environment,
      AcceptFails, EmplaceLoop, EmplacedLoop, BackLoop, BeginErase, PollDangling, server, vars

-----------------------------------------------------------------------------
(* The clients that wait, and the connections to be established.            *)

\* A client waits once, until it is accepted.
LEMMA BacklogStep ==
    ASSUME IInv, [Next]_vars
    PROVE  BacklogPending'
<1>. USE Numbers
<1>0. TypeOK /\ BacklogPending /\ TasksQueued  BY DEF IInv
<1>a. \A i \in 1..Len(backlog) : backlog[i] \in Client
  BY <1>0, ElementOfSeq DEF TypeOK
<1>b. client \in [Client -> {"none", "pending", "closed", "refused"} \cup Alive]
  BY <1>0 DEF TypeOK
<1>1. ASSUME UNCHANGED <<backlog, acceptor>>,
             \A c \in Client : client[c] = "pending" => client'[c] = "pending"
      PROVE  BacklogPending'
  <2>1. backlog' = backlog /\ acceptor' = acceptor  BY <1>1
  <2>2. \A i \in 1..Len(backlog) : client'[backlog[i]] = "pending"
    BY <1>0, <1>1, <1>a DEF BacklogPending
  <2>. QED  BY <1>0, <2>1, <2>2 DEF BacklogPending
<1>2. ASSUME backlog # <<>>, backlog' = Tail(backlog), NEW x,
             client' = [client EXCEPT ![Head(backlog)] = x],
             acceptor' \notin {"close", "accept again"}
      PROVE  BacklogPending'
  <2>. DEFINE c == Head(backlog)
              q == Tail(backlog)
  <2>1. /\ c \in Client /\ Len(q) = Len(backlog) - 1 /\ Len(backlog) \in Nat
        /\ \A i \in 1..Len(q) :
               i + 1 \in 1..Len(backlog) /\ q[i] = backlog[i + 1] /\ q[i] # c
    BY <1>0, <1>2, FirstWaiting
  <2>2. backlog' = q /\ client' = [client EXCEPT ![c] = x]  BY <1>2
  <2>. HIDE DEF c, q
  <2>3. ASSUME NEW i \in 1..Len(q) PROVE client'[q[i]] = "pending"
    <3>1. i + 1 \in 1..Len(backlog) /\ q[i] = backlog[i + 1] /\ q[i] # c  BY <2>1
    <3>2. client[q[i]] = "pending" /\ q[i] \in Client
      BY <1>0, <1>a, <3>1 DEF BacklogPending
    <3>. QED  BY <1>b, <2>2, <3>1, <3>2
  <2>4. ASSUME NEW i \in 1..Len(q), NEW j \in 1..Len(q), q[i] = q[j] PROVE i = j
    <3>1. i + 1 = j + 1  BY <1>0, <2>1, <2>4 DEF BacklogPending
    <3>. QED  BY <3>1
  <2>. QED  BY <1>2, <2>2, <2>3, <2>4 DEF BacklogPending
<1>3. ASSUME NEW c \in Client, client[c] # "pending", NEW x, client' = [client EXCEPT ![c] = x],
             UNCHANGED <<backlog, acceptor>>
      PROVE  BacklogPending'
  BY <1>0, <1>1, <1>3 DEF TypeOK
<1>4. ASSUME NEW c \in Client, client[c] # "pending", NEW l \in Loop, NEW holder,
             Established(c, l, holder), UNCHANGED <<backlog, acceptor>>
      PROVE  BacklogPending'
  BY <1>3, <1>4 DEF Established
<1>5. ASSUME Accept PROVE BacklogPending'
  BY <1>2, <1>5 DEF Accept
<1>e. ASSUME AcceptErrs PROVE BacklogPending'
  <2>1. CASE UNCHANGED <<client, backlog>>
    BY <1>0, <1>1, <1>e, <2>1 DEF AcceptErrs
  <2>2. CASE ~UNCHANGED <<client, backlog>>
    BY <1>0, <1>2, <1>e, <2>2, ErrsFacts
  <2>. QED  BY <2>1, <2>2
<1>6. ASSUME AcceptFails PROVE BacklogPending'
  BY <1>0, <1>6 DEF AcceptFails, BacklogPending, server
<1>7. ASSUME CloseIdle PROVE BacklogPending'
  BY <1>0, <1>7 DEF CloseIdle, BacklogPending, server
<1>8. ASSUME AcceptIdle PROVE BacklogPending'
  <2>1. CASE Unopened = {}  BY <1>0, <1>8, <2>1 DEF AcceptIdle, BacklogPending
  <2>2. CASE Unopened # {}
    BY <1>0, <1>2, <1>8, <2>2 DEF AcceptIdle, BacklogPending
  <2>. QED  BY <2>1, <2>2
<1>9. ASSUME OpenIdle PROVE BacklogPending'
  BY <1>0, <1>9 DEF OpenIdle, BacklogPending, server
<1>10. ASSUME Insert PROVE BacklogPending'
  <2>1. inside[Base] \in Client /\ client[inside[Base]] # "pending"
    BY <1>0, <1>10 DEF Insert, TypeOK
  <2>. QED  BY <1>3, <1>4, <1>10, <2>1 DEF Insert
<1>11. ASSUME NEW l \in Loop, Establish(l) PROVE BacklogPending'
  <2>1. task_[l] \in Seq(Client) /\ task_[l] # <<>>  BY <1>0, <1>11 DEF Establish, TypeOK
  <2>2. Head(task_[l]) \in Client /\ Head(task_[l]) = task_[l][1] /\ 1 \in 1..Len(task_[l])
    BY <2>1
  <2>3. client[Head(task_[l])] # "pending"  BY <1>0, <2>2 DEF TasksQueued
  <2>. QED  BY <1>4, <1>11, <2>2, <2>3 DEF Establish
<1>12. ASSUME NEW l \in Loop, Erase(l) PROVE BacklogPending'
  <2>1. inside[l] \in Client /\ client[inside[l]] # "pending"
    BY <1>0, <1>12 DEF Erase, TypeOK
  <2>. QED  BY <1>3, <1>12, <2>1 DEF Erase
<1>13. ASSUME NEW c \in Client, Arrive(c) PROVE BacklogPending'
  <2>1. backlog \in Seq(Client)  BY <1>0 DEF TypeOK
  <2>2. backlog' = Append(backlog, c) /\ client' = [client EXCEPT ![c] = "pending"]
        /\ acceptor' = acceptor /\ client[c] = "none"
    BY <1>13 DEF Arrive
  <2>3. \A i \in 1..Len(backlog) : backlog[i] # c /\ backlog[i] \in Client
    BY <1>0, <2>1, <2>2, ElementOfSeq DEF BacklogPending
  <2>4. /\ Len(backlog') = Len(backlog) + 1 /\ Len(backlog) \in Nat
        /\ \A i \in 1..Len(backlog') :
               \/ i \in 1..Len(backlog) /\ backlog'[i] = backlog[i]
               \/ i = Len(backlog) + 1 /\ backlog'[i] = c
    BY <2>1, <2>2, AppendProperties
  <2>5. \A i \in 1..Len(backlog') : client'[backlog'[i]] = "pending"
    <3>. SUFFICES ASSUME NEW i \in 1..Len(backlog') PROVE client'[backlog'[i]] = "pending"
      OBVIOUS
    <3>1. CASE i \in 1..Len(backlog) /\ backlog'[i] = backlog[i]
      <4>1. client[backlog[i]] = "pending" /\ backlog[i] # c /\ backlog[i] \in Client
        BY <1>0, <2>3, <3>1 DEF BacklogPending
      <4>. QED  BY <1>b, <2>2, <3>1, <4>1
    <3>2. CASE backlog'[i] = c  BY <1>b, <2>2, <3>2
    <3>. QED  BY <2>4, <3>1, <3>2
  <2>6. \A i, j \in 1..Len(backlog') : backlog'[i] = backlog'[j] => i = j
    BY <1>0, <2>3, <2>4 DEF BacklogPending
  <2>7. backlog' # <<>>  BY <2>1, <2>2, AppendProperties
  <2>. QED  BY <2>5, <2>6, <2>7 DEF BacklogPending
<1>14. ASSUME NEW c \in Client, PeerCloses(c) PROVE BacklogPending'
  BY <1>3, <1>14 DEF PeerCloses
<1>15. ASSUME UNCHANGED <<backlog, acceptor, client>> PROVE BacklogPending'
  BY <1>1, <1>15
<1>. QED
  BY <1>5, <1>6, <1>7, <1>8, <1>9, <1>10, <1>11, <1>12, <1>13, <1>14, <1>15, <1>e
  DEF Next, AcceptorStep, LoopStep, PollStep, CloseStep, WorkerStep, Environment, OtherFd,
      EmplaceLoop, EmplacedLoop, BackLoop, BeginErase, PollDangling, server, vars

\* A connection is queued by Insert only, in its own loop.
LEMMA TasksStep ==
    ASSUME IInv, [Next]_vars
    PROVE  TasksQueued'
<1>. USE Numbers
<1>0. TypeOK /\ BacklogPending /\ TasksQueued  BY DEF IInv
<1>a. \A l \in Loop : task_[l] \in Seq(Client) /\ Len(task_[l]) \in Nat
  BY <1>0, LenProperties DEF TypeOK
<1>b. \A l \in Loop : \A i \in 1..Len(task_[l]) : task_[l][i] \in Client
  BY <1>a, ElementOfSeq
<1>c. client \in [Client -> {"none", "pending", "closed", "refused"} \cup Alive]
  BY <1>0 DEF TypeOK
<1>1. ASSUME UNCHANGED task_,
             \A c \in Client : client[c] = "queued" =>
                 client'[c] = "queued" /\ own_loop_'[c] = own_loop_[c]
      PROVE  TasksQueued'
  <2>1. \A l \in Loop : \A i \in 1..Len(task_[l]) :
            client'[task_[l][i]] = "queued" /\ own_loop_'[task_[l][i]] = l
    BY <1>0, <1>1, <1>b DEF TasksQueued
  <2>. QED  BY <1>0, <1>1, <2>1 DEF TasksQueued
<1>2. ASSUME NEW c \in Client, client[c] # "queued", NEW x, client' = [client EXCEPT ![c] = x],
             UNCHANGED <<task_, own_loop_>>
      PROVE  TasksQueued'
  BY <1>c, <1>1, <1>2
<1>3. ASSUME Accept PROVE TasksQueued'
  <2>1. Head(backlog) \in Client /\ client[Head(backlog)] # "queued"
    BY <1>0, <1>3, FirstWaiting DEF Accept
  <2>2. /\ client' = [client EXCEPT ![Head(backlog)] = "accepted"]
        /\ \/ UNCHANGED own_loop_
           \/ own_loop_' = [own_loop_ EXCEPT ![Head(backlog)] = eventloop_vec[current_index_ + 1]]
        /\ UNCHANGED task_
    BY <1>3 DEF Accept
  <2>3. own_loop_ \in [Client -> Loop]  BY <1>0 DEF TypeOK
  <2>. DEFINE h == Head(backlog)
  <2>. HIDE DEF h
  <2>4. \A c \in Client : client[c] = "queued" =>
                 client'[c] = "queued" /\ own_loop_'[c] = own_loop_[c]
    BY <1>c, <2>1, <2>2, <2>3
  <2>. QED  BY <1>1, <2>2, <2>4
<1>4. ASSUME AcceptIdle PROVE TasksQueued'
  <2>1. CASE Unopened = {}  BY <1>1, <1>4, <2>1 DEF AcceptIdle
  <2>2. CASE Unopened # {}
    <3>1. Head(backlog) \in Client /\ client[Head(backlog)] # "queued"
      BY <1>0, <1>4, FirstWaiting DEF AcceptIdle, BacklogPending
    <3>. QED  BY <1>2, <1>4, <2>2, <3>1 DEF AcceptIdle
  <2>. QED  BY <2>1, <2>2
<1>e. ASSUME AcceptErrs PROVE TasksQueued'
  <2>1. CASE UNCHANGED client  BY <1>0, <1>1, <1>e, <2>1, ErrsFacts
  <2>2. CASE ~UNCHANGED client
    <3>1. Head(backlog) \in Client /\ client[Head(backlog)] # "queued"
          /\ client' = [client EXCEPT ![Head(backlog)] = "closed"]
          /\ UNCHANGED <<task_, own_loop_>>
      BY <1>0, <1>e, <2>2, ErrsFacts
    <3>. QED  BY <1>2, <3>1
  <2>. QED  BY <2>1, <2>2
<1>5. ASSUME Insert PROVE TasksQueued'
  <2>. DEFINE c == inside[Base]
  <2>1. c \in Client /\ client[c] = "accepted"  BY <1>0, <1>5 DEF Insert, TypeOK
  <2>2. CASE own_loop_[c] = Base
    <3>1. UNCHANGED <<task_, own_loop_>> /\ Established(c, Base, connect_')
      BY <1>5, <2>2 DEF Insert
    <3>. QED  BY <1>2, <2>1, <3>1 DEF Established
  <2>3. CASE own_loop_[c] # Base
    <3>. DEFINE own == own_loop_[c]
    <3>1. /\ task_' = [task_ EXCEPT ![own] = Append(@, c)]
          /\ client' = [client EXCEPT ![c] = "queued"] /\ own_loop_' = own_loop_
      BY <1>5, <2>3 DEF Insert
    <3>2. own \in Loop /\ task_ \in [Loop -> Seq(Client)]  BY <1>0, <2>1 DEF TypeOK
    <3>3. \A l \in Loop : \A i \in 1..Len(task_[l]) :
              task_[l][i] # c /\ client[task_[l][i]] = "queued" /\ own_loop_[task_[l][i]] = l
      BY <1>0, <2>1 DEF TasksQueued
    <3>4. \A l \in Loop : l # own => task_'[l] = task_[l]  BY <3>1, <3>2
    <3>5. /\ Len(task_'[own]) = Len(task_[own]) + 1
          /\ \A i \in 1..Len(task_'[own]) :
                 \/ i \in 1..Len(task_[own]) /\ task_'[own][i] = task_[own][i]
                 \/ i = Len(task_[own]) + 1 /\ task_'[own][i] = c
      <4>1. task_'[own] = Append(task_[own], c)  BY <3>1, <3>2
      <4>. QED  BY <1>a, <2>1, <3>2, <4>1, AppendProperties
    <3>6. client'[c] = "queued" /\ own_loop_'[c] = own  BY <1>c, <2>1, <3>1
    <3>. HIDE DEF own, c
    <3>7. \A l \in Loop : \A i \in 1..Len(task_[l]) :
              client'[task_[l][i]] = "queued" /\ own_loop_'[task_[l][i]] = l
      BY <1>b, <1>c, <2>1, <3>1, <3>3
    <3>8. ASSUME NEW l \in Loop
          PROVE  /\ \A i \in 1..Len(task_'[l]) :
                        client'[task_'[l][i]] = "queued" /\ own_loop_'[task_'[l][i]] = l
                 /\ \A i, j \in 1..Len(task_'[l]) : task_'[l][i] = task_'[l][j] => i = j
      <4>1. CASE l = own
        <5>1. \A i \in 1..Len(task_'[l]) :
                  client'[task_'[l][i]] = "queued" /\ own_loop_'[task_'[l][i]] = l
          <6>. SUFFICES ASSUME NEW i \in 1..Len(task_'[own])
                        PROVE  /\ client'[task_'[own][i]] = "queued"
                               /\ own_loop_'[task_'[own][i]] = own
            BY <4>1
          <6>1. CASE i \in 1..Len(task_[own]) /\ task_'[own][i] = task_[own][i]
            BY <3>2, <3>7, <6>1
          <6>2. CASE task_'[own][i] = c
            BY <3>6, <6>2
          <6>. QED  BY <3>5, <6>1, <6>2
        <5>2. \A i, j \in 1..Len(task_[l]) : task_[l][i] = task_[l][j] => i = j
          BY <1>0 DEF TasksQueued
        <5>3. ASSUME NEW i \in 1..Len(task_'[l]), NEW j \in 1..Len(task_'[l]),
                     task_'[l][i] = task_'[l][j]
              PROVE  i = j
          <6>1. CASE i \in 1..Len(task_[own]) /\ task_'[own][i] = task_[own][i]
            <7>1. task_'[own][i] # c  BY <3>2, <3>3, <6>1
            <7>2. j \in 1..Len(task_[own]) /\ task_'[own][j] = task_[own][j]
              BY <3>5, <4>1, <5>3, <7>1
            <7>. QED  BY <4>1, <5>2, <5>3, <6>1, <7>2
          <6>2. CASE i = Len(task_[own]) + 1 /\ task_'[own][i] = c
            <7>1. task_'[own][j] = c  BY <4>1, <5>3, <6>2
            <7>2. ~(j \in 1..Len(task_[own]) /\ task_'[own][j] = task_[own][j])
              BY <3>2, <3>3, <7>1
            <7>. QED  BY <3>5, <4>1, <5>3, <6>2, <7>2
          <6>. QED  BY <3>5, <4>1, <5>3, <6>1, <6>2
        <5>. QED  BY <5>1, <5>3
      <4>2. CASE l # own
        <5>1. task_'[l] = task_[l]  BY <3>4, <4>2
        <5>2. \A i, j \in 1..Len(task_[l]) : task_[l][i] = task_[l][j] => i = j
          BY <1>0 DEF TasksQueued
        <5>. QED  BY <3>7, <5>1, <5>2
      <4>. QED  BY <4>1, <4>2
    <3>. QED  BY <3>8 DEF TasksQueued
  <2>. QED  BY <2>2, <2>3
<1>6. ASSUME NEW l \in Loop, Establish(l) PROVE TasksQueued'
  <2>. DEFINE c == Head(task_[l])
              q == Tail(task_[l])
  <2>1. /\ c \in Client /\ c = task_[l][1] /\ 1 \in 1..Len(task_[l])
        /\ Len(q) = Len(task_[l]) - 1
        /\ \A i \in 1..Len(q) : q[i] = task_[l][i + 1]
    BY <1>6, <1>a, HeadTailProperties DEF Establish
  <2>2. \E x : client' = [client EXCEPT ![c] = x]  BY <1>6 DEF Establish, Established
  <2>3. own_loop_' = own_loop_ /\ task_' = [task_ EXCEPT ![l] = q]  BY <1>6 DEF Establish
  <2>4. task_ \in [Loop -> Seq(Client)]  BY <1>0 DEF TypeOK
  <2>5. own_loop_[c] = l  BY <1>0, <2>1 DEF TasksQueued
  <2>. HIDE DEF c, q
  <2>6. ASSUME NEW k \in Loop
        PROVE  /\ \A i \in 1..Len(task_'[k]) :
                      client'[task_'[k][i]] = "queued" /\ own_loop_'[task_'[k][i]] = k
               /\ \A i, j \in 1..Len(task_'[k]) : task_'[k][i] = task_'[k][j] => i = j
    <3>0. \A i, j \in 1..Len(task_[k]) : task_[k][i] = task_[k][j] => i = j
      BY <1>0 DEF TasksQueued
    <3>a. \A i \in 1..Len(task_[k]) :
              client[task_[k][i]] = "queued" /\ own_loop_[task_[k][i]] = k
      BY <1>0 DEF TasksQueued
    <3>1. CASE k # l
      <4>1. task_'[k] = task_[k]  BY <2>3, <2>4, <3>1
      <4>2. \A i \in 1..Len(task_[k]) : task_[k][i] # c  BY <2>5, <3>1, <3>a
      <4>3. \A i \in 1..Len(task_[k]) : client'[task_[k][i]] = "queued"
        BY <1>b, <1>c, <2>2, <3>a, <4>2
      <4>. QED  BY <2>3, <3>0, <3>a, <4>1, <4>3
    <3>2. CASE k = l
      <4>1. task_'[k] = q  BY <2>3, <2>4, <3>2
      <4>2. \A i \in 1..Len(q) : i + 1 \in 1..Len(task_[k]) /\ i + 1 # 1
        BY <1>a, <2>1, <3>2
      <4>3. \A i \in 1..Len(q) : q[i] # c  BY <2>1, <3>0, <3>2, <4>2
      <4>4. \A i \in 1..Len(q) : q[i] \in Client /\ client[q[i]] = "queued" /\ own_loop_[q[i]] = k
        BY <1>b, <2>1, <3>2, <3>a, <4>2
      <4>5. \A i \in 1..Len(q) : client'[q[i]] = "queued" /\ own_loop_'[q[i]] = k
        BY <1>c, <2>2, <2>3, <4>3, <4>4
      <4>6. ASSUME NEW i \in 1..Len(q), NEW j \in 1..Len(q), q[i] = q[j] PROVE i = j
        <5>1. i + 1 \in 1..Len(task_[l]) /\ j + 1 \in 1..Len(task_[l])  BY <3>2, <4>2
        <5>2. task_[l][i + 1] = task_[l][j + 1]  BY <2>1, <4>6
        <5>3. i + 1 = j + 1  BY <3>0, <3>2, <5>1, <5>2
        <5>. QED  BY <5>3
      <4>. QED  BY <4>1, <4>5, <4>6
    <3>. QED  BY <3>1, <3>2
  <2>. QED  BY <2>6 DEF TasksQueued
<1>7. ASSUME NEW l \in Loop, Erase(l) PROVE TasksQueued'
  <2>1. inside[l] \in Client /\ client[inside[l]] # "queued"
    BY <1>0, <1>7 DEF Erase, TypeOK
  <2>. QED  BY <1>2, <1>7, <2>1 DEF Erase
<1>8. ASSUME NEW c \in Client, Arrive(c) PROVE TasksQueued'
  BY <1>2, <1>8 DEF Arrive
<1>9. ASSUME NEW c \in Client, PeerCloses(c) PROVE TasksQueued'
  BY <1>2, <1>9 DEF PeerCloses
<1>10. ASSUME UNCHANGED <<task_, client, own_loop_>> PROVE TasksQueued'
  BY <1>1, <1>10
<1>. QED
  BY <1>3, <1>4, <1>5, <1>6, <1>7, <1>8, <1>9, <1>10, <1>e
  DEF Next, AcceptorStep, LoopStep, PollStep, CloseStep, WorkerStep, Environment, OtherFd,
      AcceptFails, CloseIdle, OpenIdle, EmplaceLoop, EmplacedLoop, BackLoop, BeginErase,
      PollDangling, server, vars

-----------------------------------------------------------------------------
(* The loops.                                                               *)

\* GetNextLoop() sets the index back whenever there is a second thread.
LEMMA IndexStep ==
    ASSUME IInv, [Next]_vars
    PROVE  IndexStays'
<1>. USE Numbers
<1>0. TypeOK /\ IndexStays /\ SingleWorker  BY DEF IInv
<1>1. CASE UNCHANGED <<thread_num_, current_index_>>  BY <1>0, <1>1 DEF IndexStays
<1>2. CASE Accept /\ current_index_' # current_index_
  <2>1. /\ thread_num_' = thread_num_ /\ current_index_' = NextIndex
        /\ ~(current_index_ >= Len(eventloop_vec))
    BY <1>2 DEF Accept
  <2>2. current_index_ \in Nat /\ thread_num_ \in Nat  BY <1>0 DEF TypeOK
  <2>3. CASE thread_num_ > 1
    BY <1>0, <2>1, <2>2, <2>3 DEF IndexStays, NextIndex
  <2>4. CASE thread_num_ = 1
    <3>0. thread_num_ \in Loop  BY <1>0 DEF TypeOK
    <3>1. 1 \in Worker  BY <2>4, <3>0 DEF Worker, Base
    <3>2. worker[1].at \in {"new", "emplace", "back", "Loop"}
      BY <1>0, <3>1 DEF TypeOK
    <3>3. eventloop_vec = <<>> \/ eventloop_vec = <<1>>
      BY <1>0, <2>4, <3>2 DEF SingleWorker
    <3>4. Len(eventloop_vec) <= 1  BY <3>3
    <3>5. current_index_ = 0  BY <2>1, <2>2, <3>3, <3>4
    <3>6. current_index_' = 1  BY <2>1, <2>4, <3>5 DEF NextIndex
    <3>. QED  BY <2>1, <2>4, <3>6 DEF IndexStays
  <2>5. CASE thread_num_ = 0  BY <2>1, <2>5 DEF IndexStays
  <2>. QED  BY <2>2, <2>3, <2>4, <2>5
<1>. QED
  BY <1>1, <1>2
  DEF Next, AcceptorStep, LoopStep, PollStep, CloseStep, WorkerStep, Environment, OtherFd, Accept,
      AcceptFails, AcceptErrs, AcceptIdle, CloseIdle, OpenIdle, Insert, Establish, Erase,
      EmplaceLoop, EmplacedLoop, BackLoop, BeginErase, PollDangling, Arrive, PeerCloses, pool, server, vars

\* A single worker has the vector to itself.
LEMMA SingleWorkerStep ==
    ASSUME IInv, [Next]_vars
    PROVE  SingleWorker'
<1>. USE Numbers
<1>0. TypeOK /\ SingleWorker  BY DEF IInv
<1>a. \A w \in Worker : w \in Nat /\ w > 0  BY DEF Worker, Loop, Base
<1>b. thread_num_ \in Nat /\ thread_num_ \in Loop  BY <1>0 DEF TypeOK
<1>c. worker \in [Worker -> [at : {"new", "emplace", "back", "Loop"}, read : Seq(Worker)]]
  BY <1>0 DEF TypeOK
<1>d. thread_num_ = 1 => 1 \in Worker  BY <1>b DEF Worker, Base
<1>e. \A w \in Worker : worker[w].at # "new" => w <= thread_num_
  BY <1>0, <1>a, <1>b DEF SingleWorker
<1>f. \A w \in Worker : thread_num_ = 1 /\ w <= thread_num_ => w = 1  BY <1>a
<1>1. ASSUME NEW w \in Worker, EmplaceLoop(w) PROVE SingleWorker'
  <2>1. w <= thread_num_ /\ worker[w].at = "new"  BY <1>1 DEF EmplaceLoop
  <2>2. /\ worker' = [worker EXCEPT ![w] = [at |-> "emplace", read |-> eventloop_vec]]
        /\ UNCHANGED <<thread_num_, eventloop_vec, inside>>
    BY <1>1 DEF EmplaceLoop, server
  <2>3. \A v \in Worker : v > thread_num_ => worker'[v].at = "new"
    BY <1>0, <1>a, <1>b, <1>c, <2>1, <2>2 DEF SingleWorker
  <2>4. thread_num_ = 1 =>
            /\ worker'[1].at = "emplace" /\ worker'[1].read = <<>> /\ eventloop_vec = <<>>
    BY <1>0, <1>c, <1>d, <1>f, <2>1, <2>2 DEF SingleWorker
  <2>. QED  BY <1>0, <2>2, <2>3, <2>4 DEF SingleWorker
<1>2. ASSUME NEW w \in Worker, EmplacedLoop(w) PROVE SingleWorker'
  <2>1. w <= thread_num_ /\ worker[w].at = "emplace"  BY <1>2, <1>e DEF EmplacedLoop
  <2>2. /\ worker' = [worker EXCEPT ![w] = [at |-> "back", read |-> <<>>]]
        /\ eventloop_vec' = Append(worker[w].read, w)
        /\ UNCHANGED <<thread_num_, inside>>
    BY <1>2 DEF EmplacedLoop, server
  <2>3. \A v \in Worker : v > thread_num_ => worker'[v].at = "new"
    BY <1>0, <1>a, <1>b, <1>c, <2>1, <2>2 DEF SingleWorker
  <2>4. thread_num_ = 1 => worker'[1].at = "back" /\ eventloop_vec' = <<1>>
    <3>. HAVE thread_num_ = 1
    <3>1. w = 1  BY <1>f, <2>1
    <3>2. worker[1].read = <<>>  BY <1>0, <2>1, <3>1 DEF SingleWorker
    <3>3. eventloop_vec' = <<1>>  BY <2>2, <3>1, <3>2
    <3>. QED  BY <1>c, <2>2, <3>1, <3>3
  <2>. QED  BY <1>0, <2>2, <2>3, <2>4 DEF SingleWorker
<1>3. ASSUME NEW w \in Worker, BackLoop(w) PROVE SingleWorker'
  <2>1. w <= thread_num_ /\ worker[w].at = "back"  BY <1>3, <1>e DEF BackLoop
  <2>2. /\ worker' = [worker EXCEPT ![w].at = "Loop"]
        /\ UNCHANGED <<thread_num_, eventloop_vec, inside>>
    BY <1>3 DEF BackLoop, server
  <2>3. \A v \in Worker : v > thread_num_ => worker'[v].at = "new"
    BY <1>0, <1>a, <1>b, <1>c, <2>1, <2>2 DEF SingleWorker
  <2>4. thread_num_ = 1 => worker'[1].at = "Loop" /\ eventloop_vec' = <<1>>
    BY <1>0, <1>c, <1>d, <1>f, <2>1, <2>2 DEF SingleWorker
  <2>. QED  BY <1>0, <2>2, <2>3, <2>4 DEF SingleWorker
<1>4. ASSUME UNCHANGED <<thread_num_, eventloop_vec, worker>>,
             \A l \in Worker : inside'[l] # Nobody => inside[l] # Nobody \/ worker[l].at = "Loop"
      PROVE  SingleWorker'
  <2>1. \A l \in Worker : inside'[l] # Nobody => thread_num_ > 0
    BY <1>0, <1>4, <1>a, <1>b, <1>e DEF SingleWorker
  <2>. QED  BY <1>0, <1>4, <2>1 DEF SingleWorker
<1>5. ASSUME Accept PROVE SingleWorker'
  BY <1>0, <1>4, <1>5 DEF Accept, TypeOK, Worker
<1>6. ASSUME Insert PROVE SingleWorker'
  BY <1>0, <1>4, <1>6 DEF Insert, TypeOK, Worker, pool
<1>7. ASSUME NEW l \in Loop, Erase(l) PROVE SingleWorker'
  BY <1>0, <1>4, <1>7 DEF Erase, TypeOK, pool
<1>8. ASSUME NEW c \in Client, BeginErase(c) PROVE SingleWorker'
  <2>1. /\ own_loop_[c] \in Worker => worker[own_loop_[c]].at = "Loop"
        /\ inside' = [inside EXCEPT ![own_loop_[c]] = c]
        /\ UNCHANGED <<thread_num_, eventloop_vec, worker>>
    BY <1>8 DEF BeginErase, Running, Worker, pool
  <2>2. inside \in [Loop -> Client \cup {Nobody}]  BY <1>0 DEF TypeOK
  <2>. QED  BY <1>4, <2>1, <2>2
<1>9. ASSUME UNCHANGED <<thread_num_, eventloop_vec, worker, inside>> PROVE SingleWorker'
  BY <1>4, <1>9
<1>. QED
  BY <1>1, <1>2, <1>3, <1>5, <1>6, <1>7, <1>8, <1>9
  DEF Next, AcceptorStep, LoopStep, PollStep, CloseStep, WorkerStep, Environment, OtherFd,
      AcceptFails, AcceptErrs, AcceptIdle, CloseIdle, OpenIdle, Establish, PollDangling, Arrive,
      PeerCloses, pool, server, vars

-----------------------------------------------------------------------------
(* One connection at a time.                                                *)

\* The number of connections there have been at once.
LEMMA MostNumber ==
    ASSUME TypeOK
    PROVE  most \in Nat
<1>1. most \in 0..MaxClient  BY DEF TypeOK
<1>. QED  BY <1>1, Numbers

\* What keeps the first part: nobody new is alive, and connect_ stays so.
LEMMA FewerLiving ==
    ASSUME IInv, Living' \subseteq Living, UNCHANGED most
    PROVE  Cardinality(Living') <= most'
<1>1. Cardinality(Living') <= Cardinality(Living) /\ Cardinality(Living') \in Nat
  BY LivingFinite, FS_Subset, FS_CardinalityType
<1>2. Cardinality(Living) \in Nat  BY LivingFinite, FS_CardinalityType
<1>3. Cardinality(Living) <= most /\ most \in Nat
  BY MostNumber DEF IInv, OneAtATime
<1>. QED  BY <1>1, <1>2, <1>3

\* Two that are alive have been counted.
LEMMA TwoCounted ==
    ASSUME IInv, NEW a \in Living, NEW b \in Living, a # b
    PROVE  ~(most <= 1)
<1>1. Cardinality(Living) > 1  BY TwoLiving
<1>2. Cardinality(Living) \in Nat  BY LivingFinite, FS_CardinalityType
<1>3. Cardinality(Living) <= most /\ most \in Nat
  BY MostNumber DEF IInv, OneAtATime
<1>. QED  BY <1>1, <1>2, <1>3

\* Only an Insert or Establish beside another connection leaves a channel dangling.
LEMMA OneAtATimeStep ==
    ASSUME IInv, [Next]_vars
    PROVE  OneAtATime'
<1>. USE Numbers
<1>0. TypeOK /\ OneAtATime /\ BacklogPending /\ TasksQueued  BY DEF IInv
<1>a. client \in [Client -> {"none", "pending", "closed", "refused"} \cup Alive]
      /\ connect_ \in Client \cup {Nobody}
  BY <1>0 DEF TypeOK
<1>b. connect_ # Nobody => connect_ \in Living  BY <1>0, <1>a DEF OneAtATime, Living
<1>c. \A c \in Client : client[c] = "queued" => c \in Living  BY DEF Living, Alive
<1>1. ASSUME UNCHANGED <<connect_, dangling, most>>, NEW c \in Client, NEW x,
             client' = [client EXCEPT ![c] = x],
             c \in Living <=> x \in Alive,
             x # "queued"
      PROVE  OneAtATime'
  <2>1. Living' = Living  BY <1>a, <1>1 DEF Living
  <2>2. Cardinality(Living') <= most'  BY <1>1, <2>1, FewerLiving
  <2>3. connect_' # Nobody => client'[connect_'] \in Alive
    BY <1>a, <1>b, <1>1, <2>1 DEF Living
  <2>4. \A d \in Client : client'[d] = "queued" => client[d] = "queued"
    BY <1>a, <1>1
  <2>. QED  BY <1>0, <1>1, <2>2, <2>3, <2>4 DEF OneAtATime
<1>2. ASSUME UNCHANGED <<connect_, dangling, most>>, NEW c \in Client, NEW x,
             client' = [client EXCEPT ![c] = x], c \notin Living, x \notin Alive
      PROVE  OneAtATime'
  <2>1. x # "queued"  BY <1>2 DEF Alive
  <2>. QED  BY <1>1, <1>2, <2>1
<1>3. ASSUME NEW c \in Living, connect_ # c, ~(most <= 1), UNCHANGED <<connect_, most>>,
             client' = [client EXCEPT ![c] = "closed"]
      PROVE  OneAtATime'
  <2>1. Living' \subseteq Living  BY <1>a, <1>3 DEF Living, Alive
  <2>2. Cardinality(Living') <= most'  BY <1>3, <2>1, FewerLiving
  <2>3. connect_' # Nobody => client'[connect_'] \in Alive
    BY <1>a, <1>b, <1>3 DEF Living
  <2>. QED  BY <1>3, <2>2, <2>3 DEF OneAtATime
<1>4. ASSUME Accept PROVE OneAtATime'
  <2>. DEFINE c == Head(backlog)
              n == Cardinality(Living')
  <2>1. c \in Client /\ client[c] = "pending"
    BY <1>0, <1>4, FirstWaiting DEF Accept
  <2>2. /\ client' = [client EXCEPT ![c] = "accepted"]
        /\ most' = IF n > most THEN n ELSE most
        /\ UNCHANGED <<connect_, dangling>>
    BY <1>4 DEF Accept, Living
  <2>3. n \in Nat
    <3>1. Living' \in SUBSET Client  BY DEF Living
    <3>. QED  BY <3>1, LivingFinite, FS_Subset, FS_CardinalityType
  <2>4. most \in Nat  BY <1>0, MostNumber
  <2>. HIDE DEF n, c
  <2>5. n <= most' /\ (most' <= 1 => most <= 1)  BY <2>2, <2>3, <2>4
  <2>6. connect_' # Nobody => client'[connect_'] \in Alive
    BY <1>a, <1>b, <2>1, <2>2 DEF Living, Alive
  <2>7. \A d \in Client : client'[d] = "queued" => client[d] = "queued"
    BY <1>a, <2>1, <2>2
  <2>. QED  BY <1>0, <2>2, <2>5, <2>6, <2>7 DEF OneAtATime, n
<1>5. ASSUME AcceptIdle PROVE OneAtATime'
  <2>1. UNCHANGED <<connect_, dangling, most>>  BY <1>5 DEF AcceptIdle
  <2>2. CASE Unopened = {}
    <3>1. client' = client  BY <1>5, <2>2 DEF AcceptIdle
    <3>2. Living' = Living  BY <3>1 DEF Living
    <3>. QED  BY <1>0, <2>1, <3>1, <3>2 DEF OneAtATime
  <2>3. CASE Unopened # {}
    <3>1. Head(backlog) \in Client /\ client[Head(backlog)] = "pending"
      BY <1>0, <1>5, FirstWaiting DEF AcceptIdle, BacklogPending
    <3>2. client' = [client EXCEPT ![Head(backlog)] = "refused"]
      BY <1>5, <2>3 DEF AcceptIdle
    <3>3. Head(backlog) \notin Living /\ "refused" \notin Alive  BY <3>1 DEF Living, Alive
    <3>. QED  BY <1>2, <2>1, <3>1, <3>2, <3>3
  <2>. QED  BY <2>2, <2>3
<1>e. ASSUME AcceptErrs PROVE OneAtATime'
  <2>1. UNCHANGED <<connect_, dangling, most>>  BY <1>e DEF AcceptErrs
  <2>2. CASE UNCHANGED client
    <3>1. Living' = Living  BY <2>2 DEF Living
    <3>. QED  BY <1>0, <2>1, <2>2, <3>1 DEF OneAtATime
  <2>3. CASE ~UNCHANGED client
    <3>1. /\ Head(backlog) \in Client /\ client[Head(backlog)] = "pending"
          /\ client' = [client EXCEPT ![Head(backlog)] = "closed"]
      BY <1>0, <1>e, <2>3, ErrsFacts
    <3>2. Head(backlog) \notin Living /\ "closed" \notin Alive  BY <3>1 DEF Living, Alive
    <3>. QED  BY <1>2, <2>1, <3>1, <3>2
  <2>. QED  BY <2>2, <2>3
<1>6. ASSUME Insert PROVE OneAtATime'
  <2>. DEFINE c == inside[Base]
  <2>1. c \in Client /\ client[c] = "accepted"  BY <1>0, <1>6 DEF Insert, TypeOK
  <2>2. c \in Living  BY <2>1 DEF Living, Alive
  <2>3. connect_' = (IF connect_ = Nobody THEN c ELSE connect_) /\ UNCHANGED most
    BY <1>6 DEF Insert
  <2>4. CASE own_loop_[c] = Base
    <3>1. Established(c, Base, connect_')  BY <1>6, <2>4 DEF Insert
    <3>. HIDE DEF c
    <3>2. CASE connect_' = c
      <4>1. client' = [client EXCEPT ![c] = "up"] /\ UNCHANGED dangling
        BY <3>1, <3>2 DEF Established
      <4>2. Living' \subseteq Living  BY <1>a, <2>2, <4>1 DEF Living
      <4>3. Cardinality(Living') <= most'  BY <2>3, <4>2, FewerLiving
      <4>4. client'[connect_'] \in Alive  BY <1>a, <2>1, <3>2, <4>1 DEF Alive
      <4>5. \A d \in Client : client'[d] = "queued" => d # c /\ client[d] = "queued"
        BY <1>a, <2>1, <4>1
      <4>6. most' <= 1 => dangling' = {}  BY <1>0, <2>3, <4>1 DEF OneAtATime
      <4>7. most' <= 1 => \A d \in Client : client'[d] # "queued"
        BY <1>c, <2>2, <2>3, <4>5, TwoCounted
      <4>. QED  BY <4>3, <4>4, <4>6, <4>7 DEF OneAtATime
    <3>3. CASE connect_' # c
      <4>1. client' = [client EXCEPT ![c] = "closed"]
        BY <3>1, <3>3 DEF Established
      <4>2. connect_' = connect_ /\ connect_ \in Living  BY <1>b, <2>3, <3>3
      <4>3. ~(most <= 1)  BY <2>2, <3>3, <4>2, TwoCounted
      <4>. QED  BY <1>3, <2>2, <2>3, <3>3, <4>1, <4>2, <4>3
    <3>. QED  BY <3>2, <3>3
  <2>5. CASE own_loop_[c] # Base
    <3>1. client' = [client EXCEPT ![c] = "queued"] /\ UNCHANGED dangling
      BY <1>6, <2>5 DEF Insert
    <3>. HIDE DEF c
    <3>2. Living' \subseteq Living  BY <1>a, <2>2, <3>1 DEF Living
    <3>3. Cardinality(Living') <= most'  BY <2>3, <3>2, FewerLiving
    <3>4. connect_' # Nobody => client'[connect_'] \in Alive
      BY <1>a, <1>b, <2>1, <2>3, <3>1 DEF Living, Alive
    <3>5. most' <= 1 => dangling' = {}  BY <1>0, <2>3, <3>1 DEF OneAtATime
    <3>6. most' <= 1 => \A d \in Client : client'[d] = "queued" => connect_' = d
      <4>1. ASSUME NEW d \in Client, client'[d] = "queued", most' <= 1 PROVE connect_' = d
        <5>1. d # c => client[d] = "queued"  BY <1>a, <2>1, <3>1, <4>1
        <5>2. d = c  BY <1>c, <2>2, <2>3, <4>1, <5>1, TwoCounted
        <5>3. connect_ # Nobody => connect_ = c
          BY <1>b, <2>2, <2>3, <4>1, TwoCounted
        <5>. QED  BY <2>3, <5>2, <5>3
      <4>. QED  BY <4>1
    <3>. QED  BY <3>3, <3>4, <3>5, <3>6 DEF OneAtATime
  <2>. QED  BY <2>4, <2>5
<1>7. ASSUME NEW l \in Loop, Establish(l) PROVE OneAtATime'
  <2>. DEFINE c == Head(task_[l])
  <2>1. task_[l] \in Seq(Client) /\ task_[l] # <<>>  BY <1>0, <1>7 DEF Establish, TypeOK
  <2>2. c \in Client /\ c = task_[l][1] /\ 1 \in 1..Len(task_[l])  BY <2>1
  <2>3. client[c] = "queued"  BY <1>0, <2>2 DEF TasksQueued
  <2>4. c \in Living  BY <1>c, <2>2, <2>3
  <2>5. Established(c, l, connect_) /\ UNCHANGED <<connect_, most>>
    BY <1>7 DEF Establish
  <2>. HIDE DEF c
  <2>6. CASE connect_ = c
    <3>1. client' = [client EXCEPT ![c] = "up"] /\ UNCHANGED dangling
      BY <2>5, <2>6 DEF Established
    <3>. QED  BY <1>1, <2>4, <2>2, <2>5, <3>1 DEF Alive
  <2>7. CASE connect_ # c
    <3>1. client' = [client EXCEPT ![c] = "closed"]  BY <2>5, <2>7 DEF Established
    <3>2. ~(most <= 1)  BY <1>0, <2>2, <2>3, <2>7 DEF OneAtATime
    <3>. QED  BY <1>3, <2>4, <2>5, <2>7, <3>1, <3>2
  <2>. QED  BY <2>6, <2>7
<1>8. ASSUME NEW l \in Loop, Erase(l) PROVE OneAtATime'
  <2>. DEFINE c == inside[l]
  <2>1. c \in Client /\ client[c] = "finished"  BY <1>0, <1>8 DEF Erase, TypeOK
  <2>2. c \in Living  BY <2>1 DEF Living, Alive
  <2>3. /\ client' = [client EXCEPT ![c] = "closed"] /\ connect_' = Nobody
        /\ UNCHANGED <<dangling, most>>
    BY <1>8 DEF Erase
  <2>. HIDE DEF c
  <2>4. Living' \subseteq Living  BY <1>a, <2>3 DEF Living, Alive
  <2>5. Cardinality(Living') <= most'  BY <2>3, <2>4, FewerLiving
  <2>6. \A d \in Client : client'[d] = "queued" => d # c /\ client[d] = "queued"
    BY <1>a, <2>1, <2>3
  <2>7. most' <= 1 => \A d \in Client : client'[d] # "queued"
    BY <1>c, <2>2, <2>3, <2>6, TwoCounted
  <2>8. most' <= 1 => dangling' = {}  BY <1>0, <2>3 DEF OneAtATime
  <2>. QED  BY <2>3, <2>5, <2>7, <2>8 DEF OneAtATime
<1>9. ASSUME NEW c \in Client, Arrive(c) PROVE OneAtATime'
  BY <1>2, <1>9 DEF Arrive, Living, Alive
<1>10. ASSUME NEW c \in Client, PeerCloses(c) PROVE OneAtATime'
  <2>1. c \in Living /\ "finished" \in Alive  BY <1>10 DEF PeerCloses, Living, Alive
  <2>. QED  BY <1>1, <1>10, <2>1 DEF PeerCloses
<1>11. ASSUME UNCHANGED <<client, connect_, dangling, most>> PROVE OneAtATime'
  <2>1. Living' = Living  BY <1>11 DEF Living
  <2>. QED  BY <1>0, <1>11, <2>1 DEF OneAtATime
<1>. QED
  BY <1>4, <1>5, <1>6, <1>7, <1>8, <1>9, <1>10, <1>11, <1>e
  DEF Next, AcceptorStep, LoopStep, PollStep, CloseStep, WorkerStep, Environment, OtherFd,
      AcceptFails, CloseIdle, OpenIdle, EmplaceLoop, EmplacedLoop, BackLoop, BeginErase,
      PollDangling, server, vars

-----------------------------------------------------------------------------
(* What goes wrong, and when.                                               *)

\* Each step that fails does so in a state the invariant describes.
LEMMA FailsOnlyWhenStep ==
    ASSUME IInv, [Next]_vars
    PROVE  FailsOnlyWhen'
<1>. USE Numbers
<1>0. TypeOK /\ IndexStays /\ SingleWorker /\ OneAtATime /\ FailsOnlyWhen  BY DEF IInv
<1>a. thread_num_ \in Nat /\ thread_num_ \in Loop /\ current_index_ \in Nat /\ most \in Nat
  BY <1>0, MostNumber DEF TypeOK
<1>b. eventloop_vec \in Seq(Worker) /\ Len(eventloop_vec) \in Nat
  BY <1>0, LenProperties DEF TypeOK
<1>1. ASSUME failed = "", UNCHANGED failed PROVE FailsOnlyWhen'
  BY <1>1 DEF FailsOnlyWhen
<1>2. ASSUME failed = "", NEW w \in Worker, BackLoop(w) PROVE FailsOnlyWhen'
  <2>1. failed' \in {"", "Loop"} /\ thread_num_' = thread_num_  BY <1>2 DEF BackLoop
  <2>2. failed' = "Loop" => eventloop_vec[Len(eventloop_vec)] # w
    BY <1>2 DEF BackLoop
  <2>3. worker[w].at = "back"  BY <1>2 DEF BackLoop
  <2>4. w \in Nat /\ w > 0  BY DEF Worker, Loop, Base
  <2>5. ~(w > thread_num_)  BY <1>0, <2>3 DEF SingleWorker
  <2>6. CASE thread_num_ = 1
    <3>1. w = 1  BY <2>4, <2>5, <2>6
    <3>2. eventloop_vec = <<1>>  BY <1>0, <2>3, <2>6, <3>1 DEF SingleWorker
    <3>3. eventloop_vec[Len(eventloop_vec)] = 1  BY <3>2
    <3>. QED  BY <2>1, <2>2, <3>1, <3>3 DEF FailsOnlyWhen
  <2>7. CASE thread_num_ > 1  BY <2>1, <2>7 DEF FailsOnlyWhen
  <2>. QED  BY <1>a, <2>4, <2>5, <2>6, <2>7
<1>3. ASSUME failed = "", Accept PROVE FailsOnlyWhen'
  <2>1. CASE UNCHANGED failed  BY <1>1, <1>3, <2>1
  <2>a. CASE failed' = "vector"  BY <2>a DEF FailsOnlyWhen
  <2>2. CASE ~ UNCHANGED failed /\ failed' # "vector"
    <3>1. /\ failed' = "index" /\ thread_num_ # 0 /\ current_index_ >= Len(eventloop_vec)
          /\ UNCHANGED <<thread_num_, eventloop_vec, current_index_>>
      BY <1>3, <2>2 DEF Accept
    <3>2. eventloop_vec = <<>> \/ (thread_num_ = 1 /\ current_index_ = 1)
      <4>1. CASE thread_num_ = 1
        <5>1. current_index_ <= 1  BY <1>0, <4>1 DEF IndexStays
        <5>2. CASE current_index_ = 0
          <6>1. Len(eventloop_vec) = 0  BY <1>b, <3>1, <5>2
          <6>. QED  BY <1>b, <6>1, EmptySeq
        <5>. QED  BY <1>a, <4>1, <5>1, <5>2
      <4>2. CASE thread_num_ > 1
        <5>1. current_index_ = 0  BY <1>0, <4>2 DEF IndexStays
        <5>2. Len(eventloop_vec) = 0  BY <1>b, <3>1, <5>1
        <5>. QED  BY <1>b, <5>2, EmptySeq
      <4>. QED  BY <1>a, <3>1, <4>1, <4>2
    <3>. QED  BY <3>1, <3>2 DEF FailsOnlyWhen
  <2>. QED  BY <2>1, <2>2, <2>a
<1>e. ASSUME failed = "", AcceptErrs PROVE FailsOnlyWhen'
  BY <1>1, <1>e DEF AcceptErrs, FailsOnlyWhen
<1>4. ASSUME NEW l \in Loop, inside[l] # Nobody, Shared(l) PROVE thread_num_ > 0
  <2>1. PICK other \in Loop \ {l} : inside[other] # Nobody  BY <1>4 DEF Shared
  <2>2. l \in Worker \/ other \in Worker  BY <2>1 DEF Worker
  <2>. QED  BY <1>0, <1>4, <2>1, <2>2 DEF SingleWorker
<1>5. ASSUME failed = "", Insert PROVE FailsOnlyWhen'
  BY <1>4, <1>5 DEF Insert, FailsOnlyWhen
<1>6. ASSUME failed = "", NEW l \in Loop, Erase(l) PROVE FailsOnlyWhen'
  BY <1>4, <1>6 DEF Erase, FailsOnlyWhen
<1>7. ASSUME NEW l \in Loop, PollDangling(l) PROVE FailsOnlyWhen'
  <2>1. dangling # {} /\ failed' = "channel" /\ most' = most
    BY <1>7 DEF PollDangling, server
  <2>2. ~(most <= 1)  BY <1>0, <2>1 DEF OneAtATime
  <2>3. most > 1  BY <1>a, <2>2
  <2>. QED  BY <2>1, <2>3 DEF FailsOnlyWhen
<1>8. ASSUME UNCHANGED vars PROVE FailsOnlyWhen'
  BY <1>0, <1>8 DEF FailsOnlyWhen, vars, pool, server
<1>. QED
  BY <1>1, <1>2, <1>3, <1>5, <1>6, <1>7, <1>8, <1>e
  DEF Next, AcceptorStep, LoopStep, PollStep, CloseStep, WorkerStep, Environment, OtherFd,
      AcceptFails, AcceptIdle, CloseIdle, OpenIdle, Establish, EmplaceLoop, EmplacedLoop,
      BeginErase, Arrive, PeerCloses

-----------------------------------------------------------------------------
\* The invariant is inductive.
LEMMA Inductive ==
    Spec => []IInv
<1>1. IInv /\ [Next]_vars => IInv'
  <2>. SUFFICES ASSUME IInv, [Next]_vars PROVE IInv'
    OBVIOUS
  <2>1. TypeOK'  BY TypeStep DEF IInv
  <2>. QED
    BY <2>1, IdleStep, OwnersStep, BacklogStep, TasksStep, IndexStep, SingleWorkerStep,
       OneAtATimeStep, FailsOnlyWhenStep
    DEF IInv
<1>. QED  BY InitInv, <1>1, PTL DEF Spec

\* At most one descriptor is the acceptor's: idle_fd_, or none.
LEMMA IdleOnce ==
    ASSUME IInv
    PROVE  IdleFdOwn
<1>. DEFINE idle == {f \in Fd : fd[f] = Idle}
<1>1. idle \subseteq {idle_fd_}  BY DEF IInv, IdleKept
<1>2. IsFiniteSet({idle_fd_}) /\ Cardinality({idle_fd_}) = 1  BY FS_Singleton
<1>3. Cardinality(idle) <= 1
  <2>. HIDE DEF idle
  <2>. QED  BY <1>1, <1>2, FS_Subset
<1>. QED  BY <1>3 DEF IInv, IdleKept, OwnersAlive, IdleFdOwn

\* Whatever other parts of the process open while HandleRead() has given up idle_fd_,
\* the acceptor closes only a descriptor that is its own.
THEOREM IdleFdOwnCorrect == Spec => []IdleFdOwn
BY Inductive, IdleOnce, PTL

\* A server of one loop never leaves the vector, runs a loop on the wrong thread, nor
\* shares connect_; the vector is left, a loop run by another thread, connect_ shared
\* and a destroyed connection polled only when FailsOnlyWhen says.
THEOREM FailsOnlyWhenCorrect == Spec => []FailsOnlyWhen
<1>1. IInv => FailsOnlyWhen  BY DEF IInv
<1>. QED  BY Inductive, <1>1, PTL
=============================================================================
