------------------------------ MODULE TcpServer ------------------------------
(***************************************************************************)
(* Net::TcpServer with its Acceptor and EventLoopThreadPool, from Start():  *)
(* the worker threads make their loops while the base loop may already      *)
(* accept; each connection is given to a loop, which establishes it and     *)
(* closes it when its peer has.  Nothing of this is locked.  Clients and    *)
(* the other descriptors of the process are the environment.                *)
(*                                                                         *)
(* A loop is named by the thread that made it.  Each connection is given    *)
(* the name "-1", as next_connect_id_ is not advanced, so that connect_     *)
(* holds one at most.                                                       *)
(***************************************************************************)
EXTENDS Integers, Sequences, FiniteSets

CONSTANTS MaxThread, MaxClient, MaxFd       \* bounds; descriptors are 0..MaxFd - 1

ASSUME BoundAssumption == {MaxThread, MaxClient} \subseteq Nat /\ MaxFd \in Nat \ {0}

Base == 0
Loop == 0..MaxThread
Worker == Loop \ {Base}
Client == 1..MaxClient
Nobody == 0
Fd == 0..(MaxFd - 1)

\* Owners of descriptors that are no connection's.
Unused == 0
Idle == -1
Other == -2

VARIABLES
    thread_num_, eventloop_vec, current_index_,
    worker,         \* of each worker, what it does in Task(), and what it has read
    client,         \* of each client, how far its connection is
    backlog,        \* clients the kernel has connected, to be accepted
    own_loop_,      \* of each connection
    task_,          \* of each loop, the connections it is to establish
    connect_,       \* the connection the server's map holds
    inside,         \* of each loop, the connection it inserts into or erases from connect_
    dangling,       \* loops whose poll list has a destroyed channel
    fd,             \* of each descriptor, its owner
    idle_fd_, acceptor,     \* acceptor: what HandleRead() does next
    most,           \* most connections there have been at once
    failed          \* why the process has ended, or ""

pool == <<eventloop_vec, current_index_, worker>>
server == <<client, own_loop_, task_, connect_, inside, dangling, most>>
vars == <<thread_num_, pool, server, backlog, fd, idle_fd_, acceptor, failed>>

Alive == {"accepted", "queued", "up", "finished"}

TypeOK ==
    /\ thread_num_ \in Loop /\ current_index_ \in Nat
    /\ eventloop_vec \in Seq(Worker)
    /\ worker \in [Worker -> [at : {"new", "emplace", "back", "Loop"}, read : Seq(Worker)]]
    /\ client \in [Client -> {"none", "pending", "closed", "refused"} \cup Alive]
    /\ backlog \in Seq(Client) /\ own_loop_ \in [Client -> Loop]
    /\ task_ \in [Loop -> Seq(Client)] /\ connect_ \in Client \cup {Nobody}
    /\ inside \in [Loop -> Client \cup {Nobody}] /\ dangling \subseteq Loop
    /\ fd \in [Fd -> Client \cup {Unused, Idle, Other}] /\ idle_fd_ \in Fd \cup {-1}
    /\ acceptor \in {"accept", "close", "accept again", "close again", "open"}
    /\ most \in 0..MaxClient

Init ==
    /\ thread_num_ \in Loop /\ eventloop_vec = <<>> /\ current_index_ = 0
    /\ worker = [w \in Worker |-> [at |-> "new", read |-> <<>>]]
    /\ client = [c \in Client |-> "none"] /\ backlog = <<>>
    /\ own_loop_ = [c \in Client |-> Base] /\ task_ = [l \in Loop |-> <<>>]
    /\ connect_ = Nobody /\ inside = [l \in Loop |-> Nobody] /\ dangling = {}
    /\ fd = [f \in Fd |-> IF f = 0 THEN Idle ELSE Unused]
    /\ idle_fd_ = 0 /\ acceptor = "accept"
    /\ most = 0 /\ failed = ""

-----------------------------------------------------------------------------
(* EventLoopThreadPool.                                                     *)

\* emplace_back() has read the vector that it is going to extend.
EmplaceLoop(w) ==
    /\ worker[w].at = "new" /\ w <= thread_num_
    /\ worker' = [worker EXCEPT ![w] = [at |-> "emplace", read |-> eventloop_vec]]
    /\ UNCHANGED <<thread_num_, eventloop_vec, current_index_, server, backlog, fd, idle_fd_,
                   acceptor, failed>>

EmplacedLoop(w) ==
    /\ worker[w].at = "emplace"
    /\ eventloop_vec' = Append(worker[w].read, w)
    /\ worker' = [worker EXCEPT ![w] = [at |-> "back", read |-> <<>>]]
    /\ UNCHANGED <<thread_num_, current_index_, server, backlog, fd, idle_fd_, acceptor, failed>>

\* Mutated form of BackLoop: the worker's task ends without running the loop.
BackLoop_Returns(w) ==
    /\ worker[w].at = "back"
    /\ worker' = [worker EXCEPT ![w].at = "returned"]
    /\ UNCHANGED <<thread_num_, eventloop_vec, current_index_, server, backlog, fd, idle_fd_,
                   acceptor, failed>>

\* EventLoop::Loop() is FATAL on a thread that has not made the loop.
BackLoop(w) ==
    /\ worker[w].at = "back"
    /\ worker' = [worker EXCEPT ![w].at = "Loop"]
    /\ failed' = IF eventloop_vec[Len(eventloop_vec)] = w THEN "" ELSE "Loop"
    /\ UNCHANGED <<thread_num_, eventloop_vec, current_index_, server, backlog, fd, idle_fd_, acceptor>>

\* Mutated form of NextIndex: the index is not set back.
NextIndex_Never == current_index_ + 1

NextIndex == IF thread_num_ > current_index_ + 1 THEN 0 ELSE current_index_ + 1

-----------------------------------------------------------------------------
(* Acceptor, in the base loop.                                              *)

Unopened == {f \in Fd : fd[f] = Unused}
Lowest(S) == CHOOSE f \in S : \A other \in S : f <= other

Running(l) == IF l = Base THEN acceptor = "accept" ELSE worker[l].at = "Loop"

\* Up to the insertion into connect_, with GetNextLoop(), which may read the vector
\* while a worker moves it.
Accept ==
    /\ acceptor = "accept" /\ inside[Base] = Nobody /\ backlog # <<>> /\ Unopened # {}
    /\ LET c == Head(backlog)
       IN  /\ fd' = [fd EXCEPT ![Lowest(Unopened)] = c]
           /\ client' = [client EXCEPT ![c] = "accepted"]
           /\ inside' = [inside EXCEPT ![Base] = c]
           /\ IF thread_num_ = 0 THEN UNCHANGED <<own_loop_, current_index_, failed>>
              ELSE IF current_index_ >= Len(eventloop_vec)
              THEN failed' = "index" /\ UNCHANGED <<own_loop_, current_index_>>
              ELSE /\ own_loop_' = [own_loop_ EXCEPT ![c] = eventloop_vec[current_index_ + 1]]
                   /\ current_index_' = NextIndex
                   /\ \/ UNCHANGED failed
                      \/ (\E w \in Worker : worker[w].at = "emplace") /\ failed' = "vector"
    /\ most' = LET n == Cardinality({c \in Client : client'[c] \in Alive})
               IN  IF n > most THEN n ELSE most
    /\ backlog' = Tail(backlog)
    /\ UNCHANGED <<thread_num_, eventloop_vec, worker, task_, connect_, dangling, idle_fd_, acceptor>>

AcceptFails ==
    /\ acceptor = "accept" /\ inside[Base] = Nobody /\ backlog # <<>> /\ Unopened = {}
    /\ acceptor' = "close"
    /\ UNCHANGED <<thread_num_, pool, server, backlog, fd, idle_fd_, failed>>

\* ECONNABORTED and EPERM cost the client its place, EAGAIN and EINTR change nothing,
\* and what accept() is not expected to answer, such as ENFILE, is FATAL.
AcceptErrs ==
    /\ acceptor = "accept" /\ inside[Base] = Nobody /\ backlog # <<>>
    /\ \/ /\ client' = [client EXCEPT ![Head(backlog)] = "closed"]
          /\ backlog' = Tail(backlog) /\ UNCHANGED failed
       \/ failed' = "accept" /\ UNCHANGED <<client, backlog>>
    /\ UNCHANGED <<thread_num_, pool, own_loop_, task_, connect_, inside, dangling, most, fd,
                   idle_fd_, acceptor>>

Released(f) == IF f = -1 THEN fd ELSE [fd EXCEPT ![f] = Unused]

CloseIdle ==
    /\ acceptor \in {"close", "close again"}
    /\ fd' = Released(idle_fd_)
    /\ acceptor' = IF acceptor = "close" THEN "accept again" ELSE "open"
    /\ UNCHANGED <<thread_num_, pool, server, backlog, idle_fd_, failed>>

\* Mutated form of AcceptIdle: what accept() returns is not kept in idle_fd_.
AcceptIdle_Dropped ==
    /\ acceptor = "accept again"
    /\ IF Unopened = {} THEN UNCHANGED <<fd, client, backlog>>
       ELSE /\ fd' = [fd EXCEPT ![Lowest(Unopened)] = Idle]
            /\ client' = [client EXCEPT ![Head(backlog)] = "refused"]
            /\ backlog' = Tail(backlog)
    /\ acceptor' = "close again"
    /\ UNCHANGED <<thread_num_, pool, own_loop_, task_, connect_, inside, dangling, most,
                   idle_fd_, failed>>

\* The client is accepted only to be closed.
AcceptIdle ==
    /\ acceptor = "accept again"
    /\ IF Unopened = {} THEN idle_fd_' = -1 /\ UNCHANGED <<fd, client, backlog>>
       ELSE /\ idle_fd_' = Lowest(Unopened)
            /\ fd' = [fd EXCEPT ![idle_fd_'] = Idle]
            /\ client' = [client EXCEPT ![Head(backlog)] = "refused"]
            /\ backlog' = Tail(backlog)
    /\ acceptor' = "close again"
    /\ UNCHANGED <<thread_num_, pool, own_loop_, task_, connect_, inside, dangling, most, failed>>

OpenIdle ==
    /\ acceptor = "open"
    /\ IF Unopened = {} THEN idle_fd_' = -1 /\ UNCHANGED fd
       ELSE idle_fd_' = Lowest(Unopened) /\ fd' = [fd EXCEPT ![idle_fd_'] = Idle]
    /\ acceptor' = "accept"
    /\ UNCHANGED <<thread_num_, pool, server, backlog, failed>>

-----------------------------------------------------------------------------
(* TcpServer.                                                               *)

\* Another thread is in the map as well.
Shared(l) == \E other \in Loop \ {l} : inside[other] # Nobody

\* ConnectEstablished() of a connection that holder holds, or nobody but the task:
\* then it is destroyed at once, and its channel stays in the list.
Established(c, l, holder) ==
    IF holder = c
    THEN client' = [client EXCEPT ![c] = "up"] /\ UNCHANGED <<fd, dangling>>
    ELSE /\ client' = [client EXCEPT ![c] = "closed"]
         /\ fd' = [f \in Fd |-> IF fd[f] = c THEN Unused ELSE fd[f]]
         /\ dangling' = dangling \cup {l}

\* Does nothing if there is a connection of that name.
Insert ==
    /\ inside[Base] # Nobody /\ client[inside[Base]] = "accepted"
    /\ LET c == inside[Base]
       IN  /\ connect_' = IF connect_ = Nobody THEN c ELSE connect_
           /\ IF own_loop_[c] = Base
              THEN Established(c, Base, connect_') /\ UNCHANGED task_
              ELSE /\ task_' = [task_ EXCEPT ![own_loop_[c]] = Append(@, c)]
                   /\ client' = [client EXCEPT ![c] = "queued"]
                   /\ UNCHANGED <<fd, dangling>>
    /\ inside' = [inside EXCEPT ![Base] = Nobody]
    /\ failed' = IF Shared(Base) THEN "map" ELSE ""
    /\ UNCHANGED <<thread_num_, pool, own_loop_, most, backlog, idle_fd_, acceptor>>

Establish(l) ==
    /\ Running(l) /\ inside[l] = Nobody /\ task_[l] # <<>>
    /\ Established(Head(task_[l]), l, connect_)
    /\ task_' = [task_ EXCEPT ![l] = Tail(@)]
    /\ UNCHANGED <<thread_num_, pool, own_loop_, connect_, inside, most, backlog, idle_fd_,
                   acceptor, failed>>

\* HandleClose() has come to DefaultCloseBack().
BeginErase(c) ==
    /\ client[c] = "finished" /\ Running(own_loop_[c]) /\ inside[own_loop_[c]] = Nobody
    /\ inside' = [inside EXCEPT ![own_loop_[c]] = c]
    /\ UNCHANGED <<thread_num_, pool, client, own_loop_, task_, connect_, dangling, most,
                   backlog, fd, idle_fd_, acceptor, failed>>

\* The connection is destroyed, and HandleEvent() goes on with its channel.
Erase(l) ==
    /\ inside[l] # Nobody /\ client[inside[l]] = "finished"
    /\ connect_' = Nobody
    /\ client' = [client EXCEPT ![inside[l]] = "closed"]
    /\ fd' = [f \in Fd |-> IF fd[f] = inside[l] THEN Unused ELSE fd[f]]
    /\ inside' = [inside EXCEPT ![l] = Nobody]
    /\ failed' \in IF Shared(l) THEN {"map"} ELSE {"", "HandleEvent"}
    /\ UNCHANGED <<thread_num_, pool, own_loop_, task_, dangling, most, backlog, idle_fd_, acceptor>>

\* poll() reports a descriptor that is closed, and Poller finds the destroyed channel.
PollDangling(l) ==
    /\ l \in dangling /\ Running(l) /\ inside[l] = Nobody
    /\ failed' = "channel"
    /\ UNCHANGED <<thread_num_, pool, server, backlog, fd, idle_fd_, acceptor>>

-----------------------------------------------------------------------------
Arrive(c) ==
    /\ client[c] = "none"
    /\ client' = [client EXCEPT ![c] = "pending"]
    /\ backlog' = Append(backlog, c)
    /\ UNCHANGED <<thread_num_, pool, own_loop_, task_, connect_, inside, dangling, most,
                   fd, idle_fd_, acceptor, failed>>

PeerCloses(c) ==
    /\ client[c] = "up"
    /\ client' = [client EXCEPT ![c] = "finished"]
    /\ UNCHANGED <<thread_num_, pool, own_loop_, task_, connect_, inside, dangling, most,
                   backlog, fd, idle_fd_, acceptor, failed>>

\* Some other part of the process opens or closes a descriptor.
OtherFd ==
    /\ \/ Unopened # {} /\ fd' = [fd EXCEPT ![Lowest(Unopened)] = Other]
       \/ \E f \in Fd : fd[f] = Other /\ fd' = [fd EXCEPT ![f] = Unused]
    /\ UNCHANGED <<thread_num_, pool, server, backlog, idle_fd_, acceptor, failed>>

AcceptorStep ==
    failed = "" /\ (\/ Accept \/ AcceptFails \/ AcceptErrs \/ CloseIdle \/ AcceptIdle \/ OpenIdle
                     \/ Insert)
LoopStep(l) == failed = "" /\ (Establish(l) \/ Erase(l))
CloseStep(c) == failed = "" /\ BeginErase(c)
PollStep(l) == failed = "" /\ PollDangling(l)
WorkerStep(w) == failed = "" /\ (EmplaceLoop(w) \/ EmplacedLoop(w) \/ BackLoop(w))
Environment == failed = "" /\ (OtherFd \/ \E c \in Client : Arrive(c) \/ PeerCloses(c))

Next ==
    \/ AcceptorStep
    \/ \E l \in Loop : LoopStep(l) \/ PollStep(l)
    \/ \E c \in Client : CloseStep(c)
    \/ \E w \in Worker : WorkerStep(w)
    \/ Environment

Spec == Init /\ [][Next]_vars

\* Every loop runs and every worker gets through its Task().
FairSpec ==
    /\ Spec
    /\ WF_vars(AcceptorStep)
    /\ \A l \in Loop : WF_vars(LoopStep(l))
    /\ \A w \in Worker : WF_vars(WorkerStep(w))

-----------------------------------------------------------------------------
\* The acceptor never closes a descriptor of somebody else's, whatever others open
\* while HandleRead() has given up idle_fd_; and it loses it only if the process has
\* no descriptor left.
IdleFdOwn ==
    /\ TypeOK
    /\ Cardinality({f \in Fd : fd[f] = Idle}) <= 1
    /\ acceptor \in {"accept", "close", "close again"} =>
           \A f \in Fd : fd[f] = Idle <=> f = idle_fd_
    /\ \A f \in Fd : fd[f] \in Client => client[fd[f]] \in Alive

\* What may go wrong, and when only: GetNextLoop() leaves the vector if the first
\* loop is not there yet or for the second connection of a single thread; a loop is
\* run by another thread, or connect_ used by two threads, only if there are so many;
\* and a destroyed connection stays in the poll list only if there were two at once.
FailsOnlyWhen ==
    /\ failed = "index" => eventloop_vec = <<>> \/ (thread_num_ = 1 /\ current_index_ = 1)
    /\ failed = "Loop" => thread_num_ > 1
    /\ failed = "map" => thread_num_ > 0
    /\ failed = "channel" => most > 1

\* Each client is answered, established or, if there are no descriptors, closed,
\* unless something went wrong or idle_fd_ was lost to another part of the process.
Answered ==
    \A c \in Client :
        client[c] = "pending" ~>
            client[c] \in {"up", "finished", "closed", "refused"} \/ idle_fd_ = -1 \/ failed # ""
=============================================================================
