------------------------------ MODULE TcpClient ------------------------------
(***************************************************************************)
(* Net::TcpClient with its Connector and the one TcpConnection it can ever  *)
(* have, on an event loop as in TcpConnection.  Threads call Connect() and  *)
(* Stop(), which set connect_ and then queue a task, and one destroys the   *)
(* client, after their calls have returned.  The network is the             *)
(* environment.                                                             *)
(*                                                                         *)
(* Disconnect() is TcpConnection's Shutdown(), and is left out with retry_  *)
(* and TcpClient's connect_: only the end of RemoveConnection() reads them, *)
(* which is never reached: on the loop's thread its first statement aborts. *)
(***************************************************************************)
EXTENDS Connector, TLC

CONSTANTS Thread, MaxStart, MaxStop     \* callers, and bounds of what they call

ASSUME CallAssumption == {MaxStart, MaxStop} \subseteq Nat

VARIABLES
    connector,
    connection_,    \* TcpClient's
    held,           \* a callback or some other part of the program has a pointer to the connection
    close_callback_,    \* the connection's: "RemoveConnection" or "RemoveConnect"
    life,           \* of the client: alive, being destroyed (at which step), destroyed
    active, handling, task_, batch,     \* of the loop
    call,           \* of each thread, the call it is in the middle of
    starts, stops,  \* calls made
    failed          \* why the process has ended, or ""

loop == <<active, handling, task_, batch>>
vars == <<connector, connection_, held, close_callback_, life, loop, call, starts, stops, failed>>

Task == {"StartInLoop", "StopInLoop", "ResetChannel",
         "SetCloseCallback", "ForceCloseInLoop", "ConnectDestroyed"}

\* "shared": in the loop too, when there was another pointer to the connection.
Destroyed == {"by thread", "in loop", "shared in loop"}

TypeOK ==
    /\ connector \in State /\ connector.queued = <<>> /\ connector.handed = NoFd
    /\ connection_ \in Fd \cup {NoFd} /\ held \in BOOLEAN
    /\ close_callback_ \in {"RemoveConnection", "RemoveConnect"}
    /\ life \in {"alive", "unique", "shared", "closing", "connecting", "stopping"} \cup Destroyed
    /\ active \in Seq(Fd \X {"error", "write", "close"}) /\ handling \in BOOLEAN
    /\ task_ \in Seq(Task) /\ batch \in Seq(Task)
    /\ call \in [Thread -> {"", "Start", "Stop"}]
    /\ starts \in 0..MaxStart /\ stops \in 0..MaxStop

Init ==
    /\ connector = [connect_ |-> FALSE, status_ |-> "DISCONNECTED", channel_ |-> NoFd,
                    socket |-> [fd \in Fd |-> "none"], list |-> [fd \in Fd |-> "nobody"],
                    queued |-> <<>>, rest |-> "", handed |-> NoFd, failed |-> ""]
    /\ connection_ = NoFd /\ held = FALSE /\ close_callback_ = "RemoveConnection"
    /\ life = "alive"
    /\ active = <<>> /\ handling = FALSE /\ task_ = <<>> /\ batch = <<>>
    /\ call = [t \in Thread |-> ""]
    /\ starts = 0 /\ stops = 0 /\ failed = ""

-----------------------------------------------------------------------------
(* Threads.                                                                 *)

Start(t) ==
    /\ life = "alive" /\ call[t] = "" /\ starts < MaxStart
    /\ connector' = [connector EXCEPT !.connect_ = TRUE]
    /\ call' = [call EXCEPT ![t] = "Start"]
    /\ starts' = starts + 1
    /\ UNCHANGED <<connection_, held, close_callback_, life, loop, stops, failed>>

Stop(t) ==
    /\ life = "alive" /\ call[t] = "" /\ stops < MaxStop
    /\ connector' = [connector EXCEPT !.connect_ = FALSE]
    /\ call' = [call EXCEPT ![t] = "Stop"]
    /\ stops' = stops + 1
    /\ UNCHANGED <<connection_, held, close_callback_, life, loop, starts, failed>>

QueueInLoop(t) ==
    /\ call[t] # ""
    /\ task_' = Append(task_, IF call[t] = "Start" THEN "StartInLoop" ELSE "StopInLoop")
    /\ call' = [call EXCEPT ![t] = ""]
    /\ UNCHANGED <<connector, connection_, held, close_callback_, life, active, handling, batch,
                   starts, stops, failed>>

\* The connection of an object that is no more closes its socket, but its channel
\* stays in the list.
Died(s) ==
    IF connection_ = NoFd THEN s
    ELSE [s EXCEPT !.socket[connection_] = "none",
                   !.list[connection_] = IF @ = "connection" THEN "destroyed" ELSE @]

ConnectionTask == {"SetCloseCallback", "ForceCloseInLoop", "ConnectDestroyed"}

\* Somebody still has a pointer: the client, until it is destroyed, or a task.
Owned(l, h, tasks) == l \notin Destroyed \/ h \/ \E i \in DOMAIN tasks : tasks[i] \in ConnectionTask

\* The user takes a copy of what Connection() returns or a callback is called with,
\* and drops it.
Connection ==
    /\ life = "alive" /\ connection_ # NoFd /\ ~held
    /\ held' = TRUE
    /\ UNCHANGED <<connector, connection_, close_callback_, life, loop, call, starts, stops, failed>>

Release ==
    /\ held
    /\ held' = FALSE
    /\ connector' = IF Owned(life, FALSE, task_ \o batch) THEN connector ELSE Died(connector)
    /\ UNCHANGED <<connection_, close_callback_, life, loop, call, starts, stops, failed>>

\* ~TcpClient() on a thread that is not the loop's: connection_ is read under the
\* lock, the rest follows, and then the object is gone.
Destroy ==
    /\ life = "alive" /\ \A t \in Thread : call[t] = ""
    /\ life' = IF connection_ = NoFd THEN "connecting" ELSE IF held THEN "shared" ELSE "unique"
    /\ UNCHANGED <<connector, connection_, held, close_callback_, loop, call, starts, stops, failed>>

\* The connection gets another close_callback_, and is closed if nobody else has it.
DestroyConnected ==
    /\ life \in {"unique", "shared", "closing"}
    /\ life' = IF life = "unique" THEN "closing" ELSE "by thread"
    /\ task_' = IF life # "closing" THEN Append(task_, "SetCloseCallback")
                ELSE IF connector.list[connection_] = "connection"
                     THEN Append(task_, "ForceCloseInLoop")
                ELSE task_
    /\ UNCHANGED <<connector, connection_, held, close_callback_, active, handling, batch,
                   call, starts, stops, failed>>

\* A connection that was made meanwhile goes with the client, from inside the list.
DestroyConnecting ==
    /\ life \in {"connecting", "stopping"}
    /\ IF life = "connecting"
       THEN /\ connector' = [connector EXCEPT !.connect_ = FALSE]
            /\ life' = "stopping" /\ UNCHANGED task_
       ELSE /\ connector' = Died(connector)
            /\ task_' = Append(task_, "StopInLoop")
            /\ life' = "by thread"
    /\ UNCHANGED <<connection_, held, close_callback_, active, handling, batch,
                   call, starts, stops, failed>>

-----------------------------------------------------------------------------
(* The loop.                                                                *)

\* TcpConnection::HandleClose(): out of the list, where a second removal uses a stale
\* index, and close_callback_.
Closed(fd) ==
    /\ connector' = [connector EXCEPT !.list[fd] = "nobody"]
    /\ task_' = IF close_callback_ = "RemoveConnect" THEN Append(task_, "ConnectDestroyed") ELSE task_
    /\ failed' = IF connector.list[fd] = "nobody" THEN "index"
                 ELSE IF close_callback_ = "RemoveConnect" THEN failed
                 ELSE IF life \in Destroyed THEN "client" ELSE "RemoveConnection"

\* ~TcpClient() on the loop's thread, where RunInLoop() does not wait: in a task, or in
\* a callback, which has a pointer if it is the connection's own.
DestroyInLoop ==
    /\ life = "alive" /\ connector.rest = "" /\ \A t \in Thread : call[t] = ""
    /\ life' = IF held THEN "shared in loop" ELSE "in loop"
    /\ IF connection_ = NoFd
       THEN /\ connector' = [connector EXCEPT !.connect_ = FALSE]
            /\ task_' = Append(task_, "StopInLoop")
            /\ UNCHANGED close_callback_
       ELSE /\ close_callback_' = "RemoveConnect"
            /\ IF held \/ connector.list[connection_] # "connection"
               THEN UNCHANGED <<connector, task_>>
               ELSE /\ connector' = [connector EXCEPT !.list[connection_] = "nobody"]
                    /\ task_' = Append(task_, "ConnectDestroyed")
    /\ UNCHANGED <<connection_, held, active, handling, batch, call, starts, stops, failed>>

\* The callbacks HandleEvent() makes.  The connector has set none for POLLHUP.
Reports(fd) ==
    CASE connector.list[fd] = "nobody" -> <<>>
      [] connector.list[fd] = "connection" ->
             IF connector.socket[fd] = "finished" THEN <<<<fd, "close">>>> ELSE <<>>
      [] OTHER ->
             CASE connector.socket[fd] = "pending" -> <<>>
               [] connector.socket[fd] = "refused" -> <<<<fd, "error">>, <<fd, "write">>>>
               [] connector.socket[fd] = "none" -> <<<<fd, "error">>>>
               [] OTHER -> <<<<fd, "write">>>>

Ready ==
    LET f[fd \in 0..MaxSocket] == IF fd = 0 THEN <<>> ELSE f[fd - 1] \o Reports(fd)
    IN  f[MaxSocket]

Poll ==
    /\ ~handling /\ batch = <<>>
    /\ Ready # <<>> \/ task_ # <<>>
    /\ active' = Ready
    /\ handling' = TRUE
    /\ UNCHANGED <<connector, connection_, held, close_callback_, life, task_, batch, call,
                   starts, stops, failed>>

\* The effect of a step of the connector.  NewConnection() is called with the socket
\* that was handed over, and makes the TcpConnection, whose channel enters the list.
NewConnection(s) ==
    /\ task_' = task_ \o s.queued
    /\ connector' = [s EXCEPT !.queued = <<>>, !.handed = NoFd,
                              !.list = IF s.handed = NoFd THEN @
                                       ELSE [@ EXCEPT ![s.handed] = "connection"]]
    /\ connection_' = IF s.handed = NoFd THEN connection_ ELSE s.handed
    /\ failed' = IF s.handed # NoFd /\ life \in Destroyed THEN "client" ELSE s.failed

HandleEvent ==
    /\ active # <<>>
    /\ LET fd == Head(active)[1]
           event == Head(active)[2]
       IN  IF connector.list[fd] = "destroyed"
           THEN /\ failed' = IF fd = connection_ THEN "connection" ELSE "channel"
                /\ UNCHANGED <<connector, connection_, task_>>
           ELSE IF event = "close" THEN Closed(fd) /\ UNCHANGED connection_
           ELSE NewConnection(IF event = "error" THEN HandleError(connector)
                              ELSE HandleWrite(connector))
    /\ active' = Tail(active)
    /\ UNCHANGED <<held, close_callback_, life, handling, batch, call, starts, stops>>

\* The connector's method goes on.
GoOn ==
    /\ connector.rest # ""
    /\ NewConnection(Rest(connector))
    /\ UNCHANGED <<held, close_callback_, life, active, handling, batch, call, starts, stops>>

DoPendingTask ==
    /\ handling /\ active = <<>>
    /\ handling' = FALSE
    /\ batch' = task_ /\ task_' = <<>>
    /\ UNCHANGED <<connector, connection_, held, close_callback_, life, active, call,
                   starts, stops, failed>>

RunConnectorTask(answer) ==
    /\ batch # <<>> /\ Head(batch) \notin ConnectionTask
    /\ NewConnection(CASE Head(batch) = "StartInLoop" -> StartInLoop(connector, answer)
                       [] Head(batch) = "StopInLoop" -> StopInLoop(connector)
                       [] Head(batch) = "ResetChannel" -> ResetChannel(connector))
    /\ batch' = Tail(batch)
    /\ UNCHANGED <<held, close_callback_, life, active, handling, call, starts, stops>>

\* ConnectDestroyed() is always the second removal of the channel.
RunConnectionTask ==
    /\ batch # <<>> /\ Head(batch) \in ConnectionTask
    /\ batch' = Tail(batch)
    /\ close_callback_' = IF Head(batch) = "SetCloseCallback" THEN "RemoveConnect"
                          ELSE close_callback_
    /\ IF Head(batch) = "ForceCloseInLoop" /\ connector.list[connection_] = "connection"
       THEN Closed(connection_)
       ELSE /\ failed' = IF Head(batch) = "ConnectDestroyed" THEN "index" ELSE failed
            /\ connector' = IF Owned(life, held, task_ \o Tail(batch)) THEN connector
                            ELSE Died(connector)
            /\ UNCHANGED task_
    /\ UNCHANGED <<connection_, held, life, active, handling, call, starts, stops>>

\* An attempt ends, or the peer ends the connection.
Network(fd) ==
    /\ \/ connector.socket[fd] = "pending"
          /\ \E e \in {"open", "refused"} : connector' = [connector EXCEPT !.socket[fd] = e]
       \/ connector.socket[fd] = "open" /\ connector.list[fd] = "connector"
          /\ connector' = [connector EXCEPT !.socket[fd] = "refused"]
       \/ connector.socket[fd] = "open" /\ connector.list[fd] = "connection"
          /\ connector' = [connector EXCEPT !.socket[fd] = "finished"]
    /\ UNCHANGED <<connection_, held, close_callback_, life, loop, call, starts, stops, failed>>

LoopStep ==
    /\ failed = ""
    /\ \/ GoOn
       \/ /\ connector.rest = ""
          /\ \/ Poll \/ HandleEvent \/ DoPendingTask
             \/ \E answer \in Answer : RunConnectorTask(answer)
             \/ RunConnectionTask

UserStep(t) == failed = "" /\ QueueInLoop(t)

DestroyStep == failed = "" /\ (DestroyConnected \/ DestroyConnecting)

Next ==
    \/ LoopStep
    \/ \E t \in Thread : UserStep(t)
    \/ DestroyStep
    \/ failed = "" /\ (Connection \/ Release \/ Destroy \/ DestroyInLoop)
    \/ failed = "" /\ \E t \in Thread : Start(t) \/ Stop(t)
    \/ failed = "" /\ \E fd \in Fd : Network(fd)

Spec == Init /\ [][Next]_vars

\* The loop runs, and a call that was begun returns.  Of the network nothing is asked.
FairSpec ==
    /\ Spec
    /\ WF_vars(LoopStep)
    /\ \A t \in Thread : WF_vars(UserStep(t))
    /\ WF_vars(DestroyStep)

-----------------------------------------------------------------------------
\* No socket is left open that nobody would close: it is the attempt's that is in
\* progress, with its channel in the list, or that a method of the connector is about
\* to close or to hand over, or a connection's.
SocketOwned ==
    /\ TypeOK
    /\ \A fd \in Fd :
        connector.socket[fd] # "none" /\ failed = "" /\ connector.list[fd] # "destroyed" =>
            \/ connection_ = fd
            \/ /\ connector.channel_ = fd
               /\ \/ connector.status_ = "CONNECTING" /\ connector.list[fd] = "connector"
                  \/ connector.rest \in {"Retry", "HandleWrite"}

\* What may go wrong, and when only: StartInLoop() finds an attempt in progress (FATAL)
\* if Start() was called twice, never for the retries of one Start(); a queued
\* ResetChannel() destroys the channel of a later attempt, which is polled then, or
\* leaves one to be removed that is null, if Stop() was called too; the connector calls
\* a client that is no more if another thread destroyed it; and a destroyed connection
\* is polled if that or a part of the loop that had a pointer to it did.
FailsOnlyWhen ==
    /\ failed = "StartInLoop" => starts > 1
    /\ failed = "channel" => starts > 1 /\ stops > 0
    /\ failed = "client" => life = "by thread"
    /\ failed = "connection" => life \in {"by thread", "shared in loop"}

\* After Stop(), no attempt goes on for ever, unless it is started again.
StopTakesEffect ==
    ~connector.connect_ /\ connector.status_ = "CONNECTING" ~>
        connector.status_ # "CONNECTING" \/ connector.connect_ \/ failed # ""
=============================================================================
