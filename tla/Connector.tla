----------------------------- MODULE Connector -----------------------------
(***************************************************************************)
(* Net::Connector: the methods that run in the loop, as operators on its    *)
(* state, on the poll list and on the sockets of its attempts.  Connect()   *)
(* takes the lowest descriptor that is free, and connect() and getsockopt() *)
(* answer what they like.  TcpClient runs these operators in an event loop. *)
(* A method stops after each task it queues, because other threads queue    *)
(* theirs between and may call Start() and Stop(), which set connect_.      *)
(***************************************************************************)
EXTENDS Integers, Sequences

CONSTANT MaxSocket      \* descriptors for the attempts and the connection
ASSUME SocketAssumption == MaxSocket \in Nat \ {0}

Fd == 1..MaxSocket
NoFd == 0               \* a null channel_

\* What there is at a descriptor.  "unroutable": connect() itself has failed, which
\* SO_ERROR does not tell; "refused": SO_ERROR is set.
SocketState == {"none", "pending", "open", "refused", "unroutable", "finished"}

\* Whose channel is in the poll list.  "destroyed": a channel that is no more.
Entry == {"nobody", "connector", "connection", "destroyed"}

\* failed: the FATAL message or the undefined behaviour that ended the process.
State == [
    connect_ : BOOLEAN,
    status_ : {"DISCONNECTED", "CONNECTING", "CONNECTED"},
    channel_ : Fd \cup {NoFd},
    socket : [Fd -> SocketState],
    list : [Fd -> Entry],
    queued : Seq({"StartInLoop", "ResetChannel"}),  \* at this step of a method
    rest : {"", "Retry", "HandleWrite", "StartInLoop"},     \* what the method has still to do
    handed : Fd \cup {NoFd},                        \* to connection_callback_
    failed : {"", "StartInLoop", "HandleWrite", "channel"}]

\* What connect() and SO_ERROR may answer.  "failed": getsockopt() itself fails.
Answer == {"pending", "open", "unroutable", "ECONNREFUSED", "EACCES", "failed"}

Fresh(s) == {fd \in Fd : s.socket[fd] = "none"}
Lowest(S) == CHOOSE fd \in S : \A other \in S : fd <= other

\* What destroying the Channel object of channel_ leaves in the poll list.
Abandoned(s) ==
    [fd \in Fd |-> IF fd = s.channel_ /\ s.list[fd] = "connector" THEN "destroyed"
                   ELSE s.list[fd]]

\* Mutated forms of Retry: status_ is left CONNECTING; and the socket is left open.
Retry_Connecting(s, sockfd) ==
    [s EXCEPT !.socket[sockfd] = "none",
              !.rest = IF s.connect_ THEN "StartInLoop" ELSE ""]

Retry_Open(s, sockfd) ==
    [s EXCEPT !.status_ = "DISCONNECTED",
              !.rest = IF s.connect_ THEN "StartInLoop" ELSE ""]

Retry(s, sockfd) ==
    [s EXCEPT !.socket[sockfd] = "none",
              !.status_ = "DISCONNECTED",
              !.rest = IF s.connect_ THEN "StartInLoop" ELSE ""]

Connecting(s, sockfd) ==
    [s EXCEPT !.status_ = "CONNECTING",
              !.channel_ = sockfd,
              !.list = [Abandoned(s) EXCEPT ![sockfd] = "connector"]]

\* SO_ERROR and not the result of connect() decides.  If it cannot be had, the socket
\* is closed and taken for one that is connecting.
Connect(s, answer) ==
    LET sockfd == Lowest(Fresh(s))
    IN  IF answer \in {"pending", "open", "unroutable"}
        THEN Connecting([s EXCEPT !.socket[sockfd] = answer], sockfd)
        ELSE IF answer = "failed" THEN Connecting(s, sockfd)
        ELSE IF answer = "ECONNREFUSED" THEN Retry(s, sockfd)
        ELSE s

StartInLoop(s, answer) ==
    IF s.status_ # "DISCONNECTED" THEN [s EXCEPT !.failed = "StartInLoop"]
    ELSE IF s.connect_ THEN Connect(s, answer) ELSE s

\* The caller goes on with rest.
RemoveAndResetChannel(s, rest) ==
    IF s.channel_ = NoFd THEN [s EXCEPT !.failed = "channel"]
    ELSE [s EXCEPT !.list[s.channel_] = "nobody",
                   !.queued = Append(@, "ResetChannel"),
                   !.rest = rest]

ResetChannel(s) == [s EXCEPT !.channel_ = NoFd, !.list = Abandoned(s)]

\* Mutated form of StopInLoop: an attempt in progress goes on.
StopInLoop_Nothing(s) == s

StopInLoop(s) ==
    IF s.status_ # "CONNECTING" THEN s
    ELSE RemoveAndResetChannel([s EXCEPT !.status_ = "DISCONNECTED"], "Retry")

HandleError(s) ==
    IF s.status_ = "CONNECTING" THEN RemoveAndResetChannel(s, "Retry") ELSE s

HandleWrite(s) ==
    IF s.status_ # "CONNECTING" THEN [s EXCEPT !.failed = "HandleWrite"]
    ELSE RemoveAndResetChannel(s, "HandleWrite")

\* The method that queued a task, or is about to queue one, goes on.
Rest(s) ==
    LET sockfd == s.channel_
        done == [s EXCEPT !.status_ = "CONNECTED", !.rest = ""]
    IN  CASE s.rest = "Retry" -> Retry(s, sockfd)
          [] s.rest = "HandleWrite" ->
                 IF s.socket[sockfd] = "refused" THEN Retry(s, sockfd)
                 ELSE IF s.connect_ THEN [done EXCEPT !.handed = sockfd]
                 ELSE [done EXCEPT !.socket[sockfd] = "none"]
          [] s.rest = "StartInLoop" -> [s EXCEPT !.queued = Append(@, "StartInLoop"), !.rest = ""]
=============================================================================
