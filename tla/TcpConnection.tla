---------------------------- MODULE TcpConnection ----------------------------
(***************************************************************************)
(* The Net::TcpConnections of one event loop, from ConnectEstablished() to  *)
(* HandleClose(), with the dispatch of Channel::HandleEvent() and the       *)
(* poll list of PollTable.  The loop's thread polls, runs the callbacks of  *)
(* the channels that are ready, and then the tasks other threads queued.    *)
(* Other threads call Send(), Shutdown() and ForceClose(), which test and   *)
(* set status_ without a lock.                                              *)
(*                                                                         *)
(* A connection is named by its channel.  Its owner keeps it alive, as the  *)
(* map of sample_tcpconnection.cpp does.  The kernel's socket and the peer  *)
(* are the environment.  Entry 0 of the list, the wake-up channel, which    *)
(* never leaves it, is left out: EventLoop shows that a queued task wakes   *)
(* the loop.                                                                *)
(*                                                                         *)
(* The user's callbacks run on the loop's thread, inside of the method that *)
(* makes them, and may call their connection: net.stack holds those that    *)
(* have not returned, each with what its caller has still to do.  Those of  *)
(* the end of a connection, DOWN and CLOSE, call nothing.                   *)
(***************************************************************************)
EXTENDS PollTable, SequencesExt

CONSTANTS
    Thread,         \* threads other than the loop's
    Loop,           \* the loop's thread
    Length,         \* bytes of a message
    Room,           \* bytes the kernel takes before the peer has read
    highwater_mark_,    \* bytes of waiting output for which the user is called
    MaxMessage, MaxArrival, MaxTask     \* bounds: messages sent, data received, task_

ASSUME FiniteAssumption == IsFiniteSet(Channel)
ASSUME SenderAssumption == Loop \notin Thread
ASSUME BoundAssumption == {Length, Room, MaxMessage, MaxArrival, MaxTask} \subseteq Nat \ {0}
ASSUME MarkAssumption == highwater_mark_ \in Nat

VARIABLES
    net,            \* the connections and the poll list, see Net
    active,         \* callbacks of this round that are still to run, in order
    handling,       \* Poll() has returned and DoPendingTask() has not begun
    task_, batch,   \* tasks queued, and those DoPendingTask() has taken
    call,           \* of each other thread, the call it is in the middle of
    next            \* number of the next message

vars == <<net, active, handling, task_, batch, call, next>>

Status == {"CONNECTIONG", "CONNECTED", "DISCONNECTING", "DISCONNECTED"}
Byte == [by : Thread \cup {Loop}, msg : 1..MaxMessage, at : 1..Length]
Callback == {"UP", "MESSAGE", "DOWN", "CLOSE"}

Socket == [
    sent : Seq(Byte), room : 0..Room,   \* what the kernel has taken, can still take
    shut : BOOLEAN,                     \* SHUT_WR
    arrived : 0..MaxArrival, fin : BOOLEAN, reset : BOOLEAN,    \* from the peer
    error : BOOLEAN]                    \* SO_ERROR

Op == {"Send", "Shutdown", "ForceClose"}

\* A callback of the user for conn; then its caller returns, or appends data, which
\* a short write left, to the output, or shuts down if that is due.
Frame == [then : {"return", "append", "shutdown"}, conn : Channel, data : Seq(Byte)]

Net == [
    table : Table,
    status_ : [Channel -> Status],
    output_buffer_ : [Channel -> Seq(Byte)],
    socket : [Channel -> Socket],
    stack : Seq(Frame),                     \* callbacks under way, innermost first
    told : [Channel -> Seq(Callback)],      \* callbacks made
    interrupted : [Channel -> SUBSET Op],   \* calls made while a short write waits on the stack
    reopened : SUBSET Channel,              \* those whose DISCONNECTED was overwritten
    process : {"running", "killed", "undefined"}]

Task == [op : {"Establish", "Send", "Shutdown", "ForceClose"}, conn : Channel, data : Seq(Byte)]

\* A call of another thread, and whether it has set status_ yet.
Call == [op : Op, conn : Channel, data : Seq(Byte), set : BOOLEAN]
Idle == [op |-> "none"]

Message(t) == [i \in 1..Length |-> [by |-> t, msg |-> next, at |-> i]]

IsWriting(s, c) == WRITEEVENT \in s.table.interested_event_[c]

-----------------------------------------------------------------------------
(* The socket.                                                              *)

\* ::write(): on a socket that is shut or reset it fails, and without a pending
\* error it raises SIGPIPE, which nobody handles.
WriteResult(k) ==
    IF k.shut \/ k.reset THEN IF k.error THEN "error" ELSE "SIGPIPE"
    ELSE IF k.room = 0 THEN "EAGAIN" ELSE "ok"

Taken(k, data) ==
    IF WriteResult(k) # "ok" THEN 0 ELSE IF Len(data) < k.room THEN Len(data) ELSE k.room

Written(s, c, data) ==
    LET k == s.socket[c]
    IN  [s EXCEPT
            !.socket[c].sent = @ \o SubSeq(data, 1, Taken(k, data)),
            !.socket[c].room = @ - Taken(k, data),
            !.socket[c].error = @ /\ WriteResult(k) # "error",
            !.process = IF WriteResult(k) = "SIGPIPE" THEN "killed" ELSE @]

\* The callbacks HandleEvent() makes for what poll() reports of an entry.
Reports(s, i) ==
    LET pfd == s.table.pollfds_[i]
        c == s.table.channels_[pfd.fd]
        k == s.socket[CHOOSE d \in Channel : s.table.fd_[d] = pfd.fd]
        in == READEVENT \in pfd.events /\ (k.arrived > 0 \/ k.fin \/ k.reset)
        out == WRITEEVENT \in pfd.events /\ (k.room > 0 \/ k.shut \/ k.reset)
        hup == k.reset \/ (k.shut /\ k.fin)
        If(cond, name) == IF cond THEN <<[conn |-> c, name |-> name]>> ELSE <<>>
    IN  IF pfd.fd < 0 THEN <<>>
        ELSE If(hup /\ ~in, "close") \o If(k.error, "error") \o If(in, "read") \o If(out, "write")

-----------------------------------------------------------------------------
(* The methods that run in the loop.                                        *)

\* On the loop's thread RunInLoop() calls the user at once.
RunCallback(s, c, then, data) ==
    [s EXCEPT !.stack = <<[then |-> then, conn |-> c, data |-> data]>> \o @]

\* Mutated form of Direct: writes at once although there is output pending.
Direct_Always(s, c) == TRUE

\* Nothing waits to be written: a message may go to the socket at once.
Direct(s, c) == ~IsWriting(s, c) /\ s.output_buffer_[c] = <<>>

\* Mutated form of Kept: nobody is told that there is output to write.
Kept_Silent(s, c, remainning) == [s EXCEPT !.output_buffer_[c] = @ \o remainning]

\* What a short write left is kept and WRITEEVENT asked for.
Kept(s, c, remainning) ==
    [s EXCEPT !.output_buffer_[c] = @ \o remainning,
              !.table = IF IsWriting(s, c) THEN @ ELSE Enable(@, c, WRITEEVENT, TRUE)]

\* The user is called after a write of all, and before what a short write left is
\* kept if that is much.  remainning stays 0 if nothing could be written, or if there
\* is output before it: then the message is given up without a word.
SendInLoop(s, c, data) ==
    LET after == Written(s, c, data)
        remainning == SubSeq(data, Taken(s.socket[c], data) + 1, Len(data))
    IN  IF s.status_[c] = "DISCONNECTED" \/ ~Direct(s, c) THEN s
        ELSE IF WriteResult(s.socket[c]) # "ok" THEN after
        ELSE IF remainning = <<>> THEN RunCallback(after, c, "return", <<>>)
        ELSE IF Len(remainning) >= highwater_mark_
             THEN RunCallback(after, c, "append", remainning)
        ELSE Kept(after, c, remainning)

ShutdownInLoop(s, c) == IF IsWriting(s, c) THEN s ELSE [s EXCEPT !.socket[c].shut = TRUE]

Tell(s, c, callbacks) == [s EXCEPT !.told[c] = @ \o callbacks]

\* RemoveSelfInPoll() of a channel that is not in the list any more, or with a last
\* entry that is nobody's, reads and writes outside of the list or a null channel.
RemoveSelf(s, c) ==
    LET t == s.table
        n == Len(t.pollfds_)
        idx == t.poll_index_[c]
        channelAtEnd == Descriptor(t.pollfds_[n])
    IN  IF n > idx /\ (idx = n - 1 \/ t.channels_[channelAtEnd] \notin {c, NoChannel})
        THEN [s EXCEPT !.table = RemoveChannel(@, c)]
        ELSE [s EXCEPT !.process = "undefined"]

ConnectDestroyed(s, c) ==
    IF s.status_[c] = "CONNECTED"
    THEN RemoveSelf(Tell([s EXCEPT !.status_[c] = "DISCONNECTED",
                                   !.table = DisableAll(@, c)], c, <<"DOWN">>), c)
    ELSE RemoveSelf(s, c)

\* Disables the channel again, which is out of the list, through the index it had
\* there.  Past the end of the list nobody reads what that writes.
HandleClose(s, c) ==
    LET gone == ConnectDestroyed(s, c)
    IN  Tell([gone EXCEPT !.status_[c] = "DISCONNECTED",
                          !.table = IF gone.process = "running" THEN DisableAll(@, c) ELSE @],
             c, <<"DOWN", "CLOSE">>)

\* Mutated form of ForceCloseInLoop: a second task closes again.
ForceCloseInLoop_Again(s, c) == HandleClose(s, c)

ForceCloseInLoop(s, c) ==
    IF s.status_[c] \in {"CONNECTED", "DISCONNECTING"} THEN HandleClose(s, c) ELSE s

HandleError(s, c) == [s EXCEPT !.socket[c].error = FALSE]

\* Mutated form of HandleWrite: goes on to shut down although there is output left.
HandleWrite_Early(s, c) ==
    LET k == s.socket[c]
        rest == SubSeq(s.output_buffer_[c], Taken(k, s.output_buffer_[c]) + 1,
                       Len(s.output_buffer_[c]))
        after == [Written(s, c, s.output_buffer_[c]) EXCEPT !.output_buffer_[c] = rest]
        quiet == [after EXCEPT !.table = Enable(@, c, WRITEEVENT, FALSE)]
    IN  IF ~IsWriting(s, c) THEN s
        ELSE IF WriteResult(k) # "ok" THEN after
        ELSE RunCallback(quiet, c, "shutdown", <<>>)

HandleWrite(s, c) ==
    LET k == s.socket[c]
        rest == SubSeq(s.output_buffer_[c], Taken(k, s.output_buffer_[c]) + 1,
                       Len(s.output_buffer_[c]))
        after == [Written(s, c, s.output_buffer_[c]) EXCEPT !.output_buffer_[c] = rest]
        quiet == [after EXCEPT !.table = Enable(@, c, WRITEEVENT, FALSE)]
    IN  IF ~IsWriting(s, c) THEN s
        ELSE IF WriteResult(k) # "ok" \/ rest # <<>> THEN after
        ELSE RunCallback(quiet, c, "shutdown", <<>>)

ConnectEstablished(s, c) ==
    RunCallback(Tell([s EXCEPT !.status_[c] = "CONNECTED",
                               !.table = Enable(@, c, READEVENT, TRUE)], c, <<"UP">>),
                c, "return", <<>>)

\* Data first, then the error, then the end of the stream.
HandleRead(s, c) ==
    LET k == s.socket[c]
    IN  IF k.arrived > 0
        THEN RunCallback(Tell([s EXCEPT !.socket[c].arrived = 0], c, <<"MESSAGE">>),
                         c, "return", <<>>)
        ELSE IF k.error \/ ~(k.fin \/ k.reset) THEN HandleError(s, c)
        ELSE HandleClose(s, c)

-----------------------------------------------------------------------------
(* The user's callbacks.                                                    *)

\* Send(), Shutdown() and ForceClose() test status_.
Accepts(op, status) ==
    status = "CONNECTED" \/ (op = "ForceClose" /\ status = "DISCONNECTING")

\* They go on in the loop's thread.
FromLoop(s, c, op) ==
    CASE op = "Send" -> SendInLoop(s, c, Message(Loop))
      [] op = "Shutdown" -> ShutdownInLoop([s EXCEPT !.status_[c] = "DISCONNECTING"], c)
      [] op = "ForceClose" -> ForceCloseInLoop([s EXCEPT !.status_[c] = "DISCONNECTING"], c)

\* Such a call is made although the rest of a message has still to be kept.
Interrupt(s, c, op) ==
    [s EXCEPT !.interrupted[c] =
        IF \E i \in DOMAIN s.stack : s.stack[i].conn = c /\ s.stack[i].then = "append"
        THEN @ \cup {op} ELSE @]

\* The method that made the innermost callback goes on.
Resumed(s) ==
    LET frame == Head(s.stack)
        c == frame.conn
        rest == [s EXCEPT !.stack = Tail(@)]
    IN  CASE frame.then = "append" -> Kept(rest, c, frame.data)
          [] frame.then = "shutdown" ->
                 IF s.status_[c] = "DISCONNECTING" THEN ShutdownInLoop(rest, c) ELSE rest
          [] frame.then = "return" -> rest

-----------------------------------------------------------------------------
Init ==
    /\ \E fd \in [Channel -> Fd] :
           /\ IsInjective(fd)
           /\ net = [
                  table |-> [EmptyTable EXCEPT !.fd_ = fd],
                  status_ |-> [c \in Channel |-> "CONNECTIONG"],
                  output_buffer_ |-> [c \in Channel |-> <<>>],
                  socket |-> [c \in Channel |->
                      [sent |-> <<>>, room |-> Room, shut |-> FALSE, arrived |-> 0,
                       fin |-> FALSE, reset |-> FALSE, error |-> FALSE]],
                  stack |-> <<>>,
                  told |-> [c \in Channel |-> <<>>],
                  interrupted |-> [c \in Channel |-> {}],
                  reopened |-> {}, process |-> "running"]
    /\ task_ \in {[i \in 1..Cardinality(Channel) |->
                      [op |-> "Establish", conn |-> f[i], data |-> <<>>]] :
                          f \in Bijection(1..Cardinality(Channel), Channel)}
    /\ active = <<>> /\ handling = FALSE /\ batch = <<>>
    /\ call = [t \in Thread |-> Idle]
    /\ next = 1

\* A message takes the next number.
Number(op) == (op = "Send" => next <= MaxMessage) /\ next' = IF op = "Send" THEN next + 1 ELSE next

Ready(s) == FlattenSeq([i \in DOMAIN s.table.pollfds_ |-> Reports(s, i)])

\* A report for an entry whose descriptor is not in channels_ ends in nowhere.
Poll ==
    /\ ~handling /\ batch = <<>> /\ net.stack = <<>>
    /\ Ready(net) # <<>> \/ task_ # <<>>
    /\ active' = Ready(net)
    /\ net' = IF \E i \in DOMAIN active' : active'[i].conn = NoChannel
              THEN [net EXCEPT !.process = "undefined"] ELSE net
    /\ handling' = TRUE
    /\ UNCHANGED <<task_, batch, call, next>>

Handle ==
    /\ active # <<>> /\ net.stack = <<>>
    /\ LET c == Head(active).conn
       IN  net' = CASE Head(active).name = "close" -> HandleClose(net, c)
                    [] Head(active).name = "error" -> HandleError(net, c)
                    [] Head(active).name = "read" -> HandleRead(net, c)
                    [] Head(active).name = "write" -> HandleWrite(net, c)
    /\ active' = Tail(active)
    /\ UNCHANGED <<handling, task_, batch, call, next>>

DoPendingTask ==
    /\ handling /\ active = <<>> /\ net.stack = <<>>
    /\ handling' = FALSE
    /\ batch' = task_ /\ task_' = <<>>
    /\ UNCHANGED <<net, active, call, next>>

RunTask ==
    /\ batch # <<>> /\ net.stack = <<>>
    /\ LET task == Head(batch)
       IN  net' = CASE task.op = "Establish" -> ConnectEstablished(net, task.conn)
                    [] task.op = "Send" -> SendInLoop(net, task.conn, task.data)
                    [] task.op = "Shutdown" -> ShutdownInLoop(net, task.conn)
                    [] task.op = "ForceClose" -> ForceCloseInLoop(net, task.conn)
    /\ batch' = Tail(batch)
    /\ UNCHANGED <<active, handling, task_, call, next>>

\* The innermost callback calls its connection; a call that is refused changes nothing.
Reply(op) ==
    /\ net.stack # <<>>
    /\ LET c == Head(net.stack).conn
       IN  /\ Accepts(op, net.status_[c])
           /\ net' = FromLoop(Interrupt(net, c, op), c, op)
    /\ Number(op)
    /\ UNCHANGED <<active, handling, task_, batch, call>>

CallbackReturns ==
    /\ net.stack # <<>>
    /\ net' = Resumed(net)
    /\ UNCHANGED <<active, handling, task_, batch, call, next>>

\* Another thread: status_ is tested, then set, then the rest is queued.
Test(t, c, op) ==
    /\ call[t] = Idle
    /\ Accepts(op, net.status_[c])
    /\ call' = [call EXCEPT ![t] =
          [op |-> op, conn |-> c, set |-> FALSE,
           data |-> IF op = "Send" THEN Message(t) ELSE <<>>]]
    /\ Number(op)
    /\ UNCHANGED <<net, active, handling, task_, batch>>

Set(t) ==
    /\ call[t] # Idle /\ call[t].op \in {"Shutdown", "ForceClose"}
    /\ ~call[t].set
    /\ LET c == call[t].conn
       IN  net' = [net EXCEPT !.status_[c] = "DISCONNECTING",
                              !.reopened = IF net.status_[c] = "DISCONNECTED"
                                           THEN @ \cup {c} ELSE @]
    /\ call' = [call EXCEPT ![t].set = TRUE]
    /\ UNCHANGED <<active, handling, task_, batch, next>>

Queue(t) ==
    /\ call[t] # Idle
    /\ call[t].op = "Send" \/ call[t].set
    /\ Len(task_) < MaxTask
    /\ task_' = Append(task_, [op |-> call[t].op, conn |-> call[t].conn, data |-> call[t].data])
    /\ call' = [call EXCEPT ![t] = Idle]
    /\ UNCHANGED <<net, active, handling, batch, next>>

\* The peer.
PeerReads(c) ==
    /\ net.socket[c].room < Room
    /\ net' = [net EXCEPT !.socket[c].room = Room]

PeerSends(c) ==
    /\ ~net.socket[c].fin /\ ~net.socket[c].reset
    /\ net.socket[c].arrived + Cardinality({i \in DOMAIN net.told[c] : net.told[c][i] = "MESSAGE"})
           < MaxArrival
    /\ net' = [net EXCEPT !.socket[c].arrived = @ + 1]

PeerCloses(c) ==
    /\ ~net.socket[c].fin /\ ~net.socket[c].reset
    /\ net' = [net EXCEPT !.socket[c].fin = TRUE]

PeerResets(c) ==
    /\ ~net.socket[c].reset
    /\ net' = [net EXCEPT !.socket[c].reset = TRUE, !.socket[c].error = TRUE]

Peer(c) ==
    /\ PeerReads(c) \/ PeerSends(c) \/ PeerCloses(c) \/ PeerResets(c)
    /\ UNCHANGED <<active, handling, task_, batch, call, next>>

LoopStep ==
    \/ Poll \/ Handle \/ DoPendingTask \/ RunTask
    \/ \E op \in Op : Reply(op)
    \/ CallbackReturns

Next ==
    /\ net.process = "running"
    /\ \/ LoopStep
       \/ \E t \in Thread : Set(t) \/ Queue(t) \/ \E c \in Channel, op \in Op : Test(t, c, op)
       \/ \E c \in Channel : Peer(c)

Spec == Init /\ [][Next]_vars

\* The loop runs, a callback returns, a thread that is inside a call returns from it,
\* and the peer reads what it is sent.
Fairness ==
    /\ WF_vars(net.process = "running" /\ LoopStep)
    /\ \A t \in Thread : WF_vars(net.process = "running" /\ (Set(t) \/ Queue(t)))
    /\ \A c \in Channel :
           WF_vars(net.process = "running" /\ PeerReads(c)
                   /\ UNCHANGED <<active, handling, task_, batch, call, next>>)

FairSpec == Spec /\ Fairness

-----------------------------------------------------------------------------
\* The types, and that the callbacks of a round and its tasks do not mix.
TypeOK ==
    /\ net \in Net
    /\ active \in Seq([conn : Channel \cup {NoChannel},
                       name : {"close", "error", "read", "write"}])
    /\ handling \in BOOLEAN
    /\ active # <<>> => handling
    /\ handling => batch = <<>>
    /\ net.stack # <<>> => net.status_[Head(net.stack).conn] # "CONNECTIONG"
    /\ task_ \in Seq(Task) /\ batch \in Seq(Task)
    /\ call \in [Thread -> Call \cup {Idle}]
    /\ next \in 1..(MaxMessage + 1)

Closed(c) == "CLOSE" \in Range(net.told[c])

\* What a short write of c left, as long as a callback keeps it from output_buffer_.
Suspended(c) ==
    IF net.stack # <<>> /\ Head(net.stack).conn = c THEN Head(net.stack).data ELSE <<>>

\* What the peer gets and what waits to be written are, one after the other, whole
\* messages, none twice, and those of one thread in the order it sent them: a message
\* that is given up leaves no part of it, and none overtakes output that waits
\* (SendInLoop, HandleWrite).  The exception is a Send() in the high-water callback,
\* which may go into the middle of the message that this callback interrupts.
WholeMessages ==
    /\ TypeOK
    /\ \A c \in Channel :
           LET bytes == net.socket[c].sent \o Suspended(c) \o net.output_buffer_[c]
           IN  "Send" \notin net.interrupted[c] =>
               /\ \A i \in DOMAIN bytes :
                      /\ i = 1 \/ bytes[i - 1].at = Length <=> bytes[i].at = 1
                      /\ bytes[i].at < Length =>
                             /\ i < Len(bytes)
                             /\ bytes[i + 1] = [bytes[i] EXCEPT !.at = @ + 1]
               /\ \A i, j \in DOMAIN bytes :
                      i < j /\ bytes[i].at = 1 /\ bytes[j].at = 1 /\ bytes[i].by = bytes[j].by
                          => bytes[i].msg < bytes[j].msg

\* A user is told UP first, no message after DOWN, and CLOSE once and last, and the
\* poll list is never used outside of its bounds, unless a Shutdown() or
\* ForceClose() of another thread has overwritten DISCONNECTED.  The list goes wrong
\* also when a second connection closes: HandleClose() of the first may have left a
\* last entry that is nobody's.  And it does after a ForceClose() in the high-water
\* callback: SendInLoop() then asks for WRITEEVENT at the index the channel had.
ToldInOrder ==
    /\ net.process = "undefined" =>
           \/ net.reopened # {}
           \/ \E c \in Channel : "ForceClose" \in net.interrupted[c]
           \/ \E c, d \in Channel : c # d /\ Closed(c) /\ Closed(d)
    /\ \A c \in Channel \ net.reopened :
           \A i, j \in DOMAIN net.told[c] : i < j =>
               /\ net.told[c][j] # "UP"
               /\ net.told[c][i] # "CLOSE"
               /\ net.told[c][j] = "MESSAGE" => net.told[c][i] # "DOWN"

\* Output of c waits to be written, in output_buffer_ or for a callback to return.
Waits(c) ==
    \/ net.output_buffer_[c] # <<>>
    \/ \E i \in DOMAIN net.stack : net.stack[i].conn = c /\ net.stack[i].data # <<>>

\* SHUT_WR comes after all that waited was written, however Shutdown() on one thread
\* falls among the writes of the loop.  The exception is a Shutdown() in the
\* high-water callback: it does not see the rest of the message it interrupts.
ShutdownAfterOutput ==
    \A c \in Channel :
        net.socket[c].shut =>
            /\ net.status_[c] # "CONNECTED"
            /\ ~Waits(c) \/ Closed(c) \/ "Shutdown" \in net.interrupted[c]

\* If the peer goes on reading, what a short write left is written, and a Shutdown() or
\* ForceClose() is carried out, also behind such output, unless the connection is
\* closed or the process dies of SIGPIPE.
Completes ==
    \A c \in Channel :
        /\ net.output_buffer_[c] # <<>> ~>
               net.output_buffer_[c] = <<>> \/ Closed(c) \/ net.process # "running"
        /\ net.status_[c] = "DISCONNECTING" ~>
               net.socket[c].shut \/ Closed(c) \/ net.process # "running"

\* poll() is told to ignore a channel's pollfd only if the channel asks for nothing
\* ("ignore this pollfd", Poller.cpp).
IgnoredOnlyIfNone ==
    \A c \in Channel :
        net.process = "running" /\ ~Closed(c) /\ net.table.interested_event_[c] # {} =>
            \E i \in DOMAIN net.table.pollfds_ : net.table.pollfds_[i].fd = net.table.fd_[c]
=============================================================================
