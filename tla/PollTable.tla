----------------------------- MODULE PollTable -----------------------------
(***************************************************************************)
(* Net::Poller and the part of Net::Channel that talks to it: the array     *)
(* pollfds_ given to poll(), the map channels_ from descriptors to          *)
(* channels, and the index into pollfds_ that each channel keeps.           *)
(*                                                                         *)
(* The operators on a table are the methods; they are pure so that a        *)
(* handler that calls several of them is still one step.                   *)
(***************************************************************************)
EXTENDS Integers, Sequences, FiniteSets

CONSTANTS
    Channel,        \* channel objects; one may be created again once destroyed
    NoChannel,      \* a null Channel pointer
    Fd,             \* file descriptors
    READEVENT, WRITEEVENT

ASSUME ChannelAssumption == NoChannel \notin Channel
ASSUME FdAssumption == Fd \subseteq Nat /\ Fd # {}
ASSUME EventAssumption == READEVENT # WRITEEVENT

Event == {READEVENT, WRITEEVENT}

\* A pollfd whose fd is negative is ignored by poll().
Pollfd == [fd : Int, events : SUBSET Event]

Table == [
    pollfds_ : Seq(Pollfd),
    channels_ : [Fd -> Channel \cup {NoChannel}],
    fd_ : [Channel -> Fd],
    interested_event_ : [Channel -> SUBSET Event],
    poll_index_ : [Channel -> Int]]

-----------------------------------------------------------------------------
(* Poller.                                                                  *)

\* The encoding of a descriptor to be ignored; it is its own inverse.
Ignored(fd) == (-fd) - 1

Descriptor(pfd) == IF pfd.fd < 0 THEN Ignored(pfd.fd) ELSE pfd.fd

\* Mutated form of Added: the channel is not entered into channels_.
Added_NotMapped(t, c) ==
    [t EXCEPT !.pollfds_ =
                  Append(@, [fd |-> t.fd_[c], events |-> t.interested_event_[c]]),
              !.poll_index_[c] = Len(t.pollfds_)]

Added(t, c) ==
    [t EXCEPT !.pollfds_ =
                  Append(@, [fd |-> t.fd_[c], events |-> t.interested_event_[c]]),
              !.poll_index_[c] = Len(t.pollfds_),
              !.channels_[t.fd_[c]] = c]

\* Mutated form of Rewritten: an ignored descriptor stays so when enabled again.
Rewritten_Ignored(t, c) ==
    LET i == t.poll_index_[c] + 1
    IN  [t EXCEPT !.pollfds_[i] =
            [fd |-> IF @.fd < 0 \/ t.interested_event_[c] = {}
                    THEN Ignored(t.fd_[c]) ELSE t.fd_[c],
             events |-> t.interested_event_[c]]]

Rewritten(t, c) ==
    LET i == t.poll_index_[c] + 1
    IN  [t EXCEPT !.pollfds_[i] =
            [fd |-> IF t.interested_event_[c] = {} THEN Ignored(t.fd_[c]) ELSE t.fd_[c],
             events |-> t.interested_event_[c]]]

UpdateChannel(t, c) ==
    IF t.poll_index_[c] < 0 THEN Added(t, c) ELSE Rewritten(t, c)

\* Mutated forms of RemoveChannel: the channel whose pollfd is moved is not told
\* its new index; and the last pollfd is dropped instead of the channel's own.
RemoveChannel_OldIndex(t, c) ==
    LET i == t.poll_index_[c] + 1
        last == t.pollfds_[Len(t.pollfds_)]
    IN  [t EXCEPT !.channels_[t.fd_[c]] = NoChannel,
                  !.pollfds_ = SubSeq([@ EXCEPT ![i] = last], 1, Len(@) - 1)]

RemoveChannel_Last(t, c) ==
    [t EXCEPT !.channels_[t.fd_[c]] = NoChannel,
              !.pollfds_ = SubSeq(@, 1, Len(@) - 1)]

\* The last pollfd takes the place of the removed one.  The channel itself keeps
\* the index it had.
RemoveChannel(t, c) ==
    LET n == Len(t.pollfds_)
        idx == t.poll_index_[c]
        last == t.pollfds_[n]
        channels == [t.channels_ EXCEPT ![t.fd_[c]] = NoChannel]
        channelAtEnd == channels[Descriptor(last)]
    IN  IF idx = n - 1
        THEN [t EXCEPT !.channels_ = channels,
                       !.pollfds_ = SubSeq(@, 1, n - 1)]
        ELSE [t EXCEPT !.channels_ = channels,
                       !.pollfds_ = SubSeq([@ EXCEPT ![idx + 1] = last], 1, n - 1),
                       !.poll_index_[channelAtEnd] = idx]

\* FillActiveChannels(): the channels of the pollfds that poll() has marked.  The
\* order in which the loop will handle them is left out.
FillActiveChannels(t, marked) == {t.channels_[t.pollfds_[i].fd] : i \in marked}

-----------------------------------------------------------------------------
(* Channel.                                                                 *)

\* EnableReading() and EnableWriting().
Enable(t, c, event, status) ==
    UpdateChannel([t EXCEPT !.interested_event_[c] =
                       IF status THEN @ \cup {event} ELSE @ \ {event}], c)

DisableAll(t, c) == UpdateChannel([t EXCEPT !.interested_event_[c] = {}], c)

Constructed(t, c, fd) ==
    [t EXCEPT !.fd_[c] = fd, !.interested_event_[c] = {}, !.poll_index_[c] = -1]


AnyFd == CHOOSE f \in Fd : TRUE

EmptyTable == [
    pollfds_ |-> <<>>,
    channels_ |-> [f \in Fd |-> NoChannel],
    fd_ |-> [c \in Channel |-> AnyFd],
    interested_event_ |-> [c \in Channel |-> {}],
    poll_index_ |-> [c \in Channel |-> -1]]
=============================================================================
