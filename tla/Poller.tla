------------------------------- MODULE Poller -------------------------------
(***************************************************************************)
(* The channels of one loop.  The actions call the methods of PollTable     *)
(* the way the owners of channels do: a channel is created on a             *)
(* descriptor, enabled, updated, removed from the list, and destroyed after *)
(* the event handling in which that happened; meanwhile its descriptor may  *)
(* be closed and come back, or be handed on, as that of another channel.    *)
(* Everything here runs on the loop's thread.                              *)
(***************************************************************************)
EXTENDS PollTable

VARIABLES
    table,          \* see Table
    life,           \* of each channel, see LifeState
    active          \* active_channels_ of the loop

vars == <<table, life, active>>

LifeState == {
    "none",         \* no such object
    "new",          \* constructed, not yet in the poll list
    "in",           \* in the poll list
    "removed"}      \* out of it again and waiting to be destroyed

TypeOK ==
    /\ table \in Table
    /\ life \in [Channel -> LifeState]
    /\ active \subseteq Channel

Live == {c \in Channel : life[c] \in {"new", "in"}}
Listed == {c \in Channel : life[c] = "in"}

-----------------------------------------------------------------------------
Init ==
    /\ table = EmptyTable
    /\ life = [c \in Channel |-> "none"]
    /\ active = {}

Construct(c, fd) ==
    /\ life[c] = "none"
    /\ \A d \in Live : table.fd_[d] # fd
    /\ table' = Constructed(table, c, fd)
    /\ life' = [life EXCEPT ![c] = "new"]
    /\ UNCHANGED active

\* The first call for a new channel is always one that enables.
EnableEvent(c, event) ==
    /\ c \in Live
    /\ table' = Enable(table, c, event, TRUE)
    /\ life' = [life EXCEPT ![c] = "in"]
    /\ UNCHANGED active

DisableEvent(c, event) ==
    /\ c \in Listed
    /\ table' = Enable(table, c, event, FALSE)
    /\ UNCHANGED <<life, active>>

DisableAllEvents(c) ==
    /\ c \in Listed
    /\ table' = DisableAll(table, c)
    /\ UNCHANGED <<life, active>>

RemoveSelfInPoll(c) ==
    /\ c \in Listed
    /\ table' = RemoveChannel(table, c)
    /\ life' = [life EXCEPT ![c] = "removed"]
    /\ UNCHANGED active

\* An Acceptor that was never started is destroyed: its channel enters the list
\* and leaves it at once.
RemoveUnused(c) ==
    /\ life[c] = "new"
    /\ table' = RemoveChannel(DisableAll(table, c), c)
    /\ life' = [life EXCEPT ![c] = "removed"]
    /\ UNCHANGED active

\* Poll() returns: marked are the pollfds with events, never one to be ignored.
\* Handlers of the previous round are over by then.
Poll(marked) ==
    /\ marked # {}
    /\ \A i \in marked : table.pollfds_[i].fd >= 0
    /\ active' = FillActiveChannels(table, marked)
    /\ UNCHANGED <<table, life>>

\* A removed channel is destroyed by a queued task, after the round's handlers,
\* and nothing remains of its members.
Destruct(c) ==
    /\ life[c] = "removed"
    /\ table' = Constructed(table, c, AnyFd)
    /\ life' = [life EXCEPT ![c] = "none"]
    /\ active' = {}

Next ==
    \/ \E c \in Channel, fd \in Fd : Construct(c, fd)
    \/ \E c \in Channel, event \in Event : EnableEvent(c, event) \/ DisableEvent(c, event)
    \/ \E c \in Channel :
           \/ DisableAllEvents(c) \/ RemoveSelfInPoll(c)
           \/ RemoveUnused(c) \/ Destruct(c)
    \/ \E marked \in SUBSET DOMAIN table.pollfds_ : Poll(marked)

Spec == Init /\ [][Next]_vars

-----------------------------------------------------------------------------
\* The index of c leads to a pollfd with its own descriptor and events, ignored
\* exactly if it asks for none, and the map leads from the descriptor back to c.
Own(t, c) ==
    LET i == t.poll_index_[c] + 1
    IN  /\ i \in DOMAIN t.pollfds_
        /\ Descriptor(t.pollfds_[i]) = t.fd_[c]
        /\ t.pollfds_[i].events = t.interested_event_[c]
        /\ t.pollfds_[i].fd < 0 <=> t.interested_event_[c] = {}
        /\ t.channels_[t.fd_[c]] = c

InStep(t, channels) ==
    /\ \A c \in channels : Own(t, c)
    /\ \A i \in DOMAIN t.pollfds_ : \E c \in channels : t.poll_index_[c] = i - 1

\* Array, map and indices stay in step: each listed channel's index is its own,
\* and there is no pollfd besides.  Every later update writes through that index
\* without a check.
IndexOwn == InStep(table, Listed)

\* The list as poll() and FillActiveChannels() see it, which is through pollfds_
\* and channels_ and not through the channels.
ChannelAt(t, i) == t.channels_[Descriptor(t.pollfds_[i])]

EntryOf(t, c) == CHOOSE i \in DOMAIN t.pollfds_ : ChannelAt(t, i) = c

Watched(t) ==
    [c \in {ChannelAt(t, i) : i \in DOMAIN t.pollfds_} |->
        IF t.pollfds_[EntryOf(t, c)].fd < 0 THEN {} ELSE t.pollfds_[EntryOf(t, c)].events]

List == INSTANCE PollSet WITH
    wanted <- table.interested_event_,
    watched <- Watched(table),
    reported <- active

\* Moving the last pollfd into the gap, ignoring by a negative descriptor and
\* reusing descriptors amount to changing one channel's entry at a time: poll()
\* watches for each channel what it asked for last, and reports go to the
\* channel that asked.
ImplementsPollSet == List!Spec
=============================================================================
