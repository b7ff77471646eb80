------------------------------ MODULE PollSet ------------------------------
(***************************************************************************)
(* What the channels of an event loop may expect of its poll list: each is  *)
(* watched for the events it asked for last, changing or withdrawing one    *)
(* leaves the others alone, and a poll reports no channel but those that    *)
(* ask for something.  Poller.tla shows that Net::Poller, with its array of pollfds *)
(* and the indices into it, implements it.                                 *)
(***************************************************************************)
CONSTANTS Channel, Event

VARIABLES
    wanted,         \* the events each channel asked for last
    watched,        \* the events of every channel in the list
    reported        \* the channels the last poll found ready

vars == <<wanted, watched, reported>>

Init ==
    /\ wanted = [c \in Channel |-> {}]
    /\ watched = [c \in {} |-> {}]
    /\ reported = {}

\* A channel is created or destroyed, outside the list; the report of the last
\* poll is over when one is destroyed.
Renew(c) ==
    /\ c \notin DOMAIN watched
    /\ wanted' = [wanted EXCEPT ![c] = {}]
    /\ reported' \in {reported, {}}
    /\ UNCHANGED watched

Ask(c, events) ==
    /\ wanted' = [wanted EXCEPT ![c] = events]
    /\ watched' = [d \in DOMAIN watched \cup {c} |->
                       IF d = c THEN events ELSE watched[d]]
    /\ UNCHANGED reported

Withdraw(c) ==
    /\ watched' = [d \in DOMAIN watched \ {c} |-> watched[d]]
    /\ UNCHANGED <<wanted, reported>>

Poll(ready) ==
    /\ \A c \in ready : watched[c] # {}
    /\ reported' = ready
    /\ UNCHANGED <<wanted, watched>>

Next ==
    \/ \E c \in Channel, events \in SUBSET Event : Ask(c, events)
    \/ \E c \in Channel : Renew(c) \/ Withdraw(c)
    \/ \E ready \in SUBSET DOMAIN watched : Poll(ready)

Spec == Init /\ [][Next]_vars
=============================================================================
