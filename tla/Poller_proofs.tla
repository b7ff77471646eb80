---------------------------- MODULE Poller_proofs ----------------------------
(***************************************************************************)
(* Proofs about Poller for any channels and any descriptors.               *)
(***************************************************************************)
EXTENDS Poller, SequenceTheorems, TLAPS

-----------------------------------------------------------------------------
(* Lemmas about the operators on a table.                                   *)

\* The fields of a table.
LEMMA TableType ==
    ASSUME NEW t \in Table
    PROVE  /\ t.pollfds_ \in Seq(Pollfd)
           /\ t.channels_ \in [Fd -> Channel \cup {NoChannel}]
           /\ t.fd_ \in [Channel -> Fd]
           /\ t.interested_event_ \in [Channel -> SUBSET Event]
           /\ t.poll_index_ \in [Channel -> Int]
BY DEF Table

\* The entry made for a channel: its descriptor comes back, and it is ignored
\* exactly if the channel asks for nothing.
LEMMA EntryFacts ==
    ASSUME NEW fd \in Fd, NEW events \in SUBSET Event
    PROVE  LET e == [fd |-> IF events = {} THEN Ignored(fd) ELSE fd, events |-> events]
           IN  /\ e \in Pollfd
               /\ Descriptor(e) = fd
               /\ e.events = events
               /\ e.fd < 0 <=> events = {}
BY FdAssumption DEF Pollfd, Ignored, Descriptor

\* Two channels in step with a table do not share an index.
LEMMA IndexInjective ==
    ASSUME NEW t \in Table, NEW S \in SUBSET Channel, InStep(t, S),
           NEW c \in S, NEW d \in S, t.poll_index_[c] = t.poll_index_[d]
    PROVE  c = d
BY DEF InStep, Own

\* The index of a channel in step is a position of the array, counted from 0.
LEMMA IndexRange ==
    ASSUME NEW t \in Table, NEW c \in Channel, Own(t, c)
    PROVE  /\ t.poll_index_[c] \in Int
           /\ 0 <= t.poll_index_[c]
           /\ t.poll_index_[c] + 1 <= Len(t.pollfds_)
           /\ Len(t.pollfds_) \in Nat
BY TableType DEF Own

\* A channel that is new to the list is put at the end of the array.
LEMMA AddedInStep ==
    ASSUME NEW t \in Table, NEW S \in SUBSET Channel, InStep(t, S),
           NEW c \in Channel, c \notin S,
           t.interested_event_[c] # {},
           \A d \in S : t.fd_[d] # t.fd_[c]
    PROVE  LET u == Added(t, c)
           IN  /\ u \in Table /\ InStep(u, S \cup {c})
               /\ u.fd_ = t.fd_
               /\ u.interested_event_ = t.interested_event_
               /\ \A d \in Channel \ {c} : u.poll_index_[d] = t.poll_index_[d]
<1> DEFINE e == [fd |-> t.fd_[c], events |-> t.interested_event_[c]]
           u == Added(t, c)
           n == Len(t.pollfds_)
<1>1. /\ e \in Pollfd /\ Descriptor(e) = t.fd_[c] /\ ~(e.fd < 0)
      /\ e.events = t.interested_event_[c]
  <2>1. t.fd_[c] \in Nat /\ t.interested_event_[c] \in SUBSET Event
    BY TableType, FdAssumption
  <2>. QED
    BY <2>1 DEF Pollfd, Descriptor
<1>2. /\ u.pollfds_ = Append(t.pollfds_, e)
      /\ u.channels_ = [t.channels_ EXCEPT ![t.fd_[c]] = c]
      /\ u.fd_ = t.fd_
      /\ u.interested_event_ = t.interested_event_
      /\ u.poll_index_ = [t.poll_index_ EXCEPT ![c] = n]
  BY DEF Added, Table
<1>3. u \in Table
  <2>1. u = [t EXCEPT !.pollfds_ = u.pollfds_, !.poll_index_ = u.poll_index_,
                      !.channels_ = u.channels_]
    BY DEF Added, Table
  <2>2. /\ u.pollfds_ \in Seq(Pollfd)
        /\ u.channels_ \in [Fd -> Channel \cup {NoChannel}]
        /\ u.poll_index_ \in [Channel -> Int]
    <3> HIDE DEF e, u
    <3>. QED  BY <1>1, <1>2, TableType
  <2>. QED
    BY <2>1, <2>2 DEF Table
<1> HIDE DEF e, u
<1>4. n \in Nat /\ Len(u.pollfds_) = n + 1 /\ DOMAIN u.pollfds_ = 1..(n + 1)
      /\ DOMAIN t.pollfds_ = 1..n
      /\ u.pollfds_[n + 1] = e /\ \A i \in 1..n : u.pollfds_[i] = t.pollfds_[i]
  BY <1>1, <1>2, TableType
<1>5. Own(u, c)
  BY <1>1, <1>2, <1>4, TableType DEF Own
<1>6. ASSUME NEW d \in S PROVE Own(u, d)
  <2>1. Own(t, d) /\ d # c /\ t.fd_[d] # t.fd_[c]
    BY DEF InStep
  <2>2. u.poll_index_[d] = t.poll_index_[d] /\ u.channels_[t.fd_[d]] = t.channels_[t.fd_[d]]
    BY <1>2, <2>1, TableType
  <2>3. t.poll_index_[d] + 1 \in 1..n
    BY <1>4, <2>1 DEF Own
  <2>. QED
    BY <1>2, <1>4, <2>1, <2>2, <2>3 DEF Own
<1>7. ASSUME NEW i \in DOMAIN u.pollfds_
      PROVE  \E d \in S \cup {c} : u.poll_index_[d] = i - 1
  <2>1. CASE i = n + 1
    BY <1>2, <1>4, <2>1, TableType
  <2>2. CASE i # n + 1
    <3>1. i \in DOMAIN t.pollfds_
      BY <1>4, <2>2
    <3>2. PICK d \in S : t.poll_index_[d] = i - 1
      BY <3>1 DEF InStep
    <3>. QED
      BY <1>2, <3>2, TableType
  <2>. QED  BY <2>1, <2>2
<1>8. \A d \in Channel \ {c} : u.poll_index_[d] = t.poll_index_[d]
  BY <1>2, TableType
<1>9. InStep(u, S \cup {c})
  BY <1>5, <1>6, <1>7 DEF InStep
<1>. QED
  BY <1>2, <1>3, <1>8, <1>9 DEF u

\* Rewriting the entry of a channel with the events it now asks for.
LEMMA RewrittenInStep ==
    ASSUME NEW t \in Table, NEW S \in SUBSET Channel, InStep(t, S),
           NEW c \in S, NEW events \in SUBSET Event
    PROVE  LET u == Rewritten([t EXCEPT !.interested_event_[c] = events], c)
           IN  /\ u \in Table /\ InStep(u, S)
               /\ u.fd_ = t.fd_
               /\ u.interested_event_ = [t.interested_event_ EXCEPT ![c] = events]
               /\ u.poll_index_ = t.poll_index_
<1> DEFINE e == [fd |-> IF events = {} THEN Ignored(t.fd_[c]) ELSE t.fd_[c],
                 events |-> events]
           i == t.poll_index_[c] + 1
           u == Rewritten([t EXCEPT !.interested_event_[c] = events], c)
<1>1. /\ e \in Pollfd /\ Descriptor(e) = t.fd_[c] /\ e.events = events
      /\ e.fd < 0 <=> events = {}
  BY TableType, EntryFacts
<1>a. /\ i \in DOMAIN t.pollfds_
      /\ \A d \in S : d # c => t.poll_index_[d] + 1 # i
  BY IndexInjective, TableType DEF InStep, Own
<1>2. /\ u.pollfds_ = [t.pollfds_ EXCEPT ![i] = e]
      /\ u.channels_ = t.channels_
      /\ u.fd_ = t.fd_
      /\ u.interested_event_ = [t.interested_event_ EXCEPT ![c] = events]
      /\ u.poll_index_ = t.poll_index_
  BY DEF Rewritten, Table
<1>3. u \in Table
  <2>1. u = [t EXCEPT !.pollfds_ = u.pollfds_, !.interested_event_ = u.interested_event_]
    BY DEF Rewritten, Table
  <2>2. /\ u.pollfds_ \in Seq(Pollfd)
        /\ u.interested_event_ \in [Channel -> SUBSET Event]
    <3>1. i \in 1..Len(t.pollfds_)
      BY <1>a, TableType
    <3> HIDE DEF e, u, i
    <3>2. u.pollfds_ \in Seq(Pollfd)
      BY <1>1, <1>2, <3>1, TableType, ExceptSeq
    <3>3. u.interested_event_ \in [Channel -> SUBSET Event]
      BY <1>2, TableType
    <3>. QED  BY <3>2, <3>3
  <2>. QED
    BY <2>1, <2>2 DEF Table
<1> HIDE DEF e, u, i
<1>5. /\ DOMAIN u.pollfds_ = DOMAIN t.pollfds_ /\ u.pollfds_[i] = e
      /\ \A j \in DOMAIN t.pollfds_ : j # i => u.pollfds_[j] = t.pollfds_[j]
  BY <1>1, <1>2, <1>a, TableType
<1>6. Own(t, c)
  BY DEF InStep
<1>7. Own(u, c)
  BY <1>1, <1>2, <1>a, <1>5, <1>6, TableType DEF Own, i
<1>8. ASSUME NEW d \in S, d # c PROVE Own(u, d)
  <2>1. Own(t, d) /\ t.poll_index_[d] + 1 # i
    BY <1>a, <1>8 DEF InStep
  <2>2. u.interested_event_[d] = t.interested_event_[d]
    BY <1>2, <1>8, TableType
  <2>. QED
    BY <1>2, <1>5, <2>1, <2>2 DEF Own
<1>9. ASSUME NEW j \in DOMAIN u.pollfds_
      PROVE  \E d \in S : u.poll_index_[d] = j - 1
  BY <1>2, <1>5 DEF InStep
<1>10. InStep(u, S)
  BY <1>7, <1>8, <1>9 DEF InStep
<1>. QED
  BY <1>2, <1>3, <1>10 DEF u

\* Removing a channel: the last entry is moved to its place.
LEMMA RemovedInStep ==
    ASSUME NEW t \in Table, NEW S \in SUBSET Channel, InStep(t, S), NEW c \in S
    PROVE  LET u == RemoveChannel(t, c)
           IN  /\ u \in Table /\ InStep(u, S \ {c})
               /\ u.fd_ = t.fd_
               /\ u.interested_event_ = t.interested_event_
               /\ \A d \in Channel \ S : u.poll_index_[d] = t.poll_index_[d]
<1> DEFINE u == RemoveChannel(t, c)
           n == Len(t.pollfds_)
           idx == t.poll_index_[c]
<1>1. Own(t, c) /\ idx \in Int /\ 0 <= idx /\ idx + 1 <= n /\ n \in Nat
  BY IndexRange DEF InStep
<1>2. \A d \in S : d # c => t.fd_[d] # t.fd_[c] /\ t.poll_index_[d] # idx
  BY IndexInjective DEF InStep, Own
<1>3. DOMAIN t.pollfds_ = 1..n /\ n \in DOMAIN t.pollfds_ /\ n - 1 + 1 = n
  BY <1>1, TableType
<1>b. [t.channels_ EXCEPT ![t.fd_[c]] = NoChannel] \in [Fd -> Channel \cup {NoChannel}]
  BY TableType
<1>4. CASE idx = n - 1
  <2>1. /\ u.channels_ = [t.channels_ EXCEPT ![t.fd_[c]] = NoChannel]
        /\ u.pollfds_ = SubSeq(t.pollfds_, 1, n - 1)
        /\ u.fd_ = t.fd_ /\ u.interested_event_ = t.interested_event_
        /\ u.poll_index_ = t.poll_index_
        /\ u = [t EXCEPT !.channels_ = u.channels_, !.pollfds_ = u.pollfds_]
    BY <1>4 DEF RemoveChannel, Table
  <2> HIDE DEF u
  <2>2. /\ u.pollfds_ \in Seq(Pollfd) /\ DOMAIN u.pollfds_ = 1..(n - 1)
        /\ \A i \in 1..(n - 1) : u.pollfds_[i] = t.pollfds_[i]
    BY <1>1, <1>3, <2>1, TableType
  <2>3. u \in Table
    BY <1>b, <2>1, <2>2, TableType DEF Table
  <2>4. ASSUME NEW d \in S \ {c} PROVE Own(u, d)
    <3>1. Own(t, d) /\ t.fd_[d] # t.fd_[c] /\ t.poll_index_[d] # n - 1
      BY <1>2, <1>4 DEF InStep
    <3>2. t.poll_index_[d] + 1 \in 1..(n - 1)
      <4>1. /\ t.poll_index_[d] \in Int /\ 0 <= t.poll_index_[d]
            /\ t.poll_index_[d] + 1 <= Len(t.pollfds_) /\ Len(t.pollfds_) \in Nat
        BY <3>1, IndexRange
      <4>. HIDE DEF Own
      <4>. QED  BY <1>1, <1>3, <3>1, <4>1
    <3>3. u.channels_[t.fd_[d]] = t.channels_[t.fd_[d]]
      BY <2>1, <3>1, TableType
    <3>. QED
      BY <2>1, <2>2, <3>1, <3>2, <3>3 DEF Own
  <2>5. ASSUME NEW i \in DOMAIN u.pollfds_
        PROVE  \E d \in S \ {c} : u.poll_index_[d] = i - 1
    <3>1. PICK d \in S : t.poll_index_[d] = i - 1
      BY <1>1, <1>3, <2>2 DEF InStep
    <3>. QED
      BY <1>1, <1>4, <2>1, <2>2, <3>1
  <2>6. InStep(u, S \ {c})
    BY <2>4, <2>5 DEF InStep
  <2>. QED
    BY <2>1, <2>3, <2>6 DEF u
<1>5. CASE idx # n - 1
  <2> DEFINE last == t.pollfds_[n]
  <2>1. PICK e \in S : t.poll_index_[e] = n - 1
    BY <1>3 DEF InStep
  <2>2. e # c /\ Descriptor(last) = t.fd_[e] /\ t.channels_[t.fd_[e]] = e
    <3>1. Own(t, e)
      BY DEF InStep
    <3>2. t.poll_index_[e] + 1 = n
      BY <1>3, <2>1
    <3>. QED
      BY <1>5, <2>1, <3>1, <3>2 DEF Own
  <2>3. [t.channels_ EXCEPT ![t.fd_[c]] = NoChannel][Descriptor(last)] = e
    BY <1>2, <2>2, TableType
  <2>4. u = [t EXCEPT !.channels_ = [t.channels_ EXCEPT ![t.fd_[c]] = NoChannel],
                      !.pollfds_ = SubSeq([@ EXCEPT ![idx + 1] = last], 1, n - 1),
                      !.poll_index_[e] = idx]
    BY <1>5, <2>3 DEF RemoveChannel
  <2>5. /\ u.channels_ = [t.channels_ EXCEPT ![t.fd_[c]] = NoChannel]
        /\ u.pollfds_ = SubSeq([t.pollfds_ EXCEPT ![idx + 1] = last], 1, n - 1)
        /\ u.fd_ = t.fd_ /\ u.interested_event_ = t.interested_event_
        /\ u.poll_index_ = [t.poll_index_ EXCEPT ![e] = idx]
        /\ u = [t EXCEPT !.channels_ = u.channels_, !.pollfds_ = u.pollfds_,
                         !.poll_index_ = u.poll_index_]
    BY <2>4 DEF Table
  <2> HIDE DEF u
  <2>6. /\ u.pollfds_ \in Seq(Pollfd) /\ DOMAIN u.pollfds_ = 1..(n - 1)
        /\ u.pollfds_[idx + 1] = last
        /\ \A i \in 1..(n - 1) : i # idx + 1 => u.pollfds_[i] = t.pollfds_[i]
    <3> DEFINE q == [t.pollfds_ EXCEPT ![idx + 1] = last]
    <3>1. /\ t.pollfds_ \in Seq(Pollfd) /\ n \in Nat /\ n > 0 /\ idx \in 0..(n - 1)
          /\ last \in Pollfd
      BY <1>1, <1>3, TableType
    <3>2. /\ q \in Seq(Pollfd) /\ Len(q) = n /\ q[idx + 1] = last
          /\ \A i \in 1..n : i # idx + 1 => q[i] = t.pollfds_[i]
      BY <3>1
    <3>3. u.pollfds_ = SubSeq(q, 1, n - 1) /\ idx + 1 \in 1..(n - 1)
      BY <1>5, <2>5, <3>1
    <3> HIDE DEF q
    <3>. QED
      BY <3>1, <3>2, <3>3
  <2>7. u \in Table
    <3>1. u.poll_index_ \in [Channel -> Int]
      BY <1>1, <2>5, TableType
    <3>. QED
      BY <1>b, <2>5, <2>6, <3>1, TableType DEF Table
  <2>8. Own(u, e)
    <3>1. Own(t, e) /\ t.poll_index_[e] + 1 = n /\ t.fd_[e] # t.fd_[c]
      BY <1>2, <1>3, <2>1, <2>2 DEF InStep
    <3>2. u.poll_index_[e] = idx /\ idx + 1 \in DOMAIN u.pollfds_
      BY <1>1, <1>5, <2>5, <2>6, TableType
    <3>3. u.channels_[t.fd_[e]] = t.channels_[t.fd_[e]]
      BY <2>5, <3>1, TableType
    <3>. QED
      BY <2>2, <2>5, <2>6, <3>1, <3>2, <3>3 DEF Own
  <2>9. ASSUME NEW d \in S \ {c, e} PROVE Own(u, d)
    <3>1. Own(t, d) /\ t.fd_[d] # t.fd_[c] /\ t.poll_index_[d] # idx
      BY <1>2 DEF InStep
    <3>2. t.poll_index_[d] # n - 1
      BY <2>1, IndexInjective
    <3>3. t.poll_index_[d] + 1 \in 1..(n - 1) /\ t.poll_index_[d] + 1 # idx + 1
      BY <1>1, <1>3, <3>1, <3>2, IndexRange
    <3>4. u.channels_[t.fd_[d]] = t.channels_[t.fd_[d]]
          /\ u.poll_index_[d] = t.poll_index_[d]
      BY <2>5, <3>1, TableType
    <3>. QED
      BY <2>5, <2>6, <3>1, <3>3, <3>4 DEF Own
  <2>10. ASSUME NEW i \in DOMAIN u.pollfds_
         PROVE  \E d \in S \ {c} : u.poll_index_[d] = i - 1
    <3>1. CASE i = idx + 1
      BY <1>1, <2>2, <2>5, <3>1, TableType
    <3>2. CASE i # idx + 1
      <4>1. PICK d \in S : t.poll_index_[d] = i - 1
        BY <1>1, <1>3, <2>6 DEF InStep
      <4>2. d # c /\ d # e
        BY <1>1, <2>1, <2>6, <3>2, <4>1
      <4>. QED
        BY <2>5, <4>1, <4>2, TableType
    <3>. QED  BY <3>1, <3>2
  <2>11. InStep(u, S \ {c})
    <3>1. \A d \in S \ {c} : Own(u, d)
      BY <2>8, <2>9
    <3>. QED
      BY <2>10, <3>1 DEF InStep
  <2>12. \A d \in Channel \ S : u.poll_index_[d] = t.poll_index_[d]
    BY <2>5, TableType
  <2>. QED
    BY <2>5, <2>7, <2>11, <2>12 DEF u
<1>. QED  BY <1>4, <1>5

\* What is done to a channel outside the list does not disturb the list.
LEMMA AsideInStep ==
    ASSUME NEW t \in Table, NEW S \in SUBSET Channel, InStep(t, S),
           NEW u \in Table,
           u.pollfds_ = t.pollfds_,
           \A d \in S : /\ u.fd_[d] = t.fd_[d]
                       /\ u.interested_event_[d] = t.interested_event_[d]
                       /\ u.poll_index_[d] = t.poll_index_[d]
                       /\ u.channels_[t.fd_[d]] = t.channels_[t.fd_[d]]
    PROVE  InStep(u, S)
<1>1. ASSUME NEW d \in S PROVE Own(u, d)
  <2>1. Own(t, d)
    BY DEF InStep
  <2>. QED
    BY <2>1 DEF Own
<1>2. ASSUME NEW i \in DOMAIN u.pollfds_ PROVE \E d \in S : u.poll_index_[d] = i - 1
  BY DEF InStep
<1>. QED
  BY <1>1, <1>2 DEF InStep

\* A new channel is in no entry.
LEMMA ConstructedInStep ==
    ASSUME NEW t \in Table, NEW S \in SUBSET Channel, InStep(t, S),
           NEW c \in Channel, c \notin S, NEW fd \in Fd
    PROVE  LET u == Constructed(t, c, fd)
           IN  /\ u \in Table /\ InStep(u, S)
               /\ u.fd_ = [t.fd_ EXCEPT ![c] = fd]
               /\ u.interested_event_ = [t.interested_event_ EXCEPT ![c] = {}]
               /\ u.poll_index_ = [t.poll_index_ EXCEPT ![c] = -1]
<1> DEFINE u == Constructed(t, c, fd)
<1>1. /\ u.pollfds_ = t.pollfds_ /\ u.channels_ = t.channels_
      /\ u.fd_ = [t.fd_ EXCEPT ![c] = fd]
      /\ u.interested_event_ = [t.interested_event_ EXCEPT ![c] = {}]
      /\ u.poll_index_ = [t.poll_index_ EXCEPT ![c] = -1]
      /\ u = [t EXCEPT !.fd_ = u.fd_, !.interested_event_ = u.interested_event_,
                       !.poll_index_ = u.poll_index_]
  BY DEF Constructed, Table
<1> HIDE DEF u
<1>2. /\ u.fd_ \in [Channel -> Fd]
      /\ u.interested_event_ \in [Channel -> SUBSET Event]
      /\ u.poll_index_ \in [Channel -> Int]
  BY <1>1, TableType
<1>3. u \in Table
  BY <1>1, <1>2 DEF Table
<1>4. InStep(u, S)
  <2>1. ASSUME NEW d \in S PROVE u.fd_[d] = t.fd_[d]
    BY <1>1, TableType
  <2>2. ASSUME NEW d \in S PROVE u.interested_event_[d] = t.interested_event_[d]
    BY <1>1, TableType
  <2>3. ASSUME NEW d \in S PROVE u.poll_index_[d] = t.poll_index_[d]
    BY <1>1, TableType
  <2>4. u.pollfds_ = t.pollfds_ /\ u.channels_ = t.channels_
    BY <1>1
  <2>. QED
    BY <1>3, <2>1, <2>2, <2>3, <2>4, AsideInStep
<1>. QED
  BY <1>1, <1>3, <1>4 DEF u

\* Neither is one outside the list when its events change.
LEMMA InterestInStep ==
    ASSUME NEW t \in Table, NEW S \in SUBSET Channel, InStep(t, S),
           NEW c \in Channel, c \notin S, NEW events \in SUBSET Event
    PROVE  LET u == [t EXCEPT !.interested_event_[c] = events]
           IN  /\ u \in Table /\ InStep(u, S)
               /\ u.pollfds_ = t.pollfds_ /\ u.channels_ = t.channels_
               /\ u.fd_ = t.fd_
               /\ u.interested_event_ = [t.interested_event_ EXCEPT ![c] = events]
               /\ u.poll_index_ = t.poll_index_
<1> DEFINE u == [t EXCEPT !.interested_event_[c] = events]
<1>1. /\ u.pollfds_ = t.pollfds_ /\ u.channels_ = t.channels_
      /\ u.fd_ = t.fd_
      /\ u.interested_event_ = [t.interested_event_ EXCEPT ![c] = events]
      /\ u.poll_index_ = t.poll_index_
      /\ u = [t EXCEPT !.interested_event_ = u.interested_event_]
  BY DEF Table
<1> HIDE DEF u
<1>2. u.interested_event_ \in [Channel -> SUBSET Event]
  BY <1>1, TableType
<1>3. u \in Table
  BY <1>1, <1>2 DEF Table
<1>4. InStep(u, S)
  <2>1. ASSUME NEW d \in S PROVE u.interested_event_[d] = t.interested_event_[d]
    BY <1>1, TableType
  <2>. QED
    BY <1>1, <1>3, <2>1, AsideInStep
<1>. QED
  BY <1>1, <1>3, <1>4 DEF u

\* A channel that enters the list to leave it at once leaves nothing behind.
LEMMA PassedInStep ==
    ASSUME NEW t \in Table, NEW S \in SUBSET Channel, InStep(t, S),
           NEW c \in Channel, c \notin S,
           \A d \in S : t.fd_[d] # t.fd_[c]
    PROVE  LET u == RemoveChannel(Added(t, c), c)
           IN  /\ u \in Table /\ InStep(u, S)
               /\ u.fd_ = t.fd_
               /\ u.interested_event_ = t.interested_event_
               /\ \A d \in Channel \ {c} : u.poll_index_[d] = t.poll_index_[d]
<1> DEFINE e == [fd |-> t.fd_[c], events |-> t.interested_event_[c]]
           a == Added(t, c)
           u == RemoveChannel(a, c)
           n == Len(t.pollfds_)
<1>1. e \in Pollfd
  <2>1. t.fd_[c] \in Nat /\ t.interested_event_[c] \in SUBSET Event
    BY TableType, FdAssumption
  <2>. QED
    BY <2>1 DEF Pollfd
<1>2. /\ a.pollfds_ = Append(t.pollfds_, e)
      /\ a.channels_ = [t.channels_ EXCEPT ![t.fd_[c]] = c]
      /\ a.fd_ = t.fd_
      /\ a.interested_event_ = t.interested_event_
      /\ a.poll_index_ = [t.poll_index_ EXCEPT ![c] = n]
      /\ a = [t EXCEPT !.pollfds_ = a.pollfds_, !.poll_index_ = a.poll_index_,
                       !.channels_ = a.channels_]
  BY DEF Added, Table
<1> HIDE DEF e, a
<1>3. a.poll_index_[c] = Len(a.pollfds_) - 1 /\ Len(a.pollfds_) = n + 1 /\ n \in Nat
  BY <1>1, <1>2, TableType
<1>4. a \in Table
  <2>1. /\ a.pollfds_ \in Seq(Pollfd)
        /\ a.channels_ \in [Fd -> Channel \cup {NoChannel}]
        /\ a.poll_index_ \in [Channel -> Int]
    BY <1>1, <1>2, <1>3, TableType
  <2>. QED
    BY <1>2, <2>1 DEF Table
<1>5. /\ u.channels_ = [a.channels_ EXCEPT ![a.fd_[c]] = NoChannel]
      /\ u.pollfds_ = SubSeq(a.pollfds_, 1, n)
      /\ u.fd_ = a.fd_ /\ u.interested_event_ = a.interested_event_
      /\ u.poll_index_ = a.poll_index_
      /\ u = [a EXCEPT !.channels_ = u.channels_, !.pollfds_ = u.pollfds_]
  <2>1. u = [a EXCEPT !.channels_ = [a.channels_ EXCEPT ![a.fd_[c]] = NoChannel],
                      !.pollfds_ = SubSeq(@, 1, n)]
    BY <1>3 DEF RemoveChannel
  <2>. QED
    BY <1>4, <2>1 DEF Table
<1> HIDE DEF u
<1>6. u.pollfds_ = t.pollfds_
  <2>1. /\ Len(u.pollfds_) = n
        /\ \A i \in 1..n : u.pollfds_[i] = t.pollfds_[i]
        /\ u.pollfds_ \in Seq(Pollfd)
    BY <1>1, <1>2, <1>3, <1>5, TableType
  <2>. QED
    BY <2>1, TableType, SeqEqual
<1>7. /\ u.channels_ = [t.channels_ EXCEPT ![t.fd_[c]] = NoChannel]
      /\ u.channels_ \in [Fd -> Channel \cup {NoChannel}]
  <2>1. t.fd_[c] \in Fd /\ t.channels_ \in [Fd -> Channel \cup {NoChannel}]
    BY TableType
  <2>2. u.channels_ = [[t.channels_ EXCEPT ![t.fd_[c]] = c] EXCEPT ![t.fd_[c]] = NoChannel]
    BY <1>2, <1>5
  <2>3. u.channels_ = [t.channels_ EXCEPT ![t.fd_[c]] = NoChannel]
    BY <2>1, <2>2
  <2>. QED
    BY <2>1, <2>3
<1>8. u \in Table
  BY <1>4, <1>5, <1>6, <1>7, TableType DEF Table
<1>9. \A d \in Channel \ {c} : u.poll_index_[d] = t.poll_index_[d]
  BY <1>2, <1>5, TableType
<1>10. InStep(u, S)
  <2>1. ASSUME NEW d \in S
        PROVE  u.channels_[t.fd_[d]] = t.channels_[t.fd_[d]]
    BY <1>7, TableType
  <2>2. ASSUME NEW d \in S PROVE u.poll_index_[d] = t.poll_index_[d]
    BY <1>9
  <2>3. u.fd_ = t.fd_ /\ u.interested_event_ = t.interested_event_
    BY <1>2, <1>5
  <2>. QED
    BY <1>6, <1>8, <2>1, <2>2, <2>3, AsideInStep
<1>. QED
  BY <1>2, <1>5, <1>8, <1>9, <1>10 DEF u, a

\* What poll() is given for a table in step: of each channel, what it asks for.
LEMMA WatchedInStep ==
    ASSUME NEW t \in Table, NEW S \in SUBSET Channel, InStep(t, S)
    PROVE  Watched(t) = [c \in S |-> t.interested_event_[c]]
<1>1. ASSUME NEW c \in S
      PROVE  /\ t.poll_index_[c] + 1 \in DOMAIN t.pollfds_
             /\ ChannelAt(t, t.poll_index_[c] + 1) = c
  BY DEF InStep, Own, ChannelAt
<1>2. ASSUME NEW i \in DOMAIN t.pollfds_
      PROVE  ChannelAt(t, i) \in S /\ i = t.poll_index_[ChannelAt(t, i)] + 1
  <2>1. PICK c \in S : t.poll_index_[c] = i - 1
    BY DEF InStep
  <2>2. t.poll_index_[c] + 1 = i
    BY <2>1, TableType
  <2>. QED
    BY <1>1, <2>2
<1>3. {ChannelAt(t, i) : i \in DOMAIN t.pollfds_} = S
  BY <1>1, <1>2
<1>4. ASSUME NEW c \in S PROVE EntryOf(t, c) = t.poll_index_[c] + 1
  BY <1>1, <1>2 DEF EntryOf
<1>5. ASSUME NEW c \in S
      PROVE  (IF t.pollfds_[EntryOf(t, c)].fd < 0
              THEN {} ELSE t.pollfds_[EntryOf(t, c)].events) = t.interested_event_[c]
  <2>1. Own(t, c)
    BY DEF InStep
  <2>. QED
    BY <1>4, <2>1 DEF Own
<1>. QED
  BY <1>3, <1>5 DEF Watched

-----------------------------------------------------------------------------
(* The inductive invariant.                                                 *)

\* Two live channels never share a descriptor, so each has channels_ to itself.
FdsDistinct == \A c, d \in Live : table.fd_[c] = table.fd_[d] => c = d

\* A channel that never was in the list has no index yet, which is how
\* UpdateChannel() tells that it has to be added.
NewUnlisted == \A c \in Channel : life[c] = "new" => table.poll_index_[c] = -1

Inv == TypeOK /\ IndexOwn /\ FdsDistinct /\ NewUnlisted

\* The constructor establishes the invariant.
LEMMA InitInv == Init => Inv
<1> SUFFICES ASSUME Init PROVE Inv
  OBVIOUS
<1>1. AnyFd \in Fd
  BY FdAssumption DEF AnyFd
<1>2. table \in Table
  BY <1>1 DEF Init, EmptyTable, Table
<1>3. life \in [Channel -> LifeState] /\ active \subseteq Channel
  BY DEF Init, EmptyTable, LifeState
<1>4. Live = {} /\ Listed = {} /\ \A c \in Channel : life[c] # "new"
  BY DEF Init, EmptyTable, Live, Listed
<1>5. InStep(table, {})
  BY DEF Init, EmptyTable, InStep
<1>. QED
  BY <1>2, <1>3, <1>4, <1>5 DEF Inv, TypeOK, IndexOwn, FdsDistinct, NewUnlisted

\* One lemma per operation: the invariant, and the step of the abstract list.
\* The constructor.
LEMMA ConstructStep ==
    ASSUME Inv, NEW c \in Channel, NEW fd \in Fd, Construct(c, fd)
    PROVE  Inv' /\ List!Renew(c)
<1>1. /\ table \in Table /\ life \in [Channel -> LifeState] /\ active \subseteq Channel
      /\ InStep(table, Listed) /\ Listed \in SUBSET Channel /\ c \notin Listed
      /\ life[c] = "none" /\ table' = Constructed(table, c, fd)
      /\ life' = [life EXCEPT ![c] = "new"] /\ active' = active
  BY DEF Inv, TypeOK, IndexOwn, Construct, Listed
<1>a. table.fd_ \in [Channel -> Fd]
  BY <1>1, TableType
<1>2. /\ table' \in Table /\ InStep(table', Listed)
      /\ table'.fd_ = [table.fd_ EXCEPT ![c] = fd]
      /\ table'.interested_event_ = [table.interested_event_ EXCEPT ![c] = {}]
      /\ table'.poll_index_ = [table.poll_index_ EXCEPT ![c] = -1]
  <2>1. LET u == Constructed(table, c, fd)
        IN  /\ u \in Table /\ InStep(u, Listed)
            /\ u.fd_ = [table.fd_ EXCEPT ![c] = fd]
            /\ u.interested_event_ = [table.interested_event_ EXCEPT ![c] = {}]
            /\ u.poll_index_ = [table.poll_index_ EXCEPT ![c] = -1]
    BY <1>1, ConstructedInStep
  <2>. QED
    BY <1>1, <2>1
<1>3. /\ Listed' = Listed /\ Live' = Live \cup {c} /\ c \notin Live
      /\ life' \in [Channel -> LifeState]
  BY <1>1 DEF Listed, Live, LifeState
<1>4. FdsDistinct'
  <2>1. ASSUME NEW d \in Live' PROVE table'.fd_[d] = IF d = c THEN fd ELSE table.fd_[d]
    BY <1>a, <1>2, <1>3 DEF Live
  <2>2. \A d \in Live : table.fd_[d] # fd
    BY DEF Construct
  <2>3. \A d, e \in Live : table.fd_[d] = table.fd_[e] => d = e
    BY DEF Inv, FdsDistinct
  <2>. QED
    BY <1>3, <2>1, <2>2, <2>3 DEF FdsDistinct
<1>5. NewUnlisted'
  <2>. SUFFICES ASSUME NEW d \in Channel, life'[d] = "new" PROVE table'.poll_index_[d] = -1
    BY DEF NewUnlisted
  <2>1. table.poll_index_ \in [Channel -> Int]
    BY <1>1, TableType
  <2>2. CASE d = c
    BY <1>2, <2>1, <2>2
  <2>3. CASE d # c
    BY <1>1, <1>2, <2>1, <2>3 DEF Inv, NewUnlisted
  <2>. QED  BY <2>2, <2>3
<1>6. List!Renew(c)
  <2>1. Watched(table) = [d \in Listed |-> table.interested_event_[d]]
    BY <1>1, WatchedInStep
  <2>2. Watched(table') = [d \in Listed |-> table'.interested_event_[d]]
    BY <1>1, <1>2, WatchedInStep
  <2>3. ASSUME NEW d \in Listed PROVE table'.interested_event_[d] = table.interested_event_[d]
    BY <1>1, <1>2, TableType
  <2>4. Watched(table') = Watched(table)
    BY <2>1, <2>2, <2>3
  <2>. QED
    BY <1>1, <1>2, <2>1, <2>4 DEF List!Renew
<1>. QED
  BY <1>1, <1>2, <1>3, <1>4, <1>5, <1>6 DEF Inv, TypeOK, IndexOwn

\* The three calls that change the events of a channel in the list.
LEMMA RewriteStep ==
    ASSUME Inv, NEW c \in Listed, NEW events \in SUBSET Event,
           table' = UpdateChannel([table EXCEPT !.interested_event_[c] = events], c),
           UNCHANGED <<life, active>>
    PROVE  Inv' /\ List!Ask(c, events)
<1>1. /\ table \in Table /\ life \in [Channel -> LifeState] /\ active \subseteq Channel
      /\ InStep(table, Listed) /\ Listed \in SUBSET Channel
  BY DEF Inv, TypeOK, IndexOwn, Listed
<1>2. table' = Rewritten([table EXCEPT !.interested_event_[c] = events], c)
  <2>1. Own(table, c) /\ c \in Channel
    BY <1>1 DEF InStep
  <2>2. ~(table.poll_index_[c] < 0)
    BY <1>1, <2>1, IndexRange
  <2>3. [table EXCEPT !.interested_event_[c] = events].poll_index_ = table.poll_index_
    BY <1>1 DEF Table
  <2>. QED
    BY <2>2, <2>3 DEF UpdateChannel
<1>3. /\ table' \in Table /\ InStep(table', Listed)
      /\ table'.fd_ = table.fd_
      /\ table'.interested_event_ = [table.interested_event_ EXCEPT ![c] = events]
      /\ table'.poll_index_ = table.poll_index_
  <2>1. LET u == Rewritten([table EXCEPT !.interested_event_[c] = events], c)
        IN  /\ u \in Table /\ InStep(u, Listed)
            /\ u.fd_ = table.fd_
            /\ u.interested_event_ = [table.interested_event_ EXCEPT ![c] = events]
            /\ u.poll_index_ = table.poll_index_
    BY <1>1, RewrittenInStep
  <2>. QED
    BY <1>2, <2>1
<1>4. Listed' = Listed /\ Live' = Live
  BY DEF Listed, Live
<1>5. Inv'
  BY <1>1, <1>3, <1>4 DEF Inv, TypeOK, IndexOwn, FdsDistinct, NewUnlisted
<1>6. List!Ask(c, events)
  <2>1. Watched(table) = [d \in Listed |-> table.interested_event_[d]]
    BY <1>1, WatchedInStep
  <2>2. Watched(table') = [d \in Listed |-> table'.interested_event_[d]]
    BY <1>1, <1>3, WatchedInStep
  <2>3. ASSUME NEW d \in Listed
        PROVE  table'.interested_event_[d]
                   = IF d = c THEN events ELSE table.interested_event_[d]
    BY <1>1, <1>3, TableType
  <2>4. DOMAIN Watched(table) \cup {c} = Listed
    BY <2>1
  <2>5. Watched(table') = [d \in DOMAIN Watched(table) \cup {c} |->
                              IF d = c THEN events ELSE Watched(table)[d]]
    BY <2>1, <2>2, <2>3, <2>4
  <2>. QED
    BY <1>3, <2>5 DEF List!Ask
<1>. QED  BY <1>5, <1>6

\* Enable*(): the channel enters the list, or its entry is written anew.
LEMMA EnableStep ==
    ASSUME Inv, NEW c \in Channel, NEW event \in Event, EnableEvent(c, event)
    PROVE  Inv' /\ \E events \in SUBSET Event : List!Ask(c, events)
<1> DEFINE events == table.interested_event_[c] \cup {event}
           u == [table EXCEPT !.interested_event_[c] = events]
<1>1. /\ table \in Table /\ life \in [Channel -> LifeState] /\ active \subseteq Channel
      /\ InStep(table, Listed) /\ Listed \in SUBSET Channel
  BY DEF Inv, TypeOK, IndexOwn, Listed
<1>2. events \in SUBSET Event /\ events # {}
  BY <1>1, TableType
<1>3. /\ c \in Live /\ table' = UpdateChannel(u, c)
      /\ life' = [life EXCEPT ![c] = "in"] /\ active' = active
  <2>1. u = [table EXCEPT !.interested_event_[c] = @ \cup {event}]
    BY <1>1 DEF Table
  <2>. QED
    BY <2>1 DEF EnableEvent, Enable
<1> HIDE DEF events
<1>4. CASE life[c] = "in"
  <2>1. c \in Listed /\ life' = life
    BY <1>1, <1>3, <1>4 DEF Listed
  <2>. QED
    BY <1>2, <1>3, <2>1, RewriteStep
<1>5. CASE life[c] = "new"
  <2>1. c \notin Listed /\ Listed' = Listed \cup {c} /\ Live' = Live
        /\ life' \in [Channel -> LifeState]
    BY <1>1, <1>3, <1>5 DEF Listed, Live, LifeState
  <2>2. /\ u \in Table /\ InStep(u, Listed)
        /\ u.fd_ = table.fd_ /\ u.poll_index_ = table.poll_index_
        /\ u.interested_event_ = [table.interested_event_ EXCEPT ![c] = events]
    BY <1>1, <1>2, <2>1, InterestInStep
  <2>3. table' = Added(u, c)
    <3>1. u.poll_index_[c] = -1
      BY <1>5, <2>2 DEF Inv, NewUnlisted
    <3>. QED
      BY <1>3, <3>1 DEF UpdateChannel
  <2> HIDE DEF u
  <2>4. u.interested_event_[c] # {}
    BY <1>1, <1>2, <2>2, TableType
  <2>5. \A d \in Listed : u.fd_[d] # u.fd_[c]
    BY <1>3, <2>1, <2>2 DEF Inv, FdsDistinct, Live, Listed
  <2>6. /\ table' \in Table /\ InStep(table', Listed \cup {c})
        /\ table'.fd_ = u.fd_
        /\ table'.interested_event_ = u.interested_event_
        /\ \A d \in Channel \ {c} : table'.poll_index_[d] = u.poll_index_[d]
    <3>1. LET a == Added(u, c)
          IN  /\ a \in Table /\ InStep(a, Listed \cup {c})
              /\ a.fd_ = u.fd_
              /\ a.interested_event_ = u.interested_event_
              /\ \A d \in Channel \ {c} : a.poll_index_[d] = u.poll_index_[d]
      <4>1. u \in Table /\ InStep(u, Listed) /\ c \notin Listed
            /\ Listed \in SUBSET Channel
        BY <1>1, <2>1, <2>2
      <4>. QED
        BY <2>4, <2>5, <4>1, AddedInStep
    <3>. QED
      BY <2>3, <3>1
  <2>7. Inv'
    <3>1. FdsDistinct'
      BY <2>1, <2>2, <2>6 DEF Inv, FdsDistinct
    <3>2. NewUnlisted'
      BY <1>1, <1>3, <2>2, <2>6 DEF Inv, NewUnlisted
    <3>. QED
      BY <1>1, <1>3, <2>1, <2>6, <3>1, <3>2 DEF Inv, TypeOK, IndexOwn
  <2>8. List!Ask(c, events)
    <3>1. Watched(table) = [d \in Listed |-> table.interested_event_[d]]
      BY <1>1, WatchedInStep
    <3>2. Watched(table') = [d \in Listed \cup {c} |-> table'.interested_event_[d]]
      BY <1>1, <2>6, WatchedInStep
    <3>3. ASSUME NEW d \in Listed \cup {c}
          PROVE  table'.interested_event_[d]
                     = IF d = c THEN events ELSE table.interested_event_[d]
      BY <1>1, <2>2, <2>6, TableType
    <3>4. DOMAIN Watched(table) \cup {c} = Listed \cup {c}
      BY <3>1
    <3>5. Watched(table') = [d \in DOMAIN Watched(table) \cup {c} |->
                                IF d = c THEN events ELSE Watched(table)[d]]
      BY <3>1, <3>2, <3>3, <3>4
    <3>. QED
      BY <1>3, <2>2, <2>6, <3>5 DEF List!Ask
  <2>. QED
    BY <1>2, <2>7, <2>8
<1>. QED
  BY <1>3, <1>4, <1>5 DEF Live

\* Disable*(): its entry is written anew, and ignored when no event is left.
LEMMA DisableStep ==
    ASSUME Inv, NEW c \in Channel,
           \/ \E event \in Event : DisableEvent(c, event)
           \/ DisableAllEvents(c)
    PROVE  Inv' /\ \E events \in SUBSET Event : List!Ask(c, events)
<1>1. table \in Table
  BY DEF Inv, TypeOK
<1>2. CASE DisableAllEvents(c)
  BY <1>2, RewriteStep DEF DisableAllEvents, DisableAll
<1>3. ASSUME NEW event \in Event, DisableEvent(c, event)
      PROVE  Inv' /\ \E events \in SUBSET Event : List!Ask(c, events)
  <2> DEFINE events == table.interested_event_[c] \ {event}
  <2>1. events \in SUBSET Event
    BY <1>1, TableType
  <2>2. table' = UpdateChannel([table EXCEPT !.interested_event_[c] = events], c)
    <3>1. [table EXCEPT !.interested_event_[c] = @ \ {event}]
              = [table EXCEPT !.interested_event_[c] = events]
      BY <1>1 DEF Table
    <3>. QED
      BY <1>3, <3>1 DEF DisableEvent, Enable
  <2>3. c \in Listed /\ UNCHANGED <<life, active>>
    BY <1>3 DEF DisableEvent
  <2> HIDE DEF events
  <2>. QED
    BY <2>1, <2>2, <2>3, RewriteStep
<1>. QED  BY <1>2, <1>3

\* RemoveSelf() of a listed channel.
LEMMA RemoveStep ==
    ASSUME Inv, NEW c \in Channel, RemoveSelfInPoll(c)
    PROVE  Inv' /\ List!Withdraw(c)
<1>1. /\ table \in Table /\ life \in [Channel -> LifeState] /\ active \subseteq Channel
      /\ InStep(table, Listed) /\ Listed \in SUBSET Channel
      /\ c \in Listed /\ table' = RemoveChannel(table, c)
      /\ life' = [life EXCEPT ![c] = "removed"] /\ active' = active
  BY DEF Inv, TypeOK, IndexOwn, Listed, RemoveSelfInPoll
<1>2. /\ table' \in Table /\ InStep(table', Listed \ {c})
      /\ table'.fd_ = table.fd_
      /\ table'.interested_event_ = table.interested_event_
      /\ \A d \in Channel \ Listed : table'.poll_index_[d] = table.poll_index_[d]
  <2>1. LET u == RemoveChannel(table, c)
        IN  /\ u \in Table /\ InStep(u, Listed \ {c})
            /\ u.fd_ = table.fd_
            /\ u.interested_event_ = table.interested_event_
            /\ \A d \in Channel \ Listed : u.poll_index_[d] = table.poll_index_[d]
    BY <1>1, RemovedInStep
  <2>. QED
    BY <1>1, <2>1
<1>3. /\ Listed' = Listed \ {c} /\ Live' = Live \ {c}
      /\ life' \in [Channel -> LifeState]
  BY <1>1 DEF Listed, Live, LifeState
<1>4. NewUnlisted'
  <2>. SUFFICES ASSUME NEW d \in Channel, life'[d] = "new" PROVE table'.poll_index_[d] = -1
    BY DEF NewUnlisted
  <2>1. life[d] = "new" /\ d \notin Listed
    BY <1>1 DEF Listed
  <2>. QED
    BY <1>2, <2>1 DEF Inv, NewUnlisted
<1>5. Inv'
  BY <1>1, <1>2, <1>3, <1>4 DEF Inv, TypeOK, IndexOwn, FdsDistinct
<1>6. List!Withdraw(c)
  <2>1. Watched(table) = [d \in Listed |-> table.interested_event_[d]]
    BY <1>1, WatchedInStep
  <2>2. Watched(table') = [d \in Listed \ {c} |-> table'.interested_event_[d]]
    BY <1>1, <1>2, WatchedInStep
  <2>3. DOMAIN Watched(table) \ {c} = Listed \ {c}
    BY <2>1
  <2>4. Watched(table') = [d \in DOMAIN Watched(table) \ {c} |-> Watched(table)[d]]
    BY <1>2, <2>1, <2>2, <2>3
  <2>. QED
    BY <1>1, <1>2, <2>4 DEF List!Withdraw
<1>. QED  BY <1>5, <1>6

\* RemoveSelf() of a channel that was never enabled enters it and removes it again.
LEMMA RemoveUnusedStep ==
    ASSUME Inv, NEW c \in Channel, RemoveUnused(c)
    PROVE  Inv' /\ List!Renew(c)
<1> DEFINE t == [table EXCEPT !.interested_event_[c] = {}]
<1>1. /\ table \in Table /\ life \in [Channel -> LifeState] /\ active \subseteq Channel
      /\ InStep(table, Listed) /\ Listed \in SUBSET Channel /\ c \notin Listed
      /\ life[c] = "new" /\ table' = RemoveChannel(UpdateChannel(t, c), c)
      /\ life' = [life EXCEPT ![c] = "removed"] /\ active' = active
  BY DEF Inv, TypeOK, IndexOwn, Listed, RemoveUnused, DisableAll
<1>2. /\ t \in Table /\ InStep(t, Listed)
      /\ t.fd_ = table.fd_ /\ t.poll_index_ = table.poll_index_
      /\ t.interested_event_ = [table.interested_event_ EXCEPT ![c] = {}]
  BY <1>1, InterestInStep
<1>3. table' = RemoveChannel(Added(t, c), c)
  <2>1. t.poll_index_[c] = -1
    BY <1>1, <1>2 DEF Inv, NewUnlisted
  <2>. QED
    BY <1>1, <2>1 DEF UpdateChannel
<1> HIDE DEF t
<1>4. \A d \in Listed : t.fd_[d] # t.fd_[c]
  BY <1>1, <1>2 DEF Inv, FdsDistinct, Live, Listed
<1>5. /\ table' \in Table /\ InStep(table', Listed)
      /\ table'.fd_ = t.fd_
      /\ table'.interested_event_ = t.interested_event_
      /\ \A d \in Channel \ {c} : table'.poll_index_[d] = t.poll_index_[d]
  <2>1. LET u == RemoveChannel(Added(t, c), c)
        IN  /\ u \in Table /\ InStep(u, Listed)
            /\ u.fd_ = t.fd_
            /\ u.interested_event_ = t.interested_event_
            /\ \A d \in Channel \ {c} : u.poll_index_[d] = t.poll_index_[d]
    BY <1>1, <1>2, <1>4, PassedInStep
  <2>. QED
    BY <1>3, <2>1
<1>6. /\ Listed' = Listed /\ Live' = Live \ {c}
      /\ life' \in [Channel -> LifeState]
  BY <1>1 DEF Listed, Live, LifeState
<1>7. Inv'
  <2>1. NewUnlisted'
    BY <1>1, <1>2, <1>5 DEF Inv, NewUnlisted
  <2>2. FdsDistinct'
    BY <1>2, <1>5, <1>6 DEF Inv, FdsDistinct
  <2>. QED
    BY <1>1, <1>5, <1>6, <2>1, <2>2 DEF Inv, TypeOK, IndexOwn
<1>8. List!Renew(c)
  <2>1. Watched(table) = [d \in Listed |-> table.interested_event_[d]]
    BY <1>1, WatchedInStep
  <2>2. Watched(table') = [d \in Listed |-> table'.interested_event_[d]]
    BY <1>1, <1>5, WatchedInStep
  <2>3. ASSUME NEW d \in Listed PROVE table'.interested_event_[d] = table.interested_event_[d]
    BY <1>1, <1>2, <1>5, TableType
  <2>4. Watched(table') = Watched(table)
    BY <2>1, <2>2, <2>3
  <2>. QED
    BY <1>1, <1>2, <1>5, <2>1, <2>4 DEF List!Renew
<1>. QED  BY <1>7, <1>8

\* Poll() and FillActiveChannels().
LEMMA PollStep ==
    ASSUME Inv, NEW marked \in SUBSET DOMAIN table.pollfds_, Poll(marked)
    PROVE  Inv' /\ List!Poll(active') /\ active' \in SUBSET DOMAIN Watched(table)
<1>1. /\ table \in Table /\ InStep(table, Listed) /\ Listed \in SUBSET Channel
      /\ UNCHANGED <<table, life>>
  BY DEF Inv, TypeOK, IndexOwn, Listed, Poll
<1>2. Watched(table) = [d \in Listed |-> table.interested_event_[d]]
  BY <1>1, WatchedInStep
<1>3. ASSUME NEW i \in marked
      PROVE  LET c == table.channels_[table.pollfds_[i].fd]
             IN  c \in Listed /\ table.interested_event_[c] # {}
  <2>1. PICK c \in Listed : table.poll_index_[c] = i - 1
    BY <1>1 DEF InStep
  <2>2. Own(table, c)
    BY <1>1 DEF InStep
  <2>3. table.poll_index_[c] + 1 = i
    BY <1>1, <2>1, TableType
  <2>4. table.pollfds_[i].fd >= 0 /\ table.pollfds_[i] \in Pollfd
    BY <1>1, TableType DEF Poll
  <2>5. ~(table.pollfds_[i].fd < 0)
    BY <2>4 DEF Pollfd
  <2>. QED
    BY <2>2, <2>3, <2>5 DEF Own, Descriptor
<1>4. active' \subseteq Listed /\ \A c \in active' : table.interested_event_[c] # {}
  BY <1>3 DEF Poll, FillActiveChannels
<1>5. Inv'
  BY <1>1, <1>4 DEF Inv, TypeOK, IndexOwn, FdsDistinct, NewUnlisted, Live, Listed
<1>6. List!Poll(active')
  BY <1>1, <1>2, <1>4 DEF List!Poll
<1>. QED  BY <1>2, <1>4, <1>5, <1>6

\* The destructor.
LEMMA DestructStep ==
    ASSUME Inv, NEW c \in Channel, Destruct(c)
    PROVE  Inv' /\ List!Renew(c)
<1>1. /\ table \in Table /\ life \in [Channel -> LifeState]
      /\ InStep(table, Listed) /\ Listed \in SUBSET Channel /\ c \notin Listed
      /\ life[c] = "removed" /\ table' = Constructed(table, c, AnyFd)
      /\ life' = [life EXCEPT ![c] = "none"] /\ active' = {} /\ AnyFd \in Fd
  BY FdAssumption DEF Inv, TypeOK, IndexOwn, Listed, Destruct, AnyFd
<1>2. table.fd_ \in [Channel -> Fd] /\ table.poll_index_ \in [Channel -> Int]
  BY <1>1, TableType
<1>3. /\ table' \in Table /\ InStep(table', Listed)
      /\ table'.fd_ = [table.fd_ EXCEPT ![c] = AnyFd]
      /\ table'.interested_event_ = [table.interested_event_ EXCEPT ![c] = {}]
      /\ table'.poll_index_ = [table.poll_index_ EXCEPT ![c] = -1]
  <2>1. LET u == Constructed(table, c, AnyFd)
        IN  /\ u \in Table /\ InStep(u, Listed)
            /\ u.fd_ = [table.fd_ EXCEPT ![c] = AnyFd]
            /\ u.interested_event_ = [table.interested_event_ EXCEPT ![c] = {}]
            /\ u.poll_index_ = [table.poll_index_ EXCEPT ![c] = -1]
    BY <1>1, ConstructedInStep
  <2>. QED
    BY <1>1, <2>1
<1>4. /\ Listed' = Listed /\ Live' = Live /\ c \notin Live
      /\ life' \in [Channel -> LifeState]
  BY <1>1 DEF Listed, Live, LifeState
<1>5. Inv'
  <2>1. ASSUME NEW d \in Live PROVE table'.fd_[d] = table.fd_[d]
    BY <1>2, <1>3, <1>4
  <2>2. FdsDistinct'
    BY <1>4, <2>1 DEF Inv, FdsDistinct
  <2>3. ASSUME NEW d \in Channel, life'[d] = "new" PROVE table'.poll_index_[d] = -1
    <3>1. life[d] = "new" /\ d # c
      BY <1>1, <2>3
    <3>. QED
      BY <1>2, <1>3, <3>1 DEF Inv, NewUnlisted
  <2>. QED
    BY <1>1, <1>3, <1>4, <2>2, <2>3 DEF Inv, TypeOK, IndexOwn, NewUnlisted
<1>6. List!Renew(c)
  <2>1. Watched(table) = [d \in Listed |-> table.interested_event_[d]]
    BY <1>1, WatchedInStep
  <2>2. Watched(table') = [d \in Listed |-> table'.interested_event_[d]]
    BY <1>1, <1>3, WatchedInStep
  <2>3. ASSUME NEW d \in Listed PROVE table'.interested_event_[d] = table.interested_event_[d]
    BY <1>1, <1>3, TableType
  <2>4. Watched(table') = Watched(table)
    BY <2>1, <2>2, <2>3
  <2>. QED
    BY <1>1, <1>3, <2>1, <2>4 DEF List!Renew
<1>. QED  BY <1>5, <1>6

\* Every step keeps the invariant and is a step of the abstract list, or none.
LEMMA NextInv == Inv /\ [Next]_vars => Inv' /\ [List!Next]_(List!vars)
<1> SUFFICES ASSUME Inv, [Next]_vars PROVE Inv' /\ [List!Next]_(List!vars)
  OBVIOUS
<1>1. ASSUME NEW c \in Channel, NEW fd \in Fd, Construct(c, fd)
      PROVE  Inv' /\ [List!Next]_(List!vars)
  BY <1>1, ConstructStep DEF List!Next
<1>2. ASSUME NEW c \in Channel, NEW event \in Event, EnableEvent(c, event)
      PROVE  Inv' /\ [List!Next]_(List!vars)
  BY <1>2, EnableStep DEF List!Next
<1>3. ASSUME NEW c \in Channel,
             \/ \E event \in Event : DisableEvent(c, event)
             \/ DisableAllEvents(c)
      PROVE  Inv' /\ [List!Next]_(List!vars)
  BY <1>3, DisableStep DEF List!Next
<1>4. ASSUME NEW c \in Channel, RemoveSelfInPoll(c)
      PROVE  Inv' /\ [List!Next]_(List!vars)
  BY <1>4, RemoveStep DEF List!Next
<1>5. ASSUME NEW c \in Channel, RemoveUnused(c)
      PROVE  Inv' /\ [List!Next]_(List!vars)
  BY <1>5, RemoveUnusedStep DEF List!Next
<1>6. ASSUME NEW c \in Channel, Destruct(c)
      PROVE  Inv' /\ [List!Next]_(List!vars)
  BY <1>6, DestructStep DEF List!Next
<1>7. ASSUME NEW marked \in SUBSET DOMAIN table.pollfds_, Poll(marked)
      PROVE  Inv' /\ [List!Next]_(List!vars)
  BY <1>7, PollStep DEF List!Next
<1>8. CASE UNCHANGED vars
  BY <1>8 DEF vars, List!vars, Inv, TypeOK, IndexOwn, FdsDistinct, NewUnlisted, Live, Listed
<1>. QED
  BY <1>1, <1>2, <1>3, <1>4, <1>5, <1>6, <1>7, <1>8 DEF Next

\* The invariant holds in every reachable state.
LEMMA InvCorrect == Spec => []Inv
<1>1. Init => Inv
  BY InitInv
<1>2. Inv /\ [Next]_vars => Inv'
  BY NextInv
<1>. QED
  BY <1>1, <1>2, PTL DEF Spec

\* Array, map, channels and their life keep to their types.
THEOREM TypeCorrect == Spec => []TypeOK
<1>1. Inv => TypeOK
  BY DEF Inv
<1>. QED
  BY <1>1, InvCorrect, PTL

\* Whatever is enabled, rewritten, removed and destroyed in whatever order, each
\* channel's index into the array is its own (UpdateChannel, RemoveChannel).
THEOREM IndexOwnCorrect == Spec => []IndexOwn
<1>1. Inv => IndexOwn
  BY DEF Inv
<1>. QED
  BY <1>1, InvCorrect, PTL

\* The array with its swaps and ignored descriptors behaves as the abstract list:
\* a change touches one channel's events, and a poll reports none but those asking.
THEOREM PollSetImplemented == Spec => ImplementsPollSet
<1>1. Init => List!Init
  <2>. SUFFICES ASSUME Init PROVE List!Init
    OBVIOUS
  <2>1. /\ table.pollfds_ = <<>> /\ active = {}
        /\ table.interested_event_ = [c \in Channel |-> {}]
    BY DEF Init, EmptyTable
  <2>2. DOMAIN table.pollfds_ = {}
    BY <2>1
  <2>3. Watched(table) = [c \in {} |-> {}]
    BY <2>2 DEF Watched
  <2>. QED
    BY <2>1, <2>3 DEF List!Init
<1>2. Inv /\ [Next]_vars => [List!Next]_(List!vars)
  BY NextInv
<1>. QED
  BY <1>1, <1>2, InvCorrect, PTL DEF Spec, ImplementsPollSet, List!Spec
=============================================================================
