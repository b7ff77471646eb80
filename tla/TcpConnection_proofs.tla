------------------------ MODULE TcpConnection_proofs ------------------------
(***************************************************************************)
(* Whatever number of connections share a loop, whatever number of threads  *)
(* call them and whatever their callbacks call, however deep: messages stay *)
(* whole, half-close waits for the output, and the callbacks come in order, *)
(* but for what a call in the high-water callback breaks.                   *)
(***************************************************************************)
EXTENDS TcpConnection, FiniteSetTheorems, SequenceTheorems, WellFoundedInduction, TLAPS

-----------------------------------------------------------------------------
(* The poll list.  S is the set of channels that have been put in it; they  *)
(* may have left it again.                                                  *)

\* Every entry bears the descriptor of a channel that was put in the list.  A channel
\* that is in channels_ is there under its own descriptor, and an entry with that
\* descriptor is where the channel's index says.
Entries(t, S) ==
    /\ IsInjective(t.fd_)
    /\ \A i \in 1..Len(t.pollfds_) : \E c \in S : Descriptor(t.pollfds_[i]) = t.fd_[c]
    /\ \A f \in Fd : t.channels_[f] # NoChannel =>
           t.channels_[f] \in S /\ t.fd_[t.channels_[f]] = f
    /\ \A c \in Channel : t.poll_index_[c] >= 0 <=> c \in S
    /\ \A i \in 1..Len(t.pollfds_), c \in Channel :
           t.channels_[t.fd_[c]] = c /\ Descriptor(t.pollfds_[i]) = t.fd_[c] =>
               t.poll_index_[c] = i - 1

\* What poll() may report belongs to a channel.
Live(t) ==
    \A i \in 1..Len(t.pollfds_) :
        t.pollfds_[i].fd >= 0 => t.channels_[t.pollfds_[i].fd] # NoChannel

\* As long as none has left the list, each channel's entry is its own.
Full(t, S) ==
    /\ \A c \in S : /\ t.poll_index_[c] + 1 \in 1..Len(t.pollfds_)
                    /\ Descriptor(t.pollfds_[t.poll_index_[c] + 1]) = t.fd_[c]
                    /\ t.channels_[t.fd_[c]] = c
    /\ \A i \in 1..Len(t.pollfds_) : \E c \in S : t.poll_index_[c] = i - 1

\* The fields of a table.
LEMMA TableType ==
    ASSUME NEW t \in Table
    PROVE  /\ t.pollfds_ \in Seq(Pollfd)
           /\ t.channels_ \in [Fd -> Channel \cup {NoChannel}]
           /\ t.fd_ \in [Channel -> Fd]
           /\ t.interested_event_ \in [Channel -> SUBSET Event]
           /\ t.poll_index_ \in [Channel -> Int]
BY DEF Table

\* The entry made for a channel: its descriptor comes back, and it is ignored
\* exactly if the channel asks for nothing.
LEMMA EntryFacts ==
    ASSUME NEW fd \in Fd, NEW events \in SUBSET Event
    PROVE  LET e == [fd |-> IF events = {} THEN Ignored(fd) ELSE fd, events |-> events]
           IN  /\ e \in Pollfd
               /\ Descriptor(e) = fd
               /\ e.events = events
               /\ e.fd < 0 <=> events = {}
BY FdAssumption DEF Pollfd, Ignored, Descriptor

\* The entry's descriptor is a natural number, under which it was not ignored.
LEMMA DescriptorFacts ==
    ASSUME NEW e \in Pollfd
    PROVE  /\ Descriptor(e) \in Nat /\ e.fd \in Int
           /\ e.fd >= 0 => Descriptor(e) = e.fd
BY DEF Pollfd, Ignored, Descriptor

\* Added() by its fields.
LEMMA AddedFields ==
    ASSUME NEW t \in Table, NEW c \in Channel
    PROVE  LET u == Added(t, c)
               n == Len(t.pollfds_)
           IN  /\ u \in Table
               /\ u.fd_ = t.fd_ /\ u.interested_event_ = t.interested_event_
               /\ u.channels_ = [t.channels_ EXCEPT ![t.fd_[c]] = c]
               /\ u.poll_index_ = [t.poll_index_ EXCEPT ![c] = n]
               /\ n \in Nat /\ Len(u.pollfds_) = n + 1
               /\ \A i \in 1..n : u.pollfds_[i] = t.pollfds_[i]
               /\ Descriptor(u.pollfds_[n + 1]) = t.fd_[c]
               /\ u.pollfds_[n + 1].fd = t.fd_[c]
<1> DEFINE e == [fd |-> t.fd_[c], events |-> t.interested_event_[c]]
           u == Added(t, c)
           n == Len(t.pollfds_)
<1>1. /\ e \in Pollfd /\ Descriptor(e) = t.fd_[c] /\ e.fd = t.fd_[c]
  <2>1. t.fd_[c] \in Nat /\ t.interested_event_[c] \in SUBSET Event
    BY TableType, FdAssumption
  <2>. QED
    BY <2>1 DEF Pollfd, Descriptor
<1>2. /\ u.pollfds_ = Append(t.pollfds_, e)
      /\ u.channels_ = [t.channels_ EXCEPT ![t.fd_[c]] = c]
      /\ u.fd_ = t.fd_
      /\ u.interested_event_ = t.interested_event_
      /\ u.poll_index_ = [t.poll_index_ EXCEPT ![c] = n]
  BY DEF Added, Table
<1>3. u = [t EXCEPT !.pollfds_ = u.pollfds_, !.poll_index_ = u.poll_index_,
                    !.channels_ = u.channels_]
  BY DEF Added, Table
<1>. HIDE DEF e, u
<1>4. /\ u.pollfds_ \in Seq(Pollfd) /\ n \in Nat /\ Len(u.pollfds_) = n + 1
      /\ \A i \in 1..n : u.pollfds_[i] = t.pollfds_[i]
      /\ u.pollfds_[n + 1] = e
  BY <1>1, <1>2, TableType
<1>5. /\ u.channels_ \in [Fd -> Channel \cup {NoChannel}]
      /\ u.poll_index_ \in [Channel -> Int]
  BY <1>2, <1>4, TableType
<1>6. u \in Table
  BY <1>3, <1>4, <1>5 DEF Table
<1>. QED
  BY <1>1, <1>2, <1>4, <1>6 DEF u

\* Rewritten() by its fields.  Without an entry at the index nothing is written.
LEMMA RewrittenFields ==
    ASSUME NEW t \in Table, NEW c \in Channel
    PROVE  LET u == Rewritten(t, c)
               k == t.poll_index_[c] + 1
           IN  /\ u \in Table
               /\ u.fd_ = t.fd_ /\ u.interested_event_ = t.interested_event_
               /\ u.channels_ = t.channels_ /\ u.poll_index_ = t.poll_index_
               /\ Len(u.pollfds_) = Len(t.pollfds_)
               /\ \A i \in 1..Len(t.pollfds_) :
                      IF i = k
                      THEN /\ Descriptor(u.pollfds_[i]) = t.fd_[c]
                           /\ u.pollfds_[i].fd < 0 <=> t.interested_event_[c] = {}
                      ELSE u.pollfds_[i] = t.pollfds_[i]
<1> DEFINE e == [fd |-> IF t.interested_event_[c] = {} THEN Ignored(t.fd_[c]) ELSE t.fd_[c],
                 events |-> t.interested_event_[c]]
           k == t.poll_index_[c] + 1
           u == Rewritten(t, c)
<1>1. /\ e \in Pollfd /\ Descriptor(e) = t.fd_[c]
      /\ e.fd < 0 <=> t.interested_event_[c] = {}
  BY TableType, EntryFacts
<1>2. /\ u.pollfds_ = [t.pollfds_ EXCEPT ![k] = e]
      /\ u.channels_ = t.channels_ /\ u.fd_ = t.fd_
      /\ u.interested_event_ = t.interested_event_
      /\ u.poll_index_ = t.poll_index_
      /\ u = [t EXCEPT !.pollfds_ = u.pollfds_]
  BY DEF Rewritten, Table
<1>3. t.pollfds_ \in Seq(Pollfd) /\ k \in Int
  BY TableType
<1>. HIDE DEF e, u, k
<1>4. /\ u.pollfds_ \in Seq(Pollfd)
      /\ Len(u.pollfds_) = Len(t.pollfds_)
      /\ \A i \in 1..Len(t.pollfds_) :
             u.pollfds_[i] = IF i = k THEN e ELSE t.pollfds_[i]
  <2>1. CASE k \in 1..Len(t.pollfds_)
    BY <1>1, <1>2, <1>3, <2>1, ExceptSeq
  <2>2. CASE k \notin 1..Len(t.pollfds_)
    <3>. DEFINE q == t.pollfds_
    <3>1. q = [i \in 1..Len(q) |-> q[i]] /\ DOMAIN q = 1..Len(q)
      BY <1>3
    <3>2. u.pollfds_ = [i \in DOMAIN q |-> IF i = k THEN e ELSE q[i]]
      BY <1>2
    <3>3. [i \in DOMAIN q |-> IF i = k THEN e ELSE q[i]] = [i \in 1..Len(q) |-> q[i]]
      BY <2>2, <3>1
    <3>4. u.pollfds_ = q
      BY <3>1, <3>2, <3>3
    <3>. QED
      BY <1>3, <2>2, <3>4
  <2>. QED  BY <2>1, <2>2
<1>5. u \in Table
  BY <1>2, <1>4 DEF Table
<1>. QED
  BY <1>1, <1>2, <1>4, <1>5 DEF u, k

\* RemoveChannel() of a channel whose index is inside the list, and whose entry is the
\* last or gets the last entry, which is another channel's.
Removable(t, c) ==
    LET n == Len(t.pollfds_)
        d == t.channels_[Descriptor(t.pollfds_[n])]
    IN  /\ t.poll_index_[c] >= 0 /\ t.poll_index_[c] < n
        /\ t.poll_index_[c] = n - 1
           \/ /\ Descriptor(t.pollfds_[n]) \in Fd /\ d \in Channel \ {c}
              /\ Descriptor(t.pollfds_[n]) # t.fd_[c]

\* RemoveChannel() by its fields.
LEMMA RemovedFields ==
    ASSUME NEW t \in Table, NEW c \in Channel, Removable(t, c)
    PROVE  LET u == RemoveChannel(t, c)
               n == Len(t.pollfds_)
               k == t.poll_index_[c]
           IN  /\ u \in Table
               /\ u.fd_ = t.fd_ /\ u.interested_event_ = t.interested_event_
               /\ u.channels_ = [t.channels_ EXCEPT ![t.fd_[c]] = NoChannel]
               /\ u.poll_index_ = IF k = n - 1 THEN t.poll_index_
                                  ELSE [t.poll_index_ EXCEPT
                                            ![t.channels_[Descriptor(t.pollfds_[n])]] = k]
               /\ n \in Nat /\ n > 0 /\ Len(u.pollfds_) = n - 1
               /\ \A i \in 1..(n - 1) :
                      u.pollfds_[i] = IF i = k + 1 THEN t.pollfds_[n] ELSE t.pollfds_[i]
<1> DEFINE u == RemoveChannel(t, c)
           n == Len(t.pollfds_)
           k == t.poll_index_[c]
           last == t.pollfds_[n]
           channels == [t.channels_ EXCEPT ![t.fd_[c]] = NoChannel]
<1>1. /\ k \in Int /\ 0 <= k /\ k < n /\ n \in Nat
      /\ t.pollfds_ \in Seq(Pollfd) /\ t.fd_[c] \in Fd
      /\ channels \in [Fd -> Channel \cup {NoChannel}]
  BY TableType DEF Removable
<1>2. CASE k = n - 1
  <2>1. /\ u.channels_ = channels /\ u.pollfds_ = SubSeq(t.pollfds_, 1, n - 1)
        /\ u.fd_ = t.fd_ /\ u.interested_event_ = t.interested_event_
        /\ u.poll_index_ = t.poll_index_
        /\ u = [t EXCEPT !.channels_ = u.channels_, !.pollfds_ = u.pollfds_]
    BY <1>2 DEF RemoveChannel, Table
  <2>. HIDE DEF u, channels
  <2>2. /\ u.pollfds_ \in Seq(Pollfd) /\ Len(u.pollfds_) = n - 1
        /\ \A i \in 1..(n - 1) : u.pollfds_[i] = t.pollfds_[i] /\ i # k + 1
    BY <1>1, <1>2, <2>1
  <2>3. u \in Table
    BY <1>1, <2>1, <2>2 DEF Table
  <2>. QED
    BY <1>1, <1>2, <2>1, <2>2, <2>3 DEF u, channels
<1>3. CASE k # n - 1
  <2>. DEFINE d == t.channels_[Descriptor(last)]
              q == [t.pollfds_ EXCEPT ![k + 1] = last]
  <2>1. d \in Channel /\ channels[Descriptor(last)] = d
    BY <1>1, <1>3, TableType DEF Removable
  <2>2. /\ u.channels_ = channels /\ u.pollfds_ = SubSeq(q, 1, n - 1)
        /\ u.fd_ = t.fd_ /\ u.interested_event_ = t.interested_event_
        /\ u.poll_index_ = [t.poll_index_ EXCEPT ![d] = k]
        /\ u = [t EXCEPT !.channels_ = u.channels_, !.pollfds_ = u.pollfds_,
                         !.poll_index_ = u.poll_index_]
    <3>1. u = [t EXCEPT !.channels_ = channels, !.pollfds_ = SubSeq(q, 1, n - 1),
                        !.poll_index_[d] = k]
      BY <1>3, <2>1 DEF RemoveChannel
    <3>. HIDE DEF u, channels, q, d
    <3>. QED  BY <3>1 DEF Table
  <2>. HIDE DEF u, channels
  <2>3. /\ q \in Seq(Pollfd) /\ Len(q) = n
        /\ \A i \in 1..n : q[i] = IF i = k + 1 THEN last ELSE t.pollfds_[i]
    <3>1. last \in Pollfd /\ k + 1 \in 1..n
      BY <1>1
    <3>. HIDE DEF last
    <3>. QED  BY <1>1, <3>1, ExceptSeq
  <2>. HIDE DEF q
  <2>4. /\ u.pollfds_ \in Seq(Pollfd) /\ Len(u.pollfds_) = n - 1
        /\ \A i \in 1..(n - 1) :
               u.pollfds_[i] = IF i = k + 1 THEN last ELSE t.pollfds_[i]
    <3>1. /\ SubSeq(q, 1, n - 1) \in Seq(Pollfd) /\ Len(SubSeq(q, 1, n - 1)) = n - 1
          /\ \A i \in 1..(n - 1) : SubSeq(q, 1, n - 1)[i] = q[i] /\ i \in 1..n
      BY <1>1, <2>3
    <3>. QED  BY <2>2, <2>3, <3>1
  <2>5. u.poll_index_ \in [Channel -> Int]
    BY <1>1, <2>1, <2>2, TableType
  <2>6. u \in Table
    BY <1>1, <2>2, <2>4, <2>5 DEF Table
  <2>. QED
    BY <1>1, <1>3, <2>2, <2>4, <2>6 DEF u, channels
<1>. QED  BY <1>2, <1>3

\* A channel's events are changed, and nothing else.
LEMMA InterestFields ==
    ASSUME NEW t \in Table, NEW c \in Channel, NEW events \in SUBSET Event
    PROVE  LET u == [t EXCEPT !.interested_event_[c] = events]
           IN  /\ u \in Table
               /\ u.pollfds_ = t.pollfds_ /\ u.channels_ = t.channels_ /\ u.fd_ = t.fd_
               /\ u.interested_event_ = [t.interested_event_ EXCEPT ![c] = events]
               /\ u.poll_index_ = t.poll_index_
<1> DEFINE u == [t EXCEPT !.interested_event_[c] = events]
<1>1. /\ u.pollfds_ = t.pollfds_ /\ u.channels_ = t.channels_ /\ u.fd_ = t.fd_
      /\ u.interested_event_ = [t.interested_event_ EXCEPT ![c] = events]
      /\ u.poll_index_ = t.poll_index_
      /\ u = [t EXCEPT !.interested_event_ = u.interested_event_]
  BY DEF Table
<1> HIDE DEF u
<1>2. u.interested_event_ \in [Channel -> SUBSET Event]
  BY <1>1, TableType
<1>3. u \in Table
  BY <1>1, <1>2 DEF Table
<1>. QED
  BY <1>1, <1>3 DEF u

\* What a channel that is new to the list makes of it.
LEMMA AddedKeeps ==
    ASSUME NEW t \in Table, NEW S \in SUBSET Channel, Entries(t, S),
           NEW c \in Channel \ S
    PROVE  LET u == Added(t, c)
           IN  /\ Entries(u, S \cup {c})
               /\ Live(t) => Live(u)
               /\ Full(t, S) => Full(u, S \cup {c})
               /\ \A d \in Channel : u.channels_[u.fd_[d]] =
                      IF d = c THEN c ELSE t.channels_[t.fd_[d]]
<1> DEFINE u == Added(t, c)
           n == Len(t.pollfds_)
<1>1. /\ u \in Table
      /\ u.fd_ = t.fd_
      /\ u.channels_ = [t.channels_ EXCEPT ![t.fd_[c]] = c]
      /\ u.poll_index_ = [t.poll_index_ EXCEPT ![c] = n]
      /\ n \in Nat /\ Len(u.pollfds_) = n + 1
      /\ \A i \in 1..n : u.pollfds_[i] = t.pollfds_[i]
      /\ Descriptor(u.pollfds_[n + 1]) = t.fd_[c]
      /\ u.pollfds_[n + 1].fd = t.fd_[c]
  BY AddedFields
<1>. HIDE DEF u
<1>2. /\ t.fd_ \in [Channel -> Fd] /\ t.channels_ \in [Fd -> Channel \cup {NoChannel}]
      /\ t.poll_index_ \in [Channel -> Int] /\ t.pollfds_ \in Seq(Pollfd)
  BY TableType
<1>3. \A d, e \in Channel : t.fd_[d] = t.fd_[e] => d = e
  BY <1>2 DEF Entries, IsInjective
<1>4. \A d \in Channel : u.channels_[t.fd_[d]] = IF d = c THEN c ELSE t.channels_[t.fd_[d]]
  BY <1>1, <1>2, <1>3
<1>5. \A i \in 1..(n + 1) : i = n + 1 \/ i \in 1..n
  BY <1>1
<1>6. \A d \in Channel : u.poll_index_[d] = IF d = c THEN n ELSE t.poll_index_[d]
  BY <1>1, <1>2
<1>a. \A i \in 1..n : \E d \in S : Descriptor(t.pollfds_[i]) = t.fd_[d]
  BY DEF Entries
<1>7. Entries(u, S \cup {c})
  <2>1. IsInjective(u.fd_)
    BY <1>1 DEF Entries
  <2>2. ASSUME NEW i \in 1..(n + 1)
        PROVE  \E d \in S \cup {c} : Descriptor(u.pollfds_[i]) = t.fd_[d]
    <3>1. CASE i = n + 1
      BY <1>1, <3>1
    <3>2. CASE i \in 1..n
      <4>1. u.pollfds_[i] = t.pollfds_[i]
        BY <1>1, <3>2
      <4>. QED  BY <1>a, <3>2, <4>1
    <3>. QED  BY <1>5, <3>1, <3>2
  <2>3. ASSUME NEW f \in Fd, u.channels_[f] # NoChannel
        PROVE  u.channels_[f] \in S \cup {c} /\ t.fd_[u.channels_[f]] = f
    BY <1>1, <1>2, <2>3 DEF Entries
  <2>4. ASSUME NEW d \in Channel PROVE u.poll_index_[d] >= 0 <=> d \in S \cup {c}
    <3>1. t.poll_index_[d] >= 0 <=> d \in S
      BY DEF Entries
    <3>. QED  BY <1>1, <1>6, <3>1
  <2>5. ASSUME NEW i \in 1..(n + 1), NEW d \in Channel,
               u.channels_[t.fd_[d]] = d, Descriptor(u.pollfds_[i]) = t.fd_[d]
        PROVE  u.poll_index_[d] = i - 1
    <3>1. CASE i = n + 1
      <4>1. d = c  BY <1>1, <1>3, <2>5, <3>1
      <4>. QED  BY <1>1, <1>6, <3>1, <4>1
    <3>2. CASE i \in 1..n
      <4>1. d # c  BY <1>1, <1>3, <1>a, <2>5, <3>2
      <4>2. t.channels_[t.fd_[d]] = d /\ Descriptor(t.pollfds_[i]) = t.fd_[d]
        BY <1>1, <1>4, <2>5, <3>2, <4>1
      <4>3. t.poll_index_[d] = i - 1
        BY <3>2, <4>2 DEF Entries
      <4>. QED  BY <1>6, <4>1, <4>3
    <3>. QED  BY <1>5, <3>1, <3>2
  <2>. QED
    BY <1>1, <2>1, <2>2, <2>3, <2>4, <2>5 DEF Entries
<1>8. ASSUME Live(t) PROVE Live(u)
  <2>1. ASSUME NEW i \in 1..(n + 1), u.pollfds_[i].fd >= 0
        PROVE  u.channels_[u.pollfds_[i].fd] # NoChannel
    <3>1. CASE i = n + 1
      BY <1>1, <1>4, <3>1, ChannelAssumption
    <3>2. CASE i \in 1..n
      <4>1. t.pollfds_[i] \in Pollfd /\ u.pollfds_[i] = t.pollfds_[i]
        BY <1>1, <1>2, <3>2
      <4>2. t.channels_[t.pollfds_[i].fd] # NoChannel
        BY <1>8, <2>1, <3>2, <4>1 DEF Live
      <4>3. t.pollfds_[i].fd \in Fd
        BY <1>2, <1>a, <2>1, <3>2, <4>1, DescriptorFacts
      <4>. QED  BY <1>1, <1>2, <4>1, <4>2, <4>3, ChannelAssumption
    <3>. QED  BY <1>5, <3>1, <3>2
  <2>. QED  BY <1>1, <2>1 DEF Live
<1>9. ASSUME Full(t, S) PROVE Full(u, S \cup {c})
  <2>1. ASSUME NEW d \in S \cup {c}
        PROVE  /\ u.poll_index_[d] + 1 \in 1..(n + 1)
               /\ Descriptor(u.pollfds_[u.poll_index_[d] + 1]) = t.fd_[d]
               /\ u.channels_[t.fd_[d]] = d
    <3>1. CASE d = c
      BY <1>1, <1>4, <1>6, <3>1
    <3>2. CASE d # c
      <4>1. /\ t.poll_index_[d] + 1 \in 1..n
            /\ Descriptor(t.pollfds_[t.poll_index_[d] + 1]) = t.fd_[d]
            /\ t.channels_[t.fd_[d]] = d
        BY <1>9, <3>2 DEF Full
      <4>2. u.poll_index_[d] = t.poll_index_[d] /\ d \in Channel
        BY <1>6, <3>2
      <4>3. t.poll_index_[d] + 1 \in 1..(n + 1)
        BY <1>1, <4>1
      <4>. QED  BY <1>1, <1>4, <3>2, <4>1, <4>2, <4>3
    <3>. QED  BY <3>1, <3>2
  <2>2. ASSUME NEW i \in 1..(n + 1) PROVE \E d \in S \cup {c} : u.poll_index_[d] = i - 1
    <3>1. CASE i = n + 1
      BY <1>1, <1>6, <3>1
    <3>2. CASE i \in 1..n
      <4>1. PICK d \in S : t.poll_index_[d] = i - 1
        BY <1>9, <3>2 DEF Full
      <4>. QED  BY <1>6, <4>1
    <3>. QED  BY <1>5, <3>1, <3>2
  <2>. QED  BY <1>1, <2>1, <2>2 DEF Full
<1>. QED
  BY <1>1, <1>4, <1>7, <1>8, <1>9 DEF u

\* What one that is in the list, or has left it, makes of it.
LEMMA RewrittenKeeps ==
    ASSUME NEW t \in Table, NEW S \in SUBSET Channel, Entries(t, S), NEW c \in S
    PROVE  LET u == Rewritten(t, c)
           IN  /\ Entries(u, S)
               /\ Live(t) /\ (t.interested_event_[c] = {} \/ t.channels_[t.fd_[c]] # NoChannel)
                      => Live(u)
               /\ Full(t, S) => Full(u, S)
<1> DEFINE u == Rewritten(t, c)
           n == Len(t.pollfds_)
           k == t.poll_index_[c] + 1
<1>1. /\ u \in Table
      /\ u.fd_ = t.fd_ /\ u.interested_event_ = t.interested_event_
      /\ u.channels_ = t.channels_ /\ u.poll_index_ = t.poll_index_
      /\ Len(u.pollfds_) = n
      /\ \A i \in 1..n :
             IF i = k
             THEN /\ Descriptor(u.pollfds_[i]) = t.fd_[c]
                  /\ u.pollfds_[i].fd < 0 <=> t.interested_event_[c] = {}
             ELSE u.pollfds_[i] = t.pollfds_[i]
  BY RewrittenFields
<1>. HIDE DEF u
<1>2. /\ t.fd_ \in [Channel -> Fd] /\ t.poll_index_ \in [Channel -> Int]
      /\ u.pollfds_ \in Seq(Pollfd)
  BY <1>1, TableType
<1>3. \A d, e \in Channel : t.fd_[d] = t.fd_[e] => d = e
  BY <1>2 DEF Entries, IsInjective
<1>4. Entries(u, S)
  <2>1. ASSUME NEW i \in 1..n PROVE \E d \in S : Descriptor(u.pollfds_[i]) = t.fd_[d]
    BY <1>1, <2>1 DEF Entries
  <2>2. ASSUME NEW i \in 1..n, NEW d \in Channel,
               t.channels_[t.fd_[d]] = d, Descriptor(u.pollfds_[i]) = t.fd_[d]
        PROVE  t.poll_index_[d] = i - 1
    <3>1. CASE i = k
      BY <1>1, <1>2, <1>3, <2>2, <3>1
    <3>2. CASE i # k
      BY <1>1, <2>2, <3>2 DEF Entries
    <3>. QED  BY <3>1, <3>2
  <2>. QED  BY <1>1, <2>1, <2>2 DEF Entries
<1>5. ASSUME Live(t), t.interested_event_[c] = {} \/ t.channels_[t.fd_[c]] # NoChannel
      PROVE  Live(u)
  <2>1. ASSUME NEW i \in 1..n, u.pollfds_[i].fd >= 0
        PROVE  t.channels_[u.pollfds_[i].fd] # NoChannel
    <3>1. CASE i = k
      <4>1. u.pollfds_[i] \in Pollfd
        BY <1>1, <1>2
      <4>2. u.pollfds_[i].fd = t.fd_[c] /\ t.interested_event_[c] # {}
        BY <1>1, <2>1, <3>1, <4>1, DescriptorFacts
      <4>. QED  BY <1>5, <4>2
    <3>2. CASE i # k
      BY <1>1, <1>5, <2>1, <3>2 DEF Live
    <3>. QED  BY <3>1, <3>2
  <2>. QED  BY <1>1, <2>1 DEF Live
<1>6. ASSUME Full(t, S) PROVE Full(u, S)
  <2>1. ASSUME NEW d \in S
        PROVE  /\ t.poll_index_[d] + 1 \in 1..n
               /\ Descriptor(u.pollfds_[t.poll_index_[d] + 1]) = t.fd_[d]
               /\ t.channels_[t.fd_[d]] = d
    <3>1. /\ t.poll_index_[d] + 1 \in 1..n
          /\ Descriptor(t.pollfds_[t.poll_index_[d] + 1]) = t.fd_[d]
          /\ t.channels_[t.fd_[d]] = d
      BY <1>6 DEF Full
    <3>2. CASE t.poll_index_[d] + 1 = k
      <4>1. Descriptor(t.pollfds_[k]) = t.fd_[c] /\ Descriptor(u.pollfds_[k]) = t.fd_[c]
        BY <1>1, <1>6, <3>1, <3>2 DEF Full
      <4>. QED  BY <3>1, <3>2, <4>1
    <3>3. CASE t.poll_index_[d] + 1 # k
      BY <1>1, <3>1, <3>3
    <3>. QED  BY <3>2, <3>3
  <2>. QED  BY <1>1, <1>6, <2>1 DEF Full
<1>. QED
  BY <1>1, <1>4, <1>5, <1>6 DEF u

\* What one that leaves the list makes of it.
LEMMA RemovedKeeps ==
    ASSUME NEW t \in Table, NEW S \in SUBSET Channel, Entries(t, S), NEW c \in S,
           Removable(t, c)
    PROVE  LET u == RemoveChannel(t, c)
           IN  /\ Entries(u, S)
               /\ Live(t) /\ t.channels_[t.fd_[c]] = c => Live(u)
               /\ \A d \in Channel : u.channels_[u.fd_[d]] =
                      IF d = c THEN NoChannel ELSE t.channels_[t.fd_[d]]
<1> DEFINE u == RemoveChannel(t, c)
           n == Len(t.pollfds_)
           k == t.poll_index_[c]
           b == t.channels_[Descriptor(t.pollfds_[n])]
<1>1. /\ u \in Table
      /\ u.fd_ = t.fd_
      /\ u.channels_ = [t.channels_ EXCEPT ![t.fd_[c]] = NoChannel]
      /\ u.poll_index_ = IF k = n - 1 THEN t.poll_index_ ELSE [t.poll_index_ EXCEPT ![b] = k]
      /\ n \in Nat /\ n > 0 /\ Len(u.pollfds_) = n - 1
      /\ \A i \in 1..(n - 1) :
             u.pollfds_[i] = IF i = k + 1 THEN t.pollfds_[n] ELSE t.pollfds_[i]
  BY RemovedFields
<1>. HIDE DEF u
<1>2. /\ t.fd_ \in [Channel -> Fd] /\ t.channels_ \in [Fd -> Channel \cup {NoChannel}]
      /\ t.poll_index_ \in [Channel -> Int] /\ t.pollfds_ \in Seq(Pollfd)
  BY TableType
<1>3. \A d, e \in Channel : t.fd_[d] = t.fd_[e] => d = e
  BY <1>2 DEF Entries, IsInjective
<1>4. \A d \in Channel : u.channels_[t.fd_[d]] = IF d = c THEN NoChannel ELSE t.channels_[t.fd_[d]]
  BY <1>1, <1>2, <1>3
<1>5. /\ k \in Int /\ k >= 0 /\ k < n /\ n \in 1..n
      /\ k # n - 1 => b \in Channel /\ b # c /\ t.fd_[b] = Descriptor(t.pollfds_[n])
                      /\ t.channels_[t.fd_[b]] = b /\ b \in S
  <2>1. k \in Int /\ k >= 0 /\ k < n /\ n \in 1..n
    BY <1>1, <1>2 DEF Removable
  <2>2. ASSUME k # n - 1
        PROVE  b \in Channel /\ b # c /\ t.fd_[b] = Descriptor(t.pollfds_[n]) /\ b \in S
    <3>1. Descriptor(t.pollfds_[n]) \in Fd /\ b \in Channel \ {c}
      BY <2>2 DEF Removable
    <3>. QED  BY <3>1, ChannelAssumption DEF Entries
  <2>. QED  BY <2>1, <2>2
<1>6. \A d \in Channel : u.poll_index_[d] =
          IF k # n - 1 /\ d = b THEN k ELSE t.poll_index_[d]
  BY <1>1, <1>2, <1>5
<1>7. \A i \in 1..(n - 1) : i \in 1..n
  BY <1>1
<1>a. \A i \in 1..n : \E d \in S : Descriptor(t.pollfds_[i]) = t.fd_[d]
  BY DEF Entries
<1>8. Entries(u, S)
  <2>1. ASSUME NEW i \in 1..(n - 1) PROVE \E d \in S : Descriptor(u.pollfds_[i]) = t.fd_[d]
    <3>1. CASE i = k + 1
      <4>1. u.pollfds_[i] = t.pollfds_[n] /\ n \in 1..n
        BY <1>1, <1>5, <3>1
      <4>. QED  BY <1>a, <4>1
    <3>2. CASE i # k + 1
      <4>1. u.pollfds_[i] = t.pollfds_[i] /\ i \in 1..n
        BY <1>1, <1>7, <3>2
      <4>. QED  BY <1>a, <4>1
    <3>. QED  BY <3>1, <3>2
  <2>2. ASSUME NEW f \in Fd, u.channels_[f] # NoChannel
        PROVE  u.channels_[f] \in S /\ t.fd_[u.channels_[f]] = f
    BY <1>1, <1>2, <2>2 DEF Entries
  <2>3. ASSUME NEW d \in Channel PROVE u.poll_index_[d] >= 0 <=> d \in S
    <3>1. t.poll_index_[d] >= 0 <=> d \in S
      BY DEF Entries
    <3>. QED  BY <1>5, <1>6, <3>1
  <2>4. ASSUME NEW i \in 1..(n - 1), NEW d \in Channel,
               u.channels_[t.fd_[d]] = d, Descriptor(u.pollfds_[i]) = t.fd_[d]
        PROVE  u.poll_index_[d] = i - 1
    <3>1. d # c /\ t.channels_[t.fd_[d]] = d
      BY <1>4, <2>4, ChannelAssumption
    <3>2. \A j \in 1..n : Descriptor(t.pollfds_[j]) = t.fd_[d] => t.poll_index_[d] = j - 1
      BY <3>1 DEF Entries
    <3>3. CASE i = k + 1
      <4>1. k # n - 1 /\ Descriptor(t.pollfds_[n]) = t.fd_[d]
        BY <1>1, <1>5, <2>4, <3>3
      <4>2. d = b
        BY <1>3, <1>5, <4>1
      <4>3. u.poll_index_[d] = k
        BY <1>6, <4>1, <4>2
      <4>. HIDE DEF k
      <4>. QED  BY <1>5, <3>3, <4>3
    <3>4. CASE i # k + 1
      <4>1. t.poll_index_[d] = i - 1
        BY <1>1, <1>7, <2>4, <3>2, <3>4
      <4>2. ~(k # n - 1 /\ d = b)
        <5>. SUFFICES ASSUME k # n - 1, d = b PROVE FALSE
          OBVIOUS
        <5>1. n \in 1..n /\ Descriptor(t.pollfds_[n]) = t.fd_[d]
          BY <1>5
        <5>2. t.poll_index_[d] = n - 1
          BY <3>2, <5>1
        <5>3. n \in Nat /\ i \in 1..(n - 1)
          BY <1>1
        <5>. HIDE DEF n
        <5>. QED  BY <4>1, <5>2, <5>3
      <4>. QED  BY <1>6, <4>1, <4>2
    <3>. QED  BY <3>3, <3>4
  <2>5. IsInjective(u.fd_)
    BY <1>1 DEF Entries
  <2>. QED
    BY <1>1, <2>1, <2>2, <2>3, <2>4, <2>5 DEF Entries
<1>9. ASSUME Live(t), t.channels_[t.fd_[c]] = c PROVE Live(u)
  <2>1. \A j \in 1..n : Descriptor(t.pollfds_[j]) = t.fd_[c] => k = j - 1
    BY <1>9 DEF Entries
  <2>2. ASSUME NEW i \in 1..(n - 1), u.pollfds_[i].fd >= 0
        PROVE  u.channels_[u.pollfds_[i].fd] # NoChannel
    <3>1. PICK j \in 1..n : u.pollfds_[i] = t.pollfds_[j] /\ j - 1 # k
      <4>1. CASE i = k + 1
        <5>1. u.pollfds_[i] = t.pollfds_[n]
          BY <1>1, <4>1
        <5>2. n - 1 # k
          <6>. HIDE DEF k
          <6>. QED  BY <1>1, <1>5, <4>1
        <5>. QED  BY <1>5, <5>1, <5>2
      <4>2. CASE i # k + 1
        BY <1>1, <1>5, <1>7, <4>2
      <4>. QED  BY <4>1, <4>2
    <3>2. t.pollfds_[j] \in Pollfd /\ t.pollfds_[j].fd >= 0
      BY <1>2, <2>2, <3>1
    <3>3. Descriptor(t.pollfds_[j]) = t.pollfds_[j].fd
      BY <3>2, DescriptorFacts
    <3>4. t.channels_[t.pollfds_[j].fd] # NoChannel
      BY <1>9, <3>2 DEF Live
    <3>5. PICK d \in S : t.pollfds_[j].fd = t.fd_[d]
      BY <1>a, <3>3
    <3>6. d # c
      BY <2>1, <3>1, <3>3, <3>5
    <3>. QED  BY <1>4, <3>1, <3>4, <3>5, <3>6
  <2>. QED  BY <1>1, <2>2 DEF Live
<1>. QED
  BY <1>1, <1>4, <1>8, <1>9 DEF u

-----------------------------------------------------------------------------
(* What holds of the connections and the list together, whichever method    *)
(* has just returned.                                                       *)

\* After Shutdown(), ForceClose() or HandleClose(); and while it has not been closed.
Ending == {"DISCONNECTING", "DISCONNECTED"}
Up == {"CONNECTED", "DISCONNECTING"}

\* Those that ConnectEstablished() has run for.
Begun(s) == {c \in Channel : s.status_[c] # "CONNECTIONG"}

\* The user has been told CLOSE.
ClosedIn(s, c) == "CLOSE" \in Range(s.told[c])

\* The channel is in channels_.
Mapped(t, c) == t.channels_[t.fd_[c]] = c

\* The high-water callback has closed a connection.
Cut(s) == \E c \in Channel : "ForceClose" \in s.interrupted[c]

\* A connection is in the list from UP to CLOSE, unless it was reopened.
ListIn(s) ==
    /\ Entries(s.table, Begun(s))
    /\ s.process = "running" =>
           \A c \in Channel \ s.reopened : Mapped(s.table, c) <=> s.status_[c] \in Up
    /\ s.process = "running" /\ s.reopened = {} /\ ~Cut(s) => Live(s.table)
    /\ (\A c \in Channel : ~ClosedIn(s, c)) => Full(s.table, Begun(s))

\* The list is used outside of its bounds after a reopening, a second close or a close
\* in the high-water callback only.
Outside(s) ==
    s.process = "undefined" =>
        \/ s.reopened # {} \/ Cut(s)
        \/ \E c, d \in Channel : c # d /\ ClosedIn(s, c) /\ ClosedIn(s, d)

\* What the innermost callback keeps from c's output, and whether any callback does.
Held(s, c) == IF s.stack # <<>> /\ Head(s.stack).conn = c THEN Head(s.stack).data ELSE <<>>

Stacked(s, c) == \E i \in 1..Len(s.stack) : s.stack[i].conn = c /\ s.stack[i].data # <<>>

\* SHUT_WR comes after the output, and output that waits is waited for.
OutputAt(s, c) ==
    /\ s.socket[c].shut =>
           /\ s.status_[c] \in Ending
           /\ \/ s.output_buffer_[c] = <<>> /\ ~Stacked(s, c)
              \/ ClosedIn(s, c) \/ "Shutdown" \in s.interrupted[c]
    /\ s.output_buffer_[c] # <<>> => IsWriting(s, c) \/ ClosedIn(s, c)
    /\ s.process = "running" /\ s.status_[c] = "DISCONNECTED" =>
           ~IsWriting(s, c) \/ "ForceClose" \in s.interrupted[c]

\* Callbacks in order.
InOrder(q) ==
    \A i, j \in 1..Len(q) : i < j =>
        /\ q[j] # "UP"
        /\ q[i] # "CLOSE"
        /\ q[j] = "MESSAGE" => q[i] # "DOWN"

\* What a user has been told agrees with the status.
ToldAt(s, c) ==
    /\ s.status_[c] = "DISCONNECTED" \/ c \in s.reopened => ClosedIn(s, c)
    /\ s.status_[c] = "CONNECTIONG" => s.told[c] = <<>>
    /\ c \notin s.reopened =>
           /\ s.status_[c] \in Up =>
                  \A i \in 1..Len(s.told[c]) : s.told[c][i] \in {"UP", "MESSAGE"}
           /\ InOrder(s.told[c])

\* What the peer gets, and what waits after it; nothing is said of it once the high-water
\* callback has sent.
Line(s, c) == s.socket[c].sent \o Held(s, c) \o s.output_buffer_[c]

Bytes(s, c) == IF "Send" \in s.interrupted[c] THEN <<>> ELSE Line(s, c)

\* Message m of thread t.
IsMessage(data, t, m) == data = [i \in 1..Length |-> [by |-> t, msg |-> m, at |-> i]]

\* Whole messages, and those of one thread ascending.
Whole(bytes) ==
    /\ \A i \in 1..Len(bytes) :
           /\ i = 1 \/ bytes[i - 1].at = Length <=> bytes[i].at = 1
           /\ bytes[i].at < Length =>
                  i < Len(bytes) /\ bytes[i + 1] = [bytes[i] EXCEPT !.at = @ + 1]
    /\ \A i, j \in 1..Len(bytes) :
           i < j /\ bytes[j].at = 1 /\ bytes[i].by = bytes[j].by => bytes[i].msg < bytes[j].msg

\* Of t's messages, only those before m are among these bytes.
Before(bytes, t, m) == \A i \in 1..Len(bytes) : bytes[i].by = t => bytes[i].msg < m

\* All that is said of one connection.
Connection(s, c) == OutputAt(s, c) /\ ToldAt(s, c) /\ Whole(Bytes(s, c))

\* All that is said of the connections and the list.
NetIn(s) == s \in Net /\ ListIn(s) /\ Outside(s) /\ \A c \in Channel : Connection(s, c)

\* What is said of the other connections does not change.
Others(s, r, c) ==
    /\ r.reopened = s.reopened /\ r.interrupted = s.interrupted
    /\ r.process = "running" => s.process = "running"
    /\ \A d \in Channel \ {c} :
           /\ r.status_[d] = s.status_[d] /\ r.told[d] = s.told[d]
           /\ r.output_buffer_[d] = s.output_buffer_[d] /\ r.socket[d] = s.socket[d]
           /\ r.table.interested_event_[d] = s.table.interested_event_[d]
           /\ Held(r, d) = Held(s, d) /\ (Stacked(r, d) <=> Stacked(s, d))

\* No callback of another connection is under way, and the innermost one keeps nothing
\* from the output, or has sent.
Callable(s, c) ==
    /\ \A i \in 1..Len(s.stack) : s.stack[i].conn = c
    /\ Held(s, c) = <<>> \/ "Send" \in s.interrupted[c]

\* The callbacks under way stay as they are.
StackKept(s, r) == r.stack = s.stack /\ r.interrupted = s.interrupted

\* A method has moved connection c from s to r.
Moved(s, r, c) ==
    /\ NetIn(r)
    /\ Others(s, r, c)
    /\ r.status_[c] # "CONNECTIONG"
    /\ s.status_[c] \in Ending => r.status_[c] \in Ending

\* The fields of net.
LEMMA NetType ==
    ASSUME NEW s \in Net
    PROVE  /\ s.table \in Table
           /\ s.status_ \in [Channel -> Status]
           /\ s.output_buffer_ \in [Channel -> Seq(Byte)]
           /\ s.socket \in [Channel -> Socket]
           /\ s.stack \in Seq(Frame)
           /\ s.told \in [Channel -> Seq(Callback)]
           /\ s.interrupted \in [Channel -> SUBSET Op]
           /\ s.reopened \in SUBSET Channel
           /\ s.process \in {"running", "killed", "undefined"}
BY DEF Net

\* The fields of a socket.
LEMMA SocketType ==
    ASSUME NEW k \in Socket
    PROVE  /\ k.sent \in Seq(Byte) /\ k.room \in 0..Room /\ k.shut \in BOOLEAN
           /\ k.arrived \in 0..MaxArrival /\ k.fin \in BOOLEAN /\ k.reset \in BOOLEAN
           /\ k.error \in BOOLEAN
BY DEF Socket

\* The bounds are positive numbers.
LEMMA Bounds ==
    /\ Length \in Nat /\ Length > 0 /\ Room \in Nat /\ Room > 0
    /\ MaxMessage \in Nat /\ MaxMessage > 0 /\ MaxArrival \in Nat /\ MaxArrival > 0
    /\ MaxTask \in Nat /\ MaxTask > 0
BY BoundAssumption

\* The fields of a byte.
LEMMA ByteType ==
    ASSUME NEW b \in Byte
    PROVE  /\ b.by \in Thread \cup {Loop} /\ b.msg \in 1..MaxMessage /\ b.at \in 1..Length
           /\ b.msg \in Nat /\ b.at \in Nat
           /\ b = [by |-> b.by, msg |-> b.msg, at |-> b.at]
BY Bounds DEF Byte

\* CLOSE among more callbacks.
LEMMA ClosedMore ==
    ASSUME NEW q \in Seq(Callback), NEW more \in Seq(Callback)
    PROVE  "CLOSE" \in Range(q \o more) <=> "CLOSE" \in Range(q) \/ "CLOSE" \in Range(more)
<1> DEFINE w == q \o more
<1>1. /\ w \in Seq(Callback) /\ Len(w) = Len(q) + Len(more)
      /\ Len(q) \in Nat /\ Len(more) \in Nat
      /\ \A i \in 1..Len(q) : w[i] = q[i]
      /\ \A i \in 1..Len(more) : w[Len(q) + i] = more[i]
  BY ConcatProperties
<1>2. /\ DOMAIN q = 1..Len(q) /\ DOMAIN more = 1..Len(more)
      /\ DOMAIN w = 1..(Len(q) + Len(more))
  BY <1>1
<1>. HIDE DEF w
<1>3. ASSUME "CLOSE" \in Range(w) PROVE "CLOSE" \in Range(q) \/ "CLOSE" \in Range(more)
  <2>1. PICK i \in 1..(Len(q) + Len(more)) : w[i] = "CLOSE"
    BY <1>2, <1>3 DEF Range
  <2>2. CASE i <= Len(q)
    <3>1. i \in DOMAIN q /\ q[i] = "CLOSE"
      BY <1>1, <1>2, <2>1, <2>2
    <3>. QED  BY <3>1 DEF Range
  <2>3. CASE ~(i <= Len(q))
    <3>1. i - Len(q) \in 1..Len(more) /\ Len(q) + (i - Len(q)) = i
      BY <1>1, <2>1, <2>3
    <3>2. i - Len(q) \in DOMAIN more /\ more[i - Len(q)] = "CLOSE"
      BY <1>1, <1>2, <2>1, <3>1
    <3>. QED  BY <3>2 DEF Range
  <2>. QED  BY <2>2, <2>3
<1>4. ASSUME "CLOSE" \in Range(q) PROVE "CLOSE" \in Range(w)
  <2>1. PICK i \in 1..Len(q) : q[i] = "CLOSE"
    BY <1>2, <1>4 DEF Range
  <2>2. i \in DOMAIN w /\ w[i] = "CLOSE"
    BY <1>1, <1>2, <2>1
  <2>. QED  BY <2>2 DEF Range
<1>5. ASSUME "CLOSE" \in Range(more) PROVE "CLOSE" \in Range(w)
  <2>1. PICK i \in 1..Len(more) : more[i] = "CLOSE"
    BY <1>2, <1>5 DEF Range
  <2>2. Len(q) + i \in DOMAIN w /\ w[Len(q) + i] = "CLOSE"
    BY <1>1, <1>2, <2>1
  <2>. QED  BY <2>2 DEF Range
<1>. QED  BY <1>3, <1>4, <1>5 DEF w

\* A message, and the message's bytes.
LEMMA MessageBytes ==
    ASSUME NEW data, NEW t \in Thread \cup {Loop}, NEW m \in 1..MaxMessage, IsMessage(data, t, m)
    PROVE  /\ data \in Seq(Byte) /\ Len(data) = Length /\ data # <<>>
           /\ \A i \in 1..Length : data[i] = [by |-> t, msg |-> m, at |-> i]
           /\ \A i \in 1..Length : data[i].by = t /\ data[i].msg = m /\ data[i].at = i
<1>1. \A i \in 1..Length : [by |-> t, msg |-> m, at |-> i] \in Byte
  BY DEF Byte
<1>2. data \in [1..Length -> Byte] /\ \A i \in 1..Length : data[i] = [by |-> t, msg |-> m, at |-> i]
  BY <1>1 DEF IsMessage
<1>3. data \in Seq(Byte) /\ Len(data) = Length
  BY <1>2, Bounds, SeqDef, LenProperties
<1>. QED  BY <1>2, <1>3, Bounds

\* A whole message behind whole messages.
LEMMA WholeAppend ==
    ASSUME NEW bytes \in Seq(Byte), Whole(bytes), NEW data, NEW t \in Thread \cup {Loop},
           NEW m \in 1..MaxMessage, IsMessage(data, t, m), Before(bytes, t, m)
    PROVE  Whole(bytes \o data)
<1> DEFINE w == bytes \o data
           n == Len(bytes)
<1>1. /\ data \in Seq(Byte) /\ Len(data) = Length
      /\ \A i \in 1..Length : data[i] = [by |-> t, msg |-> m, at |-> i]
      /\ \A i \in 1..Length : data[i].by = t /\ data[i].msg = m /\ data[i].at = i
  BY MessageBytes
<1>2. /\ w \in Seq(Byte) /\ Len(w) = n + Length /\ n \in Nat
      /\ \A i \in 1..n : w[i] = bytes[i]
      /\ \A i \in 1..Length : w[n + i] = data[i]
  BY <1>1, ConcatProperties
<1>3. Length \in Nat /\ Length > 0
  BY Bounds
<1>. HIDE DEF w
<1>4. \A i \in 1..(n + Length) : i \in 1..n \/ (i - n \in 1..Length /\ w[i] = data[i - n])
  BY <1>2, <1>3
<1>5. n > 0 => bytes[n].at = Length
  <2>1. n > 0 => bytes[n].at \in 1..Length /\ ~(bytes[n].at < Length)
    <3>1. n > 0 => n \in 1..n /\ bytes[n] \in Byte
      BY <1>2
    <3>2. n > 0 => bytes[n].at \in 1..Length
      BY <3>1, ByteType
    <3>3. n > 0 => (bytes[n].at < Length => n < n)
      BY <3>1 DEF Whole
    <3>4. n > 0 => ~(bytes[n].at < Length)
      BY <1>2, <3>3
    <3>. QED  BY <3>2, <3>4
  <2>. QED  BY <1>3, <2>1
<1>6. ASSUME NEW i \in 1..(n + Length)
      PROVE  /\ i = 1 \/ w[i - 1].at = Length <=> w[i].at = 1
             /\ w[i].at < Length => i < n + Length /\ w[i + 1] = [w[i] EXCEPT !.at = @ + 1]
  <2>1. CASE i \in 1..n
    <3>1. /\ i = 1 \/ bytes[i - 1].at = Length <=> bytes[i].at = 1
          /\ bytes[i].at < Length =>
                 i < n /\ bytes[i + 1] = [bytes[i] EXCEPT !.at = @ + 1]
      BY <2>1 DEF Whole
    <3>2. /\ w[i] = bytes[i] /\ (i # 1 => w[i - 1] = bytes[i - 1])
          /\ (i < n => w[i + 1] = bytes[i + 1])
      BY <1>2, <2>1
    <3>. QED  BY <1>2, <1>3, <2>1, <3>1, <3>2
  <2>2. CASE i - n \in 1..Length
    <3>. DEFINE j == i - n
    <3>1. w[i] = [by |-> t, msg |-> m, at |-> j] /\ w[i].at = j
      <4>1. n + j = i /\ j \in 1..Length
        BY <1>2, <2>2
      <4>. HIDE DEF j
      <4>2. w[i] = data[j]
        BY <1>2, <4>1
      <4>. QED  BY <1>1, <4>1, <4>2
    <3>2. CASE j = 1
      <4>1. i = 1 \/ w[i - 1].at = Length
        <5>1. i = n + 1
          BY <1>2, <3>2
        <5>. QED  BY <1>2, <1>5, <5>1
      <4>2. Length > 1 => w[i + 1] = [by |-> t, msg |-> m, at |-> 2]
        <5>1. Length > 1 => 2 \in 1..Length /\ i + 1 = n + 2
          BY <1>2, <1>3, <3>2
        <5>2. Length > 1 => w[i + 1] = data[2]
          BY <1>2, <5>1
        <5>. QED  BY <1>1, <5>1, <5>2
      <4>3. Length > 1 => i < n + Length
        BY <1>2, <1>3, <3>2
      <4>. QED  BY <1>3, <3>1, <3>2, <4>1, <4>2, <4>3
    <3>3. CASE j # 1
      <4>1. j - 1 \in 1..Length /\ i - 1 = n + (j - 1) /\ j \in Nat /\ i # 1
        BY <1>2, <1>3, <2>2, <3>3
      <4>2. w[i - 1].at = j - 1 /\ j - 1 < Length
        BY <1>1, <1>2, <2>2, <4>1
      <4>3. j < Length => /\ i < n + Length /\ j + 1 \in 1..Length /\ i + 1 = n + (j + 1)
        BY <1>2, <1>3, <2>2
      <4>4. j < Length => w[i + 1] = [by |-> t, msg |-> m, at |-> j + 1]
        BY <1>1, <1>2, <4>3
      <4>5. [w[i] EXCEPT !.at = @ + 1] = [by |-> t, msg |-> m, at |-> j + 1]
        BY <3>1
      <4>6. w[i].at # 1 /\ i # 1 /\ w[i - 1].at # Length
        BY <1>3, <3>1, <3>3, <4>1, <4>2
      <4>7. w[i].at < Length => i < n + Length /\ w[i + 1] = [w[i] EXCEPT !.at = @ + 1]
        BY <3>1, <4>3, <4>4, <4>5
      <4>. QED  BY <4>6, <4>7
    <3>. QED  BY <3>2, <3>3
  <2>. QED  BY <1>4, <2>1, <2>2
<1>7. ASSUME NEW i \in 1..(n + Length), NEW j \in 1..(n + Length), i < j, w[j].at = 1,
             w[i].by = w[j].by
      PROVE  w[i].msg < w[j].msg
  <2>1. CASE j \in 1..n
    <3>1. i \in 1..n
      BY <1>2, <1>7, <2>1
    <3>. QED  BY <1>2, <1>7, <2>1, <3>1 DEF Whole
  <2>2. CASE j - n \in 1..Length
    <3>1. w[j] = data[j - n]
      BY <1>2, <2>2
    <3>2. j - n = 1 /\ w[j].by = t /\ w[j].msg = m
      BY <1>1, <1>7, <2>2, <3>1
    <3>3. i \in 1..n
      BY <1>2, <1>7, <3>2
    <3>. QED  BY <1>2, <1>7, <3>2, <3>3 DEF Before
  <2>. QED  BY <1>4, <2>1, <2>2
<1>. QED
  BY <1>2, <1>6, <1>7 DEF w, Whole

\* What a method leaves of the connections it has nothing to do with.
LEMMA OthersKeep ==
    ASSUME NEW s, NEW r, NEW c \in Channel, Others(s, r, c), Connection(r, c),
           \A d \in Channel : Connection(s, d)
    PROVE  \A d \in Channel : Connection(r, d)
<1>1. ASSUME NEW d \in Channel \ {c} PROVE Connection(r, d)
  <2>1. Connection(s, d)  OBVIOUS
  <2>2. /\ r.reopened = s.reopened /\ (r.process = "running" => s.process = "running")
        /\ r.status_[d] = s.status_[d] /\ r.told[d] = s.told[d]
        /\ r.output_buffer_[d] = s.output_buffer_[d] /\ r.socket[d] = s.socket[d]
        /\ r.table.interested_event_[d] = s.table.interested_event_[d]
        /\ r.interrupted = s.interrupted
        /\ Held(r, d) = Held(s, d) /\ (Stacked(r, d) <=> Stacked(s, d))
    BY DEF Others
  <2>3. OutputAt(r, d)
    BY <2>1, <2>2 DEF Connection, OutputAt, IsWriting, ClosedIn
  <2>4. ToldAt(r, d)
    BY <2>1, <2>2 DEF Connection, ToldAt, ClosedIn
  <2>5. Whole(Bytes(r, d))
    BY <2>1, <2>2 DEF Connection, Bytes, Line
  <2>. QED  BY <2>3, <2>4, <2>5 DEF Connection
<1>. QED  BY <1>1

\* A method leaves alone who is up and who was told of an end.
StatusKept(s, r) ==
    /\ r.reopened = s.reopened /\ r.interrupted = s.interrupted
    /\ r.process = "running" => s.process = "running"
    /\ \A d \in Channel : /\ r.status_[d] \in Up <=> s.status_[d] \in Up
                          /\ r.status_[d] = "CONNECTIONG" <=> s.status_[d] = "CONNECTIONG"
                          /\ ClosedIn(s, d) => ClosedIn(r, d)

\* The list is left alone.
ListKept(s, r) == r.table = s.table /\ StatusKept(s, r)

\* The list of a method that leaves it alone.
LEMMA ListSame ==
    ASSUME NEW s, NEW r, ListIn(s), ListKept(s, r)
    PROVE  ListIn(r)
<1>1. Begun(r) = Begun(s)
  BY DEF Begun, ListKept, StatusKept
<1>. QED  BY <1>1 DEF ListIn, ListKept, StatusKept, Cut

\* What the callbacks keep is the same if they are.
LEMMA StackSame ==
    ASSUME NEW s, NEW r, StackKept(s, r)
    PROVE  \A d : Held(r, d) = Held(s, d) /\ (Stacked(r, d) <=> Stacked(s, d))
BY DEF StackKept, Held, Stacked

-----------------------------------------------------------------------------
(* What the methods make of it, from the smallest to those that call others.*)

\* A connection's fields, one by one.
LEMMA NetAt ==
    ASSUME NEW s \in Net, NEW c \in Channel
    PROVE  /\ s.status_[c] \in Status /\ s.told[c] \in Seq(Callback)
           /\ s.output_buffer_[c] \in Seq(Byte) /\ s.socket[c] \in Socket
           /\ s.socket[c].sent \in Seq(Byte) /\ Held(s, c) \in Seq(Byte)
           /\ Bytes(s, c) \in Seq(Byte) /\ s.interrupted[c] \in SUBSET Op
<1>1. /\ s.status_[c] \in Status /\ s.told[c] \in Seq(Callback)
      /\ s.output_buffer_[c] \in Seq(Byte) /\ s.socket[c] \in Socket
      /\ s.interrupted[c] \in SUBSET Op
  BY NetType
<1>2. s.socket[c].sent \in Seq(Byte)
  BY <1>1, SocketType
<1>3. Held(s, c) \in Seq(Byte)
  <2>1. s.stack # <<>> => Head(s.stack) \in Frame
    BY NetType, HeadTailProperties
  <2>2. s.stack # <<>> => Head(s.stack).data \in Seq(Byte)
    BY <2>1 DEF Frame
  <2>. QED  BY <2>2 DEF Held
<1>4. Line(s, c) \in Seq(Byte)
  BY <1>1, <1>2, <1>3, ConcatProperties DEF Line
<1>. QED
  BY <1>1, <1>2, <1>3, <1>4 DEF Bytes

\* The bytes when no callback keeps any.
LEMMA BytesPlain ==
    ASSUME NEW s \in Net, NEW c \in Channel, Held(s, c) = <<>> \/ "Send" \in s.interrupted[c]
    PROVE  Bytes(s, c) = IF "Send" \in s.interrupted[c] THEN <<>>
                         ELSE s.socket[c].sent \o s.output_buffer_[c]
<1>1. s.socket[c].sent \o <<>> = s.socket[c].sent
  BY NetAt, ConcatEmptySeq
<1>. QED  BY <1>1 DEF Bytes, Line

\* The socket moves in a way that is neither a write nor SHUT_WR.
LEMMA SocketMoved ==
    ASSUME NEW s, NetIn(s), NEW c \in Channel,
           NEW k \in Socket, k.sent = s.socket[c].sent, k.shut = s.socket[c].shut,
           NEW r, r = [s EXCEPT !.socket[c] = k]
    PROVE  /\ NetIn(r) /\ Others(s, r, c)
           /\ r.status_ = s.status_ /\ r.told = s.told /\ r.process = s.process
           /\ r.output_buffer_ = s.output_buffer_ /\ r.table = s.table
           /\ r.reopened = s.reopened /\ StackKept(s, r)
           /\ \A d \in Channel : Bytes(r, d) = Bytes(s, d)
<1>0. s \in Net  BY DEF NetIn
<1>1. /\ r.table = s.table /\ r.status_ = s.status_ /\ r.output_buffer_ = s.output_buffer_
      /\ r.socket = [s.socket EXCEPT ![c] = k] /\ r.told = s.told
      /\ r.stack = s.stack /\ r.interrupted = s.interrupted
      /\ r.reopened = s.reopened /\ r.process = s.process
      /\ r = [s EXCEPT !.socket = r.socket]
  BY <1>0 DEF Net
<1>11. /\ StackKept(s, r)
       /\ \A d : Held(r, d) = Held(s, d) /\ (Stacked(r, d) <=> Stacked(s, d))
  BY <1>1, StackSame DEF StackKept
<1>2. r.socket \in [Channel -> Socket]
  BY <1>0, <1>1, NetType
<1>3. r \in Net
  BY <1>0, <1>1, <1>2 DEF Net
<1>4. \A d \in Channel : r.socket[d].sent = s.socket[d].sent /\ r.socket[d].shut = s.socket[d].shut
  BY <1>0, <1>1, NetType
<1>5. Others(s, r, c)
  <2>1. \A d \in Channel \ {c} : r.socket[d] = s.socket[d]
    BY <1>0, <1>1, NetType
  <2>. QED  BY <1>1, <1>11, <2>1 DEF Others
<1>6. \A d \in Channel : Bytes(r, d) = Bytes(s, d)
  BY <1>1, <1>4, <1>11 DEF Bytes, Line
<1>7. Connection(r, c)
  <2>1. Connection(s, c)
    BY DEF NetIn
  <2>2. OutputAt(r, c)
    BY <1>1, <1>4, <1>11, <2>1 DEF Connection, OutputAt, IsWriting, ClosedIn
  <2>3. ToldAt(r, c)
    BY <1>1, <2>1 DEF Connection, ToldAt, ClosedIn
  <2>. QED  BY <1>6, <2>1, <2>2, <2>3 DEF Connection
<1>8. ListIn(r)
  <2>1. ListKept(s, r)
    BY <1>1 DEF ListKept, StatusKept, ClosedIn
  <2>. QED  BY <2>1, ListSame DEF NetIn
<1>9. Outside(r)
  BY <1>1 DEF NetIn, Outside, ClosedIn, Cut
<1>10. \A d \in Channel : Connection(r, d)
  BY <1>5, <1>7, OthersKeep DEF NetIn
<1>. QED
  BY <1>1, <1>3, <1>5, <1>6, <1>8, <1>9, <1>10, <1>11 DEF NetIn

\* A message is announced to a user who has not been told of an end.
LEMMA MessageTold ==
    ASSUME NEW s, NetIn(s), NEW c \in Channel, s.status_[c] \in Up \/ c \in s.reopened,
           s.status_[c] # "CONNECTIONG",
           NEW r, r = Tell(s, c, <<"MESSAGE">>)
    PROVE  Moved(s, r, c) /\ r.status_ = s.status_ /\ r.process = s.process
           /\ r.reopened = s.reopened /\ r.table = s.table /\ StackKept(s, r)
           /\ \A d \in Channel : Bytes(r, d) = Bytes(s, d)
<1>0. s \in Net  BY DEF NetIn
<1> DEFINE q == s.told[c] \o <<"MESSAGE">>
<1>1. /\ r.table = s.table /\ r.status_ = s.status_ /\ r.output_buffer_ = s.output_buffer_
      /\ r.socket = s.socket /\ r.told = [s.told EXCEPT ![c] = q]
      /\ r.stack = s.stack /\ r.interrupted = s.interrupted
      /\ r.reopened = s.reopened /\ r.process = s.process
      /\ r = [s EXCEPT !.told = r.told]
  BY <1>0 DEF Net, Tell
<1>17. /\ StackKept(s, r)
       /\ \A d : Held(r, d) = Held(s, d) /\ (Stacked(r, d) <=> Stacked(s, d))
  BY <1>1, StackSame DEF StackKept
<1>2. /\ s.told[c] \in Seq(Callback) /\ <<"MESSAGE">> \in Seq(Callback)
      /\ Len(<<"MESSAGE">>) = 1 /\ <<"MESSAGE">>[1] = "MESSAGE"
  BY <1>0, NetAt DEF Callback
<1>3. /\ q \in Seq(Callback) /\ Len(q) = Len(s.told[c]) + 1 /\ Len(s.told[c]) \in Nat
      /\ \A i \in 1..Len(s.told[c]) : q[i] = s.told[c][i]
      /\ q[Len(s.told[c]) + 1] = "MESSAGE"
  BY <1>2, ConcatProperties
<1>4. "CLOSE" \in Range(q) <=> "CLOSE" \in Range(s.told[c])
  <2>1. "CLOSE" \notin Range(<<"MESSAGE">>)
    BY <1>2 DEF Range
  <2>. QED  BY <1>2, <2>1, ClosedMore
<1>. HIDE DEF q
<1>5. r.told \in [Channel -> Seq(Callback)]
  <2>1. s.told \in [Channel -> Seq(Callback)]
    BY <1>0, NetType
  <2>. QED  BY <1>1, <1>3, <2>1
<1>6. r \in Net
  BY <1>0, <1>1, <1>5 DEF Net
<1>7. \A d \in Channel : r.told[d] = IF d = c THEN q ELSE s.told[d]
  BY <1>0, <1>1, NetType
<1>8. \A d \in Channel : ClosedIn(r, d) <=> ClosedIn(s, d)
  BY <1>4, <1>7 DEF ClosedIn
<1>9. Others(s, r, c)
  BY <1>1, <1>7, <1>17 DEF Others
<1>10. ToldAt(r, c)
  <2>1. ToldAt(s, c)
    BY DEF NetIn, Connection
  <2>2. ASSUME c \notin s.reopened
        PROVE  /\ \A i \in 1..Len(q) : q[i] \in {"UP", "MESSAGE"}
               /\ InOrder(q)
    <3>1. s.status_[c] \in Up /\ InOrder(s.told[c])
          /\ \A i \in 1..Len(s.told[c]) : s.told[c][i] \in {"UP", "MESSAGE"}
      BY <2>1, <2>2 DEF ToldAt
    <3>2. \A i \in 1..Len(q) : i \in 1..Len(s.told[c]) \/ i = Len(s.told[c]) + 1
      BY <1>3
    <3>3. \A i \in 1..Len(q) : q[i] \in {"UP", "MESSAGE"}
      BY <1>3, <3>1, <3>2
    <3>4. InOrder(q)
      <4>. SUFFICES ASSUME NEW i \in 1..Len(q), NEW j \in 1..Len(q), i < j
                    PROVE  q[j] # "UP" /\ q[i] # "CLOSE" /\ (q[j] = "MESSAGE" => q[i] # "DOWN")
        BY DEF InOrder
      <4>1. i \in 1..Len(s.told[c])
        BY <1>3
      <4>2. q[j] # "UP"
        <5>1. CASE j \in 1..Len(s.told[c])
          BY <1>3, <3>1, <4>1, <5>1 DEF InOrder
        <5>2. CASE j = Len(s.told[c]) + 1
          BY <1>3, <5>2
        <5>. QED  BY <3>2, <5>1, <5>2
      <4>. QED  BY <3>3, <4>2
    <3>. QED  BY <3>3, <3>4
  <2>3. r.told[c] = q
    BY <1>7
  <2>. QED  BY <1>1, <1>8, <2>1, <2>2, <2>3 DEF ToldAt
<1>11. OutputAt(r, c)
  BY <1>1, <1>8, <1>17 DEF NetIn, Connection, OutputAt, IsWriting
<1>12. \A d \in Channel : Bytes(r, d) = Bytes(s, d)
  BY <1>1, <1>17 DEF Bytes, Line
<1>13. Connection(r, c)
  BY <1>10, <1>11, <1>12 DEF NetIn, Connection
<1>14. ListIn(r)
  <2>1. ListKept(s, r)
    BY <1>1, <1>8 DEF ListKept, StatusKept
  <2>. QED  BY <2>1, ListSame DEF NetIn
<1>15. Outside(r)
  BY <1>1, <1>8 DEF NetIn, Outside, Cut
<1>16. \A d \in Channel : Connection(r, d)
  BY <1>9, <1>13, OthersKeep DEF NetIn
<1>. QED
  BY <1>1, <1>6, <1>9, <1>12, <1>14, <1>15, <1>16, <1>17 DEF NetIn, Moved

\* The assignment Shutdown() and ForceClose() make.
EndingFrom(s, c) == [s EXCEPT !.status_[c] = "DISCONNECTING"]

\* Shutdown() and ForceClose() set the status of a connection that is up.
LEMMA EndingSet ==
    ASSUME NEW s, NetIn(s), NEW c \in Channel, s.status_[c] \in Up,
           NEW r, r = EndingFrom(s, c)
    PROVE  /\ Moved(s, r, c) /\ r.status_[c] = "DISCONNECTING" /\ r.process = s.process
           /\ StackKept(s, r) /\ r.output_buffer_ = s.output_buffer_
           /\ \A d \in Channel : Bytes(r, d) = Bytes(s, d)
<1>0. s \in Net  BY DEF NetIn
<1>1. /\ r.table = s.table /\ r.status_ = [s.status_ EXCEPT ![c] = "DISCONNECTING"]
      /\ r.output_buffer_ = s.output_buffer_
      /\ r.socket = s.socket /\ r.told = s.told
      /\ r.stack = s.stack /\ r.interrupted = s.interrupted
      /\ r.reopened = s.reopened /\ r.process = s.process
      /\ r = [s EXCEPT !.status_ = r.status_]
  BY <1>0 DEF Net, EndingFrom
<1>12. /\ StackKept(s, r)
       /\ \A d : Held(r, d) = Held(s, d) /\ (Stacked(r, d) <=> Stacked(s, d))
  BY <1>1, StackSame DEF StackKept
<1>2. r.status_ \in [Channel -> Status]
  BY <1>0, <1>1, NetType DEF Status
<1>3. r \in Net
  BY <1>0, <1>1, <1>2 DEF Net
<1>4. \A d \in Channel : r.status_[d] = IF d = c THEN "DISCONNECTING" ELSE s.status_[d]
  BY <1>0, <1>1, NetType
<1>5. \A d \in Channel : ClosedIn(r, d) <=> ClosedIn(s, d)
  BY <1>1 DEF ClosedIn
<1>6. Others(s, r, c)
  BY <1>1, <1>4, <1>12 DEF Others
<1>7. \A d \in Channel : Bytes(r, d) = Bytes(s, d)
  BY <1>1, <1>12 DEF Bytes, Line
<1>8. Connection(r, c)
  <2>1. Connection(s, c)
    BY DEF NetIn
  <2>2. OutputAt(r, c)
    BY <1>1, <1>4, <1>5, <1>12, <2>1 DEF Connection, OutputAt, IsWriting, Ending
  <2>3. ToldAt(r, c)
    BY <1>1, <1>4, <1>5, <2>1 DEF Connection, ToldAt, Up
  <2>. QED  BY <1>7, <2>1, <2>2, <2>3 DEF Connection
<1>9. ListIn(r)
  <2>1. \A d \in Channel : /\ r.status_[d] \in Up <=> s.status_[d] \in Up
                           /\ r.status_[d] = "CONNECTIONG" <=> s.status_[d] = "CONNECTIONG"
    BY <1>4 DEF Up
  <2>2. ListKept(s, r)
    BY <1>1, <1>5, <2>1 DEF ListKept, StatusKept
  <2>. QED  BY <2>2, ListSame DEF NetIn
<1>10. Outside(r)
  BY <1>1, <1>5 DEF NetIn, Outside, Cut
<1>11. \A d \in Channel : Connection(r, d)
  BY <1>6, <1>8, OthersKeep DEF NetIn
<1>. QED
  BY <1>1, <1>3, <1>4, <1>6, <1>7, <1>9, <1>10, <1>11, <1>12 DEF NetIn, Moved, Ending

\* ShutdownInLoop() of a connection that is to end, when no callback keeps output from it
\* or has asked for that itself.
LEMMA ShutdownMoves ==
    ASSUME NEW s, NetIn(s), NEW c \in Channel, s.status_[c] \in Ending,
           ~Stacked(s, c) \/ "Shutdown" \in s.interrupted[c],
           NEW r, r = ShutdownInLoop(s, c)
    PROVE  /\ Moved(s, r, c) /\ r.process = s.process /\ r.status_ = s.status_
           /\ StackKept(s, r) /\ r.output_buffer_ = s.output_buffer_
           /\ \A d \in Channel : Bytes(r, d) = Bytes(s, d)
<1>0. s \in Net /\ s.status_[c] # "CONNECTIONG"  BY DEF NetIn, Ending
<1>1. CASE IsWriting(s, c)
  <2>1. r = s
    BY <1>1 DEF ShutdownInLoop
  <2>. QED  BY <1>0, <2>1 DEF Moved, Others, StackKept
<1>2. CASE ~IsWriting(s, c)
  <2> DEFINE k == [s.socket[c] EXCEPT !.shut = TRUE]
  <2>1. r = [s EXCEPT !.socket[c] = k]
    BY <1>2 DEF ShutdownInLoop
  <2>2. k \in Socket /\ k.sent = s.socket[c].sent /\ k.shut = TRUE
    <3>1. s.socket[c] \in Socket
      BY <1>0, NetAt
    <3>. QED  BY <3>1 DEF Socket
  <2>. HIDE DEF k
  <2>3. /\ r.table = s.table /\ r.status_ = s.status_ /\ r.output_buffer_ = s.output_buffer_
        /\ r.socket = [s.socket EXCEPT ![c] = k] /\ r.told = s.told
        /\ r.stack = s.stack /\ r.interrupted = s.interrupted
        /\ r.reopened = s.reopened /\ r.process = s.process
        /\ r = [s EXCEPT !.socket = r.socket]
    BY <1>0, <2>1 DEF Net
  <2>13. /\ StackKept(s, r)
         /\ \A d : Held(r, d) = Held(s, d) /\ (Stacked(r, d) <=> Stacked(s, d))
    BY <2>3, StackSame DEF StackKept
  <2>4. r.socket \in [Channel -> Socket]
    BY <1>0, <2>2, <2>3, NetType
  <2>5. r \in Net
    BY <1>0, <2>3, <2>4 DEF Net
  <2>6. \A d \in Channel : r.socket[d] = IF d = c THEN k ELSE s.socket[d]
    BY <1>0, <2>3, NetType
  <2>7. Others(s, r, c)
    BY <2>3, <2>6, <2>13 DEF Others
  <2>8. \A d \in Channel : Bytes(r, d) = Bytes(s, d)
    BY <2>2, <2>3, <2>6, <2>13 DEF Bytes, Line
  <2>9. Connection(r, c)
    <3>1. Connection(s, c)
      BY DEF NetIn
    <3>2. s.output_buffer_[c] = <<>> \/ ClosedIn(s, c)
      BY <1>2, <3>1 DEF Connection, OutputAt
    <3>3. OutputAt(r, c)
      BY <2>3, <2>13, <3>1, <3>2 DEF Connection, OutputAt, IsWriting, ClosedIn
    <3>4. ToldAt(r, c)
      BY <2>3, <3>1 DEF Connection, ToldAt, ClosedIn
    <3>. QED  BY <2>8, <3>1, <3>3, <3>4 DEF Connection
  <2>10. ListIn(r)
    <3>1. ListKept(s, r)
      BY <2>3 DEF ListKept, StatusKept, ClosedIn
    <3>. QED  BY <3>1, ListSame DEF NetIn
  <2>11. Outside(r)
    BY <2>3 DEF NetIn, Outside, ClosedIn, Cut
  <2>12. \A d \in Channel : Connection(r, d)
    BY <2>7, <2>9, OthersKeep DEF NetIn
  <2>. QED
    BY <1>0, <2>3, <2>5, <2>7, <2>8, <2>10, <2>11, <2>12, <2>13 DEF NetIn, Moved
<1>. QED  BY <1>1, <1>2

\* The output, written up to a place.
LEMMA SplitWhole ==
    ASSUME NEW data \in Seq(Byte), NEW n \in 0..Len(data)
    PROVE  /\ SubSeq(data, 1, n) \in Seq(Byte) /\ SubSeq(data, n + 1, Len(data)) \in Seq(Byte)
           /\ SubSeq(data, 1, n) \o SubSeq(data, n + 1, Len(data)) = data
           /\ data = <<>> => SubSeq(data, n + 1, Len(data)) = <<>>
           /\ n = 0 => SubSeq(data, 1, n) = <<>> /\ SubSeq(data, n + 1, Len(data)) = data
           /\ SubSeq(data, n + 1, Len(data)) = <<>> => SubSeq(data, 1, n) = data
<1> DEFINE a == SubSeq(data, 1, n)
           b == SubSeq(data, n + 1, Len(data))
           N == Len(data)
<1>1. N \in Nat /\ n \in Nat /\ n <= N
  OBVIOUS
<1>2. /\ a \in Seq(Byte) /\ Len(a) = n /\ \A i \in 1..n : a[i] = data[i]
      /\ b \in Seq(Byte) /\ Len(b) = N - n /\ \A i \in 1..(N - n) : b[i] = data[n + i]
  BY <1>1
<1>. HIDE DEF a, b
<1>3. /\ a \o b \in Seq(Byte) /\ Len(a \o b) = N
      /\ \A i \in 1..n : (a \o b)[i] = data[i]
      /\ \A i \in 1..(N - n) : (a \o b)[n + i] = data[n + i]
  BY <1>1, <1>2, ConcatProperties
<1>4. \A i \in 1..N : (a \o b)[i] = data[i]
  <2>1. \A i \in 1..N : i \in 1..n \/ (i - n \in 1..(N - n) /\ n + (i - n) = i)
    BY <1>1
  <2>. QED  BY <1>3, <2>1
<1>5. a \o b = data
  BY <1>3, <1>4, SeqEqual
<1>6. data = <<>> => b = <<>>
  BY <1>1, <1>2, EmptySeq
<1>7. n = 0 => a = <<>> /\ b = data
  <2>1. n = 0 => a = <<>>
    BY <1>2, EmptySeq
  <2>2. <<>> \o b = b
    BY <1>2, ConcatEmptySeq
  <2>. QED  BY <1>5, <2>1, <2>2
<1>8. b = <<>> => a = data
  BY <1>2, <1>5, ConcatEmptySeq
<1>. QED
  BY <1>2, <1>5, <1>6, <1>7, <1>8 DEF a, b

\* How much ::write() takes.
LEMMA TakenFacts ==
    ASSUME NEW k \in Socket, NEW data \in Seq(Byte)
    PROVE  /\ Taken(k, data) \in 0..Len(data) /\ Taken(k, data) <= k.room
           /\ WriteResult(k) # "ok" => Taken(k, data) = 0
           /\ WriteResult(k) = "ok" => ~k.shut
<1>1. Len(data) \in Nat /\ k.room \in Nat
  BY SocketType, Bounds
<1>. QED
  BY <1>1 DEF Taken, WriteResult

\* Bytes may be appended in any order.
LEMMA Regrouped ==
    ASSUME NEW x \in Seq(Byte), NEW y \in Seq(Byte), NEW z \in Seq(Byte)
    PROVE  (x \o y) \o z = x \o (y \o z)
BY ConcatAssociative

\* Three assignments to members of one socket.
Assigned(s, c, sent, room, error, process) ==
    [s EXCEPT !.socket[c].sent = sent, !.socket[c].room = room, !.socket[c].error = error,
              !.process = process]

\* What they make of it.
AssignedTo(s, c, sent, process, r) ==
    /\ r \in Net
    /\ r.table = s.table /\ r.status_ = s.status_ /\ r.output_buffer_ = s.output_buffer_
    /\ r.told = s.told /\ r.reopened = s.reopened /\ r.process = process /\ StackKept(s, r)
    /\ \A d \in Channel \ {c} : r.socket[d] = s.socket[d]
    /\ r.socket[c].sent = sent /\ r.socket[c].shut = s.socket[c].shut

\* Such a socket, by its fields.
LEMMA AssignedFields ==
    ASSUME NEW s \in Net, NEW c \in Channel, NEW sent \in Seq(Byte), NEW room \in 0..Room,
           NEW error \in BOOLEAN, NEW process \in {"running", "killed", "undefined"},
           NEW r, r = Assigned(s, c, sent, room, error, process)
    PROVE  AssignedTo(s, c, sent, process, r)
<1> DEFINE w == [s.socket[c] EXCEPT !.sent = sent, !.room = room, !.error = error]
<1>1. r.socket = [s.socket EXCEPT ![c] = w] /\ r.process = process
  BY NetType DEF Net, Assigned
<1>2. /\ r.table = s.table /\ r.status_ = s.status_ /\ r.output_buffer_ = s.output_buffer_
      /\ r.told = s.told /\ r.reopened = s.reopened /\ StackKept(s, r)
  BY DEF Net, Assigned, StackKept
<1>3. r = [s EXCEPT !.socket = r.socket, !.process = r.process]
  BY <1>1 DEF Net, Assigned
<1>4. s.socket \in [Channel -> Socket] /\ s.socket[c] \in Socket
  BY NetType
<1>5. w \in Socket /\ w.sent = sent /\ w.shut = s.socket[c].shut
  BY <1>4 DEF Socket
<1>. HIDE DEF w
<1>6. /\ r.socket \in [Channel -> Socket]
      /\ \A d \in Channel : r.socket[d] = IF d = c THEN w ELSE s.socket[d]
  BY <1>1, <1>4, <1>5
<1>7. r \in Net
  BY <1>1, <1>3, <1>6 DEF Net
<1>. QED  BY <1>1, <1>2, <1>5, <1>6, <1>7 DEF AssignedTo

\* Written() by its fields.
Wrote(s, c, data, r) ==
    /\ r \in Net
    /\ r.table = s.table /\ r.status_ = s.status_ /\ r.output_buffer_ = s.output_buffer_
    /\ r.told = s.told /\ r.reopened = s.reopened /\ StackKept(s, r)
    /\ r.process \in {s.process, "killed"}
    /\ WriteResult(s.socket[c]) = "ok" => r.process = s.process
    /\ \A d \in Channel \ {c} : r.socket[d] = s.socket[d]
    /\ r.socket[c].sent = s.socket[c].sent \o SubSeq(data, 1, Taken(s.socket[c], data))
    /\ r.socket[c].shut = s.socket[c].shut

\* ::write() takes what the kernel has room for, from the front.
LEMMA WrittenFields ==
    ASSUME NEW s \in Net, NEW c \in Channel, NEW data \in Seq(Byte), NEW r, r = Written(s, c, data)
    PROVE  Wrote(s, c, data, r)
<1> DEFINE k == s.socket[c]
           n == Taken(k, data)
           sent == k.sent \o SubSeq(data, 1, n)
           room == k.room - n
           error == k.error /\ WriteResult(k) # "error"
           process == IF WriteResult(k) = "SIGPIPE" THEN "killed" ELSE s.process
<1>1. k \in Socket
  BY NetType
<1>2. r = Assigned(s, c, sent, room, error, process)
  BY <1>1, NetType, SocketType DEF Written, Net, Socket, Assigned
<1>3. n \in 0..Len(data) /\ n <= k.room /\ k.sent \in Seq(Byte) /\ k.room \in 0..Room
  BY <1>1, TakenFacts, SocketType
<1>4. sent \in Seq(Byte)
  <2>1. SubSeq(data, 1, n) \in Seq(Byte)
    BY <1>3, SplitWhole
  <2>. QED  BY <1>3, <2>1, ConcatProperties
<1>5. room \in 0..Room
  <2>. HIDE DEF n
  <2>1. n \in Nat /\ k.room \in Nat /\ Room \in Nat
    BY <1>3, Bounds
  <2>. HIDE DEF k
  <2>. QED  BY <1>3, <2>1
<1>6. error \in BOOLEAN
  BY <1>1, SocketType
<1>7. /\ process \in {s.process, "killed"}
      /\ WriteResult(k) = "ok" => process = s.process
  OBVIOUS
<1>9. process \in {"running", "killed", "undefined"}
  BY NetType
<1>. HIDE DEF sent, room, error, process
<1>8. AssignedTo(s, c, sent, process, r)
  BY <1>2, <1>4, <1>5, <1>6, <1>9, AssignedFields
<1>. QED
  BY <1>7, <1>8 DEF sent, Wrote, AssignedTo

\* A channel asks for just these events.
Asks(t, c, events) == UpdateChannel([t EXCEPT !.interested_event_[c] = events], c)

\* u is t with these events for c: a live list stays live if c is in channels_.
Asked(t, S, c, events, u) ==
    /\ u \in Table /\ u.fd_ = t.fd_ /\ u.channels_ = t.channels_
    /\ u.interested_event_[c] = events
    /\ \A d \in Channel \ {c} : u.interested_event_[d] = t.interested_event_[d]
    /\ Entries(u, S)
    /\ Live(t) /\ (events = {} \/ t.channels_[t.fd_[c]] # NoChannel) => Live(u)
    /\ Full(t, S) => Full(u, S)

\* The list stays in order when a channel changes what it asks for.
LEMMA EventsMoved ==
    ASSUME NEW t \in Table, NEW S \in SUBSET Channel, Entries(t, S), NEW c \in S,
           NEW events \in SUBSET Event, NEW u, u = Asks(t, c, events)
    PROVE  Asked(t, S, c, events, u)
<1> DEFINE v == [t EXCEPT !.interested_event_[c] = events]
<1>1. /\ v \in Table
      /\ v.pollfds_ = t.pollfds_ /\ v.channels_ = t.channels_ /\ v.fd_ = t.fd_
      /\ v.interested_event_ = [t.interested_event_ EXCEPT ![c] = events]
      /\ v.poll_index_ = t.poll_index_
  BY InterestFields
<1>. HIDE DEF v
<1>2. Entries(v, S) /\ (Live(t) => Live(v)) /\ (Full(t, S) => Full(v, S))
  BY <1>1 DEF Entries, Live, Full
<1>3. v.interested_event_[c] = events
  BY <1>1, TableType
<1>4. v.poll_index_[c] \in Int /\ v.poll_index_[c] >= 0
  BY <1>1, <1>2, TableType DEF Entries
<1>5. u = Rewritten(v, c)
  BY <1>4 DEF Asks, UpdateChannel, v
<1>6. /\ u \in Table
      /\ u.fd_ = v.fd_ /\ u.interested_event_ = v.interested_event_
      /\ u.channels_ = v.channels_ /\ u.poll_index_ = v.poll_index_
  BY <1>1, <1>5, RewrittenFields
<1>7. /\ Entries(u, S)
      /\ Live(v) /\ (v.interested_event_[c] = {} \/ v.channels_[v.fd_[c]] # NoChannel) => Live(u)
      /\ Full(v, S) => Full(u, S)
  BY <1>1, <1>2, <1>5, RewrittenKeeps
<1>8. v.interested_event_ \in [Channel -> SUBSET Event]
      /\ \A d \in Channel \ {c} : v.interested_event_[d] = t.interested_event_[d]
  BY <1>1, TableType
<1>. QED
  BY <1>1, <1>2, <1>3, <1>6, <1>7, <1>8 DEF Asked

\* A connection may ask for events.
MayAsk(s, c) ==
    s.status_[c] # "CONNECTIONG" /\ (s.status_[c] \in Up \/ s.process # "running" \/ Cut(s))

\* It has asked for these.
HasAsked(s, r, c, events) ==
    /\ ListIn(r) /\ r.table \in Table
    /\ r.table.interested_event_[c] = events
    /\ \A d \in Channel \ {c} :
           r.table.interested_event_[d] = s.table.interested_event_[d]

\* What EventsMoved says of the list.
LEMMA EventsListed ==
    ASSUME NEW s, NetIn(s), NEW c \in Channel, MayAsk(s, c), NEW events \in SUBSET Event,
           NEW r, StatusKept(s, r), r.table = Asks(s.table, c, events)
    PROVE  HasAsked(s, r, c, events)
<1> DEFINE t == s.table
           u == r.table
           S == Begun(s)
<1>1. t \in Table /\ ListIn(s)
  BY NetType DEF NetIn
<1>2. c \in S /\ S \in SUBSET Channel /\ Entries(t, S)
  BY <1>1 DEF Begun, ListIn, MayAsk
<1>3. Asked(t, S, c, events, u)
  <2>1. u = Asks(t, c, events)
    OBVIOUS
  <2>. HIDE DEF S, t, u
  <2>. QED  BY <1>1, <1>2, <2>1, EventsMoved
<1>4. Begun(r) = S
  BY DEF Begun, StatusKept
<1>. HIDE DEF t, u, S
<1>5. ASSUME r.process = "running"
      PROVE  \A d \in Channel \ r.reopened : Mapped(u, d) <=> r.status_[d] \in Up
  <2>1. \A d \in Channel \ s.reopened : Mapped(t, d) <=> s.status_[d] \in Up
    BY <1>1, <1>5 DEF ListIn, StatusKept, t
  <2>2. \A d \in Channel : Mapped(u, d) <=> Mapped(t, d)
    BY <1>3 DEF Asked, Mapped
  <2>. QED  BY <2>1, <2>2 DEF StatusKept
<1>6. ASSUME r.process = "running", r.reopened = {}, ~Cut(r) PROVE Live(u)
  <2>1. s.process = "running" /\ s.reopened = {} /\ ~Cut(s) /\ Live(t)
    BY <1>1, <1>6 DEF ListIn, StatusKept, Cut, t
  <2>2. s.status_[c] \in Up => t.channels_[t.fd_[c]] # NoChannel
    <3>1. s.status_[c] \in Up => Mapped(t, c)
      BY <1>1, <2>1 DEF ListIn, t
    <3>. QED  BY <3>1, ChannelAssumption DEF Mapped
  <2>. QED  BY <1>3, <2>1, <2>2 DEF Asked, MayAsk
<1>7. (\A d \in Channel : ~ClosedIn(r, d)) => Full(u, S)
  <2>1. (\A d \in Channel : ~ClosedIn(r, d)) => \A d \in Channel : ~ClosedIn(s, d)
    BY DEF StatusKept
  <2>2. (\A d \in Channel : ~ClosedIn(s, d)) => Full(t, S)
    BY <1>1 DEF ListIn, t, S
  <2>. QED  BY <1>3, <2>1, <2>2 DEF Asked
<1>8. ListIn(r)
  BY <1>3, <1>4, <1>5, <1>6, <1>7 DEF Asked, ListIn, u
<1>. QED  BY <1>3, <1>8 DEF Asked, HasAsked, t, u

\* WRITEEVENT is no longer asked for.
LEMMA QuietListed ==
    ASSUME NEW s, NetIn(s), NEW c \in Channel, s.status_[c] # "CONNECTIONG",
           s.status_[c] \in Up \/ s.process # "running" \/ Cut(s),
           NEW r, StatusKept(s, r), r.table = Enable(s.table, c, WRITEEVENT, FALSE)
    PROVE  /\ ListIn(r) /\ r.table \in Table /\ ~IsWriting(r, c)
           /\ \A d \in Channel \ {c} :
                  r.table.interested_event_[d] = s.table.interested_event_[d]
<1> DEFINE events == s.table.interested_event_[c] \ {WRITEEVENT}
<1>1. s.table \in Table
  BY NetType DEF NetIn
<1>2. r.table = Asks(s.table, c, events) /\ events \in SUBSET Event
  BY <1>1, TableType DEF Enable, Asks, Event, Table
<1>3. WRITEEVENT \notin events
  OBVIOUS
<1>. HIDE DEF events
<1>4. MayAsk(s, c)
  BY DEF MayAsk
<1>5. HasAsked(s, r, c, events)
  BY <1>2, <1>4, EventsListed
<1>. QED  BY <1>3, <1>5 DEF HasAsked, IsWriting

\* What waits to be written and the list are replaced.
Put(s, c, output, table) == [s EXCEPT !.output_buffer_[c] = output, !.table = table]

\* Such a step, by its fields.
LEMMA PutFields ==
    ASSUME NEW s \in Net, NEW c \in Channel, NEW output \in Seq(Byte), NEW table \in Table,
           NEW r, r = Put(s, c, output, table)
    PROVE  /\ r \in Net
           /\ r.table = table /\ r.status_ = s.status_ /\ r.socket = s.socket
           /\ r.told = s.told /\ r.reopened = s.reopened /\ r.process = s.process
           /\ StackKept(s, r)
           /\ \A d \in Channel : r.output_buffer_[d] = IF d = c THEN output
                                                       ELSE s.output_buffer_[d]
<1>1. /\ r.table = table /\ r.status_ = s.status_ /\ r.socket = s.socket
      /\ r.told = s.told /\ r.reopened = s.reopened /\ r.process = s.process
      /\ r.output_buffer_ = [s.output_buffer_ EXCEPT ![c] = output]
      /\ StackKept(s, r)
  BY DEF Put, Net, StackKept
<1>2. r = [s EXCEPT !.output_buffer_ = r.output_buffer_, !.table = table]
  BY <1>1 DEF Put, Net
<1>3. s.output_buffer_ \in [Channel -> Seq(Byte)]
  BY NetType
<1>4. r.output_buffer_ \in [Channel -> Seq(Byte)]
  BY <1>1, <1>3
<1>5. r \in Net
  BY <1>1, <1>2, <1>4 DEF Net
<1>. QED  BY <1>1, <1>3, <1>5

\* A write to the socket and what it leaves of the output, in all: s is before, r
\* after it.  Either all bytes are where they were, or data has come to their end.
LEMMA OutputMoved ==
    ASSUME NEW s, NetIn(s), NEW c \in Channel, s.status_[c] # "CONNECTIONG",
           NEW r \in Net, ListIn(r),
           r.status_ = s.status_, r.told = s.told, r.reopened = s.reopened,
           r.interrupted = s.interrupted, r.process \in {s.process, "killed"},
           \A d \in Channel \ {c} :
               /\ r.output_buffer_[d] = s.output_buffer_[d] /\ r.socket[d] = s.socket[d]
               /\ r.table.interested_event_[d] = s.table.interested_event_[d]
               /\ Held(r, d) = Held(s, d) /\ (Stacked(r, d) <=> Stacked(s, d)),
           OutputAt(r, c), Whole(Bytes(r, c))
    PROVE  Moved(s, r, c)
<1>1. Others(s, r, c)
  BY DEF Others
<1>2. ToldAt(r, c)
  BY DEF NetIn, Connection, ToldAt, ClosedIn
<1>3. \A d \in Channel : Connection(r, d)
  <2>1. Connection(r, c)
    BY <1>2 DEF Connection
  <2>. QED  BY <1>1, <2>1, OthersKeep DEF NetIn
<1>4. Outside(r)
  BY DEF NetIn, Outside, ClosedIn, Cut
<1>. QED
  BY <1>1, <1>3, <1>4 DEF Moved, NetIn

\* One method after the other.
LEMMA MovedTwice ==
    ASSUME NEW s, NEW r, NEW q, NEW c \in Channel, Moved(s, r, c), Moved(r, q, c)
    PROVE  Moved(s, q, c)
<1>1. Others(s, q, c)
  BY DEF Moved, Others
<1>. QED  BY <1>1 DEF Moved

\* A callback is made; what it keeps from the output is data.
Calls(s, c, then, data, r) ==
    /\ r \in Net
    /\ r.table = s.table /\ r.status_ = s.status_ /\ r.output_buffer_ = s.output_buffer_
    /\ r.socket = s.socket /\ r.told = s.told /\ r.interrupted = s.interrupted
    /\ r.reopened = s.reopened /\ r.process = s.process
    /\ r.stack = <<[then |-> then, conn |-> c, data |-> data]>> \o s.stack
    /\ Held(r, c) = data
    /\ Stacked(r, c) <=> Stacked(s, c) \/ data # <<>>
    /\ \A d \in Channel \ {c} : Held(r, d) = Held(s, d) /\ (Stacked(r, d) <=> Stacked(s, d))

\* The new frame is the innermost.
LEMMA CallFields ==
    ASSUME NEW s \in Net, NEW c \in Channel, \A i \in 1..Len(s.stack) : s.stack[i].conn = c,
           NEW then \in {"return", "append", "shutdown"}, NEW data \in Seq(Byte),
           NEW r, r = RunCallback(s, c, then, data)
    PROVE  Calls(s, c, then, data, r)
<1>. DEFINE f == [then |-> then, conn |-> c, data |-> data]
            z == s.stack
            y == <<f>> \o z
<1>1. f \in Frame /\ z \in Seq(Frame)
  BY NetType DEF Frame
<1>2. f.conn = c /\ f.data = data
  OBVIOUS
<1>3. r = [s EXCEPT !.stack = y]
  BY DEF RunCallback
<1>4. \A i \in 1..Len(z) : z[i].conn = c
  OBVIOUS
<1>. HIDE DEF f, z
<1>5. <<f>> \in Seq(Frame) /\ Len(<<f>>) = 1 /\ <<f>>[1] = f
  BY <1>1
<1>6. /\ y \in Seq(Frame) /\ Len(y) = 1 + Len(z) /\ Len(z) \in Nat
      /\ y[1] = f /\ \A i \in 1..Len(z) : y[1 + i] = z[i]
  BY <1>1, <1>5, ConcatProperties
<1>. HIDE DEF y
<1>7. y # <<>> /\ Head(y) = f
  BY <1>6
<1>8. /\ r.table = s.table /\ r.status_ = s.status_ /\ r.output_buffer_ = s.output_buffer_
      /\ r.socket = s.socket /\ r.told = s.told /\ r.interrupted = s.interrupted
      /\ r.reopened = s.reopened /\ r.process = s.process /\ r.stack = y
  BY <1>3 DEF Net
<1>9. r \in Net
  BY <1>3, <1>6 DEF Net
<1>10. Held(r, c) = data /\ \A d \in Channel \ {c} : Held(r, d) = <<>>
  BY <1>2, <1>7, <1>8 DEF Held
<1>11. z # <<>> => Head(z).conn = c
  <2>1. z # <<>> => Len(z) # 0
    BY <1>1, EmptySeq
  <2>2. z # <<>> => 1 \in 1..Len(z) /\ Head(z) = z[1]
    BY <1>1, <1>6, <2>1
  <2>. QED  BY <1>4, <2>2
<1>12. \A d \in Channel \ {c} : Held(s, d) = <<>>
  BY <1>11 DEF Held, z
<1>13. \A i \in 1..Len(y) : i = 1 \/ (i - 1 \in 1..Len(z) /\ y[i] = z[i - 1])
  <2>1. \A i \in 1..Len(y) : i = 1 \/ (i - 1 \in 1..Len(z) /\ 1 + (i - 1) = i)
    BY <1>6
  <2>. QED  BY <1>6, <2>1
<1>14. 1 \in 1..Len(y) /\ \A i \in 1..Len(z) : 1 + i \in 1..Len(y)
  BY <1>6
<1>15. \A i \in 1..Len(y) : y[i].conn = c
  BY <1>2, <1>4, <1>6, <1>13
<1>16. \A d \in Channel \ {c} : ~Stacked(r, d) /\ ~Stacked(s, d)
  BY <1>4, <1>8, <1>15 DEF Stacked, z
<1>17. Stacked(r, c) <=> Stacked(s, c) \/ data # <<>>
  <2>1. Stacked(r, c) <=> \E i \in 1..Len(y) : y[i].data # <<>>
    BY <1>8, <1>15 DEF Stacked
  <2>2. Stacked(s, c) <=> \E i \in 1..Len(z) : z[i].data # <<>>
    BY <1>4 DEF Stacked, z
  <2>3. ASSUME NEW i \in 1..Len(y), y[i].data # <<>>
        PROVE  data # <<>> \/ \E j \in 1..Len(z) : z[j].data # <<>>
    <3>1. CASE i = 1
      BY <1>2, <1>6, <2>3, <3>1
    <3>2. CASE i # 1
      <4>1. i - 1 \in 1..Len(z) /\ z[i - 1].data # <<>>
        BY <1>13, <2>3, <3>2
      <4>. QED  BY <4>1
    <3>. QED  BY <3>1, <3>2
  <2>4. ASSUME NEW j \in 1..Len(z), z[j].data # <<>> PROVE \E i \in 1..Len(y) : y[i].data # <<>>
    <3>1. 1 + j \in 1..Len(y) /\ y[1 + j].data # <<>>
      BY <1>6, <1>14, <2>4
    <3>. QED  BY <3>1
  <2>5. data # <<>> => \E i \in 1..Len(y) : y[i].data # <<>>
    <3>1. y[1].data = data
      BY <1>2, <1>6
    <3>. QED  BY <1>14, <3>1
  <2>. QED  BY <2>1, <2>2, <2>3, <2>4, <2>5
<1>. QED
  BY <1>8, <1>9, <1>10, <1>12, <1>16, <1>17 DEF Calls, y, z, f

\* A callback that keeps nothing from the output.
LEMMA CallMoves ==
    ASSUME NEW s, NetIn(s), NEW c \in Channel, s.status_[c] # "CONNECTIONG", Callable(s, c),
           NEW then \in {"return", "shutdown"}, NEW r, r = RunCallback(s, c, then, <<>>)
    PROVE  Moved(s, r, c) /\ Bytes(r, c) = Bytes(s, c) /\ Calls(s, c, then, <<>>, r)
<1>1. s \in Net /\ ListIn(s) /\ Connection(s, c) /\ <<>> \in Seq(Byte)
  BY DEF NetIn
<1>2. Calls(s, c, then, <<>>, r)
  BY <1>1, CallFields DEF Callable
<1>3. /\ r \in Net
      /\ r.table = s.table /\ r.status_ = s.status_ /\ r.output_buffer_ = s.output_buffer_
      /\ r.socket = s.socket /\ r.told = s.told /\ r.interrupted = s.interrupted
      /\ r.reopened = s.reopened /\ r.process = s.process
      /\ Held(r, c) = <<>> /\ (Stacked(r, c) <=> Stacked(s, c))
      /\ \A d \in Channel \ {c} : Held(r, d) = Held(s, d) /\ (Stacked(r, d) <=> Stacked(s, d))
  BY <1>2 DEF Calls
<1>4. Bytes(r, c) = Bytes(s, c)
  BY <1>1, <1>3, BytesPlain DEF Callable
<1>5. ListIn(r)
  <2>1. ListKept(s, r)
    BY <1>3 DEF ListKept, StatusKept, ClosedIn
  <2>. QED  BY <1>1, <2>1, ListSame
<1>6. OutputAt(r, c)
  BY <1>1, <1>3 DEF Connection, OutputAt, IsWriting, ClosedIn
<1>7. Whole(Bytes(r, c))
  BY <1>1, <1>4 DEF Connection
<1>8. Moved(s, r, c)
  BY <1>3, <1>5, <1>6, <1>7, OutputMoved
<1>. QED  BY <1>2, <1>4, <1>8

\* What a write left is kept: w is s but for the socket and the callbacks under way.
KeptFrom(s, c, w, data, r) ==
    /\ r \in Net /\ ListIn(r) /\ IsWriting(r, c)
    /\ r.status_ = s.status_ /\ r.told = s.told /\ r.reopened = s.reopened
    /\ r.interrupted = s.interrupted /\ r.process = s.process
    /\ r.socket = w.socket /\ r.stack = w.stack
    /\ \A d \in Channel : r.output_buffer_[d] = IF d = c THEN w.output_buffer_[c] \o data
                                                ELSE w.output_buffer_[d]
    /\ \A d \in Channel \ {c} : r.table.interested_event_[d] = s.table.interested_event_[d]

LEMMA KeptFields ==
    ASSUME NEW s, NetIn(s), NEW c \in Channel, s.status_[c] # "CONNECTIONG",
           s.status_[c] = "DISCONNECTED" => Cut(s),
           NEW w \in Net, w.table = s.table, w.status_ = s.status_, w.told = s.told,
           w.reopened = s.reopened, w.interrupted = s.interrupted, w.process = s.process,
           NEW data \in Seq(Byte), NEW r, r = Kept(w, c, data)
    PROVE  KeptFrom(s, c, w, data, r)
<1>. DEFINE u == IF IsWriting(w, c) THEN s.table ELSE Enable(s.table, c, WRITEEVENT, TRUE)
            events == s.table.interested_event_[c] \cup {WRITEEVENT}
            out == w.output_buffer_[c] \o data
<1>1. s \in Net /\ ListIn(s) /\ s.table \in Table
  BY NetType DEF NetIn
<1>2. out \in Seq(Byte)
  BY NetAt, ConcatProperties
<1>3. r = Put(w, c, out, u)
  <2>1. r = [w EXCEPT !.output_buffer_[c] = @ \o data,
                      !.table = IF IsWriting(w, c) THEN @ ELSE Enable(@, c, WRITEEVENT, TRUE)]
    BY DEF Kept
  <2>. QED  BY <2>1 DEF Put, Net
<1>. HIDE DEF out
<1>4. /\ r.status_ = s.status_ /\ r.told = s.told /\ r.reopened = s.reopened
      /\ r.interrupted = s.interrupted /\ r.process = s.process /\ r.table = u
  BY <1>3 DEF Put, Net
<1>5. StatusKept(s, r)
  BY <1>4 DEF StatusKept, ClosedIn
<1>6. /\ ListIn(r) /\ r.table \in Table /\ IsWriting(r, c)
      /\ \A d \in Channel \ {c} : r.table.interested_event_[d] = s.table.interested_event_[d]
  <2>1. CASE IsWriting(w, c)
    <3>1. r.table = s.table
      BY <1>4, <2>1
    <3>2. ListKept(s, r)
      BY <1>5, <3>1 DEF ListKept
    <3>3. ListIn(r)
      BY <1>1, <3>2, ListSame
    <3>. QED  BY <1>1, <2>1, <3>1, <3>3 DEF IsWriting
  <2>2. CASE ~IsWriting(w, c)
    <3>1. r.table = Asks(s.table, c, events) /\ events \in SUBSET Event
      <4>1. r.table = Enable(s.table, c, WRITEEVENT, TRUE)
        BY <1>4, <2>2
      <4>. QED  BY <1>1, <4>1, TableType DEF Enable, Asks, Event, Table
    <3>. HIDE DEF events, u
    <3>2. MayAsk(s, c)
      BY <1>1, NetAt DEF Status, Up, MayAsk
    <3>3. HasAsked(s, r, c, events)
      BY <1>5, <3>1, <3>2, EventsListed
    <3>. QED  BY <3>3 DEF IsWriting, HasAsked, events
  <2>. QED  BY <2>1, <2>2
<1>. HIDE DEF u
<1>7. /\ r \in Net /\ r.socket = w.socket /\ StackKept(w, r)
      /\ \A d \in Channel : r.output_buffer_[d] = IF d = c THEN out ELSE w.output_buffer_[d]
  BY <1>2, <1>3, <1>4, <1>6, PutFields
<1>. QED
  BY <1>4, <1>6, <1>7 DEF KeptFrom, StackKept, out

\* What SendInLoop() makes of the callbacks under way and of the output, if it calls.
SentTo(s, c, r) ==
    \/ r.stack = s.stack
    \/ \E then \in {"return", "append"}, data \in Seq(Byte) :
           /\ r.stack = <<[then |-> then, conn |-> c, data |-> data]>> \o s.stack
           /\ then # "append" => data = <<>>
           /\ then = "append" => s.status_[c] # "DISCONNECTED"
           /\ r.output_buffer_[c] = <<>>

\* SendInLoop() of a message that is newer than those that are there.
LEMMA SendMoves ==
    ASSUME NEW s, NetIn(s), NEW c \in Channel, s.status_[c] # "CONNECTIONG", Callable(s, c),
           NEW data, NEW t \in Thread \cup {Loop}, NEW m \in 1..MaxMessage, IsMessage(data, t, m),
           Before(Bytes(s, c), t, m),
           NEW r, r = SendInLoop(s, c, data)
    PROVE  /\ Moved(s, r, c) /\ r.status_ = s.status_ /\ r.process \in {s.process, "killed"}
           /\ Bytes(r, c) \in {Bytes(s, c), Bytes(s, c) \o data, <<>>}
           /\ SentTo(s, c, r)
<1> DEFINE k == s.socket[c]
           out == s.output_buffer_[c]
           n == Taken(k, data)
           part == SubSeq(data, 1, n)
           rest == SubSeq(data, n + 1, Len(data))
           w == Written(s, c, data)
           mute == "Send" \in s.interrupted[c]
<1>1. s \in Net /\ ListIn(s) /\ Connection(s, c)
  BY DEF NetIn
<1>2. k \in Socket /\ out \in Seq(Byte) /\ k.sent \in Seq(Byte) /\ data \in Seq(Byte)
  BY <1>1, NetAt, MessageBytes
<1>3. Whole(Bytes(s, c)) /\ Whole(Bytes(s, c) \o data) /\ Whole(<<>>)
  <2>1. Bytes(s, c) \in Seq(Byte) /\ Whole(Bytes(s, c))
    BY <1>1, NetAt DEF Connection
  <2>2. Whole(<<>>)
    BY DEF Whole
  <2>. QED  BY <2>1, <2>2, WholeAppend
<1>5. /\ w \in Net
      /\ w.table = s.table /\ w.status_ = s.status_ /\ w.output_buffer_ = s.output_buffer_
      /\ w.told = s.told /\ w.reopened = s.reopened
      /\ w.stack = s.stack /\ w.interrupted = s.interrupted
      /\ w.process \in {s.process, "killed"}
      /\ \A d \in Channel \ {c} : w.socket[d] = s.socket[d]
      /\ w.socket[c].sent = k.sent \o part
      /\ w.socket[c].shut = k.shut
      /\ WriteResult(k) = "ok" => w.process = s.process
  <2>1. w = Written(s, c, data)
    OBVIOUS
  <2>. HIDE DEF w
  <2>2. Wrote(s, c, data, w)
    BY <1>1, <1>2, <2>1, WrittenFields
  <2>. QED  BY <2>2 DEF Wrote, StackKept
<1>6. /\ n \in 0..Len(data) /\ (WriteResult(k) # "ok" => n = 0)
      /\ (WriteResult(k) = "ok" => ~k.shut)
  BY <1>2, TakenFacts
<1>7. /\ part \in Seq(Byte) /\ rest \in Seq(Byte)
      /\ part \o rest = data
      /\ n = 0 => part = <<>>
      /\ rest = <<>> => part = data
  BY <1>2, <1>6, SplitWhole
<1>8. CASE s.status_[c] = "DISCONNECTED" \/ ~Direct(s, c)
  <2>1. r = s
    BY <1>8 DEF SendInLoop
  <2>. QED  BY <2>1 DEF Moved, Others, SentTo
<1>. DEFINE going == s.status_[c] # "DISCONNECTED" /\ Direct(s, c)
<1>9. ASSUME going
      PROVE  /\ out = <<>> /\ Held(w, c) = Held(s, c)
             /\ Bytes(s, c) = IF mute THEN <<>> ELSE k.sent
             /\ \A d : Held(w, d) = Held(s, d) /\ (Stacked(w, d) <=> Stacked(s, d))
  <2>. HIDE DEF w
  <2>1. out = <<>> /\ k.sent \o out = k.sent
    BY <1>2, <1>9, ConcatEmptySeq DEF Direct
  <2>2. Bytes(s, c) = IF mute THEN <<>> ELSE k.sent \o out
    BY <1>1, BytesPlain DEF Callable
  <2>3. StackKept(s, w)
    BY <1>5 DEF StackKept
  <2>4. \A d : Held(w, d) = Held(s, d) /\ (Stacked(w, d) <=> Stacked(s, d))
    BY <2>3, StackSame
  <2>. QED  BY <2>1, <2>2, <2>4
<1>10. ASSUME going, WriteResult(k) # "ok" \/ rest = <<>>
       PROVE  /\ Moved(s, w, c) /\ Callable(w, c)
              /\ Bytes(w, c) \in {Bytes(s, c), Bytes(s, c) \o data, <<>>}
  <2>. HIDE DEF w, rest, n
  <2>1. w.socket[c].sent \in {k.sent, k.sent \o data}
    <3>1. k.sent \o <<>> = k.sent
      BY <1>2, ConcatEmptySeq
    <3>. QED  BY <1>5, <1>6, <1>7, <1>10, <3>1
  <2>2. /\ out = <<>> /\ Held(w, c) = Held(s, c)
        /\ Bytes(s, c) = IF mute THEN <<>> ELSE k.sent
        /\ \A d : Held(w, d) = Held(s, d) /\ (Stacked(w, d) <=> Stacked(s, d))
    BY <1>9, <1>10
  <2>3. Callable(w, c)
    BY <1>5, <2>2 DEF Callable
  <2>4. Bytes(w, c) = IF mute THEN <<>> ELSE w.socket[c].sent
    <3>1. w.output_buffer_[c] = <<>> /\ w.socket[c].sent \in Seq(Byte)
      BY <1>5, <2>2, NetAt
    <3>2. w.socket[c].sent \o <<>> = w.socket[c].sent
      BY <3>1, ConcatEmptySeq
    <3>3. Bytes(w, c) = IF "Send" \in w.interrupted[c] THEN <<>>
                        ELSE w.socket[c].sent \o w.output_buffer_[c]
      BY <1>5, <2>3, BytesPlain DEF Callable
    <3>. QED  BY <1>5, <3>1, <3>2, <3>3
  <2>5. Bytes(w, c) \in {Bytes(s, c), Bytes(s, c) \o data, <<>>}
    BY <2>1, <2>2, <2>4
  <2>6. Whole(Bytes(w, c))
    BY <1>3, <2>5
  <2>7. ListIn(w)
    <3>1. ListKept(s, w)
      BY <1>5 DEF ListKept, StatusKept, ClosedIn
    <3>. QED  BY <1>1, <3>1, ListSame
  <2>8. OutputAt(w, c)
    BY <1>1, <1>5, <2>2 DEF Connection, OutputAt, IsWriting, ClosedIn
  <2>9. Moved(s, w, c)
    BY <1>5, <2>2, <2>6, <2>7, <2>8, OutputMoved
  <2>. QED  BY <2>3, <2>5, <2>9
<1>11. CASE going /\ WriteResult(k) # "ok"
  <2>1. r = w
    BY <1>11 DEF SendInLoop
  <2>. QED  BY <1>5, <1>10, <1>11, <2>1 DEF SentTo
<1>12. CASE going /\ WriteResult(k) = "ok" /\ rest = <<>>
  <2>1. r = RunCallback(w, c, "return", <<>>)
    BY <1>12 DEF SendInLoop
  <2>. HIDE DEF w, rest, n
  <2>2. NetIn(w) /\ Moved(s, w, c) /\ Callable(w, c) /\ w.status_[c] # "CONNECTIONG"
        /\ Bytes(w, c) \in {Bytes(s, c), Bytes(s, c) \o data, <<>>}
    BY <1>5, <1>10, <1>12 DEF Moved
  <2>3. Moved(w, r, c) /\ Bytes(r, c) = Bytes(w, c) /\ Calls(w, c, "return", <<>>, r)
    BY <2>1, <2>2, CallMoves
  <2>4. Moved(s, r, c)
    BY <2>2, <2>3, MovedTwice
  <2>5. /\ r.status_ = s.status_ /\ r.process \in {s.process, "killed"}
        /\ r.stack = <<[then |-> "return", conn |-> c, data |-> <<>>]>> \o s.stack
        /\ r.output_buffer_[c] = <<>> /\ <<>> \in Seq(Byte)
    BY <1>5, <1>9, <1>12, <2>3 DEF Calls
  <2>6. SentTo(s, c, r)
    BY <2>5 DEF SentTo
  <2>. QED  BY <2>2, <2>3, <2>4, <2>5, <2>6
<1>13. ASSUME going, WriteResult(k) = "ok", rest # <<>>,
              NEW line, line = (k.sent \o part) \o rest
       PROVE  (IF mute THEN <<>> ELSE line) \in {Bytes(s, c), Bytes(s, c) \o data, <<>>}
  <2>1. (k.sent \o part) \o rest = k.sent \o (part \o rest)
    <3>. DEFINE x == k.sent
                y == part
    <3>1. x \in Seq(Byte) /\ y \in Seq(Byte) /\ rest \in Seq(Byte)
      BY <1>2, <1>7
    <3>. HIDE DEF x, y, rest
    <3>2. (x \o y) \o rest = x \o (y \o rest)
      BY <3>1, Regrouped
    <3>. QED  BY <3>2 DEF x, y
  <2>2. line = k.sent \o data
    BY <1>7, <1>13, <2>1
  <2>3. Bytes(s, c) = IF mute THEN <<>> ELSE k.sent
    BY <1>9, <1>13
  <2>. QED  BY <2>2, <2>3
<1>14. CASE going /\ WriteResult(k) = "ok" /\ rest # <<>> /\ Len(rest) >= highwater_mark_
  <2>1. r = RunCallback(w, c, "append", rest)
    BY <1>14 DEF SendInLoop
  <2>. HIDE DEF w, rest, n, part
  <2>2. Calls(w, c, "append", rest, r)
    BY <1>5, <1>7, <2>1, CallFields DEF Callable
  <2>3. /\ r \in Net
        /\ r.table = s.table /\ r.status_ = s.status_ /\ r.output_buffer_ = s.output_buffer_
        /\ r.socket = w.socket /\ r.told = s.told /\ r.interrupted = s.interrupted
        /\ r.reopened = s.reopened /\ r.process = s.process
        /\ r.stack = <<[then |-> "append", conn |-> c, data |-> rest]>> \o s.stack
        /\ Held(r, c) = rest
        /\ \A d \in Channel \ {c} : Held(r, d) = Held(s, d) /\ (Stacked(r, d) <=> Stacked(s, d))
    <3>1. \A d : Held(w, d) = Held(s, d) /\ (Stacked(w, d) <=> Stacked(s, d))
      BY <1>9, <1>14
    <3>2. w.process = s.process
      BY <1>5, <1>14
    <3>. QED  BY <1>5, <2>2, <3>1, <3>2 DEF Calls
  <2>4. out = <<>> /\ r.output_buffer_[c] = <<>>
    BY <1>9, <1>14, <2>3
  <2>5. Line(r, c) = (k.sent \o part) \o rest
    <3>1. Line(r, c) = ((k.sent \o part) \o rest) \o <<>>
      BY <1>5, <2>3, <2>4 DEF Line
    <3>2. (k.sent \o part) \o rest \in Seq(Byte)
      BY <1>2, <1>7, ConcatProperties
    <3>. QED  BY <3>1, <3>2, ConcatEmptySeq
  <2>6. Bytes(r, c) \in {Bytes(s, c), Bytes(s, c) \o data, <<>>}
    <3>1. Bytes(r, c) = IF mute THEN <<>> ELSE Line(r, c)
      BY <2>3 DEF Bytes
    <3>. QED  BY <1>13, <1>14, <2>5, <3>1
  <2>7. Whole(Bytes(r, c))
    BY <1>3, <2>6
  <2>8. ListIn(r)
    <3>1. ListKept(s, r)
      BY <2>3 DEF ListKept, StatusKept, ClosedIn
    <3>. QED  BY <1>1, <3>1, ListSame
  <2>9. OutputAt(r, c)
    <3>1. ~r.socket[c].shut
      BY <1>5, <1>6, <1>14, <2>3
    <3>. QED  BY <1>14, <2>3, <2>4, <3>1 DEF OutputAt
  <2>10. \A d \in Channel \ {c} :
             /\ r.output_buffer_[d] = s.output_buffer_[d] /\ r.socket[d] = s.socket[d]
             /\ r.table.interested_event_[d] = s.table.interested_event_[d]
    BY <1>5, <2>3
  <2>11. Moved(s, r, c)
    BY <2>3, <2>7, <2>8, <2>9, <2>10, OutputMoved
  <2>12. SentTo(s, c, r)
    BY <1>7, <1>14, <2>3, <2>4 DEF SentTo
  <2>. QED  BY <2>3, <2>6, <2>11, <2>12
<1>15. CASE going /\ WriteResult(k) = "ok" /\ rest # <<>> /\ ~(Len(rest) >= highwater_mark_)
  <2>1. r = Kept(w, c, rest)
    BY <1>15 DEF SendInLoop
  <2>. HIDE DEF w, rest, n, part
  <2>2. KeptFrom(s, c, w, rest, r)
    <3>1. s.status_[c] = "DISCONNECTED" => Cut(s)
      BY <1>15
    <3>2. w.process = s.process
      BY <1>5, <1>15
    <3>. QED  BY <1>5, <1>7, <2>1, <3>1, <3>2, KeptFields
  <2>3. out = <<>> /\ \A d : Held(w, d) = Held(s, d) /\ (Stacked(w, d) <=> Stacked(s, d))
    BY <1>9, <1>15
  <2>4. /\ r \in Net /\ ListIn(r) /\ IsWriting(r, c)
        /\ r.status_ = s.status_ /\ r.told = s.told /\ r.reopened = s.reopened
        /\ r.interrupted = s.interrupted /\ r.process = s.process
        /\ r.socket = w.socket /\ r.stack = s.stack
        /\ \A d \in Channel \ {c} : r.table.interested_event_[d] = s.table.interested_event_[d]
    BY <1>5, <2>2 DEF KeptFrom
  <2>5. r.output_buffer_[c] = rest
        /\ \A d \in Channel \ {c} : r.output_buffer_[d] = s.output_buffer_[d]
    <3>1. r.output_buffer_[c] = <<>> \o rest
          /\ \A d \in Channel \ {c} : r.output_buffer_[d] = s.output_buffer_[d]
      BY <1>5, <2>2, <2>3 DEF KeptFrom
    <3>. QED  BY <1>7, <3>1, ConcatEmptySeq
  <2>6. \A d : Held(r, d) = Held(s, d) /\ (Stacked(r, d) <=> Stacked(s, d))
    <3>1. StackKept(s, r)
      BY <2>4 DEF StackKept
    <3>. QED  BY <3>1, StackSame
  <2>7. Bytes(r, c) = IF mute THEN <<>> ELSE (k.sent \o part) \o rest
    <3>1. Held(r, c) = <<>> \/ "Send" \in r.interrupted[c]
      BY <2>4, <2>6 DEF Callable
    <3>2. Bytes(r, c) = IF "Send" \in r.interrupted[c] THEN <<>>
                        ELSE r.socket[c].sent \o r.output_buffer_[c]
      BY <2>4, <3>1, BytesPlain
    <3>. QED  BY <1>5, <2>4, <2>5, <3>2
  <2>8. Bytes(r, c) \in {Bytes(s, c), Bytes(s, c) \o data, <<>>}
    BY <1>13, <1>15, <2>7
  <2>9. Whole(Bytes(r, c))
    BY <1>3, <2>8
  <2>10. OutputAt(r, c)
    <3>1. ~r.socket[c].shut
      BY <1>5, <1>6, <1>15, <2>4
    <3>. QED  BY <1>15, <2>4, <3>1 DEF OutputAt
  <2>11. \A d \in Channel \ {c} :
             /\ r.output_buffer_[d] = s.output_buffer_[d] /\ r.socket[d] = s.socket[d]
             /\ r.table.interested_event_[d] = s.table.interested_event_[d]
             /\ Held(r, d) = Held(s, d) /\ (Stacked(r, d) <=> Stacked(s, d))
    BY <1>5, <2>4, <2>5, <2>6
  <2>12. Moved(s, r, c)
    BY <2>4, <2>9, <2>10, <2>11, OutputMoved
  <2>. QED  BY <2>4, <2>8, <2>12 DEF SentTo
<1>. QED  BY <1>8, <1>11, <1>12, <1>14, <1>15

\* HandleWrite() takes from the output what it gives to the socket.
LEMMA WriteMoves ==
    ASSUME NEW s, NetIn(s), NEW c \in Channel, s.status_[c] # "CONNECTIONG", Callable(s, c),
           NEW r, r = HandleWrite(s, c)
    PROVE  /\ Moved(s, r, c) /\ r.status_ = s.status_ /\ r.process \in {s.process, "killed"}
           /\ Bytes(r, c) = Bytes(s, c)
           /\ \/ r.stack = s.stack
              \/ r.stack = <<[then |-> "shutdown", conn |-> c, data |-> <<>>]>> \o s.stack
<1> DEFINE k == s.socket[c]
           out == s.output_buffer_[c]
           n == Taken(k, out)
           part == SubSeq(out, 1, n)
           rest == SubSeq(out, n + 1, Len(out))
           w == Written(s, c, out)
           after == [w EXCEPT !.output_buffer_[c] = rest]
           quiet == [after EXCEPT !.table = Enable(@, c, WRITEEVENT, FALSE)]
           mute == "Send" \in s.interrupted[c]
<1>1. s \in Net /\ ListIn(s) /\ Connection(s, c)
  BY DEF NetIn
<1>2. k \in Socket /\ out \in Seq(Byte) /\ k.sent \in Seq(Byte)
  BY <1>1, NetAt
<1>3. Whole(Bytes(s, c)) /\ s.table \in Table
  BY <1>1, NetType DEF Connection
<1>4. Bytes(s, c) = IF mute THEN <<>> ELSE k.sent \o out
  BY <1>1, BytesPlain DEF Callable
<1>5. /\ w \in Net
      /\ w.table = s.table /\ w.status_ = s.status_ /\ w.output_buffer_ = s.output_buffer_
      /\ w.told = s.told /\ w.reopened = s.reopened
      /\ w.stack = s.stack /\ w.interrupted = s.interrupted
      /\ w.process \in {s.process, "killed"}
      /\ \A d \in Channel \ {c} : w.socket[d] = s.socket[d]
      /\ w.socket[c].sent = k.sent \o part
      /\ w.socket[c].shut = k.shut
      /\ WriteResult(k) = "ok" => w.process = s.process
  <2>1. w = Written(s, c, out)
    OBVIOUS
  <2>. HIDE DEF w
  <2>2. Wrote(s, c, out, w)
    BY <1>1, <1>2, <2>1, WrittenFields
  <2>. QED  BY <2>2 DEF Wrote, StackKept
<1>6. /\ n \in 0..Len(out) /\ (WriteResult(k) # "ok" => n = 0)
      /\ (WriteResult(k) = "ok" => ~k.shut)
  BY <1>2, TakenFacts
<1>7. /\ part \in Seq(Byte) /\ rest \in Seq(Byte)
      /\ part \o rest = out
      /\ n = 0 => rest = out
  <2>. HIDE DEF n, out
  <2>. QED  BY <1>2, <1>6, SplitWhole
<1>8. CASE ~IsWriting(s, c)
  <2>1. r = s
    BY <1>8 DEF HandleWrite
  <2>. QED  BY <2>1 DEF Moved, Others
<1>9. (k.sent \o part) \o rest = k.sent \o out
  <2>. DEFINE x == k.sent
              y == part
  <2>1. x \in Seq(Byte) /\ y \in Seq(Byte) /\ rest \in Seq(Byte) /\ y \o rest = out
    BY <1>2, <1>7
  <2>. HIDE DEF x, y, rest, out
  <2>2. (x \o y) \o rest = x \o (y \o rest)
    BY <2>1, Regrouped
  <2>. QED  BY <2>1, <2>2 DEF x, y
\* Whatever becomes of the list, the bytes are the same.
<1>14. ASSUME NEW q \in Net, StackKept(s, q), q.socket = w.socket, q.output_buffer_[c] = rest
       PROVE  /\ Bytes(q, c) = Bytes(s, c) /\ Whole(Bytes(q, c)) /\ Callable(q, c)
              /\ \A d : Held(q, d) = Held(s, d) /\ (Stacked(q, d) <=> Stacked(s, d))
  <2>. HIDE DEF w, rest, n, part
  <2>1. \A d : Held(q, d) = Held(s, d) /\ (Stacked(q, d) <=> Stacked(s, d))
    BY <1>14, StackSame
  <2>2. q.stack = s.stack /\ q.interrupted = s.interrupted
    BY <1>14 DEF StackKept
  <2>3. Callable(q, c)
    BY <2>1, <2>2 DEF Callable
  <2>4. Bytes(q, c) = IF mute THEN <<>> ELSE (k.sent \o part) \o rest
    BY <1>5, <1>14, <2>2, <2>3, BytesPlain DEF Callable
  <2>. QED  BY <1>3, <1>4, <1>9, <2>1, <2>3, <2>4
<1>10. CASE IsWriting(s, c) /\ (WriteResult(k) # "ok" \/ rest # <<>>)
  <2>1. r = Put(w, c, rest, s.table)
    <3>1. r = after
      BY <1>10 DEF HandleWrite
    <3>. HIDE DEF w, rest
    <3>. QED  BY <1>5, <3>1 DEF Put, Net
  <2>. HIDE DEF w, rest, n, part
  <2>2. /\ r \in Net /\ r.table = s.table
        /\ r.status_ = s.status_ /\ r.socket = w.socket
        /\ r.told = s.told /\ r.reopened = s.reopened /\ r.process = w.process
        /\ StackKept(w, r)
        /\ \A d \in Channel : r.output_buffer_[d] = IF d = c THEN rest ELSE s.output_buffer_[d]
    BY <1>3, <1>5, <1>7, <2>1, PutFields
  <2>3. StackKept(s, r) /\ r.stack = s.stack /\ r.interrupted = s.interrupted
    BY <1>5, <2>2 DEF StackKept
  <2>4. /\ Bytes(r, c) = Bytes(s, c) /\ Whole(Bytes(r, c))
        /\ \A d : Held(r, d) = Held(s, d) /\ (Stacked(r, d) <=> Stacked(s, d))
    BY <1>14, <2>2, <2>3
  <2>5. ListIn(r)
    <3>1. ListKept(s, r)
      BY <1>5, <2>2, <2>3 DEF ListKept, StatusKept, ClosedIn
    <3>. QED  BY <1>1, <3>1, ListSame
  <2>6. OutputAt(r, c)
    <3>1. OutputAt(s, c)
      BY <1>1 DEF Connection
    <3>2. IsWriting(r, c) /\ r.socket[c].shut = k.shut
      BY <1>5, <1>10, <2>2 DEF IsWriting
    <3>3. r.output_buffer_[c] = rest /\ (WriteResult(k) # "ok" => rest = out)
      BY <1>6, <1>7, <2>2
    <3>4. r.process = "running" => s.process = "running"
      BY <1>5, <2>2
    <3>. QED  BY <1>6, <1>10, <2>2, <2>3, <2>4, <3>1, <3>2, <3>3, <3>4 DEF OutputAt, ClosedIn
  <2>7. \A d \in Channel \ {c} :
            /\ r.output_buffer_[d] = s.output_buffer_[d] /\ r.socket[d] = s.socket[d]
            /\ r.table.interested_event_[d] = s.table.interested_event_[d]
            /\ Held(r, d) = Held(s, d) /\ (Stacked(r, d) <=> Stacked(s, d))
    BY <1>5, <2>2, <2>4
  <2>8. Moved(s, r, c)
    BY <1>5, <2>2, <2>3, <2>4, <2>5, <2>6, <2>7, OutputMoved
  <2>. QED  BY <1>5, <2>2, <2>3, <2>4, <2>8
<1>11. CASE IsWriting(s, c) /\ WriteResult(k) = "ok" /\ rest = <<>>
  <2>. DEFINE u == Enable(s.table, c, WRITEEVENT, FALSE)
              q == quiet
  <2>1. q = Put(w, c, rest, u)
    <3>. HIDE DEF w, rest
    <3>. QED  BY <1>5 DEF Put, Net
  <2>2. r = RunCallback(q, c, "shutdown", <<>>)
    BY <1>11 DEF HandleWrite
  <2>. HIDE DEF w, rest, n, part, quiet, u, q
  <2>4. /\ q.table = u
        /\ q.status_ = s.status_ /\ q.socket = w.socket
        /\ q.told = s.told /\ q.reopened = s.reopened /\ q.process = s.process
        /\ q.interrupted = s.interrupted
    BY <1>5, <1>11, <2>1 DEF Put, Net
  <2>5. StatusKept(s, q)
    BY <2>4 DEF StatusKept, ClosedIn
  <2>6. s.status_[c] \in Up \/ s.process # "running" \/ Cut(s)
    <3>1. OutputAt(s, c) /\ s.status_[c] \in Status
      BY <1>1, NetAt DEF Connection
    <3>. QED  BY <1>11, <3>1 DEF OutputAt, Status, Up, Cut
  <2>7. /\ ListIn(q) /\ q.table \in Table /\ ~IsWriting(q, c)
        /\ \A d \in Channel \ {c} :
               q.table.interested_event_[d] = s.table.interested_event_[d]
    <3>1. q.table = Enable(s.table, c, WRITEEVENT, FALSE)
      BY <2>4 DEF u
    <3>. QED  BY <2>5, <2>6, <3>1, QuietListed
  <2>8. /\ q \in Net /\ StackKept(w, q)
        /\ \A d \in Channel : q.output_buffer_[d] = IF d = c THEN rest ELSE s.output_buffer_[d]
    BY <1>5, <1>7, <2>1, <2>4, <2>7, PutFields
  <2>9. StackKept(s, q) /\ q.stack = s.stack /\ q.output_buffer_[c] = rest
    BY <1>5, <2>8 DEF StackKept
  <2>10. /\ Bytes(q, c) = Bytes(s, c) /\ Whole(Bytes(q, c)) /\ Callable(q, c)
         /\ \A d : Held(q, d) = Held(s, d) /\ (Stacked(q, d) <=> Stacked(s, d))
    BY <1>14, <2>4, <2>8, <2>9
  <2>11. OutputAt(q, c)
    <3>1. ~IsWriting(q, c)
      BY <2>7
    <3>2. ~q.socket[c].shut /\ q.output_buffer_[c] = <<>>
      BY <1>5, <1>6, <1>11, <2>4, <2>8
    <3>. QED  BY <3>1, <3>2 DEF OutputAt
  <2>12. \A d \in Channel \ {c} :
             /\ q.output_buffer_[d] = s.output_buffer_[d] /\ q.socket[d] = s.socket[d]
             /\ q.table.interested_event_[d] = s.table.interested_event_[d]
             /\ Held(q, d) = Held(s, d) /\ (Stacked(q, d) <=> Stacked(s, d))
    BY <1>5, <2>4, <2>7, <2>8, <2>10
  <2>13. Moved(s, q, c)
    BY <2>4, <2>7, <2>8, <2>10, <2>11, <2>12, OutputMoved
  <2>14. NetIn(q) /\ q.status_[c] # "CONNECTIONG"
    BY <2>4, <2>13 DEF Moved
  <2>15. Moved(q, r, c) /\ Bytes(r, c) = Bytes(q, c) /\ Calls(q, c, "shutdown", <<>>, r)
    BY <2>2, <2>10, <2>14, CallMoves
  <2>16. Moved(s, r, c)
    BY <2>13, <2>15, MovedTwice
  <2>. QED  BY <2>4, <2>9, <2>10, <2>15, <2>16 DEF Calls
<1>. QED  BY <1>8, <1>10, <1>11

-----------------------------------------------------------------------------
(* The end of a connection.                                                 *)

\* RemoveSelfInPoll() stays inside the list.
Removes(t, c) ==
    LET n == Len(t.pollfds_)
        idx == t.poll_index_[c]
    IN  n > idx /\ (idx = n - 1 \/ t.channels_[Descriptor(t.pollfds_[n])] \notin {c, NoChannel})

\* Then it is as RemovedKeeps assumes; and as long as none has left the list, it does.
LEMMA RemovesFacts ==
    ASSUME NEW t \in Table, NEW S \in SUBSET Channel, Entries(t, S), NEW c \in S
    PROVE  /\ Removes(t, c) => Removable(t, c)
           /\ Full(t, S) => Removes(t, c)
<1> DEFINE n == Len(t.pollfds_)
           idx == t.poll_index_[c]
           f == Descriptor(t.pollfds_[n])
<1>1. /\ n \in Nat /\ idx \in Int /\ idx >= 0
      /\ t.fd_ \in [Channel -> Fd] /\ t.channels_ \in [Fd -> Channel \cup {NoChannel}]
  BY TableType DEF Entries
<1>2. ASSUME n > 0
      PROVE  /\ n \in 1..n /\ \E d \in S : f = t.fd_[d]
             /\ f \in Fd
  BY <1>1, <1>2 DEF Entries
<1>3. ASSUME Removes(t, c) PROVE Removable(t, c)
  <2>1. n > idx /\ (idx = n - 1 \/ t.channels_[f] \notin {c, NoChannel})
    BY <1>3 DEF Removes
  <2>2. CASE idx = n - 1
    BY <1>1, <2>1, <2>2 DEF Removable
  <2>3. CASE t.channels_[f] \notin {c, NoChannel}
    <3>1. f \in Fd
      BY <1>1, <1>2, <2>1
    <3>. HIDE DEF f, n, idx
    <3>2. t.channels_[f] \in Channel \ {c}
      BY <1>1, <2>3, <3>1
    <3>3. t.fd_[t.channels_[f]] = f
      BY <2>3, <3>1 DEF Entries
    <3>4. f # t.fd_[c]
      BY <1>1, <3>2, <3>3 DEF Entries, IsInjective
    <3>5. idx >= 0 /\ idx < n
      BY <1>1, <2>1
    <3>. QED  BY <3>1, <3>2, <3>4, <3>5 DEF Removable, f, n, idx
  <2>. QED  BY <2>1, <2>2, <2>3
<1>4. ASSUME Full(t, S) PROVE Removes(t, c)
  <2>1. idx + 1 \in 1..n
    BY <1>4 DEF Full
  <2>2. n > 0 /\ n > idx /\ n \in 1..n
    BY <1>1, <2>1
  <2>3. PICK d \in S : t.poll_index_[d] = n - 1
    BY <1>4, <2>2 DEF Full
  <2>4. t.poll_index_[d] + 1 = n
    BY <1>1, <2>3
  <2>5. f = t.fd_[d] /\ t.channels_[t.fd_[d]] = d
    BY <1>4, <2>4 DEF Full
  <2>6. d # NoChannel
    BY ChannelAssumption
  <2>. QED  BY <2>2, <2>3, <2>5, <2>6 DEF Removes
<1>. QED  BY <1>3, <1>4

\* DisableAll(), once before it leaves or not at all, and once afterwards.
Left(t, u, S, c, ok) ==
    /\ u \in Table /\ Entries(u, S)
    /\ \A d \in Channel \ {c} : u.interested_event_[d] = t.interested_event_[d]
    /\ ok => /\ u.interested_event_[c] = {}
             /\ \A d \in Channel : Mapped(u, d) <=> d # c /\ Mapped(t, d)
             /\ Live(t) /\ Mapped(t, c) => Live(u)
    /\ Full(t, S) => ok

\* A channel that is disabled stays where it is.
LEMMA DisabledKeeps ==
    ASSUME NEW t \in Table, NEW S \in SUBSET Channel, Entries(t, S), NEW c \in S,
           NEW u, u = DisableAll(t, c)
    PROVE  /\ u \in Table /\ Entries(u, S)
           /\ u.interested_event_[c] = {}
           /\ \A d \in Channel \ {c} : u.interested_event_[d] = t.interested_event_[d]
           /\ \A d \in Channel : Mapped(u, d) <=> Mapped(t, d)
           /\ Live(t) => Live(u)
           /\ Full(t, S) => Full(u, S)
<1> DEFINE events == {}
<1>1. events \in SUBSET Event /\ u = Asks(t, c, events)
  BY DEF DisableAll, Asks
<1>2. events = {}
  OBVIOUS
<1>. HIDE DEF events
<1>3. Asked(t, S, c, events, u)
  BY <1>1, EventsMoved
<1>. QED  BY <1>2, <1>3 DEF Asked, Mapped

\* The list after a channel has left it, or could not.
LEMMA LeftKeeps ==
    ASSUME NEW t \in Table, NEW S \in SUBSET Channel, Entries(t, S), NEW c \in S,
           NEW v, v \in {t, DisableAll(t, c)},
           NEW u, u = IF Removes(v, c) THEN DisableAll(RemoveChannel(v, c), c) ELSE v
    PROVE  Left(t, u, S, c, Removes(v, c))
<1>1. /\ v \in Table /\ Entries(v, S)
      /\ \A d \in Channel \ {c} : v.interested_event_[d] = t.interested_event_[d]
      /\ \A d \in Channel : Mapped(v, d) <=> Mapped(t, d)
      /\ Live(t) => Live(v)
      /\ Full(t, S) => Full(v, S)
  <2>1. CASE v = t
    BY <2>1
  <2>2. CASE v = DisableAll(t, c)
    BY <2>2, DisabledKeeps
  <2>. QED  BY <2>1, <2>2
<1>2. Full(t, S) => Removes(v, c)
  BY <1>1, RemovesFacts
<1>3. CASE ~Removes(v, c)
  BY <1>1, <1>2, <1>3 DEF Left
<1>4. CASE Removes(v, c)
  <2>. DEFINE w == RemoveChannel(v, c)
  <2>1. Removable(v, c)
    BY <1>1, <1>4, RemovesFacts
  <2>2. /\ w \in Table /\ w.interested_event_ = v.interested_event_
    BY <1>1, <2>1, RemovedFields
  <2>3. /\ Entries(w, S)
        /\ Live(v) /\ v.channels_[v.fd_[c]] = c => Live(w)
        /\ \A d \in Channel : w.channels_[w.fd_[d]] =
               IF d = c THEN NoChannel ELSE v.channels_[v.fd_[d]]
    BY <1>1, <2>1, RemovedKeeps
  <2>. HIDE DEF w
  <2>4. \A d \in Channel : Mapped(w, d) <=> d # c /\ Mapped(v, d)
    BY <2>3, ChannelAssumption DEF Mapped
  <2>5. u = DisableAll(w, c)
    BY <1>4 DEF w
  <2>6. /\ u \in Table /\ Entries(u, S)
        /\ u.interested_event_[c] = {}
        /\ \A d \in Channel \ {c} : u.interested_event_[d] = w.interested_event_[d]
        /\ \A d \in Channel : Mapped(u, d) <=> Mapped(w, d)
        /\ Live(w) => Live(u)
    BY <2>2, <2>3, <2>5, DisabledKeeps
  <2>7. Live(t) /\ Mapped(t, c) => Live(u)
    BY <1>1, <2>3, <2>6 DEF Mapped
  <2>. QED  BY <1>1, <1>2, <1>4, <2>2, <2>4, <2>6, <2>7 DEF Left
<1>. QED  BY <1>3, <1>4

\* DOWN and CLOSE behind callbacks that end in neither.
LEMMA TailInOrder ==
    ASSUME NEW q \in Seq(Callback), NEW more \in Seq(Callback), InOrder(q), InOrder(more),
           \A i \in 1..Len(q) : q[i] # "CLOSE",
           \A i \in 1..Len(more) : more[i] \in {"DOWN", "CLOSE"}
    PROVE  InOrder(q \o more)
<1> DEFINE w == q \o more
           n == Len(q)
<1>1. /\ w \in Seq(Callback) /\ Len(w) = n + Len(more) /\ n \in Nat /\ Len(more) \in Nat
      /\ \A i \in 1..n : w[i] = q[i]
      /\ \A i \in 1..Len(more) : w[n + i] = more[i]
  BY ConcatProperties
<1>. HIDE DEF w, n
<1>2. \A i \in 1..(n + Len(more)) :
          (i \in 1..n /\ w[i] = q[i]) \/ (i - n \in 1..Len(more) /\ w[i] = more[i - n])
  <2>1. ASSUME NEW i \in 1..(n + Len(more)), i \notin 1..n
        PROVE  i - n \in 1..Len(more) /\ n + (i - n) = i
    BY <1>1, <2>1
  <2>. QED  BY <1>1, <2>1
<1>3. SUFFICES ASSUME NEW i \in 1..(n + Len(more)), NEW j \in 1..(n + Len(more)), i < j
               PROVE  w[j] # "UP" /\ w[i] # "CLOSE" /\ (w[j] = "MESSAGE" => w[i] # "DOWN")
  BY <1>1 DEF InOrder, w, n
<1>4. CASE j \in 1..n
  <2>1. i \in 1..n
    BY <1>1, <1>3, <1>4
  <2>. QED  BY <1>1, <1>3, <1>4, <2>1 DEF InOrder, n
<1>5. CASE j - n \in 1..Len(more) /\ w[j] = more[j - n]
  <2>1. w[j] \in {"DOWN", "CLOSE"}
    BY <1>5
  <2>2. CASE i \in 1..n /\ w[i] = q[i]
    BY <2>1, <2>2 DEF n
  <2>3. CASE i - n \in 1..Len(more) /\ w[i] = more[i - n]
    <3>1. i - n < j - n
      BY <1>1, <1>3
    <3>. QED  BY <1>5, <2>1, <2>3, <3>1 DEF InOrder
  <2>. QED  BY <1>2, <1>3, <2>2, <2>3
<1>. QED  BY <1>2, <1>3, <1>4, <1>5

\* Tell() by its fields.
LEMMA TellFields ==
    ASSUME NEW s \in Net, NEW c \in Channel, NEW more \in Seq(Callback),
           NEW r, r = Tell(s, c, more)
    PROVE  /\ r \in Net
           /\ r.table = s.table /\ r.status_ = s.status_ /\ r.output_buffer_ = s.output_buffer_
           /\ r.socket = s.socket /\ r.reopened = s.reopened /\ r.process = s.process
           /\ StackKept(s, r)
           /\ \A d \in Channel : r.told[d] = IF d = c THEN s.told[c] \o more ELSE s.told[d]
<1> DEFINE q == s.told[c] \o more
<1>1. /\ r.table = s.table /\ r.status_ = s.status_ /\ r.output_buffer_ = s.output_buffer_
      /\ r.socket = s.socket /\ r.told = [s.told EXCEPT ![c] = q]
      /\ r.reopened = s.reopened /\ r.process = s.process /\ StackKept(s, r)
      /\ r = [s EXCEPT !.told = r.told]
  BY DEF Net, Tell, StackKept
<1>2. q \in Seq(Callback)
  <2>1. s.told[c] \in Seq(Callback)
    BY NetAt
  <2>. QED  BY <2>1, ConcatProperties
<1>. HIDE DEF q
<1>3. s.told \in [Channel -> Seq(Callback)]
  BY NetType
<1>4. r.told \in [Channel -> Seq(Callback)]
  BY <1>1, <1>2, <1>3
<1>5. r \in Net
  BY <1>1, <1>4 DEF Net
<1>. QED  BY <1>1, <1>3, <1>5 DEF q

\* The status and the list change.
Turn(s, c, status, table) == [s EXCEPT !.status_[c] = status, !.table = table]

\* Such a step, by its fields.
LEMMA TurnFields ==
    ASSUME NEW s \in Net, NEW c \in Channel, NEW status \in Status, NEW table \in Table,
           NEW r, r = Turn(s, c, status, table)
    PROVE  /\ r \in Net
           /\ r.table = table /\ r.output_buffer_ = s.output_buffer_
           /\ r.socket = s.socket /\ r.told = s.told
           /\ r.reopened = s.reopened /\ r.process = s.process /\ StackKept(s, r)
           /\ \A d \in Channel : r.status_[d] = IF d = c THEN status ELSE s.status_[d]
<1>1. /\ r.table = table /\ r.output_buffer_ = s.output_buffer_
      /\ r.socket = s.socket /\ r.told = s.told
      /\ r.reopened = s.reopened /\ r.process = s.process /\ StackKept(s, r)
      /\ r.status_ = [s.status_ EXCEPT ![c] = status]
  BY DEF Net, Turn, StackKept
<1>2. r = [s EXCEPT !.status_ = r.status_, !.table = table]
  BY <1>1 DEF Net, Turn
<1>3. s.status_ \in [Channel -> Status]
  BY NetType
<1>4. r.status_ \in [Channel -> Status]
  BY <1>1, <1>3
<1>5. r \in Net
  BY <1>2, <1>4 DEF Net
<1>. QED  BY <1>1, <1>3, <1>5

\* RemoveSelf() by its fields.
LEMMA RemoveSelfFields ==
    ASSUME NEW s \in Net, NEW c \in Channel,
           Removes(s.table, c) => RemoveChannel(s.table, c) \in Table,
           NEW r, r = RemoveSelf(s, c)
    PROVE  /\ r \in Net
           /\ r.status_ = s.status_ /\ r.output_buffer_ = s.output_buffer_
           /\ r.socket = s.socket /\ r.told = s.told /\ r.reopened = s.reopened
           /\ StackKept(s, r)
           /\ r.table = IF Removes(s.table, c) THEN RemoveChannel(s.table, c) ELSE s.table
           /\ r.process = IF Removes(s.table, c) THEN s.process ELSE "undefined"
<1>1. r = IF Removes(s.table, c) THEN [s EXCEPT !.table = RemoveChannel(s.table, c)]
          ELSE [s EXCEPT !.process = "undefined"]
  BY DEF RemoveSelf, Removes, Net
<1>2. CASE Removes(s.table, c)
  <2>. DEFINE u == RemoveChannel(s.table, c)
  <2>1. r = [s EXCEPT !.table = u] /\ u \in Table
    BY <1>1, <1>2
  <2>. HIDE DEF u
  <2>2. /\ r \in Net
        /\ r.status_ = s.status_ /\ r.output_buffer_ = s.output_buffer_
        /\ r.socket = s.socket /\ r.told = s.told /\ r.reopened = s.reopened
        /\ r.table = u /\ r.process = s.process /\ StackKept(s, r)
    BY <2>1 DEF Net, StackKept
  <2>. QED  BY <1>2, <2>2 DEF u
<1>3. CASE ~Removes(s.table, c)
  <2>1. r = [s EXCEPT !.process = "undefined"]
    BY <1>1, <1>3
  <2>. QED  BY <1>3, <2>1 DEF Net, StackKept
<1>. QED  BY <1>2, <1>3

\* HandleClose() by its fields: whether the list is used inside of its bounds, and
\* what was told before DOWN and CLOSE.
ClosedTo(s, r, c, S, ok, q) ==
    /\ r \in Net
    /\ r.output_buffer_ = s.output_buffer_ /\ r.socket = s.socket /\ r.reopened = s.reopened
    /\ StackKept(s, r)
    /\ \A d \in Channel : r.status_[d] = IF d = c THEN "DISCONNECTED" ELSE s.status_[d]
    /\ \A d \in Channel : r.told[d] = IF d = c THEN q \o <<"DOWN", "CLOSE">> ELSE s.told[d]
    /\ Left(s.table, r.table, S, c, ok)
    /\ r.process = IF ok THEN "running" ELSE "undefined"

\* HandleClose() by its fields: DOWN twice if the connection was up, then CLOSE.
LEMMA CloseFields ==
    ASSUME NEW s \in Net, s.process = "running", NEW S \in SUBSET Channel, NEW c \in S,
           Entries(s.table, S), NEW r, r = HandleClose(s, c)
    PROVE  \E ok \in BOOLEAN, q \in {s.told[c], s.told[c] \o <<"DOWN">>} :
               ClosedTo(s, r, c, S, ok, q)
<1> DEFINE up == s.status_[c] = "CONNECTED"
           v == IF up THEN DisableAll(s.table, c) ELSE s.table
           a == IF up THEN Turn(s, c, "DISCONNECTED", v) ELSE s
           b == IF up THEN Tell(a, c, <<"DOWN">>) ELSE a
           ok == Removes(v, c)
           q == IF up THEN s.told[c] \o <<"DOWN">> ELSE s.told[c]
           gone == RemoveSelf(b, c)
           u == IF ok THEN DisableAll(gone.table, c) ELSE gone.table
           e == Turn(gone, c, "DISCONNECTED", u)
<1>1. c \in Channel /\ s.table \in Table /\ "DISCONNECTED" \in Status
      /\ <<"DOWN">> \in Seq(Callback) /\ <<"DOWN", "CLOSE">> \in Seq(Callback)
  BY NetType DEF Status, Callback
<1>2. v \in {s.table, DisableAll(s.table, c)} /\ v \in Table /\ Entries(v, S)
  BY <1>1, DisabledKeeps
<1>3. gone = ConnectDestroyed(s, c)
  BY DEF ConnectDestroyed, Turn
<1>4. /\ a \in Net
      /\ a.table = v /\ a.output_buffer_ = s.output_buffer_
      /\ a.socket = s.socket /\ a.told = s.told
      /\ a.reopened = s.reopened /\ a.process = s.process /\ StackKept(s, a)
      /\ \A d \in Channel \ {c} : a.status_[d] = s.status_[d]
  <2>. HIDE DEF v
  <2>1. CASE up
    BY <1>1, <1>2, <2>1, TurnFields
  <2>2. CASE ~up
    BY <2>2 DEF v, StackKept
  <2>. QED  BY <2>1, <2>2
<1>5. /\ b \in Net
      /\ b.table = v /\ b.output_buffer_ = s.output_buffer_
      /\ b.socket = s.socket /\ b.reopened = s.reopened /\ b.process = s.process
      /\ StackKept(s, b)
      /\ \A d \in Channel \ {c} : b.status_[d] = s.status_[d]
      /\ \A d \in Channel : b.told[d] = IF d = c THEN q ELSE s.told[d]
  <2>. HIDE DEF v, a
  <2>1. CASE up
    <3>. DEFINE more == <<"DOWN">>
    <3>1. b = Tell(a, c, more) /\ q = s.told[c] \o more /\ more \in Seq(Callback)
      BY <1>1, <2>1
    <3>. HIDE DEF b, q, more
    <3>2. /\ b \in Net
          /\ b.table = a.table /\ b.status_ = a.status_ /\ b.output_buffer_ = a.output_buffer_
          /\ b.socket = a.socket /\ b.reopened = a.reopened /\ b.process = a.process
          /\ StackKept(a, b)
          /\ \A d \in Channel : b.told[d] = IF d = c THEN a.told[c] \o more ELSE a.told[d]
      BY <1>1, <1>4, <3>1, TellFields
    <3>. QED  BY <1>4, <3>1, <3>2 DEF StackKept
  <2>2. CASE ~up
    BY <1>4, <2>2
  <2>. QED  BY <2>1, <2>2
<1>6. ok => RemoveChannel(v, c) \in Table
  BY <1>2, RemovesFacts, RemovedFields
<1>. HIDE DEF v, a, b, q
<1>7. /\ gone \in Net
      /\ gone.status_ = b.status_ /\ gone.output_buffer_ = s.output_buffer_
      /\ gone.socket = s.socket /\ gone.told = b.told /\ gone.reopened = s.reopened
      /\ StackKept(s, gone)
      /\ gone.table = IF ok THEN RemoveChannel(v, c) ELSE v
      /\ gone.process = IF ok THEN "running" ELSE "undefined"
  BY <1>1, <1>5, <1>6, RemoveSelfFields DEF StackKept
<1>. HIDE DEF gone, ok
<1>8. u = IF ok THEN DisableAll(RemoveChannel(v, c), c) ELSE v
  BY <1>7
<1>9. Left(s.table, u, S, c, ok)
  <2>. HIDE DEF u
  <2>. QED  BY <1>1, <1>2, <1>8, LeftKeeps DEF ok
<1>10. u \in Table
  BY <1>9 DEF Left
<1>11. r = Tell(e, c, <<"DOWN", "CLOSE">>)
  <2>1. (gone.process = "running") = ok
    BY <1>7 DEF ok, Removes
  <2>2. r = Tell([gone EXCEPT !.status_[c] = "DISCONNECTED",
                              !.table = IF gone.process = "running" THEN DisableAll(@, c) ELSE @],
                 c, <<"DOWN", "CLOSE">>)
    BY <1>3 DEF HandleClose
  <2>3. [gone EXCEPT !.status_[c] = "DISCONNECTED",
                     !.table = IF gone.process = "running" THEN DisableAll(@, c) ELSE @] = e
    BY <1>7, <2>1 DEF Turn, Net
  <2>. QED  BY <2>2, <2>3
<1>. HIDE DEF u
<1>12. /\ e \in Net
       /\ e.table = u /\ e.output_buffer_ = s.output_buffer_
       /\ e.socket = s.socket /\ e.told = b.told
       /\ e.reopened = s.reopened /\ e.process = gone.process /\ StackKept(s, e)
       /\ \A d \in Channel : e.status_[d] = IF d = c THEN "DISCONNECTED" ELSE gone.status_[d]
  BY <1>1, <1>7, <1>10, TurnFields DEF StackKept
<1>. HIDE DEF e
<1>13. /\ r \in Net
       /\ r.table = u /\ r.status_ = e.status_ /\ r.output_buffer_ = s.output_buffer_
       /\ r.socket = s.socket /\ r.reopened = s.reopened /\ r.process = gone.process
       /\ StackKept(s, r)
       /\ \A d \in Channel : r.told[d] = IF d = c THEN b.told[c] \o <<"DOWN", "CLOSE">>
                                         ELSE b.told[d]
  <2>. DEFINE more == <<"DOWN", "CLOSE">>
  <2>1. more \in Seq(Callback) /\ r = Tell(e, c, more)
    BY <1>1, <1>11
  <2>. HIDE DEF more
  <2>2. /\ r \in Net
        /\ r.table = e.table /\ r.status_ = e.status_ /\ r.output_buffer_ = e.output_buffer_
        /\ r.socket = e.socket /\ r.reopened = e.reopened /\ r.process = e.process
        /\ StackKept(e, r)
        /\ \A d \in Channel : r.told[d] = IF d = c THEN e.told[c] \o more ELSE e.told[d]
    BY <1>1, <1>12, <2>1, TellFields
  <2>. QED  BY <1>12, <2>2 DEF more, StackKept
<1>14. ok \in BOOLEAN
  BY DEF ok, Removes
<1>15. ClosedTo(s, r, c, S, ok, q)
  BY <1>1, <1>5, <1>7, <1>9, <1>12, <1>13 DEF ClosedTo
<1>16. q \in {s.told[c], s.told[c] \o <<"DOWN">>}
  BY DEF q
<1>. QED  BY <1>14, <1>15, <1>16

\* HandleClose() of a connection that was not closed, or was reopened.
LEMMA CloseMoves ==
    ASSUME NEW s, NetIn(s), s.process = "running", NEW c \in Channel,
           s.status_[c] # "CONNECTIONG", s.status_[c] \in Up \/ c \in s.reopened,
           NEW r, r = HandleClose(s, c)
    PROVE  /\ Moved(s, r, c) /\ r.status_[c] = "DISCONNECTED"
           /\ StackKept(s, r) /\ r.output_buffer_ = s.output_buffer_
           /\ \A d \in Channel : Bytes(r, d) = Bytes(s, d)
<1> DEFINE S == Begun(s)
           more == <<"DOWN", "CLOSE">>
<1>1. /\ s \in Net /\ ListIn(s) /\ Entries(s.table, S) /\ c \in S /\ S \in SUBSET Channel
      /\ \A d \in Channel : Connection(s, d)
  BY DEF NetIn, ListIn, Begun
<1>. HIDE DEF S
<1>2. PICK ok \in BOOLEAN, q \in {s.told[c], s.told[c] \o <<"DOWN">>} :
          ClosedTo(s, r, c, S, ok, q)
  BY <1>1, CloseFields
<1>3. /\ r \in Net
      /\ r.output_buffer_ = s.output_buffer_ /\ r.socket = s.socket /\ r.reopened = s.reopened
      /\ \A d \in Channel : r.status_[d] = IF d = c THEN "DISCONNECTED" ELSE s.status_[d]
      /\ \A d \in Channel : r.told[d] = IF d = c THEN q \o more ELSE s.told[d]
      /\ Left(s.table, r.table, S, c, ok)
      /\ r.process = IF ok THEN "running" ELSE "undefined"
      /\ StackKept(s, r) /\ r.interrupted = s.interrupted
  BY <1>2 DEF ClosedTo, StackKept
<1>4. /\ more \in Seq(Callback) /\ Len(more) = 2 /\ more[1] = "DOWN" /\ more[2] = "CLOSE"
      /\ <<"DOWN">> \in Seq(Callback) /\ Len(<<"DOWN">>) = 1 /\ <<"DOWN">>[1] = "DOWN"
      /\ s.told[c] \in Seq(Callback)
  BY <1>1, NetAt DEF Callback
<1>. HIDE DEF more
<1>5. q \in Seq(Callback)
  <2>. DEFINE down == <<"DOWN">>
              p == s.told[c]
  <2>1. p \in Seq(Callback) /\ down \in Seq(Callback) /\ q \in {p, p \o down}
    BY <1>4
  <2>. HIDE DEF p, down
  <2>. QED  BY <2>1, ConcatProperties
<1>6. "CLOSE" \in Range(more) /\ InOrder(more)
  <2>1. "CLOSE" \in Range(more)
    <3>1. 2 \in DOMAIN more
      BY <1>4
    <3>. QED  BY <1>4, <3>1 DEF Range
  <2>2. \A i, j \in 1..2 : i < j => i = 1 /\ j = 2
    OBVIOUS
  <2>. QED  BY <1>4, <2>1, <2>2 DEF InOrder
<1>7. ClosedIn(r, c)
  BY <1>3, <1>4, <1>5, <1>6, ClosedMore DEF ClosedIn
<1>8. \A d \in Channel : ClosedIn(s, d) => ClosedIn(r, d)
  BY <1>3, <1>7 DEF ClosedIn
<1>a. \A d : Held(r, d) = Held(s, d) /\ (Stacked(r, d) <=> Stacked(s, d))
  BY <1>3, StackSame
<1>9. \A d \in Channel : Bytes(r, d) = Bytes(s, d)
  BY <1>3, <1>a DEF Bytes, Line
<1>10. Others(s, r, c)
  <2>1. \A d \in Channel \ {c} : r.table.interested_event_[d] = s.table.interested_event_[d]
    BY <1>3 DEF Left
  <2>. QED  BY <1>3, <1>a, <2>1 DEF Others
<1>11. ASSUME c \notin s.reopened
       PROVE  /\ ~ClosedIn(s, c)
              /\ InOrder(r.told[c])
  <2>1. /\ s.status_[c] \in Up /\ InOrder(s.told[c])
        /\ \A i \in 1..Len(s.told[c]) : s.told[c][i] \in {"UP", "MESSAGE"}
    BY <1>1, <1>11 DEF Connection, ToldAt
  <2>2. ~ClosedIn(s, c)
    <3>1. DOMAIN s.told[c] = 1..Len(s.told[c])
      BY <1>4
    <3>. QED  BY <2>1, <3>1 DEF ClosedIn, Range
  <2>3. InOrder(q) /\ \A i \in 1..Len(q) : q[i] # "CLOSE"
    <3>1. CASE q = s.told[c]
      BY <2>1, <3>1
    <3>2. CASE q = s.told[c] \o <<"DOWN">>
      <4>. DEFINE p == s.told[c]
                  down == <<"DOWN">>
      <4>1. /\ p \in Seq(Callback) /\ down \in Seq(Callback) /\ Len(down) = 1 /\ down[1] = "DOWN"
            /\ q = p \o down /\ InOrder(p)
            /\ \A i \in 1..Len(p) : p[i] \in {"UP", "MESSAGE"}
        BY <1>4, <2>1, <3>2
      <4>. HIDE DEF p, down
      <4>2. InOrder(down) /\ \A i \in 1..Len(down) : down[i] = "DOWN"
        <5>1. \A i \in 1..1 : i = 1
          OBVIOUS
        <5>2. \A i, j \in 1..1 : ~(i < j)
          OBVIOUS
        <5>. QED  BY <4>1, <5>1, <5>2 DEF InOrder
      <4>3. InOrder(q)
        BY <4>1, <4>2, TailInOrder
      <4>4. \A i \in 1..Len(q) : q[i] # "CLOSE"
        <5>1. /\ Len(q) = Len(p) + 1 /\ Len(p) \in Nat
              /\ \A i \in 1..Len(p) : q[i] = p[i]
              /\ q[Len(p) + 1] = "DOWN"
          <6>1. /\ Len(q) = Len(p) + Len(down) /\ Len(p) \in Nat
                /\ \A i \in 1..Len(p) : q[i] = p[i]
                /\ \A i \in 1..Len(down) : q[Len(p) + i] = down[i]
            <7>1. p \in Seq(Callback) /\ down \in Seq(Callback)
              BY <4>1
            <7>2. /\ Len(p \o down) = Len(p) + Len(down) /\ Len(p) \in Nat
                  /\ \A i \in 1..Len(p) : (p \o down)[i] = p[i]
                  /\ \A i \in 1..Len(down) : (p \o down)[Len(p) + i] = down[i]
              BY <7>1, ConcatProperties
            <7>. QED  BY <4>1, <7>2
          <6>2. 1 \in 1..Len(down)
            BY <4>1
          <6>. QED  BY <4>1, <6>1, <6>2
        <5>2. \A i \in 1..(Len(p) + 1) : i \in 1..Len(p) \/ i = Len(p) + 1
          BY <5>1
        <5>. QED  BY <4>1, <5>1, <5>2
      <4>. QED  BY <4>3, <4>4
    <3>. QED  BY <3>1, <3>2
  <2>4. \A i \in 1..Len(more) : more[i] \in {"DOWN", "CLOSE"}
    <3>1. \A i \in 1..2 : i = 1 \/ i = 2
      OBVIOUS
    <3>. QED  BY <1>4, <3>1
  <2>5. InOrder(q \o more)
    BY <1>4, <1>5, <1>6, <2>3, <2>4, TailInOrder
  <2>. QED  BY <1>3, <2>2, <2>5
<1>12. ToldAt(r, c)
  BY <1>3, <1>7, <1>11 DEF ToldAt, Up
<1>13. OutputAt(r, c)
  <2>1. r.process = "running" => ~IsWriting(r, c)
    BY <1>3 DEF Left, IsWriting
  <2>. QED  BY <1>3, <1>7, <2>1 DEF OutputAt, Ending
<1>14. Connection(r, c)
  BY <1>1, <1>9, <1>12, <1>13 DEF Connection
<1>15. \A d \in Channel : Connection(r, d)
  BY <1>1, <1>10, <1>14, OthersKeep
<1>16. ListIn(r)
  <2>1. Begun(r) = S
    BY <1>3 DEF Begun, S
  <2>2. Entries(r.table, S)
    BY <1>3 DEF Left
  <2>3. ASSUME r.process = "running"
        PROVE  \A d \in Channel \ r.reopened : Mapped(r.table, d) <=> r.status_[d] \in Up
    <3>1. \A d \in Channel : Mapped(r.table, d) <=> d # c /\ Mapped(s.table, d)
      BY <1>3, <2>3 DEF Left
    <3>2. \A d \in Channel \ s.reopened : Mapped(s.table, d) <=> s.status_[d] \in Up
      BY <1>1 DEF ListIn
    <3>. QED  BY <1>3, <3>1, <3>2 DEF Up
  <2>4. ASSUME r.process = "running", r.reopened = {}, ~Cut(r) PROVE Live(r.table)
    <3>1. Live(s.table) /\ Mapped(s.table, c)
      BY <1>1, <1>3, <2>4 DEF ListIn, Cut
    <3>. QED  BY <1>3, <2>4, <3>1 DEF Left
  <2>. QED  BY <1>7, <2>1, <2>2, <2>3, <2>4 DEF ListIn
<1>17. Outside(r)
  <2>. SUFFICES ASSUME r.process = "undefined", r.reopened = {}, ~Cut(r)
                PROVE  \E d, e \in Channel : d # e /\ ClosedIn(r, d) /\ ClosedIn(r, e)
    BY DEF Outside
  <2>1. ~ok
    BY <1>3
  <2>2. ~Full(s.table, S)
    BY <1>3, <2>1 DEF Left
  <2>3. PICK d \in Channel : ClosedIn(s, d)
    BY <1>1, <2>2 DEF ListIn, S
  <2>4. d # c
    BY <1>3, <1>11, <2>3
  <2>. QED  BY <1>7, <1>8, <2>3, <2>4
<1>. QED
  BY <1>3, <1>9, <1>10, <1>15, <1>16, <1>17 DEF Moved, NetIn, Ending

-----------------------------------------------------------------------------
(* The beginning of a connection, and what a callback may do.               *)

\* The list with a channel more.
Entered(t, u, S, c) ==
    /\ u \in Table /\ Entries(u, S \cup {c})
    /\ u.interested_event_[c] = t.interested_event_[c] \cup {READEVENT}
    /\ \A d \in Channel \ {c} : u.interested_event_[d] = t.interested_event_[d]
    /\ \A d \in Channel : Mapped(u, d) <=> d = c \/ Mapped(t, d)
    /\ Live(t) => Live(u)
    /\ Full(t, S) => Full(u, S \cup {c})

\* A channel enters the list when it asks for READEVENT the first time.
LEMMA EnteredFacts ==
    ASSUME NEW t \in Table, NEW S \in SUBSET Channel, Entries(t, S), NEW c \in Channel \ S,
           NEW u, u = Enable(t, c, READEVENT, TRUE)
    PROVE  Entered(t, u, S, c)
<1> DEFINE events == t.interested_event_[c] \cup {READEVENT}
           v == [t EXCEPT !.interested_event_[c] = events]
<1>1. t.interested_event_ \in [Channel -> SUBSET Event] /\ events \in SUBSET Event
  BY TableType DEF Event
<1>2. u = UpdateChannel(v, c)
  <2>1. v = [t EXCEPT !.interested_event_[c] = @ \cup {READEVENT}]
    BY TableType DEF Table
  <2>. QED  BY <2>1 DEF Enable
<1>. HIDE DEF events
<1>3. /\ v \in Table
      /\ v.pollfds_ = t.pollfds_ /\ v.channels_ = t.channels_ /\ v.fd_ = t.fd_
      /\ v.interested_event_ = [t.interested_event_ EXCEPT ![c] = events]
      /\ v.poll_index_ = t.poll_index_
  BY <1>1, InterestFields
<1>. HIDE DEF v
<1>4. Entries(v, S) /\ (Live(t) => Live(v)) /\ (Full(t, S) => Full(v, S))
  BY <1>3 DEF Entries, Live, Full
<1>5. v.poll_index_[c] < 0
  <2>1. v.poll_index_[c] \in Int /\ ~(v.poll_index_[c] >= 0)
    BY <1>3, <1>4, TableType DEF Entries
  <2>. QED  BY <2>1
<1>6. u = Added(v, c)
  BY <1>2, <1>5 DEF UpdateChannel
<1>7. u \in Table /\ u.interested_event_ = v.interested_event_
  <2>1. Added(v, c) \in Table /\ Added(v, c).interested_event_ = v.interested_event_
    BY <1>3, AddedFields
  <2>. QED  BY <1>6, <2>1
<1>8. /\ Entries(u, S \cup {c})
      /\ Live(v) => Live(u)
      /\ Full(v, S) => Full(u, S \cup {c})
      /\ \A d \in Channel : u.channels_[u.fd_[d]] = IF d = c THEN c ELSE v.channels_[v.fd_[d]]
  <2>. DEFINE w == Added(v, c)
  <2>1. /\ Entries(w, S \cup {c})
        /\ Live(v) => Live(w)
        /\ Full(v, S) => Full(w, S \cup {c})
        /\ \A d \in Channel : w.channels_[w.fd_[d]] = IF d = c THEN c ELSE v.channels_[v.fd_[d]]
    BY <1>3, <1>4, AddedKeeps
  <2>. HIDE DEF w
  <2>2. u = w
    BY <1>6 DEF w
  <2>. QED  BY <2>1, <2>2
<1>9. \A d \in Channel : Mapped(u, d) <=> d = c \/ Mapped(t, d)
  BY <1>3, <1>8 DEF Mapped
<1>10. /\ u.interested_event_[c] = events
       /\ \A d \in Channel \ {c} : u.interested_event_[d] = t.interested_event_[d]
  BY <1>1, <1>3, <1>7
<1>. QED
  BY <1>4, <1>7, <1>8, <1>9, <1>10 DEF Entered, events

\* ConnectEstablished() up to the user's callback.
Established(s, c) ==
    Tell([s EXCEPT !.status_[c] = "CONNECTED", !.table = Enable(@, c, READEVENT, TRUE)],
         c, <<"UP">>)

\* A connection is up, and its user told.
LEMMA EstablishMoves ==
    ASSUME NEW s, NetIn(s), NEW c \in Channel, s.status_[c] = "CONNECTIONG",
           NEW r, r = Established(s, c)
    PROVE  /\ Moved(s, r, c) /\ r.status_[c] = "CONNECTED" /\ r.process = s.process
           /\ StackKept(s, r)
           /\ \A d \in Channel : Bytes(r, d) = Bytes(s, d)
<1> DEFINE S == Begun(s)
           t == s.table
           u == Enable(s.table, c, READEVENT, TRUE)
           e == Turn(s, c, "CONNECTED", u)
           up == <<"UP">>
<1>1. /\ s \in Net /\ ListIn(s) /\ Entries(t, S) /\ c \in Channel \ S /\ S \in SUBSET Channel
      /\ \A d \in Channel : Connection(s, d)
  BY DEF NetIn, ListIn, Begun
<1>2. t \in Table /\ "CONNECTED" \in Status
  BY <1>1, NetType DEF Status
<1>3. r = Tell(e, c, up)
  BY DEF Established, Turn
<1>. HIDE DEF S, t
<1>4. Entered(t, u, S, c)
  <2>1. u = Enable(t, c, READEVENT, TRUE)
    BY DEF t
  <2>. HIDE DEF u
  <2>. QED  BY <1>1, <1>2, <2>1, EnteredFacts
<1>. HIDE DEF u
<1>5. /\ u \in Table /\ Entries(u, S \cup {c})
      /\ u.interested_event_[c] = t.interested_event_[c] \cup {READEVENT}
      /\ \A d \in Channel \ {c} : u.interested_event_[d] = t.interested_event_[d]
      /\ \A d \in Channel : Mapped(u, d) <=> d = c \/ Mapped(t, d)
      /\ Live(t) => Live(u)
      /\ Full(t, S) => Full(u, S \cup {c})
  BY <1>4 DEF Entered
<1>6. /\ e \in Net
      /\ e.table = u /\ e.output_buffer_ = s.output_buffer_
      /\ e.socket = s.socket /\ e.told = s.told
      /\ e.reopened = s.reopened /\ e.process = s.process /\ StackKept(s, e)
      /\ \A d \in Channel : e.status_[d] = IF d = c THEN "CONNECTED" ELSE s.status_[d]
  BY <1>1, <1>2, <1>5, TurnFields
<1>7. up \in Seq(Callback) /\ Len(up) = 1 /\ up[1] = "UP"
  BY DEF Callback
<1>. HIDE DEF e, up
<1>8. /\ r \in Net
      /\ r.table = e.table /\ r.status_ = e.status_ /\ r.output_buffer_ = e.output_buffer_
      /\ r.socket = e.socket /\ r.reopened = e.reopened /\ r.process = e.process
      /\ StackKept(e, r)
      /\ \A d \in Channel : r.told[d] = IF d = c THEN e.told[c] \o up ELSE e.told[d]
  BY <1>3, <1>6, <1>7, TellFields
<1>20. StackKept(s, r)
  BY <1>6, <1>8 DEF StackKept
<1>21. \A d : Held(r, d) = Held(s, d) /\ (Stacked(r, d) <=> Stacked(s, d))
  BY <1>20, StackSame
<1>9. /\ s.told[c] = <<>> /\ c \notin s.reopened /\ ~s.socket[c].shut
      /\ (s.output_buffer_[c] # <<>> => IsWriting(s, c))
  <2>1. ToldAt(s, c) /\ OutputAt(s, c)
    BY <1>1 DEF Connection
  <2>2. s.told[c] = <<>>
    BY <2>1 DEF ToldAt
  <2>3. ~ClosedIn(s, c)
    BY <2>2 DEF ClosedIn, Range
  <2>. QED  BY <2>1, <2>2, <2>3 DEF ToldAt, OutputAt, Ending
<1>10. r.told[c] = up
  <2>1. <<>> \o up = up
    BY <1>7, ConcatEmptySeq
  <2>. QED  BY <1>6, <1>8, <1>9, <2>1
<1>11. \A d \in Channel : ClosedIn(r, d) <=> ClosedIn(s, d)
  <2>1. ~ClosedIn(r, c)
    <3>1. DOMAIN up = 1..1
      BY <1>7
    <3>. QED  BY <1>7, <1>10, <3>1 DEF ClosedIn, Range
  <2>2. ~ClosedIn(s, c)
    BY <1>9 DEF ClosedIn, Range
  <2>. QED  BY <1>6, <1>8, <2>1, <2>2 DEF ClosedIn
<1>12. \A d \in Channel : Bytes(r, d) = Bytes(s, d)
  BY <1>6, <1>8, <1>20, <1>21 DEF Bytes, Line, StackKept
<1>13. Others(s, r, c)
  BY <1>5, <1>6, <1>8, <1>20, <1>21 DEF Others, StackKept, t
<1>14. ToldAt(r, c)
  <2>1. InOrder(up) /\ \A i \in 1..Len(up) : up[i] \in {"UP", "MESSAGE"}
    <3>1. (\A i \in 1..1 : i = 1) /\ (\A i, j \in 1..1 : ~(i < j))
      OBVIOUS
    <3>. QED  BY <1>7, <3>1 DEF InOrder
  <2>. QED  BY <1>6, <1>8, <1>9, <1>10, <2>1 DEF ToldAt
<1>15. OutputAt(r, c)
  <2>1. IsWriting(s, c) => IsWriting(r, c)
    BY <1>5, <1>6, <1>8 DEF IsWriting, t
  <2>. QED  BY <1>6, <1>8, <1>9, <2>1 DEF OutputAt
<1>16. Connection(r, c)
  BY <1>1, <1>12, <1>14, <1>15 DEF Connection
<1>17. \A d \in Channel : Connection(r, d)
  BY <1>1, <1>13, <1>16, OthersKeep
<1>18. ListIn(r)
  <2>1. Begun(r) = S \cup {c}
    BY <1>6, <1>8 DEF Begun, S
  <2>2. ASSUME r.process = "running"
        PROVE  \A d \in Channel \ r.reopened : Mapped(r.table, d) <=> r.status_[d] \in Up
    <3>1. \A d \in Channel \ s.reopened : Mapped(t, d) <=> s.status_[d] \in Up
      BY <1>1, <1>6, <1>8, <2>2 DEF ListIn, t
    <3>. QED  BY <1>5, <1>6, <1>8, <3>1 DEF Up
  <2>3. ASSUME r.process = "running", r.reopened = {}, ~Cut(r) PROVE Live(r.table)
    BY <1>1, <1>5, <1>6, <1>8, <1>20, <2>3 DEF ListIn, Cut, StackKept, t
  <2>4. (\A d \in Channel : ~ClosedIn(r, d)) => Full(r.table, S \cup {c})
    BY <1>1, <1>5, <1>6, <1>8, <1>11 DEF ListIn, t, S
  <2>. QED  BY <1>5, <1>6, <1>8, <2>1, <2>2, <2>3, <2>4 DEF ListIn
<1>19. Outside(r)
  BY <1>6, <1>8, <1>11, <1>20 DEF NetIn, Outside, Cut, StackKept
<1>. QED
  BY <1>6, <1>8, <1>12, <1>13, <1>17, <1>18, <1>19, <1>20 DEF Moved, NetIn, Ending

\* HandleError() takes the error away.
LEMMA ErrorMoves ==
    ASSUME NEW s, NetIn(s), NEW c \in Channel, s.status_[c] # "CONNECTIONG",
           NEW r, r = HandleError(s, c)
    PROVE  /\ Moved(s, r, c) /\ r.status_ = s.status_
           /\ StackKept(s, r) /\ r.output_buffer_ = s.output_buffer_
           /\ \A d \in Channel : Bytes(r, d) = Bytes(s, d)
<1> DEFINE k == [s.socket[c] EXCEPT !.error = FALSE]
<1>1. s \in Net /\ s.socket \in [Channel -> Socket] /\ s.socket[c] \in Socket
  BY NetType DEF NetIn
<1>2. k \in Socket /\ k.sent = s.socket[c].sent /\ k.shut = s.socket[c].shut
  BY <1>1 DEF Socket
<1>3. r = [s EXCEPT !.socket[c] = k]
  <2>1. s.socket[c] = s.socket[c] /\ r = [s EXCEPT !.socket[c].error = FALSE]
    BY DEF HandleError
  <2>. QED  BY <1>1, <2>1 DEF Net, Socket
<1>. HIDE DEF k
<1>4. /\ NetIn(r) /\ Others(s, r, c) /\ r.status_ = s.status_
      /\ StackKept(s, r) /\ r.output_buffer_ = s.output_buffer_
      /\ \A d \in Channel : Bytes(r, d) = Bytes(s, d)
  BY <1>2, <1>3, SocketMoved
<1>. QED
  BY <1>4 DEF Moved

\* The bytes of the other connections stay.
LEMMA MovedBytes ==
    ASSUME NEW s, NEW r, NEW c \in Channel, Moved(s, r, c)
    PROVE  \A d \in Channel \ {c} : Bytes(r, d) = Bytes(s, d)
<1>1. Others(s, r, c)
  BY DEF Moved
<1>. QED  BY <1>1 DEF Others, Bytes, Line

\* A method that does nothing.
LEMMA Unmoved ==
    ASSUME NEW s, NetIn(s), NEW c \in Channel, s.status_[c] # "CONNECTIONG"
    PROVE  Moved(s, s, c)
BY DEF Moved, Others, NetIn

\* The bytes of no connection change, but those of c, which may get a message more, or
\* be spoken of no longer.
Longer(s, r, c, data) ==
    \A d \in Channel : \/ Bytes(r, d) = Bytes(s, d)
                       \/ d = c /\ Bytes(r, c) = Bytes(s, c) \o data
                       \/ Bytes(r, d) = <<>>

-----------------------------------------------------------------------------
(* The callbacks under way.                                                 *)

\* A short write waits for one of c's callbacks.
Pending(s, c) == \E i \in DOMAIN s.stack : s.stack[i].conn = c /\ s.stack[i].then = "append"

\* A callback under way: only a short write keeps bytes, and it finds nothing in the
\* output, unless the callback has sent.
FrameIn(s, f) ==
    /\ s.status_[f.conn] # "CONNECTIONG"
    /\ f.then # "append" => f.data = <<>>
    /\ f.then = "append" =>
           /\ s.output_buffer_[f.conn] = <<>> \/ "Send" \in s.interrupted[f.conn]
           /\ s.status_[f.conn] = "DISCONNECTED" => "ForceClose" \in s.interrupted[f.conn]

\* Callbacks are of one connection, and over a short write only a Send() makes another.
\* HandleWrite() makes the outermost.
StackIn(s) ==
    \A i \in 1..Len(s.stack) :
        /\ s.stack[i].conn = s.stack[1].conn
        /\ FrameIn(s, s.stack[i])
        /\ s.stack[i].then = "append" /\ i # 1 => "Send" \in s.interrupted[s.stack[i].conn]
        /\ s.stack[i].then = "shutdown" => i = Len(s.stack)

\* No callback is under way.
LEMMA StackEmpty ==
    ASSUME NEW s, s.stack = <<>>
    PROVE  /\ StackIn(s)
           /\ \A c : Callable(s, c) /\ ~Stacked(s, c) /\ ~Pending(s, c)
<1>1. Len(s.stack) = 0 /\ 1..0 = {} /\ DOMAIN s.stack = {}
  OBVIOUS
<1>. QED  BY <1>1 DEF StackIn, Callable, Stacked, Pending, Held

\* One is.
LEMMA StackTop ==
    ASSUME NEW s \in Net, StackIn(s), s.stack # <<>>, NEW c, c = Head(s.stack).conn
    PROVE  /\ c \in Channel /\ 1 \in 1..Len(s.stack) /\ Head(s.stack) = s.stack[1]
           /\ Head(s.stack) \in Frame /\ FrameIn(s, Head(s.stack))
           /\ \A i \in 1..Len(s.stack) : s.stack[i].conn = c
           /\ DOMAIN s.stack = 1..Len(s.stack)
           /\ Stacked(s, c) => Pending(s, c)
           /\ Held(s, c) # <<>> => Pending(s, c)
<1>. DEFINE z == s.stack
<1>1. z \in Seq(Frame) /\ z # <<>> /\ z = s.stack
  BY NetType
<1>. HIDE DEF z
<1>2. /\ 1 \in 1..Len(z) /\ Head(z) = z[1] /\ Head(z) \in Frame
      /\ DOMAIN z = 1..Len(z) /\ Len(z) \in Nat
  BY <1>1
<1>3. c = z[1].conn /\ c \in Channel
  BY <1>1, <1>2 DEF Frame
<1>4. \A i \in 1..Len(z) : z[i].conn = c /\ FrameIn(s, z[i])
  BY <1>1, <1>2, <1>3 DEF StackIn
<1>5. ASSUME NEW i \in 1..Len(z), z[i].data # <<>> PROVE Pending(s, c)
  <2>1. z[i].conn = c /\ z[i].then = "append"
    BY <1>4, <1>5 DEF FrameIn
  <2>. QED  BY <1>1, <1>2, <2>1 DEF Pending
<1>6. Stacked(s, c) => Pending(s, c)
  BY <1>1, <1>5 DEF Stacked
<1>7. Held(s, c) # <<>> => Pending(s, c)
  BY <1>1, <1>2, <1>5 DEF Held
<1>. QED  BY <1>1, <1>2, <1>3, <1>4, <1>6, <1>7

\* What a step must leave of the connections whose callbacks are under way.
Settled(s, r) ==
    \A d \in Channel :
        /\ s.interrupted[d] \subseteq r.interrupted[d]
        /\ s.status_[d] # "CONNECTIONG" => r.status_[d] # "CONNECTIONG"
        /\ Pending(s, d) =>
               /\ r.output_buffer_[d] = s.output_buffer_[d] \/ "Send" \in r.interrupted[d]
               /\ r.status_[d] = "DISCONNECTED" =>
                      s.status_[d] = "DISCONNECTED" \/ "ForceClose" \in r.interrupted[d]

\* The callbacks under way are the same.
LEMMA StackSteady ==
    ASSUME NEW s \in Net, StackIn(s), NEW r, r.stack = s.stack, Settled(s, r)
    PROVE  StackIn(r)
<1>. DEFINE z == s.stack
<1>1. z \in Seq(Frame) /\ z = s.stack /\ z = r.stack
  BY NetType
<1>. HIDE DEF z
<1>2. DOMAIN z = 1..Len(z)
  BY <1>1
<1>3. ASSUME NEW i \in 1..Len(z)
      PROVE  /\ FrameIn(r, z[i])
             /\ z[i].then = "append" /\ i # 1 => "Send" \in r.interrupted[z[i].conn]
  <2>. DEFINE f == z[i]
  <2>1. f \in Frame /\ f = z[i]
    BY <1>1
  <2>2. /\ FrameIn(s, f)
        /\ f.then = "append" /\ i # 1 => "Send" \in s.interrupted[f.conn]
    BY <1>1 DEF StackIn
  <2>3. f.then = "append" => Pending(s, f.conn)
    BY <1>1, <1>2 DEF Pending
  <2>. HIDE DEF f
  <2>4. f.conn \in Channel
    BY <2>1 DEF Frame
  <2>5. /\ s.interrupted[f.conn] \subseteq r.interrupted[f.conn]
        /\ s.status_[f.conn] # "CONNECTIONG" => r.status_[f.conn] # "CONNECTIONG"
        /\ Pending(s, f.conn) =>
               /\ \/ r.output_buffer_[f.conn] = s.output_buffer_[f.conn]
                  \/ "Send" \in r.interrupted[f.conn]
               /\ r.status_[f.conn] = "DISCONNECTED" =>
                      \/ s.status_[f.conn] = "DISCONNECTED"
                      \/ "ForceClose" \in r.interrupted[f.conn]
    BY <2>4 DEF Settled
  <2>6. FrameIn(r, f)
    BY <2>2, <2>3, <2>5 DEF FrameIn
  <2>7. f.then = "append" /\ i # 1 => "Send" \in r.interrupted[f.conn]
    BY <2>2, <2>5
  <2>. QED  BY <2>6, <2>7 DEF f
<1>. QED  BY <1>1, <1>3 DEF StackIn

\* Another callback is made.
LEMMA StackPushed ==
    ASSUME NEW s \in Net, StackIn(s), NEW c \in Channel,
           \A i \in 1..Len(s.stack) : s.stack[i].conn = c,
           NEW f \in Frame, f.conn = c, f.then = "shutdown" => s.stack = <<>>,
           NEW r, r.stack = <<f>> \o s.stack, r.status_ = s.status_,
           r.interrupted = s.interrupted, FrameIn(r, f),
           Pending(s, c) => "Send" \in s.interrupted[c]
    PROVE  StackIn(r)
<1>. DEFINE z == s.stack
            y == <<f>> \o z
<1>1. z \in Seq(Frame) /\ z = s.stack
  BY NetType
<1>. HIDE DEF z
<1>2. <<f>> \in Seq(Frame) /\ Len(<<f>>) = 1 /\ <<f>>[1] = f
  OBVIOUS
<1>3. /\ y \in Seq(Frame) /\ Len(y) = 1 + Len(z) /\ Len(z) \in Nat
      /\ y[1] = f /\ \A i \in 1..Len(z) : y[1 + i] = z[i]
  BY <1>1, <1>2, ConcatProperties
<1>4. r.stack = y /\ DOMAIN z = 1..Len(z)
  BY <1>1
<1>. HIDE DEF y
<1>5. \A i \in 1..Len(y) : i = 1 \/ (i - 1 \in 1..Len(z) /\ y[i] = z[i - 1])
  <2>1. \A i \in 1..Len(y) : i = 1 \/ (i - 1 \in 1..Len(z) /\ 1 + (i - 1) = i)
    BY <1>3
  <2>. QED  BY <1>3, <2>1
<1>6. ASSUME NEW j \in 1..Len(z)
      PROVE  /\ z[j].conn = c /\ FrameIn(r, z[j])
             /\ z[j].then = "append" => "Send" \in r.interrupted[c]
             /\ z[j].then = "shutdown" => 1 + j = Len(y)
  <2>1. z[j].conn = c /\ FrameIn(s, z[j]) /\ (z[j].then = "shutdown" => j = Len(z))
    BY <1>1 DEF StackIn
  <2>2. z[j].then = "append" => "Send" \in r.interrupted[c]
    BY <1>1, <1>4, <2>1 DEF Pending
  <2>3. FrameIn(r, z[j])
    BY <2>1, <2>2 DEF FrameIn
  <2>. QED  BY <1>3, <2>1, <2>2, <2>3
<1>7. f.then = "shutdown" => 1 = Len(y)
  <2>1. z = <<>> => Len(z) = 0
    OBVIOUS
  <2>. QED  BY <1>1, <1>3, <2>1
<1>8. ASSUME NEW i \in 1..Len(y)
      PROVE  /\ y[i].conn = y[1].conn /\ FrameIn(r, y[i])
             /\ y[i].then = "append" /\ i # 1 => "Send" \in r.interrupted[y[i].conn]
             /\ y[i].then = "shutdown" => i = Len(y)
  <2>1. CASE i = 1
    BY <1>3, <1>7, <2>1
  <2>2. CASE i # 1
    <3>1. i - 1 \in 1..Len(z) /\ y[i] = z[i - 1] /\ 1 + (i - 1) = i
      BY <1>3, <1>5, <2>2
    <3>. QED  BY <1>3, <1>6, <3>1
  <2>. QED  BY <2>1, <2>2
<1>. QED  BY <1>4, <1>8 DEF StackIn

\* All callbacks under way are c's.
OnlyOf(s, c) == \A i \in 1..Len(s.stack) : s.stack[i].conn = c

\* The callbacks after SendInLoop().
LEMMA SentStack ==
    ASSUME NEW s \in Net, StackIn(s), NEW c \in Channel, s.status_[c] # "CONNECTIONG",
           OnlyOf(s, c), Pending(s, c) => "Send" \in s.interrupted[c],
           NEW r, SentTo(s, c, r), r.status_ = s.status_, r.interrupted = s.interrupted
    PROVE  StackIn(r) /\ OnlyOf(r, c)
<1>1. CASE r.stack = s.stack
  <2>1. DOMAIN s.stack = 1..Len(s.stack)
    <3>1. s.stack \in Seq(Frame)
      BY NetType
    <3>. QED  BY <3>1
  <2>2. \A d \in Channel : Pending(s, d) => d = c
    BY <2>1 DEF Pending, OnlyOf
  <2>3. Settled(s, r)
    BY <2>2 DEF Settled
  <2>. QED  BY <1>1, <2>3, StackSteady DEF OnlyOf
<1>2. ASSUME NEW then \in {"return", "append"}, NEW data \in Seq(Byte),
             r.stack = <<[then |-> then, conn |-> c, data |-> data]>> \o s.stack,
             then # "append" => data = <<>>,
             then = "append" => s.status_[c] # "DISCONNECTED",
             r.output_buffer_[c] = <<>>
      PROVE  StackIn(r) /\ OnlyOf(r, c)
  <2>. DEFINE f == [then |-> then, conn |-> c, data |-> data]
  <2>1. f \in Frame /\ f.conn = c /\ f.then = then /\ f.data = data
    BY DEF Frame
  <2>2. r.stack = <<f>> \o s.stack
    BY <1>2
  <2>. HIDE DEF f
  <2>3. FrameIn(r, f)
    BY <1>2, <2>1 DEF FrameIn
  <2>4. f.then # "shutdown" /\ \A i \in 1..Len(s.stack) : s.stack[i].conn = c
    BY <2>1 DEF OnlyOf
  <2>5. StackIn(r)
    BY <2>1, <2>2, <2>3, <2>4, StackPushed
  <2>6. OnlyOf(r, c)
    <3>1. s.stack \in Seq(Frame) /\ <<f>> \in Seq(Frame) /\ Len(<<f>>) = 1 /\ <<f>>[1] = f
      BY <2>1, NetType
    <3>2. /\ r.stack \in Seq(Frame) /\ r.stack[1] = f /\ Len(r.stack) = 1 + Len(s.stack)
          /\ Len(s.stack) \in Nat
      BY <2>2, <3>1, ConcatProperties
    <3>3. \A i \in 1..Len(r.stack) : r.stack[i].conn = r.stack[1].conn
      BY <2>5 DEF StackIn
    <3>. QED  BY <2>1, <3>2, <3>3 DEF OnlyOf
  <2>. QED  BY <2>5, <2>6
<1>. QED  BY <1>1, <1>2 DEF SentTo

\* What is noted of a call that interrupts a short write.
Noted(s, c, op, r) ==
    /\ r \in Net
    /\ r.table = s.table /\ r.status_ = s.status_ /\ r.output_buffer_ = s.output_buffer_
    /\ r.socket = s.socket /\ r.told = s.told /\ r.stack = s.stack
    /\ r.reopened = s.reopened /\ r.process = s.process
    /\ \A d \in Channel : s.interrupted[d] \subseteq r.interrupted[d]
    /\ Pending(r, c) => op \in r.interrupted[c]
    /\ \A d \in Channel : Bytes(r, d) = Bytes(s, d) \/ "Send" \in r.interrupted[d]

LEMMA InterruptMoves ==
    ASSUME NEW s, NetIn(s), StackIn(s), NEW c \in Channel, NEW op \in Op,
           NEW r, r = Interrupt(s, c, op)
    PROVE  NetIn(r) /\ StackIn(r) /\ Noted(s, c, op, r)
<1>0. s \in Net /\ s.interrupted \in [Channel -> SUBSET Op]
  BY NetType DEF NetIn
<1>. DEFINE ops == IF Pending(s, c) THEN s.interrupted[c] \cup {op} ELSE s.interrupted[c]
<1>1. /\ r.table = s.table /\ r.status_ = s.status_ /\ r.output_buffer_ = s.output_buffer_
      /\ r.socket = s.socket /\ r.told = s.told /\ r.stack = s.stack
      /\ r.reopened = s.reopened /\ r.process = s.process
      /\ r.interrupted = [s.interrupted EXCEPT ![c] = ops]
      /\ r = [s EXCEPT !.interrupted = r.interrupted]
  BY <1>0 DEF Interrupt, Pending, Net
<1>2. ops \in SUBSET Op
  BY <1>0
<1>3. Pending(s, c) => op \in ops
  OBVIOUS
<1>4. s.interrupted[c] \subseteq ops
  OBVIOUS
<1>. HIDE DEF ops
<1>5. r.interrupted \in [Channel -> SUBSET Op]
  BY <1>0, <1>1, <1>2
<1>6. r \in Net
  BY <1>0, <1>1, <1>5 DEF Net
<1>7. \A d \in Channel : s.interrupted[d] \subseteq r.interrupted[d]
  BY <1>0, <1>1, <1>4
<1>8. Pending(r, c) => op \in r.interrupted[c]
  BY <1>0, <1>1, <1>3 DEF Pending
<1>9. \A d \in Channel : Held(r, d) = Held(s, d) /\ (Stacked(r, d) <=> Stacked(s, d))
  BY <1>1 DEF Held, Stacked
<1>10. ASSUME NEW d \in Channel
       PROVE  Bytes(r, d) = Bytes(s, d) \/ "Send" \in r.interrupted[d]
  BY <1>1, <1>7, <1>9 DEF Bytes, Line
<1>11. \A d \in Channel : Connection(r, d)
  <2>1. ASSUME NEW d \in Channel PROVE Connection(r, d)
    <3>1. OutputAt(s, d) /\ ToldAt(s, d) /\ Whole(Bytes(s, d))
      BY DEF NetIn, Connection
    <3>2. s.interrupted[d] \subseteq r.interrupted[d]
      BY <1>7
    <3>3. OutputAt(r, d)
      BY <1>1, <1>9, <3>1, <3>2 DEF OutputAt, IsWriting, ClosedIn
    <3>4. ToldAt(r, d)
      BY <1>1, <3>1 DEF ToldAt, ClosedIn
    <3>5. Whole(Bytes(r, d))
      <4>1. Whole(<<>>)
        BY DEF Whole
      <4>2. "Send" \in r.interrupted[d] => Bytes(r, d) = <<>>
        BY DEF Bytes
      <4>. QED  BY <1>10, <3>1, <4>1, <4>2
    <3>. QED  BY <3>3, <3>4, <3>5 DEF Connection
  <2>. QED  BY <2>1
<1>12. Cut(s) => Cut(r)
  BY <1>7 DEF Cut
<1>13. \A d \in Channel : ClosedIn(r, d) <=> ClosedIn(s, d)
  BY <1>1 DEF ClosedIn
<1>14. ListIn(r)
  <2>1. Begun(r) = Begun(s)
    BY <1>1 DEF Begun
  <2>. QED  BY <1>1, <1>12, <1>13, <2>1 DEF NetIn, ListIn
<1>15. Outside(r)
  BY <1>1, <1>12, <1>13 DEF NetIn, Outside
<1>16. NetIn(r)
  BY <1>6, <1>11, <1>14, <1>15 DEF NetIn
<1>17. StackIn(r)
  <2>1. Settled(s, r)
    BY <1>1, <1>7 DEF Settled
  <2>. QED  BY <1>0, <1>1, <2>1, StackSteady
<1>. QED  BY <1>1, <1>6, <1>7, <1>8, <1>10, <1>16, <1>17 DEF Noted

\* A method has moved connection c, and may have called its user.
Made(s, r, c) == Moved(s, r, c) /\ StackIn(r) /\ OnlyOf(r, c)

\* A method that calls nobody.
LEMMA KeptStack ==
    ASSUME NEW s \in Net, StackIn(s), NEW c \in Channel, OnlyOf(s, c),
           NEW r, Moved(s, r, c), StackKept(s, r), r.output_buffer_ = s.output_buffer_,
           Pending(s, c) /\ r.status_[c] = "DISCONNECTED" =>
               s.status_[c] = "DISCONNECTED" \/ "ForceClose" \in s.interrupted[c]
    PROVE  Made(s, r, c)
<1>1. DOMAIN s.stack = 1..Len(s.stack)
  <2>1. s.stack \in Seq(Frame)
    BY NetType
  <2>. QED  BY <2>1
<1>2. \A d \in Channel : Pending(s, d) => d = c
  BY <1>1 DEF Pending, OnlyOf
<1>3. Settled(s, r)
  <2>1. ASSUME NEW d \in Channel
        PROVE  s.status_[d] # "CONNECTIONG" => r.status_[d] # "CONNECTIONG"
    BY DEF Moved, Others
  <2>2. r.interrupted = s.interrupted /\ r.output_buffer_ = s.output_buffer_
    BY DEF StackKept
  <2>. QED  BY <1>2, <2>1, <2>2 DEF Settled
<1>4. r.stack = s.stack
  BY DEF StackKept
<1>5. StackIn(r)
  BY <1>3, <1>4, StackSteady
<1>. QED  BY <1>4, <1>5 DEF Made, OnlyOf

\* A callback that keeps nothing from the output, when none is under way.
LEMMA CallMade ==
    ASSUME NEW s, NetIn(s), NEW c \in Channel, s.status_[c] # "CONNECTIONG", s.stack = <<>>,
           NEW then \in {"return", "shutdown"},
           NEW r, r.stack = <<[then |-> then, conn |-> c, data |-> <<>>]>> \o s.stack,
           Moved(s, r, c), r.status_ = s.status_
    PROVE  Made(s, r, c)
<1>. DEFINE f == [then |-> then, conn |-> c, data |-> <<>>]
<1>1. f \in Frame /\ f.conn = c /\ f.then = then /\ f.data = <<>>
  <2>1. <<>> \in Seq(Byte)
    OBVIOUS
  <2>. QED  BY <2>1 DEF Frame
<1>2. r.stack = <<f>> \o s.stack
  OBVIOUS
<1>. HIDE DEF f
<1>3. StackIn(s) /\ ~Pending(s, c) /\ OnlyOf(s, c) /\ s \in Net
  BY StackEmpty DEF Callable, OnlyOf, NetIn
<1>4. FrameIn(r, f)
  BY <1>1 DEF FrameIn
<1>5. r.interrupted = s.interrupted
  BY DEF Moved, Others
<1>6. StackIn(r)
  <2>1. \A i \in 1..Len(s.stack) : s.stack[i].conn = c
    BY <1>3 DEF OnlyOf
  <2>. QED  BY <1>1, <1>2, <1>3, <1>4, <1>5, <2>1, StackPushed
<1>7. r.stack = <<f>>
  <2>1. <<f>> \in Seq(Frame)
    BY <1>1
  <2>. QED  BY <1>2, <2>1, ConcatEmptySeq
<1>8. OnlyOf(r, c)
  <2>1. Len(r.stack) = 1 /\ r.stack[1] = f
    BY <1>1, <1>7
  <2>2. \A i \in 1..1 : i = 1
    OBVIOUS
  <2>. QED  BY <1>1, <2>1, <2>2 DEF OnlyOf
<1>. QED  BY <1>6, <1>8 DEF Made

\* A callback sends.
LEMMA LoopSends ==
    ASSUME NEW s, NetIn(s), NEW c \in Channel, s.status_[c] # "CONNECTIONG", Callable(s, c),
           next \in 1..MaxMessage, Before(Bytes(s, c), Loop, next),
           NEW r, r = SendInLoop(s, c, Message(Loop))
    PROVE  /\ Moved(s, r, c) /\ r.status_ = s.status_ /\ SentTo(s, c, r)
           /\ Bytes(r, c) \in {Bytes(s, c), Bytes(s, c) \o Message(Loop), <<>>}
<1>1. PICK m \in 1..MaxMessage : m = next
  OBVIOUS
<1>2. PICK data : data = Message(Loop)
  OBVIOUS
<1>3. IsMessage(data, Loop, m) /\ Before(Bytes(s, c), Loop, m) /\ r = SendInLoop(s, c, data)
  BY <1>1, <1>2 DEF IsMessage, Message
<1>4. Loop \in Thread \cup {Loop}
  OBVIOUS
<1>5. /\ Moved(s, r, c) /\ r.status_ = s.status_ /\ r.process \in {s.process, "killed"}
      /\ Bytes(r, c) \in {Bytes(s, c), Bytes(s, c) \o data, <<>>}
      /\ SentTo(s, c, r)
  BY <1>3, <1>4, SendMoves
<1>. QED  BY <1>2, <1>5

\* What a user's callback does, called in the loop.
LEMMA ReplyMoves ==
    ASSUME NEW s, NetIn(s), StackIn(s), s.process = "running", NEW c \in Channel,
           s.status_[c] # "CONNECTIONG", OnlyOf(s, c), NEW op \in Op,
           op = "Send" => Callable(s, c),
           Accepts(op, s.status_[c]), Pending(s, c) => op \in s.interrupted[c],
           Stacked(s, c) => Pending(s, c),
           op = "Send" => next \in 1..MaxMessage /\ Before(Bytes(s, c), Loop, next),
           NEW r, r = FromLoop(s, c, op)
    PROVE  /\ Made(s, r, c)
           /\ op = "Send" => Longer(s, r, c, Message(Loop))
           /\ op # "Send" => \A d \in Channel : Bytes(r, d) = Bytes(s, d)
<1>0. s \in Net /\ op \in {"Send", "Shutdown", "ForceClose"}
  BY DEF NetIn, Op
<1>1. CASE op = "Send"
  <2>1. r = SendInLoop(s, c, Message(Loop))
    BY <1>1 DEF FromLoop
  <2>2. next \in 1..MaxMessage /\ Before(Bytes(s, c), Loop, next) /\ Callable(s, c)
    BY <1>1
  <2>3. /\ Moved(s, r, c) /\ r.status_ = s.status_ /\ SentTo(s, c, r)
        /\ Bytes(r, c) \in {Bytes(s, c), Bytes(s, c) \o Message(Loop), <<>>}
    BY <2>1, <2>2, LoopSends
  <2>4. \A d \in Channel \ {c} : Bytes(r, d) = Bytes(s, d)
    BY <2>3, MovedBytes
  <2>5. Longer(s, r, c, Message(Loop))
    BY <2>3, <2>4 DEF Longer
  <2>6. r.interrupted = s.interrupted
    BY <2>3 DEF Moved, Others
  <2>7. StackIn(r) /\ OnlyOf(r, c)
    BY <1>0, <1>1, <2>3, <2>6, SentStack
  <2>. QED  BY <1>1, <2>3, <2>5, <2>7 DEF Made
<1>2. CASE op = "Shutdown"
  <2>. DEFINE e == [s EXCEPT !.status_[c] = "DISCONNECTING"]
  <2>1. r = ShutdownInLoop(e, c)
    BY <1>2 DEF FromLoop
  <2>2. /\ Moved(s, e, c) /\ e.status_[c] = "DISCONNECTING" /\ StackKept(s, e)
        /\ e.output_buffer_ = s.output_buffer_
        /\ \A d \in Channel : Bytes(e, d) = Bytes(s, d)
    <3>1. s.status_[c] \in Up
      BY <1>2 DEF Up, Accepts
    <3>2. e = EndingFrom(s, c)
      BY DEF EndingFrom
    <3>. HIDE DEF e
    <3>. QED  BY <3>1, <3>2, EndingSet
  <2>. HIDE DEF e
  <2>3. NetIn(e) /\ e.status_[c] \in Ending
    BY <2>2 DEF Moved, Ending
  <2>4. ~Stacked(e, c) \/ "Shutdown" \in e.interrupted[c]
    BY <1>2, <2>2 DEF StackKept, Stacked
  <2>5. /\ Moved(e, r, c) /\ r.status_ = e.status_ /\ StackKept(e, r)
        /\ r.output_buffer_ = e.output_buffer_
        /\ \A d \in Channel : Bytes(r, d) = Bytes(e, d)
    BY <2>1, <2>3, <2>4, ShutdownMoves
  <2>6. Moved(s, r, c)
    BY <2>2, <2>5, MovedTwice
  <2>7. StackKept(s, r) /\ r.output_buffer_ = s.output_buffer_
    BY <2>2, <2>5 DEF StackKept
  <2>8. r.status_[c] # "DISCONNECTED"
    BY <2>2, <2>5
  <2>9. Made(s, r, c)
    BY <1>0, <2>6, <2>7, <2>8, KeptStack
  <2>. QED  BY <1>2, <2>2, <2>5, <2>9
<1>3. CASE op = "ForceClose"
  <2>. DEFINE e == [s EXCEPT !.status_[c] = "DISCONNECTING"]
  <2>1. r = ForceCloseInLoop(e, c)
    BY <1>3 DEF FromLoop
  <2>2. /\ Moved(s, e, c) /\ e.status_[c] = "DISCONNECTING" /\ e.process = s.process
        /\ StackKept(s, e) /\ e.output_buffer_ = s.output_buffer_
        /\ \A d \in Channel : Bytes(e, d) = Bytes(s, d)
    <3>1. s.status_[c] \in Up
      BY <1>3 DEF Up, Accepts
    <3>2. e = EndingFrom(s, c)
      BY DEF EndingFrom
    <3>. HIDE DEF e
    <3>. QED  BY <3>1, <3>2, EndingSet
  <2>. HIDE DEF e
  <2>3. NetIn(e) /\ e.status_[c] \in Up /\ e.status_[c] # "CONNECTIONG"
    BY <2>2 DEF Moved, Up
  <2>4. r = HandleClose(e, c)
    BY <2>1, <2>2 DEF ForceCloseInLoop
  <2>5. /\ Moved(e, r, c) /\ StackKept(e, r) /\ r.output_buffer_ = e.output_buffer_
        /\ \A d \in Channel : Bytes(r, d) = Bytes(e, d)
    BY <2>2, <2>3, <2>4, CloseMoves
  <2>6. Moved(s, r, c)
    BY <2>2, <2>5, MovedTwice
  <2>7. StackKept(s, r) /\ r.output_buffer_ = s.output_buffer_
    BY <2>2, <2>5 DEF StackKept
  <2>9. Made(s, r, c)
    BY <1>0, <1>3, <2>6, <2>7, KeptStack
  <2>. QED  BY <1>3, <2>2, <2>5, <2>9
<1>. QED  BY <1>0, <1>1, <1>2, <1>3

\* ConnectEstablished() and the callback it makes.
LEMMA UpMoves ==
    ASSUME NEW s, NetIn(s), s.stack = <<>>, NEW c \in Channel,
           s.status_[c] = "CONNECTIONG", NEW r, r = ConnectEstablished(s, c)
    PROVE  Made(s, r, c) /\ \A d \in Channel : Bytes(r, d) = Bytes(s, d)
<1> DEFINE e == Established(s, c)
<1>1. /\ Moved(s, e, c) /\ e.status_[c] = "CONNECTED" /\ StackKept(s, e)
      /\ \A d \in Channel : Bytes(e, d) = Bytes(s, d)
  BY EstablishMoves
<1>2. r = RunCallback(e, c, "return", <<>>)
  BY DEF ConnectEstablished, Established
<1>. HIDE DEF e
<1>3. NetIn(e) /\ e.status_[c] # "CONNECTIONG" /\ e.stack = <<>>
  BY <1>1 DEF Moved, StackKept
<1>4. Callable(e, c)
  BY <1>3, StackEmpty
<1>5. Moved(e, r, c) /\ Bytes(r, c) = Bytes(e, c) /\ Calls(e, c, "return", <<>>, r)
  BY <1>2, <1>3, <1>4, CallMoves
<1>6. r.stack = <<[then |-> "return", conn |-> c, data |-> <<>>]>> \o e.stack
      /\ r.status_ = e.status_
  BY <1>5 DEF Calls
<1>7. Made(e, r, c)
  BY <1>3, <1>5, <1>6, CallMade
<1>8. Moved(s, r, c)
  BY <1>1, <1>5, MovedTwice
<1>9. \A d \in Channel \ {c} : Bytes(r, d) = Bytes(e, d)
  BY <1>5, MovedBytes
<1>. QED  BY <1>1, <1>5, <1>7, <1>8, <1>9 DEF Made

\* HandleRead(): the data and a callback, the error, or the end of the stream.
LEMMA ReadMoves ==
    ASSUME NEW s, NetIn(s), s.stack = <<>>, s.process = "running", NEW c \in Channel,
           s.status_[c] # "CONNECTIONG", s.status_[c] \in Up \/ c \in s.reopened,
           NEW r, r = HandleRead(s, c)
    PROVE  Made(s, r, c) /\ \A d \in Channel : Bytes(r, d) = Bytes(s, d)
<1>0. s \in Net /\ StackIn(s) /\ OnlyOf(s, c) /\ ~Pending(s, c)
  BY StackEmpty DEF NetIn, Callable, OnlyOf
<1>1. CASE s.socket[c].arrived > 0
  <2>. DEFINE k == [s.socket[c] EXCEPT !.arrived = 0]
              d1 == [s EXCEPT !.socket[c] = k]
              e == Tell(d1, c, <<"MESSAGE">>)
  <2>1. s \in Net /\ s.socket \in [Channel -> Socket] /\ s.socket[c] \in Socket
    BY NetType DEF NetIn
  <2>2. k \in Socket /\ k.sent = s.socket[c].sent /\ k.shut = s.socket[c].shut
    <3>1. 0 \in 0..MaxArrival
      BY Bounds
    <3>. QED  BY <2>1, <3>1 DEF Socket
  <2>3. r = RunCallback(e, c, "return", <<>>)
    <3>1. d1 = [s EXCEPT !.socket[c].arrived = 0]
      BY <2>1 DEF Net, Socket
    <3>. QED  BY <1>1, <3>1 DEF HandleRead
  <2>. HIDE DEF k
  <2>4. /\ NetIn(d1) /\ Others(s, d1, c) /\ d1.status_ = s.status_ /\ d1.process = s.process
        /\ d1.reopened = s.reopened /\ StackKept(s, d1)
        /\ \A d \in Channel : Bytes(d1, d) = Bytes(s, d)
    BY <2>2, SocketMoved
  <2>. HIDE DEF d1
  <2>5. Moved(s, d1, c)
    BY <2>4 DEF Moved
  <2>6. /\ Moved(d1, e, c) /\ e.status_ = d1.status_ /\ StackKept(d1, e)
        /\ \A d \in Channel : Bytes(e, d) = Bytes(d1, d)
    BY <2>4, MessageTold
  <2>. HIDE DEF e
  <2>7. /\ NetIn(e) /\ e.status_[c] # "CONNECTIONG" /\ e.stack = <<>>
        /\ \A d \in Channel : Bytes(e, d) = Bytes(s, d)
    BY <2>4, <2>6 DEF Moved, StackKept
  <2>8. Callable(e, c)
    BY <2>7, StackEmpty
  <2>9. Moved(e, r, c) /\ Bytes(r, c) = Bytes(e, c) /\ Calls(e, c, "return", <<>>, r)
    BY <2>3, <2>7, <2>8, CallMoves
  <2>10. r.stack = <<[then |-> "return", conn |-> c, data |-> <<>>]>> \o e.stack
         /\ r.status_ = e.status_
    BY <2>9 DEF Calls
  <2>11. Made(e, r, c)
    BY <2>7, <2>9, <2>10, CallMade
  <2>12. Moved(s, e, c)
    BY <2>5, <2>6, MovedTwice
  <2>13. Moved(s, r, c)
    BY <2>9, <2>12, MovedTwice
  <2>14. \A d \in Channel \ {c} : Bytes(r, d) = Bytes(e, d)
    BY <2>9, MovedBytes
  <2>. QED  BY <2>7, <2>9, <2>11, <2>13, <2>14 DEF Made
<1>2. CASE ~(s.socket[c].arrived > 0)
           /\ (s.socket[c].error \/ ~(s.socket[c].fin \/ s.socket[c].reset))
  <2>1. r = HandleError(s, c)
    BY <1>2 DEF HandleRead
  <2>2. /\ Moved(s, r, c) /\ StackKept(s, r) /\ r.output_buffer_ = s.output_buffer_
        /\ \A d \in Channel : Bytes(r, d) = Bytes(s, d)
    BY <2>1, ErrorMoves
  <2>. QED  BY <1>0, <2>2, KeptStack
<1>3. CASE ~(s.socket[c].arrived > 0)
           /\ ~(s.socket[c].error \/ ~(s.socket[c].fin \/ s.socket[c].reset))
  <2>1. r = HandleClose(s, c)
    BY <1>3 DEF HandleRead
  <2>2. /\ Moved(s, r, c) /\ StackKept(s, r) /\ r.output_buffer_ = s.output_buffer_
        /\ \A d \in Channel : Bytes(r, d) = Bytes(s, d)
    BY <2>1, CloseMoves
  <2>. QED  BY <1>0, <2>2, KeptStack
<1>. QED  BY <1>1, <1>2, <1>3

-----------------------------------------------------------------------------
(* The other threads, the peer, and poll().                                 *)

\* ForceCloseInLoop() closes once.
LEMMA ForceMoves ==
    ASSUME NEW s, NetIn(s), s.process = "running", NEW c \in Channel,
           s.status_[c] # "CONNECTIONG", NEW r, r = ForceCloseInLoop(s, c)
    PROVE  /\ Moved(s, r, c) /\ StackKept(s, r) /\ r.output_buffer_ = s.output_buffer_
           /\ \A d \in Channel : Bytes(r, d) = Bytes(s, d)
<1>1. CASE s.status_[c] \in Up
  <2>1. r = HandleClose(s, c)
    BY <1>1 DEF ForceCloseInLoop, Up
  <2>. QED  BY <1>1, <2>1, CloseMoves
<1>2. CASE s.status_[c] \notin Up
  <2>1. r = s
    BY <1>2 DEF ForceCloseInLoop, Up
  <2>. QED  BY <2>1, Unmoved DEF StackKept
<1>. QED  BY <1>1, <1>2

\* The assignment, when another thread makes it after the connection was closed.
Reopened(s, c) ==
    [s EXCEPT !.status_[c] = "DISCONNECTING", !.reopened = @ \cup {c}]

\* The connection is then one of which the properties promise less.
LEMMA ReopenMoves ==
    ASSUME NEW s, NetIn(s), NEW c \in Channel, s.status_[c] = "DISCONNECTED",
           NEW r, r = Reopened(s, c)
    PROVE  /\ NetIn(r) /\ r.process = s.process /\ r.reopened = s.reopened \cup {c}
           /\ \A d \in Channel : r.status_[d] = IF d = c THEN "DISCONNECTING" ELSE s.status_[d]
           /\ StackKept(s, r) /\ r.output_buffer_ = s.output_buffer_
           /\ \A d \in Channel : Bytes(r, d) = Bytes(s, d)
<1>1. /\ s \in Net /\ ListIn(s) /\ Outside(s)
      /\ \A d \in Channel : Connection(s, d)
  BY DEF NetIn
<1>2. /\ r.table = s.table /\ r.status_ = [s.status_ EXCEPT ![c] = "DISCONNECTING"]
      /\ r.output_buffer_ = s.output_buffer_
      /\ r.socket = s.socket /\ r.told = s.told
      /\ r.stack = s.stack /\ r.interrupted = s.interrupted
      /\ r.reopened = s.reopened \cup {c} /\ r.process = s.process
      /\ r = [s EXCEPT !.status_ = r.status_, !.reopened = r.reopened]
  BY <1>1 DEF Net, Reopened
<1>11. StackKept(s, r) /\ \A d : Held(r, d) = Held(s, d) /\ (Stacked(r, d) <=> Stacked(s, d))
  BY <1>2, StackSame DEF StackKept
<1>3. r.status_ \in [Channel -> Status] /\ r.reopened \in SUBSET Channel
  BY <1>1, <1>2, NetType DEF Status
<1>4. r \in Net
  BY <1>1, <1>2, <1>3 DEF Net
<1>5. \A d \in Channel : r.status_[d] = IF d = c THEN "DISCONNECTING" ELSE s.status_[d]
  BY <1>1, <1>2, NetType
<1>6. \A d \in Channel : ClosedIn(r, d) <=> ClosedIn(s, d)
  BY <1>2 DEF ClosedIn
<1>7. \A d \in Channel : Bytes(r, d) = Bytes(s, d)
  BY <1>2, <1>11 DEF Bytes, Line
<1>8. ListIn(r)
  <2>1. Begun(r) = Begun(s)
    BY <1>5 DEF Begun
  <2>2. ASSUME r.process = "running"
        PROVE  \A d \in Channel \ r.reopened : Mapped(r.table, d) <=> r.status_[d] \in Up
    <3>1. \A d \in Channel \ s.reopened : Mapped(s.table, d) <=> s.status_[d] \in Up
      BY <1>1, <1>2, <2>2 DEF ListIn
    <3>. QED  BY <1>2, <1>5, <3>1
  <2>3. r.reopened # {}
    BY <1>2
  <2>. QED  BY <1>1, <1>2, <1>6, <2>1, <2>2, <2>3 DEF ListIn
<1>9. Outside(r)
  BY <1>2 DEF NetIn, Outside, Cut
<1>10. ASSUME NEW d \in Channel PROVE Connection(r, d)
  <2>1. OutputAt(s, d) /\ ToldAt(s, d) /\ Whole(Bytes(s, d))
    BY <1>1 DEF Connection
  <2>2. OutputAt(r, d)
    <3>1. IsWriting(r, d) <=> IsWriting(s, d)
      BY <1>2 DEF IsWriting
    <3>. QED  BY <1>2, <1>5, <1>6, <1>11, <2>1, <3>1 DEF OutputAt, Ending
  <2>3. ToldAt(r, d)
    <3>1. CASE d = c
      BY <1>2, <1>5, <1>6, <2>1, <3>1 DEF ToldAt
    <3>2. CASE d # c
      BY <1>2, <1>5, <1>6, <2>1, <3>2 DEF ToldAt
    <3>. QED  BY <3>1, <3>2
  <2>. QED  BY <1>7, <2>1, <2>2, <2>3 DEF Connection
<1>. QED
  BY <1>2, <1>4, <1>5, <1>7, <1>8, <1>9, <1>10, <1>11 DEF NetIn

\* The list was used outside of its bounds by poll().
Lost(s) == [s EXCEPT !.process = "undefined"]

\* That happens after a reopening, or a close in the high-water callback, only.
Loose(s) == s.reopened # {} \/ Cut(s)

LEMMA LostMoves ==
    ASSUME NEW s, NetIn(s), Loose(s), NEW r, r = Lost(s)
    PROVE  /\ NetIn(r) /\ r.process = "undefined"
           /\ r.status_ = s.status_ /\ r.reopened = s.reopened
           /\ StackKept(s, r) /\ r.output_buffer_ = s.output_buffer_
           /\ \A d \in Channel : Bytes(r, d) = Bytes(s, d)
<1>1. /\ s \in Net /\ ListIn(s) /\ Outside(s)
      /\ \A d \in Channel : Connection(s, d)
  BY DEF NetIn
<1>2. /\ r \in Net
      /\ r.table = s.table /\ r.status_ = s.status_ /\ r.output_buffer_ = s.output_buffer_
      /\ r.socket = s.socket /\ r.told = s.told
      /\ r.stack = s.stack /\ r.interrupted = s.interrupted
      /\ r.reopened = s.reopened /\ r.process = "undefined"
  BY <1>1 DEF Net, Lost
<1>7. StackKept(s, r) /\ \A d : Held(r, d) = Held(s, d) /\ (Stacked(r, d) <=> Stacked(s, d))
  BY <1>2, StackSame DEF StackKept
<1>3. \A d \in Channel : ClosedIn(r, d) <=> ClosedIn(s, d)
  BY <1>2 DEF ClosedIn
<1>4. \A d \in Channel : Bytes(r, d) = Bytes(s, d)
  BY <1>2, <1>7 DEF Bytes, Line
<1>5. ListIn(r)
  <2>1. Begun(r) = Begun(s)
    BY <1>2 DEF Begun
  <2>. QED  BY <1>1, <1>2, <1>3, <2>1 DEF ListIn
<1>6. ASSUME NEW d \in Channel PROVE Connection(r, d)
  <2>1. OutputAt(s, d) /\ ToldAt(s, d) /\ Whole(Bytes(s, d))
    BY <1>1 DEF Connection
  <2>2. OutputAt(r, d)
    <3>1. IsWriting(r, d) <=> IsWriting(s, d)
      BY <1>2 DEF IsWriting
    <3>. QED  BY <1>2, <1>3, <1>7, <2>1, <3>1 DEF OutputAt
  <2>3. ToldAt(r, d)
    BY <1>2, <1>3, <2>1 DEF ToldAt
  <2>. QED  BY <1>4, <2>1, <2>2, <2>3 DEF Connection
<1>. QED
  BY <1>2, <1>4, <1>5, <1>6, <1>7 DEF NetIn, Outside, Loose, Cut

\* Whatever the peer does, what was sent and whether it was shut stays.
LEMMA PeerMoves ==
    ASSUME NetIn(net), NEW c \in Channel, Peer(c)
    PROVE  /\ NetIn(net') /\ Others(net, net', c)
           /\ net'.status_ = net.status_ /\ net'.process = net.process
           /\ net'.reopened = net.reopened
           /\ StackKept(net, net') /\ net'.output_buffer_ = net.output_buffer_
           /\ \A d \in Channel : Bytes(net', d) = Bytes(net, d)
<1> DEFINE k == net.socket[c]
           Moves(l) == l \in Socket /\ l.sent = k.sent /\ l.shut = k.shut
                       /\ net' = [net EXCEPT !.socket[c] = l]
<1>1. net \in Net /\ net.socket \in [Channel -> Socket] /\ k \in Socket
  BY NetType DEF NetIn
<1>2. /\ k.room \in 0..Room /\ k.arrived \in 0..MaxArrival /\ k.fin \in BOOLEAN
      /\ k.reset \in BOOLEAN /\ k.error \in BOOLEAN
  BY <1>1, SocketType
<1>3. ASSUME PeerReads(c) PROVE \E l \in Socket : Moves(l)
  <2>. DEFINE l == [k EXCEPT !.room = Room]
  <2>1. Room \in 0..Room
    BY Bounds
  <2>2. l \in Socket /\ l.sent = k.sent /\ l.shut = k.shut
    BY <1>1, <1>2, <2>1 DEF Socket
  <2>3. net' = [net EXCEPT !.socket[c] = l]
    <3>1. net' = [net EXCEPT !.socket[c].room = Room]
      BY <1>3 DEF PeerReads
    <3>. QED  BY <1>1, <3>1 DEF Net, Socket
  <2>. QED  BY <2>2, <2>3
<1>4. ASSUME PeerSends(c) PROVE \E l \in Socket : Moves(l)
  <2>. DEFINE l == [k EXCEPT !.arrived = @ + 1]
  <2>1. k.arrived + 1 \in 0..MaxArrival
    <3>. DEFINE heard == {i \in DOMAIN net.told[c] : net.told[c][i] = "MESSAGE"}
    <3>1. IsFiniteSet(heard)
      <4>1. net.told[c] \in Seq(Callback)
        BY <1>1, NetType
      <4>2. DOMAIN net.told[c] = 1..Len(net.told[c]) /\ Len(net.told[c]) \in Nat
        BY <4>1
      <4>3. IsFiniteSet(1..Len(net.told[c]))
        BY <4>2, FS_Interval
      <4>. QED  BY <4>2, <4>3, FS_Subset
    <3>2. Cardinality(heard) \in Nat
      BY <3>1, FS_CardinalityType
    <3>3. k.arrived + Cardinality(heard) < MaxArrival
      BY <1>4 DEF PeerSends
    <3>. HIDE DEF heard, k
    <3>. QED  BY <1>2, <3>2, <3>3, Bounds
  <2>2. l \in Socket /\ l.sent = k.sent /\ l.shut = k.shut
    BY <1>1, <1>2, <2>1 DEF Socket
  <2>3. net' = [net EXCEPT !.socket[c] = l]
    <3>1. net' = [net EXCEPT !.socket[c].arrived = @ + 1]
      BY <1>4 DEF PeerSends
    <3>. QED  BY <1>1, <3>1 DEF Net, Socket
  <2>. QED  BY <2>2, <2>3
<1>5. ASSUME PeerCloses(c) PROVE \E l \in Socket : Moves(l)
  <2>. DEFINE l == [k EXCEPT !.fin = TRUE]
  <2>2. l \in Socket /\ l.sent = k.sent /\ l.shut = k.shut
    BY <1>1, <1>2 DEF Socket
  <2>3. net' = [net EXCEPT !.socket[c] = l]
    <3>1. net' = [net EXCEPT !.socket[c].fin = TRUE]
      BY <1>5 DEF PeerCloses
    <3>. QED  BY <1>1, <3>1 DEF Net, Socket
  <2>. QED  BY <2>2, <2>3
<1>6. ASSUME PeerResets(c) PROVE \E l \in Socket : Moves(l)
  <2>. DEFINE l == [k EXCEPT !.reset = TRUE, !.error = TRUE]
  <2>2. l \in Socket /\ l.sent = k.sent /\ l.shut = k.shut
    BY <1>1, <1>2 DEF Socket
  <2>3. net' = [net EXCEPT !.socket[c] = l]
    <3>1. net' = [net EXCEPT !.socket[c].reset = TRUE, !.socket[c].error = TRUE]
      BY <1>6 DEF PeerResets
    <3>. QED  BY <1>1, <3>1 DEF Net, Socket
  <2>. QED  BY <2>2, <2>3
<1>7. PICK l \in Socket : Moves(l)
  BY <1>3, <1>4, <1>5, <1>6 DEF Peer
<1>8. /\ l.sent = net.socket[c].sent /\ l.shut = net.socket[c].shut
      /\ net' = [net EXCEPT !.socket[c] = l]
  BY <1>7
<1>. QED  BY <1>8, SocketMoved

-----------------------------------------------------------------------------
(* The callbacks of a round, in order.                                      *)

\* A set of numbers has a least one.
LEMMA LeastNumber ==
    ASSUME NEW S \in SUBSET Nat, S # {}
    PROVE  \E n \in S : \A m \in S : n <= m
<1>. DEFINE R == OpToRel(<, Nat)
<1>1. IsWellFoundedOn(R, Nat)
  BY NatLessThanWellFounded, Zenon
<1>2. \A x, y \in Nat : x < y => <<x, y>> \in R
  BY Zenon DEF OpToRel
<1>. HIDE DEF R
<1>3. PICK x \in S : \A y \in S : ~(<<y, x>> \in R)
  BY <1>1, WFMin
<1>4. \A y \in S : ~(y < x)
  BY <1>2, <1>3
<1>. QED  BY <1>4

\* The elements of q are those of the first n of seqs, in their order.
Flat(q, seqs, n) ==
    /\ \A i \in 1..Len(q) : \E b \in 1..n : \E k \in 1..Len(seqs[b]) : q[i] = seqs[b][k]
    /\ \A i, j \in 1..Len(q) : i < j =>
           \E b, e \in 1..n : \E k \in 1..Len(seqs[b]), l \in 1..Len(seqs[e]) :
               q[i] = seqs[b][k] /\ q[j] = seqs[e][l] /\ (b = e => k < l)

\* The order stays when the same number is taken away.
LEMMA Subtracted ==
    \A a, b, n \in Int : a < b /\ ~(a <= n) => ~(b <= n) /\ a - n < b - n
OBVIOUS

\* One sequence more.
LEMMA FlatMore ==
    ASSUME NEW X, NEW seqs \in Seq(Seq(X)), NEW n \in 1..Len(seqs), NEW q \in Seq(X),
           n = 1 => q = <<>>, n # 1 => Flat(q, seqs, n - 1)
    PROVE  q \o seqs[n] \in Seq(X) /\ Flat(q \o seqs[n], seqs, n)
<1>. DEFINE p == seqs[n]
            r == q \o p
<1>1. p \in Seq(X) /\ n \in Nat /\ n > 0 /\ n \in 1..n
  OBVIOUS
<1>. HIDE DEF p
<1>2. /\ r \in Seq(X) /\ Len(r) = Len(q) + Len(p) /\ Len(q) \in Nat /\ Len(p) \in Nat
      /\ \A i \in 1..Len(r) : r[i] = IF i <= Len(q) THEN q[i] ELSE p[i - Len(q)]
  BY <1>1, ConcatProperties
<1>3. \A i \in 1..Len(r) : i <= Len(q) => i \in 1..Len(q) /\ r[i] = q[i]
  BY <1>2
<1>4. \A i \in 1..Len(r) : ~(i <= Len(q)) => i - Len(q) \in 1..Len(p) /\ r[i] = p[i - Len(q)]
  BY <1>2
<1>. HIDE DEF r
<1>5. n = 1 => Len(q) = 0
  OBVIOUS
<1>6. n # 1 => \A b \in 1..(n - 1) : b \in 1..n /\ b # n
  BY <1>1
<1>7. ASSUME NEW i \in 1..Len(r)
      PROVE  \E b \in 1..n : \E k \in 1..Len(seqs[b]) : r[i] = seqs[b][k]
  <2>1. CASE i <= Len(q)
    <3>1. n # 1 /\ i \in 1..Len(q)
      BY <1>3, <1>5, <2>1
    <3>2. PICK b \in 1..(n - 1) : \E k \in 1..Len(seqs[b]) : q[i] = seqs[b][k]
      BY <3>1 DEF Flat
    <3>. QED  BY <1>3, <1>6, <2>1, <3>1, <3>2
  <2>2. CASE ~(i <= Len(q))
    BY <1>1, <1>4, <2>2 DEF p
  <2>. QED  BY <2>1, <2>2
<1>8. ASSUME NEW i \in 1..Len(r), NEW j \in 1..Len(r), i < j
      PROVE  \E b, e \in 1..n : \E k \in 1..Len(seqs[b]), l \in 1..Len(seqs[e]) :
                 r[i] = seqs[b][k] /\ r[j] = seqs[e][l] /\ (b = e => k < l)
  <2>1. CASE j <= Len(q)
    <3>1. n # 1 /\ i \in 1..Len(q) /\ j \in 1..Len(q) /\ r[i] = q[i] /\ r[j] = q[j]
      BY <1>2, <1>3, <1>5, <1>8, <2>1
    <3>2. PICK b \in 1..(n - 1), e \in 1..(n - 1) :
              \E k \in 1..Len(seqs[b]), l \in 1..Len(seqs[e]) :
                  q[i] = seqs[b][k] /\ q[j] = seqs[e][l] /\ (b = e => k < l)
      BY <1>8, <3>1 DEF Flat
    <3>3. b \in 1..n /\ e \in 1..n
      BY <1>6, <3>1
    <3>4. PICK k \in 1..Len(seqs[b]), l \in 1..Len(seqs[e]) :
              q[i] = seqs[b][k] /\ q[j] = seqs[e][l] /\ (b = e => k < l)
      BY <3>2
    <3>5. r[i] = seqs[b][k] /\ r[j] = seqs[e][l] /\ (b = e => k < l)
      BY <3>1, <3>4
    <3>. QED  BY <3>3, <3>5
  <2>2. CASE i <= Len(q) /\ ~(j <= Len(q))
    <3>1. n # 1 /\ i \in 1..Len(q) /\ r[i] = q[i]
      BY <1>3, <1>5, <2>2
    <3>2. PICK b \in 1..(n - 1) : \E k \in 1..Len(seqs[b]) : q[i] = seqs[b][k]
      BY <3>1 DEF Flat
    <3>3. b \in 1..n /\ b # n
      BY <1>6, <3>1
    <3>4. j - Len(q) \in 1..Len(seqs[n]) /\ r[j] = seqs[n][j - Len(q)]
      BY <1>4, <2>2 DEF p
    <3>. QED  BY <1>1, <3>1, <3>2, <3>3, <3>4
  <2>3. CASE ~(i <= Len(q))
    <3>1. ~(j <= Len(q)) /\ i - Len(q) < j - Len(q)
      <4>. DEFINE x == i
                  y == j
                  z == Len(q)
      <4>1. x \in Int /\ y \in Int /\ z \in Int /\ x < y /\ ~(x <= z)
        BY <1>2, <1>8, <2>3
      <4>. HIDE DEF x, y, z
      <4>2. ~(y <= z) /\ x - z < y - z
        BY <4>1, Subtracted
      <4>. QED  BY <4>2 DEF x, y, z
    <3>2. /\ i - Len(q) \in 1..Len(seqs[n]) /\ r[i] = seqs[n][i - Len(q)]
          /\ j - Len(q) \in 1..Len(seqs[n]) /\ r[j] = seqs[n][j - Len(q)]
      BY <1>4, <2>3, <3>1 DEF p
    <3>. QED  BY <1>1, <3>1, <3>2
  <2>. QED  BY <2>1, <2>2, <2>3
<1>. QED  BY <1>2, <1>7, <1>8 DEF Flat, r, p

\* FlattenSeq() of sequences: their elements, in their order.
LEMMA Flattened ==
    ASSUME NEW X, NEW seqs \in Seq(Seq(X))
    PROVE  FlattenSeq(seqs) \in Seq(X) /\ Flat(FlattenSeq(seqs), seqs, Len(seqs))
<1>. DEFINE N == Len(seqs)
            E(g, n) == g = [i \in 1..n |-> IF i = 1 THEN seqs[i] ELSE g[i - 1] \o seqs[i]]
            B == {n \in 1..N : ~ \E g : E(g, n)}
<1>0. N \in Nat
  OBVIOUS
<1>1. CASE N = 0
  <2>1. FlattenSeq(seqs) = seqs /\ seqs = <<>>
    BY <1>1 DEF FlattenSeq
  <2>2. <<>> \in Seq(X) /\ Len(<<>>) = 0
    OBVIOUS
  <2>. QED  BY <2>1, <2>2 DEF Flat
<1>2. CASE N # 0
  <2>1. N \in 1..N
    BY <1>0, <1>2
  <2>. HIDE DEF N
  <2>2. \E g : E(g, N)
    <3>a. ASSUME B = {} PROVE \E g : E(g, N)
      <4>. HIDE DEF E
      <4>. QED  BY <2>1, <3>a
    <3>. SUFFICES ASSUME B # {} PROVE FALSE
      BY <3>a
    <3>1. B \in SUBSET Nat
      <4>. HIDE DEF E
      <4>. QED  BY <1>0
    <3>. HIDE DEF B
    <3>2. PICK n \in B : \A m \in B : n <= m
      BY <3>1, LeastNumber
    <3>3. n \in 1..N /\ ~ \E g : E(g, n)
      BY <3>2 DEF B
    <3>4. CASE n = 1
      <4>1. E([i \in 1..1 |-> seqs[i]], 1)
        OBVIOUS
      <4>. QED  BY <3>3, <3>4, <4>1
    <3>5. CASE n # 1
      <4>1. n - 1 \in 1..N /\ n \in Nat /\ ~(n <= n - 1)
        BY <1>0, <3>3, <3>5
      <4>2. n - 1 \notin B
        BY <3>2, <4>1
      <4>3. PICK g : E(g, n - 1)
        BY <4>1, <4>2 DEF B
      <4>. DEFINE h == [i \in 1..n |-> IF i = n THEN g[n - 1] \o seqs[n] ELSE g[i]]
      <4>4. \A i \in 1..n : h[i] = IF i = 1 THEN seqs[i] ELSE h[i - 1] \o seqs[i]
        <5>1. ASSUME NEW i \in 1..(n - 1)
              PROVE  g[i] = IF i = 1 THEN seqs[i] ELSE g[i - 1] \o seqs[i]
          BY <4>3
        <5>2. \A i \in 1..n : i = n \/ i \in 1..(n - 1)
          BY <4>1
        <5>3. \A i \in 1..(n - 1) : h[i] = g[i] /\ i \in 1..n /\ i # n
          BY <4>1
        <5>4. h[n] = g[n - 1] \o seqs[n] /\ n - 1 \in 1..(n - 1)
          <6>1. n \in 1..n /\ n - 1 \in 1..(n - 1)
            <7>. HIDE DEF h
            <7>. QED  BY <3>3, <3>5, <4>1
          <6>. QED  BY <6>1
        <5>5. \A i \in 1..(n - 1) : i # 1 => i - 1 \in 1..(n - 1)
          BY <4>1
        <5>. HIDE DEF h
        <5>. QED  BY <3>5, <5>1, <5>2, <5>3, <5>4, <5>5
      <4>5. E(h, n)
        <5>1. h = [i \in 1..n |-> h[i]]
          OBVIOUS
        <5>. HIDE DEF h
        <5>. QED  BY <4>4, <5>1
      <4>. QED  BY <3>3, <4>5
    <3>. QED  BY <3>4, <3>5
  <2>3. \E f : E(f, N) /\ FlattenSeq(seqs) = f[N]
    <3>. DEFINE f == CHOOSE f : E(f, N)
    <3>1. E(f, N)
      <4>. HIDE DEF E
      <4>. QED  BY <2>2
    <3>2. FlattenSeq(seqs) = f[N]
      BY <1>2 DEF FlattenSeq, N
    <3>. HIDE DEF E, f
    <3>. QED  BY <3>1, <3>2
  <2>4. PICK f : E(f, N) /\ FlattenSeq(seqs) = f[N]
    BY <2>3
  <2>5. \A n \in 1..N : f[n] = IF n = 1 THEN seqs[n] ELSE f[n - 1] \o seqs[n]
    BY <2>4
  <2>. DEFINE Good(n) == f[n] \in Seq(X) /\ Flat(f[n], seqs, n)
              W == {n \in 1..N : ~Good(n)}
  <2>. HIDE DEF Good
  <2>6. W = {}
    <3>. SUFFICES ASSUME W # {} PROVE FALSE
      OBVIOUS
    <3>1. W \in SUBSET Nat
      BY <1>0
    <3>. HIDE DEF W
    <3>2. PICK n \in W : \A m \in W : n <= m
      BY <3>1, LeastNumber
    <3>3. n \in 1..N /\ ~Good(n) /\ n \in Nat
      BY <3>2 DEF W
    <3>4. CASE n = 1
      <4>1. f[n] = <<>> \o seqs[n]
        <5>1. seqs[n] \in Seq(X)
          BY <3>3 DEF N
        <5>. QED  BY <2>5, <3>3, <3>4, <5>1, ConcatEmptySeq
      <4>2. <<>> \in Seq(X) /\ n \in 1..Len(seqs)
        BY <3>3 DEF N
      <4>. QED  BY <3>3, <3>4, <4>1, <4>2, FlatMore DEF Good
    <3>5. CASE n # 1
      <4>1. n - 1 \in 1..N /\ ~(n <= n - 1)
        BY <1>0, <3>3, <3>5
      <4>2. Good(n - 1)
        BY <3>2, <4>1 DEF W
      <4>3. f[n] = f[n - 1] \o seqs[n]
        BY <2>5, <3>3, <3>5
      <4>4. n \in 1..Len(seqs)
        BY <3>3 DEF N
      <4>. QED  BY <3>3, <3>5, <4>2, <4>3, <4>4, FlatMore DEF Good
    <3>. QED  BY <3>4, <3>5
  <2>7. Good(N)
    BY <2>1, <2>6
  <2>. QED  BY <2>4, <2>7 DEF Good, N
<1>. QED  BY <1>1, <1>2

\* A callback that poll() reports.
Report == [conn : Channel \cup {NoChannel}, name : {"close", "error", "read", "write"}]

\* After these a connection may be closed.
End == {"close", "read"}

\* Of connection c's callbacks, none closes it after another that could have called.
OneEnd(q, c) ==
    /\ q \in Seq(Report) /\ \A i \in 1..Len(q) : q[i].conn = c
    /\ \A i, j \in 1..Len(q) : i < j => q[i].name = "error" \/ q[j].name \notin End

\* None of c's callbacks closes it, or all take an error.
NoEnd(q, c) ==
    /\ q \in Seq(Report) /\ \A i \in 1..Len(q) : q[i].conn = c /\ q[i].name \notin End

OnlyErrors(q, c) ==
    /\ q \in Seq(Report) /\ \A i \in 1..Len(q) : q[i].conn = c /\ q[i].name = "error"

\* An element of two sequences one after the other is of the first or of the second.
LEMMA InConcat ==
    ASSUME NEW a \in Seq(Report), NEW b \in Seq(Report)
    PROVE  \A i \in 1..Len(a \o b) :
               \/ i \in 1..Len(a) /\ (a \o b)[i] = a[i]
               \/ i - Len(a) \in 1..Len(b) /\ (a \o b)[i] = b[i - Len(a)]
BY ConcatProperties

\* Callbacks that close nothing come after.
LEMMA OneEndMore ==
    ASSUME NEW q, NEW p, NEW c, OneEnd(q, c), NoEnd(p, c)
    PROVE  OneEnd(q \o p, c)
<1>1. q \in Seq(Report) /\ p \in Seq(Report)
  BY DEF OneEnd, NoEnd
<1>3. ASSUME NEW i \in 1..Len(q \o p)
      PROVE  (q \o p)[i].conn = c
  BY <1>1, InConcat DEF OneEnd, NoEnd
<1>5. ASSUME NEW i \in 1..Len(q \o p), NEW j \in 1..Len(q \o p), i < j
      PROVE  (q \o p)[i].name = "error" \/ (q \o p)[j].name \notin End
  <2>. DEFINE r == q \o p
  <2>1. /\ \/ i \in 1..Len(q) /\ r[i] = q[i]
           \/ i - Len(q) \in 1..Len(p) /\ r[i] = p[i - Len(q)]
        /\ \/ j \in 1..Len(q) /\ r[j] = q[j]
           \/ j - Len(q) \in 1..Len(p) /\ r[j] = p[j - Len(q)]
    BY <1>1, InConcat
  <2>0. /\ i \in Nat /\ j \in Nat /\ Len(q) \in Nat /\ i \in 1..Len(r) /\ j \in 1..Len(r)
    BY <1>1, ConcatProperties
  <2>. HIDE DEF r
  <2>2. CASE i \in 1..Len(q) /\ r[i] = q[i] /\ j \in 1..Len(q) /\ r[j] = q[j]
    BY <1>5, <2>2 DEF OneEnd, r
  <2>3. CASE /\ i - Len(q) \in 1..Len(p) /\ r[i] = p[i - Len(q)]
             /\ j \in 1..Len(q) /\ r[j] = q[j]
    BY <1>5, <2>0, <2>3
  <2>4. CASE j - Len(q) \in 1..Len(p) /\ r[j] = p[j - Len(q)]
    BY <2>4 DEF NoEnd, r
  <2>. QED  BY <2>1, <2>2, <2>3, <2>4
<1>7. q \o p \in Seq(Report)
  BY <1>1, ConcatProperties
<1>. QED  BY <1>3, <1>5, <1>7 DEF OneEnd

\* Callbacks that take an error come before.
LEMMA OneEndAfter ==
    ASSUME NEW q, NEW p, NEW c, OneEnd(q, c), OnlyErrors(p, c)
    PROVE  OneEnd(p \o q, c)
<1>1. q \in Seq(Report) /\ p \in Seq(Report)
  BY DEF OneEnd, OnlyErrors
<1>4. ASSUME NEW i \in 1..Len(p \o q)
      PROVE  (p \o q)[i].conn = c
  BY <1>1, InConcat DEF OneEnd, OnlyErrors
<1>6. ASSUME NEW i \in 1..Len(p \o q), NEW j \in 1..Len(p \o q), i < j
      PROVE  (p \o q)[i].name = "error" \/ (p \o q)[j].name \notin End
  <2>. DEFINE r == p \o q
  <2>1. /\ \/ i \in 1..Len(p) /\ r[i] = p[i]
           \/ i - Len(p) \in 1..Len(q) /\ r[i] = q[i - Len(p)]
        /\ \/ j \in 1..Len(p) /\ r[j] = p[j]
           \/ j - Len(p) \in 1..Len(q) /\ r[j] = q[j - Len(p)]
    BY <1>1, InConcat
  <2>. HIDE DEF r
  <2>2. CASE /\ i - Len(p) \in 1..Len(q) /\ r[i] = q[i - Len(p)]
             /\ j - Len(p) \in 1..Len(q) /\ r[j] = q[j - Len(p)]
    <3>1. i - Len(p) < j - Len(p)
      <4>. DEFINE x == i
                  y == j
                  z == Len(p)
      <4>1. x \in Int /\ y \in Int /\ z \in Int /\ x < y
        BY <1>1, <1>6, ConcatProperties
      <4>. HIDE DEF x, y, z
      <4>2. x - z < y - z
        BY <4>1
      <4>. QED  BY <4>2 DEF x, y, z
    <3>. QED  BY <2>2, <3>1 DEF OneEnd, r
  <2>3. CASE i \in 1..Len(p) /\ r[i] = p[i]
    BY <2>3 DEF OnlyErrors, r
  <2>4. CASE j \in 1..Len(p) /\ r[j] = p[j]
    BY <2>4 DEF OnlyErrors, End, r
  <2>. QED  BY <2>1, <2>2, <2>3, <2>4
<1>7. p \o q \in Seq(Report)
  BY <1>1, ConcatProperties
<1>. QED  BY <1>4, <1>6, <1>7 DEF OneEnd

\* Errors after errors.
LEMMA ErrorsMore ==
    ASSUME NEW q, NEW p, NEW c, OnlyErrors(q, c), OnlyErrors(p, c)
    PROVE  OnlyErrors(q \o p, c)
<1>1. q \in Seq(Report) /\ p \in Seq(Report)
  BY DEF OnlyErrors
<1>2. ASSUME NEW i \in 1..Len(q \o p)
      PROVE  \/ i \in 1..Len(q) /\ (q \o p)[i] = q[i]
             \/ i - Len(q) \in 1..Len(p) /\ (q \o p)[i] = p[i - Len(q)]
  BY <1>1, ConcatProperties
<1>3. q \o p \in Seq(Report)
  BY <1>1, ConcatProperties
<1>. QED  BY <1>2, <1>3 DEF OnlyErrors

\* A callback, if it is reported.
Given(cond, c, name) == IF cond THEN <<[conn |-> c, name |-> name]>> ELSE <<>>

\* A callback that is reported is the only one, and closes as its name says.
LEMMA GivenFacts ==
    ASSUME NEW c \in Channel \cup {NoChannel}, NEW cond \in BOOLEAN,
           NEW name \in {"close", "error", "read", "write"}
    PROVE  /\ OneEnd(Given(cond, c, name), c)
           /\ ~cond \/ name \notin End => NoEnd(Given(cond, c, name), c)
           /\ ~cond \/ name = "error" => OnlyErrors(Given(cond, c, name), c)
<1>. DEFINE e == [conn |-> c, name |-> name]
<1>1. e \in Report /\ e.conn = c /\ e.name = name
  BY DEF Report
<1>. HIDE DEF e
<1>2. CASE cond
  <2>1. Given(cond, c, name) = <<e>>
    BY <1>2 DEF Given, e
  <2>2. <<e>> \in Seq(Report) /\ Len(<<e>>) = 1 /\ <<e>>[1] = e
    BY <1>1
  <2>3. (\A i \in 1..1 : i = 1) /\ (\A i, j \in 1..1 : ~(i < j))
    OBVIOUS
  <2>. QED  BY <1>1, <1>2, <2>1, <2>2, <2>3 DEF OneEnd, NoEnd, OnlyErrors
<1>3. CASE ~cond
  <2>1. Given(cond, c, name) = <<>>
    BY <1>3 DEF Given
  <2>2. <<>> \in Seq(Report) /\ Len(<<>>) = 0
    OBVIOUS
  <2>. QED  BY <2>1, <2>2 DEF OneEnd, NoEnd, OnlyErrors
<1>. QED  BY <1>2, <1>3

\* The four callbacks of an entry, which is not both closed and read.
LEMMA FourGiven ==
    ASSUME NEW c \in Channel \cup {NoChannel}, NEW a \in BOOLEAN, NEW b \in BOOLEAN,
           NEW d \in BOOLEAN, NEW e \in BOOLEAN, ~a \/ ~d
    PROVE  OneEnd(Given(a, c, "close") \o Given(b, c, "error")
                  \o Given(d, c, "read") \o Given(e, c, "write"), c)
<1>. DEFINE close == Given(a, c, "close")
            error == Given(b, c, "error")
            read == Given(d, c, "read")
            write == Given(e, c, "write")
<1>1. OneEnd(close, c) /\ (~a => OnlyErrors(close, c))
  BY GivenFacts
<1>2. OneEnd(read, c) /\ (~d => NoEnd(read, c))
  BY GivenFacts
<1>3. NoEnd(error, c) /\ OnlyErrors(error, c) /\ NoEnd(write, c)
  BY GivenFacts DEF End
<1>. HIDE DEF close, error, read, write
<1>4. OneEnd(((close \o error) \o read) \o write, c)
  <2>1. CASE ~d
    <3>1. OneEnd(close \o error, c)
      BY <1>1, <1>3, OneEndMore
    <3>2. OneEnd((close \o error) \o read, c)
      BY <1>2, <2>1, <3>1, OneEndMore
    <3>. QED  BY <1>3, <3>2, OneEndMore
  <2>2. CASE ~a
    <3>1. OnlyErrors(close \o error, c)
      BY <1>1, <1>3, <2>2, ErrorsMore
    <3>2. OneEnd((close \o error) \o read, c)
      BY <1>2, <3>1, OneEndAfter
    <3>. QED  BY <1>3, <3>2, OneEndMore
  <2>. QED  BY <2>1, <2>2
<1>. QED  BY <1>4 DEF close, error, read, write

\* What HandleEvent() makes of one entry is a channel's, and closes it at most once.
LEMMA ReportsFacts ==
    ASSUME NEW s \in Net, NEW S \in SUBSET Channel, Entries(s.table, S),
           NEW i \in 1..Len(s.table.pollfds_)
    PROVE  LET fd == s.table.pollfds_[i].fd
           IN  /\ OneEnd(Reports(s, i), s.table.channels_[fd])
               /\ fd < 0 => Reports(s, i) = <<>>
<1>. DEFINE pfd == s.table.pollfds_[i]
            c == s.table.channels_[pfd.fd]
            k == s.socket[CHOOSE d \in Channel : s.table.fd_[d] = pfd.fd]
            in == READEVENT \in pfd.events /\ (k.arrived > 0 \/ k.fin \/ k.reset)
            out == WRITEEVENT \in pfd.events /\ (k.room > 0 \/ k.shut \/ k.reset)
            hup == k.reset \/ (k.shut /\ k.fin)
<1>1. pfd \in Pollfd /\ Descriptor(pfd) \in Fd
  <2>1. /\ s.table.pollfds_ \in Seq(Pollfd)
        /\ \A d \in Channel : s.table.fd_[d] \in Fd
    BY NetType, TableType
  <2>2. PICK d \in S : Descriptor(pfd) = s.table.fd_[d]
    BY DEF Entries
  <2>. QED  BY <2>1, <2>2
<1>2. CASE pfd.fd < 0
  <2>1. Reports(s, i) = <<>>
    BY <1>2 DEF Reports
  <2>2. <<>> \in Seq(Report) /\ Len(<<>>) = 0
    OBVIOUS
  <2>. QED  BY <2>1, <2>2 DEF OneEnd
<1>3. CASE ~(pfd.fd < 0)
  <2>1. c \in Channel \cup {NoChannel} /\ pfd.fd \in Int
    <3>1. s.table.channels_ \in [Fd -> Channel \cup {NoChannel}]
      BY NetType, TableType
    <3>2. pfd.fd \in Int /\ Descriptor(pfd) = pfd.fd
      BY <1>1, <1>3, DescriptorFacts
    <3>. QED  BY <1>1, <3>1, <3>2
  <2>2. k \in Socket
    <3>1. \E d \in Channel : s.table.fd_[d] = pfd.fd
      <4>1. PICK d \in S : Descriptor(pfd) = s.table.fd_[d]
        BY DEF Entries
      <4>. QED  BY <1>1, <1>3, <4>1, DescriptorFacts
    <3>2. s.socket \in [Channel -> Socket]
      BY NetType
    <3>. QED  BY <3>1, <3>2
  <2>3. in \in BOOLEAN /\ out \in BOOLEAN /\ (hup /\ ~in) \in BOOLEAN /\ k.error \in BOOLEAN
    BY <2>2, SocketType
  <2>. DEFINE a == hup /\ ~in
              b == k.error
              d == in
              e == out
              x == c
  <2>4. Reports(s, i) = Given(a, x, "close") \o Given(b, x, "error")
                        \o Given(d, x, "read") \o Given(e, x, "write")
    <3>1. Reports(s, i) = IF pfd.fd < 0 THEN <<>>
                          ELSE Given(a, x, "close") \o Given(b, x, "error")
                               \o Given(d, x, "read") \o Given(e, x, "write")
      BY DEF Reports, Given
    <3>. HIDE DEF pfd, a, b, d, e, x
    <3>. QED  BY <1>3, <3>1
  <2>5. /\ a \in BOOLEAN /\ b \in BOOLEAN /\ d \in BOOLEAN /\ e \in BOOLEAN
        /\ (~a \/ ~d) /\ x \in Channel \cup {NoChannel}
    BY <2>1, <2>3
  <2>. HIDE DEF a, b, d, e, x
  <2>6. OneEnd(Reports(s, i), x)
    BY <2>4, <2>5, FourGiven
  <2>. QED  BY <1>3, <2>6 DEF x
<1>. QED  BY <1>2, <1>3

\* A callback that is still to run is of a connection that was up when poll() returned.
\* One that may close it finds it up, unless it was reopened.
ReportIn(s, k) ==
    IF k.conn = NoChannel THEN s.process # "running"
    ELSE /\ s.status_[k.conn] # "CONNECTIONG"
         /\ s.process = "running" /\ k.name \in End /\ k.conn \notin s.reopened =>
                s.status_[k.conn] \in Up

\* Of those that still are to run, none may close a connection after another that could
\* have called its user.
ActiveIn(s, q) ==
    /\ \A i \in 1..Len(q) : ReportIn(s, q[i])
    /\ \A i, j \in 1..Len(q) : i < j /\ q[i].conn # NoChannel /\ q[i].conn = q[j].conn =>
           q[i].name = "error" \/ q[j].name \notin End

\* The entries of the list, and of whom they are.
Owned(s, b, c) ==
    IF c = NoChannel THEN Loose(s)
    ELSE /\ c \in Channel /\ s.status_[c] # "CONNECTIONG"
         /\ c \notin s.reopened => s.status_[c] \in Up
         /\ s.table.poll_index_[c] = b - 1

\* The channel that poll() finds for an entry is the one whose index leads there.
LEMMA EntryOwner ==
    ASSUME NEW s, NetIn(s), s.process = "running", NEW b \in 1..Len(s.table.pollfds_),
           s.table.pollfds_[b].fd >= 0,
           NEW c, c = s.table.channels_[s.table.pollfds_[b].fd]
    PROVE  Owned(s, b, c)
<1>. DEFINE t == s.table
            fd == t.pollfds_[b].fd
<1>0. /\ t = s.table /\ t.pollfds_[b].fd = fd /\ fd >= 0 /\ c = t.channels_[fd]
      /\ b \in 1..Len(t.pollfds_)
  OBVIOUS
<1>. HIDE DEF t, fd
<1>1. /\ s \in Net /\ ListIn(s) /\ Entries(t, Begun(s)) /\ t \in Table
  BY <1>0, NetType DEF NetIn, ListIn
<1>2. /\ Descriptor(t.pollfds_[b]) = fd /\ fd \in Fd
  <2>1. t.pollfds_ \in Seq(Pollfd) /\ \A d \in Channel : t.fd_[d] \in Fd
    BY <1>1, TableType
  <2>2. t.pollfds_[b] \in Pollfd
    BY <1>0, <2>1
  <2>3. PICK d \in Begun(s) : Descriptor(t.pollfds_[b]) = t.fd_[d]
    BY <1>0, <1>1 DEF Entries
  <2>4. d \in Channel
    BY DEF Begun
  <2>. QED  BY <1>0, <2>1, <2>2, <2>3, <2>4, DescriptorFacts
<1>3. CASE c = NoChannel
  <2>1. ~Live(t)
    BY <1>0, <1>3, Zenon DEF Live
  <2>. QED  BY <1>0, <1>1, <1>3, <2>1 DEF ListIn, Owned, Loose
<1>4. CASE c # NoChannel
  <2>1. c \in Begun(s) /\ t.fd_[c] = fd /\ c = t.channels_[fd]
    <3>1. \A f \in Fd : t.channels_[f] # NoChannel =>
              t.channels_[f] \in Begun(s) /\ t.fd_[t.channels_[f]] = f
      BY <1>1 DEF Entries
    <3>. QED  BY <1>0, <1>2, <1>4, <3>1, Zenon
  <2>2. c \in Channel /\ s.status_[c] # "CONNECTIONG" /\ Mapped(t, c)
    BY <2>1 DEF Begun, Mapped
  <2>3. c \notin s.reopened => s.status_[c] \in Up
    <3>1. \A d \in Channel \ s.reopened : Mapped(t, d) <=> s.status_[d] \in Up
      BY <1>0, <1>1 DEF ListIn
    <3>. QED  BY <2>2, <3>1, Zenon
  <2>4. t.poll_index_[c] = b - 1
    <3>1. t.channels_[t.fd_[c]] = c /\ Descriptor(t.pollfds_[b]) = t.fd_[c]
      BY <1>2, <2>1
    <3>2. \A i \in 1..Len(t.pollfds_), d \in Channel :
              t.channels_[t.fd_[d]] = d /\ Descriptor(t.pollfds_[i]) = t.fd_[d] =>
                  t.poll_index_[d] = i - 1
      BY <1>1 DEF Entries
    <3>. QED  BY <1>0, <2>2, <3>1, <3>2, Zenon
  <2>. QED  BY <1>0, <1>4, <2>2, <2>3, <2>4 DEF Owned
<1>. QED  BY <1>3, <1>4

\* What poll() finds.
LEMMA ReadyFacts ==
    ASSUME NEW s, NetIn(s), s.process = "running"
    PROVE  /\ Ready(s) \in Seq(Report)
           /\ IF \E i \in 1..Len(Ready(s)) : Ready(s)[i].conn = NoChannel
              THEN Loose(s) ELSE ActiveIn(s, Ready(s))
           /\ ActiveIn(Lost(s), Ready(s))
<1>. DEFINE t == s.table
            N == Len(t.pollfds_)
            seqs == [i \in DOMAIN t.pollfds_ |-> Reports(s, i)]
            q == Ready(s)
            C(b) == t.channels_[t.pollfds_[b].fd]
<1>1. s \in Net /\ t \in Table /\ Entries(t, Begun(s)) /\ Begun(s) \in SUBSET Channel
  BY NetType DEF NetIn, ListIn, Begun
<1>2. DOMAIN t.pollfds_ = 1..N /\ N \in Nat /\ t.pollfds_ \in Seq(Pollfd)
  BY <1>1, TableType
<1>3. \A b \in 1..N : /\ OneEnd(Reports(s, b), C(b))
                      /\ t.pollfds_[b].fd < 0 => Reports(s, b) = <<>>
  BY <1>1, ReportsFacts
<1>4. seqs \in Seq(Seq(Report)) /\ Len(seqs) = N /\ \A b \in 1..N : seqs[b] = Reports(s, b)
  <2>1. \A b \in 1..N : Reports(s, b) \in Seq(Report)
    BY <1>3 DEF OneEnd
  <2>. QED  BY <1>2, <2>1
<1>5. q = FlattenSeq(seqs)
  BY DEF Ready
<1>. HIDE DEF q, seqs
<1>6. q \in Seq(Report) /\ Flat(q, seqs, N)
  BY <1>4, <1>5, Flattened
<1>. HIDE DEF N
<1>7. ASSUME NEW b \in 1..N, NEW k \in 1..Len(seqs[b])
      PROVE  t.pollfds_[b].fd >= 0 /\ seqs[b][k].conn = C(b)
  <2>1. seqs[b] # <<>> /\ seqs[b][k].conn = C(b)
    BY <1>3, <1>4 DEF OneEnd
  <2>2. t.pollfds_[b] \in Pollfd
    BY <1>2 DEF N
  <2>3. t.pollfds_[b].fd \in Int
    BY <2>2, DescriptorFacts
  <2>4. ~(t.pollfds_[b].fd < 0)
    BY <1>3, <1>4, <2>1
  <2>. QED  BY <2>1, <2>3, <2>4
<1>8. ASSUME NEW i \in 1..Len(q)
      PROVE  \E b \in 1..N : q[i].conn = C(b) /\ t.pollfds_[b].fd >= 0
  <2>1. PICK b \in 1..N : \E k \in 1..Len(seqs[b]) : q[i] = seqs[b][k]
    BY <1>6 DEF Flat
  <2>. QED  BY <1>7, <2>1
<1>9. ASSUME NEW i \in 1..Len(q)
      PROVE  IF q[i].conn = NoChannel THEN Loose(s)
             ELSE /\ q[i].conn \in Channel /\ s.status_[q[i].conn] # "CONNECTIONG"
                  /\ q[i].conn \notin s.reopened => s.status_[q[i].conn] \in Up
  <2>1. PICK b \in 1..N : q[i].conn = C(b) /\ t.pollfds_[b].fd >= 0
    BY <1>8
  <2>. DEFINE c == q[i].conn
  <2>2. c = C(b) /\ b \in 1..Len(t.pollfds_)
    BY <2>1 DEF N
  <2>. HIDE DEF c
  <2>3. IF c = NoChannel THEN Loose(s)
        ELSE /\ c \in Channel /\ s.status_[c] # "CONNECTIONG"
             /\ c \notin s.reopened => s.status_[c] \in Up
    BY <2>1, <2>2, EntryOwner DEF Owned
  <2>. QED  BY <2>3 DEF c
<1>10. ASSUME NEW i \in 1..Len(q), NEW j \in 1..Len(q), i < j, q[i].conn # NoChannel,
              q[i].conn = q[j].conn
       PROVE  q[i].name = "error" \/ q[j].name \notin End
  <2>1. PICK b \in 1..N, e \in 1..N : \E k \in 1..Len(seqs[b]), l \in 1..Len(seqs[e]) :
            q[i] = seqs[b][k] /\ q[j] = seqs[e][l] /\ (b = e => k < l)
    BY <1>6, <1>10 DEF Flat
  <2>2. PICK k \in 1..Len(seqs[b]), l \in 1..Len(seqs[e]) :
            q[i] = seqs[b][k] /\ q[j] = seqs[e][l] /\ (b = e => k < l)
    BY <2>1
  <2>3. /\ t.pollfds_[b].fd >= 0 /\ q[i].conn = C(b)
        /\ t.pollfds_[e].fd >= 0 /\ q[j].conn = C(e)
    BY <1>7, <2>2
  <2>4. t.poll_index_[q[i].conn] = b - 1 /\ t.poll_index_[q[j].conn] = e - 1
    <3>. DEFINE c == q[i].conn
    <3>1. c = C(b) /\ c = C(e) /\ c # NoChannel /\ c = q[j].conn
          /\ b \in 1..Len(t.pollfds_) /\ e \in 1..Len(t.pollfds_)
      BY <1>10, <2>3 DEF N
    <3>. HIDE DEF c
    <3>2. /\ s.table.pollfds_[b].fd >= 0 /\ c = s.table.channels_[s.table.pollfds_[b].fd]
          /\ b \in 1..Len(s.table.pollfds_)
          /\ s.table.pollfds_[e].fd >= 0 /\ c = s.table.channels_[s.table.pollfds_[e].fd]
          /\ e \in 1..Len(s.table.pollfds_)
      BY <2>3, <3>1
    <3>. HIDE DEF t
    <3>. HIDE DEF C
    <3>3. Owned(s, b, c) /\ Owned(s, e, c)
      BY <3>2, EntryOwner
    <3>4. s.table.poll_index_[c] = b - 1
      BY <3>1, <3>3 DEF Owned
    <3>5. s.table.poll_index_[c] = e - 1
      BY <3>1, <3>3 DEF Owned
    <3>. QED  BY <3>1, <3>4, <3>5 DEF c, t
  <2>5. b = e
    <3>1. b \in Int /\ e \in Int /\ b - 1 = e - 1
      BY <1>10, <2>4
    <3>. QED  BY <3>1
  <2>6. OneEnd(seqs[b], C(b))
    BY <1>3, <1>4
  <2>. QED  BY <2>2, <2>5, <2>6 DEF OneEnd
<1>11. Lost(s).status_ = s.status_ /\ Lost(s).process = "undefined"
       /\ Lost(s).reopened = s.reopened
  BY <1>1 DEF Lost, Net
<1>12. ActiveIn(Lost(s), q)
  BY <1>9, <1>10, <1>11 DEF ActiveIn, ReportIn
<1>13. (\A i \in 1..Len(q) : q[i].conn # NoChannel) => ActiveIn(s, q)
  BY <1>9, <1>10 DEF ActiveIn, ReportIn
<1>14. (\E i \in 1..Len(q) : q[i].conn = NoChannel) => Loose(s)
  BY <1>9
<1>. QED  BY <1>6, <1>12, <1>13, <1>14 DEF q

-----------------------------------------------------------------------------
(* Tasks and messages.                                                      *)

\* A task that is queued: Establish comes before all else, Shutdown after the
\* assignment.
TaskIn(s, k) ==
    IF k.op = "Establish" THEN s.status_[k.conn] = "CONNECTIONG"
    ELSE /\ s.status_[k.conn] # "CONNECTIONG"
         /\ k.op = "Shutdown" => s.status_[k.conn] \in Ending

\* Both establish the same connection.
Twice(k, l) == k.op = "Establish" /\ l.op = "Establish" /\ k.conn = l.conn

\* Of two messages of one thread the first queued is the first numbered.
Follows(k, l) ==
    k.op = "Send" /\ l.op = "Send" /\ k.data[1].by = l.data[1].by =>
        k.data[1].msg < l.data[1].msg

\* A message that is not sent yet is after all of its thread's that are, and before n.
Fresh(s, n, k) ==
    k.op = "Send" =>
        \E t \in Thread, m \in 1..MaxMessage :
            /\ IsMessage(k.data, t, m) /\ m < n
            /\ \A c \in Channel : Before(Bytes(s, c), t, m)

\* The tasks that wait, in the order in which they will run.
QueueIn(s, n, q) ==
    /\ q \in Seq(Task)
    /\ \A i \in 1..Len(q) : TaskIn(s, q[i]) /\ Fresh(s, n, q[i])
    /\ \A i, j \in 1..Len(q) : i < j => ~Twice(q[i], q[j]) /\ Follows(q[i], q[j])

\* A call another thread is in the middle of.
CallType(k) == k \in Call \cup {Idle}

\* Thread t's call: its connection is established, its message follows all that wait.
CallIn(s, n, t, q, k) ==
    k # Idle =>
        /\ s.status_[k.conn] # "CONNECTIONG"
        /\ k.set => s.status_[k.conn] \in Ending
        /\ Fresh(s, n, k)
        /\ k.op = "Send" => k.data[1].by = t
        /\ \A i \in 1..Len(q) : Follows(q[i], k)

\* All numbers used are before n.
Numbered(s, n) == \A t \in Thread \cup {Loop}, c \in Channel : Before(Bytes(s, c), t, n)

\* What r has got more than s is of t's message m.
Adds(s, r, t, m) ==
    \A c \in Channel : \A i \in 1..Len(Bytes(r, c)) :
        \/ \E j \in 1..Len(Bytes(s, c)) : Bytes(r, c)[i] = Bytes(s, c)[j]
        \/ Bytes(r, c)[i].by = t /\ Bytes(r, c)[i].msg = m

\* If k is a message of t, it is a later one than m.
Later(k, t, m) == k.op = "Send" /\ k.data[1].by = t => m < k.data[1].msg

\* A connection that has begun has begun for ever, and that it ends too.
Onward(s, r) ==
    \A c \in Channel :
        s.status_[c] # "CONNECTIONG" =>
            /\ r.status_[c] # "CONNECTIONG"
            /\ s.status_[c] \in Ending => r.status_[c] \in Ending

\* A step that sends nothing.
LEMMA AddsNothing ==
    ASSUME NEW s, NEW r,
           \A c \in Channel : Bytes(r, c) = Bytes(s, c) \/ Bytes(r, c) = <<>>
    PROVE  \A t, m : Adds(s, r, t, m)
<1>1. 1..Len(<<>>) = {}
  OBVIOUS
<1>. QED  BY <1>1 DEF Adds

\* A step that sends one message.
LEMMA AddsMessage ==
    ASSUME NEW s \in Net, NEW r, NEW c \in Channel, NEW data, NEW t \in Thread \cup {Loop},
           NEW m \in 1..MaxMessage, IsMessage(data, t, m), Longer(s, r, c, data)
    PROVE  Adds(s, r, t, m)
<1>0. /\ data \in Seq(Byte) /\ Len(data) = Length
      /\ \A j \in 1..Length : data[j].by = t /\ data[j].msg = m
  <2>1. data \in Seq(Byte) /\ Len(data) = Length
    BY MessageBytes
  <2>2. \A j \in 1..Length : data[j].by = t /\ data[j].msg = m /\ data[j].at = j
    BY MessageBytes
  <2>. QED  BY <2>1, <2>2
<1>. SUFFICES ASSUME NEW d \in Channel, NEW i \in 1..Len(Bytes(r, d))
              PROVE  \/ \E j \in 1..Len(Bytes(s, d)) : Bytes(r, d)[i] = Bytes(s, d)[j]
                     \/ Bytes(r, d)[i].by = t /\ Bytes(r, d)[i].msg = m
  BY DEF Adds
<1>1. CASE Bytes(r, d) = Bytes(s, d)
  BY <1>1
<1>2. CASE d = c /\ Bytes(r, c) = Bytes(s, c) \o data
  <2>. DEFINE b == Bytes(s, c)
  <2>1. /\ data \in Seq(Byte) /\ Len(data) = Length
        /\ \A j \in 1..Length : data[j].by = t /\ data[j].msg = m
    BY <1>0
  <2>2. b \in Seq(Byte)
    BY NetAt
  <2>3. i \in 1..Len(b \o data) /\ Bytes(r, d) = b \o data /\ Bytes(s, d) = b
    BY <1>2
  <2>. HIDE DEF b
  <2>4. \/ i \in 1..Len(b) /\ (b \o data)[i] = b[i]
        \/ i - Len(b) \in 1..Len(data) /\ (b \o data)[i] = data[i - Len(b)]
    BY <2>1, <2>2, <2>3, ConcatProperties
  <2>. QED  BY <2>1, <2>3, <2>4
<1>3. CASE Bytes(r, d) = <<>>
  <2>1. 1..Len(<<>>) = {}
    OBVIOUS
  <2>. QED  BY <1>3, <2>1
<1>. QED  BY <1>1, <1>2, <1>3 DEF Longer

\* Another thread's numbers, and later ones of the same, are not disturbed.
LEMMA BeforeAdds ==
    ASSUME NEW s, NEW r, NEW t, NEW m, Adds(s, r, t, m), NEW c \in Channel,
           NEW u, NEW k, Before(Bytes(s, c), u, k), u = t => m < k
    PROVE  Before(Bytes(r, c), u, k)
BY DEF Adds, Before

\* A message that waits stays after those that are sent.
LEMMA FreshKeeps ==
    ASSUME NEW s, NEW r, NEW t, NEW m, Adds(s, r, t, m), NEW k, Later(k, t, m),
           NEW n \in Nat, NEW n2 \in Nat, n <= n2, Fresh(s, n, k)
    PROVE  Fresh(r, n2, k)
<1>. SUFFICES ASSUME k.op = "Send"
              PROVE  \E u \in Thread, l \in 1..MaxMessage :
                         /\ IsMessage(k.data, u, l) /\ l < n2
                         /\ \A c \in Channel : Before(Bytes(r, c), u, l)
  BY DEF Fresh
<1>1. PICK u \in Thread, l \in 1..MaxMessage :
          /\ IsMessage(k.data, u, l) /\ l < n
          /\ \A c \in Channel : Before(Bytes(s, c), u, l)
  BY DEF Fresh
<1>2. k.data[1].by = u /\ k.data[1].msg = l
  <2>1. 1 \in 1..Length
    BY Bounds
  <2>. QED  BY <1>1, <2>1, MessageBytes
<1>3. u = t => m < l
  BY <1>2 DEF Later
<1>4. \A c \in Channel : Before(Bytes(r, c), u, l)
  BY <1>1, <1>3, BeforeAdds
<1>5. l < n2
  BY <1>1
<1>. QED  BY <1>1, <1>4, <1>5

\* A step that adds no message that waits leaves the queue as it should be.
LEMMA QueueKeeps ==
    ASSUME NEW s, NEW r, NEW t, NEW m, Adds(s, r, t, m), Onward(s, r),
           NEW n \in Nat, NEW n2 \in Nat, n <= n2, NEW q, QueueIn(s, n, q),
           \A i \in 1..Len(q) :
               /\ Later(q[i], t, m)
               /\ q[i].op = "Establish" => r.status_[q[i].conn] = s.status_[q[i].conn]
    PROVE  QueueIn(r, n2, q)
<1>1. q \in Seq(Task)
  BY DEF QueueIn
<1>2. ASSUME NEW i \in 1..Len(q) PROVE TaskIn(r, q[i]) /\ Fresh(r, n2, q[i])
  <2>1. TaskIn(s, q[i]) /\ Fresh(s, n, q[i])
    BY DEF QueueIn
  <2>2. q[i] \in Task
    BY <1>1
  <2>3. q[i].conn \in Channel
    BY <2>2 DEF Task
  <2>4. TaskIn(r, q[i])
    BY <2>1, <2>3 DEF TaskIn, Onward
  <2>. QED  BY <2>1, <2>4, FreshKeeps
<1>. QED  BY <1>1, <1>2 DEF QueueIn

\* The same of a call.
LEMMA CallKeeps ==
    ASSUME NEW s, NEW r, NEW t, NEW m, Adds(s, r, t, m), Onward(s, r),
           NEW n \in Nat, NEW n2 \in Nat, n <= n2, NEW u, NEW q, NEW k,
           CallType(k), CallIn(s, n, u, q, k), k # Idle => Later(k, t, m)
    PROVE  CallIn(r, n2, u, q, k)
<1>. SUFFICES ASSUME k # Idle
              PROVE  /\ r.status_[k.conn] # "CONNECTIONG"
                     /\ k.set => r.status_[k.conn] \in Ending
                     /\ Fresh(r, n2, k)
  BY DEF CallIn
<1>1. k.conn \in Channel /\ Fresh(s, n, k)
  BY DEF CallType, CallIn, Call
<1>2. Fresh(r, n2, k)
  BY <1>1, FreshKeeps
<1>. QED  BY <1>1, <1>2 DEF CallIn, Onward

\* The numbers used.
LEMMA NumberedKeeps ==
    ASSUME NEW s, NEW r, NEW t, NEW m \in Nat, Adds(s, r, t, m),
           NEW n \in Nat, NEW n2 \in Nat, n <= n2, m < n2, Numbered(s, n), s \in Net
    PROVE  Numbered(r, n2)
<1>. SUFFICES ASSUME NEW u \in Thread \cup {Loop}, NEW c \in Channel
              PROVE  Before(Bytes(r, c), u, n2)
  BY DEF Numbered
<1>1. Before(Bytes(s, c), u, n)
  BY DEF Numbered
<1>2. Bytes(s, c) \in Seq(Byte)
  BY NetAt
<1>3. Before(Bytes(s, c), u, n2)
  <2>1. ASSUME NEW i \in 1..Len(Bytes(s, c)) PROVE Bytes(s, c)[i].msg \in Nat
    BY <1>2, ByteType
  <2>. QED  BY <1>1, <2>1 DEF Before
<1>. QED  BY <1>3, BeforeAdds

-----------------------------------------------------------------------------
(* The queue from task to task.                                             *)

\* v is w without its first element.
Rest(w, v) ==
    /\ w \in Seq(Task) /\ v \in Seq(Task) /\ Len(w) >= 1 /\ Len(v) = Len(w) - 1
    /\ \A i \in 1..Len(v) : i + 1 \in 1..Len(w) /\ v[i] = w[i + 1]

\* v is w and k after it.
More(w, v, k) ==
    /\ w \in Seq(Task) /\ v \in Seq(Task) /\ Len(v) = Len(w) + 1 /\ v[Len(w) + 1] = k
    /\ \A i \in 1..Len(w) : v[i] = w[i]

\* The first task of the batch is taken.
LEMMA BatchTail ==
    ASSUME NEW b \in Seq(Task), b # <<>>, NEW q \in Seq(Task)
    PROVE  /\ Tail(b) \in Seq(Task) /\ Head(b) = (b \o q)[1] /\ Head(b) \in Task
           /\ Rest(b \o q, Tail(b) \o q)
<1>. DEFINE w == b \o q
            d == Tail(b)
            v == d \o q
<1>1. /\ d \in Seq(Task) /\ Len(b) \in Nat /\ Len(b) >= 1 /\ Len(d) = Len(b) - 1
      /\ \A i \in 1..Len(d) : d[i] = b[i + 1]
      /\ Head(b) = b[1] /\ b[1] \in Task
  BY EmptySeq, HeadTailProperties
<1>. HIDE DEF d
<1>2. /\ w \in Seq(Task) /\ Len(w) = Len(b) + Len(q) /\ Len(q) \in Nat
      /\ \A i \in 1..Len(w) : w[i] = IF i <= Len(b) THEN b[i] ELSE q[i - Len(b)]
  BY ConcatProperties
<1>3. /\ v \in Seq(Task) /\ Len(v) = Len(d) + Len(q)
      /\ \A i \in 1..Len(v) : v[i] = IF i <= Len(d) THEN d[i] ELSE q[i - Len(d)]
  <2>1. d \in Seq(Task)
    BY <1>1
  <2>. QED  BY <2>1, ConcatProperties
<1>. HIDE DEF w, v
<1>4. Len(w) >= 1 /\ Len(v) = Len(w) - 1 /\ w[1] = b[1]
  <2>1. Len(w) >= 1 /\ Len(v) = Len(w) - 1 /\ 1 \in 1..Len(w) /\ 1 <= Len(b)
    BY <1>1, <1>2, <1>3
  <2>. QED  BY <1>2, <2>1
<1>5. ASSUME NEW i \in 1..Len(v)
      PROVE  i + 1 \in 1..Len(w) /\ v[i] = w[i + 1]
  <2>1. i + 1 \in 1..Len(w) /\ i \in Nat
    BY <1>1, <1>2, <1>3
  <2>2. CASE i <= Len(d)
    <3>1. i \in 1..Len(d) /\ i + 1 <= Len(b)
      BY <1>1, <2>1, <2>2
    <3>. QED  BY <1>1, <1>2, <1>3, <2>1, <2>2, <3>1
  <2>3. CASE ~(i <= Len(d))
    <3>1. ~(i + 1 <= Len(b)) /\ i + 1 - Len(b) = i - Len(d)
      BY <1>1, <2>1, <2>3
    <3>. QED  BY <1>2, <1>3, <2>1, <2>3, <3>1
  <2>. QED  BY <2>1, <2>2, <2>3
<1>. QED  BY <1>1, <1>2, <1>3, <1>4, <1>5 DEF Rest, w, v, d

\* A task is queued.
LEMMA TaskAppended ==
    ASSUME NEW b \in Seq(Task), NEW q \in Seq(Task), NEW k \in Task
    PROVE  Append(q, k) \in Seq(Task) /\ More(b \o q, b \o Append(q, k), k)
<1>. DEFINE w == b \o q
            d == Append(q, k)
            v == b \o d
<1>1. /\ d \in Seq(Task) /\ Len(d) = Len(q) + 1 /\ Len(q) \in Nat /\ Len(b) \in Nat
      /\ \A i \in 1..Len(q) : d[i] = q[i]
      /\ d[Len(q) + 1] = k
  BY AppendProperties
<1>. HIDE DEF d
<1>2. /\ w \in Seq(Task) /\ Len(w) = Len(b) + Len(q)
      /\ \A i \in 1..Len(w) : w[i] = IF i <= Len(b) THEN b[i] ELSE q[i - Len(b)]
  BY ConcatProperties
<1>3. /\ v \in Seq(Task) /\ Len(v) = Len(b) + Len(d)
      /\ \A i \in 1..Len(v) : v[i] = IF i <= Len(b) THEN b[i] ELSE d[i - Len(b)]
  <2>1. d \in Seq(Task)
    BY <1>1
  <2>. QED  BY <2>1, ConcatProperties
<1>. HIDE DEF w, v
<1>4. Len(v) = Len(w) + 1
  BY <1>1, <1>2, <1>3
<1>5. v[Len(w) + 1] = k
  <2>1. /\ Len(w) + 1 \in 1..Len(v) /\ ~(Len(w) + 1 <= Len(b))
        /\ Len(w) + 1 - Len(b) = Len(q) + 1
    BY <1>1, <1>2, <1>3
  <2>. QED  BY <1>1, <1>3, <2>1
<1>6. ASSUME NEW i \in 1..Len(w) PROVE v[i] = w[i]
  <2>1. i \in 1..Len(v) /\ i \in Nat
    BY <1>1, <1>2, <1>4
  <2>2. CASE i <= Len(b)
    BY <1>2, <1>3, <2>1, <2>2
  <2>3. CASE ~(i <= Len(b))
    <3>1. i - Len(b) \in 1..Len(q)
      BY <1>1, <1>2, <2>1, <2>3
    <3>. QED  BY <1>1, <1>2, <1>3, <2>1, <2>3, <3>1
  <2>. QED  BY <2>2, <2>3
<1>. QED  BY <1>1, <1>2, <1>3, <1>4, <1>5, <1>6 DEF More, w, v, d

\* What holds of the tasks holds of those after the first, which they follow.
LEMMA QueueRest ==
    ASSUME NEW s, NEW n, NEW w, QueueIn(s, n, w), NEW v, Rest(w, v)
    PROVE  /\ QueueIn(s, n, v)
           /\ TaskIn(s, w[1]) /\ Fresh(s, n, w[1])
           /\ \A i \in 1..Len(v) : ~Twice(w[1], v[i]) /\ Follows(w[1], v[i])
<1>1. Len(w) \in Nat /\ Len(w) >= 1 /\ Len(v) = Len(w) - 1
  BY DEF Rest
<1>2. \A i \in 1..Len(v) : i + 1 \in 1..Len(w) /\ v[i] = w[i + 1] /\ 1 < i + 1
  BY <1>1 DEF Rest
<1>3. \A i, j \in 1..Len(v) : i < j => i + 1 < j + 1
  BY <1>1
<1>4. 1 \in 1..Len(w)
  BY <1>1
<1>5. \A i \in 1..Len(v) : TaskIn(s, v[i]) /\ Fresh(s, n, v[i])
  BY <1>2 DEF QueueIn
<1>6. ASSUME NEW i \in 1..Len(v), NEW j \in 1..Len(v), i < j
      PROVE  ~Twice(v[i], v[j]) /\ Follows(v[i], v[j])
  <2>1. i + 1 < j + 1 /\ i + 1 \in 1..Len(w) /\ j + 1 \in 1..Len(w)
    BY <1>2, <1>3, <1>6
  <2>2. ~Twice(w[i + 1], w[j + 1]) /\ Follows(w[i + 1], w[j + 1])
    BY <2>1 DEF QueueIn
  <2>. QED  BY <1>2, <2>2
<1>7. \A i \in 1..Len(v) : ~Twice(w[1], v[i]) /\ Follows(w[1], v[i])
  BY <1>2, <1>4 DEF QueueIn
<1>8. TaskIn(s, w[1]) /\ Fresh(s, n, w[1])
  BY <1>4 DEF QueueIn
<1>. QED  BY <1>5, <1>6, <1>7, <1>8 DEF QueueIn, Rest

\* A call follows the tasks that are left.
LEMMA CallRest ==
    ASSUME NEW s, NEW n, NEW t, NEW k, NEW w, CallIn(s, n, t, w, k), NEW v, Rest(w, v)
    PROVE  CallIn(s, n, t, v, k) /\ (k # Idle => Follows(w[1], k))
<1>1. 1 \in 1..Len(w)
  BY DEF Rest
<1>. QED  BY <1>1 DEF CallIn, Rest

\* A task more.
LEMMA QueueMore ==
    ASSUME NEW s, NEW n, NEW w, QueueIn(s, n, w), NEW k, NEW v, More(w, v, k),
           TaskIn(s, k), Fresh(s, n, k), k.op # "Establish",
           \A i \in 1..Len(w) : Follows(w[i], k)
    PROVE  QueueIn(s, n, v)
<1>1. Len(w) \in Nat /\ Len(v) = Len(w) + 1
  BY DEF More
<1>2. \A i \in 1..Len(v) : i \in 1..Len(w) \/ i = Len(w) + 1
  BY <1>1
<1>3. \A i \in 1..Len(w) : v[i] = w[i]
  BY DEF More
<1>4. v[Len(w) + 1] = k
  BY DEF More
<1>5. \A i \in 1..Len(v) : TaskIn(s, v[i]) /\ Fresh(s, n, v[i])
  BY <1>2, <1>3, <1>4 DEF QueueIn
<1>6. ASSUME NEW i \in 1..Len(v), NEW j \in 1..Len(v), i < j
      PROVE  ~Twice(v[i], v[j]) /\ Follows(v[i], v[j])
  <2>1. i \in 1..Len(w)
    BY <1>1, <1>6
  <2>2. CASE j \in 1..Len(w)
    BY <1>3, <1>6, <2>1, <2>2 DEF QueueIn
  <2>3. CASE j = Len(w) + 1
    BY <1>3, <1>4, <2>1, <2>3 DEF Twice
  <2>. QED  BY <1>2, <2>2, <2>3
<1>. QED  BY <1>5, <1>6 DEF QueueIn, More

\* A call of another thread follows it.
LEMMA CallMore ==
    ASSUME NEW s, NEW n, NEW t, NEW l, NEW w, CallIn(s, n, t, w, l), NEW k, NEW v,
           More(w, v, k), l # Idle => Follows(k, l)
    PROVE  CallIn(s, n, t, v, l)
<1>1. Len(w) \in Nat /\ Len(v) = Len(w) + 1
  BY DEF More
<1>2. \A i \in 1..Len(v) : i \in 1..Len(w) \/ i = Len(w) + 1
  BY <1>1
<1>. QED  BY <1>2 DEF CallIn, More

-----------------------------------------------------------------------------
(* The invariant.                                                           *)

\* What waits to run, in the order in which it will.
Waiting == batch \o task_

\* The calls of the other threads.
CallsIn(s, n, q, calls) ==
    /\ calls = [t \in Thread |-> calls[t]]
    /\ \A t \in Thread : CallType(calls[t]) /\ CallIn(s, n, t, q, calls[t])

\* While callbacks of a connection are under way, none that still is to run closes it.
Quiet(s, q) ==
    \A i \in 1..Len(q) : s.stack # <<>> /\ Head(s.stack).conn = q[i].conn => q[i].name \notin End

\* The inductive invariant.
IInv ==
    /\ TypeOK
    /\ NetIn(net)
    /\ StackIn(net)
    /\ ActiveIn(net, active)
    /\ Quiet(net, active)
    /\ QueueIn(net, next, Waiting)
    /\ CallsIn(net, next, Waiting, call)
    /\ Numbered(net, next)

\* The parts of it, and the types.
LEMMA Parts ==
    ASSUME IInv
    PROVE  /\ NetIn(net) /\ net \in Net /\ ActiveIn(net, active)
           /\ StackIn(net) /\ Quiet(net, active)
           /\ active \in Seq(Report) /\ handling \in BOOLEAN
           /\ active # <<>> => handling
           /\ handling => batch = <<>>
           /\ task_ \in Seq(Task) /\ batch \in Seq(Task)
           /\ next \in 1..(MaxMessage + 1) /\ next \in Nat
           /\ call \in [Thread -> Call \cup {Idle}]
           /\ QueueIn(net, next, Waiting) /\ CallsIn(net, next, Waiting, call)
           /\ Numbered(net, next)
BY DEF IInv, TypeOK, NetIn, Report

\* A method's step is onward.
LEMMA MovedOnward ==
    ASSUME NEW s, NEW r, NEW c \in Channel, Moved(s, r, c)
    PROVE  Onward(s, r)
BY DEF Moved, Others, Onward

\* No message that waits is one of the loop's own.
LEMMA FreshLater ==
    ASSUME NEW s, NEW n, NEW k, Fresh(s, n, k)
    PROVE  \A m : Later(k, Loop, m)
<1>. SUFFICES ASSUME k.op = "Send" PROVE k.data[1].by # Loop
  BY DEF Later
<1>1. PICK t \in Thread, m \in 1..MaxMessage : IsMessage(k.data, t, m)
  BY DEF Fresh
<1>2. 1 \in 1..Length
  BY Bounds
<1>3. k.data[1].by = t
  BY <1>1, <1>2, MessageBytes
<1>. QED  BY <1>3, SenderAssumption

\* The message of a call made in the loop, seen from what was said before the call.
LEMMA ReplyAdds ==
    ASSUME IInv, NEW c \in Channel, NEW op \in Op, Number(op),
           NEW e, Noted(net, c, op, e), NEW r, r.interrupted = e.interrupted,
           op = "Send" => Longer(e, r, c, Message(Loop)),
           op # "Send" => \A d \in Channel : Bytes(r, d) = Bytes(e, d)
    PROVE  /\ next' \in 1..(MaxMessage + 1) /\ next' \in Nat /\ next <= next'
           /\ \E m \in Nat : Adds(net, r, Loop, m) /\ m < next'
<1>1. /\ next \in 1..(MaxMessage + 1) /\ next \in Nat /\ net \in Net
  BY Parts
<1>2. /\ op = "Send" => next <= MaxMessage
      /\ next' = IF op = "Send" THEN next + 1 ELSE next
  BY DEF Number
<1>3. /\ next' \in 1..(MaxMessage + 1) /\ next' \in Nat /\ next <= next'
  BY <1>1, <1>2, Bounds
<1>4. \A d \in Channel : Bytes(e, d) = Bytes(net, d) \/ Bytes(r, d) = <<>>
  <2>1. ASSUME NEW d \in Channel PROVE Bytes(e, d) = Bytes(net, d) \/ Bytes(r, d) = <<>>
    <3>1. Bytes(e, d) = Bytes(net, d) \/ "Send" \in e.interrupted[d]
      BY DEF Noted
    <3>2. "Send" \in e.interrupted[d] => Bytes(r, d) = <<>>
      BY DEF Bytes
    <3>. QED  BY <3>1, <3>2
  <2>. QED  BY <2>1
<1>5. CASE op # "Send"
  <2>1. \A d \in Channel : Bytes(r, d) = Bytes(net, d) \/ Bytes(r, d) = <<>>
    BY <1>4, <1>5
  <2>2. Adds(net, r, Loop, 0)
    BY <2>1, AddsNothing
  <2>3. 0 \in Nat /\ 0 < next'
    BY <1>3
  <2>. QED  BY <1>3, <2>2, <2>3
<1>6. CASE op = "Send"
  <2>1. PICK data : data = Message(Loop)
    OBVIOUS
  <2>2. PICK m \in 1..MaxMessage : m = next
    BY <1>1, <1>2, <1>6, Bounds
  <2>3. IsMessage(data, Loop, m) /\ Loop \in Thread \cup {Loop}
    BY <2>1, <2>2 DEF IsMessage, Message
  <2>4. Longer(e, r, c, data)
    BY <1>6, <2>1
  <2>5. Longer(net, r, c, data)
    BY <1>4, <2>4 DEF Longer
  <2>6. Adds(net, r, Loop, m)
    BY <1>1, <2>3, <2>5, AddsMessage
  <2>7. m \in Nat /\ m < next'
    BY <1>1, <1>2, <1>6, <2>2
  <2>. QED  BY <1>3, <2>6, <2>7
<1>. QED  BY <1>5, <1>6

\* And from the calls.
LEMMA CallsKeep ==
    ASSUME NEW s, NEW r, NEW t, NEW m, Adds(s, r, t, m), Onward(s, r),
           NEW n \in Nat, NEW n2 \in Nat, n <= n2, NEW q, NEW calls, CallsIn(s, n, q, calls),
           \A u \in Thread : calls[u] # Idle => Later(calls[u], t, m)
    PROVE  CallsIn(r, n2, q, calls)
<1>1. ASSUME NEW u \in Thread
      PROVE  CallType(calls[u]) /\ CallIn(r, n2, u, q, calls[u])
  <2>. DEFINE k == calls[u]
  <2>1. CallType(k) /\ CallIn(s, n, u, q, k) /\ (k # Idle => Later(k, t, m))
    BY DEF CallsIn
  <2>. HIDE DEF k
  <2>2. CallIn(r, n2, u, q, k)
    BY <2>1, CallKeeps
  <2>. QED  BY <2>1, <2>2 DEF k
<1>. QED  BY <1>1 DEF CallsIn

\* A step of the loop's thread that sends at most its own message m, and establishes no
\* connection.
LEMMA LoopKeeps ==
    ASSUME NEW s \in Net, NEW r, NEW m \in Nat, Adds(s, r, Loop, m), Onward(s, r),
           \A c \in Channel : s.status_[c] = "CONNECTIONG" => r.status_[c] = "CONNECTIONG",
           NEW n \in Nat, NEW n2 \in Nat, n <= n2, m < n2,
           NEW q, QueueIn(s, n, q), NEW calls, CallsIn(s, n, q, calls), Numbered(s, n)
    PROVE  QueueIn(r, n2, q) /\ CallsIn(r, n2, q, calls) /\ Numbered(r, n2)
<1>1. QueueIn(r, n2, q)
  <2>1. ASSUME NEW i \in 1..Len(q)
        PROVE  /\ Later(q[i], Loop, m)
               /\ q[i].op = "Establish" => r.status_[q[i].conn] = s.status_[q[i].conn]
    <3>1. q[i] \in Task /\ TaskIn(s, q[i]) /\ Fresh(s, n, q[i])
      BY DEF QueueIn
    <3>2. Later(q[i], Loop, m)
      BY <3>1, FreshLater
    <3>. QED  BY <3>1, <3>2 DEF Task, TaskIn
  <2>. QED  BY <2>1, QueueKeeps
<1>2. CallsIn(r, n2, q, calls)
  <2>1. \A u \in Thread : calls[u] # Idle => Later(calls[u], Loop, m)
    BY FreshLater DEF CallsIn, CallIn
  <2>. QED  BY <2>1, CallsKeep
<1>3. Numbered(r, n2)
  BY NumberedKeeps
<1>. QED  BY <1>1, <1>2, <1>3

\* A step that sends nothing and establishes no connection.
LEMMA BytesKeep ==
    ASSUME NEW s \in Net, NEW r, \A c \in Channel : Bytes(r, c) = Bytes(s, c), Onward(s, r),
           \A c \in Channel : s.status_[c] = "CONNECTIONG" => r.status_[c] = "CONNECTIONG",
           NEW n \in Nat, n > 0, NEW q, QueueIn(s, n, q), NEW calls, CallsIn(s, n, q, calls),
           Numbered(s, n)
    PROVE  QueueIn(r, n, q) /\ CallsIn(r, n, q, calls) /\ Numbered(r, n)
<1>1. Adds(s, r, Loop, 0)
  BY AddsNothing
<1>2. 0 \in Nat /\ n <= n /\ 0 < n
  OBVIOUS
<1>. QED  BY <1>1, <1>2, LoopKeeps

\* One callback: what it does to its connection.
LEMMA HandleMoves ==
    ASSUME IInv, net.process = "running", Handle, NEW c, c = Head(active).conn
    PROVE  /\ c \in Channel /\ net.status_[c] # "CONNECTIONG" /\ net.stack = <<>>
           /\ Made(net, net', c) /\ \A d \in Channel : Bytes(net', d) = Bytes(net, d)
           /\ Head(active).name \notin End => net'.status_ = net.status_
           /\ Head(active).name = "error" => net'.stack = <<>>
<1>. DEFINE name == Head(active).name
<1>1. NetIn(net) /\ net \in Net /\ StackIn(net) /\ ActiveIn(net, active)
      /\ active \in Seq(Report) /\ active # <<>> /\ net.stack = <<>>
  BY Parts DEF Handle
<1>2. 1 \in 1..Len(active) /\ Head(active) = active[1] /\ Head(active) \in Report
  BY <1>1
<1>3. ReportIn(net, Head(active))
  BY <1>1, <1>2 DEF ActiveIn
<1>4. /\ c \in Channel /\ net.status_[c] # "CONNECTIONG"
      /\ name \in End => net.status_[c] \in Up \/ c \in net.reopened
      /\ name \in {"close", "error", "read", "write"}
  BY <1>2, <1>3 DEF ReportIn, Report
<1>5. net' = CASE name = "close" -> HandleClose(net, c)
               [] name = "error" -> HandleError(net, c)
               [] name = "read" -> HandleRead(net, c)
               [] name = "write" -> HandleWrite(net, c)
  BY DEF Handle
<1>6. OnlyOf(net, c) /\ ~Pending(net, c) /\ Callable(net, c)
  BY <1>1, StackEmpty DEF Callable, OnlyOf
<1>. HIDE DEF name
<1>7. CASE name = "close"
  <2>1. net' = HandleClose(net, c) /\ name \in End
    BY <1>5, <1>7 DEF End
  <2>2. /\ Moved(net, net', c) /\ StackKept(net, net')
        /\ net'.output_buffer_ = net.output_buffer_
        /\ \A d \in Channel : Bytes(net', d) = Bytes(net, d)
    BY <1>1, <1>4, <2>1, CloseMoves
  <2>3. Made(net, net', c)
    BY <1>1, <1>4, <1>6, <2>2, KeptStack
  <2>. QED  BY <1>1, <1>4, <1>7, <2>1, <2>2, <2>3 DEF name
<1>8. CASE name = "error"
  <2>1. net' = HandleError(net, c)
    BY <1>5, <1>8
  <2>2. /\ Moved(net, net', c) /\ net'.status_ = net.status_ /\ StackKept(net, net')
        /\ net'.output_buffer_ = net.output_buffer_
        /\ \A d \in Channel : Bytes(net', d) = Bytes(net, d)
    BY <1>1, <1>4, <2>1, ErrorMoves
  <2>3. Made(net, net', c)
    BY <1>1, <1>4, <1>6, <2>2, KeptStack
  <2>. QED  BY <1>1, <1>4, <2>2, <2>3 DEF name, StackKept
<1>9. CASE name = "read"
  <2>1. net' = HandleRead(net, c) /\ name \in End
    BY <1>5, <1>9 DEF End
  <2>2. Made(net, net', c) /\ \A d \in Channel : Bytes(net', d) = Bytes(net, d)
    BY <1>1, <1>4, <2>1, ReadMoves
  <2>. QED  BY <1>1, <1>4, <1>9, <2>1, <2>2 DEF name
<1>10. CASE name = "write"
  <2>1. net' = HandleWrite(net, c)
    BY <1>5, <1>10
  <2>2. /\ Moved(net, net', c) /\ net'.status_ = net.status_ /\ Bytes(net', c) = Bytes(net, c)
        /\ \/ net'.stack = net.stack
           \/ net'.stack = <<[then |-> "shutdown", conn |-> c, data |-> <<>>]>> \o net.stack
    <3>1. NetIn(net) /\ c \in Channel /\ net.status_[c] # "CONNECTIONG" /\ Callable(net, c)
      BY <1>1, <1>4, <1>6
    <3>2. PICK r : r = net'
      OBVIOUS
    <3>3. r = HandleWrite(net, c)
      BY <2>1, <3>2
    <3>4. /\ Moved(net, r, c) /\ r.status_ = net.status_ /\ Bytes(r, c) = Bytes(net, c)
          /\ \/ r.stack = net.stack
             \/ r.stack = <<[then |-> "shutdown", conn |-> c, data |-> <<>>]>> \o net.stack
      BY <3>1, <3>3, WriteMoves
    <3>. QED  BY <3>2, <3>4
  <2>3. \A d \in Channel : Bytes(net', d) = Bytes(net, d)
    BY <1>4, <2>2, MovedBytes
  <2>4. Made(net, net', c)
    <3>1. CASE net'.stack = net.stack
      <4>1. StackIn(net') /\ OnlyOf(net', c)
        BY <1>1, <3>1, StackEmpty DEF Callable, OnlyOf
      <4>. QED  BY <2>2, <4>1 DEF Made
    <3>2. CASE net'.stack = <<[then |-> "shutdown", conn |-> c, data |-> <<>>]>> \o net.stack
      BY <1>1, <1>4, <2>2, <3>2, CallMade
    <3>. QED  BY <2>2, <3>1, <3>2
  <2>. QED  BY <1>1, <1>4, <1>10, <2>2, <2>3, <2>4 DEF name
<1>. QED  BY <1>4, <1>7, <1>8, <1>9, <1>10

\* The callbacks that still are to run, when c has moved.
LEMMA ActiveMoved ==
    ASSUME NEW s, NEW r, NEW q, ActiveIn(s, q), NEW c \in Channel,
           r.reopened = s.reopened, r.process = "running" => s.process = "running",
           \A d \in Channel \ {c} : r.status_[d] = s.status_[d],
           r.status_[c] # "CONNECTIONG", q \in Seq(Report),
           \A i \in 1..Len(q) : q[i].conn = c => q[i].name \notin End \/ r.status_ = s.status_
    PROVE  ActiveIn(r, q)
<1>1. NoChannel \notin Channel
  BY ChannelAssumption
<1>2. ASSUME NEW i \in 1..Len(q) PROVE ReportIn(r, q[i])
  <2>. DEFINE k == q[i]
  <2>1. ReportIn(s, k) /\ k \in Report
    BY DEF ActiveIn
  <2>2. k.conn = c => k.name \notin End \/ r.status_ = s.status_
    OBVIOUS
  <2>3. k.conn \in Channel \cup {NoChannel}
    BY <2>1 DEF Report
  <2>. SUFFICES ReportIn(r, k)
    OBVIOUS
  <2>. HIDE DEF k
  <2>4. CASE k.conn = NoChannel
    BY <2>1, <2>4 DEF ReportIn
  <2>5. CASE k.conn = c
    BY <1>1, <2>1, <2>2, <2>5 DEF ReportIn
  <2>6. CASE k.conn # NoChannel /\ k.conn # c
    BY <2>1, <2>3, <2>6 DEF ReportIn
  <2>. QED  BY <2>4, <2>5, <2>6
<1>. QED  BY <1>2 DEF ActiveIn

\* One callback less: unless it took an error, those of the same connection that are left
\* close nothing.
LEMMA ActiveTail ==
    ASSUME NEW s, NEW q \in Seq(Report), q # <<>>, ActiveIn(s, q),
           NEW c \in Channel, Head(q).conn = c, NEW v, v = Tail(q)
    PROVE  /\ v \in Seq(Report) /\ ActiveIn(s, v)
           /\ Head(q).name # "error" =>
                  \A i \in 1..Len(v) : v[i].conn = c => v[i].name \notin End
<1>1. /\ v \in Seq(Report) /\ Len(q) \in Nat /\ Len(q) >= 1 /\ Len(v) = Len(q) - 1
      /\ \A i \in 1..Len(v) : v[i] = q[i + 1]
      /\ Head(q) = q[1]
  BY EmptySeq, HeadTailProperties
<1>2. 1 \in 1..Len(q) /\ \A i \in 1..Len(v) : i + 1 \in 1..Len(q) /\ 1 < i + 1
  BY <1>1
<1>3. NoChannel \notin Channel
  BY ChannelAssumption
<1>4. \A i \in 1..Len(v) : ReportIn(s, v[i])
  BY <1>1, <1>2 DEF ActiveIn
<1>5. ASSUME NEW i \in 1..Len(v), NEW j \in 1..Len(v), i < j, v[i].conn # NoChannel,
             v[i].conn = v[j].conn
      PROVE  v[i].name = "error" \/ v[j].name \notin End
  <2>1. i + 1 \in 1..Len(q) /\ j + 1 \in 1..Len(q) /\ i + 1 < j + 1
    BY <1>1, <1>2, <1>5
  <2>. QED  BY <1>1, <1>5, <2>1 DEF ActiveIn
<1>6. ASSUME NEW i \in 1..Len(v), v[i].conn = c, Head(q).name # "error"
      PROVE  v[i].name \notin End
  <2>1. q[1].conn = c /\ 1 < i + 1 /\ i + 1 \in 1..Len(q) /\ q[i + 1].conn = c
    BY <1>1, <1>2, <1>6
  <2>. QED  BY <1>1, <1>2, <1>3, <1>6, <2>1 DEF ActiveIn
<1>. QED  BY <1>1, <1>4, <1>5, <1>6 DEF ActiveIn

\* The type that the callbacks under way need.
LEMMA StackType ==
    ASSUME NEW s \in Net, StackIn(s)
    PROVE  s.stack # <<>> => s.status_[Head(s.stack).conn] # "CONNECTIONG"
<1>. SUFFICES ASSUME s.stack # <<>> PROVE s.status_[Head(s.stack).conn] # "CONNECTIONG"
  OBVIOUS
<1>1. FrameIn(s, Head(s.stack))
  BY StackTop
<1>. QED  BY <1>1 DEF FrameIn

\* A connection that alone has callbacks under way.
LEMMA OnlyTop ==
    ASSUME NEW s \in Net, StackIn(s), NEW c, OnlyOf(s, c), s.stack # <<>>
    PROVE  Head(s.stack).conn = c
<1>1. 1 \in 1..Len(s.stack) /\ Head(s.stack) = s.stack[1]
  BY StackTop
<1>. QED  BY <1>1 DEF OnlyOf

\* A callback of the loop.
LEMMA HandleKeeps ==
    ASSUME IInv, net.process = "running", Handle
    PROVE  IInv'
<1>. DEFINE q == Waiting
<1>1. /\ NetIn(net) /\ net \in Net /\ ActiveIn(net, active) /\ active \in Seq(Report)
      /\ handling \in BOOLEAN /\ (active # <<>> => handling)
      /\ handling => batch = <<>>
      /\ task_ \in Seq(Task) /\ batch \in Seq(Task) /\ next \in Nat /\ next > 0
      /\ QueueIn(net, next, q) /\ CallsIn(net, next, q, call) /\ Numbered(net, next)
      /\ next \in 1..(MaxMessage + 1)
  BY Parts
<1>2. /\ active # <<>> /\ active' = Tail(active)
      /\ handling' = handling /\ task_' = task_ /\ batch' = batch /\ call' = call
      /\ next' = next
  BY DEF Handle
<1>3. PICK c : c = Head(active).conn
  OBVIOUS
<1>4. /\ c \in Channel /\ net.status_[c] # "CONNECTIONG" /\ net.stack = <<>>
      /\ Made(net, net', c) /\ \A d \in Channel : Bytes(net', d) = Bytes(net, d)
      /\ Head(active).name \notin End => net'.status_ = net.status_
      /\ Head(active).name = "error" => net'.stack = <<>>
  BY <1>3, HandleMoves
<1>5. /\ Moved(net, net', c) /\ NetIn(net') /\ StackIn(net') /\ OnlyOf(net', c)
      /\ net' \in Net /\ Others(net, net', c)
      /\ net'.status_[c] # "CONNECTIONG"
  BY <1>4 DEF Made, Moved, NetIn
<1>6. PICK v : v = Tail(active)
  OBVIOUS
<1>7. /\ v \in Seq(Report) /\ ActiveIn(net, v)
      /\ Head(active).name # "error" =>
             \A i \in 1..Len(v) : v[i].conn = c => v[i].name \notin End
  BY <1>1, <1>2, <1>3, <1>4, <1>6, ActiveTail
<1>8. ActiveIn(net', v)
  <2>1. "error" \notin End
    BY DEF End
  <2>2. \A i \in 1..Len(v) : v[i].conn = c =>
            v[i].name \notin End \/ net'.status_ = net.status_
    BY <1>4, <1>7, <2>1
  <2>3. /\ net'.reopened = net.reopened /\ (net'.process = "running" => net.process = "running")
        /\ \A d \in Channel \ {c} : net'.status_[d] = net.status_[d]
    BY <1>5 DEF Others
  <2>. QED  BY <1>4, <1>5, <1>7, <2>2, <2>3, ActiveMoved
<1>9. Quiet(net', v)
  <2>1. CASE Head(active).name = "error"
    BY <1>4, <2>1 DEF Quiet
  <2>2. CASE Head(active).name # "error"
    <3>1. net'.stack # <<>> => Head(net'.stack).conn = c
      BY <1>5, OnlyTop
    <3>. QED  BY <1>7, <2>2, <3>1 DEF Quiet
  <2>. QED  BY <2>1, <2>2
<1>10. Waiting' = q
  BY <1>2 DEF Waiting
<1>. HIDE DEF q
<1>11. QueueIn(net', next, q) /\ CallsIn(net', next, q, call) /\ Numbered(net', next)
  <2>1. Onward(net, net')
    BY <1>4, <1>5, MovedOnward
  <2>2. \A d \in Channel : net.status_[d] = "CONNECTIONG" => net'.status_[d] = "CONNECTIONG"
    BY <1>4, <1>5 DEF Others
  <2>. QED  BY <1>1, <1>4, <2>1, <2>2, BytesKeep
<1>12. TypeOK'
  <2>1. handling = TRUE /\ batch = <<>>
    BY <1>1, <1>2
  <2>2. net'.stack # <<>> => net'.status_[Head(net'.stack).conn] # "CONNECTIONG"
    BY <1>5, StackType
  <2>3. call' \in [Thread -> Call \cup {Idle}]
    BY <1>2, Parts
  <2>. QED  BY <1>1, <1>2, <1>5, <1>6, <1>7, <2>1, <2>2, <2>3 DEF TypeOK, Report
<1>. QED  BY <1>2, <1>5, <1>6, <1>8, <1>9, <1>10, <1>11, <1>12 DEF IInv

\* A call that the user makes in a callback.
LEMMA ReplyStep ==
    ASSUME IInv, net.process = "running", NEW op \in Op, Reply(op)
    PROVE  \E c, e :
               /\ c \in Channel /\ Noted(net, c, op, e) /\ Made(e, net', c) /\ Head(net.stack).conn = c
               /\ net.stack # <<>> /\ net.status_[c] # "CONNECTIONG"
               /\ op = "Send" => Longer(e, net', c, Message(Loop))
               /\ op # "Send" => \A d \in Channel : Bytes(net', d) = Bytes(e, d)
<1>1. /\ NetIn(net) /\ net \in Net /\ StackIn(net) /\ Numbered(net, next)
      /\ next \in 1..(MaxMessage + 1) /\ next \in Nat
  BY Parts
<1>2. PICK c : c = Head(net.stack).conn
  OBVIOUS
<1>3. /\ net.stack # <<>> /\ Number(op) /\ Accepts(op, net.status_[c])
      /\ net' = FromLoop(Interrupt(net, c, op), c, op)
  BY <1>2 DEF Reply
<1>4. /\ c \in Channel /\ \A i \in 1..Len(net.stack) : net.stack[i].conn = c
      /\ FrameIn(net, Head(net.stack))
  BY <1>1, <1>2, <1>3, StackTop
<1>5. net.status_[c] # "CONNECTIONG"
  BY <1>2, <1>4 DEF FrameIn
<1>6. PICK e : e = Interrupt(net, c, op)
  OBVIOUS
<1>7. NetIn(e) /\ StackIn(e) /\ Noted(net, c, op, e)
  BY <1>1, <1>4, <1>6, InterruptMoves
<1>8. /\ e \in Net /\ e.status_ = net.status_ /\ e.stack = net.stack /\ e.process = net.process
      /\ Pending(e, c) => op \in e.interrupted[c]
      /\ Bytes(e, c) = Bytes(net, c) \/ "Send" \in e.interrupted[c]
  BY <1>4, <1>7 DEF Noted
<1>9. OnlyOf(e, c) /\ (Stacked(e, c) => Pending(e, c)) /\ (Held(e, c) # <<>> => Pending(e, c))
  <2>1. e.stack # <<>> /\ c = Head(e.stack).conn
    BY <1>2, <1>3, <1>8
  <2>2. (Stacked(e, c) => Pending(e, c)) /\ (Held(e, c) # <<>> => Pending(e, c))
    BY <1>7, <1>8, <2>1, StackTop
  <2>3. OnlyOf(e, c)
    BY <1>4, <1>8 DEF OnlyOf
  <2>. QED  BY <2>2, <2>3
<1>10. Before(Bytes(e, c), Loop, next)
  <2>1. Before(Bytes(net, c), Loop, next)
    BY <1>1, <1>4 DEF Numbered
  <2>2. "Send" \in e.interrupted[c] => Bytes(e, c) = <<>>
    BY DEF Bytes
  <2>3. Before(<<>>, Loop, next)
    <3>1. 1..Len(<<>>) = {}
      OBVIOUS
    <3>. QED  BY <3>1 DEF Before
  <2>. QED  BY <1>8, <2>1, <2>2, <2>3
<1>11. op = "Send" => next \in 1..MaxMessage
  BY <1>1, <1>3, Bounds DEF Number
<1>12. PICK r : r = net'
  OBVIOUS
<1>13. /\ Made(e, r, c)
       /\ op = "Send" => Longer(e, r, c, Message(Loop))
       /\ op # "Send" => \A d \in Channel : Bytes(r, d) = Bytes(e, d)
  <2>1. r = FromLoop(e, c, op) /\ Accepts(op, e.status_[c]) /\ e.status_[c] # "CONNECTIONG"
        /\ e.process = "running"
    BY <1>3, <1>5, <1>6, <1>8, <1>12
  <2>2. op = "Send" => next \in 1..MaxMessage /\ Before(Bytes(e, c), Loop, next)
    BY <1>10, <1>11
  <2>3. CASE op = "Send" /\ ~Callable(e, c)
    <3>1. Held(e, c) # <<>> /\ "Send" \notin e.interrupted[c]
      BY <1>9, <2>3 DEF Callable, OnlyOf
    <3>. QED  BY <1>8, <1>9, <2>3, <3>1
  <2>4. CASE op # "Send" \/ Callable(e, c)
    BY <1>4, <1>7, <1>8, <1>9, <2>1, <2>2, <2>4, ReplyMoves
  <2>. QED  BY <2>3, <2>4
<1>. QED  BY <1>2, <1>3, <1>4, <1>5, <1>7, <1>12, <1>13

\* The user calls the connection, and the rest holds on.
LEMMA ReplyKeeps ==
    ASSUME IInv, net.process = "running", NEW op \in Op, Reply(op)
    PROVE  IInv'
<1>. DEFINE q == Waiting
<1>1. /\ NetIn(net) /\ net \in Net /\ ActiveIn(net, active) /\ active \in Seq(Report)
      /\ Quiet(net, active)
      /\ handling \in BOOLEAN /\ (active # <<>> => handling)
      /\ handling => batch = <<>>
      /\ task_ \in Seq(Task) /\ batch \in Seq(Task) /\ next \in Nat
      /\ QueueIn(net, next, q) /\ CallsIn(net, next, q, call) /\ Numbered(net, next)
  BY Parts
<1>2. /\ active' = active /\ handling' = handling /\ task_' = task_ /\ batch' = batch
      /\ call' = call /\ Number(op)
  BY DEF Reply
<1>3. PICK c, e :
          /\ c \in Channel /\ Noted(net, c, op, e) /\ Made(e, net', c) /\ Head(net.stack).conn = c
          /\ net.stack # <<>> /\ net.status_[c] # "CONNECTIONG"
          /\ op = "Send" => Longer(e, net', c, Message(Loop))
          /\ op # "Send" => \A d \in Channel : Bytes(net', d) = Bytes(e, d)
  BY ReplyStep
<1>a. c \in Channel
  BY <1>3
<1>4. /\ Moved(e, net', c) /\ NetIn(net') /\ StackIn(net') /\ OnlyOf(net', c)
      /\ net' \in Net /\ Others(e, net', c) /\ net'.status_[c] # "CONNECTIONG"
  BY <1>3 DEF Made, Moved, NetIn
<1>5. /\ e.status_ = net.status_ /\ e.reopened = net.reopened /\ e.process = net.process
  BY <1>3 DEF Noted
<1>6. /\ net'.reopened = net.reopened /\ (net'.process = "running" => net.process = "running")
      /\ \A d \in Channel \ {c} : net'.status_[d] = net.status_[d]
      /\ net'.interrupted = e.interrupted
  BY <1>4, <1>5 DEF Others
<1>7. \A i \in 1..Len(active) : active[i].conn = c => active[i].name \notin End
  BY <1>1, <1>3 DEF Quiet
<1>8. ActiveIn(net', active)
  BY <1>1, <1>4, <1>6, <1>7, <1>a, ActiveMoved
<1>9. Quiet(net', active)
  <2>1. net'.stack # <<>> => Head(net'.stack).conn = c
    BY <1>4, OnlyTop
  <2>. QED  BY <1>7, <2>1 DEF Quiet
<1>10. Waiting' = q
  BY <1>2 DEF Waiting
<1>. HIDE DEF q
<1>11. /\ next' \in 1..(MaxMessage + 1) /\ next' \in Nat /\ next <= next'
       /\ \E m \in Nat : Adds(net, net', Loop, m) /\ m < next'
  BY <1>2, <1>3, <1>6, ReplyAdds
<1>12. PICK m \in Nat : Adds(net, net', Loop, m) /\ m < next'
  BY <1>11
<1>13. Onward(net, net')
  <2>1. Onward(e, net')
    BY <1>4, <1>a, MovedOnward
  <2>. QED  BY <1>5, <2>1 DEF Onward
<1>14. QueueIn(net', next', q) /\ CallsIn(net', next', q, call) /\ Numbered(net', next')
  <2>1. \A d \in Channel : net.status_[d] = "CONNECTIONG" => net'.status_[d] = "CONNECTIONG"
    BY <1>3, <1>6
  <2>. QED  BY <1>1, <1>11, <1>12, <1>13, <2>1, LoopKeeps
<1>15. TypeOK'
  <2>1. net'.stack # <<>> => net'.status_[Head(net'.stack).conn] # "CONNECTIONG"
    BY <1>4, StackType
  <2>2. call' \in [Thread -> Call \cup {Idle}]
    BY <1>2, Parts
  <2>. QED  BY <1>1, <1>2, <1>4, <1>11, <2>1, <2>2 DEF TypeOK, Report
<1>. QED  BY <1>2, <1>4, <1>8, <1>9, <1>10, <1>14, <1>15 DEF IInv

\* A callback has returned: those that are left, if they keep anything from the output,
\* were made by a Send().
Popped(s, c, w) ==
    /\ w \in Net
    /\ w.table = s.table /\ w.status_ = s.status_ /\ w.output_buffer_ = s.output_buffer_
    /\ w.socket = s.socket /\ w.told = s.told /\ w.interrupted = s.interrupted
    /\ w.reopened = s.reopened /\ w.process = s.process
    /\ w.stack = Tail(s.stack) /\ OnlyOf(w, c)
    /\ Stacked(w, c) => Stacked(s, c) /\ "Send" \in s.interrupted[c]
    /\ Head(s.stack).then = "shutdown" => w.stack = <<>>
    /\ \A d \in Channel \ {c} : /\ Held(s, d) = <<>> /\ Held(w, d) = <<>>
                                /\ ~Stacked(s, d) /\ ~Stacked(w, d)
    /\ Held(w, c) = <<>> \/ "Send" \in s.interrupted[c]
    /\ Held(s, c) = Head(s.stack).data
    /\ Head(s.stack).data # <<>> => Stacked(s, c)

LEMMA PopFields ==
    ASSUME NEW s \in Net, StackIn(s), s.stack # <<>>, NEW c, c = Head(s.stack).conn,
           NEW w, w = [s EXCEPT !.stack = Tail(@)]
    PROVE  /\ Popped(s, c, w)
           /\ \A r : r.stack = w.stack /\ r.interrupted = s.interrupted
                         /\ r.status_ = s.status_ => StackIn(r)
<1>. DEFINE z == s.stack
            y == Tail(z)
<1>1. z \in Seq(Frame) /\ z # <<>> /\ z = s.stack
  BY NetType
<1>2. w = [s EXCEPT !.stack = y]
  OBVIOUS
<1>. HIDE DEF z
<1>3. /\ y \in Seq(Frame) /\ Len(z) \in Nat /\ Len(z) >= 1 /\ Len(y) = Len(z) - 1
      /\ \A i \in 1..Len(y) : y[i] = z[i + 1]
      /\ Head(z) = z[1] /\ y = Tail(s.stack)
  BY <1>1, EmptySeq, HeadTailProperties
<1>. HIDE DEF y
<1>4. 1 \in 1..Len(z) /\ \A i \in 1..Len(y) : i + 1 \in 1..Len(z) /\ i + 1 # 1
  BY <1>3
<1>5. /\ w.table = s.table /\ w.status_ = s.status_ /\ w.output_buffer_ = s.output_buffer_
      /\ w.socket = s.socket /\ w.told = s.told /\ w.interrupted = s.interrupted
      /\ w.reopened = s.reopened /\ w.process = s.process /\ w.stack = y
  BY <1>2 DEF Net
<1>6. w \in Net
  BY <1>2, <1>3 DEF Net
<1>7. \A i \in 1..Len(z) : z[i].conn = c /\ FrameIn(s, z[i])
  BY <1>1, <1>3, <1>4 DEF StackIn
<1>8. ASSUME NEW i \in 1..Len(y)
      PROVE  /\ y[i].conn = c /\ FrameIn(s, y[i])
             /\ y[i].then = "append" => "Send" \in s.interrupted[c]
             /\ y[i].then = "shutdown" => i = Len(y)
  <2>1. y[i] = z[i + 1] /\ i + 1 \in 1..Len(z) /\ i + 1 # 1
    BY <1>3, <1>4
  <2>2. /\ z[i + 1].then = "append" => "Send" \in s.interrupted[z[i + 1].conn]
        /\ z[i + 1].then = "shutdown" => i + 1 = Len(z)
    BY <1>1, <2>1 DEF StackIn
  <2>. QED  BY <1>3, <1>7, <2>1, <2>2
<1>9. ASSUME NEW i \in 1..Len(y), y[i].data # <<>> PROVE "Send" \in s.interrupted[c]
  BY <1>8, <1>9 DEF FrameIn
<1>10. OnlyOf(w, c)
  BY <1>5, <1>8 DEF OnlyOf
<1>11. Stacked(w, c) => Stacked(s, c) /\ "Send" \in s.interrupted[c]
  <2>1. ASSUME NEW i \in 1..Len(y), y[i].data # <<>> PROVE Stacked(s, c)
    <3>1. i + 1 \in 1..Len(z) /\ z[i + 1].data # <<>> /\ z[i + 1].conn = c
      BY <1>3, <1>4, <1>7, <2>1
    <3>. QED  BY <1>1, <3>1 DEF Stacked
  <2>. QED  BY <1>5, <1>9, <2>1 DEF Stacked
<1>12. Head(z).then = "shutdown" => y = <<>>
  <2>1. Head(z).then = "shutdown" => 1 = Len(z)
    BY <1>1, <1>3, <1>4 DEF StackIn
  <2>2. Len(y) = 0 => y = <<>>
    BY <1>3, EmptySeq
  <2>. QED  BY <1>3, <2>1, <2>2
<1>13. y # <<>> => 1 \in 1..Len(y) /\ Head(y) = y[1]
  <2>1. y # <<>> => Len(y) # 0
    BY <1>3, EmptySeq
  <2>. QED  BY <1>3, <2>1
<1>14. y # <<>> => Head(y).conn = c /\ (Head(y).data # <<>> => "Send" \in s.interrupted[c])
  BY <1>8, <1>9, <1>13
<1>15. Held(w, c) = <<>> \/ "Send" \in s.interrupted[c]
  BY <1>5, <1>14 DEF Held
<1>16. Held(s, c) = Head(s.stack).data
  BY DEF Held
<1>17. \A d \in Channel \ {c} : Held(s, d) = <<>> /\ Held(w, d) = <<>>
  BY <1>5, <1>14 DEF Held
<1>18. \A d \in Channel \ {c} : ~Stacked(s, d) /\ ~Stacked(w, d)
  BY <1>1, <1>5, <1>7, <1>8 DEF Stacked
<1>19. Head(s.stack).data # <<>> => Stacked(s, c)
  BY <1>1, <1>3, <1>4, <1>7 DEF Stacked
<1>20. Popped(s, c, w)
  BY <1>1, <1>3, <1>5, <1>6, <1>10, <1>11, <1>12, <1>15, <1>16, <1>17, <1>18, <1>19 DEF Popped
<1>21. ASSUME NEW r, r.stack = w.stack, r.interrupted = s.interrupted, r.status_ = s.status_
       PROVE  StackIn(r)
  <2>1. ASSUME NEW i \in 1..Len(y) PROVE FrameIn(r, y[i])
    BY <1>8, <1>21 DEF FrameIn
  <2>2. 1 \in 1..Len(y) \/ Len(y) = 0
    <3>1. \A n \in Nat : n = 0 \/ 1 \in 1..n
      OBVIOUS
    <3>2. Len(y) \in Nat
      BY <1>3
    <3>. QED  BY <3>1, <3>2
  <2>3. \A i \in 1..Len(y) : y[i].conn = y[1].conn
    BY <1>8, <2>2
  <2>. QED  BY <1>5, <1>8, <1>21, <2>1, <2>3 DEF StackIn
<1>. QED  BY <1>20, <1>21

\* The caller of a callback that has returned has no output to see to.
LEMMA PopMoves ==
    ASSUME NEW s, NetIn(s), NEW c \in Channel, s.status_[c] # "CONNECTIONG",
           NEW w, Popped(s, c, w), Head(s.stack).data = <<>>
    PROVE  /\ Moved(s, w, c) /\ w.status_ = s.status_ /\ w.interrupted = s.interrupted
           /\ Bytes(w, c) = Bytes(s, c)
<1>1. s \in Net /\ ListIn(s) /\ Connection(s, c)
  BY DEF NetIn
<1>2. /\ w \in Net
      /\ w.table = s.table /\ w.status_ = s.status_ /\ w.output_buffer_ = s.output_buffer_
      /\ w.socket = s.socket /\ w.told = s.told /\ w.interrupted = s.interrupted
      /\ w.reopened = s.reopened /\ w.process = s.process
      /\ Stacked(w, c) => Stacked(s, c)
      /\ \A d \in Channel \ {c} : Held(w, d) = Held(s, d) /\ (Stacked(w, d) <=> Stacked(s, d))
      /\ Held(w, c) = <<>> \/ "Send" \in s.interrupted[c]
      /\ Held(s, c) = <<>>
  BY DEF Popped
<1>3. Bytes(w, c) = Bytes(s, c)
  BY <1>1, <1>2, BytesPlain
<1>4. ListIn(w)
  <2>1. ListKept(s, w)
    BY <1>2 DEF ListKept, StatusKept, ClosedIn
  <2>. QED  BY <1>1, <2>1, ListSame
<1>5. OutputAt(w, c)
  BY <1>1, <1>2 DEF Connection, OutputAt, IsWriting, ClosedIn
<1>6. Whole(Bytes(w, c))
  BY <1>1, <1>3 DEF Connection
<1>7. Moved(s, w, c)
  BY <1>2, <1>4, <1>5, <1>6, OutputMoved
<1>. QED  BY <1>2, <1>3, <1>7

\* It has: what a short write left.
LEMMA KeptMoves ==
    ASSUME NEW s, NetIn(s), NEW c \in Channel, s.status_[c] # "CONNECTIONG",
           FrameIn(s, Head(s.stack)), Head(s.stack) \in Frame, Head(s.stack).conn = c,
           Head(s.stack).then = "append",
           NEW w, Popped(s, c, w), NEW r, r = Kept(w, c, Head(s.stack).data)
    PROVE  /\ Moved(s, r, c) /\ r.status_ = s.status_ /\ r.interrupted = s.interrupted
           /\ r.stack = w.stack /\ Bytes(r, c) = Bytes(s, c)
<1>. DEFINE data == Head(s.stack).data
            sent == s.socket[c].sent
<1>1. s \in Net /\ ListIn(s) /\ Connection(s, c)
  BY DEF NetIn
<1>2. /\ w \in Net
      /\ w.table = s.table /\ w.status_ = s.status_ /\ w.output_buffer_ = s.output_buffer_
      /\ w.socket = s.socket /\ w.told = s.told /\ w.interrupted = s.interrupted
      /\ w.reopened = s.reopened /\ w.process = s.process
      /\ Stacked(w, c) => Stacked(s, c)
      /\ \A d \in Channel \ {c} : Held(w, d) = Held(s, d) /\ (Stacked(w, d) <=> Stacked(s, d))
      /\ Held(w, c) = <<>> \/ "Send" \in s.interrupted[c]
      /\ Held(s, c) = data
      /\ data # <<>> => Stacked(s, c)
  BY DEF Popped
<1>3. /\ s.output_buffer_[c] = <<>> \/ "Send" \in s.interrupted[c]
      /\ s.status_[c] = "DISCONNECTED" => "ForceClose" \in s.interrupted[c]
  BY DEF FrameIn
<1>4. data \in Seq(Byte) /\ sent \in Seq(Byte)
  BY <1>1, NetAt DEF Frame
<1>. HIDE DEF data, sent
<1>5. KeptFrom(s, c, w, data, r)
  <2>1. s.status_[c] = "DISCONNECTED" => Cut(s)
    BY <1>3 DEF Cut
  <2>2. r = Kept(w, c, data)
    BY DEF data
  <2>. QED  BY <1>2, <1>4, <2>1, <2>2, KeptFields
<1>6. /\ r \in Net /\ ListIn(r) /\ IsWriting(r, c)
      /\ r.status_ = s.status_ /\ r.told = s.told /\ r.reopened = s.reopened
      /\ r.interrupted = s.interrupted /\ r.process = s.process
      /\ r.socket = s.socket /\ r.stack = w.stack
      /\ r.output_buffer_[c] = s.output_buffer_[c] \o data
      /\ \A d \in Channel \ {c} :
             /\ r.output_buffer_[d] = s.output_buffer_[d]
             /\ r.table.interested_event_[d] = s.table.interested_event_[d]
  BY <1>2, <1>5 DEF KeptFrom
<1>7. \A d : Held(r, d) = Held(w, d) /\ (Stacked(r, d) <=> Stacked(w, d))
  <2>1. StackKept(w, r)
    BY <1>2, <1>6 DEF StackKept
  <2>. QED  BY <2>1, StackSame
<1>8. Bytes(r, c) = Bytes(s, c)
  <2>1. CASE "Send" \in s.interrupted[c]
    BY <1>6, <2>1 DEF Bytes
  <2>2. CASE "Send" \notin s.interrupted[c]
    <3>1. s.output_buffer_[c] = <<>> /\ Held(r, c) = <<>>
      BY <1>2, <1>3, <1>7, <2>2
    <3>2. r.output_buffer_[c] = data
      BY <1>4, <1>6, <3>1, ConcatEmptySeq
    <3>3. Line(s, c) = (sent \o data) \o <<>> /\ Line(r, c) = (sent \o <<>>) \o data
      BY <1>2, <1>6, <3>1, <3>2 DEF Line, sent
    <3>4. (sent \o data) \o <<>> = sent \o data /\ sent \o <<>> = sent
      <4>1. sent \o data \in Seq(Byte)
        BY <1>4, ConcatProperties
      <4>. QED  BY <1>4, <4>1, ConcatEmptySeq
    <3>. QED  BY <1>6, <2>2, <3>3, <3>4 DEF Bytes
  <2>. QED  BY <2>1, <2>2
<1>9. Whole(Bytes(r, c))
  BY <1>1, <1>8 DEF Connection
<1>10. OutputAt(r, c)
  <2>1. OutputAt(s, c)
    BY <1>1 DEF Connection
  <2>2. r.socket[c].shut => r.status_[c] \in Ending
    BY <1>6, <2>1 DEF OutputAt
  <2>3. ClosedIn(r, c) <=> ClosedIn(s, c)
    BY <1>6 DEF ClosedIn
  <2>4. s.output_buffer_[c] = <<>> /\ ~Stacked(s, c) =>
            r.output_buffer_[c] = <<>> /\ ~Stacked(r, c)
    <3>1. <<>> \o <<>> = <<>>
      OBVIOUS
    <3>. QED  BY <1>2, <1>6, <1>7, <3>1
  <2>5. r.socket[c].shut => \/ r.output_buffer_[c] = <<>> /\ ~Stacked(r, c)
                            \/ ClosedIn(r, c) \/ "Shutdown" \in r.interrupted[c]
    BY <1>6, <2>1, <2>3, <2>4 DEF OutputAt
  <2>6. r.status_[c] = "DISCONNECTED" => "ForceClose" \in r.interrupted[c]
    BY <1>3, <1>6
  <2>. QED  BY <1>6, <2>2, <2>5, <2>6 DEF OutputAt
<1>11. Moved(s, r, c)
  <2>1. \A d \in Channel \ {c} :
            /\ r.output_buffer_[d] = s.output_buffer_[d] /\ r.socket[d] = s.socket[d]
            /\ r.table.interested_event_[d] = s.table.interested_event_[d]
            /\ Held(r, d) = Held(s, d) /\ (Stacked(r, d) <=> Stacked(s, d))
    BY <1>2, <1>6, <1>7
  <2>2. r.process \in {s.process, "killed"}
    BY <1>6
  <2>. QED  BY <1>1, <1>6, <1>9, <1>10, <2>1, <2>2, OutputMoved
<1>. QED  BY <1>6, <1>8, <1>11

\* The method that made the innermost callback goes on.
LEMMA ReturnMoves ==
    ASSUME NEW s, NetIn(s), StackIn(s), s.stack # <<>>, NEW c, c = Head(s.stack).conn,
           NEW r, r = Resumed(s)
    PROVE  /\ c \in Channel /\ s.status_[c] # "CONNECTIONG"
           /\ Made(s, r, c) /\ r.status_ = s.status_
           /\ \A d \in Channel : Bytes(r, d) = Bytes(s, d)
<1>. DEFINE f == Head(s.stack)
            w == [s EXCEPT !.stack = Tail(@)]
<1>1. s \in Net
  BY DEF NetIn
<1>2. /\ c \in Channel /\ f \in Frame /\ FrameIn(s, f)
  BY <1>1, StackTop
<1>3. /\ Popped(s, c, w)
      /\ \A x : x.stack = w.stack /\ x.interrupted = s.interrupted
                    /\ x.status_ = s.status_ => StackIn(x)
  BY <1>1, PopFields
<1>4. f.conn = c /\ s.status_[c] # "CONNECTIONG"
      /\ (f.then # "append" => f.data = <<>>)
      /\ f.then \in {"return", "append", "shutdown"}
  BY <1>2 DEF FrameIn, Frame
<1>5. r = CASE f.then = "append" -> Kept(w, c, f.data)
            [] f.then = "shutdown" ->
                   IF s.status_[c] = "DISCONNECTING" THEN ShutdownInLoop(w, c) ELSE w
            [] f.then = "return" -> w
  BY DEF Resumed
<1>. HIDE DEF w
<1>6. /\ Moved(s, r, c) /\ r.status_ = s.status_ /\ r.interrupted = s.interrupted
      /\ r.stack = w.stack /\ Bytes(r, c) = Bytes(s, c)
  <2>1. CASE f.then = "append"
    <3>1. r = Kept(w, c, f.data)
      BY <1>5, <2>1
    <3>. QED  BY <1>2, <1>3, <1>4, <2>1, <3>1, KeptMoves
  <2>2. CASE f.then # "append"
    <3>1. /\ Moved(s, w, c) /\ w.status_ = s.status_ /\ w.interrupted = s.interrupted
          /\ Bytes(w, c) = Bytes(s, c)
      BY <1>2, <1>3, <1>4, <2>2, PopMoves
    <3>2. CASE r = w
      BY <3>1, <3>2
    <3>3. CASE f.then = "shutdown" /\ s.status_[c] = "DISCONNECTING" /\ r = ShutdownInLoop(w, c)
      <4>1. NetIn(w) /\ w.status_[c] \in Ending
        BY <3>1, <3>3 DEF Moved, Ending
      <4>2. ~Stacked(w, c)
        <5>1. w.stack = <<>>
          BY <1>3, <3>3 DEF Popped
        <5>. QED  BY <5>1, StackEmpty
      <4>3. /\ Moved(w, r, c) /\ r.status_ = w.status_ /\ StackKept(w, r)
            /\ \A d \in Channel : Bytes(r, d) = Bytes(w, d)
        BY <1>2, <3>3, <4>1, <4>2, ShutdownMoves
      <4>4. Moved(s, r, c)
        BY <1>2, <3>1, <4>3, MovedTwice
      <4>. QED  BY <1>2, <3>1, <4>3, <4>4 DEF StackKept
    <3>. QED  BY <1>4, <1>5, <2>2, <3>2, <3>3
  <2>. QED  BY <2>1, <2>2
<1>7. StackIn(r)
  BY <1>3, <1>6
<1>8. OnlyOf(r, c)
  BY <1>3, <1>6 DEF Popped, OnlyOf
<1>9. \A d \in Channel : Bytes(r, d) = Bytes(s, d)
  BY <1>2, <1>6, MovedBytes
<1>. QED  BY <1>2, <1>4, <1>6, <1>7, <1>8, <1>9 DEF Made

\* A callback returns.
LEMMA ReturnKeeps ==
    ASSUME IInv, net.process = "running", CallbackReturns
    PROVE  IInv'
<1>. DEFINE q == Waiting
<1>1. /\ NetIn(net) /\ net \in Net /\ ActiveIn(net, active) /\ active \in Seq(Report)
      /\ Quiet(net, active) /\ StackIn(net)
      /\ handling \in BOOLEAN /\ (active # <<>> => handling)
      /\ handling => batch = <<>>
      /\ task_ \in Seq(Task) /\ batch \in Seq(Task) /\ next \in Nat /\ next > 0
      /\ next \in 1..(MaxMessage + 1)
      /\ QueueIn(net, next, q) /\ CallsIn(net, next, q, call) /\ Numbered(net, next)
  BY Parts
<1>2. /\ active' = active /\ handling' = handling /\ task_' = task_ /\ batch' = batch
      /\ call' = call /\ next' = next /\ net.stack # <<>> /\ net' = Resumed(net)
  BY DEF CallbackReturns
<1>3. PICK c : c = Head(net.stack).conn
  OBVIOUS
<1>4. /\ c \in Channel /\ net.status_[c] # "CONNECTIONG"
      /\ Made(net, net', c) /\ net'.status_ = net.status_
      /\ \A d \in Channel : Bytes(net', d) = Bytes(net, d)
  BY <1>1, <1>2, <1>3, ReturnMoves
<1>5. /\ Moved(net, net', c) /\ NetIn(net') /\ StackIn(net') /\ OnlyOf(net', c)
      /\ net' \in Net /\ Others(net, net', c) /\ net'.status_[c] # "CONNECTIONG"
  BY <1>4 DEF Made, Moved, NetIn
<1>6. ActiveIn(net', active)
  <2>1. /\ net'.reopened = net.reopened /\ (net'.process = "running" => net.process = "running")
        /\ \A d \in Channel \ {c} : net'.status_[d] = net.status_[d]
    BY <1>5 DEF Others
  <2>. QED  BY <1>1, <1>4, <1>5, <2>1, ActiveMoved
<1>7. Quiet(net', active)
  <2>1. net'.stack # <<>> => Head(net'.stack).conn = c
    BY <1>5, OnlyTop
  <2>. QED  BY <1>1, <1>2, <1>3, <2>1 DEF Quiet
<1>8. Waiting' = q
  BY <1>2 DEF Waiting
<1>. HIDE DEF q
<1>9. QueueIn(net', next, q) /\ CallsIn(net', next, q, call) /\ Numbered(net', next)
  <2>1. Onward(net, net')
    BY <1>4, <1>5, MovedOnward
  <2>2. \A d \in Channel : net.status_[d] = "CONNECTIONG" => net'.status_[d] = "CONNECTIONG"
    BY <1>4
  <2>. QED  BY <1>1, <1>4, <2>1, <2>2, BytesKeep
<1>10. TypeOK'
  <2>1. net'.stack # <<>> => net'.status_[Head(net'.stack).conn] # "CONNECTIONG"
    BY <1>5, StackType
  <2>2. call' \in [Thread -> Call \cup {Idle}]
    BY <1>2, Parts
  <2>. QED  BY <1>1, <1>2, <1>5, <2>1, <2>2 DEF TypeOK, Report
<1>. QED  BY <1>2, <1>5, <1>6, <1>7, <1>8, <1>9, <1>10 DEF IInv

\* SendInLoop() of a message that was queued.
LEMMA SentMade ==
    ASSUME NEW s, NetIn(s), StackIn(s), s.stack = <<>>, NEW c \in Channel,
           s.status_[c] # "CONNECTIONG",
           NEW data, NEW t \in Thread, NEW m \in 1..MaxMessage, IsMessage(data, t, m),
           Before(Bytes(s, c), t, m), NEW r, r = SendInLoop(s, c, data)
    PROVE  Made(s, r, c) /\ Longer(s, r, c, data)
<1>0. PICK u \in Thread \cup {Loop} : u = t
  OBVIOUS
<1>1. s \in Net /\ OnlyOf(s, c) /\ ~Pending(s, c)
  BY StackEmpty DEF NetIn, Callable, OnlyOf
<1>a. Callable(s, c)
  BY StackEmpty
<1>b. IsMessage(data, u, m) /\ Before(Bytes(s, c), u, m)
  BY <1>0
<1>2. /\ Moved(s, r, c) /\ r.status_ = s.status_ /\ r.process \in {s.process, "killed"}
      /\ Bytes(r, c) \in {Bytes(s, c), Bytes(s, c) \o data, <<>>}
      /\ SentTo(s, c, r)
  BY <1>a, <1>b, SendMoves
<1>3. \A d \in Channel \ {c} : Bytes(r, d) = Bytes(s, d)
  BY <1>2, MovedBytes
<1>4. Longer(s, r, c, data)
  BY <1>2, <1>3 DEF Longer
<1>5. StackIn(r) /\ OnlyOf(r, c)
  <2>1. r.interrupted = s.interrupted
    BY <1>2 DEF Moved, Others
  <2>. QED  BY <1>1, <1>2, <2>1, SentStack
<1>. QED  BY <1>2, <1>4, <1>5 DEF Made

\* A task of the batch: what it does to its connection, when no callback is under way.
LEMMA RunTaskMoves ==
    ASSUME IInv, net.process = "running", RunTask, NEW k, k = Head(batch)
    PROVE  \E c \in Channel :
               /\ Made(net, net', c) /\ c = k.conn
               /\ \/ \A d \in Channel : Bytes(net', d) = Bytes(net, d)
                  \/ k.op = "Send" /\ Longer(net, net', c, k.data)
<1>1. /\ NetIn(net) /\ net \in Net /\ StackIn(net)
      /\ batch \in Seq(Task) /\ task_ \in Seq(Task)
      /\ QueueIn(net, next, Waiting)
  BY Parts
<1>2. batch # <<>> /\ net.stack = <<>>
  BY DEF RunTask
<1>3. k \in Task /\ Rest(Waiting, Tail(batch) \o task_) /\ k = Waiting[1]
  BY <1>1, <1>2, BatchTail DEF Waiting
<1>4. TaskIn(net, k) /\ Fresh(net, next, k)
  BY <1>1, <1>3, QueueRest
<1>. DEFINE c == k.conn
<1>5. c \in Channel /\ k.op \in {"Establish", "Send", "Shutdown", "ForceClose"}
  BY <1>3 DEF Task
<1>6. net' = CASE k.op = "Establish" -> ConnectEstablished(net, c)
               [] k.op = "Send" -> SendInLoop(net, c, k.data)
               [] k.op = "Shutdown" -> ShutdownInLoop(net, c)
               [] k.op = "ForceClose" -> ForceCloseInLoop(net, c)
  BY DEF RunTask
<1>7. OnlyOf(net, c) /\ ~Pending(net, c) /\ Callable(net, c) /\ ~Stacked(net, c)
  BY <1>2, StackEmpty DEF Callable, OnlyOf
<1>. HIDE DEF c
<1>8. CASE k.op = "Establish"
  <2>1. net' = ConnectEstablished(net, c) /\ net.status_[c] = "CONNECTIONG"
    BY <1>4, <1>6, <1>8 DEF TaskIn, c
  <2>2. Made(net, net', c) /\ \A d \in Channel : Bytes(net', d) = Bytes(net, d)
    BY <1>1, <1>2, <1>5, <2>1, UpMoves
  <2>. QED  BY <1>5, <2>2 DEF c
<1>9. CASE k.op = "Send"
  <2>1. net' = SendInLoop(net, c, k.data) /\ net.status_[c] # "CONNECTIONG"
    BY <1>4, <1>6, <1>9 DEF TaskIn, c
  <2>2. PICK t \in Thread, m \in 1..MaxMessage :
            IsMessage(k.data, t, m) /\ \A d \in Channel : Before(Bytes(net, d), t, m)
    BY <1>4, <1>9 DEF Fresh
  <2>3. PICK r, data : r = net' /\ data = k.data
    OBVIOUS
  <2>4. /\ r = SendInLoop(net, c, data) /\ IsMessage(data, t, m)
        /\ Before(Bytes(net, c), t, m)
    BY <1>5, <2>1, <2>2, <2>3
  <2>5. Made(net, r, c) /\ Longer(net, r, c, data)
    BY <1>1, <1>2, <1>5, <2>1, <2>4, SentMade
  <2>. QED  BY <1>5, <1>9, <2>3, <2>5 DEF c
<1>10. CASE k.op = "Shutdown"
  <2>1. net' = ShutdownInLoop(net, c) /\ net.status_[c] \in Ending
    BY <1>4, <1>6, <1>10 DEF TaskIn, c
  <2>2. /\ Moved(net, net', c) /\ StackKept(net, net')
        /\ net'.output_buffer_ = net.output_buffer_
        /\ \A d \in Channel : Bytes(net', d) = Bytes(net, d)
    BY <1>1, <1>5, <1>7, <2>1, ShutdownMoves
  <2>3. Made(net, net', c)
    BY <1>1, <1>5, <1>7, <2>2, KeptStack
  <2>. QED  BY <1>5, <2>2, <2>3 DEF c
<1>11. CASE k.op = "ForceClose"
  <2>1. net' = ForceCloseInLoop(net, c) /\ net.status_[c] # "CONNECTIONG"
    BY <1>4, <1>6, <1>11 DEF TaskIn, c
  <2>2. /\ Moved(net, net', c) /\ StackKept(net, net')
        /\ net'.output_buffer_ = net.output_buffer_
        /\ \A d \in Channel : Bytes(net', d) = Bytes(net, d)
    BY <1>1, <1>5, <2>1, ForceMoves
  <2>3. Made(net, net', c)
    BY <1>1, <1>5, <1>7, <2>2, KeptStack
  <2>. QED  BY <1>5, <2>2, <2>3 DEF c
<1>. QED  BY <1>5, <1>8, <1>9, <1>10, <1>11

\* A task of the batch.
LEMMA RunTaskKeeps ==
    ASSUME IInv, net.process = "running", RunTask
    PROVE  IInv'
<1>. DEFINE w == Waiting
            v == Tail(batch) \o task_
            k == Head(batch)
<1>1. /\ NetIn(net) /\ net \in Net /\ active \in Seq(Report)
      /\ task_ \in Seq(Task) /\ batch \in Seq(Task) /\ next \in Nat /\ next > 0
      /\ QueueIn(net, next, w) /\ CallsIn(net, next, w, call) /\ Numbered(net, next)
      /\ next \in 1..(MaxMessage + 1)
  BY Parts
<1>2. /\ batch # <<>> /\ batch' = Tail(batch) /\ next' = next
      /\ active' = active /\ handling' = handling /\ task_' = task_ /\ call' = call
  BY DEF RunTask
<1>3. handling = FALSE /\ active = <<>>
  <2>1. handling => batch = <<>>
    BY Parts
  <2>2. handling \in BOOLEAN
    BY Parts
  <2>3. active # <<>> => handling
    BY Parts
  <2>4. ~handling
    BY <1>2, <2>1
  <2>. QED  BY <2>2, <2>3, <2>4
<1>4. Tail(batch) \in Seq(Task) /\ k = w[1] /\ k \in Task /\ Rest(w, v)
  BY <1>1, <1>2, BatchTail DEF Waiting
<1>5. /\ QueueIn(net, next, v) /\ TaskIn(net, k) /\ Fresh(net, next, k)
      /\ \A i \in 1..Len(v) : ~Twice(k, v[i]) /\ Follows(k, v[i])
  BY <1>1, <1>4, QueueRest
<1>6. /\ CallsIn(net, next, v, call)
      /\ \A u \in Thread : call[u] # Idle => Follows(k, call[u])
  <2>1. ASSUME NEW u \in Thread
        PROVE  CallType(call[u]) /\ CallIn(net, next, u, v, call[u])
               /\ (call[u] # Idle => Follows(k, call[u]))
    <3>. DEFINE l == call[u]
    <3>1. CallType(l) /\ CallIn(net, next, u, w, l)
      BY <1>1 DEF CallsIn
    <3>. HIDE DEF l, w, v, k
    <3>2. CallIn(net, next, u, v, l) /\ (l # Idle => Follows(w[1], l))
      BY <1>4, <3>1, CallRest
    <3>. QED  BY <1>4, <3>1, <3>2 DEF l
  <2>. QED  BY <1>1, <2>1 DEF CallsIn
<1>7. PICK c \in Channel :
          /\ Made(net, net', c) /\ c = k.conn
          /\ \/ \A d \in Channel : Bytes(net', d) = Bytes(net, d)
             \/ k.op = "Send" /\ Longer(net, net', c, k.data)
  BY RunTaskMoves
<1>8. Waiting' = v
  BY <1>2 DEF Waiting
<1>. HIDE DEF w, v, k
<1>9. \E t \in Thread \cup {Loop}, m \in Nat :
          /\ Adds(net, net', t, m) /\ m < next
          /\ \A i \in 1..Len(v) : Later(v[i], t, m)
          /\ \A u \in Thread : call[u] # Idle => Later(call[u], t, m)
  <2>1. CASE \A d \in Channel : Bytes(net', d) = Bytes(net, d)
    <3>1. Adds(net, net', Loop, 0)
      BY <2>1, AddsNothing
    <3>2. \A i \in 1..Len(v) : Later(v[i], Loop, 0)
      BY <1>5, FreshLater DEF QueueIn
    <3>3. \A u \in Thread : call[u] # Idle => Later(call[u], Loop, 0)
      BY <1>1, FreshLater DEF CallsIn, CallIn
    <3>4. 0 \in Nat /\ 0 < next
      BY <1>1
    <3>. QED  BY <3>1, <3>2, <3>3, <3>4
  <2>2. CASE k.op = "Send" /\ Longer(net, net', c, k.data)
    <3>1. PICK t \in Thread, m \in 1..MaxMessage : IsMessage(k.data, t, m) /\ m < next
      BY <1>5, <2>2 DEF Fresh
    <3>2. Adds(net, net', t, m)
      BY <1>1, <2>2, <3>1, AddsMessage
    <3>3. k.data[1].by = t /\ k.data[1].msg = m
      <4>1. 1 \in 1..Length
        BY Bounds
      <4>. QED  BY <3>1, <4>1, MessageBytes
    <3>4. \A i \in 1..Len(v) : Later(v[i], t, m)
      BY <1>5, <2>2, <3>3 DEF Follows, Later
    <3>5. \A u \in Thread : call[u] # Idle => Later(call[u], t, m)
      BY <1>6, <2>2, <3>3 DEF Follows, Later
    <3>. QED  BY <3>1, <3>2, <3>4, <3>5
  <2>. QED  BY <1>7, <2>1, <2>2
<1>10. PICK t \in Thread \cup {Loop}, m \in Nat :
          /\ Adds(net, net', t, m) /\ m < next
          /\ \A i \in 1..Len(v) : Later(v[i], t, m)
          /\ \A u \in Thread : call[u] # Idle => Later(call[u], t, m)
  BY <1>9
<1>11. /\ Onward(net, net') /\ NetIn(net') /\ net' \in Net /\ Others(net, net', c)
       /\ StackIn(net')
  BY <1>7, MovedOnward DEF Made, Moved, NetIn
<1>12. QueueIn(net', next, v)
  <2>1. ASSUME NEW i \in 1..Len(v), v[i].op = "Establish"
        PROVE  net'.status_[v[i].conn] = net.status_[v[i].conn]
    <3>1. v[i] \in Task /\ TaskIn(net, v[i]) /\ ~Twice(k, v[i])
      BY <1>5 DEF QueueIn
    <3>2. v[i].conn \in Channel /\ net.status_[v[i].conn] = "CONNECTIONG"
      BY <2>1, <3>1 DEF Task, TaskIn
    <3>3. v[i].conn # c
      BY <1>5, <1>7, <2>1, <3>1, <3>2 DEF TaskIn, Twice
    <3>. QED  BY <1>11, <3>2, <3>3 DEF Others
  <2>2. next <= next
    BY <1>1
  <2>. QED  BY <1>1, <1>5, <1>10, <1>11, <2>1, <2>2, QueueKeeps
<1>13. CallsIn(net', next, v, call)
  <2>1. next <= next
    BY <1>1
  <2>. QED  BY <1>1, <1>6, <1>10, <1>11, <2>1, CallsKeep
<1>14. Numbered(net', next)
  <2>1. next <= next
    BY <1>1
  <2>. QED  BY <1>1, <1>10, <2>1, NumberedKeeps
<1>15. active' \in Seq(Report) /\ ActiveIn(net', active') /\ Quiet(net', active')
  <2>1. active' = <<>> /\ 1..Len(<<>>) = {}
    BY <1>2, <1>3
  <2>. QED  BY <1>1, <1>2, <2>1 DEF ActiveIn, Quiet
<1>16. TypeOK'
  <2>1. net' \in Net /\ task_' \in Seq(Task) /\ batch' \in Seq(Task) /\ handling' = FALSE
        /\ active' = <<>>
    BY <1>1, <1>2, <1>3, <1>4, <1>11
  <2>2. call' \in [Thread -> Call \cup {Idle}]
    BY <1>2, Parts
  <2>3. net'.stack # <<>> => net'.status_[Head(net'.stack).conn] # "CONNECTIONG"
    BY <1>11, StackType
  <2>. QED  BY <1>1, <1>2, <1>15, <2>1, <2>2, <2>3 DEF TypeOK, Report
<1>. QED  BY <1>2, <1>8, <1>11, <1>12, <1>13, <1>14, <1>15, <1>16 DEF IInv

\* poll() returns.
LEMMA PollKeeps ==
    ASSUME IInv, net.process = "running", Poll
    PROVE  IInv'
<1>1. /\ NetIn(net) /\ net \in Net
      /\ task_ \in Seq(Task) /\ batch \in Seq(Task) /\ next \in Nat /\ next > 0
      /\ QueueIn(net, next, Waiting) /\ CallsIn(net, next, Waiting, call)
      /\ Numbered(net, next) /\ next \in 1..(MaxMessage + 1)
  BY Parts
<1>2. /\ batch = <<>> /\ active' = Ready(net) /\ handling' = TRUE /\ net.stack = <<>>
      /\ task_' = task_ /\ batch' = batch /\ call' = call /\ next' = next
      /\ net' = IF \E i \in DOMAIN active' : active'[i].conn = NoChannel
                THEN Lost(net) ELSE net
  BY DEF Poll, Lost
<1>3. /\ active' \in Seq(Report)
      /\ IF \E i \in 1..Len(active') : active'[i].conn = NoChannel
         THEN Loose(net) ELSE ActiveIn(net, active')
      /\ ActiveIn(Lost(net), active')
  BY <1>1, <1>2, ReadyFacts
<1>4. /\ NetIn(net') /\ net' \in Net /\ ActiveIn(net', active') /\ net'.stack = <<>>
      /\ net'.status_ = net.status_ /\ \A d \in Channel : Bytes(net', d) = Bytes(net, d)
  <2>1. DOMAIN active' = 1..Len(active')
    BY <1>3
  <2>2. CASE \E i \in 1..Len(active') : active'[i].conn = NoChannel
    <3>1. net' = Lost(net) /\ Loose(net)
      BY <1>2, <1>3, <2>1, <2>2
    <3>2. /\ NetIn(net') /\ net'.status_ = net.status_ /\ StackKept(net, net')
          /\ \A d \in Channel : Bytes(net', d) = Bytes(net, d)
      BY <1>1, <3>1, LostMoves
    <3>. QED  BY <1>2, <1>3, <3>1, <3>2 DEF StackKept, NetIn
  <2>3. CASE ~ \E i \in 1..Len(active') : active'[i].conn = NoChannel
    <3>1. net' = net /\ ActiveIn(net, active')
      BY <1>2, <1>3, <2>1, <2>3
    <3>. QED  BY <1>1, <1>2, <3>1
  <2>. QED  BY <2>2, <2>3
<1>5. Waiting' = Waiting
  BY <1>2 DEF Waiting
<1>6. QueueIn(net', next, Waiting) /\ CallsIn(net', next, Waiting, call) /\ Numbered(net', next)
  <2>1. Onward(net, net')
    BY <1>4 DEF Onward
  <2>. QED  BY <1>1, <1>4, <2>1, BytesKeep
<1>7. TypeOK'
  <2>1. call' \in [Thread -> Call \cup {Idle}]
    BY <1>2, Parts
  <2>. QED  BY <1>1, <1>2, <1>3, <1>4, <2>1 DEF TypeOK, Report
<1>8. StackIn(net') /\ Quiet(net', active')
  BY <1>4, StackEmpty DEF Quiet
<1>. QED  BY <1>2, <1>4, <1>5, <1>6, <1>7, <1>8 DEF IInv

\* DoPendingTask() takes the tasks.
LEMMA DoPendingKeeps ==
    ASSUME IInv, DoPendingTask
    PROVE  IInv'
<1>1. /\ NetIn(net) /\ net \in Net
      /\ task_ \in Seq(Task) /\ next \in 1..(MaxMessage + 1)
      /\ QueueIn(net, next, Waiting) /\ CallsIn(net, next, Waiting, call)
      /\ Numbered(net, next) /\ ActiveIn(net, active) /\ StackIn(net) /\ Quiet(net, active)
  BY Parts
<1>2. /\ handling /\ active = <<>> /\ handling' = FALSE /\ batch' = task_ /\ task_' = <<>>
      /\ net' = net /\ net.stack = <<>> /\ active' = active /\ call' = call /\ next' = next
  BY DEF DoPendingTask
<1>3. batch = <<>>
  <2>1. handling => batch = <<>>
    BY Parts
  <2>. QED  BY <1>2, <2>1
<1>4. Waiting' = Waiting
  <2>1. Waiting = task_ /\ Waiting' = task_
    BY <1>1, <1>2, <1>3, ConcatEmptySeq DEF Waiting
  <2>. QED  BY <2>1
<1>5. TypeOK'
  <2>1. net' \in Net /\ active' = <<>> /\ net'.stack = <<>> /\ handling' = FALSE /\ task_' = <<>>
        /\ batch' \in Seq(Task) /\ next' \in 1..(MaxMessage + 1)
    BY <1>1, <1>2
  <2>2. <<>> \in Seq(Report) /\ <<>> \in Seq(Task)
    OBVIOUS
  <2>3. call' \in [Thread -> Call \cup {Idle}]
    BY <1>2, Parts
  <2>. QED  BY <2>1, <2>2, <2>3 DEF TypeOK, Report
<1>. QED  BY <1>1, <1>2, <1>4, <1>5 DEF IInv

\* Another call of thread t.
LEMMA CallSet ==
    ASSUME NEW s, NEW n, NEW q, NEW calls, CallsIn(s, n, q, calls), NEW t \in Thread, NEW k,
           CallType(k), CallIn(s, n, t, q, k),
           NEW calls2, calls2 = [calls EXCEPT ![t] = k]
    PROVE  CallsIn(s, n, q, calls2)
<1>1. calls = [u \in Thread |-> calls[u]]
  BY DEF CallsIn
<1>2. /\ calls2 = [u \in Thread |-> calls2[u]]
      /\ \A u \in Thread : calls2[u] = IF u = t THEN k ELSE calls[u]
  BY <1>1
<1>. QED  BY <1>2 DEF CallsIn

\* The type of the calls.
LEMMA CallsType ==
    ASSUME NEW s, NEW n, NEW q, NEW calls, CallsIn(s, n, q, calls)
    PROVE  calls \in [Thread -> Call \cup {Idle}]
BY DEF CallsIn, CallType

\* A call begins.
LEMMA TestKeeps ==
    ASSUME IInv, NEW t \in Thread, NEW c \in Channel, NEW op \in Op, Test(t, c, op)
    PROVE  IInv'
<1>. DEFINE data == IF op = "Send" THEN Message(t) ELSE <<>>
            k == [op |-> op, conn |-> c, set |-> FALSE, data |-> data]
            w == Waiting
<1>1. /\ NetIn(net) /\ net \in Net /\ active \in Seq(Report) /\ handling \in BOOLEAN
      /\ active # <<>> => handling
      /\ handling => batch = <<>>
      /\ task_ \in Seq(Task) /\ batch \in Seq(Task)
      /\ next \in 1..(MaxMessage + 1) /\ next \in Nat
      /\ QueueIn(net, next, w) /\ CallsIn(net, next, w, call)
      /\ Numbered(net, next) /\ ActiveIn(net, active) /\ StackIn(net)
      /\ Quiet(net, active)
      /\ net.stack # <<>> => net.status_[Head(net.stack).conn] # "CONNECTIONG"
  BY Parts, StackType
<1>2. /\ Accepts(op, net.status_[c]) /\ call' = [call EXCEPT ![t] = k] /\ Number(op)
      /\ net' = net /\ active' = active /\ handling' = handling
      /\ task_' = task_ /\ batch' = batch
  BY DEF Test
<1>3. /\ op = "Send" => next \in 1..MaxMessage
      /\ next' = IF op = "Send" THEN next + 1 ELSE next
  BY <1>1, <1>2, Bounds DEF Number
<1>4. next' \in 1..(MaxMessage + 1) /\ next' \in Nat /\ next <= next'
  BY <1>1, <1>3, Bounds
<1>5. Waiting' = w
  BY <1>2 DEF Waiting
<1>6. op = "Send" => IsMessage(data, t, next) /\ data \in Seq(Byte)
                     /\ data[1].by = t /\ data[1].msg = next
  <2>. SUFFICES ASSUME op = "Send"
                PROVE  IsMessage(data, t, next) /\ data \in Seq(Byte)
                       /\ data[1].by = t /\ data[1].msg = next
    OBVIOUS
  <2>1. IsMessage(data, t, next)
    BY DEF IsMessage, Message
  <2>2. 1 \in 1..Length
    BY Bounds
  <2>. HIDE DEF data
  <2>. QED  BY <1>3, <2>1, <2>2, MessageBytes
<1>7. data \in Seq(Byte)
  BY <1>6
<1>8. /\ k.op = op /\ k.conn = c /\ k.data = data
      /\ ~k.set /\ k \in Call
  BY <1>7 DEF Call
<1>. HIDE DEF k, data, w
<1>9. CallType(k)
  BY <1>8 DEF CallType
<1>10. Adds(net, net, Loop, 0)
  BY AddsNothing
<1>11. QueueIn(net, next', w)
  <2>1. \A i \in 1..Len(w) : Later(w[i], Loop, 0)
    BY <1>1, FreshLater DEF QueueIn
  <2>2. Onward(net, net)
    BY DEF Onward
  <2>. QED  BY <1>1, <1>4, <1>10, <2>1, <2>2, QueueKeeps
<1>12. CallsIn(net, next', w, call)
  <2>1. \A u \in Thread : call[u] # Idle => Later(call[u], Loop, 0)
    BY <1>1, FreshLater DEF CallsIn, CallIn
  <2>2. Onward(net, net)
    BY DEF Onward
  <2>. QED  BY <1>1, <1>4, <1>10, <2>1, <2>2, CallsKeep
<1>13. Numbered(net, next')
  BY <1>1, <1>4, <1>10, NumberedKeeps
<1>14. CallIn(net, next', t, w, k)
  <2>1. net.status_[c] # "CONNECTIONG"
    BY <1>2 DEF Accepts
  <2>2. Fresh(net, next', k)
    <3>. SUFFICES ASSUME op = "Send"
                  PROVE  \E u \in Thread, m \in 1..MaxMessage :
                             /\ IsMessage(k.data, u, m) /\ m < next'
                             /\ \A d \in Channel : Before(Bytes(net, d), u, m)
      BY <1>8 DEF Fresh
    <3>1. next \in 1..MaxMessage /\ next < next'
      BY <1>1, <1>3
    <3>2. \A d \in Channel : Before(Bytes(net, d), t, next)
      BY <1>1 DEF Numbered
    <3>. QED  BY <1>6, <1>8, <3>1, <3>2
  <2>3. ASSUME NEW i \in 1..Len(w) PROVE Follows(w[i], k)
    <3>. SUFFICES ASSUME w[i].op = "Send", op = "Send" PROVE w[i].data[1].msg < next
      BY <1>6, <1>8 DEF Follows
    <3>1. Fresh(net, next, w[i])
      BY <1>1 DEF QueueIn
    <3>2. PICK u \in Thread, m \in 1..MaxMessage : IsMessage(w[i].data, u, m) /\ m < next
      BY <3>1 DEF Fresh
    <3>3. 1 \in 1..Length
      BY Bounds
    <3>4. w[i].data[1].msg = m
      BY <3>2, <3>3, MessageBytes
    <3>. QED  BY <3>2, <3>4
  <2>. QED  BY <1>6, <1>8, <2>1, <2>2, <2>3 DEF CallIn
<1>15. CallsIn(net, next', w, call')
  BY <1>2, <1>9, <1>12, <1>14, CallSet
<1>16. TypeOK'
  <2>1. (active' # <<>> => handling') /\ (handling' => batch' = <<>>)
    BY <1>1, <1>2
  <2>2. call' \in [Thread -> Call \cup {Idle}]
    BY <1>15, CallsType
  <2>. QED  BY <1>1, <1>2, <1>4, <2>1, <2>2 DEF TypeOK, Report
<1>. QED  BY <1>1, <1>2, <1>5, <1>11, <1>13, <1>15, <1>16 DEF IInv

\* The mark is put to a call.
LEMMA Marked ==
    ASSUME NEW k \in Call, NEW l, l = [k EXCEPT !.set = TRUE]
    PROVE  /\ l \in Call /\ l # Idle /\ l.op = k.op /\ l.conn = k.conn /\ l.data = k.data
           /\ l.set
BY DEF Call, Idle

\* What a call that is not idle says of itself.
LEMMA CallFacts ==
    ASSUME IInv, NEW t \in Thread, call[t] # Idle
    PROVE  /\ call[t] \in Call /\ call[t].op \in Op /\ call[t].conn \in Channel
           /\ call[t].data \in Seq(Byte)
           /\ CallIn(net, next, t, Waiting, call[t])
<1>1. call \in [Thread -> Call \cup {Idle}] /\ CallsIn(net, next, Waiting, call)
  BY Parts
<1>2. call[t] \in Call
  BY <1>1
<1>. QED  BY <1>1, <1>2 DEF CallsIn, Call

\* The callbacks that wait, when a status is set that was DISCONNECTED or up.
LEMMA ActiveSet ==
    ASSUME NEW s, NEW r, NEW c \in Channel, NEW q \in Seq(Report), ActiveIn(s, q),
           \A d \in Channel \ {c} : r.status_[d] = s.status_[d],
           r.status_[c] = "DISCONNECTING", r.process = s.process,
           s.reopened \subseteq r.reopened
    PROVE  ActiveIn(r, q)
<1>1. ASSUME NEW i \in 1..Len(q) PROVE ReportIn(r, q[i])
  <2>. DEFINE k == q[i]
  <2>1. ReportIn(s, k) /\ k \in Report
    BY DEF ActiveIn
  <2>. HIDE DEF k
  <2>2. ReportIn(r, k)
    BY <2>1 DEF ReportIn, Report, Up
  <2>. QED  BY <2>2 DEF k
<1>. QED  BY <1>1 DEF ActiveIn

\* Shutdown() and ForceClose() of another thread set status_, whatever it is by now.
LEMMA SetKeeps ==
    ASSUME IInv, NEW t \in Thread, Set(t)
    PROVE  IInv'
<1>. DEFINE c == call[t].conn
            k == call[t]
            l == [k EXCEPT !.set = TRUE]
            w == Waiting
<1>1. /\ NetIn(net) /\ net \in Net /\ active \in Seq(Report) /\ handling \in BOOLEAN
      /\ active # <<>> => handling
      /\ handling => batch = <<>>
      /\ task_ \in Seq(Task) /\ batch \in Seq(Task)
      /\ next \in 1..(MaxMessage + 1) /\ next \in Nat /\ next > 0
      /\ QueueIn(net, next, w) /\ CallsIn(net, next, w, call)
      /\ Numbered(net, next) /\ ActiveIn(net, active) /\ StackIn(net)
      /\ Quiet(net, active)
      /\ net.stack # <<>> => net.status_[Head(net.stack).conn] # "CONNECTIONG"
  BY Parts, StackType
<1>2. /\ k # Idle /\ call' = [call EXCEPT ![t] = l]
      /\ net' = [net EXCEPT !.status_[c] = "DISCONNECTING",
                            !.reopened = IF net.status_[c] = "DISCONNECTED"
                                         THEN @ \cup {c} ELSE @]
      /\ active' = active /\ handling' = handling /\ next' = next
      /\ task_' = task_ /\ batch' = batch
  <2>1. call' = [call EXCEPT ![t].set = TRUE]
    BY DEF Set
  <2>. QED  BY <2>1 DEF Set
<1>3. /\ k \in Call /\ c \in Channel /\ CallIn(net, next, t, w, k)
  BY <1>2, CallFacts
<1>4. net.status_[c] \in Up \cup {"DISCONNECTED"}
  <2>1. net.status_[c] # "CONNECTIONG"
    BY <1>2, <1>3 DEF CallIn
  <2>2. net.status_[c] \in Status
    BY <1>1, <1>3, NetType
  <2>. QED  BY <2>1, <2>2 DEF Status, Up
<1>5. net' = IF net.status_[c] = "DISCONNECTED" THEN Reopened(net, c) ELSE EndingFrom(net, c)
  <2>1. CASE net.status_[c] = "DISCONNECTED"
    BY <1>2, <2>1 DEF Reopened
  <2>2. CASE net.status_[c] # "DISCONNECTED"
    <3>1. net' = [net EXCEPT !.status_[c] = "DISCONNECTING", !.reopened = net.reopened]
      BY <1>2, <2>2
    <3>2. net' = [net EXCEPT !.status_[c] = "DISCONNECTING"]
      BY <1>1, <3>1 DEF Net
    <3>. QED  BY <2>2, <3>2 DEF EndingFrom
  <2>. QED  BY <2>1, <2>2
<1>6. Waiting' = w
  BY <1>2 DEF Waiting
<1>7. l \in Call /\ l # Idle /\ l.op = k.op /\ l.conn = c /\ l.data = k.data
  BY <1>3, Marked
<1>. HIDE DEF c, k, l, w
<1>8. /\ NetIn(net') /\ net'.process = net.process /\ net.reopened \subseteq net'.reopened
      /\ net'.status_[c] = "DISCONNECTING"
      /\ \A d \in Channel \ {c} : net'.status_[d] = net.status_[d]
      /\ StackKept(net, net') /\ net'.output_buffer_ = net.output_buffer_
      /\ \A d \in Channel : Bytes(net', d) = Bytes(net, d)
  <2>1. CASE net.status_[c] = "DISCONNECTED"
    <3>1. net' = Reopened(net, c)
      BY <1>5, <2>1
    <3>. QED  BY <1>1, <1>3, <2>1, <3>1, ReopenMoves
  <2>2. CASE net.status_[c] # "DISCONNECTED"
    <3>1. net' = EndingFrom(net, c) /\ net.status_[c] \in Up
      BY <1>4, <1>5, <2>2
    <3>2. /\ Moved(net, net', c) /\ net'.status_[c] = "DISCONNECTING"
          /\ net'.process = net.process /\ \A d \in Channel : Bytes(net', d) = Bytes(net, d)
          /\ StackKept(net, net') /\ net'.output_buffer_ = net.output_buffer_
      BY <1>1, <1>3, <3>1, EndingSet
    <3>. QED  BY <3>2 DEF Moved, Others
  <2>. QED  BY <2>1, <2>2
<1>9. ActiveIn(net', active)
  BY <1>1, <1>3, <1>8, ActiveSet
<1>10. QueueIn(net', next, w) /\ CallsIn(net', next, w, call) /\ Numbered(net', next)
  <2>1. Onward(net, net')
    BY <1>8 DEF Onward, Ending
  <2>2. \A d \in Channel : net.status_[d] = "CONNECTIONG" => net'.status_[d] = "CONNECTIONG"
    BY <1>4, <1>8 DEF Up
  <2>. QED  BY <1>1, <1>8, <2>1, <2>2, BytesKeep
<1>11. CallIn(net', next, t, w, l)
  <2>1. CallIn(net', next, t, w, k)
    BY <1>10 DEF CallsIn, k
  <2>. QED  BY <1>2, <1>7, <1>8, <2>1 DEF CallIn, Ending, Fresh, Follows
<1>12. CallsIn(net', next, w, call')
  BY <1>2, <1>7, <1>10, <1>11, CallSet DEF CallType
<1>13. StackIn(net') /\ Quiet(net', active)
  <2>1. /\ net'.stack = net.stack /\ net'.interrupted = net.interrupted
    BY <1>8 DEF StackKept
  <2>2. Settled(net, net')
    BY <1>8, <2>1 DEF Settled
  <2>3. StackIn(net')
    BY <1>1, <2>1, <2>2, StackSteady
  <2>. QED  BY <1>1, <2>1, <2>3 DEF Quiet
<1>14. net' \in Net
       /\ (net'.stack # <<>> => net'.status_[Head(net'.stack).conn] # "CONNECTIONG")
  <2>1. net' \in Net
    BY <1>8 DEF NetIn
  <2>2. PICK r \in Net : r = net'
    BY <2>1
  <2>3. StackIn(r)
    BY <1>13, <2>2
  <2>. QED  BY <2>2, <2>3, StackType
<1>15. TypeOK'
  <2>1. (active' # <<>> => handling') /\ (handling' => batch' = <<>>)
    BY <1>1, <1>2
  <2>2. call' \in [Thread -> Call \cup {Idle}]
    BY <1>12, CallsType
  <2>. QED  BY <1>1, <1>2, <1>14, <2>1, <2>2 DEF TypeOK, Report
<1>. QED  BY <1>2, <1>6, <1>8, <1>9, <1>10, <1>12, <1>13, <1>15 DEF IInv

\* The call queues its task, and is over.
LEMMA QueueCallKeeps ==
    ASSUME IInv, NEW t \in Thread, Queue(t)
    PROVE  IInv'
<1>. DEFINE l == call[t]
            k == [op |-> l.op, conn |-> l.conn, data |-> l.data]
            w == Waiting
            v == batch \o Append(task_, k)
<1>1. /\ NetIn(net) /\ net \in Net /\ active \in Seq(Report) /\ handling \in BOOLEAN
      /\ active # <<>> => handling
      /\ handling => batch = <<>>
      /\ task_ \in Seq(Task) /\ batch \in Seq(Task)
      /\ next \in 1..(MaxMessage + 1) /\ next \in Nat /\ next > 0
      /\ QueueIn(net, next, w) /\ CallsIn(net, next, w, call)
      /\ Numbered(net, next) /\ ActiveIn(net, active) /\ StackIn(net)
      /\ Quiet(net, active)
      /\ net.stack # <<>> => net.status_[Head(net.stack).conn] # "CONNECTIONG"
  BY Parts, StackType
<1>2. /\ l # Idle /\ (l.op = "Send" \/ l.set)
      /\ task_' = Append(task_, k) /\ call' = [call EXCEPT ![t] = Idle]
      /\ net' = net /\ active' = active /\ handling' = handling /\ next' = next
      /\ batch' = batch
  BY DEF Queue
<1>3. /\ l.op \in Op /\ l.conn \in Channel /\ l.data \in Seq(Byte)
      /\ CallIn(net, next, t, w, l)
  BY <1>2, CallFacts
<1>4. k \in Task /\ k.op = l.op /\ k.conn = l.conn /\ k.data = l.data
  BY <1>3 DEF Task, Op
<1>5. Waiting' = v
  BY <1>2 DEF Waiting
<1>. HIDE DEF k, l
<1>6. Append(task_, k) \in Seq(Task) /\ More(w, v, k)
  BY <1>1, <1>4, TaskAppended DEF Waiting
<1>. HIDE DEF w, v
<1>7. TaskIn(net, k) /\ Fresh(net, next, k) /\ k.op # "Establish"
      /\ \A i \in 1..Len(w) : Follows(w[i], k)
  <2>1. k.op # "Establish"
    BY <1>3, <1>4 DEF Op
  <2>2. TaskIn(net, k)
    BY <1>2, <1>3, <1>4, <2>1 DEF TaskIn, CallIn
  <2>3. Fresh(net, next, k)
    BY <1>2, <1>3, <1>4 DEF CallIn, Fresh
  <2>4. \A i \in 1..Len(w) : Follows(w[i], k)
    BY <1>2, <1>3, <1>4 DEF CallIn, Follows
  <2>. QED  BY <2>1, <2>2, <2>3, <2>4
<1>8. QueueIn(net, next, v)
  BY <1>1, <1>6, <1>7, QueueMore
<1>9. CallsIn(net, next, v, call')
  <2>0. call = [u \in Thread |-> call[u]]
    BY <1>1 DEF CallsIn
  <2>1. /\ call' = [u \in Thread |-> call'[u]]
        /\ \A u \in Thread : call'[u] = IF u = t THEN Idle ELSE call[u]
    BY <1>2, <2>0
  <2>2. ASSUME NEW u \in Thread, u # t
        PROVE  CallType(call[u]) /\ CallIn(net, next, u, v, call[u])
    <3>. DEFINE m == call[u]
    <3>1. CallType(m) /\ CallIn(net, next, u, w, m)
      BY <1>1 DEF CallsIn
    <3>. HIDE DEF m
    <3>2. m # Idle => Follows(k, m)
      <4>1. k.op = "Send" => k.data[1].by = t
        BY <1>2, <1>3, <1>4 DEF CallIn
      <4>2. m # Idle /\ m.op = "Send" => m.data[1].by = u
        BY <3>1 DEF CallIn
      <4>. QED  BY <2>2, <4>1, <4>2 DEF Follows
    <3>3. CallIn(net, next, u, v, m)
      BY <1>6, <3>1, <3>2, CallMore
    <3>. QED  BY <3>1, <3>3 DEF m
  <2>3. CallType(Idle) /\ CallIn(net, next, t, v, Idle)
    BY DEF CallType, CallIn
  <2>. QED  BY <2>1, <2>2, <2>3 DEF CallsIn
<1>10. TypeOK'
  <2>1. (active' # <<>> => handling') /\ (handling' => batch' = <<>>)
    BY <1>1, <1>2
  <2>2. call' \in [Thread -> Call \cup {Idle}]
    BY <1>9, CallsType
  <2>. QED  BY <1>1, <1>2, <1>6, <2>1, <2>2 DEF TypeOK, Report
<1>. QED  BY <1>1, <1>2, <1>5, <1>8, <1>9, <1>10 DEF IInv

\* The peer changes nothing that the others look at.
LEMMA PeerKeeps ==
    ASSUME IInv, NEW c \in Channel, Peer(c)
    PROVE  IInv'
<1>1. /\ NetIn(net) /\ net \in Net /\ active \in Seq(Report) /\ handling \in BOOLEAN
      /\ active # <<>> => handling
      /\ handling => batch = <<>>
      /\ task_ \in Seq(Task) /\ batch \in Seq(Task)
      /\ next \in 1..(MaxMessage + 1) /\ next \in Nat /\ next > 0
      /\ call \in [Thread -> Call \cup {Idle}]
      /\ QueueIn(net, next, Waiting) /\ CallsIn(net, next, Waiting, call)
      /\ Numbered(net, next) /\ ActiveIn(net, active) /\ StackIn(net)
      /\ Quiet(net, active)
      /\ net.stack # <<>> => net.status_[Head(net.stack).conn] # "CONNECTIONG"
  BY Parts, StackType
<1>2. /\ active' = active /\ handling' = handling /\ task_' = task_ /\ batch' = batch
      /\ call' = call /\ next' = next
  BY DEF Peer
<1>3. /\ NetIn(net') /\ net'.status_ = net.status_ /\ net'.process = net.process
      /\ net'.reopened = net.reopened
      /\ StackKept(net, net') /\ net'.output_buffer_ = net.output_buffer_
      /\ \A d \in Channel : Bytes(net', d) = Bytes(net, d)
  BY <1>1, PeerMoves
<1>4. ActiveIn(net', active)
  BY <1>1, <1>3 DEF ActiveIn, ReportIn
<1>5. /\ QueueIn(net', next, Waiting) /\ CallsIn(net', next, Waiting, call)
      /\ Numbered(net', next)
  <2>1. Onward(net, net')
    BY <1>3 DEF Onward
  <2>2. \A d \in Channel : net.status_[d] = "CONNECTIONG" => net'.status_[d] = "CONNECTIONG"
    BY <1>3
  <2>. QED  BY <1>1, <1>3, <2>1, <2>2, BytesKeep
<1>6. Waiting' = Waiting
  BY <1>2 DEF Waiting
<1>7. StackIn(net') /\ Quiet(net', active)
  <2>1. /\ net'.stack = net.stack /\ net'.interrupted = net.interrupted
    BY <1>3 DEF StackKept
  <2>2. Settled(net, net')
    BY <1>3, <2>1 DEF Settled
  <2>3. StackIn(net')
    BY <1>1, <2>1, <2>2, StackSteady
  <2>. QED  BY <1>1, <2>1, <2>3 DEF Quiet
<1>8. net' \in Net
      /\ (net'.stack # <<>> => net'.status_[Head(net'.stack).conn] # "CONNECTIONG")
  <2>1. net' \in Net
    BY <1>3 DEF NetIn
  <2>2. net'.stack = net.stack /\ net'.status_ = net.status_
    BY <1>3 DEF StackKept
  <2>. QED  BY <1>1, <2>1, <2>2
<1>9. TypeOK'
  <2>1. (active' # <<>> => handling') /\ (handling' => batch' = <<>>)
    BY <1>1, <1>2
  <2>. QED  BY <1>1, <1>2, <1>8, <2>1 DEF TypeOK, Report
<1>. QED  BY <1>2, <1>3, <1>4, <1>5, <1>6, <1>7, <1>9 DEF IInv

-----------------------------------------------------------------------------
(* The initial state.                                                       *)

\* The empty list.
EmptyList(fd) == [EmptyTable EXCEPT !.fd_ = fd]

\* Nothing is in it.
LEMMA EmptyFacts ==
    ASSUME NEW fd \in [Channel -> Fd], IsInjective(fd),
           NEW t, t = EmptyList(fd)
    PROVE  /\ t \in Table /\ Entries(t, {}) /\ Live(t) /\ Full(t, {})
           /\ \A c \in Channel : ~Mapped(t, c) /\ t.interested_event_[c] = {}
<1>1. /\ t.fd_ = fd /\ t.pollfds_ = <<>>
      /\ t.channels_ = [f \in Fd |-> NoChannel]
      /\ t.interested_event_ = [c \in Channel |-> {}]
      /\ t.poll_index_ = [c \in Channel |-> -1]
      /\ t \in Table
  <2>. DEFINE list == <<>>
              channels == [f \in Fd |-> NoChannel]
              events == [c \in Channel |-> {}]
              index == [c \in Channel |-> -1]
  <2>1. t = [pollfds_ |-> list, channels_ |-> channels, fd_ |-> fd,
             interested_event_ |-> events, poll_index_ |-> index]
    BY DEF EmptyTable, EmptyList
  <2>2. /\ list \in Seq(Pollfd)
        /\ channels \in [Fd -> Channel \cup {NoChannel}]
        /\ events \in [Channel -> SUBSET Event]
    OBVIOUS
  <2>3. index \in [Channel -> Int]
    OBVIOUS
  <2>. SUFFICES /\ t.fd_ = fd /\ t.pollfds_ = list /\ t.channels_ = channels
                /\ t.interested_event_ = events /\ t.poll_index_ = index
                /\ t \in Table
    OBVIOUS
  <2>. HIDE DEF list, channels, events, index
  <2>. QED  BY <2>1, <2>2, <2>3 DEF Table
<1>2. Len(t.pollfds_) = 0 /\ 1..0 = {}
  BY <1>1
<1>3. NoChannel \notin Channel
  BY ChannelAssumption
<1>4. \A c \in Channel : ~Mapped(t, c) /\ t.interested_event_[c] = {}
  BY <1>1, <1>3 DEF Mapped
<1>5. \A c \in Channel : ~(t.poll_index_[c] >= 0)
  BY <1>1
<1>6. Entries(t, {})
  BY <1>1, <1>2, <1>5 DEF Entries
<1>7. Live(t) /\ Full(t, {})
  BY <1>2 DEF Live, Full
<1>. QED  BY <1>1, <1>4, <1>6, <1>7

\* What the connections are before they are established.
LEMMA InitNet ==
    ASSUME Init
    PROVE  /\ NetIn(net) /\ net.stack = <<>>
           /\ \A c \in Channel : net.status_[c] = "CONNECTIONG" /\ Bytes(net, c) = <<>>
<1>1. PICK fd \in [Channel -> Fd] :
          /\ IsInjective(fd)
          /\ net = [
                 table |-> [EmptyTable EXCEPT !.fd_ = fd],
                 status_ |-> [c \in Channel |-> "CONNECTIONG"],
                 output_buffer_ |-> [c \in Channel |-> <<>>],
                 socket |-> [c \in Channel |->
                     [sent |-> <<>>, room |-> Room, shut |-> FALSE, arrived |-> 0,
                      fin |-> FALSE, reset |-> FALSE, error |-> FALSE]],
                 stack |-> <<>>,
                 told |-> [c \in Channel |-> <<>>],
                 interrupted |-> [c \in Channel |-> {}],
                 reopened |-> {}, process |-> "running"]
  BY DEF Init
<1>. DEFINE t == EmptyList(fd)
            k == [sent |-> <<>>, room |-> Room, shut |-> FALSE, arrived |-> 0,
                  fin |-> FALSE, reset |-> FALSE, error |-> FALSE]
<1>2. /\ t \in Table /\ Entries(t, {}) /\ Live(t) /\ Full(t, {})
      /\ \A c \in Channel : ~Mapped(t, c) /\ t.interested_event_[c] = {}
  BY <1>1, EmptyFacts
<1>3. k \in Socket /\ k.sent = <<>> /\ ~k.shut
  <2>1. Room \in 0..Room /\ 0 \in 0..MaxArrival
    BY Bounds
  <2>. QED  BY <2>1 DEF Socket
<1>4. net = [table |-> t,
             status_ |-> [c \in Channel |-> "CONNECTIONG"],
             output_buffer_ |-> [c \in Channel |-> <<>>],
             socket |-> [c \in Channel |-> k],
             stack |-> <<>>,
             told |-> [c \in Channel |-> <<>>],
             interrupted |-> [c \in Channel |-> {}],
             reopened |-> {}, process |-> "running"]
  BY <1>1 DEF EmptyList
<1>. HIDE DEF t, k
<1>5. /\ net.table = t /\ net.reopened = {} /\ net.process = "running" /\ net.stack = <<>>
      /\ \A c \in Channel :
             /\ net.status_[c] = "CONNECTIONG" /\ net.output_buffer_[c] = <<>>
             /\ net.socket[c] = k /\ net.told[c] = <<>> /\ net.interrupted[c] = {}
  BY <1>4
<1>6. net \in Net
  <2>1. <<>> \in Seq(Byte) /\ <<>> \in Seq(Callback) /\ <<>> \in Seq(Frame)
    OBVIOUS
  <2>. QED  BY <1>2, <1>3, <1>4, <2>1 DEF Net, Status
<1>7. Begun(net) = {}
  BY <1>5 DEF Begun
<1>8. ListIn(net) /\ Outside(net)
  <2>1. \A c \in Channel : net.status_[c] \notin Up
    BY <1>5 DEF Up
  <2>. QED  BY <1>2, <1>5, <1>7, <2>1 DEF ListIn, Outside
<1>9. ASSUME NEW c \in Channel
      PROVE  Connection(net, c) /\ Bytes(net, c) = <<>>
  <2>1. Bytes(net, c) = <<>>
    <3>1. Held(net, c) = <<>>
      BY <1>5 DEF Held
    <3>2. Bytes(net, c) = <<>> \o <<>> \o <<>>
      BY <1>3, <1>5, <3>1 DEF Bytes, Line
    <3>. QED  BY <3>2
  <2>2. Whole(<<>>) /\ InOrder(<<>>)
    <3>1. Len(<<>>) = 0 /\ 1..0 = {}
      OBVIOUS
    <3>. QED  BY <3>1 DEF Whole, InOrder
  <2>3. OutputAt(net, c)
    <3>1. ~Stacked(net, c)
      BY <1>5, StackEmpty
    <3>. QED  BY <1>3, <1>5, <3>1 DEF OutputAt
  <2>4. ToldAt(net, c)
    BY <1>5, <2>2 DEF ToldAt, Up
  <2>. QED  BY <2>1, <2>2, <2>3, <2>4 DEF Connection
<1>. QED  BY <1>5, <1>6, <1>8, <1>9 DEF NetIn

\* Each connection waits to be established once.
LEMMA InitTasks ==
    ASSUME Init
    PROVE  /\ task_ \in Seq(Task)
           /\ \A i \in 1..Len(task_) : task_[i].op = "Establish"
           /\ \A i, j \in 1..Len(task_) : i < j => task_[i].conn # task_[j].conn
<1>. DEFINE n == Cardinality(Channel)
<1>1. n \in Nat
  BY FiniteAssumption, FS_CardinalityType
<1>2. PICK f \in Bijection(1..n, Channel) :
          task_ = [i \in 1..n |-> [op |-> "Establish", conn |-> f[i], data |-> <<>>]]
  BY DEF Init
<1>. HIDE DEF n
<1>3. f \in [1..n -> Channel] /\ \A i, j \in 1..n : f[i] = f[j] => i = j
  BY <1>2 DEF Bijection, Injection, IsInjective
<1>4. \A i \in 1..n : /\ task_[i] \in Task /\ task_[i].op = "Establish"
                      /\ task_[i].conn = f[i]
  <2>1. <<>> \in Seq(Byte)
    OBVIOUS
  <2>. QED  BY <1>2, <1>3, <2>1 DEF Task
<1>5. task_ \in Seq(Task) /\ Len(task_) = n
  <2>1. task_ = [i \in 1..n |-> task_[i]]
    BY <1>2
  <2>. QED  BY <1>1, <1>4, <2>1
<1>6. ASSUME NEW i \in 1..n, NEW j \in 1..n, i < j PROVE task_[i].conn # task_[j].conn
  <2>1. i # j
    BY <1>1, <1>6
  <2>. QED  BY <1>3, <1>4, <2>1
<1>. QED  BY <1>4, <1>5, <1>6

\* The invariant holds at first.
LEMMA InitIInv == Init => IInv
<1>. SUFFICES ASSUME Init PROVE IInv
  OBVIOUS
<1>1. /\ NetIn(net) /\ net \in Net /\ net.stack = <<>>
      /\ \A c \in Channel : net.status_[c] = "CONNECTIONG" /\ Bytes(net, c) = <<>>
  BY InitNet DEF NetIn
<1>2. /\ task_ \in Seq(Task)
      /\ \A i \in 1..Len(task_) : task_[i].op = "Establish"
      /\ \A i, j \in 1..Len(task_) : i < j => task_[i].conn # task_[j].conn
  BY InitTasks
<1>3. /\ active = <<>> /\ handling = FALSE /\ batch = <<>>
      /\ call = [t \in Thread |-> Idle] /\ next = 1
  BY DEF Init
<1>4. Waiting = task_
  BY <1>2, <1>3, ConcatEmptySeq DEF Waiting
<1>5. next \in 1..(MaxMessage + 1)
  BY <1>3, Bounds
<1>6. <<>> \in Seq(Report) /\ <<>> \in Seq(Task) /\ Len(<<>>) = 0 /\ 1..0 = {}
  OBVIOUS
<1>7. ActiveIn(net, active)
  BY <1>3, <1>6 DEF ActiveIn
<1>8. QueueIn(net, next, Waiting)
  <2>1. ASSUME NEW i \in 1..Len(task_)
        PROVE  TaskIn(net, task_[i]) /\ Fresh(net, next, task_[i])
    <3>1. task_[i] \in Task /\ task_[i].op = "Establish"
      BY <1>2
    <3>2. net.status_[task_[i].conn] = "CONNECTIONG"
      BY <1>1, <3>1 DEF Task
    <3>. QED  BY <3>1, <3>2 DEF TaskIn, Fresh
  <2>2. ASSUME NEW i \in 1..Len(task_), NEW j \in 1..Len(task_), i < j
        PROVE  ~Twice(task_[i], task_[j]) /\ Follows(task_[i], task_[j])
    BY <1>2, <2>2 DEF Twice, Follows
  <2>. QED  BY <1>2, <1>4, <2>1, <2>2 DEF QueueIn
<1>9. CallsIn(net, next, Waiting, call)
  BY <1>3 DEF CallsIn, CallType, CallIn
<1>10. Numbered(net, next)
  BY <1>1, <1>6 DEF Numbered, Before
<1>11. StackIn(net) /\ Quiet(net, active)
  BY <1>1, StackEmpty DEF Quiet
<1>12. TypeOK
  <2>1. call \in [Thread -> Call \cup {Idle}]
    BY <1>3
  <2>. QED  BY <1>1, <1>2, <1>3, <1>5, <1>6, <2>1 DEF TypeOK, Report
<1>. QED  BY <1>1, <1>7, <1>8, <1>9, <1>10, <1>11, <1>12 DEF IInv

-----------------------------------------------------------------------------
(* The theorems.                                                            *)

\* Each action keeps the invariant.
LEMMA NextIInv == IInv /\ [Next]_vars => IInv'
<1>. SUFFICES ASSUME IInv, [Next]_vars PROVE IInv'
  OBVIOUS
<1>1. CASE UNCHANGED vars
  <2>1. /\ net' = net /\ active' = active /\ handling' = handling /\ task_' = task_
        /\ batch' = batch /\ call' = call /\ next' = next
    BY <1>1 DEF vars
  <2>2. TypeOK'
    BY <2>1 DEF IInv, TypeOK
  <2>3. Waiting' = Waiting
    BY <2>1 DEF Waiting
  <2>. QED  BY <2>1, <2>2, <2>3 DEF IInv
<1>2. CASE Next
  <2>0. net.process = "running"
    BY <1>2 DEF Next
  <2>1. CASE LoopStep
    <3>1. CASE Poll
      BY <2>0, <3>1, PollKeeps
    <3>2. CASE Handle
      BY <2>0, <3>2, HandleKeeps
    <3>3. CASE DoPendingTask
      BY <3>3, DoPendingKeeps
    <3>4. CASE RunTask
      BY <2>0, <3>4, RunTaskKeeps
    <3>5. ASSUME NEW op \in Op, Reply(op) PROVE IInv'
      BY <2>0, <3>5, ReplyKeeps
    <3>6. CASE CallbackReturns
      BY <2>0, <3>6, ReturnKeeps
    <3>. QED  BY <2>1, <3>1, <3>2, <3>3, <3>4, <3>5, <3>6 DEF LoopStep
  <2>2. ASSUME NEW t \in Thread, Set(t) PROVE IInv'
    BY <2>2, SetKeeps
  <2>3. ASSUME NEW t \in Thread, Queue(t) PROVE IInv'
    BY <2>3, QueueCallKeeps
  <2>4. ASSUME NEW t \in Thread, NEW c \in Channel, NEW op \in Op, Test(t, c, op)
        PROVE  IInv'
    BY <2>4, TestKeeps
  <2>5. ASSUME NEW c \in Channel, Peer(c) PROVE IInv'
    BY <2>5, PeerKeeps
  <2>. QED  BY <1>2, <2>1, <2>2, <2>3, <2>4, <2>5 DEF Next
<1>. QED  BY <1>1, <1>2

\* What is said of the list, the connections, the callbacks under way, the queue and
\* the calls together holds whatever the threads, the loop and the peers do
\* (TcpConnection.cpp, Poller.cpp).
THEOREM InvariantCorrect == Spec => []IInv
<1>1. Init => IInv
  BY InitIInv
<1>2. IInv /\ [Next]_vars => IInv'
  BY NextIInv
<1>. QED  BY <1>1, <1>2, PTL DEF Spec

\* What WholeMessages says of one connection.
WholeIn(bytes) ==
    /\ \A i \in DOMAIN bytes :
           /\ i = 1 \/ bytes[i - 1].at = Length <=> bytes[i].at = 1
           /\ bytes[i].at < Length =>
                  /\ i < Len(bytes)
                  /\ bytes[i + 1] = [bytes[i] EXCEPT !.at = @ + 1]
    /\ \A i, j \in DOMAIN bytes :
           i < j /\ bytes[i].at = 1 /\ bytes[j].at = 1 /\ bytes[i].by = bytes[j].by
               => bytes[i].msg < bytes[j].msg

\* The invariant keeps messages whole.
LEMMA WholeFacts ==
    ASSUME IInv
    PROVE  WholeMessages
<1>1. TypeOK /\ NetIn(net) /\ net \in Net
  BY DEF IInv, NetIn
<1>2. ASSUME NEW c \in Channel, "Send" \notin net.interrupted[c]
      PROVE  WholeIn(net.socket[c].sent \o Suspended(c) \o net.output_buffer_[c])
  <2>. DEFINE bytes == net.socket[c].sent \o Suspended(c) \o net.output_buffer_[c]
  <2>1. bytes = Bytes(net, c)
    BY <1>2 DEF Bytes, Line, Held, Suspended
  <2>2. Whole(bytes)
    BY <1>1, <2>1 DEF NetIn, Connection
  <2>3. bytes \in Seq(Byte)
    BY <1>1, <2>1, NetAt
  <2>. HIDE DEF bytes
  <2>4. DOMAIN bytes = 1..Len(bytes)
    BY <2>3
  <2>5. \A i \in DOMAIN bytes :
            /\ i = 1 \/ bytes[i - 1].at = Length <=> bytes[i].at = 1
            /\ bytes[i].at < Length =>
                   i < Len(bytes) /\ bytes[i + 1] = [bytes[i] EXCEPT !.at = @ + 1]
    BY <2>2, <2>4 DEF Whole
  <2>6. \A i, j \in DOMAIN bytes :
            i < j /\ bytes[i].at = 1 /\ bytes[j].at = 1 /\ bytes[i].by = bytes[j].by
                => bytes[i].msg < bytes[j].msg
    BY <2>2, <2>4 DEF Whole
  <2>7. WholeIn(bytes)
    BY <2>5, <2>6 DEF WholeIn
  <2>. QED  BY <2>7 DEF bytes
<1>3. \A c \in Channel : "Send" \notin net.interrupted[c] =>
          WholeIn(net.socket[c].sent \o Suspended(c) \o net.output_buffer_[c])
  BY <1>2
<1>. QED  BY <1>1, <1>3, Zenon DEF WholeMessages, WholeIn

\* Callbacks in order, and the list inside its bounds.
LEMMA OrderFacts ==
    ASSUME IInv
    PROVE  ToldInOrder
<1>1. NetIn(net) /\ net \in Net
  BY DEF IInv, NetIn
<1>2. net.process = "undefined" =>
          \/ net.reopened # {}
          \/ \E c \in Channel : "ForceClose" \in net.interrupted[c]
          \/ \E c, d \in Channel : c # d /\ Closed(c) /\ Closed(d)
  BY <1>1 DEF NetIn, Outside, Cut, ClosedIn, Closed
<1>3. ASSUME NEW c \in Channel \ net.reopened
      PROVE  \A i, j \in DOMAIN net.told[c] : i < j =>
                 /\ net.told[c][j] # "UP"
                 /\ net.told[c][i] # "CLOSE"
                 /\ net.told[c][j] = "MESSAGE" => net.told[c][i] # "DOWN"
  <2>1. InOrder(net.told[c])
    BY <1>1 DEF NetIn, Connection, ToldAt
  <2>2. net.told[c] \in Seq(Callback)
    BY <1>1, NetType
  <2>3. DOMAIN net.told[c] = 1..Len(net.told[c])
    BY <2>2
  <2>. QED  BY <2>1, <2>3 DEF InOrder
<1>. QED  BY <1>2, <1>3 DEF ToldInOrder

\* SHUT_WR after the output.
LEMMA OutputFacts ==
    ASSUME IInv
    PROVE  ShutdownAfterOutput
<1>1. \A c \in Channel : OutputAt(net, c)
  BY DEF IInv, NetIn, Connection
<1>2. DOMAIN net.stack = 1..Len(net.stack)
  BY NetType DEF IInv, NetIn
<1>3. \A c \in Channel : Waits(c) => net.output_buffer_[c] # <<>> \/ Stacked(net, c)
  BY <1>2 DEF Waits, Stacked
<1>4. ASSUME NEW c \in Channel, net.socket[c].shut
      PROVE  /\ net.status_[c] # "CONNECTED"
             /\ ~Waits(c) \/ Closed(c) \/ "Shutdown" \in net.interrupted[c]
  BY <1>1, <1>3, <1>4 DEF OutputAt, Ending, ClosedIn, Closed
<1>. QED  BY <1>4 DEF ShutdownAfterOutput

\* On every connection, for any number of threads, messages and connections, the peer
\* gets whole messages, none twice, each thread's and the callbacks' in the order they
\* were sent (SendInLoop, HandleWrite), unless a high-water callback of it has sent;
\* and every variable has its type.
THEOREM WholeMessagesCorrect == Spec => []WholeMessages
<1>1. IInv => WholeMessages
  BY WholeFacts
<1>. QED  BY <1>1, InvariantCorrect, PTL

\* UP first, no message after DOWN, CLOSE once and last, and no use of the poll list
\* outside of its bounds, but after a reopening, a second close or a ForceClose() in the
\* high-water callback (HandleClose, ConnectDestroyed, RemoveSelfInPoll, SendInLoop).
THEOREM ToldInOrderCorrect == Spec => []ToldInOrder
<1>1. IInv => ToldInOrder
  BY OrderFacts
<1>. QED  BY <1>1, InvariantCorrect, PTL

\* SHUT_WR comes after all output, whatever thread asked for it and when, unless a
\* high-water callback did (Shutdown, ShutdownInLoop, HandleWrite).
THEOREM ShutdownAfterOutputCorrect == Spec => []ShutdownAfterOutput
<1>1. IInv => ShutdownAfterOutput
  BY OutputFacts
<1>. QED  BY <1>1, InvariantCorrect, PTL
=============================================================================
