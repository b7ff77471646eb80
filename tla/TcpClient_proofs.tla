-------------------------- MODULE TcpClient_proofs --------------------------
(***************************************************************************)
(* No socket of a TcpClient is left without an owner, and what can go wrong *)
(* goes wrong only under the conditions of FailsOnlyWhen, for every number  *)
(* of threads, descriptors and calls.                                       *)
(***************************************************************************)
EXTENDS TcpClient, FiniteSetTheorems, SequenceTheorems, WellFoundedInduction, TLAPS

-----------------------------------------------------------------------------
(* The invariant.  Once something has failed nothing happens any more, and  *)
(* most of it is asked only of a client that runs.                          *)

Has(q, task) == \E i \in 1..Len(q) : q[i] = task

\* The attempt's channel is in the list, or a late ResetChannel() has destroyed it.
Doomed == connector.status_ = "CONNECTING" /\ connector.channel_ = NoFd

\* No descriptor is open or in the list but those of X.
OnlyAt(s, X) == \A fd \in Fd \ X : s.socket[fd] = "none" /\ s.list[fd] = "nobody"

\* What is at the descriptors, by the state of the connector and what it has still to do.
Shape ==
    /\ connector.failed = ""
    /\ connector.status_ = "CONNECTED" =>
           /\ OnlyAt(connector, {connection_})
           /\ \A fd \in Fd : fd = connection_ =>
                  /\ connector.list[fd] # "connector"
                  /\ connector.list[fd] = "destroyed" => life \in {"by thread", "shared in loop"}
    /\ connector.status_ # "CONNECTED" => connection_ = NoFd
    /\ connector.rest \in {"Retry", "HandleWrite"} =>
           /\ connector.status_ # "CONNECTED" /\ connector.channel_ \in Fd
           /\ OnlyAt(connector, {connector.channel_})
           /\ connector.list[connector.channel_] = "nobody"
    /\ connector.rest = "StartInLoop" => connector.status_ = "DISCONNECTED"
    /\ connector.rest \in {"", "StartInLoop"} /\ connector.status_ = "DISCONNECTED" => OnlyAt(connector, {})
    /\ connector.rest = "" /\ connector.status_ = "CONNECTING" =>
           \E a \in Fd :
               /\ OnlyAt(connector, {a})
               /\ \/ connector.channel_ = a /\ connector.list[a] = "connector"
                  \/ connector.channel_ = NoFd /\ connector.list[a] = "destroyed"

\* Tasks do not run among events, and what closes a connection finds one.
Rounds ==
    /\ active # <<>> => handling
    /\ handling => batch = <<>>
    /\ \A i \in 1..Len(active) : active[i][2] = "close" => connection_ # NoFd
    /\ Has(task_, "ForceCloseInLoop") \/ Has(batch, "ForceCloseInLoop") => connection_ # NoFd
    /\ held => connection_ # NoFd
    /\ life \in {"unique", "shared", "closing"} => connection_ # NoFd
    /\ life \in {"in loop", "shared in loop"} =>
           IF connection_ = NoFd THEN life = "in loop" /\ ~connector.connect_
           ELSE close_callback_ = "RemoveConnect"
    /\ life = "stopping" => ~connector.connect_
    /\ life = "in loop" => \A fd \in Fd : fd = connection_ => connector.list[fd] # "connection"

\* Start() was called once: there is one call, one task or one attempt of it.
Once(q) == \A i, j \in 1..Len(q) : q[i] = "StartInLoop" /\ q[j] = "StartInLoop" => i = j

Begun == \E t \in Thread : call[t] = "Start"

\* The connector has begun what Start() asked for.
Taken == connector.status_ # "DISCONNECTED" \/ connector.rest # ""

OneStart ==
    /\ starts = 0 =>
           ~Begun /\ ~Has(task_, "StartInLoop") /\ ~Has(batch, "StartInLoop") /\ ~Taken
    /\ starts <= 1 =>
           /\ \A t, u \in Thread : call[t] = "Start" /\ call[u] = "Start" => t = u
           /\ Once(task_) /\ Once(batch)
           /\ Begun => ~Has(task_, "StartInLoop") /\ ~Has(batch, "StartInLoop")
           /\ Has(task_, "StartInLoop") => ~Has(batch, "StartInLoop")
           /\ Taken => ~Begun /\ ~Has(task_, "StartInLoop") /\ ~Has(batch, "StartInLoop")

\* A StartInLoop() comes behind the i-th task, and no StopInLoop() before it.
Follows(q, i) ==
    \E j \in (i + 1)..Len(q) :
        q[j] = "StartInLoop" /\ \A k \in (i + 1)..(j - 1) : q[k] # "StopInLoop"

\* Every ResetChannel() has one behind it, where it finds the attempt that it dooms.
NoLone(q) == \A i \in 1..Len(q) : q[i] = "ResetChannel" => Follows(q, i)

\* connect_ is not going to be set any more.
Stopped == ~connector.connect_ /\ life # "alive"

\* Without a Stop(), a ResetChannel() meets no later attempt or StartInLoop() fails
\* behind it.
NeverStopped ==
    /\ starts > 0 /\ life = "alive" => connector.connect_
    /\ \A t \in Thread : call[t] # "Stop"
    /\ Has(task_, "StopInLoop") \/ Has(batch, "StopInLoop") => Stopped
    /\ Doomed => Follows(batch, 0)
    /\ connector.rest = "" /\ connector.status_ = "CONNECTING" => NoLone(task_) /\ NoLone(batch)
    /\ connector.rest = "" /\ connector.status_ = "DISCONNECTED" =>
           Stopped \/ (NoLone(task_) /\ NoLone(batch))
    /\ connector.rest # "" => Stopped \/ NoLone(batch)

\* With one Start(), it comes before the next attempt.
Ordered(q) ==
    \A i, j \in 1..Len(q) : q[i] = "StartInLoop" /\ q[j] = "ResetChannel" => j < i

StartedOnce ==
    /\ ~Doomed
    /\ connector.rest = "" /\ connector.status_ = "CONNECTING" =>
           ~Has(task_, "ResetChannel") /\ ~Has(batch, "ResetChannel")
    /\ Ordered(task_) /\ Ordered(batch)
    /\ Has(batch, "StartInLoop") => ~Has(task_, "ResetChannel")

IInv ==
    /\ TypeOK
    /\ FailsOnlyWhen
    /\ failed = "" =>
           /\ Shape /\ Rounds /\ OneStart
           /\ stops = 0 => NeverStopped
           /\ starts <= 1 => StartedOnce
-----------------------------------------------------------------------------
(* Queues of tasks.                                                         *)

\* A task that is queued is the last, and takes nothing from those before it.
LEMMA QueueAppend ==
    ASSUME NEW q \in Seq(Task), NEW x \in Task
    PROVE  /\ Append(q, x) \in Seq(Task)
           /\ \A task : Has(Append(q, x), task) <=> Has(q, task) \/ x = task
           /\ Once(q) /\ (x = "StartInLoop" => ~Has(q, "StartInLoop")) => Once(Append(q, x))
           /\ Follows(q, 0) => Follows(Append(q, x), 0)
           /\ NoLone(q) /\ x # "ResetChannel" => NoLone(Append(q, x))
           /\ x = "StartInLoop" /\ ~Has(q, "StopInLoop") => NoLone(Append(q, x))
           /\ Ordered(q) /\ (x = "ResetChannel" => ~Has(q, "StartInLoop")) => Ordered(Append(q, x))
<1>. DEFINE r == Append(q, x)
            n == Len(q)
<1>1. /\ r \in Seq(Task) /\ n \in Nat /\ Len(r) = n + 1
      /\ \A i \in 1..n : r[i] = q[i]
      /\ r[n + 1] = x
  BY AppendProperties, LenProperties
<1>. HIDE DEF r
<1>2. \A i \in 1..Len(r) : i \in 1..n \/ i = n + 1  BY <1>1
<1>3. \A i \in 1..n : i \in 1..Len(r)  BY <1>1
<1>4. n + 1 \in 1..Len(r)  BY <1>1
<1>5. \A task : Has(r, task) <=> Has(q, task) \/ x = task
  BY <1>1, <1>2, <1>3, <1>4 DEF Has
<1>6. Once(q) /\ (x = "StartInLoop" => ~Has(q, "StartInLoop")) => Once(r)
  <2>. HAVE Once(q) /\ (x = "StartInLoop" => ~Has(q, "StartInLoop"))
  <2>. SUFFICES ASSUME NEW i \in 1..Len(r), NEW j \in 1..Len(r),
                       r[i] = "StartInLoop", r[j] = "StartInLoop"
                PROVE  i = j
    BY DEF Once
  <2>1. CASE i \in 1..n /\ j \in 1..n  BY <1>1, <2>1 DEF Once
  <2>2. CASE i \in 1..n /\ j = n + 1  BY <1>1, <2>2 DEF Has
  <2>3. CASE j \in 1..n /\ i = n + 1  BY <1>1, <2>3 DEF Has
  <2>. QED  BY <1>2, <2>1, <2>2, <2>3
<1>7. ASSUME NEW i \in 0..n, Follows(q, i) PROVE Follows(r, i)
  <2>1. PICK j \in (i + 1)..n :
            q[j] = "StartInLoop" /\ \A k \in (i + 1)..(j - 1) : q[k] # "StopInLoop"
    BY <1>7 DEF Follows
  <2>2. j \in (i + 1)..Len(r) /\ r[j] = "StartInLoop"  BY <1>1, <2>1
  <2>3. \A k \in (i + 1)..(j - 1) : r[k] # "StopInLoop"  BY <1>1, <2>1
  <2>. QED  BY <2>2, <2>3 DEF Follows
<1>8. ASSUME NoLone(q), x # "ResetChannel" PROVE NoLone(r)
  <2>. SUFFICES ASSUME NEW i \in 1..Len(r), r[i] = "ResetChannel" PROVE Follows(r, i)
    BY DEF NoLone
  <2>1. i \in 1..n /\ q[i] = "ResetChannel" /\ i \in 0..n  BY <1>1, <1>2, <1>8
  <2>. QED  BY <1>7, <1>8, <2>1 DEF NoLone
<1>9. ASSUME x = "StartInLoop", ~Has(q, "StopInLoop") PROVE NoLone(r)
  <2>. SUFFICES ASSUME NEW i \in 1..Len(r), r[i] = "ResetChannel" PROVE Follows(r, i)
    BY DEF NoLone
  <2>1. n + 1 \in (i + 1)..Len(r) /\ r[n + 1] = "StartInLoop"  BY <1>1, <1>2, <1>9
  <2>2. \A k \in (i + 1)..((n + 1) - 1) : r[k] # "StopInLoop"  BY <1>1, <1>9 DEF Has
  <2>. QED  BY <2>1, <2>2 DEF Follows
<1>10. ASSUME Ordered(q), x = "ResetChannel" => ~Has(q, "StartInLoop") PROVE Ordered(r)
  <2>. SUFFICES ASSUME NEW i \in 1..Len(r), NEW j \in 1..Len(r),
                       r[i] = "StartInLoop", r[j] = "ResetChannel"
                PROVE  j < i
    BY DEF Ordered
  <2>1. CASE i \in 1..n /\ j \in 1..n  BY <1>1, <1>10, <2>1 DEF Ordered
  <2>2. CASE i \in 1..n /\ j = n + 1  BY <1>1, <1>10, <2>2 DEF Has
  <2>3. CASE j \in 1..n /\ i = n + 1  BY <1>1, <2>3
  <2>4. CASE j = n + 1 /\ i = n + 1  BY <1>1, <2>4
  <2>. QED  BY <1>2, <2>1, <2>2, <2>3, <2>4
<1>11. 0 \in 0..n  BY <1>1
<1>. QED  BY <1>1, <1>5, <1>6, <1>7, <1>8, <1>9, <1>10, <1>11 DEF r

\* The first task is taken.
LEMMA QueueTail ==
    ASSUME NEW q \in Seq(Task), q # <<>>
    PROVE  /\ Tail(q) \in Seq(Task) /\ Head(q) \in Task
           /\ \A task : Has(Tail(q), task) => Has(q, task)
           /\ Has(q, Head(q))
           /\ Once(q) => Once(Tail(q)) /\ (Head(q) = "StartInLoop" => ~Has(Tail(q), "StartInLoop"))
           /\ NoLone(q) => NoLone(Tail(q)) /\ (Head(q) = "ResetChannel" => Follows(Tail(q), 0))
           /\ Follows(q, 0) /\ Head(q) # "StartInLoop" =>
                  Head(q) # "StopInLoop" /\ Follows(Tail(q), 0)
           /\ Ordered(q) => Ordered(Tail(q)) /\ (Head(q) = "StartInLoop" => ~Has(Tail(q), "ResetChannel"))
<1>. DEFINE r == Tail(q)
            n == Len(q)
<1>1. /\ r \in Seq(Task) /\ Head(q) \in Task /\ Head(q) = q[1]
      /\ n \in Nat /\ n > 0 /\ Len(r) = n - 1
      /\ \A i \in 1..Len(r) : r[i] = q[i + 1]
  BY HeadTailProperties, LenProperties, EmptySeq
<1>. HIDE DEF r
<1>2. 1 \in 1..n /\ \A i \in 1..Len(r) : i + 1 \in 1..n /\ i + 1 # 1  BY <1>1
<1>3. \A task : Has(r, task) => Has(q, task)  BY <1>1, <1>2 DEF Has
<1>4. Has(q, Head(q))  BY <1>1, <1>2 DEF Has
<1>5. ASSUME Once(q) PROVE Once(r)
  <2>. SUFFICES ASSUME NEW i \in 1..Len(r), NEW j \in 1..Len(r),
                       r[i] = "StartInLoop", r[j] = "StartInLoop"
                PROVE  i = j
    BY DEF Once
  <2>1. i + 1 = j + 1  BY <1>1, <1>2, <1>5 DEF Once
  <2>. QED  BY <2>1
<1>6. ASSUME Once(q), Head(q) = "StartInLoop" PROVE ~Has(r, "StartInLoop")
  BY <1>1, <1>2, <1>6 DEF Once, Has
<1>7. ASSUME NEW i \in 0..Len(r), Follows(q, i + 1) PROVE Follows(r, i)
  <2>1. PICK j \in (i + 2)..n :
            q[j] = "StartInLoop" /\ \A k \in (i + 2)..(j - 1) : q[k] # "StopInLoop"
    <3>1. (i + 1) + 1 = i + 2  OBVIOUS
    <3>. QED  BY <1>7, <3>1 DEF Follows
  <2>2. j - 1 \in (i + 1)..Len(r) /\ r[j - 1] = "StartInLoop"  BY <1>1, <2>1
  <2>3. \A k \in (i + 1)..((j - 1) - 1) : r[k] # "StopInLoop"
    <3>1. \A k \in (i + 1)..((j - 1) - 1) :
              k \in 1..Len(r) /\ k + 1 \in (i + 2)..(j - 1)
      BY <1>1, <2>1
    <3>. QED  BY <1>1, <2>1, <3>1
  <2>. QED  BY <2>2, <2>3 DEF Follows
<1>8. ASSUME NoLone(q)
      PROVE  NoLone(r) /\ (Head(q) = "ResetChannel" => Follows(r, 0))
  <2>1. ASSUME NEW i \in 1..Len(r), r[i] = "ResetChannel" PROVE Follows(r, i)
    <3>1. Follows(q, i + 1)  BY <1>1, <1>2, <1>8, <2>1 DEF NoLone
    <3>2. i \in 0..Len(r)  BY <1>1
    <3>. QED  BY <1>7, <3>1, <3>2
  <2>2. ASSUME Head(q) = "ResetChannel" PROVE Follows(r, 0)
    <3>1. Follows(q, 0 + 1)  BY <1>1, <1>2, <1>8, <2>2 DEF NoLone
    <3>2. 0 \in 0..Len(r)  BY <1>1
    <3>. QED  BY <1>7, <3>1, <3>2
  <2>. QED  BY <2>1, <2>2 DEF NoLone
<1>9. ASSUME Follows(q, 0), Head(q) # "StartInLoop"
      PROVE  Head(q) # "StopInLoop" /\ Follows(r, 0)
  <2>1. PICK j \in (0 + 1)..n :
            q[j] = "StartInLoop" /\ \A k \in (0 + 1)..(j - 1) : q[k] # "StopInLoop"
    BY <1>9 DEF Follows
  <2>2. j # 1 /\ 1 \in (0 + 1)..(j - 1)  BY <1>1, <1>9, <2>1
  <2>3. j \in ((0 + 1) + 1)..n /\ \A k \in ((0 + 1) + 1)..(j - 1) : q[k] # "StopInLoop"
    <3>1. \A k \in ((0 + 1) + 1)..(j - 1) : k \in (0 + 1)..(j - 1)  OBVIOUS
    <3>. QED  BY <2>1, <2>2, <3>1
  <2>4. Follows(q, 0 + 1)  BY <2>1, <2>3 DEF Follows
  <2>5. 0 \in 0..Len(r)  BY <1>1
  <2>. QED  BY <1>1, <1>7, <2>1, <2>2, <2>4, <2>5
<1>10. ASSUME Ordered(q)
       PROVE  Ordered(r) /\ (Head(q) = "StartInLoop" => ~Has(r, "ResetChannel"))
  <2>1. ASSUME NEW i \in 1..Len(r), NEW j \in 1..Len(r),
               r[i] = "StartInLoop", r[j] = "ResetChannel"
        PROVE  j < i
    <3>1. i + 1 \in 1..n /\ j + 1 \in 1..n /\ q[i + 1] = "StartInLoop" /\ q[j + 1] = "ResetChannel"
      BY <1>1, <1>2, <2>1
    <3>2. j + 1 < i + 1  BY <1>10, <3>1 DEF Ordered
    <3>. QED  BY <3>2
  <2>2. ASSUME Head(q) = "StartInLoop", NEW j \in 1..Len(r), r[j] = "ResetChannel" PROVE FALSE
    <3>1. j + 1 \in 1..n /\ q[j + 1] = "ResetChannel" /\ q[1] = "StartInLoop"
      BY <1>1, <1>2, <2>2
    <3>2. j + 1 < 1  BY <1>10, <1>2, <3>1 DEF Ordered
    <3>. QED  BY <3>2
  <2>. QED  BY <2>1, <2>2 DEF Ordered, Has
<1>. QED  BY <1>1, <1>3, <1>4, <1>5, <1>6, <1>8, <1>9, <1>10 DEF r

\* An empty queue has none.
LEMMA QueueEmpty ==
    /\ <<>> \in Seq(Task)
    /\ \A task : ~Has(<<>>, task)
    /\ Once(<<>>) /\ ~Follows(<<>>, 0) /\ NoLone(<<>>) /\ Ordered(<<>>)
<1>1. Len(<<>>) = 0  OBVIOUS
<1>2. 1..Len(<<>>) = {} /\ (0 + 1)..Len(<<>>) = {}  BY <1>1
<1>. QED  BY <1>2 DEF Has, Once, Follows, NoLone, Ordered

-----------------------------------------------------------------------------
(* Ready is defined by recursion over the descriptors.                      *)

\* A set of numbers has a least one.
LEMMA LeastNumber ==
    ASSUME NEW S \in SUBSET Nat, S # {}
    PROVE  \E n \in S : \A m \in S : n <= m
<1>. DEFINE R == OpToRel(<, Nat)
<1>1. IsWellFoundedOn(R, Nat)  BY NatLessThanWellFounded, Zenon
<1>2. \A x, y \in Nat : x < y => <<x, y>> \in R  BY Zenon DEF OpToRel
<1>. HIDE DEF R
<1>3. PICK x \in S : \A y \in S : ~(<<y, x>> \in R)  BY <1>1, WFMin
<1>4. \A y \in S : ~(y < x)  BY <1>2, <1>3
<1>. QED  BY <1>4

\* The events there are, one after the other, are of the set that each is of.
LEMMA ReadyEvents ==
    ASSUME NEW X, \A fd \in Fd : Reports(fd) \in Seq(X)
    PROVE  Ready \in Seq(X)
<1>. DEFINE E(g, n) == g = [fd \in 0..n |-> IF fd = 0 THEN <<>> ELSE g[fd - 1] \o Reports(fd)]
            B == {n \in 0..MaxSocket : ~ \E g : E(g, n)}
<1>0. MaxSocket \in Nat /\ MaxSocket > 0 /\ Fd = 1..MaxSocket
  BY SocketAssumption DEF Fd
<1>1. \E g : E(g, MaxSocket)
  <2>0. MaxSocket \in 0..MaxSocket  BY <1>0
  <2>a. ASSUME B = {} PROVE \E g : E(g, MaxSocket)
    <3>. HIDE DEF E
    <3>. QED  BY <2>0, <2>a
  <2>. SUFFICES ASSUME B # {} PROVE FALSE  BY <2>a
  <2>1. B \in SUBSET Nat  BY <1>0
  <2>. HIDE DEF B
  <2>2. PICK n \in B : \A m \in B : n <= m  BY <2>1, LeastNumber
  <2>3. n \in 0..MaxSocket /\ ~ \E g : E(g, n)  BY <2>2 DEF B
  <2>4. CASE n = 0
    <3>1. E([fd \in 0..0 |-> <<>>], 0)  OBVIOUS
    <3>. QED  BY <2>3, <2>4, <3>1
  <2>5. CASE n # 0
    <3>1. n - 1 \in 0..MaxSocket /\ n \in Nat  BY <1>0, <2>3, <2>5
    <3>2. n - 1 \notin B  BY <2>2, <3>1
    <3>3. PICK g : E(g, n - 1)  BY <3>1, <3>2 DEF B
    <3>. DEFINE h == [fd \in 0..n |-> IF fd = n THEN g[n - 1] \o Reports(n) ELSE g[fd]]
    <3>4. \A fd \in 0..n : h[fd] = IF fd = 0 THEN <<>> ELSE h[fd - 1] \o Reports(fd)
      <4>1. ASSUME NEW fd \in 0..(n - 1)
            PROVE  g[fd] = IF fd = 0 THEN <<>> ELSE g[fd - 1] \o Reports(fd)
        BY <3>3
      <4>2. \A fd \in 0..n : fd = n \/ fd \in 0..(n - 1)  BY <3>1
      <4>3. \A fd \in 0..(n - 1) : h[fd] = g[fd] /\ fd \in 0..n /\ fd # n  BY <3>1
      <4>4. h[n] = g[n - 1] \o Reports(n) /\ n - 1 \in 0..(n - 1)  BY <2>5, <3>1
      <4>5. \A fd \in 0..(n - 1) : fd # 0 => fd - 1 \in 0..(n - 1)  BY <3>1
      <4>. HIDE DEF h
      <4>. QED  BY <2>5, <4>1, <4>2, <4>3, <4>4, <4>5
    <3>5. E(h, n)
      <4>1. h = [fd \in 0..n |-> h[fd]]  OBVIOUS
      <4>. HIDE DEF h
      <4>. QED  BY <3>4, <4>1
    <3>. QED  BY <2>3, <3>5
  <2>. QED  BY <2>4, <2>5
<1>2. \E f : E(f, MaxSocket) /\ Ready = f[MaxSocket]
  <2>. DEFINE f == CHOOSE f : E(f, MaxSocket)
  <2>1. E(f, MaxSocket)  BY <1>1
  <2>2. Ready = f[MaxSocket]  BY DEF Ready
  <2>. QED  BY <2>1, <2>2
<1>3. PICK f : E(f, MaxSocket) /\ Ready = f[MaxSocket]  BY <1>2
<1>4. \A n \in 0..MaxSocket : f[n] = IF n = 0 THEN <<>> ELSE f[n - 1] \o Reports(n)
  BY <1>3
<1>. DEFINE W == {n \in 0..MaxSocket : f[n] \notin Seq(X)}
<1>5. W = {}
  <2>. SUFFICES ASSUME W # {} PROVE FALSE  OBVIOUS
  <2>1. W \in SUBSET Nat  BY <1>0
  <2>. HIDE DEF W
  <2>2. PICK n \in W : \A m \in W : n <= m  BY <2>1, LeastNumber
  <2>3. n \in 0..MaxSocket /\ f[n] \notin Seq(X)  BY <2>2 DEF W
  <2>4. CASE n = 0
    <3>1. f[n] = <<>>  BY <1>4, <2>3, <2>4
    <3>. QED  BY <2>3, <3>1
  <2>5. CASE n # 0
    <3>1. n - 1 \in 0..MaxSocket /\ n \in Fd /\ ~(n <= n - 1)  BY <1>0, <2>3, <2>5
    <3>2. f[n - 1] \in Seq(X)  BY <2>2, <3>1 DEF W
    <3>3. f[n] = f[n - 1] \o Reports(n)  BY <1>4, <2>3, <2>5
    <3>. QED  BY <2>3, <3>1, <3>2, <3>3, ConcatProperties
  <2>. QED  BY <2>4, <2>5
<1>6. MaxSocket \in 0..MaxSocket  BY <1>0
<1>. QED  BY <1>3, <1>5, <1>6
-----------------------------------------------------------------------------
(* What the connector's methods do, field by field.                         *)

\* The fields of a state.
LEMMA StateFields ==
    ASSUME NEW s \in State
    PROVE  /\ s.connect_ \in BOOLEAN /\ s.status_ \in {"DISCONNECTED", "CONNECTING", "CONNECTED"}
           /\ s.channel_ \in Fd \cup {NoFd} /\ s.socket \in [Fd -> SocketState]
           /\ s.list \in [Fd -> Entry] /\ s.queued \in Seq({"StartInLoop", "ResetChannel"})
           /\ s.rest \in {"", "Retry", "HandleWrite", "StartInLoop"}
           /\ s.handed \in Fd \cup {NoFd}
           /\ s.failed \in {"", "StartInLoop", "HandleWrite", "channel"}
BY DEF State

\* NoFd is no descriptor.
LEMMA NoFdNone == \A fd \in Fd : fd # NoFd
BY SocketAssumption DEF Fd, NoFd

\* There is a lowest descriptor.
LEMMA LowestFd == \E n \in Fd : \A m \in Fd : n <= m
<1>1. 1 \in Fd /\ \A m \in Fd : 1 <= m  BY SocketAssumption DEF Fd
<1>. QED  BY <1>1

\* One task is a queue.
LEMMA ShortQueue == Append(<<>>, "StartInLoop") \in Seq({"StartInLoop", "ResetChannel"})
<1>1. <<>> \in Seq({"StartInLoop", "ResetChannel"})  OBVIOUS
<1>. QED  BY <1>1, AppendProperties

\* Two states with the same fields, but for the sockets and the list.
Same(r, s) ==
    /\ r \in State /\ r.connect_ = s.connect_ /\ r.status_ = s.status_ /\ r.channel_ = s.channel_
    /\ r.queued = s.queued /\ r.rest = s.rest /\ r.handed = s.handed /\ r.failed = s.failed

\* connect_ is set or reset, and no other field.
LEMMA WantedFields ==
    ASSUME NEW s \in State, NEW b \in BOOLEAN
    PROVE  LET r == [s EXCEPT !.connect_ = b]
           IN  /\ r \in State /\ r.connect_ = b /\ r.status_ = s.status_ /\ r.channel_ = s.channel_
               /\ r.socket = s.socket /\ r.list = s.list /\ r.queued = s.queued
               /\ r.rest = s.rest /\ r.handed = s.handed /\ r.failed = s.failed
BY StateFields DEF State

\* One descriptor's entry in the list changes, and no other field.
LEMMA EntryFields ==
    ASSUME NEW s \in State, NEW fd \in Fd \cup {NoFd}, NEW e \in Entry
    PROVE  LET r == [s EXCEPT !.list[fd] = e]
           IN  /\ Same(r, s) /\ r.socket = s.socket
               /\ \A f \in Fd : r.list[f] = IF f = fd THEN e ELSE s.list[f]
BY StateFields DEF State, Same

\* One descriptor's socket changes, and no other field.
LEMMA SocketFields ==
    ASSUME NEW s \in State, NEW fd \in Fd, NEW x \in SocketState
    PROVE  LET r == [s EXCEPT !.socket[fd] = x]
           IN  /\ Same(r, s) /\ r.list = s.list
               /\ \A f \in Fd : r.socket[f] = IF f = fd THEN x ELSE s.socket[f]
BY StateFields DEF State, Same

\* Died(): the connection's socket is closed, and its channel stays in the list.
LEMMA DiedFields ==
    ASSUME NEW s \in State, connection_ \in Fd \cup {NoFd}
    PROVE  /\ Same(Died(s), s)
           /\ \A f \in Fd :
                  /\ Died(s).socket[f] = IF f = connection_ THEN "none" ELSE s.socket[f]
                  /\ Died(s).list[f] = IF f = connection_ /\ s.list[f] = "connection"
                                       THEN "destroyed" ELSE s.list[f]
<1>1. CASE connection_ = NoFd  BY <1>1, NoFdNone DEF Died, Same
<1>2. CASE connection_ # NoFd
  <2>. DEFINE e == IF s.list[connection_] = "connection" THEN "destroyed"
                   ELSE s.list[connection_]
              t == [s EXCEPT !.socket[connection_] = "none"]
  <2>0. connection_ \in Fd /\ "none" \in SocketState  BY <1>2 DEF SocketState
  <2>1. e \in Entry  BY <2>0, StateFields DEF Entry
  <2>2. Same(t, s) /\ t.list = s.list
        /\ \A f \in Fd : t.socket[f] = IF f = connection_ THEN "none" ELSE s.socket[f]
    BY <2>0, SocketFields
  <2>3. Died(s) = [t EXCEPT !.list[connection_] = e]
    <3>1. Died(s) = [s EXCEPT !.socket[connection_] = "none",
                              !.list[connection_] = IF @ = "connection" THEN "destroyed" ELSE @]
      BY <1>2 DEF Died
    <3>. QED  BY <3>1
  <2>. HIDE DEF t
  <2>4. t \in State /\ connection_ \in Fd \cup {NoFd}  BY <2>0, <2>2 DEF Same
  <2>5. /\ Same(Died(s), t) /\ Died(s).socket = t.socket
        /\ \A f \in Fd : Died(s).list[f] = IF f = connection_ THEN e ELSE t.list[f]
    BY <2>1, <2>3, <2>4, EntryFields
  <2>. QED  BY <2>2, <2>5 DEF Same
<1>. QED  BY <1>1, <1>2

\* Retry(): the socket is closed, and StartInLoop() is still to be queued if connect_ is set.
LEMMA RetryFields ==
    ASSUME NEW s \in State, NEW sockfd \in Fd \cup {NoFd}
    PROVE  LET r == Retry(s, sockfd)
           IN  /\ r \in State /\ r.connect_ = s.connect_ /\ r.status_ = "DISCONNECTED"
               /\ \A fd \in Fd : r.socket[fd] = IF fd = sockfd THEN "none" ELSE s.socket[fd]
               /\ r.list = s.list /\ r.queued = s.queued
               /\ r.handed = s.handed /\ r.failed = s.failed
               /\ r.rest = IF s.connect_ THEN "StartInLoop" ELSE ""
BY StateFields DEF Retry, State, SocketState

\* RemoveAndResetChannel(): without a channel it is undefined, else the channel leaves the list.
LEMMA RemoveFields ==
    ASSUME NEW s \in State, NEW rest \in {"Retry", "HandleWrite"}
    PROVE  LET r == RemoveAndResetChannel(s, rest)
           IN  /\ r \in State /\ r.connect_ = s.connect_ /\ r.status_ = s.status_
               /\ r.channel_ = s.channel_ /\ r.socket = s.socket /\ r.handed = s.handed
               /\ s.channel_ = NoFd => r.failed = "channel"
               /\ s.channel_ # NoFd =>
                      /\ r.failed = s.failed /\ r.rest = rest
                      /\ \A fd \in Fd : r.list[fd] =
                             IF fd = s.channel_ THEN "nobody" ELSE s.list[fd]
                      /\ r.queued = Append(s.queued, "ResetChannel")
BY StateFields, AppendProperties DEF RemoveAndResetChannel, State, Entry

\* A status is set, and no other field.
LEMMA StatusFields ==
    ASSUME NEW s \in State, NEW x \in {"DISCONNECTED", "CONNECTING", "CONNECTED"}
    PROVE  LET r == [s EXCEPT !.status_ = x]
           IN  /\ r \in State /\ r.connect_ = s.connect_ /\ r.status_ = x /\ r.channel_ = s.channel_
               /\ r.socket = s.socket /\ r.list = s.list /\ r.queued = s.queued
               /\ r.rest = s.rest /\ r.handed = s.handed /\ r.failed = s.failed
BY StateFields DEF State

\* ResetChannel(): a channel that is still in the list is destroyed there.
LEMMA ResetFields ==
    ASSUME NEW s \in State
    PROVE  LET r == ResetChannel(s)
           IN  /\ r \in State /\ r.connect_ = s.connect_ /\ r.status_ = s.status_
               /\ r.channel_ = NoFd /\ r.socket = s.socket
               /\ \A fd \in Fd : r.list[fd] =
                      IF fd = s.channel_ /\ s.list[fd] = "connector" THEN "destroyed" ELSE s.list[fd]
               /\ r.queued = s.queued /\ r.rest = s.rest /\ r.handed = s.handed
               /\ r.failed = s.failed
<1>1. Abandoned(s) \in [Fd -> Entry]  BY StateFields DEF Abandoned, Entry
<1>2. \A fd \in Fd : Abandoned(s)[fd] =
          IF fd = s.channel_ /\ s.list[fd] = "connector" THEN "destroyed" ELSE s.list[fd]
  BY DEF Abandoned
<1>. QED  BY <1>1, <1>2, StateFields DEF ResetChannel, State

\* Connecting(): a channel for the socket, in place of the one there was.
LEMMA ConnectingFields ==
    ASSUME NEW s \in State, NEW sockfd \in Fd
    PROVE  LET r == Connecting(s, sockfd)
           IN  /\ r \in State /\ r.connect_ = s.connect_ /\ r.status_ = "CONNECTING"
               /\ r.channel_ = sockfd /\ r.socket = s.socket /\ r.list[sockfd] = "connector"
               /\ \A fd \in Fd \ {sockfd} : s.list[fd] = "nobody" => r.list[fd] = "nobody"
               /\ r.queued = s.queued /\ r.rest = s.rest /\ r.handed = s.handed
               /\ r.failed = s.failed
<1>1. Abandoned(s) \in [Fd -> Entry]  BY StateFields DEF Abandoned, Entry
<1>2. [Abandoned(s) EXCEPT ![sockfd] = "connector"] \in [Fd -> Entry]  BY <1>1 DEF Entry
<1>3. \A fd \in Fd : s.list[fd] = "nobody" => Abandoned(s)[fd] = "nobody"
  BY DEF Abandoned
<1>. HIDE DEF Abandoned
<1>. QED  BY <1>1, <1>2, <1>3, StateFields DEF Connecting, State

\* What a step of a method leaves is the connector, but for what it queues and hands over.
LEMMA NewConnectionFields ==
    ASSUME NEW r \in State, NewConnection(r)
    PROVE  /\ connector' \in State /\ connector'.queued = <<>> /\ connector'.handed = NoFd
           /\ connector'.connect_ = r.connect_ /\ connector'.status_ = r.status_
           /\ connector'.channel_ = r.channel_ /\ connector'.socket = r.socket
           /\ connector'.rest = r.rest /\ connector'.failed = r.failed
           /\ \A fd \in Fd :
                  connector'.list[fd] = IF fd = r.handed THEN "connection" ELSE r.list[fd]
           /\ task_' = task_ \o r.queued
           /\ connection_' = (IF r.handed = NoFd THEN connection_ ELSE r.handed)
           /\ failed' = (IF r.handed # NoFd /\ life \in Destroyed THEN "client" ELSE r.failed)
<1>0. <<>> \in Seq({"StartInLoop", "ResetChannel"})  OBVIOUS
<1>1. connector' = [r EXCEPT !.queued = <<>>, !.handed = NoFd,
                             !.list = IF r.handed = NoFd THEN @
                                      ELSE [@ EXCEPT ![r.handed] = "connection"]]
  BY DEF NewConnection
<1>2. CASE r.handed = NoFd
  <2>1. connector' = [r EXCEPT !.queued = <<>>, !.handed = NoFd, !.list = r.list]
    BY <1>1, <1>2
  <2>. QED  BY <1>0, <1>2, <2>1, NoFdNone, StateFields DEF NewConnection, State
<1>3. CASE r.handed # NoFd
  <2>. DEFINE l == [r.list EXCEPT ![r.handed] = "connection"]
  <2>1. connector' = [r EXCEPT !.queued = <<>>, !.handed = NoFd, !.list = l]
    BY <1>1, <1>3
  <2>2. l \in [Fd -> Entry]
        /\ \A fd \in Fd : l[fd] = IF fd = r.handed THEN "connection" ELSE r.list[fd]
    BY StateFields DEF Entry
  <2>. HIDE DEF l
  <2>3. /\ connector' \in State /\ connector'.queued = <<>> /\ connector'.handed = NoFd
        /\ connector'.connect_ = r.connect_ /\ connector'.status_ = r.status_
        /\ connector'.channel_ = r.channel_ /\ connector'.socket = r.socket
        /\ connector'.rest = r.rest /\ connector'.failed = r.failed /\ connector'.list = l
    BY <1>0, <2>1, <2>2, StateFields DEF State
  <2>4. /\ task_' = task_ \o r.queued
        /\ connection_' = (IF r.handed = NoFd THEN connection_ ELSE r.handed)
        /\ failed' = (IF r.handed # NoFd /\ life \in Destroyed THEN "client" ELSE r.failed)
    BY DEF NewConnection
  <2>. QED  BY <2>2, <2>3, <2>4
<1>. QED  BY <1>2, <1>3

-----------------------------------------------------------------------------
(* What a step of a method may make of the connector.                       *)

\* What the methods start from.
Idling == TypeOK /\ Shape

\* What every step of a method leaves.
Typed ==
    /\ connector' \in State /\ connector'.queued = <<>> /\ connector'.handed = NoFd
    /\ task_' \in Seq(Task) /\ connection_' \in Fd \cup {NoFd}

\* connect_ is as it was, and nothing has failed.
Running == connector'.connect_ = connector.connect_ /\ connector'.failed = ""

\* Nothing has come of it.
Idle ==
    /\ Running /\ UNCHANGED <<task_, connection_>> /\ failed' = ""
    /\ connector'.status_ = connector.status_ /\ connector'.channel_ = connector.channel_
    /\ connector'.rest = connector.rest /\ connector'.socket = connector.socket
    /\ \A fd \in Fd : connector'.list[fd] = connector.list[fd]

\* An attempt is in progress.
Attempted ==
    /\ Running /\ UNCHANGED <<task_, connection_>> /\ failed' = ""
    /\ connector.status_ = "DISCONNECTED" /\ connector.connect_ /\ connector.rest = ""
    /\ connector'.status_ = "CONNECTING" /\ connector'.rest = ""
    /\ \E a \in Fd :
           connector'.channel_ = a /\ connector'.list[a] = "connector" /\ OnlyAt(connector', {a})

\* The attempt was refused at once.
Repeated ==
    /\ Running /\ UNCHANGED <<task_, connection_>> /\ failed' = ""
    /\ connector.status_ = "DISCONNECTED" /\ connector.connect_ /\ connector.rest = ""
    /\ connector'.status_ = "DISCONNECTED" /\ connector'.rest = "StartInLoop"
    /\ OnlyAt(connector', {})

\* The attempt has left the list.
Removed ==
    /\ Running /\ UNCHANGED connection_ /\ failed' = ""
    /\ connector.status_ = "CONNECTING" /\ connector.rest = ""
    /\ connector'.status_ \in {"CONNECTING", "DISCONNECTED"}
    /\ connector'.rest \in {"Retry", "HandleWrite"}
    /\ connector'.channel_ \in Fd /\ connector'.list[connector'.channel_] = "nobody"
    /\ OnlyAt(connector', {connector'.channel_})
    /\ task_' = Append(task_, "ResetChannel")

\* The channel is destroyed, an attempt's as well.
Reset ==
    /\ Running /\ UNCHANGED <<task_, connection_>> /\ failed' = ""
    /\ connector'.status_ = connector.status_ /\ connector'.channel_ = NoFd
    /\ connector'.rest = connector.rest /\ connector'.socket = connector.socket
    /\ \A fd \in Fd : connector'.list[fd] =
           IF fd = connector.channel_ /\ connector.list[fd] = "connector" THEN "destroyed"
           ELSE connector.list[fd]

\* The attempt is given up.
Retried ==
    /\ Running /\ UNCHANGED <<task_, connection_>> /\ failed' = ""
    /\ connector.rest \in {"Retry", "HandleWrite"}
    /\ connector'.status_ = "DISCONNECTED"
    /\ connector'.rest = IF connector.connect_ THEN "StartInLoop" ELSE ""
    /\ OnlyAt(connector', {})

\* The connection is made, unless connect_ was reset.
Made ==
    /\ Running /\ UNCHANGED task_
    /\ failed' = IF connection_' # NoFd /\ life \in Destroyed THEN "client" ELSE ""
    /\ connector.rest = "HandleWrite"
    /\ connector'.status_ = "CONNECTED" /\ connector'.rest = ""
    /\ connection_' # NoFd => connector.connect_
    /\ OnlyAt(connector', {connection_'})
    /\ \A fd \in Fd : fd = connection_' => connector'.list[fd] = "connection"

\* Another try is queued.
Requeued ==
    /\ Running /\ UNCHANGED connection_ /\ failed' = ""
    /\ connector.rest = "StartInLoop"
    /\ connector'.status_ = connector.status_ /\ connector'.rest = ""
    /\ connector'.socket = connector.socket
    /\ \A fd \in Fd : connector'.list[fd] = connector.list[fd]
    /\ task_' = Append(task_, "StartInLoop")

\* Between two steps the connector has queued and handed over nothing.
LEMMA IdlingState ==
    ASSUME Idling
    PROVE  /\ connector \in State /\ connector.queued = <<>> /\ connector.handed = NoFd
           /\ connector.failed = "" /\ task_ \in Seq(Task)
           /\ connection_ \in Fd \cup {NoFd}
           /\ connector.status_ \in {"DISCONNECTED", "CONNECTING", "CONNECTED"}
           /\ connector.rest \in {"", "Retry", "HandleWrite", "StartInLoop"}
           /\ connector.channel_ \in Fd \cup {NoFd}
BY StateFields DEF Idling, TypeOK, Shape

\* The tasks that are queued.
LEMMA TaskNames ==
    /\ "StartInLoop" \in Task /\ "StopInLoop" \in Task /\ "ResetChannel" \in Task
    /\ "SetCloseCallback" \in Task /\ "ForceCloseInLoop" \in Task /\ "ConnectDestroyed" \in Task
BY DEF Task

\* One task at once, or none.
LEMMA QueueConcat ==
    ASSUME NEW q \in Seq(Task)
    PROVE  /\ q \o <<>> = q
           /\ \A x \in Task : q \o Append(<<>>, x) = Append(q, x)
OBVIOUS

\* Whatever a method makes has its type.
LEMMA TypedAfter ==
    ASSUME Idling, NEW r \in State, NewConnection(r)
    PROVE  Typed
<1>1. r.queued \in Seq(Task)
  <2>1. r.queued \in Seq({"StartInLoop", "ResetChannel"})  BY StateFields
  <2>. QED  BY <2>1 DEF Task
<1>2. task_ \o r.queued \in Seq(Task)  BY <1>1, IdlingState, ConcatProperties
<1>3. r.handed \in Fd \cup {NoFd}  BY StateFields
<1>. QED  BY <1>2, <1>3, IdlingState, NewConnectionFields DEF Typed

\* A method that has handed over nothing: the fields of its result are the connector's.
LEMMA PlainAfter ==
    ASSUME Idling, NEW r \in State, NewConnection(r), r.handed = NoFd
    PROVE  /\ Typed /\ UNCHANGED connection_ /\ failed' = r.failed
           /\ connector'.connect_ = r.connect_ /\ connector'.status_ = r.status_
           /\ connector'.channel_ = r.channel_ /\ connector'.socket = r.socket
           /\ connector'.rest = r.rest /\ connector'.failed = r.failed
           /\ \A fd \in Fd : connector'.list[fd] = r.list[fd]
           /\ r.queued = <<>> => task_' = task_
           /\ \A x \in Task : r.queued = Append(<<>>, x) => task_' = Append(task_, x)
<1>1. task_ \in Seq(Task)  BY IdlingState
<1>2. task_' = task_ \o r.queued  BY NewConnectionFields
<1>3. r.queued = <<>> => task_' = task_  BY <1>1, <1>2, QueueConcat
<1>4. \A x \in Task : r.queued = Append(<<>>, x) => task_' = Append(task_, x)
  BY <1>1, <1>2, QueueConcat
<1>. QED  BY <1>3, <1>4, TypedAfter, NewConnectionFields, NoFdNone

\* A method that does nothing.
LEMMA IdleAfter ==
    ASSUME Idling, NewConnection(connector)
    PROVE  Typed /\ Idle
BY IdlingState, PlainAfter DEF Idle, Running

\* A method that ends the process.
LEMMA BrokenAfter ==
    ASSUME Idling, NEW x \in {"StartInLoop", "HandleWrite", "channel"},
           NewConnection([connector EXCEPT !.failed = x])
    PROVE  Typed /\ failed' = x
<1>. DEFINE r == [connector EXCEPT !.failed = x]
<1>1. r \in State /\ r.handed = NoFd /\ r.failed = x  BY IdlingState, StateFields DEF State
<1>2. NewConnection(r)  OBVIOUS
<1>. HIDE DEF r
<1>. QED  BY <1>1, <1>2, PlainAfter

\* RemoveAndResetChannel() of an attempt: it leaves the list, if its channel is still there.
LEMMA RemovedAfter ==
    ASSUME Idling, connector.status_ = "CONNECTING", connector.rest = "",
           NEW s \in State, NEW rest \in {"Retry", "HandleWrite"},
           s.status_ \in {"CONNECTING", "DISCONNECTED"}, s.connect_ = connector.connect_,
           s.channel_ = connector.channel_, s.socket = connector.socket,
           s.list = connector.list, s.queued = <<>>, s.handed = NoFd, s.failed = "",
           NewConnection(RemoveAndResetChannel(s, rest))
    PROVE  Typed /\ (Removed \/ (Doomed /\ failed' = "channel"))
<1>. DEFINE r == RemoveAndResetChannel(s, rest)
<1>1. /\ r \in State /\ r.connect_ = s.connect_ /\ r.status_ = s.status_
      /\ r.channel_ = s.channel_ /\ r.socket = s.socket /\ r.handed = s.handed
      /\ s.channel_ = NoFd => r.failed = "channel"
      /\ s.channel_ # NoFd =>
             /\ r.failed = s.failed /\ r.rest = rest
             /\ \A fd \in Fd : r.list[fd] = IF fd = s.channel_ THEN "nobody" ELSE s.list[fd]
             /\ r.queued = Append(s.queued, "ResetChannel")
  BY RemoveFields
<1>2. NewConnection(r)  OBVIOUS
<1>. HIDE DEF r
<1>3. /\ Typed /\ UNCHANGED connection_ /\ failed' = r.failed
      /\ connector'.connect_ = r.connect_ /\ connector'.status_ = r.status_
      /\ connector'.channel_ = r.channel_ /\ connector'.socket = r.socket
      /\ connector'.rest = r.rest /\ connector'.failed = r.failed
      /\ \A fd \in Fd : connector'.list[fd] = r.list[fd]
      /\ \A x \in Task : r.queued = Append(<<>>, x) => task_' = Append(task_, x)
  BY <1>1, <1>2, PlainAfter
<1>4. CASE connector.channel_ = NoFd  BY <1>1, <1>3, <1>4 DEF Doomed
<1>5. CASE connector.channel_ # NoFd
  <2>1. connector.channel_ \in Fd /\ "ResetChannel" \in Task  BY <1>5, IdlingState, TaskNames
  <2>2. \A fd \in Fd : connector'.list[fd] =
            IF fd = connector.channel_ THEN "nobody" ELSE connector.list[fd]
    BY <1>1, <1>3, <1>5
  <2>3. OnlyAt(connector, {connector.channel_})  BY <1>5 DEF Idling, Shape, OnlyAt
  <2>4. OnlyAt(connector', {connector'.channel_})
    <3>1. connector'.channel_ = connector.channel_ /\ connector'.socket = connector.socket
      BY <1>1, <1>3
    <3>. QED  BY <2>2, <2>3, <3>1 DEF OnlyAt
  <2>5. Removed  BY <1>1, <1>3, <1>5, <2>1, <2>2, <2>4 DEF Removed, Running
  <2>. QED  BY <1>3, <2>5
<1>. QED  BY <1>4, <1>5

\* StopInLoop(): nothing, or the attempt leaves the list.
LEMMA StopInLoopAfter ==
    ASSUME Idling, connector.rest = "", NewConnection(StopInLoop(connector))
    PROVE  Typed /\ (Idle \/ Removed \/ (Doomed /\ failed' = "channel"))
<1>1. CASE connector.status_ # "CONNECTING"
  <2>1. StopInLoop(connector) = connector  BY <1>1 DEF StopInLoop
  <2>. QED  BY <2>1, IdleAfter
<1>2. CASE connector.status_ = "CONNECTING"
  <2>. DEFINE s == [connector EXCEPT !.status_ = "DISCONNECTED"]
  <2>1. /\ s \in State /\ s.connect_ = connector.connect_ /\ s.status_ = "DISCONNECTED"
        /\ s.channel_ = connector.channel_ /\ s.socket = connector.socket
        /\ s.list = connector.list /\ s.queued = <<>> /\ s.handed = NoFd /\ s.failed = ""
    BY IdlingState, StatusFields
  <2>2. StopInLoop(connector) = RemoveAndResetChannel(s, "Retry")  BY <1>2 DEF StopInLoop
  <2>. HIDE DEF s
  <2>. QED  BY <1>2, <2>1, <2>2, RemovedAfter
<1>. QED  BY <1>1, <1>2

\* HandleError(): nothing, or the attempt leaves the list.
LEMMA HandleErrorAfter ==
    ASSUME Idling, connector.rest = "", NewConnection(HandleError(connector))
    PROVE  Typed /\ (Idle \/ Removed \/ (Doomed /\ failed' = "channel"))
<1>1. CASE connector.status_ # "CONNECTING"
  <2>1. HandleError(connector) = connector  BY <1>1 DEF HandleError
  <2>. QED  BY <2>1, IdleAfter
<1>2. CASE connector.status_ = "CONNECTING"
  <2>1. HandleError(connector) = RemoveAndResetChannel(connector, "Retry")
    BY <1>2 DEF HandleError
  <2>. QED  BY <1>2, <2>1, IdlingState, RemovedAfter
<1>. QED  BY <1>1, <1>2

\* HandleWrite(): FATAL unless there is an attempt, which leaves the list.
LEMMA HandleWriteAfter ==
    ASSUME Idling, connector.rest = "", NewConnection(HandleWrite(connector))
    PROVE  Typed /\ (Removed \/ (Doomed /\ failed' = "channel") \/ failed' = "HandleWrite")
<1>1. CASE connector.status_ # "CONNECTING"
  <2>1. HandleWrite(connector) = [connector EXCEPT !.failed = "HandleWrite"]
    BY <1>1 DEF HandleWrite
  <2>. QED  BY <2>1, BrokenAfter
<1>2. CASE connector.status_ = "CONNECTING"
  <2>1. HandleWrite(connector) = RemoveAndResetChannel(connector, "HandleWrite")
    BY <1>2 DEF HandleWrite
  <2>. QED  BY <1>2, <2>1, IdlingState, RemovedAfter
<1>. QED  BY <1>1, <1>2

\* Retry().
LEMMA RetryAfter ==
    ASSUME Idling, NEW sockfd \in Fd \cup {NoFd}, NewConnection(Retry(connector, sockfd))
    PROVE  /\ Typed /\ Running /\ UNCHANGED <<task_, connection_>> /\ failed' = ""
           /\ connector'.status_ = "DISCONNECTED"
           /\ connector'.rest = IF connector.connect_ THEN "StartInLoop" ELSE ""
           /\ \A fd \in Fd :
                  /\ connector'.socket[fd] = IF fd = sockfd THEN "none" ELSE connector.socket[fd]
                  /\ connector'.list[fd] = connector.list[fd]
<1>. DEFINE r == Retry(connector, sockfd)
<1>0. connector \in State /\ connector.queued = <<>> /\ connector.handed = NoFd
      /\ connector.failed = ""
  BY IdlingState
<1>1. /\ r \in State /\ r.connect_ = connector.connect_ /\ r.status_ = "DISCONNECTED"
      /\ \A fd \in Fd : r.socket[fd] = IF fd = sockfd THEN "none" ELSE connector.socket[fd]
      /\ r.list = connector.list /\ r.queued = connector.queued
      /\ r.handed = connector.handed /\ r.failed = connector.failed
      /\ r.rest = IF connector.connect_ THEN "StartInLoop" ELSE ""
  BY <1>0, RetryFields
<1>2. NewConnection(r)  OBVIOUS
<1>. HIDE DEF r
<1>3. /\ Typed /\ UNCHANGED connection_ /\ failed' = r.failed
      /\ connector'.connect_ = r.connect_ /\ connector'.status_ = r.status_
      /\ connector'.socket = r.socket
      /\ connector'.rest = r.rest /\ connector'.failed = r.failed
      /\ \A f \in Fd : connector'.list[f] = r.list[f]
      /\ r.queued = <<>> => task_' = task_
  BY <1>0, <1>1, <1>2, PlainAfter
<1>4. \A f \in Fd : connector'.list[f] = connector.list[f]  BY <1>1, <1>3
<1>. QED  BY <1>0, <1>1, <1>3, <1>4 DEF Running

\* StartInLoop(): FATAL unless DISCONNECTED, and else nothing, an attempt or another try.
LEMMA StartInLoopAfter ==
    ASSUME Idling, connector.rest = "", NEW answer \in Answer,
           NewConnection(StartInLoop(connector, answer))
    PROVE  /\ Typed
           /\ \/ failed' = "StartInLoop" /\ connector.status_ # "DISCONNECTED"
              \/ connector.status_ = "DISCONNECTED" /\ (Idle \/ Attempted \/ Repeated)
<1>. DEFINE s == connector
<1>0. s \in State /\ s.queued = <<>> /\ s.handed = NoFd /\ s.failed = ""  BY IdlingState
<1>1. CASE s.status_ # "DISCONNECTED"
  <2>1. StartInLoop(s, answer) = [s EXCEPT !.failed = "StartInLoop"]  BY <1>1 DEF StartInLoop
  <2>. QED  BY <1>1, <2>1, BrokenAfter
<1>2. CASE s.status_ = "DISCONNECTED" /\ ~s.connect_
  <2>1. StartInLoop(s, answer) = s  BY <1>2 DEF StartInLoop
  <2>. QED  BY <1>2, <2>1, IdleAfter
<1>3. CASE s.status_ = "DISCONNECTED" /\ s.connect_
  <2>. DEFINE fd == Lowest(Fresh(s))
  <2>1. StartInLoop(s, answer) = Connect(s, answer)  BY <1>3 DEF StartInLoop
  <2>2. OnlyAt(s, {}) /\ s.socket \in [Fd -> SocketState]
    BY <1>0, <1>3, StateFields DEF Idling, Shape
  <2>3. fd \in Fd
    <3>1. Fresh(s) = Fd  BY <2>2 DEF Fresh, OnlyAt
    <3>2. PICK n \in Fd : \A m \in Fd : n <= m  BY LowestFd
    <3>. QED  BY <3>1, <3>2 DEF Lowest
  <2>. HIDE DEF fd
  \* The descriptor is not closed, or connect() and SO_ERROR say nothing.
  <2>4. ASSUME NEW t \in State, t.list = s.list, t.connect_ = s.connect_, t.queued = <<>>,
               t.rest = s.rest, t.handed = NoFd, t.failed = "",
               \A f \in Fd \ {fd} : t.socket[f] = "none", NewConnection(Connecting(t, fd))
        PROVE  Typed /\ Attempted
    <3>. DEFINE r == Connecting(t, fd)
    <3>1. /\ r \in State /\ r.connect_ = t.connect_ /\ r.status_ = "CONNECTING"
          /\ r.channel_ = fd /\ r.socket = t.socket /\ r.list[fd] = "connector"
          /\ \A f \in Fd \ {fd} : t.list[f] = "nobody" => r.list[f] = "nobody"
          /\ r.queued = t.queued /\ r.rest = t.rest /\ r.handed = t.handed
          /\ r.failed = t.failed
      BY <2>3, ConnectingFields
    <3>2. NewConnection(r)  BY <2>4
    <3>. HIDE DEF r
    <3>3. /\ Typed /\ UNCHANGED connection_ /\ failed' = r.failed
          /\ connector'.connect_ = r.connect_ /\ connector'.status_ = r.status_
          /\ connector'.channel_ = r.channel_ /\ connector'.socket = r.socket
          /\ connector'.rest = r.rest /\ connector'.failed = r.failed
          /\ \A f \in Fd : connector'.list[f] = r.list[f]
          /\ r.queued = <<>> => task_' = task_
      BY <2>4, <3>1, <3>2, PlainAfter
    <3>4. OnlyAt(connector', {fd})
      <4>1. \A f \in Fd \ {fd} : t.list[f] = "nobody"  BY <2>2, <2>4 DEF OnlyAt
      <4>2. \A f \in Fd \ {fd} : connector'.list[f] = "nobody"  BY <3>1, <3>3, <4>1
      <4>3. \A f \in Fd \ {fd} : connector'.socket[f] = "none"
        <5>1. connector'.socket = t.socket  BY <3>1, <3>3
        <5>. QED  BY <2>4, <5>1
      <4>. QED  BY <4>2, <4>3 DEF OnlyAt
    <3>5. connector'.channel_ = fd /\ connector'.list[fd] = "connector"  BY <2>3, <3>1, <3>3
    <3>6. connector'.rest = "" /\ connector'.connect_ = s.connect_ /\ connector'.failed = ""
          /\ connector'.status_ = "CONNECTING" /\ task_' = task_ /\ failed' = ""
      BY <2>4, <3>1, <3>3
    <3>. QED  BY <1>3, <2>3, <3>3, <3>4, <3>5, <3>6 DEF Attempted, Running
  <2>5. CASE answer \in {"pending", "open", "unroutable"}
    <3>. DEFINE t == [s EXCEPT !.socket[fd] = answer]
    <3>1. answer \in SocketState  BY <2>5 DEF SocketState
    <3>2. Same(t, s) /\ t.list = s.list
          /\ \A f \in Fd : t.socket[f] = IF f = fd THEN answer ELSE s.socket[f]
      BY <1>0, <2>3, <3>1, SocketFields
    <3>3. NewConnection(Connecting(t, fd))  BY <2>1, <2>5 DEF Connect, fd
    <3>. HIDE DEF t
    <3>4. \A f \in Fd \ {fd} : t.socket[f] = "none"  BY <2>2, <3>2 DEF OnlyAt
    <3>. QED  BY <1>0, <1>3, <2>4, <3>2, <3>3, <3>4 DEF Same
  <2>6. CASE answer = "failed"
    <3>1. NewConnection(Connecting(s, fd))  BY <2>1, <2>6 DEF Connect, fd
    <3>2. \A f \in Fd \ {fd} : s.socket[f] = "none"  BY <2>2 DEF OnlyAt
    <3>. QED  BY <1>0, <1>3, <2>4, <3>1, <3>2
  <2>7. CASE answer = "ECONNREFUSED"
    <3>1. NewConnection(Retry(s, fd)) /\ fd \in Fd \cup {NoFd}
      BY <2>1, <2>3, <2>7 DEF Connect, fd
    <3>2. /\ Typed /\ Running /\ UNCHANGED <<task_, connection_>> /\ failed' = ""
          /\ connector'.status_ = "DISCONNECTED"
          /\ connector'.rest = IF s.connect_ THEN "StartInLoop" ELSE ""
          /\ \A f \in Fd :
                 /\ connector'.socket[f] = IF f = fd THEN "none" ELSE s.socket[f]
                 /\ connector'.list[f] = s.list[f]
      BY <3>1, RetryAfter
    <3>3. OnlyAt(connector', {})  BY <2>2, <3>2 DEF OnlyAt
    <3>. QED  BY <1>3, <3>2, <3>3 DEF Repeated
  <2>8. CASE answer = "EACCES"
    <3>1. StartInLoop(s, answer) = s  BY <2>1, <2>8 DEF Connect
    <3>. QED  BY <1>3, <3>1, IdleAfter
  <2>. QED  BY <1>3, <2>5, <2>6, <2>7, <2>8 DEF Answer
<1>. QED  BY <1>1, <1>2, <1>3

\* ResetChannel().
LEMMA ResetChannelAfter ==
    ASSUME Idling, NewConnection(ResetChannel(connector))
    PROVE  Typed /\ Reset
<1>. DEFINE s == connector
            r == ResetChannel(s)
<1>1. /\ r \in State /\ r.connect_ = s.connect_ /\ r.status_ = s.status_
      /\ r.channel_ = NoFd /\ r.socket = s.socket
      /\ \A fd \in Fd : r.list[fd] =
             IF fd = s.channel_ /\ s.list[fd] = "connector" THEN "destroyed" ELSE s.list[fd]
      /\ r.queued = s.queued /\ r.rest = s.rest /\ r.handed = s.handed /\ r.failed = s.failed
  BY IdlingState, ResetFields
<1>2. NewConnection(r)  OBVIOUS
<1>. HIDE DEF r
<1>3. /\ Typed /\ UNCHANGED connection_ /\ failed' = r.failed
      /\ connector'.connect_ = r.connect_ /\ connector'.status_ = r.status_
      /\ connector'.channel_ = r.channel_ /\ connector'.socket = r.socket
      /\ connector'.rest = r.rest /\ connector'.failed = r.failed
      /\ \A f \in Fd : connector'.list[f] = r.list[f]
      /\ r.queued = <<>> => task_' = task_
  BY <1>1, <1>2, IdlingState, PlainAfter
<1>4. connector'.failed = "" /\ failed' = "" /\ task_' = task_  BY <1>1, <1>3, IdlingState
<1>5. \A fd \in Fd : connector'.list[fd] =
          IF fd = s.channel_ /\ s.list[fd] = "connector" THEN "destroyed" ELSE s.list[fd]
  BY <1>1, <1>3
<1>. QED  BY <1>1, <1>3, <1>4, <1>5 DEF Reset, Running

\* A method that goes on gives the attempt up, makes the connection or queues another try.
LEMMA RestAfter ==
    ASSUME Idling, connector.rest # "", NewConnection(Rest(connector))
    PROVE  Typed /\ (Retried \/ Made \/ Requeued)
<1>. DEFINE s == connector
            ch == connector.channel_
<1>0. s \in State /\ s.queued = <<>> /\ s.handed = NoFd /\ s.failed = "" /\ ch \in Fd \cup {NoFd}
  BY IdlingState
<1>a. s.rest \in {"Retry", "HandleWrite"} =>
          ch \in Fd /\ OnlyAt(s, {ch}) /\ s.list[ch] = "nobody" /\ connection_ = NoFd
  BY DEF Idling, Shape
<1>b. s.socket \in [Fd -> SocketState] /\ s.list \in [Fd -> Entry] /\ s.connect_ \in BOOLEAN
  BY <1>0, StateFields
<1>1. ASSUME s.rest \in {"Retry", "HandleWrite"}, NewConnection(Retry(s, ch))
      PROVE  Typed /\ Retried
  <2>1. ch \in Fd \cup {NoFd} /\ NewConnection(Retry(s, ch))  BY <1>0, <1>1
  <2>2. /\ Typed /\ Running /\ UNCHANGED <<task_, connection_>> /\ failed' = ""
        /\ connector'.status_ = "DISCONNECTED"
        /\ connector'.rest = IF s.connect_ THEN "StartInLoop" ELSE ""
        /\ \A fd \in Fd :
               /\ connector'.socket[fd] = IF fd = ch THEN "none" ELSE s.socket[fd]
               /\ connector'.list[fd] = s.list[fd]
    BY <2>1, RetryAfter
  <2>3. OnlyAt(connector', {})
    <3>1. \A f \in Fd : s.list[f] = "nobody" /\ (f # ch => s.socket[f] = "none")
      BY <1>1, <1>a DEF OnlyAt
    <3>. QED  BY <2>2, <3>1 DEF OnlyAt
  <2>. QED  BY <1>1, <2>2, <2>3 DEF Retried
<1>2. CASE s.rest = "Retry"
  <2>1. Rest(s) = Retry(s, ch)  BY <1>2 DEF Rest
  <2>. QED  BY <1>1, <1>2, <2>1
<1>3. CASE s.rest = "HandleWrite" /\ s.socket[ch] = "refused"
  <2>1. Rest(s) = Retry(s, ch)  BY <1>3, Zenon DEF Rest
  <2>. QED  BY <1>1, <1>3, <2>1
<1>4. CASE s.rest = "HandleWrite" /\ s.socket[ch] # "refused"
  <2>. DEFINE done == [s EXCEPT !.status_ = "CONNECTED", !.rest = ""]
              r == IF s.connect_ THEN [done EXCEPT !.handed = ch]
                   ELSE [done EXCEPT !.socket[ch] = "none"]
  <2>1. Rest(s) = r  BY <1>4, Zenon DEF Rest
  <2>2. /\ done \in State /\ done.connect_ = s.connect_ /\ done.status_ = "CONNECTED"
        /\ done.rest = "" /\ done.socket = s.socket /\ done.list = s.list
        /\ done.queued = <<>> /\ done.handed = NoFd /\ done.failed = ""
    BY <1>0, StateFields DEF State
  <2>. HIDE DEF done
  <2>3. /\ r \in State /\ r.connect_ = s.connect_ /\ r.status_ = "CONNECTED"
        /\ r.rest = "" /\ r.list = s.list /\ r.queued = <<>> /\ r.failed = ""
        /\ r.handed = IF s.connect_ THEN ch ELSE NoFd
        /\ r.socket = IF s.connect_ THEN s.socket ELSE [s.socket EXCEPT ![ch] = "none"]
    BY <1>0, <1>b, <2>2, StateFields DEF State, SocketState
  <2>4. NewConnection(r)  BY <2>1
  <2>. HIDE DEF r
  <2>5. /\ connector'.connect_ = r.connect_ /\ connector'.status_ = r.status_
        /\ connector'.socket = r.socket
        /\ connector'.rest = r.rest /\ connector'.failed = r.failed
        /\ \A fd \in Fd :
               connector'.list[fd] = IF fd = r.handed THEN "connection" ELSE r.list[fd]
        /\ task_' = task_ \o r.queued
        /\ connection_' = (IF r.handed = NoFd THEN connection_ ELSE r.handed)
        /\ failed' = (IF r.handed # NoFd /\ life \in Destroyed THEN "client" ELSE r.failed)
    BY <2>3, <2>4, NewConnectionFields
  <2>6. connection_' = r.handed  BY <1>4, <1>a, <2>5
  <2>7. ch \in Fd /\ \A fd \in Fd : s.list[fd] = "nobody" /\ (fd # ch => s.socket[fd] = "none")
    BY <1>4, <1>a DEF OnlyAt
  <2>8. OnlyAt(connector', {connection_'})
    <3>1. CASE s.connect_
      <4>1. r.handed = ch /\ r.socket = s.socket  BY <2>3, <3>1
      <4>2. \A fd \in Fd : connector'.socket[fd] = s.socket[fd]  BY <2>5, <4>1
      <4>3. \A fd \in Fd : fd # ch => connector'.list[fd] = s.list[fd]  BY <2>3, <2>5, <4>1
      <4>. QED  BY <2>6, <2>7, <4>1, <4>2, <4>3 DEF OnlyAt
    <3>2. CASE ~s.connect_
      <4>1. r.handed = NoFd /\ r.socket = [s.socket EXCEPT ![ch] = "none"]  BY <2>3, <3>2
      <4>2. \A fd \in Fd : r.socket[fd] = "none"  BY <1>b, <2>7, <4>1
      <4>3. \A fd \in Fd : connector'.list[fd] = "nobody"
        <5>1. \A fd \in Fd : connector'.list[fd] = r.list[fd]  BY <2>5, <4>1, NoFdNone
        <5>2. \A fd \in Fd : r.list[fd] = "nobody"  BY <2>3, <2>7
        <5>. QED  BY <5>1, <5>2
      <4>. QED  BY <2>5, <4>2, <4>3 DEF OnlyAt
    <3>. QED  BY <3>1, <3>2
  <2>9. \A fd \in Fd : fd = connection_' => connector'.list[fd] = "connection"  BY <2>5, <2>6
  <2>10. task_' = task_  BY <2>3, <2>5, IdlingState, QueueConcat
  <2>11. connection_' # NoFd => s.connect_  BY <2>3, <2>6
  <2>12. failed' = IF connection_' # NoFd /\ life \in Destroyed THEN "client" ELSE ""
    BY <2>3, <2>5, <2>6
  <2>13. Typed  BY <2>3, <2>4, TypedAfter
  <2>14. connector'.connect_ = s.connect_ /\ connector'.failed = ""
         /\ connector'.status_ = "CONNECTED" /\ connector'.rest = ""
    BY <2>3, <2>5
  <2>15. Made  BY <1>4, <2>8, <2>9, <2>10, <2>11, <2>12, <2>14 DEF Made, Running
  <2>. QED  BY <2>13, <2>15
<1>5. CASE s.rest = "StartInLoop"
  <2>. DEFINE r == [s EXCEPT !.queued = Append(@, "StartInLoop"), !.rest = ""]
  <2>1. Rest(s) = r  BY <1>5, Zenon DEF Rest
  <2>2. Append(<<>>, "StartInLoop") \in Seq({"StartInLoop", "ResetChannel"})  BY ShortQueue
  <2>3. /\ r \in State /\ r.connect_ = s.connect_ /\ r.status_ = s.status_
        /\ r.channel_ = s.channel_ /\ r.socket = s.socket /\ r.list = s.list
        /\ r.queued = Append(<<>>, "StartInLoop") /\ r.rest = "" /\ r.handed = NoFd
        /\ r.failed = ""
    BY <1>0, <2>2, StateFields DEF State
  <2>4. NewConnection(r)  BY <2>1
  <2>. HIDE DEF r
  <2>5. /\ Typed /\ UNCHANGED connection_ /\ failed' = r.failed
        /\ connector'.connect_ = r.connect_ /\ connector'.status_ = r.status_
        /\ connector'.socket = r.socket
        /\ connector'.rest = r.rest /\ connector'.failed = r.failed
        /\ \A f \in Fd : connector'.list[f] = r.list[f]
        /\ \A x \in Task : r.queued = Append(<<>>, x) => task_' = Append(task_, x)
    BY <2>3, <2>4, PlainAfter
  <2>6. task_' = Append(task_, "StartInLoop")  BY <2>3, <2>5, TaskNames
  <2>. QED  BY <1>5, <2>3, <2>5, <2>6 DEF Requeued, Running
<1>. QED  BY <1>2, <1>3, <1>4, <1>5, IdlingState

-----------------------------------------------------------------------------
(* What the actions come to.                                                *)

\* A task of the connector's, by its name and by how it ends.
LEMMA TaskMoves ==
    ASSUME Idling, connector.rest = "", NEW answer \in Answer, RunConnectorTask(answer)
    PROVE  /\ Typed
           /\ \/ /\ Head(batch) = "StartInLoop"
                 /\ \/ failed' = "StartInLoop" /\ connector.status_ # "DISCONNECTED"
                    \/ connector.status_ = "DISCONNECTED" /\ (Idle \/ Attempted \/ Repeated)
              \/ Head(batch) = "StopInLoop" /\ (Idle \/ Removed \/ (Doomed /\ failed' = "channel"))
              \/ Head(batch) = "ResetChannel" /\ Reset
<1>1. CASE Head(batch) = "StartInLoop"
  <2>1. NewConnection(StartInLoop(connector, answer))  BY <1>1 DEF RunConnectorTask
  <2>. QED  BY <1>1, <2>1, StartInLoopAfter
<1>2. CASE Head(batch) = "StopInLoop"
  <2>1. NewConnection(StopInLoop(connector))  BY <1>2, Zenon DEF RunConnectorTask
  <2>. QED  BY <1>2, <2>1, StopInLoopAfter
<1>3. CASE Head(batch) = "ResetChannel"
  <2>1. NewConnection(ResetChannel(connector))  BY <1>3, Zenon DEF RunConnectorTask
  <2>. QED  BY <1>3, <2>1, ResetChannelAfter
<1>4. Head(batch) \in Task \ ConnectionTask
  BY HeadTailProperties DEF RunConnectorTask, Idling, TypeOK
<1>. QED  BY <1>1, <1>2, <1>3, <1>4 DEF Task, ConnectionTask

\* An event, by its name and by how it ends.
LEMMA EventMoves ==
    ASSUME Idling, connector.rest = "", HandleEvent
    PROVE  LET fd == Head(active)[1]
           IN  \/ /\ connector.list[fd] = "destroyed"
                  /\ failed' = IF fd = connection_ THEN "connection" ELSE "channel"
                  /\ UNCHANGED <<connector, connection_, task_>>
               \/ Head(active)[2] = "close" /\ Closed(fd) /\ UNCHANGED connection_
               \/ /\ Typed
                  /\ Idle \/ Removed \/ (Doomed /\ failed' = "channel") \/ failed' = "HandleWrite"
<1>. DEFINE fd == Head(active)[1]
<1>1. CASE connector.list[fd] = "destroyed"  BY <1>1 DEF HandleEvent
<1>2. CASE connector.list[fd] # "destroyed" /\ Head(active)[2] = "close"
  BY <1>2 DEF HandleEvent
<1>3. CASE connector.list[fd] # "destroyed" /\ Head(active)[2] = "error"
  <2>1. NewConnection(HandleError(connector))  BY <1>3, Zenon DEF HandleEvent
  <2>. QED  BY <2>1, HandleErrorAfter
<1>4. CASE connector.list[fd] # "destroyed" /\ Head(active)[2] \notin {"close", "error"}
  <2>1. NewConnection(HandleWrite(connector))  BY <1>4, Zenon DEF HandleEvent
  <2>. QED  BY <2>1, HandleWriteAfter
<1>. QED  BY <1>1, <1>2, <1>3, <1>4

\* The event that is handled.
LEMMA HandledEvent ==
    ASSUME TypeOK, HandleEvent
    PROVE  /\ Head(active)[1] \in Fd /\ Head(active) = active[1] /\ 1 \in 1..Len(active)
           /\ Tail(active) \in Seq(Fd \X {"error", "write", "close"})
           /\ \A i \in 1..Len(Tail(active)) :
                  i + 1 \in 1..Len(active) /\ Tail(active)[i] = active[i + 1]
<1>1. active \in Seq(Fd \X {"error", "write", "close"}) /\ active # <<>>
  BY DEF TypeOK, HandleEvent
<1>2. Head(active) \in Fd \X {"error", "write", "close"} /\ Head(active) = active[1]
      /\ Tail(active) \in Seq(Fd \X {"error", "write", "close"})
      /\ Len(active) \in Nat /\ Len(active) > 0 /\ Len(Tail(active)) = Len(active) - 1
      /\ \A i \in 1..Len(Tail(active)) : Tail(active)[i] = active[i + 1]
  BY <1>1, HeadTailProperties, LenProperties, EmptySeq
<1>3. 1 \in 1..Len(active) /\ \A i \in 1..Len(Tail(active)) : i + 1 \in 1..Len(active)
  BY <1>2
<1>. QED  BY <1>2, <1>3

\* What all other steps leave of the connector: connect_ may have changed, and what there is
\* at the connection's descriptor.
Touched ==
    /\ connector' \in State /\ connector'.queued = <<>> /\ connector'.handed = NoFd
    /\ connector'.failed = connector.failed /\ connector'.status_ = connector.status_
    /\ connector'.channel_ = connector.channel_ /\ connector'.rest = connector.rest
    /\ UNCHANGED connection_
    /\ \A fd \in Fd :
           /\ \/ connector'.list[fd] = connector.list[fd]
              \/ connection_ # NoFd /\ connector'.list[fd] = "nobody"
              \/ fd = connection_ /\ connector'.list[fd] = "destroyed"
                 /\ connector.list[fd] = "connection"
           /\ connector.socket[fd] = "none" => connector'.socket[fd] = "none"

\* The ways to change it.
LEMMA TouchedWhen ==
    ASSUME TypeOK, UNCHANGED connection_
    PROVE  /\ UNCHANGED connector => Touched
           /\ \A b \in BOOLEAN : connector' = [connector EXCEPT !.connect_ = b] =>
                  Touched /\ connector'.connect_ = b
                  /\ \A fd \in Fd : connector'.list[fd] = connector.list[fd]
           /\ \A fd \in Fd :
                  connection_ # NoFd /\ connector' = [connector EXCEPT !.list[fd] = "nobody"] =>
                      /\ Touched /\ connector'.connect_ = connector.connect_
                      /\ \A f \in Fd : connector'.list[f] =
                             IF f = fd THEN "nobody" ELSE connector.list[f]
           /\ connector' = Died(connector) => Touched /\ connector'.connect_ = connector.connect_
           /\ \A fd \in Fd, x \in SocketState :
                  connector.socket[fd] # "none" /\ connector' = [connector EXCEPT !.socket[fd] = x] =>
                      /\ Touched /\ connector'.connect_ = connector.connect_
                      /\ connector'.list = connector.list
<1>0. connector \in State /\ connector.queued = <<>> /\ connector.handed = NoFd
      /\ connection_ \in Fd \cup {NoFd}
  BY DEF TypeOK
<1>1. UNCHANGED connector => Touched  BY <1>0 DEF Touched
<1>2. ASSUME NEW b \in BOOLEAN, connector' = [connector EXCEPT !.connect_ = b]
      PROVE  /\ Touched /\ connector'.connect_ = b
             /\ \A fd \in Fd : connector'.list[fd] = connector.list[fd]
  <2>. DEFINE r == [connector EXCEPT !.connect_ = b]
  <2>1. /\ r \in State /\ r.connect_ = b /\ r.status_ = connector.status_
        /\ r.channel_ = connector.channel_ /\ r.socket = connector.socket
        /\ r.list = connector.list /\ r.queued = connector.queued
        /\ r.rest = connector.rest /\ r.handed = connector.handed /\ r.failed = connector.failed
    BY <1>0, WantedFields
  <2>2. connector' = r  BY <1>2
  <2>. HIDE DEF r
  <2>. QED  BY <1>0, <2>1, <2>2 DEF Touched
<1>3. ASSUME NEW fd \in Fd, connection_ # NoFd, connector' = [connector EXCEPT !.list[fd] = "nobody"]
      PROVE  /\ Touched /\ connector'.connect_ = connector.connect_
             /\ \A f \in Fd : connector'.list[f] = IF f = fd THEN "nobody" ELSE connector.list[f]
  <2>. DEFINE r == [connector EXCEPT !.list[fd] = "nobody"]
  <2>1. "nobody" \in Entry /\ fd \in Fd \cup {NoFd}  BY DEF Entry
  <2>2. /\ Same(r, connector) /\ r.socket = connector.socket
        /\ \A f \in Fd : r.list[f] = IF f = fd THEN "nobody" ELSE connector.list[f]
    BY <1>0, <2>1, EntryFields
  <2>3. connector' = r  BY <1>3
  <2>. HIDE DEF r
  <2>. QED  BY <1>0, <1>3, <2>2, <2>3 DEF Touched, Same
<1>4. ASSUME connector' = Died(connector)
      PROVE  Touched /\ connector'.connect_ = connector.connect_
  <2>. DEFINE r == Died(connector)
  <2>1. /\ Same(r, connector)
        /\ \A f \in Fd :
               /\ r.socket[f] = IF f = connection_ THEN "none" ELSE connector.socket[f]
               /\ r.list[f] = IF f = connection_ /\ connector.list[f] = "connection"
                              THEN "destroyed" ELSE connector.list[f]
    BY <1>0, DiedFields
  <2>2. connector' = r  BY <1>4
  <2>. HIDE DEF r
  <2>. QED  BY <1>0, <2>1, <2>2 DEF Touched, Same
<1>5. ASSUME NEW fd \in Fd, NEW x \in SocketState, connector.socket[fd] # "none",
             connector' = [connector EXCEPT !.socket[fd] = x]
      PROVE  /\ Touched /\ connector'.connect_ = connector.connect_
             /\ connector'.list = connector.list
  <2>. DEFINE r == [connector EXCEPT !.socket[fd] = x]
  <2>1. /\ Same(r, connector) /\ r.list = connector.list
        /\ \A f \in Fd : r.socket[f] = IF f = fd THEN x ELSE connector.socket[f]
    BY <1>0, SocketFields
  <2>2. connector' = r  BY <1>5
  <2>. HIDE DEF r
  <2>. QED  BY <1>0, <1>5, <2>1, <2>2 DEF Touched, Same
<1>. QED  BY <1>1, <1>2, <1>3, <1>4, <1>5

\* The steps that are no method of the connector.
LEMMA OtherMoves ==
    ASSUME Idling, Rounds, Next, failed = "",
           ~GoOn,
           HandleEvent /\ connector.rest = "" =>
               \/ UNCHANGED <<connector, connection_>>
               \/ /\ Head(active)[2] = "close" /\ Closed(Head(active)[1])
                  /\ UNCHANGED connection_,
           ~ \E answer \in Answer : connector.rest = "" /\ RunConnectorTask(answer)
    PROVE  Touched
<1>0. TypeOK /\ connector \in State /\ connection_ \in Fd \cup {NoFd}
  BY IdlingState DEF Idling
<1>a. TRUE \in BOOLEAN /\ FALSE \in BOOLEAN  OBVIOUS
<1>1. ASSUME NEW t \in Thread, Start(t) \/ Stop(t) PROVE Touched
  BY <1>0, <1>1, <1>a, TouchedWhen DEF Start, Stop
<1>2. CASE DestroyConnecting
  <2>1. UNCHANGED connection_  BY <1>2 DEF DestroyConnecting
  <2>2. connector' = [connector EXCEPT !.connect_ = FALSE] \/ connector' = Died(connector)
    BY <1>2 DEF DestroyConnecting
  <2>. QED  BY <1>0, <1>a, <2>1, <2>2, TouchedWhen
<1>3. CASE DestroyInLoop
  <2>1. UNCHANGED connection_  BY <1>3 DEF DestroyInLoop
  <2>2. \/ connector' = [connector EXCEPT !.connect_ = FALSE]
        \/ connection_ # NoFd /\ connector' = [connector EXCEPT !.list[connection_] = "nobody"]
        \/ UNCHANGED connector
    BY <1>3 DEF DestroyInLoop
  <2>3. connection_ # NoFd => connection_ \in Fd  BY <1>0
  <2>. QED  BY <1>0, <1>a, <2>1, <2>2, <2>3, TouchedWhen
<1>4. CASE Release
  <2>1. UNCHANGED connection_ /\ (connector' = connector \/ connector' = Died(connector))
    BY <1>4 DEF Release
  <2>. QED  BY <1>0, <2>1, TouchedWhen
<1>5. CASE RunConnectionTask
  <2>1. UNCHANGED connection_  BY <1>5 DEF RunConnectionTask
  <2>2. CASE Head(batch) = "ForceCloseInLoop" /\ connector.list[connection_] = "connection"
    <3>1. connector' = [connector EXCEPT !.list[connection_] = "nobody"]
      BY <1>5, <2>2 DEF RunConnectionTask, Closed
    <3>2. Has(batch, "ForceCloseInLoop")
      <4>1. batch \in Seq(Task) /\ batch # <<>>  BY <1>0, <1>5 DEF TypeOK, RunConnectionTask
      <4>. QED  BY <2>2, <4>1, QueueTail
    <3>3. connection_ # NoFd /\ connection_ \in Fd  BY <1>0, <3>2 DEF Rounds
    <3>. QED  BY <1>0, <2>1, <3>1, <3>3, TouchedWhen
  <2>3. CASE ~(Head(batch) = "ForceCloseInLoop" /\ connector.list[connection_] = "connection")
    <3>1. connector' = connector \/ connector' = Died(connector)
      BY <1>5, <2>3 DEF RunConnectionTask
    <3>. QED  BY <1>0, <2>1, <3>1, TouchedWhen
  <2>. QED  BY <2>2, <2>3
<1>6. CASE HandleEvent /\ connector.rest = ""
  <2>1. CASE UNCHANGED <<connector, connection_>>  BY <1>0, <2>1, TouchedWhen
  <2>2. CASE Head(active)[2] = "close" /\ Closed(Head(active)[1]) /\ UNCHANGED connection_
    <3>1. Head(active)[1] \in Fd /\ connection_ # NoFd
      BY <1>0, <1>6, <2>2, HandledEvent DEF Rounds
    <3>2. connector' = [connector EXCEPT !.list[Head(active)[1]] = "nobody"]
      BY <2>2 DEF Closed
    <3>. QED  BY <1>0, <2>2, <3>1, <3>2, TouchedWhen
  <2>. QED  BY <1>6, <2>1, <2>2
<1>7. ASSUME NEW fd \in Fd, Network(fd) PROVE Touched
  <2>1. /\ UNCHANGED connection_ /\ connector.socket[fd] # "none"
        /\ \E x \in SocketState : connector' = [connector EXCEPT !.socket[fd] = x]
    BY <1>7 DEF Network, SocketState
  <2>. QED  BY <1>0, <2>1, TouchedWhen
<1>8. CASE UNCHANGED <<connector, connection_>>  BY <1>0, <1>8, TouchedWhen
<1>. QED
  BY <1>1, <1>2, <1>3, <1>4, <1>5, <1>6, <1>7, <1>8
  DEF Next, LoopStep, UserStep, DestroyStep, QueueInLoop, Connection, Destroy, DestroyConnected,
      Poll, DoPendingTask

\* Nothing happens any more once something has failed.
LEMMA NextRunning == Next => failed = ""
BY DEF Next, LoopStep, UserStep, DestroyStep

\* Every step is a method of the connector, or leaves it but for what Touched says.
LEMMA Steps ==
    ASSUME IInv, Next
    PROVE  /\ Idling /\ Shape /\ Rounds /\ OneStart /\ failed = ""
           /\ stops = 0 => NeverStopped
           /\ starts <= 1 => StartedOnce
           /\ \/ /\ Touched /\ ~GoOn
                 /\ HandleEvent /\ connector.rest = "" =>
                        \/ UNCHANGED <<connector, connection_, task_>>
                        \/ /\ Head(active)[2] = "close" /\ Closed(Head(active)[1])
                           /\ UNCHANGED connection_
                 /\ ~ \E answer \in Answer : connector.rest = "" /\ RunConnectorTask(answer)
              \/ /\ UNCHANGED <<held, close_callback_, life, call, starts, stops>> /\ Typed
                 /\ \/ GoOn /\ (Retried \/ Made \/ Requeued)
                    \/ /\ HandleEvent /\ connector.rest = ""
                       /\ \/ Idle \/ Removed \/ (Doomed /\ failed' = "channel")
                          \/ failed' = "HandleWrite"
                    \/ /\ \E answer \in Answer : RunConnectorTask(answer)
                       /\ connector.rest = ""
                       /\ \/ /\ Head(batch) = "StartInLoop"
                             /\ \/ failed' = "StartInLoop" /\ connector.status_ # "DISCONNECTED"
                                \/ /\ connector.status_ = "DISCONNECTED"
                                   /\ Idle \/ Attempted \/ Repeated
                          \/ /\ Head(batch) = "StopInLoop"
                             /\ Idle \/ Removed \/ (Doomed /\ failed' = "channel")
                          \/ Head(batch) = "ResetChannel" /\ Reset
<1>1. failed = ""  BY NextRunning
<1>2. Idling /\ Shape /\ Rounds /\ OneStart
      /\ (stops = 0 => NeverStopped) /\ (starts <= 1 => StartedOnce)
  BY <1>1 DEF IInv, Idling
<1>3. ASSUME GoOn PROVE Typed /\ (Retried \/ Made \/ Requeued)
  BY <1>2, <1>3, RestAfter DEF GoOn
<1>4. ASSUME connector.rest = "", NEW answer \in Answer, RunConnectorTask(answer)
      PROVE  /\ Typed
             /\ \/ /\ Head(batch) = "StartInLoop"
                   /\ \/ failed' = "StartInLoop" /\ connector.status_ # "DISCONNECTED"
                      \/ connector.status_ = "DISCONNECTED" /\ (Idle \/ Attempted \/ Repeated)
                \/ /\ Head(batch) = "StopInLoop"
                   /\ Idle \/ Removed \/ (Doomed /\ failed' = "channel")
                \/ Head(batch) = "ResetChannel" /\ Reset
  BY <1>4, <1>2, TaskMoves
<1>5. ASSUME HandleEvent, connector.rest = "",
             ~(\/ UNCHANGED <<connector, connection_, task_>>
               \/ /\ Head(active)[2] = "close" /\ Closed(Head(active)[1])
                  /\ UNCHANGED connection_)
      PROVE  Typed /\ (Idle \/ Removed \/ (Doomed /\ failed' = "channel") \/ failed' = "HandleWrite")
  BY <1>5, <1>2, EventMoves
<1>6. ASSUME ~GoOn,
             HandleEvent /\ connector.rest = "" =>
                 \/ UNCHANGED <<connector, connection_, task_>>
                 \/ /\ Head(active)[2] = "close" /\ Closed(Head(active)[1])
                    /\ UNCHANGED connection_,
             ~ \E answer \in Answer : connector.rest = "" /\ RunConnectorTask(answer)
      PROVE  Touched
  BY <1>1, <1>2, <1>6, OtherMoves
<1>7. GoOn \/ HandleEvent \/ (\E answer \in Answer : RunConnectorTask(answer)) =>
          UNCHANGED <<held, close_callback_, life, call, starts, stops>>
  BY DEF GoOn, HandleEvent, RunConnectorTask
<1>. QED  BY <1>1, <1>2, <1>3, <1>4, <1>5, <1>6, <1>7

\* A call more, within its bound.
LEMMA OneMore ==
    ASSUME NEW n \in Nat, NEW k \in 0..n, k < n
    PROVE  k + 1 \in 0..n
OBVIOUS

\* What there is to report.
Event == Fd \X {"error", "write", "close"}

\* What is reported of a descriptor; "close" only of a connection's.
LEMMA ReportsType ==
    ASSUME NEW fd \in Fd
    PROVE  /\ Reports(fd) \in Seq(Event)
           /\ connector.list[fd] # "connection" => Reports(fd) \in Seq(Fd \X {"error", "write"})
<1>1. /\ <<>> \in Seq(Event) /\ <<<<fd, "close">>>> \in Seq(Event)
      /\ <<<<fd, "error">>, <<fd, "write">>>> \in Seq(Event) /\ <<<<fd, "write">>>> \in Seq(Event)
      /\ <<<<fd, "error">>>> \in Seq(Event)
  BY DEF Event
<1>2. LET X == Fd \X {"error", "write"}
      IN  <<>> \in Seq(X) /\ <<<<fd, "error">>, <<fd, "write">>>> \in Seq(X)
          /\ <<<<fd, "write">>>> \in Seq(X) /\ <<<<fd, "error">>>> \in Seq(X)
  OBVIOUS
<1>3. Reports(fd) \in {<<>>, <<<<fd, "close">>>>, <<<<fd, "error">>, <<fd, "write">>>>,
                       <<<<fd, "write">>>>, <<<<fd, "error">>>>}
  BY Zenon DEF Reports
<1>4. connector.list[fd] # "connection" =>
          Reports(fd) \in {<<>>, <<<<fd, "error">>, <<fd, "write">>>>, <<<<fd, "write">>>>,
                           <<<<fd, "error">>>>}
  BY Zenon DEF Reports
<1>. QED  BY <1>1, <1>2, <1>3, <1>4, Zenon

\* Every step keeps the types.
LEMMA TypeStep ==
    ASSUME IInv, Next
    PROVE  TypeOK'
<1>. USE TaskNames
<1>0. TypeOK  BY DEF IInv
<1>a. task_ \in Seq(Task) /\ batch \in Seq(Task) /\ connection_ \in Fd \cup {NoFd}
      /\ active \in Seq(Event)
  BY <1>0 DEF TypeOK, Event
<1>b. \A x \in Task : Append(task_, x) \in Seq(Task)  BY <1>a, AppendProperties
<1>c. starts \in 0..MaxStart /\ stops \in 0..MaxStop /\ MaxStart \in Nat /\ MaxStop \in Nat
  BY <1>0, CallAssumption DEF TypeOK
<1>d. batch # <<>> => Tail(batch) \in Seq(Task)  BY <1>a, HeadTailProperties
<1>e. /\ connector' \in State /\ connector'.queued = <<>> /\ connector'.handed = NoFd
      /\ connection_' \in Fd \cup {NoFd}
  <2>1. Touched \/ Typed  BY Steps
  <2>. QED  BY <1>a, <2>1 DEF Touched, Typed
<1>1. ASSUME NEW t \in Thread, Start(t) PROVE TypeOK'
  <2>1. starts' \in 0..MaxStart
    <3>1. starts < MaxStart /\ starts' = starts + 1  BY <1>1 DEF Start
    <3>. QED  BY <1>c, <3>1, OneMore
  <2>. QED  BY <1>0, <1>1, <1>e, <2>1 DEF Start, TypeOK, loop
<1>2. ASSUME NEW t \in Thread, Stop(t) PROVE TypeOK'
  <2>1. stops' \in 0..MaxStop
    <3>1. stops < MaxStop /\ stops' = stops + 1  BY <1>2 DEF Stop
    <3>. QED  BY <1>c, <3>1, OneMore
  <2>. QED  BY <1>0, <1>2, <1>e, <2>1 DEF Stop, TypeOK, loop
<1>3. ASSUME NEW t \in Thread, QueueInLoop(t) PROVE TypeOK'
  <2>1. task_' \in Seq(Task)  BY <1>3, <1>b DEF QueueInLoop
  <2>. QED  BY <1>0, <1>3, <1>e, <2>1 DEF QueueInLoop, TypeOK
<1>4. CASE Connection \/ Release  BY <1>0, <1>4, <1>e DEF Connection, Release, TypeOK, loop
<1>5. CASE Destroy  BY <1>0, <1>5, <1>e DEF Destroy, TypeOK, loop
<1>6. CASE DestroyConnected
  <2>1. task_' \in Seq(Task)  BY <1>6, <1>a, <1>b DEF DestroyConnected
  <2>. QED  BY <1>0, <1>6, <1>e, <2>1 DEF DestroyConnected, TypeOK, Destroyed
<1>7. CASE DestroyConnecting
  <2>1. task_' \in Seq(Task)  BY <1>7, <1>a, <1>b DEF DestroyConnecting
  <2>. QED  BY <1>0, <1>7, <1>e, <2>1 DEF DestroyConnecting, TypeOK, Destroyed
<1>8. CASE DestroyInLoop
  <2>1. task_' \in Seq(Task)  BY <1>8, <1>a, <1>b DEF DestroyInLoop
  <2>. QED  BY <1>0, <1>8, <1>e, <2>1 DEF DestroyInLoop, TypeOK, Destroyed
<1>9. CASE Poll
  <2>1. Ready \in Seq(Event)  BY ReportsType, ReadyEvents
  <2>. QED  BY <1>0, <1>9, <1>e, <2>1 DEF Poll, TypeOK, Event
<1>10. ASSUME NEW fd, Closed(fd) PROVE task_' \in Seq(Task)
  BY <1>10, <1>a, <1>b DEF Closed
<1>11. CASE HandleEvent /\ connector.rest = ""
  <2>1. task_' \in Seq(Task)
    <3>1. Idling  BY Steps
    <3>2. \/ UNCHANGED task_ \/ Closed(Head(active)[1]) \/ Typed
      BY <1>11, <3>1, EventMoves
    <3>. QED  BY <1>10, <1>a, <3>2 DEF Typed
  <2>2. active' \in Seq(Event)  BY <1>0, <1>11, HandledEvent DEF HandleEvent, Event
  <2>. QED  BY <1>0, <1>11, <1>e, <2>1, <2>2 DEF HandleEvent, TypeOK, Event
<1>12. CASE DoPendingTask
  <2>1. <<>> \in Seq(Task)  BY QueueEmpty
  <2>2. task_' \in Seq(Task) /\ batch' \in Seq(Task)  BY <1>12, <1>a, <2>1 DEF DoPendingTask
  <2>. QED  BY <1>0, <1>12, <1>e, <2>2 DEF DoPendingTask, TypeOK
<1>13. ASSUME connector.rest = "", NEW answer \in Answer, RunConnectorTask(answer) PROVE TypeOK'
  <2>1. Idling  BY Steps
  <2>2. Typed  BY <1>13, <2>1, TaskMoves
  <2>. QED  BY <1>0, <1>13, <1>d, <1>e, <2>2 DEF RunConnectorTask, TypeOK, Typed
<1>14. CASE GoOn
  <2>1. Idling  BY Steps
  <2>2. Typed  BY <1>14, <2>1, RestAfter DEF GoOn
  <2>. QED  BY <1>0, <1>14, <1>e, <2>2 DEF GoOn, TypeOK, Typed
<1>15. CASE RunConnectionTask
  <2>1. task_' \in Seq(Task)  BY <1>10, <1>15, <1>a DEF RunConnectionTask
  <2>2. close_callback_' \in {"RemoveConnection", "RemoveConnect"}
    BY <1>0, <1>15 DEF RunConnectionTask, TypeOK
  <2>. QED  BY <1>0, <1>15, <1>d, <1>e, <2>1, <2>2 DEF RunConnectionTask, TypeOK
<1>16. ASSUME NEW fd \in Fd, Network(fd) PROVE TypeOK'
  BY <1>0, <1>16, <1>e DEF Network, TypeOK, loop
<1>. QED
  BY <1>1, <1>2, <1>3, <1>4, <1>5, <1>6, <1>7, <1>8, <1>9, <1>11, <1>12, <1>13, <1>14, <1>15, <1>16
  DEF Next, LoopStep, UserStep, DestroyStep

\* Where a channel may be destroyed in the list.
Outlived == life \in {"by thread", "shared in loop"}

\* A connection's channel is left in the list only so.
LEMMA DestroyedOnly ==
    ASSUME IInv, Next, failed' = "", NEW fd \in Fd, fd = connection_,
           connector'.list[fd] = "destroyed"
    PROVE  Outlived'
<1>0. TypeOK /\ Shape /\ Rounds /\ connector \in State /\ connection_ \in Fd /\ connection_ # NoFd
  BY Steps, IdlingState, NoFdNone DEF Idling
<1>1. /\ connector.status_ = "CONNECTED" /\ connector.rest = ""
      /\ connector.list[fd] # "connector"
      /\ connector.list[fd] = "destroyed" => Outlived
  <2>1. connector.status_ = "CONNECTED"  BY <1>0 DEF Shape
  <2>2. connector.rest \in {"", "Retry", "HandleWrite", "StartInLoop"}  BY <1>0, StateFields
  <2>. QED  BY <1>0, <2>1, <2>2 DEF Shape, Outlived
<1>2. ASSUME Outlived PROVE Outlived'
  BY <1>2
  DEF Outlived, Next, LoopStep, UserStep, DestroyStep, GoOn, Poll, HandleEvent, DoPendingTask,
      RunConnectorTask, RunConnectionTask, QueueInLoop, DestroyConnected, DestroyConnecting,
      Connection, Release, Destroy, DestroyInLoop, Start, Stop, Network, loop
<1>3. CASE connector.list[fd] = "destroyed"  BY <1>1, <1>2, <1>3
<1>. SUFFICES ASSUME connector.list[fd] # "destroyed" PROVE Outlived'  BY <1>3
\* Only then has the connection died.
<1>4. ASSUME ~Owned(life, FALSE, task_ \o batch) \/ ~Owned(life, held, task_ \o Tail(batch)),
             connector' = Died(connector), life' = life
      PROVE  Outlived'
  <2>1. life \in Destroyed  BY <1>4 DEF Owned
  <2>2. connector.list[fd] = "connection"
    <3>1. connector'.list[fd] = IF fd = connection_ /\ connector.list[fd] = "connection"
                                THEN "destroyed" ELSE connector.list[fd]
      BY <1>0, <1>4, DiedFields
    <3>. QED  BY <3>1
  <2>3. life # "in loop"  BY <1>0, <2>2 DEF Rounds
  <2>. QED  BY <1>4, <2>1, <2>3 DEF Destroyed, Outlived
<1>5. ASSUME \/ UNCHANGED connector
             \/ \E b \in BOOLEAN : connector' = [connector EXCEPT !.connect_ = b]
             \/ \E f \in Fd : connector' = [connector EXCEPT !.list[f] = "nobody"]
             \/ \E f \in Fd, x \in SocketState :
                    connector.socket[f] # "none" /\ connector' = [connector EXCEPT !.socket[f] = x],
             UNCHANGED connection_
      PROVE  FALSE
  <2>1. ASSUME UNCHANGED connector PROVE FALSE  BY <2>1
  <2>2. ASSUME NEW b \in BOOLEAN, connector' = [connector EXCEPT !.connect_ = b] PROVE FALSE
    BY <1>0, <1>5, <2>2, TouchedWhen
  <2>3. ASSUME NEW f \in Fd, connector' = [connector EXCEPT !.list[f] = "nobody"] PROVE FALSE
    <3>1. \A g \in Fd : connector'.list[g] = IF g = f THEN "nobody" ELSE connector.list[g]
      BY <1>0, <1>5, <2>3, TouchedWhen
    <3>. QED  BY <3>1
  <2>4. ASSUME NEW f \in Fd, NEW x \in SocketState, connector.socket[f] # "none",
               connector' = [connector EXCEPT !.socket[f] = x]
        PROVE  FALSE
    BY <1>0, <1>5, <2>4, TouchedWhen
  <2>. QED  BY <1>5, <2>1, <2>2, <2>3, <2>4
<1>a. TRUE \in BOOLEAN /\ FALSE \in BOOLEAN  OBVIOUS
<1>6. ASSUME NEW t \in Thread, Start(t) \/ Stop(t) PROVE Outlived'
  BY <1>5, <1>6, <1>a DEF Start, Stop
<1>7. CASE DestroyConnecting
  <2>1. CASE life = "connecting"
    <3>1. connector' = [connector EXCEPT !.connect_ = FALSE] /\ UNCHANGED connection_
      BY <1>7, <2>1 DEF DestroyConnecting
    <3>. QED  BY <1>5, <1>a, <3>1
  <2>2. CASE life # "connecting"  BY <1>7, <2>2 DEF DestroyConnecting, Outlived
  <2>. QED  BY <2>1, <2>2
<1>8. CASE DestroyInLoop
  <2>1. UNCHANGED connection_  BY <1>8 DEF DestroyInLoop
  <2>2. \/ connector' = [connector EXCEPT !.list[connection_] = "nobody"]
        \/ UNCHANGED connector
    BY <1>0, <1>8 DEF DestroyInLoop
  <2>. QED  BY <1>0, <1>5, <2>1, <2>2
<1>9. CASE Release
  <2>1. UNCHANGED <<connection_, life>> /\ (UNCHANGED connector \/
            (~Owned(life, FALSE, task_ \o batch) /\ connector' = Died(connector)))
    BY <1>9 DEF Release
  <2>. QED  BY <1>4, <1>5, <2>1
<1>10. CASE RunConnectionTask
  <2>1. UNCHANGED <<connection_, life>>  BY <1>10 DEF RunConnectionTask
  <2>2. \/ connector' = [connector EXCEPT !.list[connection_] = "nobody"]
        \/ UNCHANGED connector
        \/ ~Owned(life, held, task_ \o Tail(batch)) /\ connector' = Died(connector)
    BY <1>10 DEF RunConnectionTask, Closed
  <2>. QED  BY <1>0, <1>4, <1>5, <2>1, <2>2
<1>11. CASE HandleEvent
  <2>1. CASE UNCHANGED <<connector, connection_>>  BY <1>5, <2>1
  <2>2. CASE Closed(Head(active)[1]) /\ UNCHANGED connection_
    <3>1. Head(active)[1] \in Fd  BY <1>0, <1>11, HandledEvent
    <3>2. connector' = [connector EXCEPT !.list[Head(active)[1]] = "nobody"]
      BY <2>2 DEF Closed
    <3>. QED  BY <1>5, <2>2, <3>1, <3>2
  <2>3. CASE Idle  BY <2>3 DEF Idle
  <2>4. CASE Removed  BY <1>1, <2>4 DEF Removed
  <2>5. Idling  BY Steps
  <2>6. failed' = ""  OBVIOUS
  <2>. QED  BY <1>1, <1>11, <2>1, <2>2, <2>3, <2>4, <2>5, <2>6, EventMoves
<1>12. ASSUME NEW answer \in Answer, RunConnectorTask(answer) PROVE Outlived'
  <2>1. Idling  BY Steps
  <2>2. Idle \/ Attempted \/ Repeated \/ Removed \/ Reset  BY <1>1, <1>12, <2>1, TaskMoves
  <2>3. CASE Idle  BY <2>3 DEF Idle
  <2>4. CASE Attempted \/ Repeated \/ Removed
    BY <1>1, <2>4 DEF Attempted, Repeated, Removed
  <2>5. CASE Reset
    <3>1. connector'.list[fd] = connector.list[fd]  BY <1>1, <2>5 DEF Reset
    <3>. QED  BY <3>1
  <2>. QED  BY <2>2, <2>3, <2>4, <2>5
<1>13. ASSUME NEW f \in Fd, Network(f) PROVE Outlived'
  <2>1. /\ UNCHANGED connection_ /\ connector.socket[f] # "none"
        /\ \E x \in SocketState : connector' = [connector EXCEPT !.socket[f] = x]
    BY <1>13 DEF Network, SocketState
  <2>. QED  BY <1>5, <2>1
<1>14. CASE UNCHANGED <<connector, connection_>>  BY <1>5, <1>14
<1>. QED
  BY <1>1, <1>6, <1>7, <1>8, <1>9, <1>10, <1>11, <1>12, <1>13, <1>14
  DEF Next, LoopStep, UserStep, DestroyStep, GoOn, QueueInLoop, Connection, Destroy,
      DestroyConnected, Poll, DoPendingTask

\* Every step that does not fail keeps what is at the descriptors in order.
LEMMA ShapeStep ==
    ASSUME IInv, Next, failed' = ""
    PROVE  Shape'
<1>0. Idling /\ Shape /\ Rounds  BY Steps
<1>a. connector \in State /\ connector.failed = "" /\ connection_ \in Fd \cup {NoFd}
      /\ connector.status_ \in {"DISCONNECTED", "CONNECTING", "CONNECTED"}
      /\ connector.rest \in {"", "Retry", "HandleWrite", "StartInLoop"}
  BY <1>0, IdlingState
<1>1. CASE Touched
  <2>1. \A X : OnlyAt(connector, X) /\ (connection_ # NoFd => connection_ \in X) => OnlyAt(connector', X)
    BY <1>1, NoFdNone DEF Touched, OnlyAt
  <2>. QED  BY <1>0, <1>1, <1>a, <2>1, DestroyedOnly, NoFdNone DEF Shape, Touched, Outlived
<1>2. CASE Retried \/ Repeated  BY <1>0, <1>2 DEF Shape, Retried, Repeated, Running
<1>3. CASE Made  BY <1>3 DEF Shape, Made, Running
<1>4. CASE Requeued
  BY <1>0, <1>4, <1>a DEF Shape, Requeued, Running, OnlyAt
<1>5. CASE Idle /\ life' = life
  <2>1. \A X : OnlyAt(connector, X) => OnlyAt(connector', X)  BY <1>5 DEF Idle, OnlyAt
  <2>. QED  BY <1>0, <1>5, <1>a, <2>1 DEF Shape, Idle, Running
<1>6. CASE Removed  BY <1>0, <1>6 DEF Shape, Removed, Running
<1>7. CASE Attempted  BY <1>0, <1>7 DEF Shape, Attempted, Running
<1>8. CASE Reset /\ connector.rest = "" /\ life' = life
  <2>1. /\ connector'.status_ = connector.status_ /\ connector'.rest = ""
        /\ connector'.channel_ = NoFd /\ connection_' = connection_ /\ connector'.failed = ""
    BY <1>8 DEF Reset, Running
  <2>2. \A X : OnlyAt(connector, X) => OnlyAt(connector', X)  BY <1>8 DEF Reset, OnlyAt
  <2>3. CASE connector.status_ = "CONNECTING"
    <3>1. connection_ = NoFd  BY <1>0, <2>3 DEF Shape
    <3>2. PICK a \in Fd :
              /\ OnlyAt(connector, {a})
              /\ \/ connector.channel_ = a /\ connector.list[a] = "connector"
                 \/ connector.channel_ = NoFd /\ connector.list[a] = "destroyed"
      BY <1>0, <1>8, <2>3 DEF Shape
    <3>3. connector'.list[a] = "destroyed"  BY <1>8, <3>2 DEF Reset
    <3>4. OnlyAt(connector', {a})  BY <2>2, <3>2
    <3>. QED  BY <2>1, <2>3, <3>1, <3>3, <3>4 DEF Shape
  <2>4. CASE connector.status_ = "DISCONNECTED"  BY <1>0, <1>8, <2>1, <2>2, <2>4 DEF Shape
  <2>5. CASE connector.status_ = "CONNECTED"
    <3>1. life' = life  BY <1>8
    <3>2. \A fd \in Fd : fd = connection_ => connector'.list[fd] = connector.list[fd]
      BY <1>0, <1>8, <2>5 DEF Shape, Reset
    <3>. QED  BY <1>0, <2>1, <2>2, <2>5, <3>1, <3>2 DEF Shape
  <2>. QED  BY <1>a, <2>3, <2>4, <2>5
<1>9. \/ Touched \/ Retried \/ Made \/ Requeued \/ (Idle /\ life' = life) \/ Removed \/ Attempted
      \/ Repeated \/ (Reset /\ connector.rest = "" /\ life' = life)
  BY Steps
<1>. QED  BY <1>1, <1>2, <1>3, <1>4, <1>5, <1>6, <1>7, <1>8, <1>9

-----------------------------------------------------------------------------
(* Rounds.                                                                  *)

\* The connector's methods, as long as nothing fails.
Method == Idle \/ Attempted \/ Repeated \/ Removed \/ Reset \/ Retried \/ Made \/ Requeued

\* A channel leaves the list.
LEMMA EntryAfter ==
    ASSUME connector \in State, NEW fd \in Fd,
           connector' = [connector EXCEPT !.list[fd] = "nobody"]
    PROVE  /\ connector'.connect_ = connector.connect_
           /\ \A f \in Fd : connector'.list[f] = IF f = fd THEN "nobody" ELSE connector.list[f]
<1>. DEFINE r == [connector EXCEPT !.list[fd] = "nobody"]
<1>1. "nobody" \in Entry /\ fd \in Fd \cup {NoFd}  BY DEF Entry
<1>2. Same(r, connector) /\ \A f \in Fd : r.list[f] = IF f = fd THEN "nobody" ELSE connector.list[f]
  BY <1>1, EntryFields
<1>3. connector' = r  OBVIOUS
<1>. HIDE DEF r
<1>. QED  BY <1>2, <1>3 DEF Same

\* The methods make a connection where there is none, of a client that still wants one.
LEMMA MethodKeeps ==
    ASSUME IInv, Next, failed' = "", Method
    PROVE  /\ connector'.connect_ = connector.connect_
           /\ connection_ # NoFd => connection_' = connection_
           /\ connection_ = NoFd /\ connection_' # NoFd => connector.connect_ /\ life \notin Destroyed
           /\ Has(task_', "ForceCloseInLoop") => Has(task_, "ForceCloseInLoop")
           /\ \A fd \in Fd : fd = connection_ /\ connector.list[fd] # "connection" =>
                  connector'.list[fd] # "connection"
<1>0. TypeOK /\ Shape /\ Rounds /\ task_ \in Seq(Task) /\ failed' # "client"
      /\ connection_ \in Fd \cup {NoFd}
      /\ connector.rest \in {"", "Retry", "HandleWrite", "StartInLoop"}
  BY Steps, IdlingState DEF Idling
<1>1. connector'.connect_ = connector.connect_
  BY DEF Method, Idle, Attempted, Repeated, Removed, Reset, Retried, Made, Requeued, Running
<1>2. Has(task_', "ForceCloseInLoop") => Has(task_, "ForceCloseInLoop")
  <2>1. task_' = task_ \/ task_' = Append(task_, "ResetChannel") \/ task_' = Append(task_, "StartInLoop")
    BY DEF Method, Idle, Attempted, Repeated, Removed, Reset, Retried, Made, Requeued
  <2>2. \A x \in Task : x # "ForceCloseInLoop" =>
            (Has(Append(task_, x), "ForceCloseInLoop") => Has(task_, "ForceCloseInLoop"))
    BY <1>0, QueueAppend
  <2>. QED  BY <2>1, <2>2, TaskNames
<1>3. connection_ # NoFd => connector.status_ = "CONNECTED" /\ connector.rest = ""
  BY <1>0 DEF Shape
<1>4. CASE Idle \/ Reset
  BY <1>1, <1>2, <1>4 DEF Idle, Reset
<1>5. CASE Made
  <2>1. connection_ = NoFd  BY <1>3, <1>5 DEF Made
  <2>2. connection_' # NoFd => connector.connect_ /\ life \notin Destroyed
    BY <1>0, <1>5 DEF Made
  <2>. QED  BY <1>1, <1>2, <2>1, <2>2, NoFdNone
<1>6. CASE Attempted \/ Repeated \/ Removed \/ Retried \/ Requeued
  BY <1>0, <1>1, <1>2, <1>3, <1>6, NoFdNone DEF Attempted, Repeated, Removed, Retried, Requeued
<1>. QED  BY <1>4, <1>5, <1>6 DEF Method

\* An end is reported of a connection only.
LEMMA ReadyClose ==
    ASSUME TypeOK, Shape, connector.rest = "", NEW i \in 1..Len(Ready), Ready[i][2] = "close"
    PROVE  connection_ # NoFd
<1>. SUFFICES ASSUME connection_ = NoFd PROVE FALSE  OBVIOUS
<1>. DEFINE X == Fd \X {"error", "write"}
<1>1. connector.status_ \in {"DISCONNECTED", "CONNECTING", "CONNECTED"}
  BY StateFields DEF TypeOK
<1>2. \A fd \in Fd : connector.list[fd] # "connection"
  BY <1>1, NoFdNone DEF Shape, OnlyAt
<1>3. Ready \in Seq(X)  BY <1>2, ReportsType, ReadyEvents
<1>4. Ready[i] \in X  BY <1>3, ElementOfSeq
<1>. QED  BY <1>4

\* Every step that does not fail keeps the rounds of the loop and the client's life in order.
LEMMA RoundsStep ==
    ASSUME IInv, Next, failed' = ""
    PROVE  Rounds'
<1>0. TypeOK /\ Shape /\ Rounds /\ Idling  BY Steps DEF Idling
<1>a. task_ \in Seq(Task) /\ batch \in Seq(Task) /\ connection_ \in Fd \cup {NoFd}
      /\ connector \in State /\ (connection_ # NoFd => connection_ \in Fd)
  BY <1>0 DEF TypeOK
<1>b. \A x \in Task : x # "ForceCloseInLoop" =>
          (Has(Append(task_, x), "ForceCloseInLoop") => Has(task_, "ForceCloseInLoop"))
  BY <1>a, QueueAppend
<1>c. batch # <<>> => (Has(Tail(batch), "ForceCloseInLoop") => Has(batch, "ForceCloseInLoop"))
  BY <1>a, QueueTail
<1>1. ASSUME NEW t \in Thread, Start(t) PROVE Rounds'
  BY <1>0, <1>1 DEF Start, Rounds, loop
<1>2. ASSUME NEW t \in Thread, Stop(t) PROVE Rounds'
  BY <1>0, <1>2 DEF Stop, Rounds, loop
<1>3. ASSUME NEW t \in Thread, QueueInLoop(t) PROVE Rounds'
  <2>1. Has(task_', "ForceCloseInLoop") => Has(task_, "ForceCloseInLoop")
    BY <1>3, <1>b, TaskNames DEF QueueInLoop
  <2>. QED  BY <1>0, <1>3, <2>1 DEF QueueInLoop, Rounds
<1>4. CASE Connection  BY <1>0, <1>4 DEF Connection, Rounds, loop
<1>5. CASE Release
  <2>1. connector' = connector \/ connector' = Died(connector)  BY <1>5 DEF Release
  <2>2. connector'.connect_ = connector.connect_  BY <1>a, <2>1, DiedFields DEF Same
  <2>3. \A fd \in Fd : connector'.list[fd] = connector.list[fd] \/ connector'.list[fd] = "destroyed"
    BY <1>a, <2>1, DiedFields
  <2>. QED  BY <1>0, <1>5, <2>2, <2>3 DEF Release, Rounds, loop
<1>6. CASE Destroy  BY <1>0, <1>6 DEF Destroy, Rounds, loop
<1>7. CASE DestroyConnected
  <2>1. connection_ # NoFd  BY <1>0, <1>7 DEF DestroyConnected, Rounds
  <2>. QED  BY <1>0, <1>7, <2>1 DEF DestroyConnected, Rounds
<1>8. CASE DestroyConnecting
  <2>1. Has(task_', "ForceCloseInLoop") => Has(task_, "ForceCloseInLoop")
    BY <1>8, <1>b, TaskNames DEF DestroyConnecting
  <2>2. life' = "stopping" => connector'.connect_ = FALSE
    BY <1>8, <1>a, WantedFields DEF DestroyConnecting
  <2>3. life' \in {"stopping", "by thread"}  BY <1>8 DEF DestroyConnecting
  <2>. QED  BY <1>0, <1>8, <2>1, <2>2, <2>3 DEF DestroyConnecting, Rounds
<1>9. CASE DestroyInLoop
  <2>1. Has(task_', "ForceCloseInLoop") => Has(task_, "ForceCloseInLoop")
    BY <1>9, <1>b, TaskNames DEF DestroyInLoop
  <2>2. life' = IF held THEN "shared in loop" ELSE "in loop"  BY <1>9 DEF DestroyInLoop
  <2>3. CASE connection_ = NoFd
    <3>1. ~held  BY <1>0, <2>3 DEF Rounds
    <3>2. ~connector'.connect_  BY <1>9, <1>a, <2>3, WantedFields DEF DestroyInLoop
    <3>. QED  BY <1>0, <1>9, <1>a, <2>1, <2>2, <2>3, <3>1, <3>2, NoFdNone DEF DestroyInLoop, Rounds
  <2>4. CASE connection_ # NoFd
    <3>1. life' = "in loop" => connector'.list[connection_] # "connection"
      <4>1. CASE connector' = [connector EXCEPT !.list[connection_] = "nobody"]
        <5>1. connection_ \in Fd  BY <1>a, <2>4
        <5>2. \A f \in Fd : connector'.list[f] =
                  IF f = connection_ THEN "nobody" ELSE connector.list[f]
          BY <1>a, <4>1, <5>1, EntryAfter
        <5>. QED  BY <5>1, <5>2
      <4>2. CASE UNCHANGED connector /\ (held \/ connector.list[connection_] # "connection")
        BY <2>2, <4>2
      <4>. QED  BY <1>9, <2>4, <4>1, <4>2 DEF DestroyInLoop
    <3>2. close_callback_' = "RemoveConnect"  BY <1>9, <2>4 DEF DestroyInLoop
    <3>. QED  BY <1>0, <1>9, <2>1, <2>2, <2>4, <3>1, <3>2 DEF DestroyInLoop, Rounds
  <2>. QED  BY <2>3, <2>4
<1>10. CASE Poll /\ connector.rest = ""
  <2>1. \A i \in 1..Len(active') : active'[i][2] = "close" => connection_ # NoFd
    BY <1>0, <1>10, ReadyClose DEF Poll
  <2>. QED  BY <1>0, <1>10, <2>1 DEF Poll, Rounds
\* A method of the connector: what it keeps, and what becomes of the queues.
<1>11. ASSUME Method, UNCHANGED <<held, close_callback_, life>>,
              active' # <<>> => handling', handling' => batch' = <<>>,
              \A i \in 1..Len(active') : active'[i][2] = "close" => connection_ # NoFd,
              Has(batch', "ForceCloseInLoop") => Has(batch, "ForceCloseInLoop")
       PROVE  Rounds'
  <2>1. /\ connector'.connect_ = connector.connect_
        /\ connection_ # NoFd => connection_' = connection_
        /\ connection_ = NoFd /\ connection_' # NoFd => connector.connect_ /\ life \notin Destroyed
        /\ Has(task_', "ForceCloseInLoop") => Has(task_, "ForceCloseInLoop")
        /\ \A fd \in Fd : fd = connection_ /\ connector.list[fd] # "connection" =>
               connector'.list[fd] # "connection"
    BY <1>11, MethodKeeps
  <2>2. life' \in {"in loop", "shared in loop"} =>
            IF connection_' = NoFd THEN life' = "in loop" /\ ~connector'.connect_
            ELSE close_callback_' = "RemoveConnect"
    BY <1>0, <1>11, <2>1 DEF Rounds, Destroyed
  <2>3. life' = "in loop" => \A fd \in Fd : fd = connection_' => connector'.list[fd] # "connection"
    BY <1>0, <1>11, <2>1, NoFdNone DEF Rounds, Destroyed
  <2>4. life' \in {"unique", "shared", "closing"} => connection_' # NoFd
    BY <1>0, <1>11, <2>1 DEF Rounds
  <2>5. /\ Has(task_', "ForceCloseInLoop") \/ Has(batch', "ForceCloseInLoop") => connection_' # NoFd
        /\ held' => connection_' # NoFd
        /\ life' = "stopping" => ~connector'.connect_
        /\ \A i \in 1..Len(active') : active'[i][2] = "close" => connection_' # NoFd
    BY <1>0, <1>11, <2>1 DEF Rounds
  <2>. QED  BY <1>11, <2>2, <2>3, <2>4, <2>5 DEF Rounds
<1>12. CASE HandleEvent /\ connector.rest = ""
  <2>1. /\ active # <<>> /\ handling /\ batch = <<>>
        /\ UNCHANGED <<held, close_callback_, life, handling, batch>>
        /\ \A i \in 1..Len(active') : active'[i][2] = "close" => connection_ # NoFd
    BY <1>0, <1>12, HandledEvent DEF HandleEvent, Rounds
  <2>2. CASE Method  BY <1>11, <2>1, <2>2
  <2>3. CASE UNCHANGED <<connector, connection_, task_>>
    BY <1>0, <2>1, <2>3 DEF Rounds
  <2>4. CASE Closed(Head(active)[1]) /\ Head(active)[2] = "close" /\ UNCHANGED connection_
    <3>1. Head(active)[1] \in Fd  BY <1>0, <1>12, HandledEvent
    <3>2. connector' = [connector EXCEPT !.list[Head(active)[1]] = "nobody"] 
      BY <2>4 DEF Closed
    <3>3. /\ connector'.connect_ = connector.connect_
          /\ \A fd \in Fd : connector'.list[fd] = connector.list[fd] \/ connector'.list[fd] = "nobody"
      BY <1>a, <3>1, <3>2, EntryAfter
    <3>4. Has(task_', "ForceCloseInLoop") => Has(task_, "ForceCloseInLoop")
      BY <1>b, <2>4, TaskNames DEF Closed
    <3>. QED  BY <1>0, <2>1, <2>4, <3>3, <3>4 DEF Rounds
  <2>5. failed' = ""  OBVIOUS
  <2>6. Idle \/ Removed => Method  BY DEF Method
  <2>. QED  BY <1>0, <1>12, <2>2, <2>3, <2>4, <2>5, <2>6, EventMoves
<1>13. CASE DoPendingTask
  <2>1. ~Has(<<>>, "ForceCloseInLoop")  BY QueueEmpty
  <2>. QED  BY <1>0, <1>13, <2>1 DEF DoPendingTask, Rounds
<1>14. ASSUME connector.rest = "", NEW answer \in Answer, RunConnectorTask(answer) PROVE Rounds'
  <2>1. batch # <<>> /\ ~handling /\ active = <<>> /\ batch' = Tail(batch)
        /\ UNCHANGED <<held, close_callback_, life, active, handling>>
    BY <1>0, <1>14 DEF RunConnectorTask, Rounds
  <2>2. Method
    <3>1. failed' = ""  OBVIOUS
    <3>. QED  BY <1>0, <1>14, <3>1, TaskMoves DEF Method
  <2>. QED  BY <1>0, <1>11, <1>c, <2>1, <2>2 DEF Rounds
<1>15. CASE GoOn
  <2>1. Method  BY <1>0, <1>15, RestAfter DEF GoOn, Method
  <2>. QED  BY <1>0, <1>11, <1>15, <2>1 DEF GoOn, Rounds
<1>16. CASE RunConnectionTask
  <2>1. batch # <<>> /\ ~handling /\ active = <<>> /\ batch' = Tail(batch)
        /\ UNCHANGED <<held, connection_, life, active, handling>>
        /\ close_callback_' \in {close_callback_, "RemoveConnect"}
    BY <1>0, <1>16 DEF RunConnectionTask, Rounds
  <2>2. CASE Head(batch) = "ForceCloseInLoop" /\ Closed(connection_)
    <3>1. connection_ # NoFd  BY <1>0, <1>a, <2>1, <2>2, QueueTail DEF Rounds
    <3>2. connector' = [connector EXCEPT !.list[connection_] = "nobody"] 
      BY <2>2 DEF Closed
    <3>3. /\ connector'.connect_ = connector.connect_
          /\ \A fd \in Fd : connector'.list[fd] = connector.list[fd] \/ connector'.list[fd] = "nobody"
      BY <1>a, <3>1, <3>2, EntryAfter
    <3>4. Has(task_', "ForceCloseInLoop") => Has(task_, "ForceCloseInLoop")
      BY <1>b, <2>2, TaskNames DEF Closed
    <3>. QED  BY <1>0, <1>c, <2>1, <3>1, <3>3, <3>4 DEF Rounds
  <2>3. CASE UNCHANGED task_ /\ (connector' = connector \/ connector' = Died(connector))
    <3>1. connector'.connect_ = connector.connect_  BY <1>a, <2>3, DiedFields DEF Same
    <3>2. \A fd \in Fd : connector'.list[fd] = connector.list[fd] \/ connector'.list[fd] = "destroyed"
      BY <1>a, <2>3, DiedFields
    <3>. QED  BY <1>0, <1>c, <2>1, <2>3, <3>1, <3>2 DEF Rounds
  <2>. QED  BY <1>16, <2>2, <2>3 DEF RunConnectionTask
<1>17. ASSUME NEW fd \in Fd, Network(fd) PROVE Rounds'
  <2>1. /\ UNCHANGED connection_ /\ connector.socket[fd] # "none"
        /\ \E x \in SocketState : connector' = [connector EXCEPT !.socket[fd] = x]
    BY <1>17 DEF Network, SocketState
  <2>2. connector'.connect_ = connector.connect_ /\ connector'.list = connector.list
    BY <1>0, <2>1, TouchedWhen
  <2>. QED  BY <1>0, <1>17, <2>2 DEF Network, Rounds, loop
<1>. QED
  BY <1>1, <1>2, <1>3, <1>4, <1>5, <1>6, <1>7, <1>8, <1>9, <1>10, <1>12, <1>13, <1>14, <1>15, <1>16, <1>17
  DEF Next, LoopStep, UserStep, DestroyStep

-----------------------------------------------------------------------------
(* What the steps make of the queues and of the calls, for what is asked of  *)
(* a client that was started once or never stopped.                          *)

\* No call is made or returns, and the client is what it was.
Still == UNCHANGED <<life, call, starts, stops>>

\* The first task of the batch is run.
Taking(task) == batch # <<>> /\ Head(batch) = task /\ batch' = Tail(batch)

\* A step that has nothing to do with attempts: tasks of other kinds come and go, and a
\* StopInLoop() of the client's destruction.
Lets ==
    /\ UNCHANGED <<call, starts, stops>>
    /\ connector'.status_ = connector.status_ /\ connector'.rest = connector.rest
    /\ connector.status_ = "CONNECTING" => connector'.channel_ = connector.channel_
    /\ connector'.connect_ = connector.connect_ \/ (~connector'.connect_ /\ life' # "alive")
    /\ life' = "alive" => life = "alive"
    /\ \/ task_' = task_
       \/ \E x \in Task \ {"StartInLoop", "ResetChannel"} :
              task_' = Append(task_, x) /\ (x = "StopInLoop" => Stopped')
    /\ \/ batch' = batch
       \/ batch # <<>> /\ Head(batch) # "StartInLoop" /\ batch' = Tail(batch)

\* StartInLoop() of a connector that may start.
Starting ==
    /\ Still /\ Taking("StartInLoop")
    /\ connector.status_ = "DISCONNECTED" /\ connector.rest = ""
    /\ Idle \/ Attempted \/ Repeated

\* An attempt leaves the list.
Removing == Still /\ Removed /\ (batch' = batch \/ Taking("StopInLoop"))

\* ResetChannel() of an attempt whose channel is in the list.
Dooming ==
    /\ Still /\ Taking("ResetChannel") /\ Reset
    /\ connector.status_ = "CONNECTING" /\ connector.rest = ""

\* A method goes on.
Going == Still /\ batch' = batch /\ (Retried \/ Made \/ Requeued)

\* A step that leaves the connector as it is but for connect_, the list and the sockets.
LEMMA TouchedLets ==
    ASSUME Touched, UNCHANGED <<call, starts, stops, task_, batch>>,
           connector'.connect_ = connector.connect_ \/ (~connector'.connect_ /\ life' # "alive"),
           life' = "alive" => life = "alive"
    PROVE  Lets
BY DEF Touched, Lets

\* Every step that does not fail is one of these.
LEMMA Kinds ==
    ASSUME IInv, Next, failed' = ""
    PROVE  \/ Lets \/ Starting \/ Removing \/ Dooming \/ Going
           \/ \E t \in Thread : Start(t) \/ Stop(t) \/ QueueInLoop(t)
           \/ DoPendingTask /\ connector.rest = ""
<1>0. TypeOK /\ Shape /\ Rounds /\ Idling  BY Steps DEF Idling
<1>a. task_ \in Seq(Task) /\ batch \in Seq(Task) /\ connection_ \in Fd \cup {NoFd}
      /\ connector \in State /\ (connection_ # NoFd => connection_ \in Fd)
  BY <1>0 DEF TypeOK
<1>b. {"SetCloseCallback", "ForceCloseInLoop", "ConnectDestroyed", "StopInLoop"}
          \subseteq Task \ {"StartInLoop", "ResetChannel"}
  BY DEF Task
<1>c. TRUE \in BOOLEAN /\ FALSE \in BOOLEAN  OBVIOUS
<1>1. CASE Connection \/ Destroy \/ Poll
  <2>1. Touched  BY <1>0, <1>1, TouchedWhen DEF Connection, Destroy, Poll
  <2>. QED  BY <1>1, <2>1, TouchedLets DEF Connection, Destroy, Poll, loop
<1>2. CASE Release
  <2>1. UNCHANGED connection_ /\ (connector' = connector \/ connector' = Died(connector))
    BY <1>2 DEF Release
  <2>2. Touched /\ connector'.connect_ = connector.connect_  BY <1>0, <2>1, TouchedWhen
  <2>. QED  BY <1>2, <2>2, TouchedLets DEF Release, loop
<1>3. CASE DestroyConnected
  <2>1. Touched  BY <1>0, <1>3, TouchedWhen DEF DestroyConnected
  <2>2. task_' = task_ \/ \E x \in {"SetCloseCallback", "ForceCloseInLoop"} : task_' = Append(task_, x)
    BY <1>3 DEF DestroyConnected
  <2>. QED  BY <1>3, <1>b, <2>1, <2>2 DEF DestroyConnected, Touched, Lets
<1>4. CASE DestroyConnecting
  <2>1. CASE life = "connecting"
    <3>1. connector' = [connector EXCEPT !.connect_ = FALSE] /\ UNCHANGED connection_
          /\ life' = "stopping"
      BY <1>4, <2>1 DEF DestroyConnecting
    <3>2. Touched /\ connector'.connect_ = FALSE  BY <1>0, <1>c, <3>1, TouchedWhen
    <3>. QED  BY <1>4, <2>1, <3>1, <3>2, TouchedLets DEF DestroyConnecting
  <2>2. CASE life # "connecting"
    <3>1. connector' = Died(connector) /\ UNCHANGED connection_ /\ life = "stopping"
          /\ life' = "by thread" /\ task_' = Append(task_, "StopInLoop")
          /\ UNCHANGED <<batch, call, starts, stops>>
      BY <1>4, <2>2 DEF DestroyConnecting
    <3>2. Touched /\ connector'.connect_ = connector.connect_  BY <1>0, <3>1, TouchedWhen
    <3>3. Stopped'  BY <1>0, <3>1, <3>2 DEF Rounds, Stopped
    <3>. QED  BY <1>b, <3>1, <3>2, <3>3 DEF Touched, Lets
  <2>. QED  BY <2>1, <2>2
<1>5. CASE DestroyInLoop
  <2>0. UNCHANGED <<connection_, batch, call, starts, stops>> /\ life' # "alive"
    BY <1>5 DEF DestroyInLoop
  <2>1. CASE connection_ = NoFd
    <3>1. connector' = [connector EXCEPT !.connect_ = FALSE] /\ task_' = Append(task_, "StopInLoop")
      BY <1>5, <2>1 DEF DestroyInLoop
    <3>2. Touched /\ connector'.connect_ = FALSE  BY <1>0, <1>c, <2>0, <3>1, TouchedWhen
    <3>3. Stopped'  BY <2>0, <3>2 DEF Stopped
    <3>. QED  BY <1>b, <2>0, <3>1, <3>2, <3>3 DEF Touched, Lets
  <2>2. CASE connection_ # NoFd /\ UNCHANGED <<connector, task_>>
    <3>1. Touched /\ connector'.connect_ = connector.connect_  BY <1>0, <2>0, <2>2, TouchedWhen
    <3>. QED  BY <2>0, <2>2, <3>1, TouchedLets
  <2>3. CASE /\ connection_ # NoFd /\ connector' = [connector EXCEPT !.list[connection_] = "nobody"]
             /\ task_' = Append(task_, "ConnectDestroyed")
    <3>1. Touched /\ connector'.connect_ = connector.connect_
      BY <1>0, <1>a, <2>0, <2>3, TouchedWhen
    <3>. QED  BY <1>b, <2>0, <2>3, <3>1 DEF Touched, Lets
  <2>. QED  BY <1>5, <2>1, <2>2, <2>3 DEF DestroyInLoop
\* HandleClose().
<1>6. ASSUME NEW fd \in Fd, Closed(fd), UNCHANGED connection_, connection_ # NoFd,
             UNCHANGED <<life, call, starts, stops>>,
             \/ batch' = batch
             \/ batch # <<>> /\ Head(batch) # "StartInLoop" /\ batch' = Tail(batch)
      PROVE  Lets
  <2>1. Touched /\ connector'.connect_ = connector.connect_
    BY <1>0, <1>6, TouchedWhen DEF Closed
  <2>2. task_' = task_ \/ task_' = Append(task_, "ConnectDestroyed")  BY <1>6 DEF Closed
  <2>. QED  BY <1>6, <1>b, <2>1, <2>2 DEF Touched, Lets
<1>7. ASSUME Idle, UNCHANGED <<life, call, starts, stops>>,
             \/ batch' = batch
             \/ batch # <<>> /\ Head(batch) # "StartInLoop" /\ batch' = Tail(batch)
      PROVE  Lets
  BY <1>7 DEF Idle, Running, Lets
<1>8. CASE HandleEvent /\ connector.rest = ""
  <2>1. UNCHANGED <<life, batch, call, starts, stops>>  BY <1>8 DEF HandleEvent
  <2>2. CASE UNCHANGED <<connector, connection_, task_>>  BY <2>1, <2>2 DEF Lets
  <2>3. CASE Closed(Head(active)[1]) /\ Head(active)[2] = "close" /\ UNCHANGED connection_
    <3>1. Head(active)[1] \in Fd /\ connection_ # NoFd
      BY <1>0, <1>8, <2>3, HandledEvent DEF Rounds
    <3>. QED  BY <1>6, <2>1, <2>3, <3>1
  <2>4. CASE Idle  BY <1>7, <2>1, <2>4
  <2>5. CASE Removed  BY <2>1, <2>5 DEF Removing, Still
  <2>6. failed' = ""  OBVIOUS
  <2>. QED  BY <1>0, <1>8, <2>2, <2>3, <2>4, <2>5, <2>6, EventMoves
<1>9. ASSUME connector.rest = "", NEW answer \in Answer, RunConnectorTask(answer)
      PROVE  Lets \/ Starting \/ Removing \/ Dooming
  <2>1. UNCHANGED <<life, call, starts, stops>> /\ batch # <<>> /\ batch' = Tail(batch)
    BY <1>9 DEF RunConnectorTask
  <2>2. failed' = ""  OBVIOUS
  <2>3. \/ /\ Head(batch) = "StartInLoop" /\ connector.status_ = "DISCONNECTED"
           /\ Idle \/ Attempted \/ Repeated
        \/ Head(batch) = "StopInLoop" /\ (Idle \/ Removed)
        \/ Head(batch) = "ResetChannel" /\ Reset
    BY <1>0, <1>9, <2>2, TaskMoves
  <2>4. CASE /\ Head(batch) = "StartInLoop" /\ connector.status_ = "DISCONNECTED"
             /\ Idle \/ Attempted \/ Repeated
    BY <1>9, <2>1, <2>4 DEF Starting, Still, Taking
  <2>5. CASE Head(batch) = "StopInLoop" /\ Idle  BY <1>7, <2>1, <2>5
  <2>6. CASE Head(batch) = "StopInLoop" /\ Removed  BY <2>1, <2>6 DEF Removing, Still, Taking
  <2>7. CASE Head(batch) = "ResetChannel" /\ Reset
    <3>1. CASE connector.status_ = "CONNECTING"
      BY <1>9, <2>1, <2>7, <3>1 DEF Dooming, Still, Taking
    <3>2. CASE connector.status_ # "CONNECTING"
      BY <2>1, <2>7, <3>2 DEF Reset, Running, Lets
    <3>. QED  BY <3>1, <3>2
  <2>. QED  BY <2>3, <2>4, <2>5, <2>6, <2>7
<1>10. CASE GoOn
  <2>1. Retried \/ Made \/ Requeued  BY <1>0, <1>10, RestAfter DEF GoOn
  <2>. QED  BY <1>10, <2>1 DEF GoOn, Going, Still
<1>11. CASE RunConnectionTask
  <2>1. /\ batch # <<>> /\ Head(batch) # "StartInLoop" /\ batch' = Tail(batch)
        /\ UNCHANGED <<connection_, life, call, starts, stops>>
    BY <1>11 DEF RunConnectionTask, ConnectionTask
  <2>2. CASE Head(batch) = "ForceCloseInLoop" /\ Closed(connection_)
    <3>1. connection_ # NoFd /\ connection_ \in Fd
      BY <1>0, <1>a, <2>1, <2>2, QueueTail DEF Rounds
    <3>. QED  BY <1>6, <2>1, <2>2, <3>1
  <2>3. CASE UNCHANGED task_ /\ (connector' = connector \/ connector' = Died(connector))
    <3>1. Touched /\ connector'.connect_ = connector.connect_  BY <1>0, <2>1, <2>3, TouchedWhen
    <3>. QED  BY <2>1, <2>3, <3>1 DEF Touched, Lets
  <2>. QED  BY <1>11, <2>2, <2>3 DEF RunConnectionTask
<1>12. ASSUME NEW fd \in Fd, Network(fd) PROVE Lets
  <2>1. /\ UNCHANGED connection_ /\ connector.socket[fd] # "none"
        /\ \E x \in SocketState : connector' = [connector EXCEPT !.socket[fd] = x]
    BY <1>12 DEF Network, SocketState
  <2>2. Touched /\ connector'.connect_ = connector.connect_  BY <1>0, <2>1, TouchedWhen
  <2>. QED  BY <1>12, <2>2, TouchedLets DEF Network, loop
<1>. QED
  BY <1>1, <1>2, <1>3, <1>4, <1>5, <1>8, <1>9, <1>10, <1>11, <1>12
  DEF Next, LoopStep, UserStep, DestroyStep

\* What Lets makes of the queues.
LEMMA LetsQueues ==
    ASSUME TypeOK, Lets
    PROVE  /\ Has(task_', "StartInLoop") => Has(task_, "StartInLoop")
           /\ Has(task_', "ResetChannel") => Has(task_, "ResetChannel")
           /\ Has(task_', "StopInLoop") => Has(task_, "StopInLoop") \/ Stopped'
           /\ Once(task_) => Once(task_')
           /\ NoLone(task_) => NoLone(task_')
           /\ Ordered(task_) => Ordered(task_')
           /\ \A task : Has(batch', task) => Has(batch, task)
           /\ Once(batch) => Once(batch')
           /\ NoLone(batch) => NoLone(batch')
           /\ Ordered(batch) => Ordered(batch')
           /\ Follows(batch, 0) => Follows(batch', 0)
<1>0. task_ \in Seq(Task) /\ batch \in Seq(Task)  BY DEF TypeOK
<1>1. /\ \A task : Has(batch', task) => Has(batch, task)
      /\ Once(batch) => Once(batch')
      /\ NoLone(batch) => NoLone(batch')
      /\ Ordered(batch) => Ordered(batch')
      /\ Follows(batch, 0) => Follows(batch', 0)
  <2>1. CASE batch' = batch  BY <2>1
  <2>2. CASE batch # <<>> /\ Head(batch) # "StartInLoop" /\ batch' = Tail(batch)
    <3>. DEFINE r == Tail(batch)
    <3>1. /\ \A task : Has(r, task) => Has(batch, task)
          /\ Once(batch) => Once(r)
          /\ NoLone(batch) => NoLone(r)
          /\ Ordered(batch) => Ordered(r)
          /\ Follows(batch, 0) => Follows(r, 0)
      BY <1>0, <2>2, QueueTail
    <3>2. batch' = r  BY <2>2
    <3>. HIDE DEF r
    <3>. QED  BY <3>1, <3>2
  <2>. QED  BY <2>1, <2>2 DEF Lets
<1>2. /\ Has(task_', "StartInLoop") => Has(task_, "StartInLoop")
      /\ Has(task_', "ResetChannel") => Has(task_, "ResetChannel")
      /\ Has(task_', "StopInLoop") => Has(task_, "StopInLoop") \/ Stopped'
      /\ Once(task_) => Once(task_')
      /\ NoLone(task_) => NoLone(task_')
      /\ Ordered(task_) => Ordered(task_')
  <2>1. CASE task_' = task_  BY <2>1
  <2>2. ASSUME NEW x \in Task \ {"StartInLoop", "ResetChannel"}, task_' = Append(task_, x),
               x = "StopInLoop" => Stopped'
        PROVE  /\ Has(task_', "StartInLoop") => Has(task_, "StartInLoop")
               /\ Has(task_', "ResetChannel") => Has(task_, "ResetChannel")
               /\ Has(task_', "StopInLoop") => Has(task_, "StopInLoop") \/ Stopped'
               /\ Once(task_) => Once(task_')
               /\ NoLone(task_) => NoLone(task_')
               /\ Ordered(task_) => Ordered(task_')
    <3>. DEFINE r == Append(task_, x)
    <3>0. x \in Task /\ x # "StartInLoop" /\ x # "ResetChannel"  OBVIOUS
    <3>1. /\ \A task : Has(r, task) <=> Has(task_, task) \/ x = task
          /\ Once(task_) => Once(r)
          /\ NoLone(task_) => NoLone(r)
          /\ Ordered(task_) => Ordered(r)
      BY <1>0, <3>0, QueueAppend
    <3>2. task_' = r  BY <2>2
    <3>. HIDE DEF r
    <3>. QED  BY <2>2, <3>0, <3>1, <3>2
  <2>. QED  BY <2>1, <2>2 DEF Lets
<1>. QED  BY <1>1, <1>2

\* What a task that is added or taken makes of a queue, in the cases that are needed.
LEMMA Added ==
    ASSUME TypeOK, NEW x \in {"StartInLoop", "StopInLoop", "ResetChannel"}, task_' = Append(task_, x)
    PROVE  /\ \A task : Has(task_', task) <=> Has(task_, task) \/ x = task
           /\ Once(task_) /\ (x = "StartInLoop" => ~Has(task_, "StartInLoop")) => Once(task_')
           /\ NoLone(task_) /\ x # "ResetChannel" => NoLone(task_')
           /\ x = "StartInLoop" /\ ~Has(task_, "StopInLoop") => NoLone(task_')
           /\ Ordered(task_) /\ (x = "ResetChannel" => ~Has(task_, "StartInLoop")) => Ordered(task_')
<1>. DEFINE r == Append(task_, x)
<1>0. task_ \in Seq(Task) /\ x \in Task  BY DEF TypeOK, Task
<1>1. /\ \A task : Has(r, task) <=> Has(task_, task) \/ x = task
      /\ Once(task_) /\ (x = "StartInLoop" => ~Has(task_, "StartInLoop")) => Once(r)
      /\ NoLone(task_) /\ x # "ResetChannel" => NoLone(r)
      /\ x = "StartInLoop" /\ ~Has(task_, "StopInLoop") => NoLone(r)
      /\ Ordered(task_) /\ (x = "ResetChannel" => ~Has(task_, "StartInLoop")) => Ordered(r)
  BY <1>0, QueueAppend
<1>2. task_' = r  OBVIOUS
<1>. HIDE DEF r
<1>. QED  BY <1>1, <1>2

\* The same of the batch.
LEMMA TaskTaken ==
    ASSUME TypeOK, NEW x, Taking(x)
    PROVE  /\ \A task : Has(batch', task) => Has(batch, task)
           /\ Has(batch, x)
           /\ Once(batch) => Once(batch') /\ (x = "StartInLoop" => ~Has(batch', "StartInLoop"))
           /\ NoLone(batch) => NoLone(batch') /\ (x = "ResetChannel" => Follows(batch', 0))
           /\ Follows(batch, 0) /\ x # "StartInLoop" => x # "StopInLoop" /\ Follows(batch', 0)
           /\ Ordered(batch) => Ordered(batch') /\ (x = "StartInLoop" => ~Has(batch', "ResetChannel"))
<1>. DEFINE r == Tail(batch)
<1>0. batch \in Seq(Task) /\ batch # <<>> /\ Head(batch) = x  BY DEF TypeOK, Taking
<1>1. /\ \A task : Has(r, task) => Has(batch, task)
      /\ Has(batch, x)
      /\ Once(batch) => Once(r) /\ (x = "StartInLoop" => ~Has(r, "StartInLoop"))
      /\ NoLone(batch) => NoLone(r) /\ (x = "ResetChannel" => Follows(r, 0))
      /\ Follows(batch, 0) /\ x # "StartInLoop" => x # "StopInLoop" /\ Follows(r, 0)
      /\ Ordered(batch) => Ordered(r) /\ (x = "StartInLoop" => ~Has(r, "ResetChannel"))
  BY <1>0, QueueTail
<1>2. batch' = r  BY DEF Taking
<1>. HIDE DEF r
<1>. QED  BY <1>1, <1>2

-----------------------------------------------------------------------------
(* One Start().                                                             *)

\* The first call of Start().
LEMMA FirstCall ==
    ASSUME NEW n \in Nat, NEW k \in 0..n
    PROVE  k + 1 # 0 /\ (k + 1 <= 1 => k = 0) /\ (k = 0 => k <= 1) /\ (k # 0 => k > 0)
OBVIOUS

\* Every step that does not fail keeps count of what Start() has begun.
LEMMA OneStartStep ==
    ASSUME IInv, Next, failed' = ""
    PROVE  OneStart'
<1>0. TypeOK /\ Shape /\ Rounds /\ OneStart  BY Steps DEF Idling
<1>a. starts + 1 # 0 /\ (starts + 1 <= 1 => starts = 0) /\ (starts = 0 => starts <= 1)
  <2>1. starts \in 0..MaxStart /\ MaxStart \in Nat  BY <1>0, CallAssumption DEF TypeOK
  <2>. QED  BY <2>1, FirstCall
<1>1. CASE Lets
  <2>1. /\ Has(task_', "StartInLoop") => Has(task_, "StartInLoop")
        /\ Has(batch', "StartInLoop") => Has(batch, "StartInLoop")
        /\ Once(task_) => Once(task_')
        /\ Once(batch) => Once(batch')
    BY <1>0, <1>1, LetsQueues
  <2>2. UNCHANGED <<call, starts>> /\ (Taken' <=> Taken) /\ (Begun' <=> Begun)
    BY <1>1 DEF Lets, Taken, Begun
  <2>. QED  BY <1>0, <2>1, <2>2 DEF OneStart
<1>2. ASSUME NEW t \in Thread, Start(t) PROVE OneStart'
  <2>1. connector'.status_ = connector.status_ /\ connector'.rest = connector.rest
    BY <1>0, <1>2, WantedFields DEF Start, TypeOK
  <2>2. starts' = starts + 1 /\ UNCHANGED <<task_, batch>> /\ call' = [call EXCEPT ![t] = "Start"]
        /\ call \in [Thread -> {"", "Start", "Stop"}]
    BY <1>0, <1>2 DEF Start, TypeOK, loop
  <2>3. Taken' <=> Taken  BY <2>1 DEF Taken
  <2>4. starts' # 0 /\ (starts' <= 1 => starts = 0)
    <3>1. starts' = starts + 1  BY <2>2
    <3>. QED  BY <1>a, <3>1, Zenon
  <2>5. starts = 0 => \A u \in Thread : call'[u] = "Start" => u = t
    BY <1>0, <2>2 DEF OneStart, Begun
  <2>6. CASE starts = 0
    <3>1. ~Has(task_', "StartInLoop") /\ ~Has(batch', "StartInLoop") /\ ~Taken'
      BY <1>0, <2>2, <2>3, <2>6 DEF OneStart
    <3>2. (Once(task_) => Once(task_')) /\ (Once(batch) => Once(batch'))  BY <2>2
    <3>3. Once(task_) /\ Once(batch)
      <4>1. starts <= 1  BY <1>a, <2>6, Zenon
      <4>. QED  BY <1>0, <4>1 DEF OneStart
    <3>. QED  BY <2>4, <2>5, <3>1, <3>2, <3>3 DEF OneStart
  <2>7. CASE starts # 0  BY <2>4, <2>7 DEF OneStart
  <2>. QED  BY <2>6, <2>7
<1>3. ASSUME NEW t \in Thread, Stop(t) PROVE OneStart'
  <2>1. connector'.status_ = connector.status_ /\ connector'.rest = connector.rest
    BY <1>0, <1>3, WantedFields DEF Stop, TypeOK
  <2>2. UNCHANGED <<starts, task_, batch>> /\ call' = [call EXCEPT ![t] = "Stop"]
        /\ call \in [Thread -> {"", "Start", "Stop"}]
    BY <1>0, <1>3 DEF Stop, TypeOK, loop
  <2>3. Taken' <=> Taken  BY <2>1 DEF Taken
  <2>4. \A u \in Thread : call'[u] = "Start" => call[u] = "Start"  BY <2>2
  <2>5. Begun' => Begun  BY <2>4 DEF Begun
  <2>. QED  BY <1>0, <2>2, <2>3, <2>4, <2>5 DEF OneStart
<1>4. ASSUME NEW t \in Thread, QueueInLoop(t) PROVE OneStart'
  <2>1. /\ UNCHANGED <<starts, batch, connector>> /\ call' = [call EXCEPT ![t] = ""]
        /\ call \in [Thread -> {"", "Start", "Stop"}] /\ call[t] # ""
        /\ task_' = Append(task_, IF call[t] = "Start" THEN "StartInLoop" ELSE "StopInLoop")
    BY <1>0, <1>4 DEF QueueInLoop, TypeOK
  <2>2. \A u \in Thread : call'[u] = "Start" => call[u] = "Start" /\ u # t  BY <2>1
  <2>3. Taken' <=> Taken  BY <2>1 DEF Taken
  <2>4. Begun' => Begun  BY <2>2 DEF Begun
  <2>5. CASE call[t] = "Start"
    <3>1. task_' = Append(task_, "StartInLoop")  BY <2>1, <2>5
    <3>2. /\ Has(task_', "StartInLoop")
          /\ Once(task_) /\ ~Has(task_, "StartInLoop") => Once(task_')
      BY <1>0, <3>1, Added
    <3>3. Begun  BY <2>5 DEF Begun
    <3>4. starts <= 1 => ~Begun'  BY <1>0, <2>2, <2>5 DEF OneStart, Begun
    <3>. QED  BY <1>0, <2>1, <2>2, <2>3, <2>4, <3>2, <3>3, <3>4 DEF OneStart
  <2>6. CASE call[t] # "Start"
    <3>1. task_' = Append(task_, "StopInLoop")  BY <2>1, <2>6
    <3>2. /\ Has(task_', "StartInLoop") <=> Has(task_, "StartInLoop")
          /\ Once(task_) => Once(task_')
      BY <1>0, <3>1, Added
    <3>. QED  BY <1>0, <2>1, <2>2, <2>3, <2>4, <3>2 DEF OneStart
  <2>. QED  BY <2>5, <2>6
<1>5. CASE DoPendingTask
  <2>1. batch' = task_ /\ task_' = <<>> /\ UNCHANGED <<connector, call, starts>>
    BY <1>5 DEF DoPendingTask
  <2>2. ~Has(<<>>, "StartInLoop") /\ Once(<<>>)  BY QueueEmpty
  <2>3. (Taken' <=> Taken) /\ (Begun' <=> Begun)  BY <2>1 DEF Taken, Begun
  <2>. QED  BY <1>0, <2>1, <2>2, <2>3 DEF OneStart
<1>6. CASE Starting
  <2>1. Has(batch, "StartInLoop") /\ (Once(batch) => ~Has(batch', "StartInLoop") /\ Once(batch'))
    BY <1>0, <1>6, TaskTaken DEF Starting
  <2>2. UNCHANGED <<call, starts, task_>>  BY <1>6 DEF Starting, Still, Idle, Attempted, Repeated
  <2>3. Begun' <=> Begun  BY <2>2 DEF Begun
  <2>. QED  BY <1>0, <2>1, <2>2, <2>3 DEF OneStart
<1>7. CASE Removing
  <2>1. task_' = Append(task_, "ResetChannel") /\ UNCHANGED <<call, starts>>
    BY <1>7 DEF Removing, Removed, Still
  <2>2. (Has(task_', "StartInLoop") <=> Has(task_, "StartInLoop")) /\ (Once(task_) => Once(task_'))
    BY <1>0, <2>1, Added
  <2>3. (Has(batch', "StartInLoop") => Has(batch, "StartInLoop")) /\ (Once(batch) => Once(batch'))
    BY <1>0, <1>7, TaskTaken DEF Removing
  <2>4. Taken /\ (Begun' <=> Begun)  BY <1>7, <2>1 DEF Removing, Removed, Taken, Begun
  <2>. QED  BY <1>0, <2>1, <2>2, <2>3, <2>4 DEF OneStart
<1>8. CASE Dooming
  <2>1. (Has(batch', "StartInLoop") => Has(batch, "StartInLoop")) /\ (Once(batch) => Once(batch'))
    BY <1>0, <1>8, TaskTaken DEF Dooming
  <2>2. UNCHANGED <<call, starts, task_>> /\ connector'.status_ = connector.status_
        /\ connector'.rest = connector.rest
    BY <1>8 DEF Dooming, Still, Reset
  <2>3. (Taken' <=> Taken) /\ (Begun' <=> Begun)  BY <2>2 DEF Taken, Begun
  <2>. QED  BY <1>0, <2>1, <2>2, <2>3 DEF OneStart
<1>9. CASE Going
  <2>1. UNCHANGED <<call, starts, batch>> /\ Taken
    BY <1>9 DEF Going, Still, Retried, Made, Requeued, Taken
  <2>2. Begun' <=> Begun  BY <2>1 DEF Begun
  <2>3. CASE UNCHANGED task_  BY <1>0, <2>1, <2>2, <2>3 DEF OneStart
  <2>4. CASE Requeued
    <3>1. /\ Has(task_', "StartInLoop")
          /\ Once(task_) /\ ~Has(task_, "StartInLoop") => Once(task_')
      BY <1>0, <2>4, Added DEF Requeued
    <3>2. ~Taken'  BY <1>0, <2>4 DEF Requeued, Shape, Taken
    <3>. QED  BY <1>0, <2>1, <2>2, <3>1, <3>2 DEF OneStart
  <2>. QED  BY <1>9, <2>3, <2>4 DEF Going, Retried, Made
<1>. QED  BY <1>1, <1>2, <1>3, <1>4, <1>5, <1>6, <1>7, <1>8, <1>9, Kinds

-----------------------------------------------------------------------------
(* No Stop().                                                               *)

\* No task follows a ResetChannel() in an empty queue.
LEMMA DoomedBatch ==
    ASSUME NeverStopped, batch = <<>>
    PROVE  ~Doomed
BY QueueEmpty DEF NeverStopped

\* Without a Stop(), every step that does not fail leaves each ResetChannel() a StartInLoop()
\* that fails behind it.
LEMMA NeverStoppedStep ==
    ASSUME IInv, Next, failed' = "", stops' = 0
    PROVE  NeverStopped'
<1>0. TypeOK /\ Shape /\ Rounds /\ OneStart  BY Steps DEF Idling
<1>a. stops = 0 /\ stops \in 0..MaxStop /\ MaxStop \in Nat
  <2>1. stops \in 0..MaxStop /\ MaxStop \in Nat  BY <1>0, CallAssumption DEF TypeOK
  <2>2. stops + 1 # 0  BY <2>1, FirstCall
  <2>3. stops' = stops \/ stops' = stops + 1
    BY DEF Next, LoopStep, UserStep, DestroyStep, GoOn, Poll, HandleEvent, DoPendingTask,
           RunConnectorTask, RunConnectionTask, QueueInLoop, DestroyConnected, DestroyConnecting,
           Connection, Release, Destroy, DestroyInLoop, Start, Stop, Network
  <2>. QED  BY <2>1, <2>2, <2>3, Zenon
<1>b. NeverStopped  BY <1>a, Steps
<1>c. connector.status_ \in {"DISCONNECTED", "CONNECTING", "CONNECTED"} /\ connector.channel_ \in Fd \cup {NoFd}
  BY <1>0, StateFields DEF TypeOK
\* Attempts and the end of one: connect_ and the client are what they were.
<1>d. ASSUME Running, Still
      PROVE  /\ Stopped' <=> Stopped
             /\ starts' > 0 /\ life' = "alive" => connector'.connect_
             /\ \A t \in Thread : call'[t] # "Stop"
  BY <1>b, <1>d DEF Running, Still, Stopped, NeverStopped
<1>1. CASE Lets
  <2>1. /\ Has(task_', "StopInLoop") => Has(task_, "StopInLoop") \/ Stopped'
        /\ NoLone(task_) => NoLone(task_')
        /\ Has(batch', "StopInLoop") => Has(batch, "StopInLoop")
        /\ NoLone(batch) => NoLone(batch')
        /\ Follows(batch, 0) => Follows(batch', 0)
    BY <1>0, <1>1, LetsQueues
  <2>2. Stopped => Stopped'  BY <1>1 DEF Lets, Stopped
  <2>3. Doomed' => Doomed  BY <1>1 DEF Lets, Doomed
  <2>4. /\ starts' > 0 /\ life' = "alive" => connector'.connect_
        /\ \A t \in Thread : call'[t] # "Stop"
    BY <1>1, <1>b DEF Lets, NeverStopped
  <2>5. connector'.status_ = connector.status_ /\ connector'.rest = connector.rest
    BY <1>1 DEF Lets
  <2>. QED  BY <1>b, <2>1, <2>2, <2>3, <2>4, <2>5 DEF NeverStopped
<1>2. ASSUME NEW t \in Thread, Start(t) PROVE NeverStopped'
  <2>1. /\ connector'.status_ = connector.status_ /\ connector'.rest = connector.rest
        /\ connector'.channel_ = connector.channel_ /\ connector'.connect_ = TRUE
    BY <1>0, <1>2, WantedFields DEF Start, TypeOK
  <2>2. UNCHANGED <<task_, batch>> /\ call' = [call EXCEPT ![t] = "Start"] /\ ~Stopped
        /\ call \in [Thread -> {"", "Start", "Stop"}]
    BY <1>0, <1>2 DEF Start, TypeOK, loop, Stopped
  <2>3. Doomed' <=> Doomed  BY <2>1 DEF Doomed
  <2>4. \A u \in Thread : call'[u] # "Stop"  BY <1>b, <2>2 DEF NeverStopped
  <2>. QED  BY <1>b, <2>1, <2>2, <2>3, <2>4 DEF NeverStopped
<1>3. ASSUME NEW t \in Thread, Stop(t) PROVE NeverStopped'
  <2>1. stops' = stops + 1  BY <1>3 DEF Stop
  <2>2. stops + 1 # 0  BY <1>a, FirstCall
  <2>. QED  BY <2>1, <2>2, Zenon
<1>4. ASSUME NEW t \in Thread, QueueInLoop(t) PROVE NeverStopped'
  <2>1. /\ UNCHANGED <<starts, batch, connector, life>> /\ call' = [call EXCEPT ![t] = ""]
        /\ call \in [Thread -> {"", "Start", "Stop"}] /\ call[t] = "Start"
        /\ task_' = Append(task_, "StartInLoop")
    BY <1>0, <1>4, <1>b DEF QueueInLoop, TypeOK, NeverStopped
  <2>2. /\ Has(task_', "StopInLoop") => Has(task_, "StopInLoop")
        /\ NoLone(task_) => NoLone(task_')
    BY <1>0, <2>1, Added
  <2>3. (Doomed' <=> Doomed) /\ (Stopped' <=> Stopped)  BY <2>1 DEF Doomed, Stopped
  <2>4. \A u \in Thread : call'[u] # "Stop"  BY <1>b, <2>1 DEF NeverStopped
  <2>. QED  BY <1>b, <2>1, <2>2, <2>3, <2>4 DEF NeverStopped
<1>5. CASE DoPendingTask /\ connector.rest = ""
  <2>1. batch' = task_ /\ task_' = <<>> /\ batch = <<>> /\ UNCHANGED <<connector, call, starts, life>>
    BY <1>0, <1>5 DEF DoPendingTask, Rounds
  <2>2. ~Has(<<>>, "StopInLoop") /\ NoLone(<<>>)  BY QueueEmpty
  <2>3. ~Doomed /\ (Doomed' <=> Doomed) /\ (Stopped' <=> Stopped)
    BY <1>b, <2>1, DoomedBatch DEF Doomed, Stopped
  <2>4. \A u \in Thread : call'[u] # "Stop"  BY <1>b, <2>1 DEF NeverStopped
  <2>. QED  BY <1>5, <1>b, <2>1, <2>2, <2>3, <2>4 DEF NeverStopped
<1>6. CASE Starting
  <2>1. NoLone(batch) => NoLone(batch')  BY <1>0, <1>6, TaskTaken DEF Starting
  <2>2. Has(batch', "StopInLoop") => Has(batch, "StopInLoop")  BY <1>0, <1>6, TaskTaken DEF Starting
  <2>3. task_' = task_ /\ Running /\ Still
    BY <1>6 DEF Starting, Idle, Attempted, Repeated
  <2>4. CASE Idle
    <3>1. connector'.status_ = "DISCONNECTED" /\ connector'.rest = ""  BY <1>6, <2>4 DEF Idle, Starting
    <3>2. ~Doomed'  BY <3>1 DEF Doomed
    <3>3. Stopped \/ (NoLone(task_) /\ NoLone(batch))  BY <1>6, <1>b DEF Starting, NeverStopped
    <3>. QED  BY <1>b, <1>d, <2>1, <2>2, <2>3, <3>1, <3>2, <3>3 DEF NeverStopped
  <2>5. CASE Attempted
    <3>1. connector'.status_ = "CONNECTING" /\ connector'.rest = "" /\ connector'.channel_ # NoFd
          /\ connector.connect_
      BY <2>5, NoFdNone DEF Attempted
    <3>2. ~Doomed' /\ ~Stopped  BY <3>1 DEF Doomed, Stopped
    <3>3. NoLone(task_) /\ NoLone(batch)  BY <1>6, <1>b, <3>2 DEF Starting, NeverStopped
    <3>. QED  BY <1>b, <1>d, <2>1, <2>2, <2>3, <3>1, <3>2, <3>3 DEF NeverStopped
  <2>6. CASE Repeated
    <3>1. connector'.status_ = "DISCONNECTED" /\ connector'.rest = "StartInLoop"
      BY <2>6 DEF Repeated
    <3>2. ~Doomed'  BY <3>1 DEF Doomed
    <3>3. Stopped \/ NoLone(batch)  BY <1>6, <1>b DEF Starting, NeverStopped
    <3>. QED  BY <1>b, <1>d, <2>1, <2>2, <2>3, <3>1, <3>2, <3>3 DEF NeverStopped
  <2>. QED  BY <1>6, <2>4, <2>5, <2>6 DEF Starting
<1>7. CASE Removing
  <2>1. task_' = Append(task_, "ResetChannel") /\ Running /\ Still
        /\ connector.status_ = "CONNECTING" /\ connector.rest = ""
        /\ connector'.rest # "" /\ connector'.channel_ # NoFd
    BY <1>7, NoFdNone DEF Removing, Removed
  <2>2. Has(task_', "StopInLoop") => Has(task_, "StopInLoop")  BY <1>0, <2>1, Added
  <2>3. /\ NoLone(batch) => NoLone(batch')
        /\ Has(batch', "StopInLoop") => Has(batch, "StopInLoop")
    BY <1>0, <1>7, TaskTaken DEF Removing
  <2>4. ~Doomed'  BY <2>1 DEF Doomed
  <2>. QED  BY <1>b, <1>d, <2>1, <2>2, <2>3, <2>4 DEF NeverStopped
<1>8. CASE Dooming
  <2>1. UNCHANGED task_ /\ Running /\ Still
        /\ connector.status_ = "CONNECTING" /\ connector.rest = ""
        /\ connector'.status_ = "CONNECTING" /\ connector'.rest = ""
    BY <1>8 DEF Dooming, Reset
  <2>2. /\ NoLone(batch) => NoLone(batch') /\ Follows(batch', 0)
        /\ Has(batch', "StopInLoop") => Has(batch, "StopInLoop")
    BY <1>0, <1>8, TaskTaken DEF Dooming
  <2>. QED  BY <1>b, <1>d, <2>1, <2>2 DEF NeverStopped
<1>9. CASE Going
  <2>1. batch' = batch /\ Running /\ Still /\ connector.rest # ""
    BY <1>9 DEF Going, Retried, Made, Requeued
  <2>2. Stopped \/ NoLone(batch)  BY <1>b, <2>1 DEF NeverStopped
  <2>3. CASE Retried
    <3>1. task_' = task_ /\ connector'.status_ = "DISCONNECTED"
          /\ connector'.rest = IF connector.connect_ THEN "StartInLoop" ELSE ""
      BY <2>3 DEF Retried
    <3>2. ~Doomed'  BY <3>1 DEF Doomed
    <3>3. connector'.rest = "" => Stopped
      <4>1. Taken  BY <2>1 DEF Taken
      <4>2. starts # 0  BY <1>0, <4>1 DEF OneStart
      <4>3. starts > 0
        <5>1. starts \in 0..MaxStart /\ MaxStart \in Nat  BY <1>0, CallAssumption DEF TypeOK
        <5>. QED  BY <4>2, <5>1, FirstCall
      <4>. QED  BY <1>b, <3>1, <4>3 DEF NeverStopped, Stopped
    <3>. QED  BY <1>b, <1>d, <2>1, <2>2, <3>1, <3>2, <3>3 DEF NeverStopped
  <2>4. CASE Made
    <3>1. task_' = task_ /\ connector'.status_ = "CONNECTED" /\ connector'.rest = ""
      BY <2>4 DEF Made
    <3>2. ~Doomed'  BY <3>1 DEF Doomed
    <3>. QED  BY <1>b, <1>d, <2>1, <3>1, <3>2 DEF NeverStopped
  <2>5. CASE Requeued
    <3>1. task_' = Append(task_, "StartInLoop") /\ connector'.rest = ""
          /\ connector'.status_ = "DISCONNECTED"
      BY <1>0, <2>5 DEF Requeued, Shape
    <3>2. /\ Has(task_', "StopInLoop") => Has(task_, "StopInLoop")
          /\ ~Has(task_, "StopInLoop") => NoLone(task_')
      BY <1>0, <3>1, Added
    <3>3. ~Doomed'  BY <3>1 DEF Doomed
    <3>4. Stopped \/ NoLone(task_')  BY <1>b, <3>2 DEF NeverStopped
    <3>. QED  BY <1>b, <1>d, <2>1, <2>2, <3>1, <3>2, <3>3, <3>4 DEF NeverStopped
  <2>. QED  BY <1>9, <2>3, <2>4, <2>5 DEF Going
<1>. QED  BY <1>1, <1>2, <1>3, <1>4, <1>5, <1>6, <1>7, <1>8, <1>9, Kinds

-----------------------------------------------------------------------------
(* At most one Start().                                                     *)

\* A step that leaves the queues and the attempt as they were.
LEMMA StartedOnceSame ==
    ASSUME StartedOnce, UNCHANGED <<task_, batch>>, connector'.status_ = connector.status_,
           connector'.rest = connector.rest, connector'.channel_ = connector.channel_
    PROVE  StartedOnce'
<1>1. Doomed' <=> Doomed  BY DEF Doomed
<1>. QED  BY <1>1 DEF StartedOnce

\* With one Start() at most, every step that does not fail lets no ResetChannel() meet a later
\* attempt.
LEMMA StartedOnceStep ==
    ASSUME IInv, Next, failed' = "", starts' <= 1
    PROVE  StartedOnce'
<1>0. TypeOK /\ Shape /\ Rounds /\ OneStart  BY Steps DEF Idling
<1>a. starts <= 1
  <2>1. starts \in 0..MaxStart /\ MaxStart \in Nat  BY <1>0, CallAssumption DEF TypeOK
  <2>2. starts' = starts \/ starts' = starts + 1
    BY DEF Next, LoopStep, UserStep, DestroyStep, GoOn, Poll, HandleEvent, DoPendingTask,
           RunConnectorTask, RunConnectionTask, QueueInLoop, DestroyConnected, DestroyConnecting,
           Connection, Release, Destroy, DestroyInLoop, Start, Stop, Network
  <2>3. starts + 1 <= 1 => starts <= 1  BY <2>1, FirstCall
  <2>. QED  BY <2>2, <2>3, Zenon
<1>b. StartedOnce  BY <1>a, Steps
<1>1. CASE Lets
  <2>1. /\ Has(task_', "ResetChannel") => Has(task_, "ResetChannel")
        /\ Ordered(task_) => Ordered(task_')
        /\ \A task : Has(batch', task) => Has(batch, task)
        /\ Ordered(batch) => Ordered(batch')
    BY <1>0, <1>1, LetsQueues
  <2>2. Doomed' => Doomed  BY <1>1 DEF Lets, Doomed
  <2>3. connector'.status_ = connector.status_ /\ connector'.rest = connector.rest
    BY <1>1 DEF Lets
  <2>. QED  BY <1>b, <2>1, <2>2, <2>3 DEF StartedOnce
<1>2. ASSUME NEW t \in Thread, Start(t) \/ Stop(t) PROVE StartedOnce'
  <2>1. /\ connector'.status_ = connector.status_ /\ connector'.rest = connector.rest
        /\ connector'.channel_ = connector.channel_
    BY <1>0, <1>2, WantedFields DEF Start, Stop, TypeOK
  <2>. QED  BY <1>2, <1>b, <2>1, StartedOnceSame DEF Start, Stop, loop
<1>3. ASSUME NEW t \in Thread, QueueInLoop(t) PROVE StartedOnce'
  <2>1. /\ UNCHANGED <<batch, connector>>
        /\ \E x \in {"StartInLoop", "StopInLoop"} : task_' = Append(task_, x)
    BY <1>3 DEF QueueInLoop
  <2>2. /\ Has(task_', "ResetChannel") => Has(task_, "ResetChannel")
        /\ Ordered(task_) => Ordered(task_')
    BY <1>0, <2>1, Added
  <2>3. Doomed' <=> Doomed  BY <2>1 DEF Doomed
  <2>. QED  BY <1>b, <2>1, <2>2, <2>3 DEF StartedOnce
<1>4. CASE DoPendingTask
  <2>1. batch' = task_ /\ task_' = <<>> /\ UNCHANGED connector
    BY <1>4 DEF DoPendingTask
  <2>2. ~Has(<<>>, "ResetChannel") /\ Ordered(<<>>)  BY QueueEmpty
  <2>3. Doomed' <=> Doomed  BY <2>1 DEF Doomed
  <2>. QED  BY <1>b, <2>1, <2>2, <2>3 DEF StartedOnce
<1>5. CASE Starting
  <2>1. /\ Has(batch, "StartInLoop")
        /\ Ordered(batch) => Ordered(batch') /\ ~Has(batch', "ResetChannel")
    BY <1>0, <1>5, TaskTaken DEF Starting
  <2>2. task_' = task_  BY <1>5 DEF Starting, Idle, Attempted, Repeated
  <2>3. ~Doomed'
    BY <1>5, NoFdNone DEF Starting, Idle, Attempted, Repeated, Doomed
  <2>. QED  BY <1>b, <2>1, <2>2, <2>3 DEF StartedOnce
<1>6. CASE Removing
  <2>1. task_' = Append(task_, "ResetChannel") /\ connector'.rest # "" /\ connector'.channel_ # NoFd
    BY <1>6, NoFdNone DEF Removing, Removed
  <2>2. Taken  BY <1>6 DEF Removing, Removed, Taken
  <2>3. ~Has(task_, "StartInLoop") /\ ~Has(batch, "StartInLoop")
    BY <1>0, <1>a, <2>2 DEF OneStart
  <2>4. Ordered(task_) => Ordered(task_')  BY <1>0, <2>1, <2>3, Added
  <2>5. /\ Ordered(batch) => Ordered(batch')
        /\ Has(batch', "StartInLoop") => Has(batch, "StartInLoop")
    BY <1>0, <1>6, TaskTaken DEF Removing
  <2>6. ~Doomed'  BY <2>1 DEF Doomed
  <2>. QED  BY <1>b, <2>1, <2>3, <2>4, <2>5, <2>6 DEF StartedOnce
<1>7. CASE Dooming
  <2>1. Has(batch, "ResetChannel") /\ connector.rest = "" /\ connector.status_ = "CONNECTING"
    BY <1>0, <1>7, TaskTaken DEF Dooming
  <2>. QED  BY <1>b, <2>1 DEF StartedOnce
<1>8. CASE Going
  <2>1. batch' = batch  BY <1>8 DEF Going
  <2>2. CASE Retried \/ Made
    <3>1. task_' = task_ /\ connector'.status_ # "CONNECTING"  BY <2>2 DEF Retried, Made
    <3>2. ~Doomed'  BY <3>1 DEF Doomed
    <3>. QED  BY <1>b, <2>1, <3>1, <3>2 DEF StartedOnce
  <2>3. CASE Requeued
    <3>1. task_' = Append(task_, "StartInLoop") /\ connector'.status_ # "CONNECTING"
      BY <1>0, <2>3 DEF Requeued, Shape
    <3>2. /\ Has(task_', "ResetChannel") => Has(task_, "ResetChannel")
          /\ Ordered(task_) => Ordered(task_')
      BY <1>0, <3>1, Added
    <3>3. ~Doomed'  BY <3>1 DEF Doomed
    <3>. QED  BY <1>b, <2>1, <3>1, <3>2, <3>3 DEF StartedOnce
  <2>. QED  BY <1>8, <2>2, <2>3 DEF Going
<1>. QED  BY <1>1, <1>2, <1>3, <1>4, <1>5, <1>6, <1>7, <1>8, Kinds

-----------------------------------------------------------------------------
(* What goes wrong, and when.                                               *)

\* A ResetChannel() has doomed an attempt only if Start() was called twice and, as nothing is
\* queued that would fail behind it, Stop() too.
LEMMA DoomedWhen ==
    ASSUME IInv, Next, Doomed
    PROVE  starts > 1 /\ (batch = <<>> \/ Taking("StopInLoop") => stops > 0)
<1>0. TypeOK  BY Steps DEF Idling
<1>1. starts > 1
  <2>1. ~(starts <= 1)  BY Steps DEF StartedOnce
  <2>2. starts \in 0..MaxStart /\ MaxStart \in Nat  BY <1>0, CallAssumption DEF TypeOK
  <2>. QED  BY <2>1, <2>2, FirstCall
<1>2. ASSUME batch = <<>> \/ Taking("StopInLoop") PROVE stops > 0
  <2>1. stops # 0
    <3>1. ASSUME stops = 0 PROVE FALSE
      <4>1. NeverStopped  BY <3>1, Steps
      <4>2. Follows(batch, 0)  BY <4>1 DEF NeverStopped
      <4>3. batch # <<>>  BY <4>2, QueueEmpty
      <4>4. Taking("StopInLoop")  BY <1>2, <4>3
      <4>. QED  BY <1>0, <4>2, <4>4, TaskTaken
    <3>. QED  BY <3>1
  <2>2. stops \in 0..MaxStop /\ MaxStop \in Nat  BY <1>0, CallAssumption DEF TypeOK
  <2>. QED  BY <2>1, <2>2, FirstCall
<1>. QED  BY <1>1, <1>2

\* Whatever fails, fails under its condition.
LEMMA FailsOnlyWhenStep ==
    ASSUME IInv, Next
    PROVE  FailsOnlyWhen'
<1>0. TypeOK /\ Shape /\ Rounds /\ OneStart /\ Idling /\ failed = ""  BY Steps DEF Idling
<1>a. connector.status_ \in {"DISCONNECTED", "CONNECTING", "CONNECTED"}
      /\ connection_ \in Fd \cup {NoFd}
  BY <1>0, IdlingState
<1>1. CASE failed' = ""  BY <1>1 DEF FailsOnlyWhen
\* HandleClose() of a client that is no more.
<1>2. ASSUME NEW fd \in Fd, Closed(fd), connection_ # NoFd, UNCHANGED life
      PROVE  FailsOnlyWhen'
  <2>1. failed' = "client" => life \in Destroyed /\ close_callback_ # "RemoveConnect"
    BY <1>0, <1>2 DEF Closed
  <2>2. failed' = "client" => life = "by thread"
    BY <1>0, <1>2, <2>1 DEF Rounds, Destroyed
  <2>3. failed' \in {"", "index", "client", "RemoveConnection"}  BY <1>0, <1>2 DEF Closed
  <2>. QED  BY <1>2, <2>2, <2>3 DEF FailsOnlyWhen
<1>3. CASE HandleEvent /\ connector.rest = ""
  <2>. DEFINE fd == Head(active)[1]
  <2>1. UNCHANGED <<life, starts, stops>> /\ batch = <<>> /\ fd \in Fd
    BY <1>0, <1>3, HandledEvent DEF HandleEvent, Rounds
  <2>2. Doomed /\ failed' = "channel" => FailsOnlyWhen'
    BY <2>1, DoomedWhen DEF FailsOnlyWhen
  <2>3. CASE connector.list[fd] = "destroyed"
             /\ failed' = IF fd = connection_ THEN "connection" ELSE "channel"
    <3>1. CASE fd = connection_
      <4>1. connector.status_ = "CONNECTED"  BY <1>0, <2>1, <3>1, NoFdNone DEF Shape
      <4>2. life \in {"by thread", "shared in loop"}  BY <1>0, <2>1, <2>3, <3>1, <4>1 DEF Shape
      <4>. QED  BY <2>1, <2>3, <3>1, <4>2 DEF FailsOnlyWhen
    <3>2. CASE fd # connection_
      <4>1. connector.status_ = "CONNECTING"
        BY <1>0, <1>a, <1>3, <2>1, <2>3, <3>2 DEF Shape, OnlyAt
      <4>2. PICK a \in Fd :
                /\ OnlyAt(connector, {a})
                /\ \/ connector.channel_ = a /\ connector.list[a] = "connector"
                   \/ connector.channel_ = NoFd /\ connector.list[a] = "destroyed"
        BY <1>0, <1>3, <4>1 DEF Shape
      <4>3. fd = a  BY <2>1, <2>3, <4>2 DEF OnlyAt
      <4>4. Doomed  BY <2>3, <4>1, <4>2, <4>3 DEF Doomed
      <4>. QED  BY <2>2, <2>3, <3>2, <4>4
    <3>. QED  BY <3>1, <3>2
  <2>4. CASE Head(active)[2] = "close" /\ Closed(fd)
    <3>1. connection_ # NoFd  BY <1>0, <1>3, <2>4, HandledEvent DEF Rounds
    <3>. QED  BY <1>2, <2>1, <2>4, <3>1
  <2>5. Idle \/ Removed => failed' = ""  BY DEF Idle, Removed
  <2>6. failed' = "HandleWrite" => FailsOnlyWhen'  BY DEF FailsOnlyWhen
  <2>. QED  BY <1>0, <1>1, <1>3, <2>2, <2>3, <2>4, <2>5, <2>6, EventMoves
<1>4. ASSUME connector.rest = "", NEW answer \in Answer, RunConnectorTask(answer)
      PROVE  FailsOnlyWhen'
  <2>1. UNCHANGED <<life, starts, stops>> /\ batch # <<>> /\ batch' = Tail(batch)
    BY <1>4 DEF RunConnectorTask
  <2>2. CASE Head(batch) = "StartInLoop" /\ failed' = "StartInLoop"
             /\ connector.status_ # "DISCONNECTED"
    <3>1. Taking("StartInLoop") /\ Taken  BY <2>1, <2>2 DEF Taking, Taken
    <3>2. Has(batch, "StartInLoop")  BY <1>0, <3>1, TaskTaken
    <3>3. ~(starts <= 1)  BY <1>0, <3>1, <3>2 DEF OneStart
    <3>4. starts > 1
      <4>1. starts \in 0..MaxStart /\ MaxStart \in Nat  BY <1>0, CallAssumption DEF TypeOK
      <4>. QED  BY <3>3, <4>1, FirstCall
    <3>. QED  BY <2>1, <2>2, <3>4 DEF FailsOnlyWhen
  <2>3. CASE Head(batch) = "StopInLoop" /\ Doomed /\ failed' = "channel"
    <3>1. Taking("StopInLoop")  BY <2>1, <2>3 DEF Taking
    <3>. QED  BY <2>1, <2>3, <3>1, DoomedWhen DEF FailsOnlyWhen
  <2>4. Idle \/ Attempted \/ Repeated \/ Removed \/ Reset => failed' = ""
    BY DEF Idle, Attempted, Repeated, Removed, Reset
  <2>. QED  BY <1>0, <1>1, <1>4, <2>2, <2>3, <2>4, TaskMoves
<1>5. CASE GoOn
  <2>1. Retried \/ Made \/ Requeued  BY <1>0, <1>5, RestAfter DEF GoOn
  <2>2. CASE Retried \/ Requeued  BY <1>1, <2>2 DEF Retried, Requeued
  <2>3. CASE Made
    <3>1. connection_ = NoFd  BY <1>0, <2>3 DEF Made, Shape
    <3>2. failed' # "" => /\ failed' = "client" /\ connector.connect_ /\ life \in Destroyed
      BY <2>3 DEF Made
    <3>3. failed' # "" => life = "by thread"  BY <1>0, <3>1, <3>2 DEF Rounds, Destroyed
    <3>4. life' = life  BY <1>5 DEF GoOn
    <3>. QED  BY <1>1, <3>2, <3>3, <3>4 DEF FailsOnlyWhen
  <2>. QED  BY <2>1, <2>2, <2>3
<1>6. CASE RunConnectionTask
  <2>1. UNCHANGED <<connection_, life>> /\ batch # <<>>  BY <1>6 DEF RunConnectionTask
  <2>2. CASE Head(batch) = "ForceCloseInLoop" /\ Closed(connection_)
    <3>1. connection_ # NoFd
      BY <1>0, <2>1, <2>2, QueueTail DEF Rounds, TypeOK
    <3>. QED  BY <1>2, <1>a, <2>1, <2>2, <3>1
  <2>3. CASE failed' \in {"index", failed}  BY <1>0, <2>3 DEF FailsOnlyWhen
  <2>. QED  BY <1>6, <2>2, <2>3 DEF RunConnectionTask
<1>7. CASE UNCHANGED failed  BY <1>0, <1>1, <1>7
<1>. QED
  BY <1>3, <1>4, <1>5, <1>6, <1>7
  DEF Next, LoopStep, UserStep, DestroyStep, QueueInLoop, Connection, Release, Destroy,
      DestroyInLoop, DestroyConnected, DestroyConnecting, Poll, DoPendingTask, Network,
      Start, Stop

-----------------------------------------------------------------------------
(* The theorems.                                                            *)

\* A client that nobody has called satisfies the invariant.
LEMMA InitInv == Init => IInv
<1>. SUFFICES ASSUME Init PROVE IInv  OBVIOUS
<1>1. /\ connector.status_ = "DISCONNECTED" /\ connector.connect_ = FALSE
      /\ connector.channel_ = NoFd /\ connector.queued = <<>> /\ connector.handed = NoFd
      /\ connector.rest = "" /\ connector.failed = ""
      /\ \A fd \in Fd : connector.socket[fd] = "none" /\ connector.list[fd] = "nobody"
  BY DEF Init
<1>2. connector \in State
  <2>1. <<>> \in Seq({"StartInLoop", "ResetChannel"})  OBVIOUS
  <2>2. [fd \in Fd |-> "none"] \in [Fd -> SocketState] /\ [fd \in Fd |-> "nobody"] \in [Fd -> Entry]
    BY DEF SocketState, Entry
  <2>3. connector = [connect_ |-> FALSE, status_ |-> "DISCONNECTED", channel_ |-> NoFd,
                     socket |-> [fd \in Fd |-> "none"], list |-> [fd \in Fd |-> "nobody"],
                     queued |-> <<>>, rest |-> "", handed |-> NoFd, failed |-> ""]
    BY DEF Init
  <2>. QED  BY <2>1, <2>2, <2>3 DEF State
<1>3. TypeOK
  <2>1. 0 \in 0..MaxStart /\ 0 \in 0..MaxStop
    <3>1. MaxStart \in Nat /\ MaxStop \in Nat  BY CallAssumption
    <3>2. \A n \in Nat : 0 \in 0..n  OBVIOUS
    <3>. QED  BY <3>1, <3>2, Zenon
  <2>2. active \in Seq(Fd \X {"error", "write", "close"}) /\ task_ \in Seq(Task) /\ batch \in Seq(Task)
    <3>1. <<>> \in Seq(Fd \X {"error", "write", "close"}) /\ <<>> \in Seq(Task)  OBVIOUS
    <3>2. active = <<>> /\ task_ = <<>> /\ batch = <<>>  BY DEF Init
    <3>. QED  BY <3>1, <3>2, Zenon
  <2>3. call \in [Thread -> {"", "Start", "Stop"}]  BY DEF Init
  <2>. QED  BY <1>1, <1>2, <2>1, <2>2, <2>3 DEF Init, TypeOK
<1>4. failed = "" /\ starts = 0 /\ life = "alive" /\ connection_ = NoFd /\ ~held
      /\ active = <<>> /\ ~handling /\ task_ = <<>> /\ batch = <<>>
      /\ \A t \in Thread : call[t] = ""
  BY DEF Init
<1>5. \A task : ~Has(<<>>, task)  BY QueueEmpty
<1>6. Shape  BY <1>1, <1>4 DEF Shape, OnlyAt
<1>7. Rounds
  <2>1. \A i \in 1..Len(active) : FALSE  BY <1>4, QueueEmpty DEF Has
  <2>. QED  BY <1>4, <1>5, <2>1 DEF Rounds
<1>8. OneStart  BY <1>1, <1>4, <1>5, QueueEmpty DEF OneStart, Begun, Taken
<1>9. ~Doomed  BY <1>1 DEF Doomed
<1>10. NeverStopped
  <2>1. ~(starts > 0)
    <3>1. ~(0 > 0)  OBVIOUS
    <3>. QED  BY <1>4, <3>1, Zenon
  <2>2. NoLone(task_) /\ NoLone(batch) /\ ~Has(task_, "StopInLoop") /\ ~Has(batch, "StopInLoop")
    BY <1>4, <1>5, QueueEmpty
  <2>3. \A t \in Thread : call[t] # "Stop"  BY <1>4
  <2>. QED  BY <1>9, <2>1, <2>2, <2>3, Zenon DEF NeverStopped
<1>11. StartedOnce  BY <1>1, <1>4, <1>5, <1>9, QueueEmpty DEF StartedOnce
<1>. QED  BY <1>3, <1>4, <1>6, <1>7, <1>8, <1>10, <1>11 DEF IInv, FailsOnlyWhen

\* A step that changes nothing.
LEMMA StutterInv == IInv /\ UNCHANGED vars => IInv'
<1>. SUFFICES ASSUME IInv, UNCHANGED vars PROVE IInv'  OBVIOUS
<1>1. UNCHANGED <<connector, connection_, held, close_callback_, life, active, handling, task_,
                  batch, call, starts, stops, failed>>
  BY DEF vars, loop
<1>2. (TypeOK' <=> TypeOK) /\ (FailsOnlyWhen' <=> FailsOnlyWhen) /\ (Shape' <=> Shape)
  BY <1>1 DEF TypeOK, FailsOnlyWhen, Shape
<1>3. Rounds' <=> Rounds  BY <1>1 DEF Rounds
<1>4. (Doomed' <=> Doomed) /\ (Stopped' <=> Stopped) /\ (Begun' <=> Begun) /\ (Taken' <=> Taken)
  BY <1>1 DEF Doomed, Stopped, Begun, Taken
<1>5. (OneStart' <=> OneStart) /\ (StartedOnce' <=> StartedOnce)
  BY <1>1, <1>4 DEF OneStart, StartedOnce
<1>6. NeverStopped' <=> NeverStopped  BY <1>1, <1>4 DEF NeverStopped
<1>. QED  BY <1>1, <1>2, <1>3, <1>5, <1>6 DEF IInv

\* Every step keeps the invariant.
LEMMA NextInv == IInv /\ [Next]_vars => IInv'
<1>1. ASSUME IInv, Next PROVE IInv'
  <2>1. TypeOK'  BY <1>1, TypeStep
  <2>2. FailsOnlyWhen'  BY <1>1, FailsOnlyWhenStep
  <2>3. failed' = "" => Shape' /\ Rounds' /\ OneStart'
    BY <1>1, ShapeStep, RoundsStep, OneStartStep
  <2>4. failed' = "" /\ stops' = 0 => NeverStopped'  BY <1>1, NeverStoppedStep
  <2>5. failed' = "" /\ starts' <= 1 => StartedOnce'  BY <1>1, StartedOnceStep
  <2>. QED  BY <2>1, <2>2, <2>3, <2>4, <2>5 DEF IInv
<1>. QED  BY <1>1, StutterInv

\* The invariant holds of every reachable state.
THEOREM Inductive == Spec => []IInv
BY InitInv, NextInv, PTL DEF Spec

\* In the invariant's states every socket is somebody's.
LEMMA OwnedNow == IInv => SocketOwned
<1>. SUFFICES ASSUME IInv PROVE SocketOwned  OBVIOUS
<1>1. TypeOK  BY DEF IInv
<1>. SUFFICES ASSUME NEW fd \in Fd, connector.socket[fd] # "none", failed = "",
                     connector.list[fd] # "destroyed"
              PROVE  \/ connection_ = fd
                     \/ /\ connector.channel_ = fd
                        /\ \/ connector.status_ = "CONNECTING" /\ connector.list[fd] = "connector"
                           \/ connector.rest \in {"Retry", "HandleWrite"}
  BY <1>1 DEF SocketOwned
<1>2. Shape  BY DEF IInv
<1>3. connector.status_ \in {"DISCONNECTED", "CONNECTING", "CONNECTED"}
      /\ connector.rest \in {"", "Retry", "HandleWrite", "StartInLoop"}
  BY <1>1, StateFields DEF TypeOK
<1>4. CASE connector.status_ = "CONNECTED"  BY <1>2, <1>4 DEF Shape, OnlyAt
<1>5. CASE connector.rest \in {"Retry", "HandleWrite"}  BY <1>2, <1>5 DEF Shape, OnlyAt
<1>6. CASE connector.rest \in {"", "StartInLoop"} /\ connector.status_ = "DISCONNECTED"
  BY <1>2, <1>6 DEF Shape, OnlyAt
<1>7. CASE connector.rest = "" /\ connector.status_ = "CONNECTING"
  <2>1. PICK a \in Fd :
            /\ OnlyAt(connector, {a})
            /\ \/ connector.channel_ = a /\ connector.list[a] = "connector"
               \/ connector.channel_ = NoFd /\ connector.list[a] = "destroyed"
    BY <1>2, <1>7 DEF Shape
  <2>2. fd = a  BY <2>1 DEF OnlyAt
  <2>. QED  BY <1>7, <2>1, <2>2
<1>8. connector.rest = "StartInLoop" => connector.status_ = "DISCONNECTED"  BY <1>2 DEF Shape
<1>. QED  BY <1>3, <1>4, <1>5, <1>6, <1>7, <1>8

\* No socket is left open that nobody would close: neither by Connector's retries, refusals
\* and StopInLoop(), nor between the steps of one of its methods.
THEOREM SocketOwnedCorrect == Spec => []SocketOwned
BY Inductive, OwnedNow, PTL

\* StartInLoop() is FATAL only if Start() was called twice; a late ResetChannel() destroys
\* the channel of another attempt only if, besides, Stop() was; and the client or a connection
\* is used after its end only if the client was destroyed by another thread, or, the connection,
\* in the loop by a callback while something else had a pointer to it.
THEOREM FailsOnlyWhenCorrect == Spec => []FailsOnlyWhen
<1>1. IInv => FailsOnlyWhen  BY DEF IInv
<1>. QED  BY Inductive, <1>1, PTL
=============================================================================
