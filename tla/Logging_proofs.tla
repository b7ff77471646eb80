---------------------------- MODULE Logging_proofs ----------------------------
(***************************************************************************)
(* Proofs about AsyncLogging, LogStream and LogFile, for every size, limit, *)
(* period and set of line lengths or items.                                 *)
(*                                                                         *)
(* AsyncLogging: no buffer overflows, the spares never run out, and the     *)
(* lines stay in order and are accounted for.                               *)
(* LogStream: what convert() and convertHex() give is the numeral of the    *)
(* number, and an item is inserted whole or not at all.                     *)
(* LogFile: over all rolls, flushes, failed fopen()s and changes of the     *)
(* clock every line is in one file and in order, the files are rolled in    *)
(* time, a FATAL line is on the disk, and what is read is how a file begins. *)
(***************************************************************************)
EXTENDS AsyncLogging, LogFile, SequenceTheorems, WellFoundedInduction, TLAPS

-----------------------------------------------------------------------------
\* What append() makes of a buffer is a buffer.
LEMMA AppendType ==
    ASSUME NEW b \in Buffer, NEW line \in Nat, NEW len \in Nat
    PROVE  append(b, line, len) \in Buffer
BY SizeAssumption DEF append, Fits, Buffer

\* An empty buffer is a buffer.
LEMMA EmptyType == Empty \in Buffer
BY SizeAssumption DEF Empty, Buffer

\* Concatenating sequences of buffers.
LEMMA ConcatType ==
    ASSUME NEW s \in Seq(Buffer), NEW t \in Seq(Buffer)
    PROVE  /\ s \o t \in Seq(Buffer)
           /\ Len(s \o t) = Len(s) + Len(t)
           /\ t # <<>> => s \o t # <<>>
OBVIOUS

\* A null or a non-null unique_ptr.
LEMMA PointerType ==
    ASSUME NEW p, IsPointer(p), p # <<>>
    PROVE  p[1] \in Buffer /\ Len(p) = 1 /\ p \in Seq(Buffer)
BY DEF IsPointer

\* A unique_ptr that owns a buffer,
LEMMA OneIsPointer == \A b \in Buffer : IsPointer(<<b>>) /\ <<b>> # <<>>
BY DEF IsPointer

\* and one that owns none.
LEMMA NullIsPointer == IsPointer(<<>>)
BY DEF IsPointer

\* Dropping buffers leaves at least two of them when there were two.
LEMMA KeptFacts ==
    ASSUME buffersToWrite \in Seq(Buffer)
    PROVE  /\ Kept \in Seq(Buffer)
           /\ buffersToWrite # <<>> => Len(Kept) >= 1
           /\ Len(buffersToWrite) >= 2 => Len(Kept) >= 2
BY SizeAssumption DEF Kept

\* A spare is found as long as enough buffers were written.
LEMMA SpareFacts ==
    ASSUME buffersToWrite \in Seq(Buffer), NEW n \in {0, 1}
    PROVE  /\ IsPointer(Spare(n))
           /\ Len(Kept) > n => Spare(n) # <<>>
BY KeptFacts, EmptyType, OneIsPointer, NullIsPointer DEF Spare, reset

-----------------------------------------------------------------------------
(* The inductive invariant.  Outside the critical section and the write the *)
(* logging thread holds both its spares; appending takes nextBuffer_ only    *)
(* together with leaving a full buffer in buffers_, so that the next swap    *)
(* collects two buffers when it has to give away both spares.                *)

SparesHeld ==
    pc \in {"test", "lock", "wait", "woken", "done"} =>
        newBuffer1 # <<>> /\ newBuffer2 # <<>>

NextTaken == nextBuffer_ = <<>> => buffers_ # <<>>

NotStarted == ~started_ => pc = "none"

Inv == TypeOK /\ NotStarted /\ SparesHeld /\ NextTaken /\ RecycleNeverEmpty

\* The constructor establishes the invariant.
LEMMA InitInv == Init => Inv
<1> SUFFICES ASSUME Init
             PROVE  Inv
  OBVIOUS
<1>1. IsPointer(currentBuffer_) /\ currentBuffer_ # <<>> /\ IsPointer(nextBuffer_)
  BY EmptyType, OneIsPointer DEF Init
<1>2. IsPointer(newBuffer1) /\ IsPointer(newBuffer2)
  BY NullIsPointer DEF Init
<1>3. TypeOK
  <2>1. {running_, started_, joined_, latched} \subseteq BOOLEAN
    BY Zenon DEF Init
  <2>2. buffers_ \in Seq(Buffer) /\ buffersToWrite \in Seq(Buffer)
    BY DEF Init
  <2>3. pc \in PcState /\ owner \in OwnerState /\ total \in Nat
    BY DEF Init, PcState, OwnerState
  <2>4. buffersToWrite # <<>> <=> pc = "write"
    BY DEF Init
  <2>. QED
    BY <1>1, <1>2, <2>1, <2>2, <2>3, <2>4 DEF TypeOK
<1>4. nextBuffer_ # <<>>
  BY EmptyType, OneIsPointer DEF Init
<1>. QED
  BY <1>3, <1>4 DEF Init, Inv, NotStarted, SparesHeld, NextTaken, RecycleNeverEmpty

\* A line that fits leaves all pointers as they are.
LEMMA AppendFitsInv ==
    ASSUME Inv, NEW len \in Lens, AppendFits(len)
    PROVE  Inv'
<1>1. currentBuffer_[1] \in Buffer
  BY PointerType DEF Inv, TypeOK
<1>2. append(currentBuffer_[1], total + 1, len) \in Buffer
  <2>1. total + 1 \in Nat /\ len \in Nat  BY SizeAssumption DEF Inv, TypeOK
  <2>. QED  BY <1>1, <2>1, AppendType
<1>3. IsPointer(currentBuffer_') /\ currentBuffer_' # <<>>
  BY <1>2, OneIsPointer DEF AppendFits
<1>4. TypeOK'
  BY <1>3 DEF Inv, TypeOK, AppendFits, local, control, IsPointer
<1>. QED
  BY <1>4 DEF Inv, NotStarted, SparesHeld, NextTaken, RecycleNeverEmpty, AppendFits, local, control

\* A line that does not fit takes the spare buffer and leaves a full one.
LEMMA AppendNextBufferInv ==
    ASSUME Inv, NEW len \in Lens, AppendNextBuffer(len)
    PROVE  Inv'
<1> DEFINE fresh == IF nextBuffer_ # <<>> THEN nextBuffer_[1] ELSE Empty
<1>1. fresh \in Buffer
  BY PointerType, EmptyType DEF Inv, TypeOK
<1>2. append(fresh, total + 1, len) \in Buffer
  <2> HIDE DEF fresh
  <2>. QED
    BY <1>1, AppendType, SizeAssumption DEF Inv, TypeOK
<1>3. currentBuffer_' = <<append(fresh, total + 1, len)>>
  BY DEF AppendNextBuffer
<1>4. IsPointer(currentBuffer_') /\ currentBuffer_' # <<>>
  BY <1>2, <1>3, OneIsPointer
<1>5. buffers_' \in Seq(Buffer) /\ buffers_' # <<>>
  BY ConcatType, PointerType DEF AppendNextBuffer, Inv, TypeOK
<1>6. IsPointer(nextBuffer_')
  BY NullIsPointer DEF AppendNextBuffer
<1>7. pc' \in PcState /\ (pc' = "write" <=> pc = "write") /\ (pc = "none" => pc' = "none")
      /\ (pc' \in {"test", "lock", "wait", "woken", "done"}
             => pc \in {"test", "lock", "wait", "woken", "done"})
  BY DEF AppendNextBuffer, notify, Inv, TypeOK, PcState
<1>8. TypeOK'
  BY <1>4, <1>5, <1>6, <1>7 DEF Inv, TypeOK, AppendNextBuffer, local, IsPointer
<1>. QED
  BY <1>5, <1>7, <1>8
     DEF Inv, NotStarted, SparesHeld, NextTaken, RecycleNeverEmpty, AppendNextBuffer, local

\* The swap gives away what the logging thread holds: its first spare always, the
\* second only for a spare that appending took.
LEMMA SwapInv ==
    ASSUME Inv, Swap
    PROVE  Inv'
<1>1. newBuffer1 # <<>> /\ newBuffer2 # <<>>
  BY DEF Inv, SparesHeld, Swap
<1>2. /\ buffersToWrite' \in Seq(Buffer)
      /\ buffersToWrite' # <<>>
      /\ Len(buffersToWrite') = Len(buffers_) + 1
  <2>1. buffers_ \in Seq(Buffer) /\ IsPointer(currentBuffer_) /\ currentBuffer_ # <<>>
    BY DEF Inv, TypeOK
  <2>2. buffersToWrite' = buffers_ \o currentBuffer_  BY DEF Swap
  <2>3. currentBuffer_ \in Seq(Buffer) /\ Len(currentBuffer_) = 1  BY <2>1, PointerType
  <2>. QED  BY <2>1, <2>2, <2>3, ConcatType
<1>3. nextBuffer_' # <<>> /\ IsPointer(nextBuffer_') /\ IsPointer(newBuffer2')
  BY <1>1, NullIsPointer DEF Swap, Inv, TypeOK
<1>4. newBuffer2' = <<>> => Len(buffersToWrite') >= 2
  <2>1. SUFFICES ASSUME newBuffer2' = <<>> PROVE buffers_ # <<>>
    BY <1>2 DEF Inv, TypeOK
  <2>. QED
    BY <1>1, <2>1 DEF Swap, Inv, NextTaken
<1>5. TypeOK'
  BY <1>1, <1>2, <1>3, NullIsPointer DEF Swap, Inv, TypeOK, PcState
<1>. QED
  BY <1>3, <1>4, <1>5 DEF Inv, NotStarted, SparesHeld, NextTaken, RecycleNeverEmpty, Swap

\* After a write there is a buffer for each spare that was given away.
LEMMA WriteInv ==
    ASSUME Inv, Write
    PROVE  Inv'
<1>1. /\ newBuffer1 = <<>>
      /\ buffersToWrite \in Seq(Buffer) /\ buffersToWrite # <<>>
      /\ newBuffer2 = <<>> => Len(buffersToWrite) >= 2
  BY DEF Inv, TypeOK, RecycleNeverEmpty, Write
<1>2. IsPointer(newBuffer1') /\ newBuffer1' # <<>>
  BY <1>1, KeptFacts, SpareFacts DEF Write
<1>3. IsPointer(newBuffer2') /\ newBuffer2' # <<>>
  <2>1. CASE newBuffer2 = <<>>
    BY <1>1, <2>1, KeptFacts, SpareFacts DEF Write
  <2>2. CASE newBuffer2 # <<>>
    BY <2>2 DEF Write, Inv, TypeOK
  <2>. QED  BY <2>1, <2>2
<1>4. TypeOK'
  BY <1>2, <1>3 DEF Write, Inv, TypeOK, PcState, shared, IsPointer
<1>. QED
  BY <1>2, <1>3, <1>4
     DEF Inv, NotStarted, SparesHeld, NextTaken, RecycleNeverEmpty, Write, shared

\* The thread brings its own two spares.
LEMMA BeginInv ==
    ASSUME Inv, Begin
    PROVE  Inv'
<1>1. /\ IsPointer(newBuffer1') /\ newBuffer1' # <<>>
      /\ IsPointer(newBuffer2') /\ newBuffer2' # <<>>
  BY EmptyType, OneIsPointer DEF Begin
<1>2. TypeOK'
  BY <1>1 DEF Begin, Inv, TypeOK, PcState, shared, IsPointer
<1>. QED
  BY <1>1, <1>2 DEF Inv, NotStarted, SparesHeld, NextTaken, RecycleNeverEmpty, Begin, shared

\* The steps that change control variables only.
LEMMA ControlInv ==
    ASSUME Inv, UNCHANGED <<shared, local, total>>,
           {running_', started_', joined_', latched'} \subseteq BOOLEAN,
           pc' \in PcState, owner' \in OwnerState,
           NotStarted', pc' = "write" <=> pc = "write",
           pc' \in {"test", "lock", "wait", "woken", "done"}
              => pc \in {"test", "lock", "wait", "woken", "done"}
    PROVE  Inv'
<1>1. TypeOK'
  BY DEF Inv, TypeOK, shared, local, IsPointer
<1>. QED
  BY <1>1 DEF Inv, NotStarted, SparesHeld, NextTaken, RecycleNeverEmpty, shared, local

\* Every step keeps the invariant.
LEMMA NextInv == Inv /\ [Next]_vars => Inv'
<1> SUFFICES ASSUME Inv, [Next]_vars
             PROVE  Inv'
  OBVIOUS
<1> USE DEF PcState, OwnerState
<1>0. TypeOK
  BY DEF Inv
<1>1. CASE \E len \in Lens : AppendFits(len) \/ AppendNextBuffer(len)
  BY <1>1, AppendFitsInv, AppendNextBufferInv
<1>2. CASE Begin
  BY <1>2, BeginInv
<1>3. CASE TestRunning
  BY <1>0, <1>3, ControlInv DEF TestRunning, TypeOK, Inv, NotStarted
<1>4. CASE WaitForSeconds
  BY <1>0, <1>4, ControlInv DEF WaitForSeconds, TypeOK, Inv, NotStarted
<1>5. CASE Timeout
  BY <1>0, <1>5, ControlInv DEF Timeout, TypeOK, Inv, NotStarted
<1>6. CASE Swap
  BY <1>6, SwapInv
<1>7. CASE Write
  BY <1>7, WriteInv
<1>8. CASE \E created \in BOOLEAN : Start(created)
  <2>1. PICK created \in BOOLEAN : Start(created)
    BY <1>8
  <2>2. pc' = pc \/ (pc = "none" /\ pc' = "begin")
    BY <2>1 DEF Start, Inv, NotStarted
  <2>3. NotStarted'
    BY <2>1 DEF Start, Inv, NotStarted
  <2>. QED
    BY <1>0, <2>1, <2>2, <2>3, ControlInv DEF Start, TypeOK
<1>9. CASE LatchWait
  BY <1>0, <1>9, ControlInv DEF LatchWait, TypeOK, Inv, NotStarted
<1>10. CASE Stop
  BY <1>0, <1>10, ControlInv DEF Stop, TypeOK, Inv, NotStarted
<1>11. CASE StopNotify
  BY <1>0, <1>11, ControlInv DEF StopNotify, notify, TypeOK, Inv, NotStarted
<1>12. CASE Join
  BY <1>0, <1>12, ControlInv DEF Join, TypeOK, Inv, NotStarted
<1>13. CASE UNCHANGED vars
  BY <1>0, <1>13, ControlInv DEF vars, control, TypeOK, Inv, NotStarted
<1>. QED
  BY <1>1, <1>2, <1>3, <1>4, <1>5, <1>6, <1>7, <1>8, <1>9, <1>10, <1>11,
     <1>12, <1>13 DEF Next

-----------------------------------------------------------------------------
\* Every reachable state of AsyncLogging satisfies TypeOK: no buffer overflows,
\* and currentBuffer_ is there to be appended to.
THEOREM TypeCorrect == Spec => []TypeOK
<1>1. Inv => TypeOK
  BY DEF Inv
<1>. QED
  BY <1>1, InitInv, NextInv, PTL DEF Spec

\* The two assertions of ThreadFunc() never fail, for every number of threads
\* that append and however the appending falls between swap and write.
THEOREM RecycleNeverEmptyCorrect == Spec => []RecycleNeverEmpty
<1>1. Inv => RecycleNeverEmpty
  BY DEF Inv
<1>. QED
  BY <1>1, InitInv, NextInv, PTL DEF Spec

-----------------------------------------------------------------------------
(* The order of the lines.  Lines is a recursive function over the buffers;  *)
(* what it makes of two sequences of buffers put together is found by        *)
(* looking at the least index where it would not be so.                      *)

\* A set of numbers up to n that holds 0, and with each number the next, has all.
LEMMA Upward ==
    ASSUME NEW n \in Nat, NEW S, 0 \in S,
           \A i \in 1..n : i - 1 \in S => i \in S
    PROVE  \A i \in 0..n : i \in S
<1>. DEFINE R == OpToRel(<, Nat)
            B == {i \in 0..n : i \notin S}
<1>1. IsWellFoundedOn(R, Nat)
  BY NatLessThanWellFounded, Zenon
<1>2. \A x, y \in Nat : x < y => <<x, y>> \in R
  BY Zenon DEF OpToRel
<1>. HIDE DEF R
<1>3. B = {}
  <2>. SUFFICES ASSUME B # {} PROVE FALSE
    OBVIOUS
  <2>1. B \in SUBSET Nat
    OBVIOUS
  <2>. HIDE DEF B
  <2>2. PICK x \in B : \A y \in B : ~(<<y, x>> \in R)
    BY <1>1, <2>1, WFMin
  <2>3. x \in 0..n /\ x \notin S
    BY <2>2 DEF B
  <2>4. x \in 1..n /\ x - 1 \in 0..n /\ x - 1 < x /\ x \in Nat /\ x - 1 \in Nat
    BY <2>3
  <2>5. x - 1 \notin B
    BY <1>2, <2>2, <2>4
  <2>. QED
    BY <2>3, <2>4, <2>5 DEF B
<1>. QED
  BY <1>3

\* g is the function that Lines defines by recursion.
Upto(bufs, g) ==
    g = [i \in 0..Len(bufs) |-> IF i = 0 THEN <<>> ELSE g[i - 1] \o bufs[i].lines]

\* Its values, one from the other.
LEMMA UptoSteps ==
    ASSUME NEW bufs \in Seq(Buffer), NEW g, Upto(bufs, g)
    PROVE  /\ g[0] = <<>>
           /\ \A i \in 1..Len(bufs) : g[i] = g[i - 1] \o bufs[i].lines
<1>1. Len(bufs) \in Nat
  OBVIOUS
<1>2. 0 \in 0..Len(bufs) /\ \A i \in 1..Len(bufs) : i \in 0..Len(bufs) /\ i # 0
  BY <1>1
<1>. QED
  BY <1>2 DEF Upto

\* There is such a function.
LEMMA UptoExists ==
    ASSUME NEW bufs \in Seq(Buffer)
    PROVE  \E g : Upto(bufs, g)
<1>. DEFINE N == Len(bufs)
            E(g, n) == g = [i \in 0..n |-> IF i = 0 THEN <<>> ELSE g[i - 1] \o bufs[i].lines]
            S == {n \in 0..N : \E g : E(g, n)}
<1>1. N \in Nat
  OBVIOUS
<1>2. 0 \in S
  <2>1. E([i \in 0..0 |-> <<>>], 0)
    OBVIOUS
  <2>. HIDE DEF E
  <2>. QED
    BY <1>1, <2>1
<1>3. ASSUME NEW n \in 1..N, n - 1 \in S PROVE n \in S
  <2>1. PICK g : E(g, n - 1)
    BY <1>3
  <2>. DEFINE h == [i \in 0..n |-> IF i = n THEN g[n - 1] \o bufs[n].lines ELSE g[i]]
  <2>2. \A i \in 0..n : h[i] = IF i = 0 THEN <<>> ELSE h[i - 1] \o bufs[i].lines
    <3>1. \A i \in 0..(n - 1) : g[i] = IF i = 0 THEN <<>> ELSE g[i - 1] \o bufs[i].lines
      BY <2>1
    <3>2. \A i \in 0..n : i = n \/ i \in 0..(n - 1)
      BY <1>1
    <3>3. \A i \in 0..(n - 1) : h[i] = g[i] /\ i \in 0..n /\ i # n
      BY <1>1
    <3>4. h[n] = g[n - 1] \o bufs[n].lines /\ n - 1 \in 0..(n - 1) /\ n # 0
      BY <1>1
    <3>5. \A i \in 0..(n - 1) : i # 0 => i - 1 \in 0..(n - 1)
      BY <1>1
    <3>. HIDE DEF h
    <3>. QED
      BY <3>1, <3>2, <3>3, <3>4, <3>5
  <2>3. E(h, n)
    <3>1. h = [i \in 0..n |-> h[i]]
      OBVIOUS
    <3>. HIDE DEF h
    <3>. QED
      BY <2>2, <3>1
  <2>4. n \in 0..N
    BY <1>1
  <2>. HIDE DEF E, h
  <2>. QED
    BY <2>3, <2>4
<1>. HIDE DEF S
<1>4. N \in S
  <2>1. \A i \in 0..N : i \in S
    BY <1>1, <1>2, <1>3, Upward
  <2>. QED
    BY <1>1, <2>1
<1>. QED
  BY <1>4 DEF S, Upto

\* Lines is the last value of that function.
LEMMA LinesUpto ==
    ASSUME NEW bufs \in Seq(Buffer)
    PROVE  \E g : Upto(bufs, g) /\ Lines(bufs) = g[Len(bufs)]
<1>. DEFINE f == CHOOSE g : Upto(bufs, g)
<1>1. Upto(bufs, f)
  BY UptoExists
<1>2. Lines(bufs) = f[Len(bufs)]
  BY DEF Lines, Upto
<1>. QED
  BY <1>1, <1>2

\* The lines in each of a sequence of buffers.
LEMMA BuffersLines ==
    ASSUME NEW bufs \in Seq(Buffer), NEW i \in 1..Len(bufs)
    PROVE  bufs[i].lines \in Seq(Nat)
<1>1. bufs[i] \in Buffer
  BY ElementOfSeq
<1>. QED
  BY <1>1 DEF Buffer

\* The function's values are sequences of line numbers.
LEMMA UptoType ==
    ASSUME NEW bufs \in Seq(Buffer), NEW g, Upto(bufs, g)
    PROVE  \A i \in 0..Len(bufs) : g[i] \in Seq(Nat)
<1>. DEFINE N == Len(bufs)
            S == {i \in 0..N : g[i] \in Seq(Nat)}
<1>1. N \in Nat
  OBVIOUS
<1>2. g[0] = <<>> /\ \A i \in 1..N : g[i] = g[i - 1] \o bufs[i].lines
  BY UptoSteps
<1>3. 0 \in S
  <2>1. <<>> \in Seq(Nat)
    OBVIOUS
  <2>2. 0 \in 0..N
    BY <1>1
  <2>. QED
    BY <1>2, <2>1, <2>2
<1>4. ASSUME NEW i \in 1..N, i - 1 \in S PROVE i \in S
  <2>1. bufs[i].lines \in Seq(Nat)
    BY BuffersLines
  <2>2. g[i - 1] \o bufs[i].lines \in Seq(Nat)
    BY <1>4, <2>1, ConcatProperties
  <2>3. i \in 0..N
    BY <1>1
  <2>. QED
    BY <1>2, <2>2, <2>3
<1>. HIDE DEF S
<1>5. \A i \in 0..N : i \in S
  BY <1>1, <1>3, <1>4, Upward
<1>. QED
  BY <1>5 DEF S

\* So are the lines of any sequence of buffers.
LEMMA LinesType ==
    ASSUME NEW bufs \in Seq(Buffer)
    PROVE  Lines(bufs) \in Seq(Nat)
<1>1. Len(bufs) \in 0..Len(bufs)
  OBVIOUS
<1>. QED
  BY <1>1, LinesUpto, UptoType

\* For line numbers.
LEMMA Associative ==
    ASSUME NEW a \in Seq(Nat), NEW b \in Seq(Nat), NEW c \in Seq(Nat)
    PROVE  (a \o b) \o c = a \o (b \o c)
BY ConcatAssociative

\* The lines of two sequences of buffers, one after the other.
LEMMA LinesConcat ==
    ASSUME NEW s \in Seq(Buffer), NEW t \in Seq(Buffer)
    PROVE  Lines(s \o t) = Lines(s) \o Lines(t)
<1>. DEFINE m == Len(s)
            n == Len(t)
            u == s \o t
<1>1. /\ m \in Nat /\ n \in Nat /\ u \in Seq(Buffer) /\ Len(u) = m + n
      /\ \A i \in 1..m : u[i] = s[i]
      /\ \A i \in 1..n : u[m + i] = t[i]
  OBVIOUS
<1>2. PICK f : Upto(s, f) /\ Lines(s) = f[m]
  BY LinesUpto
<1>3. PICK h : Upto(t, h) /\ Lines(t) = h[n]
  BY LinesUpto
<1>. HIDE DEF u
<1>4. PICK g : Upto(u, g) /\ Lines(u) = g[m + n]
  BY <1>1, LinesUpto
<1>5. f[0] = <<>> /\ \A i \in 1..m : f[i] = f[i - 1] \o s[i].lines
  BY <1>2, UptoSteps
<1>6. h[0] = <<>> /\ \A i \in 1..n : h[i] = h[i - 1] \o t[i].lines
  BY <1>3, UptoSteps
<1>7. g[0] = <<>> /\ \A i \in 1..(m + n) : g[i] = g[i - 1] \o u[i].lines
  <2>1. g[0] = <<>> /\ \A i \in 1..Len(u) : g[i] = g[i - 1] \o u[i].lines
    BY <1>1, <1>4, UptoSteps
  <2>. QED
    BY <1>1, <2>1
<1>8. \A i \in 0..m : f[i] \in Seq(Nat)
  BY <1>2, UptoType
<1>9. \A i \in 0..n : h[i] \in Seq(Nat)
  BY <1>3, UptoType
<1>10. \A i \in 1..n : t[i].lines \in Seq(Nat)
  BY BuffersLines
<1>. HIDE DEF m, n
<1>11. g[m] = f[m]
  <2>. DEFINE S == {i \in 0..m : g[i] = f[i]}
  <2>1. 0 \in S
    BY <1>1, <1>5, <1>7
  <2>2. ASSUME NEW i \in 1..m, i - 1 \in S PROVE i \in S
    <3>1. i \in 1..(m + n) /\ i \in 0..m
      BY <1>1
    <3>. QED
      BY <1>1, <1>5, <1>7, <2>2, <3>1
  <2>. HIDE DEF S
  <2>3. \A i \in 0..m : i \in S
    BY <1>1, <2>1, <2>2, Upward
  <2>. QED
    BY <1>1, <2>3 DEF S
<1>12. g[m + n] = f[m] \o h[n]
  <2>. DEFINE S == {i \in 0..n : g[m + i] = f[m] \o h[i]}
  <2>0. f[m] \in Seq(Nat)
    BY <1>1, <1>8
  <2>1. 0 \in S
    <3>1. f[m] \o <<>> = f[m]
      BY <2>0, ConcatEmptySeq
    <3>2. m + 0 = m /\ 0 \in 0..n
      BY <1>1
    <3>. QED
      BY <1>6, <1>11, <3>1, <3>2
  <2>2. ASSUME NEW i \in 1..n, i - 1 \in S PROVE i \in S
    <3>1. /\ m + i \in 1..(m + n) /\ i \in 0..n /\ i - 1 \in 0..n
          /\ (m + i) - 1 = m + (i - 1)
      BY <1>1
    <3>2. g[m + i] = g[m + (i - 1)] \o u[m + i].lines
      BY <1>7, <3>1
    <3>3. g[m + (i - 1)] = f[m] \o h[i - 1]
      BY <2>2
    <3>4. u[m + i] = t[i] /\ h[i] = h[i - 1] \o t[i].lines
      BY <1>1, <1>6
    <3>5. (f[m] \o h[i - 1]) \o t[i].lines = f[m] \o (h[i - 1] \o t[i].lines)
      <4>1. h[i - 1] \in Seq(Nat) /\ t[i].lines \in Seq(Nat)
        BY <1>9, <1>10, <3>1
      <4>. QED
        BY <2>0, <4>1, Associative
    <3>. QED
      BY <3>1, <3>2, <3>3, <3>4, <3>5
  <2>. HIDE DEF S
  <2>3. \A i \in 0..n : i \in S
    BY <1>1, <2>1, <2>2, Upward
  <2>4. n \in 0..n
    BY <1>1
  <2>5. n \in S
    BY <2>3, <2>4
  <2>. QED
    BY <2>5 DEF S
<1>. QED
  BY <1>2, <1>3, <1>4, <1>12 DEF u

\* The lines of no buffer, and of one.
LEMMA LinesFew ==
    /\ Lines(<<>>) = <<>>
    /\ \A b \in Buffer : Lines(<<b>>) = b.lines
<1>1. Lines(<<>>) = <<>>
  <2>1. ASSUME NEW none \in Seq(Buffer), Len(none) = 0 PROVE Lines(none) = <<>>
    BY <2>1, LinesUpto, UptoSteps
  <2>2. <<>> \in Seq(Buffer) /\ Len(<<>>) = 0
    BY EmptySeq
  <2>. QED
    BY <2>1, <2>2
<1>2. ASSUME NEW one \in Seq(Buffer), Len(one) = 1 PROVE Lines(one) = one[1].lines
  <2>1. PICK g : Upto(one, g) /\ Lines(one) = g[1]
    BY <1>2, LinesUpto
  <2>2. g[0] = <<>> /\ \A i \in 1..1 : g[i] = g[i - 1] \o one[i].lines
    BY <1>2, <2>1, UptoSteps
  <2>3. 1 \in 1..1 /\ 1 - 1 = 0
    OBVIOUS
  <2>4. g[1] = <<>> \o one[1].lines
    BY <2>2, <2>3
  <2>5. one[1].lines \in Seq(Nat)
    BY <1>2, <2>3, BuffersLines
  <2>6. <<>> \o one[1].lines = one[1].lines
    BY <2>5, ConcatEmptySeq
  <2>. QED
    BY <2>1, <2>4, <2>6
<1>3. \A b \in Buffer : <<b>> \in Seq(Buffer) /\ Len(<<b>>) = 1 /\ <<b>>[1] = b
  OBVIOUS
<1>. QED
  BY <1>1, <1>2, <1>3

-----------------------------------------------------------------------------
Increasing(s) == \A i, j \in DOMAIN s : i < j => s[i] < s[j]

Before(s, t) == \A x \in Elements(s), y \in Elements(t) : x < y

\* Four sequences that increase one after the other, and what is in them.
Sorted(a, b, c, d) ==
    /\ Increasing(a) /\ Increasing(b) /\ Increasing(c) /\ Increasing(d)
    /\ Before(a, b) /\ Before(a, c) /\ Before(a, d)
    /\ Before(b, c) /\ Before(b, d) /\ Before(c, d)

All(a, b, c, d) == Elements(a) \cup Elements(b) \cup Elements(c) \cup Elements(d)

\* Two sequences put together, index by index.
LEMMA ConcatIndices ==
    ASSUME NEW s \in Seq(Nat), NEW t \in Seq(Nat)
    PROVE  /\ s \o t \in Seq(Nat)
           /\ Len(s) \in Nat /\ Len(t) \in Nat
           /\ DOMAIN s = 1..Len(s) /\ DOMAIN t = 1..Len(t)
           /\ DOMAIN (s \o t) = 1..(Len(s) + Len(t))
           /\ \A i \in 1..Len(s) : (s \o t)[i] = s[i]
           /\ \A i \in 1..Len(t) : (s \o t)[Len(s) + i] = t[i]
OBVIOUS

\* What is in two sequences put together is in one of them.
LEMMA ElementsConcat ==
    ASSUME NEW s \in Seq(Nat), NEW t \in Seq(Nat)
    PROVE  Elements(s \o t) = Elements(s) \cup Elements(t)
<1>. DEFINE m == Len(s)
            n == Len(t)
            u == s \o t
<1>1. /\ m \in Nat /\ n \in Nat
      /\ DOMAIN s = 1..m /\ DOMAIN t = 1..n /\ DOMAIN u = 1..(m + n)
      /\ \A i \in 1..m : u[i] = s[i]
      /\ \A i \in 1..n : u[m + i] = t[i]
  BY ConcatIndices
<1>. HIDE DEF m, n, u
<1>2. ASSUME NEW x \in Elements(u) PROVE x \in Elements(s) \cup Elements(t)
  <2>1. PICK i \in 1..(m + n) : x = u[i]
    BY <1>1 DEF Elements
  <2>2. CASE i <= m
    <3>1. i \in 1..m
      BY <1>1, <2>2
    <3>. QED
      BY <1>1, <2>1, <3>1 DEF Elements
  <2>3. CASE ~(i <= m)
    <3>1. i - m \in 1..n /\ m + (i - m) = i
      BY <1>1, <2>3
    <3>2. u[i] = t[i - m]
      BY <1>1, <3>1
    <3>. QED
      BY <1>1, <2>1, <3>1, <3>2 DEF Elements
  <2>. QED
    BY <2>2, <2>3
<1>3. ASSUME NEW i \in 1..m PROVE s[i] \in Elements(u)
  <2>1. i \in 1..(m + n)
    BY <1>1
  <2>. QED
    BY <1>1, <2>1 DEF Elements
<1>4. ASSUME NEW i \in 1..n PROVE t[i] \in Elements(u)
  <2>1. m + i \in 1..(m + n)
    BY <1>1
  <2>. QED
    BY <1>1, <2>1 DEF Elements
<1>5. Elements(s) \subseteq Elements(u) /\ Elements(t) \subseteq Elements(u)
  BY <1>1, <1>3, <1>4 DEF Elements
<1>. QED
  BY <1>2, <1>5 DEF u

\* Two sequences put together increase if each does and the first is below the second.
LEMMA IncreasingConcat ==
    ASSUME NEW s \in Seq(Nat), NEW t \in Seq(Nat)
    PROVE  Increasing(s \o t) <=> Increasing(s) /\ Increasing(t) /\ Before(s, t)
<1>. DEFINE m == Len(s)
            n == Len(t)
            u == s \o t
<1>1. /\ m \in Nat /\ n \in Nat
      /\ DOMAIN s = 1..m /\ DOMAIN t = 1..n /\ DOMAIN u = 1..(m + n)
      /\ \A i \in 1..m : u[i] = s[i]
      /\ \A i \in 1..n : u[m + i] = t[i]
  BY ConcatIndices
<1>. HIDE DEF m, n, u
<1>2. /\ \A i \in 1..m : i \in 1..(m + n)
      /\ \A i \in 1..n : m + i \in 1..(m + n)
      /\ \A i \in 1..m, j \in 1..n : i < m + j
      /\ \A i \in 1..n, j \in 1..n : i < j => m + i < m + j
  BY <1>1
<1>3. ASSUME Increasing(u) PROVE Increasing(s) /\ Increasing(t) /\ Before(s, t)
  <2>1. Increasing(s)
    BY <1>1, <1>2, <1>3 DEF Increasing
  <2>2. Increasing(t)
    <3>. SUFFICES ASSUME NEW i \in 1..n, NEW j \in 1..n, i < j PROVE t[i] < t[j]
      BY <1>1 DEF Increasing
    <3>1. u[m + i] < u[m + j]
      BY <1>1, <1>2, <1>3 DEF Increasing
    <3>. QED
      BY <1>1, <3>1
  <2>3. Before(s, t)
    <3>. SUFFICES ASSUME NEW i \in 1..m, NEW j \in 1..n PROVE s[i] < t[j]
      BY <1>1 DEF Before, Elements
    <3>1. u[i] < u[m + j]
      BY <1>1, <1>2, <1>3 DEF Increasing
    <3>. QED
      BY <1>1, <3>1
  <2>. QED
    BY <2>1, <2>2, <2>3
<1>4. ASSUME Increasing(s), Increasing(t), Before(s, t) PROVE Increasing(u)
  <2>. SUFFICES ASSUME NEW i \in 1..(m + n), NEW j \in 1..(m + n), i < j PROVE u[i] < u[j]
    BY <1>1 DEF Increasing
  <2>1. CASE j <= m
    <3>1. i \in 1..m /\ j \in 1..m
      BY <1>1, <2>1
    <3>. QED
      BY <1>1, <1>4, <3>1 DEF Increasing
  <2>2. CASE i <= m /\ ~(j <= m)
    <3>1. i \in 1..m /\ j - m \in 1..n /\ m + (j - m) = j
      BY <1>1, <2>2
    <3>2. u[i] = s[i] /\ u[j] = t[j - m]
      BY <1>1, <3>1
    <3>3. s[i] \in Elements(s) /\ t[j - m] \in Elements(t)
      BY <1>1, <3>1 DEF Elements
    <3>. QED
      BY <1>4, <3>2, <3>3 DEF Before
  <2>3. CASE ~(i <= m)
    <3>1. /\ i - m \in 1..n /\ j - m \in 1..n /\ i - m < j - m
          /\ m + (i - m) = i /\ m + (j - m) = j
      BY <1>1, <2>3
    <3>2. u[i] = t[i - m] /\ u[j] = t[j - m]
      BY <1>1, <3>1
    <3>. QED
      BY <1>1, <1>4, <3>1, <3>2 DEF Increasing
  <2>. QED
    BY <1>1, <2>1, <2>2, <2>3
<1>. QED
  BY <1>3, <1>4 DEF u

\* Nothing, and one number.
LEMMA IncreasingFew ==
    /\ Increasing(<<>>) /\ Elements(<<>>) = {} /\ <<>> \in Seq(Nat)
    /\ \A n \in Nat : Increasing(<<n>>) /\ Elements(<<n>>) = {n} /\ <<n>> \in Seq(Nat)
<1>1. Elements(<<>>) = {} /\ Increasing(<<>>)
  BY DEF Elements, Increasing
<1>2. <<>> \in Seq(Nat)
  OBVIOUS
<1>3. ASSUME NEW n \in Nat
      PROVE  Increasing(<<n>>) /\ Elements(<<n>>) = {n} /\ <<n>> \in Seq(Nat)
  <2>1. DOMAIN <<n>> = 1..1 /\ <<n>>[1] = n /\ 1..1 = {1} /\ ~(1 < 1)
    OBVIOUS
  <2>2. Elements(<<n>>) = {n}
    BY <2>1 DEF Elements
  <2>3. Increasing(<<n>>)
    BY <2>1 DEF Increasing
  <2>. QED
    BY <2>2, <2>3
<1>. QED
  BY <1>1, <1>2, <1>3

\* Four sequences in order make one.
LEMMA SortedFlow ==
    ASSUME NEW a \in Seq(Nat), NEW b \in Seq(Nat), NEW c \in Seq(Nat), NEW d \in Seq(Nat),
           Sorted(a, b, c, d)
    PROVE  /\ Increasing(a \o b \o c \o d)
           /\ Elements(a \o b \o c \o d) = All(a, b, c, d)
<1>. DEFINE ab == a \o b
            abc == ab \o c
<1>1. /\ ab \in Seq(Nat) /\ Increasing(ab) /\ Elements(ab) = Elements(a) \cup Elements(b)
  BY ConcatIndices, IncreasingConcat, ElementsConcat DEF Sorted
<1>. HIDE DEF ab
<1>2. Before(ab, c)
  BY <1>1 DEF Sorted, Before
<1>3. /\ abc \in Seq(Nat) /\ Increasing(abc)
      /\ Elements(abc) = Elements(a) \cup Elements(b) \cup Elements(c)
  BY <1>1, <1>2, ConcatIndices, IncreasingConcat, ElementsConcat DEF Sorted
<1>. HIDE DEF abc
<1>4. Before(abc, d)
  BY <1>3 DEF Sorted, Before
<1>5. /\ Increasing(abc \o d)
      /\ Elements(abc \o d) = Elements(a) \cup Elements(b) \cup Elements(c) \cup Elements(d)
  BY <1>3, <1>4, IncreasingConcat, ElementsConcat DEF Sorted
<1>. QED
  BY <1>5 DEF ab, abc, All

\* A later line may be put at the end.
LEMMA SortedAppend ==
    ASSUME NEW a \in Seq(Nat), NEW b \in Seq(Nat), NEW c \in Seq(Nat), NEW d \in Seq(Nat),
           Sorted(a, b, c, d), NEW n \in Nat, \A x \in All(a, b, c, d) : x < n
    PROVE  /\ Sorted(a, b, c, d \o <<n>>)
           /\ All(a, b, c, d \o <<n>>) = All(a, b, c, d) \cup {n}
<1>. DEFINE e == <<n>>
            f == d \o e
<1>1. e \in Seq(Nat) /\ Increasing(e) /\ Elements(e) = {n}
  BY IncreasingFew
<1>. HIDE DEF e
<1>2. Before(d, e)
  BY <1>1 DEF Before, All
<1>3. Increasing(f) /\ Elements(f) = Elements(d) \cup {n}
  BY <1>1, <1>2, IncreasingConcat, ElementsConcat DEF Sorted
<1>. HIDE DEF f
<1>4. Sorted(a, b, c, f) /\ All(a, b, c, f) = All(a, b, c, d) \cup {n}
  BY <1>3 DEF Sorted, Before, All
<1>. QED
  BY <1>4 DEF f, e

\* The last two may be joined,
LEMMA SortedJoin ==
    ASSUME NEW a \in Seq(Nat), NEW b \in Seq(Nat), NEW c \in Seq(Nat), NEW d \in Seq(Nat),
           Sorted(a, b, c, d)
    PROVE  /\ Sorted(a, b, c \o d, <<>>)
           /\ All(a, b, c \o d, <<>>) = All(a, b, c, d)
<1>. DEFINE f == c \o d
            e == <<>>
<1>1. Increasing(e) /\ Elements(e) = {}
  BY IncreasingFew
<1>2. Increasing(f) /\ Elements(f) = Elements(c) \cup Elements(d)
  BY IncreasingConcat, ElementsConcat DEF Sorted
<1>. HIDE DEF f, e
<1>3. Sorted(a, b, f, e) /\ All(a, b, f, e) = All(a, b, c, d)
  BY <1>1, <1>2 DEF Sorted, Before, All
<1>. QED
  BY <1>3 DEF f, e

\* and what comes before nothing may move up.
LEMMA SortedMove ==
    ASSUME NEW a, NEW e, NEW f, Elements(e) = {}, Sorted(a, e, f, e)
    PROVE  Sorted(a, f, e, e) /\ All(a, f, e, e) = All(a, e, f, e)
BY DEF Sorted, Before, All

\* The first part of the second goes to the first, the rest of it is dropped.
LEMMA SortedWrite ==
    ASSUME NEW a \in Seq(Nat), NEW k \in Seq(Nat), NEW r \in Seq(Nat), NEW c \in Seq(Nat),
           NEW d \in Seq(Nat), Sorted(a, k \o r, c, d)
    PROVE  /\ Sorted(a \o k, <<>>, c, d)
           /\ All(a \o k, <<>>, c, d)
                  = All(a, k \o r, c, d) \ (Elements(k \o r) \ Elements(k))
<1>. DEFINE b == k \o r
            f == a \o k
            e == <<>>
<1>1. Increasing(e) /\ Elements(e) = {}
  BY IncreasingFew
<1>2. Increasing(b)
  BY DEF Sorted
<1>3. /\ Increasing(k) /\ Increasing(r) /\ Before(k, r)
      /\ Elements(b) = Elements(k) \cup Elements(r)
  BY <1>2, IncreasingConcat, ElementsConcat
<1>4. Sorted(a, b, c, d)
  OBVIOUS
<1>. HIDE DEF b, e
<1>5. Before(a, k)
  BY <1>3, <1>4 DEF Sorted, Before
<1>6. Increasing(f) /\ Elements(f) = Elements(a) \cup Elements(k)
  BY <1>3, <1>4, <1>5, IncreasingConcat, ElementsConcat DEF Sorted
<1>. HIDE DEF f
<1>7. Sorted(f, e, c, d)
  BY <1>1, <1>3, <1>4, <1>6 DEF Sorted, Before
<1>8. \A x \in Elements(b) : x \in Nat
  <2>1. b \in Seq(Nat)
    BY ConcatIndices DEF b
  <2>. QED
    BY <2>1 DEF Elements
<1>9. \A x \in Elements(b) \ Elements(k) : x \notin All(f, e, c, d)
  BY <1>1, <1>3, <1>4, <1>6, <1>8 DEF Sorted, Before, All
<1>10. All(f, e, c, d) = All(a, b, c, d) \ (Elements(b) \ Elements(k))
  BY <1>1, <1>3, <1>6, <1>9 DEF All
<1>. QED
  BY <1>7, <1>10 DEF b, f, e

-----------------------------------------------------------------------------
(* The invariant of the flow: the file, the buffers to write, the full       *)
(* buffers and the current one hold lines that increase in that order, the   *)
(* spare buffers hold none, and what is in none of them was lost.            *)

Clean(p) == p = <<>> \/ p = <<Empty>>

Spares == Clean(nextBuffer_) /\ Clean(newBuffer1) /\ Clean(newBuffer2)

InOrder ==
    /\ file \in Seq(Nat)
    /\ lost \subseteq 1..total
    /\ Sorted(file, Lines(buffersToWrite), Lines(buffers_), Lines(currentBuffer_))
    /\ All(file, Lines(buffersToWrite), Lines(buffers_), Lines(currentBuffer_))
           = 1..total \ lost

OrderInv == Inv /\ Spares /\ InOrder

\* The invariant is LinesInOrder, and more.
LEMMA OrderImplies == OrderInv => LinesInOrder
<1> SUFFICES ASSUME OrderInv PROVE LinesInOrder
  OBVIOUS
<1>1. /\ file \in Seq(Nat) /\ Lines(buffersToWrite) \in Seq(Nat)
      /\ Lines(buffers_) \in Seq(Nat) /\ Lines(currentBuffer_) \in Seq(Nat)
  BY LinesType, PointerType DEF OrderInv, Inv, TypeOK, InOrder
<1>2. Increasing(Flow) /\ Elements(Flow) = 1..total \ lost
  BY <1>1, SortedFlow DEF OrderInv, InOrder, Flow
<1>. QED
  BY <1>2 DEF LinesInOrder, Increasing

\* The parts of the flow, and what is in an empty buffer.
LEMMA FlowTypes ==
    ASSUME Inv, InOrder
    PROVE  /\ file \in Seq(Nat) /\ total \in Nat
           /\ buffersToWrite \in Seq(Buffer) /\ buffers_ \in Seq(Buffer)
           /\ currentBuffer_ \in Seq(Buffer) /\ currentBuffer_ # <<>>
           /\ currentBuffer_ = <<currentBuffer_[1]>> /\ currentBuffer_[1] \in Buffer
           /\ Lines(buffersToWrite) \in Seq(Nat)
           /\ Lines(buffers_) \in Seq(Nat) /\ Lines(currentBuffer_) \in Seq(Nat)
           /\ Lines(<<>>) = <<>> /\ Lines(<<Empty>>) = <<>>
           /\ \A x \in All(file, Lines(buffersToWrite), Lines(buffers_),
                           Lines(currentBuffer_)) : x < total + 1
<1>1. /\ file \in Seq(Nat) /\ total \in Nat
      /\ buffersToWrite \in Seq(Buffer) /\ buffers_ \in Seq(Buffer)
      /\ IsPointer(currentBuffer_) /\ currentBuffer_ # <<>>
  BY DEF Inv, TypeOK, InOrder
<1>2. currentBuffer_ \in Seq(Buffer) /\ Len(currentBuffer_) = 1 /\ currentBuffer_[1] \in Buffer
  BY <1>1, PointerType
<1>3. currentBuffer_ = <<currentBuffer_[1]>>
  BY <1>2
<1>4. /\ Lines(buffersToWrite) \in Seq(Nat)
      /\ Lines(buffers_) \in Seq(Nat) /\ Lines(currentBuffer_) \in Seq(Nat)
  BY <1>1, <1>2, LinesType
<1>5. Lines(<<>>) = <<>> /\ Lines(<<Empty>>) = <<>>
  BY LinesFew, EmptyType DEF Empty
<1>6. \A x \in 1..total : x < total + 1
  BY <1>1
<1>7. \A x \in All(file, Lines(buffersToWrite), Lines(buffers_), Lines(currentBuffer_)) :
          x < total + 1
  BY <1>6 DEF InOrder
<1>. QED
  BY <1>1, <1>2, <1>3, <1>4, <1>5, <1>7

\* Append() to the current buffer puts the next number at the end of the flow.
LEMMA AppendFitsOrder ==
    ASSUME Inv, Spares, InOrder, NEW len \in Lens, AppendFits(len)
    PROVE  Spares' /\ InOrder'
<1>. DEFINE b == currentBuffer_[1]
            n == total + 1
<1>1. /\ file \in Seq(Nat) /\ total \in Nat /\ b \in Buffer
      /\ currentBuffer_ = <<b>>
      /\ Lines(buffersToWrite) \in Seq(Nat)
      /\ Lines(buffers_) \in Seq(Nat) /\ Lines(currentBuffer_) \in Seq(Nat)
      /\ \A x \in All(file, Lines(buffersToWrite), Lines(buffers_),
                      Lines(currentBuffer_)) : x < n
  BY FlowTypes
<1>2. /\ Fits(b, len) /\ currentBuffer_' = <<append(b, n, len)>> /\ total' = n
      /\ UNCHANGED <<nextBuffer_, buffers_, local, file, lost>>
  BY DEF AppendFits
<1>3. append(b, n, len) \in Buffer /\ append(b, n, len).lines = b.lines \o <<n>>
  <2>1. b.lines \in Seq(Nat) /\ n \in Nat
    BY <1>1 DEF Buffer
  <2>2. append(b, n, len).lines = Append(b.lines, n)
    BY <1>2 DEF append
  <2>3. append(b, n, len) \in Buffer
    BY <1>1, <2>1, AppendType, SizeAssumption
  <2>. QED
    BY <2>1, <2>2, <2>3, AppendIsConcat
<1>4. Lines(currentBuffer_') = Lines(currentBuffer_) \o <<n>>
  BY <1>1, <1>2, <1>3, LinesFew
<1>. HIDE DEF b
<1>5. /\ Sorted(file, Lines(buffersToWrite), Lines(buffers_), Lines(currentBuffer_'))
      /\ All(file, Lines(buffersToWrite), Lines(buffers_), Lines(currentBuffer_'))
             = All(file, Lines(buffersToWrite), Lines(buffers_), Lines(currentBuffer_))
               \cup {n}
  <2>. DEFINE W == Lines(buffersToWrite)
              B == Lines(buffers_)
              D == Lines(currentBuffer_)
  <2>1. /\ W \in Seq(Nat) /\ B \in Seq(Nat) /\ D \in Seq(Nat) /\ file \in Seq(Nat)
        /\ n \in Nat /\ Sorted(file, W, B, D) /\ \A x \in All(file, W, B, D) : x < n
    BY <1>1 DEF InOrder
  <2>. HIDE DEF W, B, D, n
  <2>2. Sorted(file, W, B, D \o <<n>>) /\ All(file, W, B, D \o <<n>>) = All(file, W, B, D) \cup {n}
    BY <2>1, SortedAppend
  <2>. QED
    BY <1>4, <2>2 DEF W, B, D
<1>6. 1..n \ lost = (1..total \ lost) \cup {n} /\ lost \subseteq 1..n
  BY <1>1 DEF InOrder
<1>. HIDE DEF n
<1>7. InOrder'
  BY <1>1, <1>2, <1>5, <1>6 DEF InOrder, local
<1>. QED
  BY <1>2, <1>7 DEF Spares, Clean, local

\* A full current buffer goes behind the full ones; the fresh one takes the line, or
\* it is lost because it fits into no buffer.
LEMMA AppendNextBufferOrder ==
    ASSUME Inv, Spares, InOrder, NEW len \in Lens, AppendNextBuffer(len)
    PROVE  Spares' /\ InOrder'
<1>. DEFINE b == append(Empty, total + 1, len)
            n == total + 1
            C == Lines(buffers_) \o Lines(currentBuffer_)
<1>1. /\ file \in Seq(Nat) /\ total \in Nat
      /\ buffers_ \in Seq(Buffer) /\ currentBuffer_ \in Seq(Buffer)
      /\ Lines(buffersToWrite) \in Seq(Nat)
      /\ Lines(buffers_) \in Seq(Nat) /\ Lines(currentBuffer_) \in Seq(Nat)
      /\ \A x \in All(file, Lines(buffersToWrite), Lines(buffers_),
                      Lines(currentBuffer_)) : x < n
  BY FlowTypes
<1>2. (IF nextBuffer_ # <<>> THEN nextBuffer_[1] ELSE Empty) = Empty
  BY DEF Spares, Clean
<1>3. /\ buffers_' = buffers_ \o currentBuffer_
      /\ currentBuffer_' = <<b>>
      /\ lost' = IF Fits(Empty, len) THEN lost ELSE lost \cup {n}
      /\ nextBuffer_' = <<>> /\ total' = n
      /\ UNCHANGED <<local, file>>
  BY <1>2 DEF AppendNextBuffer
<1>4. Lines(buffers_') = C /\ C \in Seq(Nat)
  BY <1>1, <1>3, LinesConcat, ConcatProperties
<1>5. b \in Buffer /\ Lines(currentBuffer_') = b.lines
  BY <1>1, <1>3, AppendType, EmptyType, LinesFew, SizeAssumption
<1>6. b.lines = IF Fits(Empty, len) THEN <<n>> ELSE <<>>
  <2>1. Append(<<>>, n) = <<n>>
    OBVIOUS
  <2>. QED
    BY <2>1 DEF append, Empty
<1>7. /\ Sorted(file, Lines(buffersToWrite), C, <<>>)
      /\ All(file, Lines(buffersToWrite), C, <<>>)
             = All(file, Lines(buffersToWrite), Lines(buffers_), Lines(currentBuffer_))
  BY <1>1, SortedJoin DEF InOrder
<1>8. All(file, Lines(buffersToWrite), C, <<>>) = 1..total \ lost
  BY <1>7 DEF InOrder
<1>. HIDE DEF b, C
<1>9. CASE Fits(Empty, len)
  <2>1. /\ Sorted(file, Lines(buffersToWrite), C, <<>> \o <<n>>)
        /\ All(file, Lines(buffersToWrite), C, <<>> \o <<n>>)
               = All(file, Lines(buffersToWrite), C, <<>>) \cup {n}
    <3>1. \A x \in All(file, Lines(buffersToWrite), C, <<>>) : x < n
      BY <1>1, <1>7
    <3>2. <<>> \in Seq(Nat) /\ n \in Nat
      BY <1>1
    <3>. DEFINE W == Lines(buffersToWrite)
                e == <<>>
    <3>3. /\ W \in Seq(Nat) /\ C \in Seq(Nat) /\ file \in Seq(Nat) /\ e \in Seq(Nat)
          /\ n \in Nat /\ Sorted(file, W, C, e) /\ \A x \in All(file, W, C, e) : x < n
      BY <1>1, <1>4, <1>7, <3>1, <3>2
    <3>. HIDE DEF n, W, e
    <3>4. /\ Sorted(file, W, C, e \o <<n>>)
          /\ All(file, W, C, e \o <<n>>) = All(file, W, C, e) \cup {n}
      BY <3>3, SortedAppend
    <3>. QED
      BY <3>4 DEF W, e
  <2>2. <<>> \o <<n>> = <<n>>
    OBVIOUS
  <2>3. 1..n \ lost = (1..total \ lost) \cup {n} /\ lost \subseteq 1..n
    BY <1>1 DEF InOrder
  <2>4. /\ Sorted(file, Lines(buffersToWrite), C, Lines(currentBuffer_'))
        /\ All(file, Lines(buffersToWrite), C, Lines(currentBuffer_')) = 1..n \ lost
    BY <1>5, <1>6, <1>8, <1>9, <2>1, <2>2, <2>3
  <2>. HIDE DEF n
  <2>5. lost' = lost
    BY <1>3, <1>9
  <2>. QED
    BY <1>1, <1>3, <1>4, <2>3, <2>4, <2>5 DEF InOrder, local, Spares, Clean
<1>10. CASE ~Fits(Empty, len)
  <2>1. lost' = lost \cup {n} /\ Lines(currentBuffer_') = <<>>
    BY <1>3, <1>5, <1>6, <1>10
  <2>2. 1..n \ lost' = 1..total \ lost /\ lost' \subseteq 1..n
    BY <1>1, <2>1 DEF InOrder
  <2>. HIDE DEF n
  <2>. QED
    BY <1>1, <1>3, <1>4, <1>7, <1>8, <2>1, <2>2 DEF InOrder, local, Spares, Clean
<1>. QED
  BY <1>9, <1>10

\* The swap moves the full buffers and the current one, in this order, to what is
\* written: nothing was left there from the write before.
LEMMA SwapOrder ==
    ASSUME Inv, Spares, InOrder, Swap
    PROVE  Spares' /\ InOrder'
<1>. DEFINE C == Lines(buffers_) \o Lines(currentBuffer_)
<1>1. /\ file \in Seq(Nat)
      /\ buffers_ \in Seq(Buffer) /\ currentBuffer_ \in Seq(Buffer)
      /\ Lines(buffersToWrite) \in Seq(Nat)
      /\ Lines(buffers_) \in Seq(Nat) /\ Lines(currentBuffer_) \in Seq(Nat)
      /\ Lines(<<>>) = <<>> /\ Lines(<<Empty>>) = <<>>
  BY FlowTypes
<1>2. buffersToWrite = <<>> /\ newBuffer1 = <<Empty>>
  BY DEF Swap, Inv, TypeOK, SparesHeld, Spares, Clean
<1>3. /\ buffersToWrite' = buffers_ \o currentBuffer_ /\ buffers_' = <<>>
      /\ currentBuffer_' = newBuffer1 /\ newBuffer1' = <<>>
      /\ \/ nextBuffer_' = newBuffer2 /\ newBuffer2' = <<>>
         \/ UNCHANGED <<nextBuffer_, newBuffer2>>
      /\ UNCHANGED <<file, total, lost>>
  BY DEF Swap
<1>4. Lines(buffersToWrite') = C
  BY <1>1, <1>3, LinesConcat
<1>5. Lines(buffers_') = <<>> /\ Lines(currentBuffer_') = <<>> /\ Lines(buffersToWrite) = <<>>
  BY <1>1, <1>2, <1>3
<1>6. /\ Sorted(file, C, <<>>, <<>>)
      /\ All(file, C, <<>>, <<>>)
             = All(file, Lines(buffersToWrite), Lines(buffers_), Lines(currentBuffer_))
  <2>. DEFINE W == Lines(buffersToWrite)
              B == Lines(buffers_)
              D == Lines(currentBuffer_)
  <2>1. /\ W \in Seq(Nat) /\ B \in Seq(Nat) /\ D \in Seq(Nat) /\ file \in Seq(Nat)
        /\ Sorted(file, W, B, D)
    BY <1>1 DEF InOrder
  <2>2. C = B \o D /\ W = <<>>
    BY <1>5
  <2>. HIDE DEF W, B, D, C
  <2>3. Sorted(file, W, B \o D, <<>>) /\ All(file, W, B \o D, <<>>) = All(file, W, B, D)
    BY <2>1, SortedJoin
  <2>4. Elements(W) = {} /\ Sorted(file, W, B \o D, W)
        /\ All(file, W, B \o D, W) = All(file, W, B, D)
    BY <2>2, <2>3, IncreasingFew
  <2>5. Sorted(file, B \o D, W, W) /\ All(file, B \o D, W, W) = All(file, W, B, D)
    BY <2>4, SortedMove
  <2>. QED
    BY <2>2, <2>5 DEF W, B, D
<1>. HIDE DEF C
<1>7. InOrder'
  BY <1>3, <1>4, <1>5, <1>6 DEF InOrder
<1>. QED
  BY <1>3, <1>7 DEF Spares, Clean

\* Kept is the front of what there is to write.
LEMMA KeptFront ==
    ASSUME buffersToWrite \in Seq(Buffer)
    PROVE  \E rest \in Seq(Buffer) : buffersToWrite = Kept \o rest
<1>. DEFINE n == Len(buffersToWrite)
<1>1. CASE n > MaxBuffers
  <2>1. n \in Nat /\ n > 2
    BY <1>1, SizeAssumption
  <2>2. SubSeq(buffersToWrite, 1, 2) \o SubSeq(buffersToWrite, 3, n) = buffersToWrite
    <3>1. 1 \in 1..(n + 1) /\ 2 \in (1 - 1)..n /\ n \in 2..n
      BY <2>1
    <3>2. \A m \in 1..(n + 1) : \A i \in (m - 1)..n : \A j \in i..n :
              SubSeq(buffersToWrite, m, i) \o SubSeq(buffersToWrite, i + 1, j)
                  = SubSeq(buffersToWrite, m, j)
      BY ConcatAdjacentSubSeq
    <3>3. SubSeq(buffersToWrite, 1, 2) \o SubSeq(buffersToWrite, 2 + 1, n)
              = SubSeq(buffersToWrite, 1, n)
      BY <3>1, <3>2
    <3>. QED
      BY <3>3, SubSeqFull
  <2>3. SubSeq(buffersToWrite, 3, n) \in Seq(Buffer)
    BY <2>1
  <2>. QED
    BY <1>1, <2>2, <2>3 DEF Kept
<1>2. CASE ~(n > MaxBuffers)
  <2>1. Kept = buffersToWrite
    BY <1>2 DEF Kept
  <2>2. buffersToWrite = buffersToWrite \o <<>> /\ <<>> \in Seq(Buffer)
    BY ConcatEmptySeq, EmptySeq
  <2>. QED
    BY <2>1, <2>2
<1>. QED
  BY <1>1, <1>2

\* The write moves what is kept to the file; what it drops is lost, and the buffers
\* it recycles are empty.
LEMMA WriteOrder ==
    ASSUME Inv, Spares, InOrder, Write
    PROVE  Spares' /\ InOrder'
<1>1. /\ file \in Seq(Nat) /\ total \in Nat
      /\ buffersToWrite \in Seq(Buffer)
      /\ Lines(buffersToWrite) \in Seq(Nat)
      /\ Lines(buffers_) \in Seq(Nat) /\ Lines(currentBuffer_) \in Seq(Nat)
      /\ Lines(<<>>) = <<>>
  BY FlowTypes
<1>2. /\ file' = file \o Lines(Kept)
      /\ lost' = lost \cup (Elements(Lines(buffersToWrite)) \ Elements(Lines(Kept)))
      /\ newBuffer1' = Spare(0)
      /\ newBuffer2' = Spare(1) \/ newBuffer2' = newBuffer2
      /\ buffersToWrite' = <<>>
      /\ UNCHANGED <<shared, total>>
  BY DEF Write
<1>3. PICK rest \in Seq(Buffer) : buffersToWrite = Kept \o rest
  BY <1>1, KeptFront
<1>4. Kept \in Seq(Buffer) /\ Lines(Kept) \in Seq(Nat) /\ Lines(rest) \in Seq(Nat)
  BY <1>1, KeptFacts, LinesType
<1>5. Lines(buffersToWrite) = Lines(Kept) \o Lines(rest)
  BY <1>3, <1>4, LinesConcat
<1>. DEFINE k == Lines(Kept)
            r == Lines(rest)
            c == Lines(buffers_)
            d == Lines(currentBuffer_)
            X == Elements(k \o r) \ Elements(k)
<1>6. Sorted(file, k \o r, c, d) /\ All(file, k \o r, c, d) = 1..total \ lost
  BY <1>5 DEF InOrder
<1>7. /\ file' = file \o k /\ lost' = lost \cup X
      /\ Lines(buffersToWrite') = <<>> /\ Lines(buffers_') = c /\ Lines(currentBuffer_') = d
      /\ total' = total
  BY <1>1, <1>2, <1>5 DEF shared
<1>8. k \in Seq(Nat) /\ r \in Seq(Nat) /\ c \in Seq(Nat) /\ d \in Seq(Nat)
  BY <1>1, <1>4
<1>. HIDE DEF k, r, c, d
<1>9. /\ Sorted(file \o k, <<>>, c, d)
      /\ All(file \o k, <<>>, c, d) = All(file, k \o r, c, d) \ X
  BY <1>1, <1>6, <1>8, SortedWrite
<1>10. X \subseteq All(file, k \o r, c, d)
  BY DEF All
<1>11. file \o k \in Seq(Nat)
  BY <1>1, <1>8, ConcatProperties
<1>. HIDE DEF X
<1>12. InOrder'
  <2>1. lost' \subseteq 1..total'
    BY <1>6, <1>7, <1>10 DEF InOrder
  <2>2. All(file \o k, <<>>, c, d) = 1..total' \ lost'
    BY <1>6, <1>7, <1>9
  <2>. QED
    BY <1>7, <1>9, <1>11, <2>1, <2>2 DEF InOrder
<1>13. Clean(Spare(0)) /\ Clean(Spare(1))
  BY DEF Spare, reset, Clean
<1>. QED
  BY <1>2, <1>12, <1>13 DEF Spares, Clean, shared

\* Nothing has been appended to a new AsyncLogging.
LEMMA OrderInit == Init => OrderInv
<1> SUFFICES ASSUME Init PROVE OrderInv
  OBVIOUS
<1>1. Inv
  BY InitInv
<1>2. Spares
  BY DEF Init, Spares, Clean
<1>3. /\ Lines(buffersToWrite) = <<>> /\ Lines(buffers_) = <<>>
      /\ Lines(currentBuffer_) = <<>>
  <2>1. Lines(<<>>) = <<>> /\ Lines(<<Empty>>) = <<>>
    BY LinesFew, EmptyType DEF Empty
  <2>. QED
    BY <2>1 DEF Init
<1>4. Sorted(<<>>, <<>>, <<>>, <<>>) /\ All(<<>>, <<>>, <<>>, <<>>) = {}
  BY IncreasingFew DEF Sorted, Before, All
<1>5. /\ file = <<>> /\ total = 0 /\ lost = {} /\ <<>> \in Seq(Nat) /\ 1..0 = {}
  BY IncreasingFew DEF Init
<1>6. InOrder
  BY <1>3, <1>4, <1>5 DEF InOrder
<1>. QED
  BY <1>1, <1>2, <1>6 DEF OrderInv

\* Every step keeps the order.
LEMMA OrderStep == OrderInv /\ [Next]_vars => OrderInv'
<1> SUFFICES ASSUME OrderInv, [Next]_vars PROVE OrderInv'
  OBVIOUS
<1>0. Inv /\ Spares /\ InOrder /\ Inv'
  BY NextInv DEF OrderInv
<1>. SUFFICES Spares' /\ InOrder'
  BY <1>0 DEF OrderInv
\* A step of the control alone.
<1>a. CASE UNCHANGED <<shared, local, file, total, lost>>
  BY <1>0, <1>a DEF Spares, Clean, InOrder, shared, local
<1>1. CASE \E len \in Lens : AppendFits(len) \/ AppendNextBuffer(len)
  BY <1>0, <1>1, AppendFitsOrder, AppendNextBufferOrder
<1>2. CASE Begin
  BY <1>0, <1>2 DEF Begin, Spares, Clean, InOrder, shared
<1>3. CASE Swap
  BY <1>0, <1>3, SwapOrder
<1>4. CASE Write
  BY <1>0, <1>4, WriteOrder
<1>5. CASE TestRunning \/ WaitForSeconds \/ Timeout
  BY <1>a, <1>5 DEF TestRunning, WaitForSeconds, Timeout
<1>6. CASE \/ LatchWait \/ Stop \/ StopNotify \/ Join
           \/ \E created \in BOOLEAN : Start(created)
  BY <1>a, <1>6 DEF LatchWait, Stop, StopNotify, Join, Start
<1>7. CASE UNCHANGED vars
  BY <1>a, <1>7 DEF vars
<1>. QED
  BY <1>1, <1>2, <1>3, <1>4, <1>5, <1>6, <1>7 DEF Next

\* No line is duplicated, overtaken or lost in silence between Append() and the
\* file, for every size and number of buffers and every line length: the swap
\* takes the full buffers and then the current one, recycled buffers are empty,
\* and what is thrown away is counted.
THEOREM LinesInOrderCorrect == Spec => []LinesInOrder
BY OrderInit, OrderStep, OrderImplies, PTL DEF Spec

-----------------------------------------------------------------------------
(* Least counterexamples stand for induction.                               *)

\* A set of numbers has a least one.
LEMMA LeastNumber ==
    ASSUME NEW S \in SUBSET Nat, S # {}
    PROVE  \E n \in S : \A m \in S : n <= m
<1>. DEFINE R == OpToRel(<, Nat)
<1>1. IsWellFoundedOn(R, Nat)
  BY NatLessThanWellFounded, Zenon
<1>2. \A x, y \in Nat : x < y => <<x, y>> \in R
  BY Zenon DEF OpToRel
<1>. HIDE DEF R
<1>3. PICK x \in S : \A y \in S : ~(<<y, x>> \in R)
  BY <1>1, WFMin
<1>4. \A y \in S : ~(y < x)
  BY <1>2, <1>3
<1>. QED  BY <1>4

-----------------------------------------------------------------------------
(* FoldLeft.                                                                *)

\* What FoldLeft() computes on the way: f folds the elements of seq at a set of indices.
Folds(f, op, base, seq, n) ==
    \A t \in SUBSET (1..n) :
        f[t] = IF t = {} THEN base ELSE op[<<f[t \ {Max(t)}], seq[Max(t)]>>]

\* The greatest of a set that holds the greatest it may.
LEMMA MaxIsLast ==
    ASSUME NEW n \in Nat, NEW t \in SUBSET (1..n), n \in t
    PROVE  Max(t) = n
<1>1. \A x \in t : x \in Int /\ n >= x
  OBVIOUS
<1>2. \A x \in t : (\A y \in t : x >= y) => x = n
  BY <1>1
<1>. QED  BY <1>1, <1>2 DEF Max

\* op takes the base and the first n elements of seq together.
Foldable(A, D, op, base, seq, n) ==
    /\ op \in [A \X D -> A] /\ base \in A
    /\ n \in Nat /\ \A i \in 1..n : seq[i] \in D

\* There is a greatest index.
LEMMA MaxIsIn ==
    ASSUME NEW n \in Nat, NEW t \in SUBSET (1..n), t # {}
    PROVE  Max(t) \in t
<1>. DEFINE S == {n - x : x \in t}
<1>1. S \in SUBSET Nat /\ S # {}
  <2>1. \A x \in t : n - x \in Nat
    OBVIOUS
  <2>. QED  BY <2>1
<1>. HIDE DEF S
<1>2. PICK m \in S : \A k \in S : m <= k
  BY <1>1, LeastNumber
<1>3. PICK x \in t : m = n - x
  BY DEF S
<1>4. \A y \in t : y \in Int /\ n - y \in S
  BY DEF S
<1>5. \A y \in t : x >= y
  BY <1>2, <1>3, <1>4
<1>. QED  BY <1>5 DEF Max

\* There is such a function.
LEMMA FoldExists ==
    ASSUME NEW A, NEW D, NEW op, NEW base, NEW seq, NEW N, Foldable(A, D, op, base, seq, N)
    PROVE  \E f : f \in [SUBSET (1..N) -> A] /\ Folds(f, op, base, seq, N)
<1>. DEFINE Good(n) == \E f : f \in [SUBSET (1..n) -> A] /\ Folds(f, op, base, seq, n)
            B == {n \in 0..N : ~Good(n)}
<1>0. /\ op \in [A \X D -> A] /\ base \in A
      /\ N \in Nat /\ \A i \in 1..N : seq[i] \in D
  BY DEF Foldable
<1>1. Good(0)
  <2>. DEFINE f == [t \in SUBSET (1..0) |-> base]
  <2>1. f \in [SUBSET (1..0) -> A]
    BY <1>0
  <2>2. \A t \in SUBSET (1..0) : t = {}
    OBVIOUS
  <2>3. Folds(f, op, base, seq, 0)
    BY <2>2 DEF Folds
  <2>. QED  BY <2>1, <2>3
<1>2. ASSUME NEW n \in 1..N, Good(n - 1) PROVE Good(n)
  <2>1. PICK f : f \in [SUBSET (1..(n - 1)) -> A] /\ Folds(f, op, base, seq, n - 1)
    BY <1>2
  <2>2. \A t \in SUBSET (1..n) : t \ {n} \in SUBSET (1..(n - 1))
    BY <1>0
  <2>. DEFINE h == [t \in SUBSET (1..n) |->
                       IF n \in t THEN op[<<f[t \ {n}], seq[n]>>] ELSE f[t]]
  <2>3. \A t \in SUBSET (1..n) : n \notin t => t \in SUBSET (1..(n - 1))
    BY <1>0
  <2>4. h \in [SUBSET (1..n) -> A]
    <3>1. seq[n] \in D
      BY <1>0
    <3>2. \A t \in SUBSET (1..n) : op[<<f[t \ {n}], seq[n]>>] \in A
      BY <1>0, <2>1, <2>2, <3>1
    <3>. QED  BY <2>1, <2>3, <3>2
  <2>5. ASSUME NEW t \in SUBSET (1..n)
        PROVE  h[t] = IF t = {} THEN base ELSE op[<<h[t \ {Max(t)}], seq[Max(t)]>>]
    <3>1. CASE n \in t
      <4>1. Max(t) = n /\ t # {}
        BY <1>0, <3>1, MaxIsLast
      <4>2. t \ {n} \in SUBSET (1..n) /\ n \notin t \ {n}
        OBVIOUS
      <4>. QED  BY <3>1, <4>1, <4>2
    <3>2. CASE n \notin t
      <4>1. t \in SUBSET (1..(n - 1)) /\ h[t] = f[t]
        BY <2>3, <3>2
      <4>2. t \ {Max(t)} \in SUBSET (1..n) /\ n \notin t \ {Max(t)}
        BY <3>2
      <4>3. h[t \ {Max(t)}] = f[t \ {Max(t)}]
        BY <4>2
      <4>. QED  BY <2>1, <4>1, <4>3 DEF Folds
    <3>. QED  BY <3>1, <3>2
  <2>. HIDE DEF h
  <2>. QED  BY <2>4, <2>5 DEF Folds
<1>. HIDE DEF Good
<1>3. B = {}
  <2>. SUFFICES ASSUME B # {} PROVE FALSE
    OBVIOUS
  <2>1. PICK n \in B : \A m \in B : n <= m
    <3>1. B \in SUBSET Nat
      BY <1>0
    <3>. HIDE DEF B
    <3>. QED  BY <3>1, LeastNumber
  <2>2. n # 0 /\ n \in 0..N
    BY <1>1, <2>1
  <2>3. n \in 1..N /\ n - 1 \in 0..N /\ ~(n <= n - 1)
    BY <1>0, <2>2
  <2>. QED  BY <1>2, <2>1, <2>3
<1>4. Good(N)
  BY <1>0, <1>3
<1>. QED  BY <1>4 DEF Good

\* The first n indices.
LEMMA MaxOfRange ==
    ASSUME NEW N \in Nat, NEW n \in 1..N
    PROVE  /\ 1..n \in SUBSET (1..N) /\ 1..n # {} /\ Max(1..n) = n
           /\ (1..n) \ {n} = 1..(n - 1)
<1>1. n \in Nat /\ n \in 1..n /\ 1..n \in SUBSET (1..n)
  OBVIOUS
<1>2. Max(1..n) = n
  BY <1>1, MaxIsLast
<1>. QED  BY <1>1, <1>2

\* What a fold leaves at each index, from base on.
Runs(g, A, op, base, seq) ==
    /\ g \in [0..Len(seq) -> A] /\ g[0] = base
    /\ \A i \in 1..Len(seq) : g[i] = op[<<g[i - 1], seq[i]>>]

\* x is what op makes of base and the elements of seq, from left to right.
Folded(x, A, op, base, seq) == \E g : Runs(g, A, op, base, seq) /\ x = g[Len(seq)]

\* A function that takes one index more at a time has run through all of them.
LEMMA RunsThrough ==
    ASSUME NEW A, NEW D, NEW op, NEW base, NEW seq, Foldable(A, D, op, base, seq, Len(seq)),
           NEW e, e[{}] = base,
           \A i \in 1..Len(seq) :
               e[1..(i - 1)] \in A => e[1..i] = op[<<e[1..(i - 1)], seq[i]>>]
    PROVE  Folded(e[1..Len(seq)], A, op, base, seq)
<1>. DEFINE N == Len(seq)
            g == [i \in 0..N |-> e[1..i]]
            B == {i \in 0..N : g[i] \notin A}
<1>1. /\ op \in [A \X D -> A] /\ base \in A
      /\ N \in Nat /\ \A i \in 1..N : seq[i] \in D
  BY DEF Foldable
<1>2. g[0] = base /\ \A i \in 1..N : g[i - 1] \in A => g[i] = op[<<g[i - 1], seq[i]>>]
  <2>1. 1..0 = {} /\ 0 \in 0..N /\ \A i \in 1..N : i \in 0..N /\ i - 1 \in 0..N
    BY <1>1
  <2>. QED  BY <2>1
<1>3. g = [i \in 0..N |-> g[i]] /\ g[N] = e[1..N]
  BY <1>1
<1>. HIDE DEF g
<1>4. B = {}
  <2>. SUFFICES ASSUME B # {} PROVE FALSE
    OBVIOUS
  <2>1. B \in SUBSET Nat
    BY <1>1
  <2>. HIDE DEF B, N
  <2>2. PICK n \in B : \A m \in B : n <= m
    BY <2>1, LeastNumber
  <2>3. n \in 0..N /\ g[n] \notin A /\ n # 0
    BY <1>1, <1>2, <2>2 DEF B
  <2>4. n \in 1..N /\ n - 1 \in 0..N /\ ~(n <= n - 1)
    BY <1>1, <2>3
  <2>5. g[n - 1] \in A /\ seq[n] \in D
    BY <1>1, <2>2, <2>4 DEF B
  <2>6. g[n] = op[<<g[n - 1], seq[n]>>]
    BY <1>2, <2>4, <2>5
  <2>. QED  BY <1>1, <2>3, <2>5, <2>6
<1>5. Runs(g, A, op, base, seq)
  <2>1. \A i \in 0..N : g[i] \in A
    BY <1>4
  <2>2. \A i \in 1..N : i - 1 \in 0..N
    BY <1>1
  <2>. HIDE DEF B
  <2>. QED  BY <1>2, <1>3, <2>1, <2>2 DEF Runs
<1>. QED  BY <1>3, <1>5 DEF Folded

\* seq begins like k.
Begins(k, seq) ==
    /\ Len(k) \in Nat /\ Len(seq) \in Nat /\ Len(k) <= Len(seq)
    /\ \A i \in 1..Len(k) : k[i] = seq[i]

\* Two runs agree as long as the sequences do.
LEMMA RunsAgree ==
    ASSUME NEW A, NEW op, NEW base, NEW k, NEW seq, Begins(k, seq),
           NEW f, Runs(f, A, op, base, k), NEW g, Runs(g, A, op, base, seq)
    PROVE  f[Len(k)] = g[Len(k)]
<1>0. /\ Len(k) \in Nat /\ Len(seq) \in Nat /\ Len(k) <= Len(seq)
      /\ \A i \in 1..Len(k) : k[i] = seq[i]
  BY DEF Begins
<1>. SUFFICES \A i \in 0..Len(k) : f[i] = g[i]
  BY <1>0
<1>. DEFINE N == Len(k)
            B == {i \in 0..N : f[i] # g[i]}
<1>1. f[0] = g[0]
  BY DEF Runs
<1>2. ASSUME NEW n \in 1..N, f[n - 1] = g[n - 1] PROVE f[n] = g[n]
  <2>1. f[n] = op[<<f[n - 1], k[n]>>]
    BY DEF Runs
  <2>2. n \in 1..Len(seq) /\ k[n] = seq[n]
    BY <1>0
  <2>3. g[n] = op[<<g[n - 1], seq[n]>>]
    BY <2>2 DEF Runs
  <2>. QED  BY <1>2, <2>1, <2>2, <2>3
<1>3. B \in SUBSET Nat
  BY <1>0
<1>. SUFFICES ASSUME B # {} PROVE FALSE
  OBVIOUS
<1>4. N \in Nat
  BY <1>0
<1>. HIDE DEF B, N
<1>5. PICK n \in B : \A m \in B : n <= m
  BY <1>3, LeastNumber
<1>6. n \in 0..N /\ f[n] # g[n] /\ n # 0
  BY <1>1, <1>5 DEF B
<1>7. n \in 1..N /\ n - 1 \in 0..N /\ ~(n <= n - 1)
  BY <1>4, <1>6
<1>8. f[n - 1] = g[n - 1]
  BY <1>5, <1>7 DEF B
<1>. QED  BY <1>2, <1>6, <1>7, <1>8

\* One element more.
LEMMA FoldedMore ==
    ASSUME NEW A, NEW op, NEW base, NEW k, NEW seq, Len(k) \in Nat,
           Len(seq) = Len(k) + 1, \A i \in 1..Len(k) : k[i] = seq[i],
           NEW x, Folded(x, A, op, base, k), NEW y, Folded(y, A, op, base, seq)
    PROVE  y = op[<<x, seq[Len(seq)]>>]
<1>1. PICK f : Runs(f, A, op, base, k) /\ x = f[Len(k)]
  BY DEF Folded
<1>2. PICK g : Runs(g, A, op, base, seq) /\ y = g[Len(seq)]
  BY DEF Folded
<1>3. Len(seq) \in 1..Len(seq) /\ Len(seq) - 1 = Len(k) /\ Begins(k, seq)
  BY DEF Begins
<1>4. f[Len(k)] = g[Len(k)]
  BY <1>1, <1>2, <1>3, RunsAgree
<1>5. g[Len(seq)] = op[<<g[Len(k)], seq[Len(seq)]>>]
  BY <1>2, <1>3 DEF Runs
<1>. QED  BY <1>1, <1>2, <1>4, <1>5

\* What is folded has its type, and is base when there is nothing to fold.
LEMMA FoldedType ==
    ASSUME NEW A, NEW op, NEW base, NEW seq, Len(seq) \in Nat,
           NEW x, Folded(x, A, op, base, seq)
    PROVE  x \in A /\ (Len(seq) = 0 => x = base)
<1>1. PICK g : Runs(g, A, op, base, seq) /\ x = g[Len(seq)]
  BY DEF Folded
<1>2. Len(seq) \in 0..Len(seq)
  OBVIOUS
<1>. QED  BY <1>1, <1>2 DEF Runs

-----------------------------------------------------------------------------
(* The bytes of lines.                                                      *)

Sum == [p \in Nat \X Line |-> p[1] + p[2].len]

\* Lines have lengths.
LEMMA SumType ==
    /\ Sum \in [Nat \X Line -> Nat]
    /\ \A a \in Nat, d \in Line : Sum[<<a, d>>] = a + d.len
<1>1. \A d \in Line : d.len \in Nat
  BY StreamAssumption DEF Line
<1>. QED  BY <1>1 DEF Sum

\* Bytes() adds them.
LEMMA BytesFolded ==
    ASSUME NEW ls \in Seq(Line)
    PROVE  Folded(Bytes(ls), Nat, Sum, 0, ls)
<1>. DEFINE N == Len(ls)
            E(f) == f = [t \in SUBSET (1..N) |->
                            IF t = {} THEN 0 ELSE f[t \ {Max(t)}] + ls[Max(t)].len]
<1>1. N \in Nat /\ DOMAIN ls = 1..N /\ \A i \in 1..N : ls[i] \in Line
  OBVIOUS
<1>2. Foldable(Nat, Line, Sum, 0, ls, N)
  BY <1>1, SumType DEF Foldable
<1>3. \E f : E(f)
  <2>. HIDE DEF N
  <2>1. PICK f : f \in [SUBSET (1..N) -> Nat] /\ Folds(f, Sum, 0, ls, N)
    BY <1>2, FoldExists
  <2>2. \A t \in SUBSET (1..N) : t # {} => Max(t) \in 1..N /\ t \ {Max(t)} \in SUBSET (1..N)
    BY <1>1, MaxIsIn
  <2>3. \A t \in SUBSET (1..N) :
            t # {} => Sum[<<f[t \ {Max(t)}], ls[Max(t)]>>] = f[t \ {Max(t)}] + ls[Max(t)].len
    BY <1>1, <2>1, <2>2, SumType
  <2>4. E(f)
    BY <2>1, <2>3 DEF Folds
  <2>. HIDE DEF E
  <2>. QED  BY <2>4
<1>4. PICK e : E(e) /\ Bytes(ls) = e[1..N]
  <2>. DEFINE e == CHOOSE e : E(e)
  <2>1. E(e)
    <3>. HIDE DEF E
    <3>. QED  BY <1>3
  <2>2. Bytes(ls) = e[1..N]
    BY <1>1 DEF Bytes, FoldLeft, MapThenFoldSet
  <2>. HIDE DEF E, e
  <2>. QED  BY <2>1, <2>2
<1>5. e[{}] = 0
  BY <1>4
<1>6. ASSUME NEW i \in 1..N, e[1..(i - 1)] \in Nat
      PROVE  e[1..i] = Sum[<<e[1..(i - 1)], ls[i]>>]
  <2>1. e[1..i] = e[1..(i - 1)] + ls[i].len
    BY <1>1, <1>4, MaxOfRange
  <2>. QED  BY <1>1, <1>6, <2>1, SumType
<1>. HIDE DEF E
<1>. QED  BY <1>2, <1>4, <1>5, <1>6, RunsThrough

\* One line more.
LEMMA BytesAppend ==
    ASSUME NEW ls \in Seq(Line), NEW line \in Line
    PROVE  Bytes(Append(ls, line)) = Bytes(ls) + line.len
<1>. DEFINE m == Append(ls, line)
<1>1. /\ m \in Seq(Line) /\ Len(ls) \in Nat /\ Len(m) = Len(ls) + 1 /\ m[Len(m)] = line
      /\ \A i \in 1..Len(ls) : ls[i] = m[i]
  OBVIOUS
<1>. HIDE DEF m
<1>2. Folded(Bytes(ls), Nat, Sum, 0, ls) /\ Folded(Bytes(m), Nat, Sum, 0, m)
  BY <1>1, BytesFolded
<1>3. Bytes(m) = Sum[<<Bytes(ls), line>>]
  BY <1>1, <1>2, FoldedMore
<1>4. Bytes(ls) \in Nat
  BY <1>1, <1>2, FoldedType
<1>. QED  BY <1>3, <1>4, SumType DEF m

\* Bytes are a number, and there are none without lines.
LEMMA BytesNat ==
    ASSUME NEW ls \in Seq(Line)
    PROVE  Bytes(ls) \in Nat /\ (ls = <<>> => Bytes(ls) = 0)
<1>1. Len(ls) \in Nat /\ (ls = <<>> => Len(ls) = 0)
  OBVIOUS
<1>. QED  BY <1>1, BytesFolded, FoldedType

-----------------------------------------------------------------------------
(* Numerals.                                                                *)

Hex == {digitsHex[i] : i \in 1..16}

\* The digits and their values.
LEMMA DigitFacts ==
    /\ \A d \in Hex : DigitValue(d) \in 0..15
    /\ \A i \in 0..15 : digitsHex[1 + i] \in Hex /\ DigitValue(digitsHex[1 + i]) = i
    /\ \A i \in -9..9 : zero(i) = digitsHex[1 + IF i < 0 THEN -i ELSE i]
    /\ DigitValue("0") = 0
<1>1. \A i \in 1..16 : (CHOOSE j \in 1..16 : digitsHex[j] = digitsHex[i]) = i
  BY DEF digitsHex
<1>2. \A i \in 1..16 : DigitValue(digitsHex[i]) = i - 1
  BY <1>1 DEF DigitValue
<1>3. \A i \in 0..9 : zero(i) = digitsHex[1 + i]
  BY DEF zero, digits, digitsHex
<1>4. \A i \in 0..9 : zero(-i) = digitsHex[1 + i]
  BY DEF zero, digits, digitsHex
<1>5. \A i \in -9..9 : i < 0 => -i \in 0..9 /\ -(-i) = i
  OBVIOUS
<1>6. \A i \in -9..9 : zero(i) = digitsHex[1 + IF i < 0 THEN -i ELSE i]
  <2>. SUFFICES ASSUME NEW i \in -9..9 PROVE zero(i) = digitsHex[1 + IF i < 0 THEN -i ELSE i]
    OBVIOUS
  <2>1. CASE i < 0
    <3>1. zero(-(-i)) = digitsHex[1 + (-i)]
      BY <1>4, <1>5, <2>1
    <3>. QED  BY <1>5, <2>1, <3>1
  <2>2. CASE ~(i < 0)
    BY <1>3, <2>2
  <2>. QED  BY <2>1, <2>2
<1>7. digitsHex[1] = "0" /\ \A i \in 0..15 : 1 + i \in 1..16 /\ (1 + i) - 1 = i
  BY DEF digitsHex
<1>. QED  BY <1>2, <1>6, <1>7 DEF Hex

\* A numeral read digit by digit.
Horner(base) == [p \in Nat \X Hex |-> base * p[1] + DigitValue(p[2])]

Value(text, base) == FoldLeft(LAMBDA sum, d : base * sum + DigitValue(d), 0, text)

\* Every step gives a number.
LEMMA HornerType ==
    ASSUME NEW base \in Nat
    PROVE  /\ Horner(base) \in [Nat \X Hex -> Nat]
           /\ \A a \in Nat, d \in Hex : Horner(base)[<<a, d>>] = base * a + DigitValue(d)
<1>1. \A a \in Nat : base * a \in Nat
  OBVIOUS
<1>2. \A p \in Nat \X Hex : p[1] \in Nat /\ p[2] \in Hex
  OBVIOUS
<1>3. \A d \in Hex : DigitValue(d) \in Nat
  BY DigitFacts
<1>4. \A p \in Nat \X Hex : base * p[1] + DigitValue(p[2]) \in Nat
  BY <1>1, <1>2, <1>3
<1>. QED  BY <1>4 DEF Horner

\* Value() reads it.
LEMMA ValueFolded ==
    ASSUME NEW text \in Seq(Hex), NEW base \in Nat
    PROVE  Folded(Value(text, base), Nat, Horner(base), 0, text)
<1>. DEFINE N == Len(text)
            op == Horner(base)
            E(f) == f = [t \in SUBSET (1..N) |->
                      IF t = {} THEN 0 ELSE base * f[t \ {Max(t)}] + DigitValue(text[Max(t)])]
<1>1. N \in Nat /\ DOMAIN text = 1..N /\ \A i \in 1..N : text[i] \in Hex
  OBVIOUS
<1>2. /\ op \in [Nat \X Hex -> Nat]
      /\ \A a \in Nat, d \in Hex : op[<<a, d>>] = base * a + DigitValue(d)
  BY HornerType
<1>. HIDE DEF op
<1>3. Foldable(Nat, Hex, op, 0, text, N)
  BY <1>1, <1>2 DEF Foldable
<1>4. \E f : E(f)
  <2>. HIDE DEF N
  <2>1. PICK f : f \in [SUBSET (1..N) -> Nat] /\ Folds(f, op, 0, text, N)
    BY <1>3, FoldExists
  <2>2. \A t \in SUBSET (1..N) : t # {} => Max(t) \in 1..N /\ t \ {Max(t)} \in SUBSET (1..N)
    BY <1>1, MaxIsIn
  <2>3. \A t \in SUBSET (1..N) : t # {} =>
            op[<<f[t \ {Max(t)}], text[Max(t)]>>]
                = base * f[t \ {Max(t)}] + DigitValue(text[Max(t)])
    BY <1>1, <1>2, <2>1, <2>2
  <2>4. E(f)
    BY <2>1, <2>3 DEF Folds
  <2>. HIDE DEF E
  <2>. QED  BY <2>4
<1>5. PICK e : E(e) /\ Value(text, base) = e[1..N]
  <2>. DEFINE e == CHOOSE e : E(e)
  <2>1. E(e)
    <3>. HIDE DEF E
    <3>. QED  BY <1>4
  <2>2. Value(text, base) = e[1..N]
    BY <1>1 DEF Value, FoldLeft, MapThenFoldSet
  <2>. HIDE DEF E, e
  <2>. QED  BY <2>1, <2>2
<1>6. e[{}] = 0
  BY <1>5
<1>7. ASSUME NEW i \in 1..N, e[1..(i - 1)] \in Nat
      PROVE  e[1..i] = op[<<e[1..(i - 1)], text[i]>>]
  <2>1. e[1..i] = base * e[1..(i - 1)] + DigitValue(text[i])
    BY <1>1, <1>5, MaxOfRange
  <2>. QED  BY <1>1, <1>2, <1>7, <2>1
<1>. HIDE DEF E
<1>8. Folded(e[1..N], Nat, op, 0, text)
  BY <1>3, <1>6, <1>7, RunsThrough
<1>. QED  BY <1>5, <1>8 DEF op

\* text is the numeral of value.
Numeral(text, base, value) ==
    /\ text \in Seq(Hex) /\ Len(text) > 0
    /\ Value(text, base) = value
    /\ Len(text) > 1 => text[1] # "0"

\* A sequence that is not empty and not longer than one.
LEMMA OneLong ==
    ASSUME NEW X, NEW k \in Seq(X), Len(k) > 0, ~(Len(k) > 1)
    PROVE  Len(k) = 1 /\ k[1] \in X /\ k = <<k[1]>>
<1>1. Len(k) = 1 /\ 1 \in 1..Len(k)
  <2>. DEFINE n == Len(k)
  <2>1. n \in Nat /\ n > 0 /\ ~(n > 1)
    OBVIOUS
  <2>. HIDE DEF n
  <2>2. n = 1 /\ 1 \in 1..n
    BY <2>1
  <2>. QED  BY <2>2 DEF n
<1>2. k[1] \in X
  BY <1>1
<1>. DEFINE u == <<k[1]>>
<1>3. u \in Seq(X) /\ Len(u) = 1 /\ u[1] = k[1]
  BY <1>2
<1>. HIDE DEF u
<1>4. k = u
  BY <1>1, <1>3, SeqEqual
<1>. QED  BY <1>1, <1>2, <1>4 DEF u

\* The numeral of one digit,
LEMMA OneDigit ==
    ASSUME NEW base \in Nat, NEW d \in Hex
    PROVE  Numeral(<<d>>, base, DigitValue(d))
<1>. DEFINE k == <<>>
            text == <<d>>
<1>1. /\ k \in Seq(Hex) /\ Len(k) = 0 /\ text \in Seq(Hex) /\ Len(text) = 1 /\ text[1] = d
  OBVIOUS
<1>. HIDE DEF k, text
<1>2. Folded(Value(k, base), Nat, Horner(base), 0, k)
  BY <1>1, ValueFolded
<1>3. Folded(Value(text, base), Nat, Horner(base), 0, text)
  BY <1>1, ValueFolded
<1>4. Value(k, base) = 0
  BY <1>1, <1>2, FoldedType
<1>5. Value(text, base) = Horner(base)[<<0, d>>]
  <2>1. /\ Len(k) \in Nat /\ Len(text) = Len(k) + 1 /\ text[Len(text)] = d
        /\ \A i \in 1..Len(k) : k[i] = text[i]
    BY <1>1
  <2>. QED  BY <1>2, <1>3, <1>4, <2>1, FoldedMore
<1>6. Horner(base)[<<0, d>>] = DigitValue(d)
  <2>1. base * 0 + DigitValue(d) = DigitValue(d)
    <3>1. DigitValue(d) \in Int /\ base * 0 = 0
      BY DigitFacts
    <3>. QED  BY <3>1
  <2>. QED  BY <2>1, HornerType
<1>7. Numeral(text, base, DigitValue(d))
  BY <1>1, <1>5, <1>6 DEF Numeral
<1>. QED  BY <1>7 DEF text

\* and one digit more.
LEMMA MoreDigits ==
    ASSUME NEW base \in Nat, NEW d \in Hex, NEW k, NEW value, value # 0,
           Numeral(k, base, value)
    PROVE  Numeral(k \o <<d>>, base, base * value + DigitValue(d))
<1>. DEFINE text == k \o <<d>>
<1>1. k \in Seq(Hex) /\ Len(k) > 0 /\ Value(k, base) = value /\ (Len(k) > 1 => k[1] # "0")
  BY DEF Numeral
<1>2. /\ text \in Seq(Hex) /\ Len(k) \in Nat /\ Len(text) = Len(k) + 1
      /\ text[Len(text)] = d /\ \A i \in 1..Len(k) : k[i] = text[i]
  BY <1>1
<1>3. text[1] = k[1]
  BY <1>1, <1>2
<1>. HIDE DEF text
<1>4. Folded(Value(k, base), Nat, Horner(base), 0, k)
  BY <1>1, ValueFolded
<1>5. Folded(Value(text, base), Nat, Horner(base), 0, text)
  BY <1>2, ValueFolded
<1>6. value \in Nat
  BY <1>1, <1>2, <1>4, FoldedType
<1>7. Value(text, base) = Horner(base)[<<value, d>>]
  BY <1>1, <1>2, <1>4, <1>5, FoldedMore
<1>8. Value(text, base) = base * value + DigitValue(d)
  BY <1>6, <1>7, HornerType
<1>9. k[1] # "0"
  <2>1. CASE Len(k) > 1
    BY <1>1, <2>1
  <2>2. CASE ~(Len(k) > 1)
    <3>1. Len(k) = 1 /\ k[1] \in Hex /\ k = <<k[1]>>
      BY <1>1, <2>2, OneLong
    <3>2. Value(<<k[1]>>, base) = DigitValue(k[1])
      BY <3>1, OneDigit DEF Numeral
    <3>3. DigitValue(k[1]) = value
      BY <1>1, <3>1, <3>2
    <3>. QED  BY <3>3, DigitFacts
  <2>. QED  BY <2>1, <2>2
<1>. QED  BY <1>2, <1>3, <1>8, <1>9 DEF Numeral, text

\* Reverse() puts what was in front behind.
LEMMA ReverseMore ==
    ASSUME NEW X, NEW s \in Seq(X), NEW d \in X
    PROVE  /\ Reverse(s) \in Seq(X) /\ Len(Reverse(s)) = Len(s)
           /\ Reverse(<<d>> \o s) = Reverse(s) \o <<d>>
<1>. DEFINE r == Reverse(s)
            p == <<d>> \o s
            u == Reverse(p)
            w == r \o <<d>>
<1>1. /\ r \in Seq(X) /\ Len(r) = Len(s) /\ Len(s) \in Nat
      /\ \A i \in 1..Len(s) : r[i] = s[(Len(s) - i) + 1]
  BY DEF Reverse
<1>2. /\ p \in Seq(X) /\ Len(p) = Len(s) + 1 /\ p[1] = d
      /\ \A i \in 1..Len(s) : p[i + 1] = s[i]
  OBVIOUS
<1>. HIDE DEF p, r
<1>3. /\ u \in Seq(X) /\ Len(u) = Len(s) + 1
      /\ \A i \in 1..(Len(s) + 1) : u[i] = p[((Len(s) + 1) - i) + 1]
  BY <1>1, <1>2 DEF Reverse
<1>4. /\ w \in Seq(X) /\ Len(w) = Len(s) + 1 /\ w[Len(s) + 1] = d
      /\ \A i \in 1..Len(s) : w[i] = r[i]
  BY <1>1
<1>. HIDE DEF u, w
<1>5. ASSUME NEW i \in 1..(Len(s) + 1) PROVE u[i] = w[i]
  <2>. DEFINE n == Len(s)
  <2>1. n \in Nat /\ i \in 1..(n + 1)
    BY <1>1
  <2>2. CASE i = n + 1
    <3>1. u[i] = p[1]
      BY <1>3, <2>1, <2>2
    <3>. QED  BY <1>2, <1>4, <2>2, <3>1
  <2>3. CASE i # n + 1
    <3>1. i \in 1..n /\ (n - i) + 1 \in 1..n /\ ((n + 1) - i) + 1 = ((n - i) + 1) + 1
      BY <2>1, <2>3
    <3>2. u[i] = s[(n - i) + 1]
      BY <1>2, <1>3, <2>1, <3>1
    <3>. QED  BY <1>1, <1>4, <3>1, <3>2
  <2>. QED  BY <2>2, <2>3
<1>6. u = w
  BY <1>3, <1>4, <1>5, SeqEqual
<1>. QED  BY <1>1, <1>6 DEF r, u, w, p

\* Nothing reversed, and one.
LEMMA ReverseOne ==
    ASSUME NEW X, NEW d \in X
    PROVE  Reverse(<<d>>) = <<d>>
<1>1. <<>> \in Seq(X) /\ <<d>> \o <<>> = <<d>> /\ <<>> \o <<d>> = <<d>>
  OBVIOUS
<1>2. Reverse(<<>>) \in Seq(X) /\ Len(Reverse(<<>>)) = 0
  BY <1>1, ReverseMore
<1>3. Reverse(<<>>) = <<>>
  BY <1>2
<1>. QED  BY <1>1, <1>3, ReverseMore

-----------------------------------------------------------------------------
(* The digits of a number, last one first: Z is the last digit of each       *)
(* number, Q its quotient, and V its value, which Q makes smaller.           *)

Shrinks(S, Z, Q, V, N) ==
    /\ N \in Nat /\ V \in [S -> 0..N] /\ Z \in [S -> Hex] /\ Q \in [S -> S]
    /\ \A i \in S : Q[i] # 0 => V[Q[i]] < V[i]

Divides(S, Z, Q, V, base) ==
    /\ base \in Nat
    /\ \A i \in S : Q[i] # 0 => V[Q[i]] # 0 /\ V[i] = base * V[Q[i]] + DigitValue(Z[i])
    /\ \A i \in S : Q[i] = 0 => V[i] = DigitValue(Z[i])

Recurs(r, S, Z, Q) ==
    \A i \in S : r[i] = <<Z[i]>> \o (IF Q[i] = 0 THEN <<>> ELSE r[Q[i]])

\* There is such a function,
LEMMA RecursionExists ==
    ASSUME NEW S, NEW Z, NEW Q, NEW V, NEW N, Shrinks(S, Z, Q, V, N)
    PROVE  \E r : r \in [S -> Seq(Hex)] /\ Recurs(r, S, Z, Q)
<1>. DEFINE Below(k) == {i \in S : V[i] < k}
            Eq(r, i) == r[i] = <<Z[i]>> \o (IF Q[i] = 0 THEN <<>> ELSE r[Q[i]])
            Good(k) == \E r : r \in [Below(k) -> Seq(Hex)] /\ \A i \in Below(k) : Eq(r, i)
            B == {k \in 0..(N + 1) : ~Good(k)}
<1>1. /\ N \in Nat /\ V \in [S -> 0..N] /\ Z \in [S -> Hex] /\ Q \in [S -> S]
      /\ \A i \in S : V[i] \in 0..N /\ Z[i] \in Hex /\ Q[i] \in S
      /\ \A i \in S : Q[i] # 0 => V[Q[i]] < V[i]
  BY DEF Shrinks
<1>2. Good(0)
  <2>1. Below(0) = {}
    BY <1>1
  <2>. DEFINE r == [i \in Below(0) |-> <<>>]
  <2>2. r \in [Below(0) -> Seq(Hex)] /\ \A i \in Below(0) : Eq(r, i)
    BY <2>1
  <2>. QED  BY <2>2
<1>3. ASSUME NEW k \in Nat, Good(k) PROVE Good(k + 1)
  <2>1. PICK r : r \in [Below(k) -> Seq(Hex)] /\ \A i \in Below(k) : Eq(r, i)
    BY <1>3
  <2>. DEFINE next(i) == <<Z[i]>> \o (IF Q[i] = 0 THEN <<>> ELSE r[Q[i]])
              h == [i \in Below(k + 1) |-> IF V[i] < k THEN r[i] ELSE next(i)]
  <2>2. \A i \in Below(k + 1) : Q[i] # 0 => Q[i] \in Below(k) /\ Q[i] \in Below(k + 1)
    BY <1>1
  <2>3. \A i \in Below(k + 1) : V[i] < k => i \in Below(k)
    OBVIOUS
  <2>4. \A i \in Below(k + 1) : next(i) \in Seq(Hex)
    BY <1>1, <2>1, <2>2
  <2>5. h \in [Below(k + 1) -> Seq(Hex)]
    <3>. HIDE DEF next, Below
    <3>. QED  BY <2>1, <2>3, <2>4
  <2>6. ASSUME NEW i \in Below(k + 1) PROVE Eq(h, i)
    <3>1. h[i] = next(i)
      BY <2>1, <2>3
    <3>2. Q[i] # 0 => h[Q[i]] = r[Q[i]]
      <4>1. Q[i] # 0 => V[Q[i]] < k /\ Q[i] \in Below(k + 1)
        BY <2>2
      <4>. QED  BY <4>1
    <3>. HIDE DEF h
    <3>. QED  BY <3>1, <3>2
  <2>. HIDE DEF h, Eq, Below
  <2>. QED  BY <2>5, <2>6
<1>. HIDE DEF Good
<1>4. B = {}
  <2>. SUFFICES ASSUME B # {} PROVE FALSE
    OBVIOUS
  <2>1. B \in SUBSET Nat
    BY <1>1
  <2>. HIDE DEF B
  <2>2. PICK n \in B : \A m \in B : n <= m
    BY <2>1, LeastNumber
  <2>3. n \in 0..(N + 1) /\ ~Good(n) /\ n # 0
    BY <1>2, <2>2 DEF B
  <2>4. n - 1 \in Nat /\ n - 1 \in 0..(N + 1) /\ ~(n <= n - 1) /\ (n - 1) + 1 = n
    BY <1>1, <2>3
  <2>5. Good(n - 1)
    BY <2>2, <2>4 DEF B
  <2>6. Good((n - 1) + 1)
    BY <1>3, <2>4, <2>5
  <2>. QED  BY <2>3, <2>4, <2>6
<1>5. Good(N + 1)
  BY <1>1, <1>4
<1>6. Below(N + 1) = S
  BY <1>1
<1>. QED  BY <1>5, <1>6 DEF Good, Recurs

\* and each such function gives the numerals.
LEMMA RecursionNumeral ==
    ASSUME NEW S, NEW Z, NEW Q, NEW V, NEW N, NEW base, NEW r, Shrinks(S, Z, Q, V, N),
           Divides(S, Z, Q, V, base), Recurs(r, S, Z, Q)
    PROVE  \A i \in S : r[i] \in Seq(Hex) /\ Numeral(Reverse(r[i]), base, V[i])
<1>. DEFINE Good(i) == r[i] \in Seq(Hex) /\ Numeral(Reverse(r[i]), base, V[i])
            B == {V[i] : i \in {j \in S : ~Good(j)}}
<1>1. \A i \in S : V[i] \in Nat /\ Z[i] \in Hex /\ Q[i] \in S /\ (Q[i] # 0 => V[Q[i]] < V[i])
  BY DEF Shrinks
<1>. HIDE DEF Good
<1>. SUFFICES ASSUME B # {} PROVE FALSE
  <2>1. \A i \in S : Good(i)
    OBVIOUS
  <2>. QED  BY <2>1 DEF Good
<1>2. B \in SUBSET Nat
  BY <1>1
<1>. HIDE DEF B
<1>3. PICK n \in B : \A m \in B : n <= m
  BY <1>2, LeastNumber
<1>4. PICK i \in S : ~Good(i) /\ V[i] = n
  BY <1>3 DEF B
<1>5. base \in Nat
  BY DEF Divides
<1>6. CASE Q[i] = 0
  <2>1. Z[i] \in Hex /\ V[i] = DigitValue(Z[i]) /\ r[i] = <<Z[i]>> \o <<>>
    BY <1>1, <1>6 DEF Divides, Recurs
  <2>2. r[i] = <<Z[i]>> /\ r[i] \in Seq(Hex)
    BY <2>1
  <2>. QED  BY <1>4, <1>5, <2>1, <2>2, ReverseOne, OneDigit DEF Good
<1>7. CASE Q[i] # 0
  <2>. DEFINE q == Q[i]
  <2>1. q \in S /\ V[q] < V[i] /\ V[q] \in Nat
    BY <1>1, <1>7
  <2>2. Good(q)
    <3>1. V[q] \notin B
      BY <1>1, <1>3, <1>4, <2>1
    <3>. HIDE DEF q
    <3>. QED  BY <2>1, <3>1 DEF B
  <2>3. /\ V[q] # 0 /\ V[i] = base * V[q] + DigitValue(Z[i])
        /\ r[i] = <<Z[i]>> \o r[q] /\ Z[i] \in Hex
    BY <1>1, <1>7 DEF Divides, Recurs
  <2>4. r[q] \in Seq(Hex) /\ Numeral(Reverse(r[q]), base, V[q])
    BY <2>2 DEF Good
  <2>. HIDE DEF q
  <2>5. Reverse(r[i]) = Reverse(r[q]) \o <<Z[i]>> /\ r[i] \in Seq(Hex)
    <3>1. Reverse(<<Z[i]>> \o r[q]) = Reverse(r[q]) \o <<Z[i]>>
      BY <2>3, <2>4, ReverseMore
    <3>. QED  BY <2>3, <2>4, <3>1
  <2>6. Numeral(Reverse(r[q]) \o <<Z[i]>>, base, base * V[q] + DigitValue(Z[i]))
    BY <1>5, <2>3, <2>4, MoreDigits
  <2>. QED  BY <1>4, <2>3, <2>5, <2>6 DEF Good
<1>. QED  BY <1>6, <1>7

-----------------------------------------------------------------------------
(* convert() and convertHex().                                              *)

Magnitude(i) == IF i < 0 THEN -i ELSE i

\* Numbers are bounded, and what is nearer to zero is one of them.
LEMMA NumberFacts ==
    /\ 0 \in Number /\ \A i \in Number : i \in Int
    /\ \A i \in Number, q \in Int :
           (0 <= q /\ q <= i) \/ (i <= q /\ q <= 0) => q \in Number
    /\ \E N \in Nat : \A i \in Number : Magnitude(i) \in 0..N
<1>. DEFINE a == 2^(Bits - 1)
            b == 2^Bits - 1
<1>1. a \in Int /\ b \in Int /\ Number = (-a)..b
  BY StreamAssumption DEF Number
<1>. HIDE DEF a, b
<1>2. 0 \in (-a)..b
  BY <1>1, PowerAssumption
<1>3. a \in Nat /\ b \in Nat
  BY <1>1, <1>2
<1>4. a + b \in Nat /\ \A i \in (-a)..b : Magnitude(i) \in 0..(a + b)
  BY <1>3 DEF Magnitude
<1>5. \A i \in (-a)..b, q \in Int : (0 <= q /\ q <= i) \/ (i <= q /\ q <= 0) => q \in (-a)..b
  BY <1>3
<1>. QED  BY <1>1, <1>2, <1>4, <1>5

\* C's division by ten, and its remainder.
LEMMA TenFacts ==
    ASSUME NEW i \in Int
    PROVE  LET q == Quotient(i, 10)
               z == Rest(i, 10)
           IN  /\ q \in Int /\ z \in -9..9
               /\ (0 <= q /\ q <= i) \/ (i <= q /\ q <= 0)
               /\ q # 0 => Magnitude(q) < Magnitude(i) /\ Magnitude(q) # 0
               /\ Magnitude(i) = 10 * Magnitude(q) + Magnitude(z)
<1>. DEFINE m == Magnitude(i)
            d == m \div 10
<1>1. /\ m \in Nat /\ d \in Nat /\ m - 10 * d \in 0..9 /\ d <= m /\ (d # 0 => d < m)
  BY DEF Magnitude
<1>2. CASE i < 0
  <2>1. Quotient(i, 10) = -d /\ m = -i
    BY <1>2 DEF Quotient, Magnitude
  <2>2. Rest(i, 10) = -(m - 10 * d)
    BY <1>1, <2>1 DEF Rest
  <2>. HIDE DEF m, d
  <2>3. /\ -d \in Int /\ -(m - 10 * d) \in -9..9 /\ i <= -d /\ -d <= 0
        /\ Magnitude(-d) = d /\ Magnitude(-(m - 10 * d)) = m - 10 * d
        /\ m = 10 * d + (m - 10 * d) /\ (-d # 0 => d # 0)
    BY <1>1, <2>1 DEF Magnitude
  <2>. QED  BY <1>1, <2>1, <2>2, <2>3 DEF m
<1>3. CASE ~(i < 0)
  <2>1. Quotient(i, 10) = d /\ m = i
    BY <1>3 DEF Quotient, Magnitude
  <2>2. Rest(i, 10) = m - 10 * d
    BY <1>1, <2>1 DEF Rest
  <2>. HIDE DEF m, d
  <2>3. /\ d \in Int /\ m - 10 * d \in -9..9 /\ 0 <= d /\ d <= i
        /\ Magnitude(d) = d /\ Magnitude(m - 10 * d) = m - 10 * d
        /\ m = 10 * d + (m - 10 * d)
    BY <1>1, <2>1 DEF Magnitude
  <2>. QED  BY <1>1, <2>1, <2>2, <2>3 DEF m
<1>. QED  BY <1>2, <1>3

\* reversed[], of convert(), and the numeral it gives.
LEMMA ConvertNumeral ==
    ASSUME NEW value \in Number
    PROVE  \E digs \in Seq(Hex) :
               /\ convert(value) = Reverse(digs \o (IF value < 0 THEN <<"-">> ELSE <<>>))
               /\ Numeral(Reverse(digs), 10, Magnitude(value))
<1>. DEFINE S == Number
            Z == [i \in S |-> zero(Rest(i, 10))]
            Q == [i \in S |-> Quotient(i, 10)]
            V == [i \in S |-> Magnitude(i)]
            E(f) == f = [i \in S |-> <<zero(Rest(i, 10))>> \o
                            (IF Quotient(i, 10) = 0 THEN <<>> ELSE f[Quotient(i, 10)])]
<1>1. PICK N \in Nat : \A i \in S : Magnitude(i) \in 0..N
  BY NumberFacts
<1>2. ASSUME NEW i \in S
      PROVE  /\ Q[i] = Quotient(i, 10) /\ Q[i] \in S
             /\ Z[i] = zero(Rest(i, 10)) /\ Z[i] \in Hex
             /\ V[i] = Magnitude(i) /\ V[i] \in 0..N
             /\ Q[i] # 0 => V[Q[i]] < V[i] /\ V[Q[i]] # 0
             /\ V[i] = 10 * V[Q[i]] + DigitValue(Z[i])
  <2>1. i \in Int
    BY NumberFacts
  <2>. DEFINE q == Quotient(i, 10)
              z == Rest(i, 10)
  <2>2. /\ q \in Int /\ z \in -9..9
        /\ (0 <= q /\ q <= i) \/ (i <= q /\ q <= 0)
        /\ q # 0 => Magnitude(q) < Magnitude(i) /\ Magnitude(q) # 0
        /\ Magnitude(i) = 10 * Magnitude(q) + Magnitude(z)
    BY <2>1, TenFacts
  <2>3. Q[i] = q /\ Z[i] = zero(z) /\ V[i] = Magnitude(i)
    OBVIOUS
  <2>. HIDE DEF q, z
  <2>4. q \in S
    BY <2>2, NumberFacts
  <2>5. V[q] = Magnitude(q)
    BY <2>4
  <2>. HIDE DEF Q, Z, V, S
  <2>6. Magnitude(z) \in 0..15 /\ zero(z) = digitsHex[1 + Magnitude(z)]
    BY <2>2, DigitFacts DEF Magnitude
  <2>7. zero(z) \in Hex /\ DigitValue(zero(z)) = Magnitude(z)
    BY <2>6, DigitFacts
  <2>. QED  BY <1>1, <2>2, <2>3, <2>4, <2>5, <2>7 DEF q, z
<1>3. Z = [i \in S |-> Z[i]] /\ Q = [i \in S |-> Q[i]] /\ V = [i \in S |-> V[i]]
  OBVIOUS
<1>. HIDE DEF Z, Q, V, S
<1>4. Shrinks(S, Z, Q, V, N)
  BY <1>2, <1>3 DEF Shrinks
<1>5. Divides(S, Z, Q, V, 10)
  <2>1. V[0] = 0
    BY <1>2, NumberFacts DEF Magnitude, S
  <2>2. \A i \in S : Q[i] = 0 => V[i] = DigitValue(Z[i])
    <3>. SUFFICES ASSUME NEW i \in S, Q[i] = 0 PROVE V[i] = DigitValue(Z[i])
      OBVIOUS
    <3>1. DigitValue(Z[i]) \in Int
      BY <1>2, DigitFacts
    <3>2. V[i] = 10 * 0 + DigitValue(Z[i])
      BY <1>2, <2>1
    <3>. QED  BY <3>1, <3>2
  <2>. QED  BY <1>2, <2>2 DEF Divides
<1>6. \E f : E(f)
  <2>1. PICK r : r \in [S -> Seq(Hex)] /\ Recurs(r, S, Z, Q)
    BY <1>4, RecursionExists
  <2>2. E(r)
    BY <1>2, <2>1 DEF Recurs
  <2>. HIDE DEF E
  <2>. QED  BY <2>2
<1>7. PICK e : E(e) /\ convert(value) = Reverse(e[value] \o (IF value < 0 THEN <<"-">> ELSE <<>>))
  <2>. DEFINE e == CHOOSE e : E(e)
  <2>1. E(e)
    <3>. HIDE DEF E
    <3>. QED  BY <1>6
  <2>2. convert(value) = Reverse(e[value] \o (IF value < 0 THEN <<"-">> ELSE <<>>))
    BY DEF convert, S
  <2>. HIDE DEF E, e
  <2>. QED  BY <2>1, <2>2
<1>8. Recurs(e, S, Z, Q)
  BY <1>2, <1>7 DEF Recurs
<1>9. value \in S
  BY DEF S
<1>10. e[value] \in Seq(Hex) /\ Numeral(Reverse(e[value]), 10, V[value])
  BY <1>4, <1>5, <1>8, <1>9, RecursionNumeral
<1>. HIDE DEF E
<1>. QED  BY <1>2, <1>7, <1>9, <1>10

\* The same of convertHex().
LEMMA ConvertHexNumeral ==
    ASSUME NEW value \in Number \cap Nat
    PROVE  convertHex(value) \in Seq(Hex) /\ Numeral(convertHex(value), 16, value)
<1>. DEFINE S == Number \cap Nat
            low(i) == digitsHex[1 + (i % 16)]
            high(i) == i \div 16
            Z == [i \in S |-> low(i)]
            Q == [i \in S |-> high(i)]
            V == [i \in S |-> i]
            E(f) == f = [i \in S |-> <<low(i)>> \o (IF high(i) = 0 THEN <<>> ELSE f[high(i)])]
<1>1. PICK N \in Nat : \A i \in S : i \in 0..N
  <2>1. PICK N \in Nat : \A i \in Number : Magnitude(i) \in 0..N
    BY NumberFacts
  <2>2. \A i \in S : i \in Nat /\ Magnitude(i) = i
    BY DEF Magnitude
  <2>. QED  BY <2>1, <2>2
<1>2. ASSUME NEW i \in S
      PROVE  /\ Q[i] = high(i) /\ Q[i] \in S
             /\ Z[i] = low(i) /\ Z[i] \in Hex
             /\ V[i] = i /\ V[i] \in 0..N
             /\ Q[i] # 0 => V[Q[i]] < V[i] /\ V[Q[i]] # 0
             /\ V[i] = 16 * V[Q[i]] + DigitValue(Z[i])
  <2>1. i \in Nat
    OBVIOUS
  <2>. DEFINE q == i \div 16
              z == i % 16
  <2>2. /\ q \in Nat /\ z \in 0..15 /\ q <= i /\ (q # 0 => q < i)
        /\ i = 16 * q + z
    BY <2>1
  <2>3. Q[i] = q /\ Z[i] = digitsHex[1 + z] /\ V[i] = i
    OBVIOUS
  <2>. HIDE DEF q, z
  <2>4. q \in S
    BY <2>1, <2>2, NumberFacts
  <2>5. V[q] = q
    BY <2>4
  <2>. HIDE DEF Q, Z, V, S
  <2>6. digitsHex[1 + z] \in Hex /\ DigitValue(digitsHex[1 + z]) = z
    BY <2>2, DigitFacts
  <2>. QED  BY <1>1, <2>2, <2>3, <2>4, <2>5, <2>6 DEF q, z
<1>3. Z = [i \in S |-> Z[i]] /\ Q = [i \in S |-> Q[i]] /\ V = [i \in S |-> V[i]]
  OBVIOUS
<1>4. V[value] = value
  OBVIOUS
<1>. HIDE DEF Z, Q, V, S
<1>5. Shrinks(S, Z, Q, V, N)
  BY <1>1, <1>2, <1>3 DEF Shrinks
<1>6. Divides(S, Z, Q, V, 16)
  <2>1. V[0] = 0
    BY <1>2, NumberFacts DEF S
  <2>2. \A i \in S : Q[i] = 0 => V[i] = DigitValue(Z[i])
    <3>. SUFFICES ASSUME NEW i \in S, Q[i] = 0 PROVE V[i] = DigitValue(Z[i])
      OBVIOUS
    <3>1. DigitValue(Z[i]) \in Int
      BY <1>2, DigitFacts
    <3>2. V[i] = 16 * 0 + DigitValue(Z[i])
      BY <1>2, <2>1
    <3>. QED  BY <3>1, <3>2
  <2>. QED  BY <1>2, <2>2 DEF Divides
<1>7. \E f : E(f)
  <2>. HIDE DEF low, high
  <2>1. PICK r : r \in [S -> Seq(Hex)] /\ Recurs(r, S, Z, Q)
    BY <1>5, RecursionExists
  <2>2. r = [i \in S |-> r[i]]
    BY <2>1
  <2>3. \A i \in S : r[i] = <<low(i)>> \o (IF high(i) = 0 THEN <<>> ELSE r[high(i)])
    <3>. SUFFICES ASSUME NEW i \in S
                  PROVE  r[i] = <<low(i)>> \o (IF high(i) = 0 THEN <<>> ELSE r[high(i)])
      OBVIOUS
    <3>1. Q[i] = high(i) /\ Z[i] = low(i)
      BY <1>2
    <3>. QED  BY <2>1, <3>1 DEF Recurs
  <2>4. E(r)
    BY <2>2, <2>3
  <2>. HIDE DEF E
  <2>. QED  BY <2>4
<1>8. PICK e : E(e) /\ convertHex(value) = Reverse(e[value])
  <2>. DEFINE e == CHOOSE e : E(e)
  <2>1. E(e)
    <3>. HIDE DEF E
    <3>. QED  BY <1>7
  <2>2. convertHex(value) = Reverse(e[value])
    BY DEF convertHex, S
  <2>. HIDE DEF E, e
  <2>. QED  BY <2>1, <2>2
<1>. HIDE DEF low, high
<1>9. Recurs(e, S, Z, Q)
  <2>. SUFFICES ASSUME NEW i \in S
                PROVE  e[i] = <<Z[i]>> \o (IF Q[i] = 0 THEN <<>> ELSE e[Q[i]])
    BY DEF Recurs
  <2>1. Q[i] = high(i) /\ Z[i] = low(i)
    BY <1>2
  <2>. QED  BY <1>8, <2>1
<1>10. value \in S
  BY DEF S
<1>11. e[value] \in Seq(Hex) /\ Numeral(Reverse(e[value]), 16, V[value])
  BY <1>5, <1>6, <1>9, <1>10, RecursionNumeral
<1>. HIDE DEF E
<1>12. Reverse(e[value]) \in Seq(Hex)
  BY <1>11 DEF Numeral
<1>. QED  BY <1>4, <1>8, <1>11, <1>12

-----------------------------------------------------------------------------
(* Items in a stream.                                                       *)

Char == Hex \cup {"-", "x", "t", "n"}

\* What an item adds to a stream with room for it.
ItemText(item) ==
    CASE item.kind = "text" -> item.text
      [] item.kind = "integer" -> convert(item.value)
      [] item.kind = "pointer" -> <<"0", "x">> \o convertHex(item.value)

\* The three kinds of items.
LEMMA ItemKinds ==
    ASSUME NEW item \in Item
    PROVE  \/ item.kind = "text" /\ item.text \in Seq({"t"})
           \/ item.kind = "integer" /\ item.value \in Number
           \/ item.kind = "pointer" /\ item.value \in Number \cap Nat
BY DEF Item, Numeric

\* A prefix can be told apart and taken off.
LEMMA PrefixOff ==
    ASSUME NEW X, NEW s \in Seq(X), NEW t \in Seq(X)
    PROVE  /\ s \o t \in Seq(X) /\ Len(s \o t) = Len(s) + Len(t)
           /\ SubSeq(s \o t, 1, Len(s)) = s
           /\ SubSeq(s \o t, Len(s) + 1, Len(s \o t)) = t
           /\ \A i \in 1..Len(t) : (s \o t)[Len(s) + i] = t[i]
<1>1. /\ s \o t \in Seq(X) /\ Len(s \o t) = Len(s) + Len(t)
      /\ Len(s) \in Nat /\ Len(t) \in Nat
      /\ \A i \in 1..(Len(s) + Len(t)) :
             (s \o t)[i] = IF i <= Len(s) THEN s[i] ELSE t[i - Len(s)]
  OBVIOUS
<1>2. \A i \in 1..Len(t) :
          /\ Len(s) + i \in 1..(Len(s) + Len(t)) /\ ~(Len(s) + i <= Len(s))
          /\ (Len(s) + i) - Len(s) = i
  BY <1>1
<1>3. \A i \in 1..Len(t) : (s \o t)[Len(s) + i] = t[i]
  BY <1>1, <1>2
<1>4. SubSeq(s \o t, 1, Len(s)) = s
  <2>1. CASE s = <<>>
    <3>1. Len(s) = 0
      BY <2>1
    <3>. QED  BY <2>1, <3>1, SubSeqEmpty
  <2>2. CASE s # <<>>
    <3>1. 1 \in 1..Len(s) /\ Len(s) \in 1..Len(s)
      BY <1>1, <2>2
    <3>. QED  BY <3>1, SubSeqOfConcat1, SubSeqFull
  <2>. QED  BY <2>1, <2>2
<1>5. SubSeq(s \o t, Len(s) + 1, Len(s \o t)) = t
  <2>1. CASE t = <<>>
    <3>1. Len(t) = 0 /\ Len(s) + 1 \in Int /\ Len(s) \in Int /\ Len(s) < Len(s) + 1
      BY <1>1, <2>1
    <3>2. Len(s \o t) = Len(s)
      BY <1>1, <3>1
    <3>. QED  BY <2>1, <3>1, <3>2, SubSeqEmpty
  <2>2. CASE t # <<>>
    <3>. DEFINE m == Len(s) + 1
                n == Len(s) + Len(t)
    <3>1. /\ m \in (Len(s) + 1)..(Len(s) + Len(t)) /\ n \in (Len(s) + 1)..(Len(s) + Len(t))
          /\ m - Len(s) = 1 /\ n - Len(s) = Len(t)
      BY <1>1, <2>2
    <3>. HIDE DEF m, n
    <3>2. SubSeq(s \o t, m, n) = SubSeq(t, 1, Len(t))
      BY <3>1, SubSeqOfConcat2
    <3>. QED  BY <1>1, <3>2, SubSeqFull DEF m, n
  <2>. QED  BY <2>1, <2>2
<1>. QED  BY <1>1, <1>3, <1>4, <1>5

\* Reverse() puts what was behind in front.
LEMMA ReverseLast ==
    ASSUME NEW X, NEW s \in Seq(X), NEW d \in X
    PROVE  Reverse(s \o <<d>>) = <<d>> \o Reverse(s)
<1>. DEFINE r == Reverse(s)
            p == s \o <<d>>
            u == Reverse(p)
            w == <<d>> \o r
<1>1. /\ r \in Seq(X) /\ Len(r) = Len(s) /\ Len(s) \in Nat
      /\ \A i \in 1..Len(s) : r[i] = s[(Len(s) - i) + 1]
  BY DEF Reverse
<1>2. /\ p \in Seq(X) /\ Len(p) = Len(s) + 1 /\ p[Len(s) + 1] = d
      /\ \A i \in 1..Len(s) : p[i] = s[i]
  OBVIOUS
<1>. HIDE DEF p, r
<1>3. /\ u \in Seq(X) /\ Len(u) = Len(s) + 1
      /\ \A i \in 1..(Len(s) + 1) : u[i] = p[((Len(s) + 1) - i) + 1]
  BY <1>1, <1>2 DEF Reverse
<1>4. /\ w \in Seq(X) /\ Len(w) = Len(s) + 1 /\ w[1] = d
      /\ \A i \in 1..Len(s) : w[i + 1] = r[i]
  BY <1>1
<1>. HIDE DEF u, w
<1>5. ASSUME NEW i \in 1..(Len(s) + 1) PROVE u[i] = w[i]
  <2>. DEFINE n == Len(s)
  <2>1. n \in Nat /\ i \in 1..(n + 1)
    BY <1>1
  <2>2. CASE i = 1
    <3>1. ((n + 1) - i) + 1 = n + 1
      BY <2>1, <2>2
    <3>. QED  BY <1>2, <1>3, <1>4, <2>1, <2>2, <3>1
  <2>3. CASE i # 1
    <3>1. /\ i - 1 \in 1..n /\ (i - 1) + 1 = i
          /\ ((n + 1) - i) + 1 = (n - (i - 1)) + 1 /\ (n - (i - 1)) + 1 \in 1..n
      BY <2>1, <2>3
    <3>2. w[i] = r[i - 1]
      BY <1>4, <3>1
    <3>3. r[i - 1] = s[(n - (i - 1)) + 1]
      BY <1>1, <3>1
    <3>4. u[i] = s[(n - (i - 1)) + 1]
      BY <1>2, <1>3, <2>1, <3>1
    <3>. QED  BY <3>2, <3>3, <3>4
  <2>. QED  BY <2>2, <2>3
<1>6. u = w
  BY <1>3, <1>4, <1>5, SeqEqual
<1>. QED  BY <1>6 DEF r, u, w, p

\* A numeral reads as its number.
LEMMA NumeralReads ==
    ASSUME NEW text, NEW base, NEW value, Numeral(text, base, value)
    PROVE  Reads(text, base, value)
<1>1. text \in Seq(Hex) /\ Value(text, base) = value
  BY DEF Numeral
<1>2. Range(text) \subseteq Hex
  BY <1>1 DEF Range
<1>3. Hex = Range(digitsHex)
  <2>1. DOMAIN digitsHex = 1..16
    BY DEF digitsHex
  <2>. QED  BY <2>1 DEF Hex, Range
<1>. QED  BY <1>1, <1>2, <1>3 DEF Reads, Value

\* convert() gives the digits, behind a minus when the number is negative.
LEMMA ConvertText ==
    ASSUME NEW value \in Number
    PROVE  \E ds : /\ Numeral(ds, 10, Magnitude(value)) /\ convert(value) \in Seq(Char)
                   /\ convert(value) = IF value < 0 THEN <<"-">> \o ds ELSE ds
<1>1. PICK digs \in Seq(Hex) :
          /\ convert(value) = Reverse(digs \o (IF value < 0 THEN <<"-">> ELSE <<>>))
          /\ Numeral(Reverse(digs), 10, Magnitude(value))
  BY ConvertNumeral
<1>. DEFINE ds == Reverse(digs)
<1>2. ds \in Seq(Hex) /\ ds \in Seq(Char) /\ digs \in Seq(Char)
  <2>1. ds \in Seq(Hex)
    BY <1>1 DEF Numeral
  <2>. HIDE DEF ds
  <2>. QED  BY <2>1 DEF Char
<1>3. Reverse(digs \o <<"-">>) = <<"-">> \o ds
  BY <1>2, ReverseLast DEF Char
<1>4. digs \o <<>> = digs
  OBVIOUS
<1>5. <<"-">> \o ds \in Seq(Char)
  BY <1>2 DEF Char
<1>. QED  BY <1>1, <1>2, <1>3, <1>4, <1>5

\* The text of a number is its numeral, and leaves room for the zero behind it.
LEMMA NumericText ==
    ASSUME NEW item \in Item, item.kind # "text"
    PROVE  /\ IsNumeral(ItemText(item), item)
           /\ ItemText(item) \in Seq(Char) /\ Len(ItemText(item)) < kMaxNumericSize
<1>1. CASE item.kind = "integer" /\ item.value \in Number
  <2>. DEFINE v == item.value
              text == convert(v)
  <2>1. ItemText(item) = text /\ Len(text) < kMaxNumericSize /\ item.kind # "pointer"
    BY <1>1, NumericAssumption DEF ItemText
  <2>2. PICK ds : /\ Numeral(ds, 10, Magnitude(v)) /\ text \in Seq(Char)
                  /\ text = IF v < 0 THEN <<"-">> \o ds ELSE ds
    BY <1>1, ConvertText
  <2>3. ds \in Seq(Hex) /\ (Len(ds) > 1 => ds[1] # "0") /\ Reads(ds, 10, Magnitude(v))
    BY <2>2, NumeralReads DEF Numeral
  <2>. HIDE DEF text, v
  <2>4. CASE v < 0
    <3>1. <<"-">> \in Seq(Char) /\ ds \in Seq(Char) /\ Len(<<"-">>) = 1 /\ <<"-">>[1] = "-"
      BY <2>3 DEF Char
    <3>2. SubSeq(text, 2, Len(text)) = ds
      BY <2>2, <2>4, <3>1, PrefixOff
    <3>3. text[1] = "-"
      BY <2>2, <2>4, <3>1
    <3>4. Magnitude(v) = -v
      BY <2>4 DEF Magnitude
    <3>. QED  BY <2>1, <2>2, <2>3, <2>4, <3>2, <3>3, <3>4 DEF IsNumeral, v
  <2>5. CASE ~(v < 0)
    BY <2>1, <2>2, <2>3, <2>5 DEF IsNumeral, v, Magnitude
  <2>. QED  BY <2>4, <2>5
<1>2. CASE item.kind = "pointer" /\ item.value \in Number \cap Nat
  <2>. DEFINE v == item.value
              h == convertHex(v)
              p == <<"0", "x">>
              text == p \o h
  <2>1. ItemText(item) = text
    BY <1>2 DEF ItemText
  <2>2. h \in Seq(Hex) /\ Numeral(h, 16, v) /\ Len(h) + 2 < kMaxNumericSize
    BY <1>2, ConvertHexNumeral, NumericAssumption
  <2>3. Len(h) > 0 /\ (Len(h) > 1 => h[1] # "0") /\ Reads(h, 16, v)
    BY <2>2, NumeralReads DEF Numeral
  <2>. HIDE DEF h, v
  <2>4. p \in Seq(Char) /\ h \in Seq(Char) /\ Len(p) = 2 /\ Len(h) \in Nat
    <3>1. 1 \in 1..16 /\ digitsHex[1] = "0"
      BY DEF digitsHex
    <3>2. "0" \in Char /\ "x" \in Char
      BY <3>1 DEF Char, Hex
    <3>3. h \in Seq(Char)
      BY <2>2 DEF Char
    <3>. QED  BY <3>2, <3>3
  <2>. HIDE DEF p
  <2>5. /\ text \in Seq(Char) /\ Len(text) = Len(p) + Len(h)
        /\ SubSeq(text, 1, Len(p)) = p
        /\ SubSeq(text, Len(p) + 1, Len(text)) = h
        /\ \A i \in 1..Len(h) : text[Len(p) + i] = h[i]
    BY <2>4, PrefixOff
  <2>6. 1 \in 1..Len(h) /\ Len(p) + 1 = 3
    BY <2>3, <2>4
  <2>7. text[3] = h[1]
    BY <2>5, <2>6
  <2>. HIDE DEF text
  <2>8. Len(text) > 2 /\ Len(text) < kMaxNumericSize /\ (Len(text) > 3 => text[3] # "0")
    BY <2>2, <2>3, <2>4, <2>5, <2>7, StreamAssumption
  <2>9. SubSeq(text, 1, 2) = p /\ SubSeq(text, 3, Len(text)) = h
    BY <2>4, <2>5
  <2>10. IsNumeral(text, item)
    BY <1>2, <2>3, <2>8, <2>9 DEF IsNumeral, v, p
  <2>. QED  BY <2>1, <2>5, <2>8, <2>10
<1>. QED  BY <1>1, <1>2, ItemKinds

\* A stream that is not full, as it always is.
Stream == {s \in Seq(Char) : Len(s) < SIZE}

\* An item is inserted with all of its text, or not at all.
LEMMA InsertedCases ==
    ASSUME NEW stream \in Stream, NEW item \in Item
    PROVE  /\ Inserted(stream, item) \in Stream
           /\ \/ Inserted(stream, item) = stream
              \/ Inserted(stream, item) = stream \o ItemText(item)
           /\ ItemText(item) \in Seq(Char)
<1>. DEFINE text == ItemText(item)
<1>1. text \in Seq(Char) /\ (item.kind # "text" => Len(text) < kMaxNumericSize)
  <2>1. CASE item.kind = "text"
    <3>1. text \in Seq({"t"})
      BY <2>1, ItemKinds DEF ItemText
    <3>. HIDE DEF text
    <3>. QED  BY <2>1, <3>1 DEF Char
  <2>2. CASE item.kind # "text"
    BY <2>2, NumericText
  <2>. QED  BY <2>1, <2>2
<1>2. \/ Inserted(stream, item) = stream
      \/ /\ Inserted(stream, item) = stream \o text
         /\ Left(stream) > Len(text)
            \/ (Left(stream) >= kMaxNumericSize /\ item.kind # "text")
  BY ItemKinds DEF Inserted, appendText, formatInteger, formatPointer, ItemText
<1>. HIDE DEF text
<1>3. stream \in Seq(Char) /\ Len(stream) \in Nat /\ Len(text) \in Nat /\ SIZE \in Nat
  BY <1>1, StreamAssumption DEF Stream
<1>4. /\ stream \o text \in Seq(Char)
      /\ Len(stream \o text) = Len(stream) + Len(text)
  BY <1>1, <1>3
<1>5. \/ Inserted(stream, item) = stream
      \/ /\ Inserted(stream, item) = stream \o text
         /\ Len(stream) + Len(text) < SIZE
  BY <1>1, <1>2, <1>3, StreamAssumption DEF Left
<1>6. stream \o text \in Stream \/ Inserted(stream, item) = stream
  BY <1>4, <1>5 DEF Stream
<1>. QED  BY <1>1, <1>5, <1>6 DEF text

\* Whole or not at all, at every place of a stream.
LEMMA AllInsertsWhole ==
    ASSUME NEW items \in SUBSET Item
    PROVE  InsertsWhole(items)
<1>. SUFFICES ASSUME NEW n \in 0..(SIZE - 1), NEW item \in items
              PROVE  LET old == [i \in 1..n |-> "t"]
                         new == Inserted(old, item)
                     IN  new # old =>
                             /\ IsStrictPrefix(old, new) /\ Len(new) < SIZE
                             /\ LET text == SubSeq(new, n + 1, Len(new))
                                IN  IF item.kind = "text" THEN text = item.text
                                    ELSE IsNumeral(text, item)
  BY DEF InsertsWhole
<1>. DEFINE old == [i \in 1..n |-> "t"]
            new == Inserted(old, item)
            text == ItemText(item)
<1>1. old \in Seq(Char) /\ Len(old) = n /\ old \in Stream /\ n \in Nat
  <2>1. n \in Nat /\ n < SIZE
    BY StreamAssumption
  <2>2. old \in Seq(Char) /\ Len(old) = n
    BY <2>1 DEF Char
  <2>. QED  BY <2>1, <2>2 DEF Stream
<1>. HIDE DEF old
<1>2. new \in Stream /\ (new = old \/ new = old \o text) /\ text \in Seq(Char)
  BY <1>1, InsertedCases
<1>3. item.kind = "text" => text = item.text
  BY DEF ItemText
<1>4. item.kind # "text" => IsNumeral(text, item)
  BY NumericText
<1>. SUFFICES ASSUME new # old
              PROVE  /\ IsStrictPrefix(old, new) /\ Len(new) < SIZE
                     /\ IF item.kind = "text" THEN SubSeq(new, n + 1, Len(new)) = item.text
                        ELSE IsNumeral(SubSeq(new, n + 1, Len(new)), item)
  BY DEF old
<1>. HIDE DEF new, text
<1>5. new = old \o text /\ Len(new) < SIZE
  BY <1>2 DEF Stream
<1>6. SubSeq(new, 1, Len(old)) = old /\ SubSeq(new, n + 1, Len(new)) = text
  <2>1. /\ SubSeq(old \o text, 1, Len(old)) = old
        /\ SubSeq(old \o text, Len(old) + 1, Len(old \o text)) = text
    BY <1>1, <1>2, PrefixOff
  <2>. QED  BY <1>1, <1>5, <2>1
<1>7. IsStrictPrefix(old, new)
  <2>1. Len(old) <= Len(new)
    BY <1>1, <1>2, <1>5
  <2>2. SubSeq(old, 1, Len(old)) = old
    BY <1>1, SubSeqFull
  <2>. QED  BY <1>6, <2>1, <2>2 DEF IsStrictPrefix, IsPrefix
<1>. QED  BY <1>3, <1>4, <1>5, <1>6, <1>7

\* A text is appended or not.
LEMMA TextFits ==
    ASSUME NEW stream \in Stream, NEW text \in Seq(Char)
    PROVE  appendText(stream, text) \in Stream
<1>1. stream \in Seq(Char) /\ Len(stream) \in Nat /\ Len(text) \in Nat /\ SIZE \in Nat
  BY StreamAssumption DEF Stream
<1>2. stream \o text \in Seq(Char) /\ Len(stream \o text) = Len(stream) + Len(text)
  BY <1>1
<1>. QED  BY <1>1, <1>2 DEF appendText, Left, Stream

\* A whole line does not fill its stream.
LEMMA ComposedFits ==
    ASSUME NEW items \in Seq(Item)
    PROVE  Composed(items) \in Stream /\ Len(Composed(items)) \in 0..SIZE
           /\ Len(Composed(items)) < SIZE
<1>. DEFINE N == Len(items)
            op == [p \in Stream \X Item |-> Inserted(p[1], p[2])]
            x == FoldLeft(Inserted, Begun, items)
            E(f) == f = [t \in SUBSET (1..N) |->
                            IF t = {} THEN Begun ELSE Inserted(f[t \ {Max(t)}], items[Max(t)])]
<1>1. N \in Nat /\ DOMAIN items = 1..N /\ \A i \in 1..N : items[i] \in Item
  OBVIOUS
<1>2. Begun \in Stream
  <2>1. <<>> \in Stream /\ <<"t">> \in Seq(Char)
    BY StreamAssumption DEF Stream, Char
  <2>. QED  BY <2>1, TextFits DEF Begun, Header
<1>3. /\ op \in [Stream \X Item -> Stream]
      /\ \A a \in Stream, d \in Item : op[<<a, d>>] = Inserted(a, d)
  <2>1. \A p \in Stream \X Item : p[1] \in Stream /\ p[2] \in Item
    OBVIOUS
  <2>2. \A p \in Stream \X Item : Inserted(p[1], p[2]) \in Stream
    BY <2>1, InsertedCases
  <2>. QED  BY <2>2
<1>. HIDE DEF op
<1>4. Foldable(Stream, Item, op, Begun, items, N)
  BY <1>1, <1>2, <1>3 DEF Foldable
<1>5. \E f : E(f)
  <2>. HIDE DEF N
  <2>1. PICK f : f \in [SUBSET (1..N) -> Stream] /\ Folds(f, op, Begun, items, N)
    BY <1>4, FoldExists
  <2>2. \A t \in SUBSET (1..N) : t # {} => Max(t) \in 1..N /\ t \ {Max(t)} \in SUBSET (1..N)
    BY <1>1, MaxIsIn
  <2>3. \A t \in SUBSET (1..N) : t # {} =>
            op[<<f[t \ {Max(t)}], items[Max(t)]>>] = Inserted(f[t \ {Max(t)}], items[Max(t)])
    BY <1>1, <1>3, <2>1, <2>2
  <2>4. E(f)
    BY <2>1, <2>3 DEF Folds
  <2>. HIDE DEF E
  <2>. QED  BY <2>4
<1>6. PICK e : E(e) /\ x = e[1..N]
  <2>. DEFINE e == CHOOSE e : E(e)
  <2>1. E(e)
    <3>. HIDE DEF E
    <3>. QED  BY <1>5
  <2>2. x = e[1..N]
    BY <1>1 DEF FoldLeft, MapThenFoldSet
  <2>. HIDE DEF E, e, x
  <2>. QED  BY <2>1, <2>2
<1>7. e[{}] = Begun
  BY <1>6
<1>8. ASSUME NEW i \in 1..N, e[1..(i - 1)] \in Stream
      PROVE  e[1..i] = op[<<e[1..(i - 1)], items[i]>>]
  <2>1. e[1..i] = Inserted(e[1..(i - 1)], items[i])
    BY <1>1, <1>6, MaxOfRange
  <2>. QED  BY <1>1, <1>3, <1>8, <2>1
<1>. HIDE DEF E, x
<1>9. Folded(x, Stream, op, Begun, items)
  BY <1>4, <1>6, <1>7, <1>8, RunsThrough
<1>10. x \in Stream
  BY <1>1, <1>9, FoldedType
<1>11. <<"t", "n">> \in Seq(Char)
  BY DEF Char
<1>12. Composed(items) \in Stream
  BY <1>10, <1>11, TextFits DEF Composed, Finished, Tail1, x
<1>. QED  BY <1>12, StreamAssumption DEF Stream

-----------------------------------------------------------------------------
(* The inductive invariant of LogFile: l and d are the LogFile and the disk, *)
(* and F the files with what stdio still holds.                              *)

FileRec == [name : 0..MaxTime, lines : Seq(Line)]
LogRec == [name : 0..MaxTime, opened : BOOLEAN, writen_bytes_ : Nat, buffered : Seq(Line),
           count_ : 0..checkEveryN_, startOfPeriod_ : 0..MaxTime,
           lastRoll_ : 0..MaxTime, lastFlush_ : 0..MaxTime]

\* The last file is the one that is open, and no file is younger than the last roll.
Well(l, d) ==
    /\ l \in LogRec /\ d \in Seq(FileRec)
    /\ l.opened => d # <<>> /\ d[Len(d)].name = l.name
    /\ ~l.opened => l.buffered = <<>>
    /\ l.name = l.lastRoll_ /\ l.startOfPeriod_ = Period(l.lastRoll_)
    /\ l.count_ < checkEveryN_
    /\ \A i \in DOMAIN d : d[i].name <= l.name
    /\ \A i, j \in DOMAIN d : i < j => d[i].name < d[j].name

KeptFiles(l, d) == IF l.opened THEN [d EXCEPT ![Len(d)].lines = @ \o l.buffered] ELSE d

NumbersInOrder(F) ==
    \A i, j \in DOMAIN F : \A a \in DOMAIN F[i].lines, b \in DOMAIN F[j].lines :
        i < j \/ (i = j /\ a < b) => F[i].lines[a].no < F[j].lines[b].no

Holds(F, n) == \E i \in DOMAIN F : \E a \in DOMAIN F[i].lines : F[i].lines[a].no = n

\* The lines 1..n are there, but for those that are missing, and no other.
Complete(F, n, missing) ==
    /\ \A m \in (1..n) \ missing : Holds(F, m)
    /\ \A i \in DOMAIN F : \A a \in DOMAIN F[i].lines : F[i].lines[a].no \in (1..n) \ missing

LinesFit(F) == \A i \in DOMAIN F : \A a \in DOMAIN F[i].lines : F[i].lines[a].len < SIZE

Contents(F, n, missing) == NumbersInOrder(F) /\ Complete(F, n, missing) /\ LinesFit(F)

InPeriod(f, k) == Period(f.lines[k].at) <= Period(f.name)
OfSize(f, i) == f.lines[i].at > f.name => Bytes(SubSeq(f.lines, 1, i)) <= rollSize_

\* RollsInTime of a file,
InTime(f) ==
    \A i \in DOMAIN f.lines :
        /\ i + checkEveryN_ \in DOMAIN f.lines => \E k \in i..(i + checkEveryN_) : InPeriod(f, k)
        /\ i < Len(f.lines) => OfSize(f, i)

\* and of the open one: count_ lines were not looked at since a line in the period.
StillInTime(l, f) ==
    /\ l.writen_bytes_ = Bytes(f.lines)
    /\ \A i \in DOMAIN f.lines : OfSize(f, i)
    /\ Len(f.lines) > l.count_ =>
           \E k \in (Len(f.lines) - l.count_)..Len(f.lines) : InPeriod(f, k)

AllInTime(l, F) ==
    /\ \A i \in DOMAIN F : InTime(F[i])
    /\ l.opened => StillInTime(l, F[Len(F)])

\* The LogFile and the disk, after n lines.
FilesWell(l, d, n, missing) ==
    /\ Well(l, d) /\ missing \subseteq 1..n
    /\ Contents(KeptFiles(l, d), n, missing) /\ AllInTime(l, KeptFiles(l, d))

\* n lines are on the disk, but for those that are missing.
Saved(d, n, missing) == \A m \in 1..n : m \in missing \/ Holds(d, m)

LoggersKnow ==
    \A t \in Thread :
        /\ logger[t].no <= lines
        /\ logger[t].at = "abort" => Saved(disk, logger[t].no, unopened)

\* What the reader has read is where it is in the file, until readToByte() goes back.
ReaderType(r) ==
    /\ r \in [method : {"", "readToString", "readToByte"},
              status : {"", "FILE_OPEN_FAILED", "FILE_READ_FAILED", "SUCCESS"},
              context : Seq(Nat), offset : Nat, faulty : BOOLEAN]
    /\ Len(r.context) <= ReadSize

ReadSoFar(r, d) ==
    \/ r.context = <<>> /\ r.offset = 0
    \/ /\ d # <<>> /\ r.offset \in 1..Len(d[1].lines)
       /\ r.context = Numbers(SubSeq(d[1].lines, 1, r.offset))
    \/ r.method = "readToByte" /\ r.faulty

ReaderInv(r, d) ==
    /\ ReaderType(r) /\ (r.method # "" => d # <<>>) /\ ReadSoFar(r, d)

FileInv ==
    /\ FileType /\ FilesWell(log, disk, lines, unopened)
    /\ LoggersKnow /\ Saved(disk, aborted, unopened)
    /\ ReaderInv(reader, disk)

-----------------------------------------------------------------------------
(* What the files hold, whether stdio has written it or not.                *)

\* d2 holds what d does, and perhaps more behind it.
Grows(d, d2) ==
    /\ Len(d) <= Len(d2)
    /\ \A i \in DOMAIN d :
           /\ Len(d[i].lines) <= Len(d2[i].lines)
           /\ \A a \in DOMAIN d[i].lines : d2[i].lines[a] = d[i].lines[a]

\* The parts of a log.
LEMMA LogParts ==
    ASSUME NEW l \in LogRec
    PROVE  /\ l.name \in 0..MaxTime /\ l.opened \in BOOLEAN /\ l.writen_bytes_ \in Nat
           /\ l.buffered \in Seq(Line) /\ l.count_ \in Nat /\ l.startOfPeriod_ \in 0..MaxTime
           /\ l.lastRoll_ \in 0..MaxTime /\ l.lastFlush_ \in 0..MaxTime
BY FileAssumption DEF LogRec

\* The files of a disk.
LEMMA DiskParts ==
    ASSUME NEW d \in Seq(FileRec)
    PROVE  /\ Len(d) \in Nat /\ DOMAIN d = 1..Len(d)
           /\ \A i \in DOMAIN d : d[i].name \in 0..MaxTime /\ d[i].lines \in Seq(Line)
           /\ \A i \in DOMAIN d : /\ DOMAIN d[i].lines = 1..Len(d[i].lines)
                                  /\ Len(d[i].lines) \in Nat
           /\ \A i \in DOMAIN d : \A a \in DOMAIN d[i].lines : d[i].lines[a] \in Line
<1>1. Len(d) \in Nat /\ DOMAIN d = 1..Len(d) /\ \A i \in DOMAIN d : d[i] \in FileRec
  OBVIOUS
<1>2. \A f \in FileRec : f.name \in 0..MaxTime /\ f.lines \in Seq(Line)
  BY DEF FileRec
<1>3. \A s \in Seq(Line) : /\ DOMAIN s = 1..Len(s) /\ Len(s) \in Nat
                           /\ \A a \in DOMAIN s : s[a] \in Line
  OBVIOUS
<1>. QED  BY <1>1, <1>2, <1>3

\* What is kept of a disk.
KeptWell(l, d, k) ==
    /\ k \in Seq(FileRec) /\ Len(k) = Len(d) /\ DOMAIN k = DOMAIN d
    /\ \A i \in DOMAIN d : k[i].name = d[i].name
    /\ ~l.opened => k = d
    /\ \A i \in DOMAIN d : i # Len(d) => k[i] = d[i]
    /\ l.opened => /\ Len(d) \in DOMAIN d
                   /\ k[Len(d)].lines = d[Len(d)].lines \o l.buffered
                   /\ k = [d EXCEPT ![Len(d)].lines = @ \o l.buffered]
    /\ l.buffered = <<>> => k = d

\* What is kept has the names and lines of the disk, and behind them what stdio holds.
LEMMA KeptFilesFacts ==
    ASSUME NEW l, NEW d, Well(l, d)
    PROVE  KeptWell(l, d, KeptFiles(l, d))
<1>. DEFINE k == KeptFiles(l, d)
            n == Len(d)
<1>. SUFFICES KeptWell(l, d, k)
  OBVIOUS
<1>1. l \in LogRec /\ d \in Seq(FileRec) /\ l.buffered \in Seq(Line) /\ l.opened \in BOOLEAN
  BY LogParts DEF Well
<1>2. CASE ~l.opened
  <2>1. k = d
    BY <1>2 DEF KeptFiles
  <2>. HIDE DEF k
  <2>. QED  BY <1>1, <1>2, <2>1 DEF KeptWell
<1>3. CASE l.opened
  <2>1. n \in DOMAIN d /\ d[n] \in FileRec /\ d[n].lines \in Seq(Line) /\ DOMAIN d = 1..n
    <3>1. d # <<>>
      BY <1>3 DEF Well
    <3>2. n \in DOMAIN d /\ d[n] \in FileRec
      BY <1>1, <3>1
    <3>. QED  BY <1>1, <3>2, DiskParts
  <2>2. k = [d EXCEPT ![n].lines = @ \o l.buffered]
    BY <1>3 DEF KeptFiles
  <2>. DEFINE f == [d[n] EXCEPT !.lines = @ \o l.buffered]
  <2>3. f \in FileRec /\ f.name = d[n].name /\ f.lines = d[n].lines \o l.buffered
    <3>1. d[n].lines \o l.buffered \in Seq(Line)
      BY <1>1, <2>1
    <3>. QED  BY <2>1, <3>1 DEF FileRec
  <2>4. k = [d EXCEPT ![n] = f]
    BY <2>2
  <2>5. l.buffered = <<>> => f = d[n]
    BY <2>1 DEF FileRec
  <2>. HIDE DEF f, k
  <2>6. /\ k \in Seq(FileRec) /\ Len(k) = n /\ DOMAIN k = DOMAIN d /\ k[n] = f
        /\ \A i \in DOMAIN d : i # n => k[i] = d[i]
    BY <1>1, <2>1, <2>3, <2>4
  <2>7. l.buffered = <<>> => k = d
    BY <1>1, <2>1, <2>4, <2>5
  <2>. QED  BY <1>3, <2>1, <2>2, <2>3, <2>6, <2>7 DEF KeptWell
<1>. QED  BY <1>1, <1>2, <1>3

\* Writing it gives what is kept.
LEMMA WrittenIsKept ==
    ASSUME NEW l, NEW d, Well(l, d)
    PROVE  Written(d, l) = KeptFiles(l, d)
<1>1. l.buffered = <<>> => KeptFiles(l, d) = d
  BY KeptFilesFacts DEF KeptWell
<1>. QED  BY <1>1 DEF Written, KeptFiles

\* A disk grows by what is kept of it, and it grows on.
LEMMA KeptGrows ==
    ASSUME NEW l, NEW d, Well(l, d)
    PROVE  Grows(d, KeptFiles(l, d))
<1>. DEFINE k == KeptFiles(l, d)
            n == Len(d)
<1>1. KeptWell(l, d, k)
  BY KeptFilesFacts
<1>2. l \in LogRec /\ d \in Seq(FileRec) /\ l.buffered \in Seq(Line) /\ l.opened \in BOOLEAN
  BY LogParts DEF Well
<1>. HIDE DEF k
<1>3. ASSUME NEW i \in DOMAIN d
      PROVE  /\ Len(d[i].lines) <= Len(k[i].lines)
             /\ \A a \in DOMAIN d[i].lines : k[i].lines[a] = d[i].lines[a]
  <2>1. d[i].lines \in Seq(Line)
    BY <1>2, DiskParts
  <2>2. CASE k[i] = d[i]
    BY <2>1, <2>2
  <2>3. CASE k[i] # d[i]
    <3>1. i = n /\ l.opened /\ k[i].lines = d[i].lines \o l.buffered
      BY <1>1, <2>3 DEF KeptWell
    <3>. DEFINE ls == d[i].lines
                m == k[i].lines
    <3>2. m = ls \o l.buffered /\ ls \in Seq(Line)
      BY <2>1, <3>1
    <3>. HIDE DEF ls, m
    <3>3. Len(ls) <= Len(m) /\ \A a \in DOMAIN ls : m[a] = ls[a]
      BY <1>2, <3>2
    <3>. QED  BY <3>3 DEF ls, m
  <2>. QED  BY <2>2, <2>3
<1>4. n \in Nat /\ Len(k) = n
  BY <1>1, <1>2 DEF KeptWell
<1>. QED  BY <1>3, <1>4 DEF Grows, k

\* Nothing is smaller than itself.
LEMMA GrowsNot ==
    ASSUME NEW d \in Seq(FileRec)
    PROVE  Grows(d, d)
<1>1. Len(d) \in Nat /\ \A i \in DOMAIN d : Len(d[i].lines) \in Nat
  BY DiskParts
<1>. QED  BY <1>1 DEF Grows

\* A file behind the others.
LEMMA GrowsByFile ==
    ASSUME NEW d \in Seq(FileRec), NEW k \in Seq(FileRec), Grows(d, k), NEW f \in FileRec
    PROVE  Grows(d, Append(k, f))
<1>1. /\ Len(d) \in Nat /\ Len(k) \in Nat /\ Len(d) <= Len(k)
      /\ DOMAIN d = 1..Len(d)
  BY DEF Grows
<1>2. Len(Append(k, f)) = Len(k) + 1 /\ \A i \in 1..Len(k) : Append(k, f)[i] = k[i]
  BY <1>1
<1>3. \A i \in DOMAIN d : i \in 1..Len(k) /\ Append(k, f)[i] = k[i]
  BY <1>1, <1>2
<1>4. Len(d) <= Len(Append(k, f))
  BY <1>1, <1>2
<1>. QED  BY <1>3, <1>4 DEF Grows

-----------------------------------------------------------------------------
(* append_unlocked(), on what the files hold.                               *)

Added(F, line) == [F EXCEPT ![Len(F)].lines = Append(@, line)]
NewFile == [name |-> now, lines |-> <<>>]

\* l2 has the file of l.
SameFile(l, l2) ==
    /\ l2.name = l.name /\ l2.opened = l.opened
    /\ l2.lastRoll_ = l.lastRoll_ /\ l2.startOfPeriod_ = l.startOfPeriod_

\* Flushing changes nothing.
LEMMA FlushKeeps ==
    ASSUME NEW l, NEW d, Well(l, d), NEW l2 \in LogRec, SameFile(l, l2),
           l2.buffered = <<>>, l2.count_ < checkEveryN_
    PROVE  Well(l2, KeptFiles(l, d)) /\ KeptFiles(l2, KeptFiles(l, d)) = KeptFiles(l, d)
<1>. DEFINE k == KeptFiles(l, d)
<1>. SUFFICES Well(l2, k) /\ KeptFiles(l2, k) = k
  OBVIOUS
<1>1. KeptWell(l, d, k)
  BY KeptFilesFacts
<1>. HIDE DEF k
<1>2. l.opened => k # <<>> /\ k[Len(k)].name = l.name
  <2>. SUFFICES ASSUME l.opened PROVE k # <<>> /\ k[Len(k)].name = l.name
    OBVIOUS
  <2>1. Len(d) \in DOMAIN d /\ Len(k) = Len(d) /\ DOMAIN k = DOMAIN d
    BY <1>1 DEF KeptWell
  <2>2. k[Len(d)].name = d[Len(d)].name /\ d[Len(d)].name = l.name
    BY <1>1, <2>1 DEF KeptWell, Well
  <2>3. k \in Seq(FileRec)
    BY <1>1 DEF KeptWell
  <2>. QED  BY <2>1, <2>2, <2>3
<1>3. Well(l2, k)
  BY <1>1, <1>2 DEF Well, SameFile, KeptWell
<1>4. KeptFiles(l2, k) = k
  BY <1>3, KeptFilesFacts DEF KeptWell
<1>. QED  BY <1>3, <1>4

\* A line is added to the last file, if it is open.
LEMMA AddKeeps ==
    ASSUME NEW l, NEW d, Well(l, d), NEW line \in Line, NEW l2 \in LogRec, SameFile(l, l2),
           l2.buffered = (IF l.opened THEN Append(l.buffered, line) ELSE l.buffered),
           l2.count_ < checkEveryN_
    PROVE  /\ Well(l2, d)
           /\ KeptFiles(l2, d) =
                  IF l.opened THEN Added(KeptFiles(l, d), line) ELSE KeptFiles(l, d)
<1>1. Well(l2, d)
  BY DEF Well, SameFile
<1>2. CASE ~l.opened
  <2>1. l2.opened = l.opened
    BY DEF SameFile
  <2>. QED  BY <1>1, <1>2, <2>1 DEF KeptFiles
<1>3. CASE l.opened
  <2>. DEFINE k == KeptFiles(l, d)
              k2 == KeptFiles(l2, d)
              n == Len(d)
  <2>. SUFFICES k2 = Added(k, line)
    BY <1>1, <1>3
  <2>1. KeptWell(l, d, k) /\ KeptWell(l2, d, k2)
    BY <1>1, KeptFilesFacts
  <2>2. l.buffered \in Seq(Line) /\ d \in Seq(FileRec) /\ l2.opened /\ n \in DOMAIN d
    BY <1>3, <2>1, LogParts DEF Well, SameFile, KeptWell
  <2>. HIDE DEF k, k2
  <2>3. d[n].lines \in Seq(Line) /\ d[n] \in FileRec
    BY <2>2, DiskParts
  <2>4. /\ k = [d EXCEPT ![n].lines = @ \o l.buffered]
        /\ k2 = [d EXCEPT ![n].lines = @ \o l2.buffered]
        /\ k[n].lines = d[n].lines \o l.buffered
        /\ Len(k) = n
    BY <1>3, <2>1, <2>2 DEF KeptWell
  <2>5. d[n].lines \o l2.buffered = Append(k[n].lines, line)
    <3>1. \A a, b \in Seq(Line) : a \o Append(b, line) = Append(a \o b, line)
      OBVIOUS
    <3>2. l2.buffered = Append(l.buffered, line)
      BY <1>3
    <3>3. d[n].lines \o Append(l.buffered, line) = Append(d[n].lines \o l.buffered, line)
      BY <2>2, <2>3, <3>1
    <3>. QED  BY <2>4, <3>2, <3>3
  <2>6. Added(k, line) = [k EXCEPT ![n].lines = Append(@, line)]
    BY <2>4 DEF Added
  <2>7. k2 = [k EXCEPT ![n].lines = Append(@, line)]
    BY <2>2, <2>3, <2>4, <2>5
  <2>. QED  BY <2>6, <2>7
<1>. QED  BY <1>2, <1>3

St(l, d) == [log |-> l, disk |-> d]

\* What a roll makes of the files: s is the state it leaves.
RollWell(l, d, opened, s) ==
    /\ Well(s.log, s.disk) /\ Grows(d, s.disk)
    /\ s.log.opened = opened /\ s.log.count_ = l.count_ /\ s.log.writen_bytes_ = 0
    /\ KeptFiles(s.log, s.disk) =
           IF opened THEN Append(KeptFiles(l, d), NewFile) ELSE KeptFiles(l, d)

\* The log after a roll.
LEMMA RolledParts ==
    ASSUME NEW l \in LogRec, NEW d, NEW opened \in BOOLEAN, now \in 0..MaxTime
    PROVE  LET s == Rolled(St(l, d), opened)
           IN  /\ s.log \in LogRec /\ s.log.name = now /\ s.log.opened = opened
               /\ s.log.writen_bytes_ = 0 /\ s.log.buffered = <<>> /\ s.log.count_ = l.count_
               /\ s.log.lastRoll_ = now /\ s.log.startOfPeriod_ = Period(now)
               /\ s.disk = IF opened THEN Append(Written(d, l), NewFile) ELSE Written(d, l)
<1>1. Period(now) \in 0..MaxTime
  BY FileAssumption DEF Period
<1>. DEFINE l1 == [l EXCEPT !.name = now, !.opened = opened,
                            !.writen_bytes_ = 0, !.buffered = <<>>]
            l2 == [l1 EXCEPT !.lastRoll_ = now, !.lastFlush_ = now,
                             !.startOfPeriod_ = Period(now)]
            d1 == IF opened THEN Append(Written(d, l), NewFile) ELSE Written(d, l)
            s == Rolled(St(l, d), opened)
<1>2. /\ l1 \in LogRec /\ l1.name = now /\ l1.opened = opened
      /\ l1.writen_bytes_ = 0 /\ l1.buffered = <<>> /\ l1.count_ = l.count_
  <2>1. <<>> \in Seq(Line) /\ 0 \in Nat
    OBVIOUS
  <2>2. l1 \in LogRec
    BY <2>1 DEF LogRec
  <2>. QED  BY <2>2 DEF LogRec
<1>3. Open(St(l, d), now, opened) = [log |-> l1, disk |-> d1]
  BY DEF Open, St, NewFile
<1>4. s = [[log |-> l1, disk |-> d1] EXCEPT !.log.lastRoll_ = now, !.log.lastFlush_ = now,
                                            !.log.startOfPeriod_ = Period(now)]
  BY <1>3 DEF Rolled
<1>. HIDE DEF l1, d1, s
<1>5. /\ l2 \in LogRec /\ l2.name = now /\ l2.opened = opened
      /\ l2.writen_bytes_ = 0 /\ l2.buffered = <<>> /\ l2.count_ = l.count_
      /\ l2.lastRoll_ = now /\ l2.startOfPeriod_ = Period(now)
  <2>1. l2 \in LogRec
    BY <1>1, <1>2 DEF LogRec
  <2>. QED  BY <1>2, <2>1 DEF LogRec
<1>6. s.log = l2 /\ s.disk = d1
  BY <1>4
<1>. HIDE DEF l2
<1>. QED  BY <1>5, <1>6 DEF s, d1

\* A roll starts an empty file, if it can be opened, and keeps the others.
LEMMA RollKeeps ==
    ASSUME NEW l, NEW d, Well(l, d), NEW opened \in BOOLEAN,
           now \in 0..MaxTime, now > l.lastRoll_
    PROVE  RollWell(l, d, opened, Rolled(St(l, d), opened))
<1>. DEFINE s == Rolled(St(l, d), opened)
            k == KeptFiles(l, d)
            e == s.disk
            m == s.log
<1>. SUFFICES RollWell(l, d, opened, s)
  OBVIOUS
<1>1. l \in LogRec /\ d \in Seq(FileRec)
  BY DEF Well
<1>2. /\ m \in LogRec /\ m.name = now /\ m.opened = opened
      /\ m.writen_bytes_ = 0 /\ m.buffered = <<>> /\ m.count_ = l.count_
      /\ m.lastRoll_ = now /\ m.startOfPeriod_ = Period(now)
      /\ e = IF opened THEN Append(Written(d, l), NewFile) ELSE Written(d, l)
  BY <1>1, RolledParts
<1>3. Written(d, l) = k /\ KeptWell(l, d, k) /\ Grows(d, k)
  BY WrittenIsKept, KeptFilesFacts, KeptGrows
<1>4. NewFile \in FileRec /\ NewFile.name = now
  BY DEF NewFile, FileRec
<1>5. /\ k \in Seq(FileRec) /\ Len(k) \in Nat /\ DOMAIN k = 1..Len(k)
      /\ \A i \in DOMAIN k : k[i].name < now /\ k[i].name \in Nat
      /\ \A i, j \in DOMAIN k : i < j => k[i].name < k[j].name
  <2>1. k \in Seq(FileRec)
    BY <1>3 DEF KeptWell
  <2>2. \A i \in DOMAIN k : k[i].name = d[i].name /\ i \in DOMAIN d /\ d[i].name <= l.name
    BY <1>3 DEF KeptWell, Well
  <2>3. \A i \in DOMAIN k : k[i].name \in Nat
    BY <2>1, DiskParts
  <2>4. l.name = l.lastRoll_ /\ l.name \in Nat /\ now \in Nat
    BY <1>1, LogParts DEF Well
  <2>5. \A i \in DOMAIN k : k[i].name < now
    BY <2>2, <2>3, <2>4
  <2>6. \A i, j \in DOMAIN k : i < j => k[i].name < k[j].name
    BY <2>2 DEF Well
  <2>. QED  BY <2>1, <2>3, <2>5, <2>6, DiskParts
<1>6. /\ e \in Seq(FileRec)
      /\ opened => /\ e # <<>> /\ e[Len(e)].name = now
      /\ \A i \in DOMAIN e : e[i].name <= now
      /\ \A i, j \in DOMAIN e : i < j => e[i].name < e[j].name
  <2>1. CASE opened
    <3>1. e = Append(k, NewFile)
      BY <1>2, <1>3, <2>1
    <3>. HIDE DEF e, k
    <3>2. /\ e \in Seq(FileRec) /\ Len(e) = Len(k) + 1 /\ e[Len(e)] = NewFile
          /\ DOMAIN e = 1..(Len(k) + 1) /\ \A i \in DOMAIN k : e[i] = k[i]
      BY <1>4, <1>5, <3>1
    <3>3. \A i \in DOMAIN e : i # Len(e) => i \in DOMAIN k
      BY <1>5, <3>2
    <3>4. \A i \in DOMAIN e : /\ e[i].name <= now
                              /\ i # Len(e) => e[i].name < now
      BY <1>4, <1>5, <3>2, <3>3
    <3>5. ASSUME NEW i \in DOMAIN e, NEW j \in DOMAIN e, i < j PROVE e[i].name < e[j].name
      <4>1. i # Len(e)
        BY <1>5, <3>2, <3>5
      <4>2. CASE j = Len(e)
        BY <1>4, <3>2, <3>4, <4>1, <4>2
      <4>3. CASE j # Len(e)
        BY <1>5, <3>2, <3>3, <3>5, <4>1, <4>3
      <4>. QED  BY <4>2, <4>3
    <3>6. e # <<>>
      BY <1>5, <3>2
    <3>. QED  BY <1>4, <3>2, <3>4, <3>5, <3>6
  <2>2. CASE ~opened
    <3>1. e = k
      BY <1>2, <1>3, <2>2
    <3>2. \A i \in DOMAIN k : k[i].name <= now
      BY <1>5
    <3>. HIDE DEF e, k
    <3>. QED  BY <1>5, <2>2, <3>1, <3>2
  <2>. QED  BY <2>1, <2>2
<1>7. l.count_ < checkEveryN_
  BY DEF Well
<1>. HIDE DEF s, e, m, k
<1>8. Well(m, e)
  BY <1>2, <1>6, <1>7 DEF Well
<1>9. Grows(d, e)
  <2>1. Grows(d, Append(k, NewFile))
    BY <1>1, <1>3, <1>4, <1>5, GrowsByFile
  <2>. QED  BY <1>2, <1>3, <2>1
<1>10. KeptFiles(m, e) = IF opened THEN Append(k, NewFile) ELSE k
  <2>1. KeptFiles(m, e) = e
    BY <1>2, <1>8, KeptFilesFacts DEF KeptWell
  <2>. QED  BY <1>2, <1>3, <2>1
<1>. QED  BY <1>2, <1>8, <1>9, <1>10 DEF RollWell, m, e, k

AddedTo(l, F, line) == IF l.opened THEN Added(F, line) ELSE F

\* What an append makes of the files, without a roll and with one.
Stays(l, d, line, m, e) ==
    /\ m.opened = l.opened /\ m.name = l.name
    /\ KeptFiles(m, e) = AddedTo(l, KeptFiles(l, d), line)
    /\ m.writen_bytes_ = IF l.opened THEN l.writen_bytes_ + line.len ELSE l.writen_bytes_
    /\ m.count_ = l.count_ + 1 \/ Period(now) <= Period(l.name)
    /\ now > l.name => m.writen_bytes_ <= rollSize_

Rolls(l, d, line, opened, m, e) ==
    /\ m.opened = opened /\ m.writen_bytes_ = 0
    /\ KeptFiles(m, e) = IF opened THEN Append(AddedTo(l, KeptFiles(l, d), line), NewFile)
                    ELSE AddedTo(l, KeptFiles(l, d), line)

AppendWell(l, d, line, opened, s) ==
    /\ Well(s.log, s.disk) /\ Grows(d, s.disk)
    /\ \/ Stays(l, d, line, s.log, s.disk)
       \/ Rolls(l, d, line, opened, s.log, s.disk)

\* A log with the line, and with count_ lines not looked at.
Counted(l, line, count) == [AppendFile(l, line) EXCEPT !.count_ = count]

\* The line is counted and in the buffer of an open file.
LEMMA CountedParts ==
    ASSUME NEW l \in LogRec, NEW line \in Line, NEW count \in 0..checkEveryN_
    PROVE  LET m == Counted(l, line, count)
           IN  /\ m \in LogRec /\ SameFile(l, m) /\ m.count_ = count
               /\ m.buffered = (IF l.opened THEN Append(l.buffered, line) ELSE l.buffered)
               /\ m.writen_bytes_ =
                      IF l.opened THEN l.writen_bytes_ + line.len ELSE l.writen_bytes_
               /\ m.lastFlush_ = l.lastFlush_
<1>. DEFINE w == AppendFile(l, line)
            m == Counted(l, line, count)
<1>1. /\ w \in LogRec /\ SameFile(l, w) /\ w.lastFlush_ = l.lastFlush_
      /\ w.buffered = (IF l.opened THEN Append(l.buffered, line) ELSE l.buffered)
      /\ w.writen_bytes_ = IF l.opened THEN l.writen_bytes_ + line.len ELSE l.writen_bytes_
  <2>1. l.opened \in BOOLEAN /\ l.buffered \in Seq(Line) /\ l.writen_bytes_ \in Nat
    BY LogParts
  <2>2. line.len \in Nat
    BY StreamAssumption DEF Line
  <2>3. Append(l.buffered, line) \in Seq(Line) /\ l.writen_bytes_ + line.len \in Nat
    BY <2>1, <2>2
  <2>4. CASE l.opened
    <3>1. w = [l EXCEPT !.buffered = Append(@, line), !.writen_bytes_ = @ + line.len]
      BY <2>4 DEF AppendFile
    <3>2. w \in LogRec
      BY <2>3, <3>1 DEF LogRec
    <3>. QED  BY <2>4, <3>1, <3>2 DEF LogRec, SameFile
  <2>5. CASE ~l.opened
    BY <2>5 DEF AppendFile, SameFile
  <2>. QED  BY <2>4, <2>5
<1>2. m = [w EXCEPT !.count_ = count]
  BY DEF Counted
<1>. HIDE DEF w, m
<1>3. m \in LogRec
  BY <1>1, <1>2 DEF LogRec
<1>4. /\ m.count_ = count /\ m.buffered = w.buffered /\ m.writen_bytes_ = w.writen_bytes_
      /\ m.lastFlush_ = w.lastFlush_ /\ SameFile(w, m)
  BY <1>1, <1>2, <1>3 DEF LogRec, SameFile
<1>5. SameFile(l, m)
  BY <1>1, <1>4 DEF SameFile
<1>. QED  BY <1>1, <1>3, <1>4, <1>5 DEF m

\* The branches of append_unlocked().
Branches(l, d, line, opened, s) ==
    LET size == AppendFile(l, line).writen_bytes_ > rollSize_
        count == l.count_ + 1 < checkEveryN_
        c(n) == St(Counted(l, line, n), d)
    IN  \/ size /\ s = rollFile(c(l.count_), opened)
        \/ ~size /\ count /\ s = c(l.count_ + 1)
        \/ ~size /\ ~count /\ Period(now) # l.startOfPeriod_ /\ s = rollFile(c(0), opened)
        \/ /\ ~size /\ ~count /\ Period(now) = l.startOfPeriod_
           /\ \/ s = c(0)
              \/ /\ s.log = Flushed([Counted(l, line, 0) EXCEPT !.lastFlush_ = now])
                 /\ s.disk = Written(d, Counted(l, line, 0))

\* append_unlocked() takes one of them.
LEMMA AppendBranches ==
    ASSUME NEW l \in LogRec, NEW d, NEW line \in Line, NEW opened
    PROVE  Branches(l, d, line, opened, append_unlocked(St(l, d), line, opened))
<1>. DEFINE w == AppendFile(l, line)
            written == [St(l, d) EXCEPT !.log = AppendFile(@, line)]
            counted == [written EXCEPT !.log.count_ = @ + 1]
            checked == [written EXCEPT !.log.count_ = 0]
            s == append_unlocked(St(l, d), line, opened)
<1>1. w.count_ = l.count_ /\ w \in LogRec
  <2>1. l.count_ \in 0..checkEveryN_
    BY DEF LogRec
  <2>2. Counted(l, line, l.count_) \in LogRec
    BY <2>1, CountedParts
  <2>3. l.opened \in BOOLEAN /\ l.buffered \in Seq(Line) /\ l.writen_bytes_ \in Nat
    BY LogParts
  <2>4. line.len \in Nat
    BY StreamAssumption DEF Line
  <2>5. Append(l.buffered, line) \in Seq(Line) /\ l.writen_bytes_ + line.len \in Nat
    BY <2>3, <2>4
  <2>6. w \in LogRec
    BY <2>5 DEF AppendFile, LogRec
  <2>. QED  BY <2>6 DEF AppendFile, LogRec
<1>2. written = St(w, d)
  BY DEF St
<1>. HIDE DEF w, written
<1>3. /\ counted = St([w EXCEPT !.count_ = l.count_ + 1], d)
      /\ checked = St([w EXCEPT !.count_ = 0], d)
      /\ written = St([w EXCEPT !.count_ = l.count_], d)
  <2>1. w = [w EXCEPT !.count_ = l.count_]
    BY <1>1 DEF LogRec
  <2>2. checked = St([w EXCEPT !.count_ = 0], d)
    BY <1>2 DEF St
  <2>3. counted = St([w EXCEPT !.count_ = @ + 1], d)
    BY <1>2 DEF St
  <2>. HIDE DEF checked, counted, written
  <2>. QED  BY <1>1, <1>2, <2>1, <2>2, <2>3
<1>4. /\ counted = St(Counted(l, line, l.count_ + 1), d)
      /\ checked = St(Counted(l, line, 0), d)
      /\ written = St(Counted(l, line, l.count_), d)
  BY <1>3 DEF Counted, w
<1>5. /\ written.log.writen_bytes_ = w.writen_bytes_ /\ counted.log.count_ = l.count_ + 1
      /\ written.log.writen_bytes_ = AppendFile(l, line).writen_bytes_
  <2>1. written.log = w
    BY <1>2 DEF St
  <2>2. counted.log = [w EXCEPT !.count_ = l.count_ + 1]
    BY <1>3 DEF St
  <2>. HIDE DEF written, counted
  <2>3. counted.log.count_ = l.count_ + 1
    BY <1>1, <2>2 DEF LogRec
  <2>. QED  BY <2>1, <2>3 DEF w
<1>6. s = IF written.log.writen_bytes_ > rollSize_ THEN rollFile(written, opened)
          ELSE IF counted.log.count_ < checkEveryN_ THEN counted
          ELSE IF Period(now) # l.startOfPeriod_ THEN rollFile(checked, opened)
          ELSE IF now - l.lastFlush_ > flushInterval_
          THEN [log |-> Flushed([checked.log EXCEPT !.lastFlush_ = now]),
                disk |-> Written(checked.disk, checked.log)]
          ELSE checked
  BY DEF append_unlocked, St, written
<1>7. checked.log = Counted(l, line, 0) /\ checked.disk = d
  BY <1>4 DEF St
<1>. HIDE DEF written, counted, checked
<1>. QED  BY <1>4, <1>5, <1>6, <1>7 DEF Branches

\* Periods are in the order of time.
LEMMA PeriodInOrder ==
    ASSUME NEW a \in Nat, NEW b \in Nat, a <= b
    PROVE  Period(a) <= Period(b) /\ Period(a) \in 0..a
BY FileAssumption DEF Period

\* append_unlocked() adds the line to the open file, whatever it does besides.
LEMMA AppendKeeps ==
    ASSUME NEW l, NEW d, Well(l, d), NEW line \in Line, NEW opened \in BOOLEAN, now \in 0..MaxTime
    PROVE  AppendWell(l, d, line, opened, append_unlocked(St(l, d), line, opened))
<1>. DEFINE s == append_unlocked(St(l, d), line, opened)
            c(n) == Counted(l, line, n)
            bytes == IF l.opened THEN l.writen_bytes_ + line.len ELSE l.writen_bytes_
            F == AddedTo(l, KeptFiles(l, d), line)
<1>1. /\ l \in LogRec /\ d \in Seq(FileRec) /\ l.name = l.lastRoll_
      /\ l.name \in Nat /\ now \in Nat
      /\ l.count_ \in Nat /\ l.count_ < checkEveryN_ /\ l.startOfPeriod_ = Period(l.name)
      /\ MaxTime \in Nat
  BY LogParts, FileAssumption DEF Well
<1>2. Branches(l, d, line, opened, s)
  BY <1>1, AppendBranches
<1>. HIDE DEF s, F
<1>. SUFFICES AppendWell(l, d, line, opened, s)
  BY DEF s
<1>3. AppendFile(l, line).writen_bytes_ = bytes
  <2>1. bytes = l.writen_bytes_ + line.len \/ ~l.opened
    OBVIOUS
  <2>. QED  BY <1>1, <2>1 DEF AppendFile, LogRec
<1>. HIDE DEF bytes
<1>4. ASSUME NEW n \in Nat, n < checkEveryN_
      PROVE  /\ c(n) \in LogRec /\ SameFile(l, c(n)) /\ c(n).count_ = n
             /\ c(n).writen_bytes_ = bytes /\ Well(c(n), d) /\ KeptFiles(c(n), d) = F
             /\ c(n).name = l.name /\ c(n).opened = l.opened /\ c(n).lastRoll_ = l.name
  <2>1. n \in 0..checkEveryN_
    BY <1>4, FileAssumption
  <2>2. /\ c(n) \in LogRec /\ SameFile(l, c(n)) /\ c(n).count_ = n
        /\ c(n).buffered = (IF l.opened THEN Append(l.buffered, line) ELSE l.buffered)
        /\ c(n).writen_bytes_ = bytes
    BY <1>1, <2>1, CountedParts DEF bytes
  <2>. HIDE DEF c
  <2>3. Well(c(n), d) /\ KeptFiles(c(n), d) = F
    BY <1>4, <2>2, AddKeeps DEF F, AddedTo
  <2>. QED  BY <1>1, <2>2, <2>3 DEF SameFile
<1>5. 0 < checkEveryN_ /\ 0 \in Nat
  BY FileAssumption
<1>6. ~(now > l.name) => Period(now) <= Period(l.name)
  BY <1>1, PeriodInOrder
\* as it stays,
<1>7. ASSUME NEW n \in Nat, n < checkEveryN_, s = St(c(n), d),
             n = l.count_ + 1 \/ Period(now) <= Period(l.name), now > l.name => bytes <= rollSize_
      PROVE  AppendWell(l, d, line, opened, s)
  <2>1. s.log = c(n) /\ s.disk = d
    BY <1>7 DEF St
  <2>2. /\ c(n).count_ = n /\ c(n).writen_bytes_ = bytes
        /\ Well(c(n), d) /\ KeptFiles(c(n), d) = F
        /\ c(n).name = l.name /\ c(n).opened = l.opened
    BY <1>4, <1>7
  <2>. HIDE DEF c
  <2>3. Stays(l, d, line, c(n), d)
    BY <1>7, <2>2 DEF Stays, bytes, F
  <2>. QED  BY <1>1, <2>1, <2>2, <2>3, GrowsNot DEF AppendWell
\* as rollFile() leaves it,
<1>8. ASSUME NEW n \in Nat, n < checkEveryN_, s = rollFile(St(c(n), d), opened)
      PROVE  AppendWell(l, d, line, opened, s)
  <2>1. /\ Well(c(n), d) /\ KeptFiles(c(n), d) = F /\ c(n).lastRoll_ = l.name
    BY <1>4, <1>8
  <2>2. s = IF now > l.name THEN Rolled(St(c(n), d), opened) ELSE St(c(n), d)
    <3>1. St(c(n), d).log.lastRoll_ = l.name
      BY <2>1 DEF St
    <3>. QED  BY <1>8, <3>1 DEF rollFile
  <2>3. CASE now > l.name
    <3>1. s = Rolled(St(c(n), d), opened)
      BY <2>2, <2>3
    <3>. HIDE DEF c
    <3>2. RollWell(c(n), d, opened, s)
      BY <2>1, <2>3, <3>1, RollKeeps
    <3>. HIDE DEF s
    <3>3. Rolls(l, d, line, opened, s.log, s.disk)
      BY <2>1, <3>2 DEF RollWell, Rolls, F
    <3>. QED  BY <3>2, <3>3 DEF RollWell, AppendWell
  <2>4. CASE ~(now > l.name)
    <3>1. s = St(c(n), d)
      BY <2>2, <2>4
    <3>. HIDE DEF c
    <3>. QED  BY <1>6, <1>7, <1>8, <2>4, <3>1 DEF c
  <2>. QED  BY <2>3, <2>4
\* and flushed.
<1>9. ASSUME s.log = Flushed([c(0) EXCEPT !.lastFlush_ = now]), s.disk = Written(d, c(0)),
             Period(now) = l.startOfPeriod_, ~(bytes > rollSize_)
      PROVE  AppendWell(l, d, line, opened, s)
  <2>1. /\ c(0) \in LogRec /\ SameFile(l, c(0)) /\ c(0).count_ = 0
        /\ c(0).writen_bytes_ = bytes /\ Well(c(0), d) /\ KeptFiles(c(0), d) = F
        /\ c(0).name = l.name /\ c(0).opened = l.opened
    BY <1>4, <1>5
  <2>. DEFINE b == c(0)
              m == s.log
              e == s.disk
  <2>2. m = [[b EXCEPT !.lastFlush_ = now] EXCEPT !.buffered = <<>>]
    BY <1>9 DEF Flushed
  <2>3. e = KeptFiles(b, d) /\ Grows(d, KeptFiles(b, d))
    BY <1>9, <2>1, WrittenIsKept, KeptGrows
  <2>. HIDE DEF b, m, e
  <2>4. m \in LogRec
    <3>1. <<>> \in Seq(Line) /\ b \in LogRec
      BY <2>1 DEF b
    <3>. QED  BY <2>2, <3>1 DEF LogRec
  <2>5. /\ SameFile(b, m) /\ m.buffered = <<>> /\ m.count_ = b.count_
        /\ m.writen_bytes_ = b.writen_bytes_
    <3>1. b \in LogRec
      BY <2>1 DEF b
    <3>. QED  BY <2>2, <3>1 DEF LogRec, SameFile
  <2>6. Well(b, d) /\ m.count_ < checkEveryN_ /\ KeptFiles(b, d) = F
    BY <1>5, <2>1, <2>5 DEF b
  <2>7. Well(m, e) /\ KeptFiles(m, e) = F
    BY <2>3, <2>4, <2>5, <2>6, FlushKeeps
  <2>8. m.opened = l.opened /\ m.name = l.name /\ m.writen_bytes_ = bytes
    BY <2>1, <2>5 DEF SameFile, b
  <2>9. Period(now) <= Period(l.name) /\ bytes <= rollSize_
    <3>1. Period(now) \in Int
      BY <1>1, PeriodInOrder
    <3>2. bytes \in Nat /\ rollSize_ \in Nat
      <4>1. c(0).writen_bytes_ \in Nat
        BY <2>1, LogParts
      <4>. QED  BY <2>1, <4>1, FileAssumption
    <3>. QED  BY <1>1, <1>9, <3>1, <3>2
  <2>10. Stays(l, d, line, m, e)
    BY <2>7, <2>8, <2>9 DEF Stays, bytes, F
  <2>. QED  BY <2>3, <2>7, <2>10 DEF AppendWell, m, e
<1>. DEFINE size == bytes > rollSize_
            count == l.count_ + 1 < checkEveryN_
<1>10. \/ size /\ s = rollFile(St(c(l.count_), d), opened)
       \/ ~size /\ count /\ s = St(c(l.count_ + 1), d)
       \/ ~size /\ ~count /\ Period(now) # l.startOfPeriod_ /\ s = rollFile(St(c(0), d), opened)
       \/ ~size /\ ~count /\ Period(now) = l.startOfPeriod_ /\ s = St(c(0), d)
       \/ /\ ~size /\ ~count /\ Period(now) = l.startOfPeriod_
          /\ s.log = Flushed([c(0) EXCEPT !.lastFlush_ = now]) /\ s.disk = Written(d, c(0))
  BY <1>2, <1>3 DEF Branches
<1>11. bytes \in Nat /\ rollSize_ \in Nat /\ l.count_ + 1 \in Nat /\ Period(now) \in Int
  <2>1. c(0).writen_bytes_ \in Nat
    BY <1>4, <1>5, LogParts
  <2>2. c(0).writen_bytes_ = bytes
    BY <1>4, <1>5
  <2>3. Period(now) \in Int
    BY <1>1, PeriodInOrder
  <2>4. bytes \in Nat
    BY <2>1, <2>2
  <2>5. rollSize_ \in Nat
    BY FileAssumption
  <2>6. l.count_ + 1 \in Nat
    BY <1>1
  <2>. QED  BY <2>3, <2>4, <2>5, <2>6
<1>12. ~size => bytes <= rollSize_
  BY <1>11
<1>13. Period(now) = l.startOfPeriod_ => Period(now) <= Period(l.name)
  BY <1>1, <1>11
<1>. HIDE DEF c, size
<1>. QED  BY <1>1, <1>5, <1>7, <1>8, <1>9, <1>10, <1>11, <1>12, <1>13 DEF size

-----------------------------------------------------------------------------
(* A line or a file more.                                                   *)

\* G is F with the line in its last file.
AddedWell(F, line, G) ==
    /\ G \in Seq(FileRec) /\ Len(G) = Len(F) /\ DOMAIN G = DOMAIN F /\ Len(F) \in DOMAIN F
    /\ \A i \in DOMAIN F : G[i].name = F[i].name
    /\ \A i \in DOMAIN F : i # Len(F) => G[i] = F[i]
    /\ G[Len(F)].lines = Append(F[Len(F)].lines, line)

\* Added() changes the last file only.
LEMMA AddedFacts ==
    ASSUME NEW F \in Seq(FileRec), F # <<>>, NEW line \in Line
    PROVE  AddedWell(F, line, Added(F, line))
<1>. DEFINE G == Added(F, line)
            n == Len(F)
            f == [F[n] EXCEPT !.lines = Append(@, line)]
<1>. SUFFICES AddedWell(F, line, G)
  OBVIOUS
<1>1. n \in DOMAIN F /\ F[n] \in FileRec /\ F[n].lines \in Seq(Line) /\ DOMAIN F = 1..n
  <2>1. n \in DOMAIN F /\ F[n] \in FileRec /\ DOMAIN F = 1..n
    OBVIOUS
  <2>. QED  BY <2>1, DiskParts
<1>2. f \in FileRec /\ f.name = F[n].name /\ f.lines = Append(F[n].lines, line)
  <2>1. Append(F[n].lines, line) \in Seq(Line)
    BY <1>1
  <2>. QED  BY <1>1, <2>1 DEF FileRec
<1>3. G = [F EXCEPT ![n] = f]
  BY DEF Added
<1>. HIDE DEF f, G
<1>. QED  BY <1>1, <1>2, <1>3 DEF AddedWell

\* Lines in G are those of F and the new one.
LEMMA AddedLines ==
    ASSUME NEW F \in Seq(FileRec), NEW line \in Line, NEW G, AddedWell(F, line, G)
    PROVE  /\ \A i \in DOMAIN F : \A a \in DOMAIN F[i].lines :
                  a \in DOMAIN G[i].lines /\ G[i].lines[a] = F[i].lines[a]
           /\ \E a \in DOMAIN G[Len(F)].lines : G[Len(F)].lines[a] = line
           /\ \A i \in DOMAIN F : \A a \in DOMAIN G[i].lines :
                  \/ a \in DOMAIN F[i].lines /\ G[i].lines[a] = F[i].lines[a]
                  \/ /\ G[i].lines[a] = line /\ i = Len(F)
                     /\ \A b \in DOMAIN F[i].lines : b < a
<1>. DEFINE n == Len(F)
            ls == F[n].lines
            m == G[n].lines
<1>1. /\ n \in DOMAIN F /\ n \in Nat /\ DOMAIN F = 1..n /\ m = Append(ls, line)
      /\ \A i \in DOMAIN F : i # n => G[i] = F[i]
  BY DiskParts DEF AddedWell
<1>2. ls \in Seq(Line)
  BY <1>1, DiskParts
<1>. HIDE DEF n, ls, m
<1>3. /\ Len(ls) \in Nat /\ DOMAIN ls = 1..Len(ls) /\ DOMAIN m = 1..(Len(ls) + 1)
      /\ m[Len(ls) + 1] = line /\ \A a \in DOMAIN ls : m[a] = ls[a]
  BY <1>1, <1>2
<1>4. /\ \A a \in DOMAIN ls : a \in DOMAIN m /\ m[a] = ls[a]
      /\ Len(ls) + 1 \in DOMAIN m
      /\ \A a \in DOMAIN m : \/ a \in DOMAIN ls /\ m[a] = ls[a]
                             \/ m[a] = line /\ \A b \in DOMAIN ls : b < a
  <2>1. \A a \in DOMAIN m : a \in DOMAIN ls \/ a = Len(ls) + 1
    BY <1>3
  <2>2. \A b \in DOMAIN ls : b < Len(ls) + 1
    BY <1>3
  <2>. QED  BY <1>3, <2>1, <2>2
<1>5. ASSUME NEW i \in DOMAIN F
      PROVE  /\ \A a \in DOMAIN F[i].lines :
                    a \in DOMAIN G[i].lines /\ G[i].lines[a] = F[i].lines[a]
             /\ \A a \in DOMAIN G[i].lines :
                    \/ a \in DOMAIN F[i].lines /\ G[i].lines[a] = F[i].lines[a]
                    \/ /\ G[i].lines[a] = line /\ i = n
                       /\ \A b \in DOMAIN F[i].lines : b < a
  <2>1. CASE i = n
    <3>1. F[i].lines = ls /\ G[i].lines = m
      BY <2>1 DEF ls, m, n
    <3>. QED  BY <1>4, <2>1, <3>1
  <2>2. CASE i # n
    BY <1>1, <2>2
  <2>. QED  BY <2>1, <2>2
<1>. QED  BY <1>3, <1>4, <1>5 DEF n, m

\* A line more, with the next number.
LEMMA AddedContents ==
    ASSUME NEW F \in Seq(FileRec), F # <<>>, NEW line \in Line, NEW n \in Nat, NEW missing,
           Contents(F, n, missing), line.no = n + 1, line.len < SIZE, missing \subseteq 1..n
    PROVE  Contents(Added(F, line), n + 1, missing)
<1>. DEFINE G == Added(F, line)
<1>1. AddedWell(F, line, G)
  BY AddedFacts
<1>. HIDE DEF G
<1>2. DOMAIN G = DOMAIN F /\ Len(F) \in DOMAIN F /\ DOMAIN F = 1..Len(F) /\ Len(F) \in Nat
  BY <1>1, DiskParts DEF AddedWell
<1>3. /\ \A i \in DOMAIN F : \A a \in DOMAIN F[i].lines :
             a \in DOMAIN G[i].lines /\ G[i].lines[a] = F[i].lines[a]
      /\ \E a \in DOMAIN G[Len(F)].lines : G[Len(F)].lines[a] = line
      /\ \A i \in DOMAIN F : \A a \in DOMAIN G[i].lines :
             \/ a \in DOMAIN F[i].lines /\ G[i].lines[a] = F[i].lines[a]
             \/ /\ G[i].lines[a] = line /\ i = Len(F)
                /\ \A b \in DOMAIN F[i].lines : b < a
  BY <1>1, AddedLines
<1>4. NumbersInOrder(F) /\ Complete(F, n, missing) /\ LinesFit(F)
  BY DEF Contents
<1>5. \A i \in DOMAIN F : \A a \in DOMAIN F[i].lines : F[i].lines[a].no \in 1..n
  BY <1>4 DEF Complete
<1>6. NumbersInOrder(G)
  <2>. SUFFICES ASSUME NEW i \in DOMAIN F, NEW j \in DOMAIN F,
                       NEW a \in DOMAIN G[i].lines, NEW b \in DOMAIN G[j].lines,
                       i < j \/ (i = j /\ a < b)
                PROVE  G[i].lines[a].no < G[j].lines[b].no
    BY <1>2 DEF NumbersInOrder
  <2>0. /\ DOMAIN G[i].lines = 1..Len(G[i].lines) /\ DOMAIN G[j].lines = 1..Len(G[j].lines)
        /\ Len(G[i].lines) \in Nat /\ Len(G[j].lines) \in Nat
    BY <1>1, <1>2, DiskParts DEF AddedWell
  <2>1. CASE a \in DOMAIN F[i].lines /\ b \in DOMAIN F[j].lines
    <3>1. a \in Nat /\ b \in Nat
      BY <2>0
    <3>2. F[i].lines[a].no < F[j].lines[b].no
      BY <1>4, <2>1 DEF NumbersInOrder
    <3>3. G[i].lines[a] = F[i].lines[a] /\ G[j].lines[b] = F[j].lines[b]
      BY <1>3, <2>1
    <3>. QED  BY <3>2, <3>3
  <2>2. CASE a \in DOMAIN F[i].lines /\ b \notin DOMAIN F[j].lines
    <3>1. G[i].lines[a].no \in 1..n
      BY <1>3, <1>5, <2>2
    <3>2. G[j].lines[b].no = n + 1
      BY <1>3, <2>2
    <3>. QED  BY <3>1, <3>2
  <2>3. CASE a \notin DOMAIN F[i].lines
    <3>1. i = Len(F) /\ \A c \in DOMAIN F[i].lines : c < a
      BY <1>3, <2>3
    <3>2. i = j /\ a < b
      BY <1>2, <3>1
    <3>3. b \notin DOMAIN F[i].lines
      BY <2>0, <3>1, <3>2
    <3>4. \A c \in DOMAIN G[i].lines : c \notin DOMAIN F[i].lines => c = Len(F[i].lines) + 1
      <4>1. G[i].lines = Append(F[i].lines, line)
        BY <1>1, <3>1 DEF AddedWell
      <4>2. F[i].lines \in Seq(Line)
        BY DiskParts
      <4>. QED  BY <4>1, <4>2
    <3>5. a = b
      BY <2>3, <3>2, <3>3, <3>4
    <3>. QED  BY <2>0, <3>2, <3>5
  <2>. QED  BY <2>1, <2>2, <2>3
<1>7. Complete(G, n + 1, missing)
  <2>1. ASSUME NEW m \in (1..(n + 1)) \ missing PROVE Holds(G, m)
    <3>1. CASE m = n + 1
      <4>1. PICK a \in DOMAIN G[Len(F)].lines : G[Len(F)].lines[a] = line
        BY <1>3
      <4>. QED  BY <1>2, <3>1, <4>1 DEF Holds
    <3>2. CASE m # n + 1
      <4>1. m \in (1..n) \ missing
        BY <3>2
      <4>2. PICK i \in DOMAIN F : \E a \in DOMAIN F[i].lines : F[i].lines[a].no = m
        BY <1>4, <4>1 DEF Complete, Holds
      <4>3. PICK a \in DOMAIN F[i].lines : F[i].lines[a].no = m
        BY <4>2
      <4>4. a \in DOMAIN G[i].lines /\ G[i].lines[a].no = m
        BY <1>3, <4>3
      <4>. QED  BY <1>2, <4>4 DEF Holds
    <3>. QED  BY <3>1, <3>2
  <2>2. ASSUME NEW i \in DOMAIN F, NEW a \in DOMAIN G[i].lines
        PROVE  G[i].lines[a].no \in (1..(n + 1)) \ missing
    <3>1. CASE a \in DOMAIN F[i].lines
      <4>1. F[i].lines[a].no \in (1..n) \ missing /\ G[i].lines[a] = F[i].lines[a]
        BY <1>3, <1>4, <3>1 DEF Complete
      <4>. QED  BY <4>1
    <3>2. CASE a \notin DOMAIN F[i].lines
      <4>1. G[i].lines[a].no = n + 1
        BY <1>3, <3>2
      <4>. QED  BY <4>1
    <3>. QED  BY <3>1, <3>2
  <2>. QED  BY <1>2, <2>1, <2>2 DEF Complete
<1>8. LinesFit(G)
  <2>1. ASSUME NEW i \in DOMAIN F, NEW a \in DOMAIN G[i].lines
        PROVE  G[i].lines[a].len < SIZE
    <3>1. CASE a \in DOMAIN F[i].lines
      BY <1>3, <1>4, <3>1 DEF LinesFit
    <3>2. CASE a \notin DOMAIN F[i].lines
      BY <1>3, <3>2
    <3>. QED  BY <3>1, <3>2
  <2>. QED  BY <1>2, <2>1 DEF LinesFit
<1>. QED  BY <1>6, <1>7, <1>8 DEF Contents, G

\* A line that no file gets.
LEMMA LostContents ==
    ASSUME NEW F, NEW n \in Nat, NEW missing, Contents(F, n, missing), missing \subseteq 1..n
    PROVE  Contents(F, n + 1, missing \cup {n + 1})
<1>1. (1..(n + 1)) \ (missing \cup {n + 1}) = (1..n) \ missing
  OBVIOUS
<1>. QED  BY <1>1 DEF Contents, Complete

\* An empty file more.
LEMMA NewContents ==
    ASSUME NEW F \in Seq(FileRec), NEW n, NEW missing, Contents(F, n, missing)
    PROVE  Contents(Append(F, NewFile), n, missing)
<1>. DEFINE G == Append(F, NewFile)
            k == Len(F)
<1>1. /\ k \in Nat /\ DOMAIN F = 1..k /\ DOMAIN G = 1..(k + 1) /\ G[k + 1] = NewFile
      /\ \A i \in DOMAIN F : i \in DOMAIN G /\ G[i] = F[i]
  OBVIOUS
<1>2. NewFile.lines = <<>> /\ DOMAIN <<>> = {}
  BY DEF NewFile
<1>. HIDE DEF G, k
<1>3. \A i \in DOMAIN G : \A a \in DOMAIN G[i].lines : i \in DOMAIN F /\ a \in DOMAIN F[i].lines
  BY <1>1, <1>2
<1>4. NumbersInOrder(G)
  BY <1>1, <1>3 DEF Contents, NumbersInOrder
<1>5. Complete(G, n, missing)
  <2>1. \A m : Holds(F, m) => Holds(G, m)
    BY <1>1 DEF Holds
  <2>. QED  BY <1>1, <1>3, <2>1 DEF Contents, Complete
<1>6. LinesFit(G)
  BY <1>1, <1>3 DEF Contents, LinesFit
<1>. QED  BY <1>4, <1>5, <1>6 DEF Contents, G

-----------------------------------------------------------------------------
(* Size and period of the files.                                            *)

\* g is f with a line of now.
LineMore(f, g, line) ==
    /\ f \in FileRec /\ g \in FileRec /\ g.name = f.name
    /\ line \in Line /\ line.at = now /\ g.lines = Append(f.lines, line)

\* The lines before are what they were.
LEMMA LinesBefore ==
    ASSUME NEW f, NEW g, NEW line, LineMore(f, g, line)
    PROVE  /\ f.lines \in Seq(Line) /\ Len(f.lines) \in Nat /\ DOMAIN f.lines = 1..Len(f.lines)
           /\ g.lines \in Seq(Line) /\ Len(g.lines) = Len(f.lines) + 1
           /\ DOMAIN g.lines = 1..(Len(f.lines) + 1)
           /\ g.lines[Len(f.lines) + 1] = line
           /\ \A i \in DOMAIN f.lines : (InPeriod(g, i) <=> InPeriod(f, i))
           /\ \A i \in DOMAIN f.lines : (OfSize(g, i) <=> OfSize(f, i))
<1>. DEFINE ls == f.lines
            ms == g.lines
            n == Len(ls)
<1>1. ls \in Seq(Line) /\ line \in Line /\ ms = Append(ls, line) /\ g.name = f.name
  BY DEF LineMore, FileRec
<1>2. /\ n \in Nat /\ DOMAIN ls = 1..n /\ ms \in Seq(Line) /\ Len(ms) = n + 1
      /\ DOMAIN ms = 1..(n + 1) /\ ms[n + 1] = line /\ \A i \in DOMAIN ls : ms[i] = ls[i]
  BY <1>1
<1>3. \A i \in DOMAIN ls : SubSeq(ms, 1, i) = SubSeq(ls, 1, i)
  <2>. SUFFICES ASSUME NEW i \in DOMAIN ls PROVE SubSeq(ms, 1, i) = SubSeq(ls, 1, i)
    OBVIOUS
  <2>1. ms = ls \o <<line>>
    BY <1>1, AppendIsConcat
  <2>2. 1 \in 1..Len(ls) /\ i \in 1..Len(ls) /\ <<line>> \in Seq(Line)
    BY <1>1, <1>2
  <2>. HIDE DEF ls, ms
  <2>. QED  BY <1>1, <2>1, <2>2, SubSeqOfConcat1
<1>4. \A i \in DOMAIN ls : (InPeriod(g, i) <=> InPeriod(f, i)) /\ (OfSize(g, i) <=> OfSize(f, i))
  <2>. HIDE DEF n
  <2>. QED  BY <1>1, <1>2, <1>3 DEF InPeriod, OfSize
<1>. QED  BY <1>1, <1>2, <1>4

\* A line more in a file that is looked at in time.
LEMMA MoreInTime ==
    ASSUME NEW f, NEW g, NEW line, LineMore(f, g, line), NEW l, l.count_ \in Nat,
           l.count_ < checkEveryN_, InTime(f), StillInTime(l, f)
    PROVE  InTime(g)
<1>. DEFINE n == Len(f.lines)
            c == l.count_
            N == checkEveryN_
<1>0. c \in Nat /\ N \in Nat /\ c < N
  BY FileAssumption
<1>1. /\ n \in Nat /\ DOMAIN f.lines = 1..n /\ Len(g.lines) = n + 1
      /\ DOMAIN g.lines = 1..(n + 1)
      /\ \A i \in DOMAIN f.lines : (InPeriod(g, i) <=> InPeriod(f, i))
      /\ \A i \in DOMAIN f.lines : (OfSize(g, i) <=> OfSize(f, i))
  BY LinesBefore
<1>2. /\ \A i \in DOMAIN f.lines :
             i + N \in DOMAIN f.lines => \E k \in i..(i + N) : InPeriod(f, k)
      /\ \A i \in DOMAIN f.lines : OfSize(f, i)
      /\ n > c => \E k \in (n - c)..n : InPeriod(f, k)
  BY DEF InTime, StillInTime
<1>. HIDE DEF n, c, N
<1>. SUFFICES ASSUME NEW i \in DOMAIN g.lines
              PROVE  /\ i + N \in DOMAIN g.lines => \E k \in i..(i + N) : InPeriod(g, k)
                     /\ i < Len(g.lines) => OfSize(g, i)
  BY DEF InTime, N
<1>3. i < Len(g.lines) => OfSize(g, i)
  BY <1>1, <1>2
<1>4. ASSUME i + N \in DOMAIN g.lines PROVE \E k \in i..(i + N) : InPeriod(g, k)
  <2>1. CASE i + N \in 1..n
    <3>1. i \in 1..n
      BY <1>0, <1>1, <2>1
    <3>2. PICK k \in i..(i + N) : InPeriod(f, k)
      BY <1>1, <1>2, <2>1, <3>1
    <3>3. k \in 1..n
      BY <1>0, <1>1, <2>1, <3>1, <3>2
    <3>. QED  BY <1>1, <3>2, <3>3
  <2>2. CASE i + N \notin 1..n
    <3>1. i + N = n + 1 /\ i \in Nat /\ i >= 1
      BY <1>0, <1>1, <1>4, <2>2
    <3>2. n > c
      BY <1>0, <1>1, <3>1
    <3>3. PICK k \in (n - c)..n : InPeriod(f, k)
      BY <1>2, <3>2
    <3>4. k \in 1..n /\ k \in i..(i + N)
      BY <1>0, <1>1, <3>1, <3>2, <3>3
    <3>. QED  BY <1>1, <3>3, <3>4
  <2>. QED  BY <2>1, <2>2
<1>. QED  BY <1>3, <1>4

\* m has counted the line, or looked at the time.
Looked(l, m, f, line) ==
    /\ l.count_ \in Nat /\ m.count_ \in Nat
    /\ m.writen_bytes_ = l.writen_bytes_ + line.len
    /\ m.count_ = l.count_ + 1 \/ Period(now) <= Period(f.name)
    /\ now > f.name => m.writen_bytes_ <= rollSize_

\* A file that stays open after a line is still in time.
LEMMA StillMoreInTime ==
    ASSUME NEW f, NEW g, NEW line, LineMore(f, g, line), NEW l, NEW m, Looked(l, m, f, line),
           StillInTime(l, f)
    PROVE  StillInTime(m, g)
<1>. DEFINE n == Len(f.lines)
            c == l.count_
            c2 == m.count_
<1>0. c \in Nat /\ c2 \in Nat
  BY DEF Looked
<1>1. /\ f.lines \in Seq(Line) /\ n \in Nat /\ DOMAIN f.lines = 1..n /\ Len(g.lines) = n + 1
      /\ g.lines \in Seq(Line) /\ g.lines[n + 1] = line
      /\ DOMAIN g.lines = 1..(n + 1)
      /\ \A i \in DOMAIN f.lines : (InPeriod(g, i) <=> InPeriod(f, i))
      /\ \A i \in DOMAIN f.lines : (OfSize(g, i) <=> OfSize(f, i))
  BY LinesBefore
<1>2. /\ \A i \in DOMAIN f.lines : OfSize(f, i)
      /\ n > c => \E k \in (n - c)..n : InPeriod(f, k)
      /\ l.writen_bytes_ = Bytes(f.lines)
  BY DEF StillInTime
<1>3. g.lines = Append(f.lines, line) /\ line \in Line /\ line.at = now /\ g.name = f.name
  BY DEF LineMore
<1>4. m.writen_bytes_ = Bytes(g.lines)
  BY <1>1, <1>2, <1>3, BytesAppend DEF Looked
<1>5. OfSize(g, n + 1)
  <2>1. SubSeq(g.lines, 1, n + 1) = g.lines
    BY <1>1, SubSeqFull
  <2>. QED  BY <1>1, <1>3, <1>4, <2>1 DEF OfSize, Looked
<1>6. \A i \in DOMAIN g.lines : OfSize(g, i)
  <2>1. \A i \in DOMAIN g.lines : i \in DOMAIN f.lines \/ i = n + 1
    BY <1>1
  <2>. QED  BY <1>1, <1>2, <1>5, <2>1
<1>7. n + 1 > c2 => \E k \in ((n + 1) - c2)..(n + 1) : InPeriod(g, k)
  <2>. SUFFICES ASSUME n + 1 > c2 PROVE \E k \in ((n + 1) - c2)..(n + 1) : InPeriod(g, k)
    OBVIOUS
  <2>1. CASE Period(now) <= Period(f.name)
    <3>1. InPeriod(g, n + 1)
      BY <1>1, <1>3, <2>1 DEF InPeriod
    <3>2. n + 1 \in ((n + 1) - c2)..(n + 1)
      BY <1>0, <1>1
    <3>. QED  BY <3>1, <3>2
  <2>2. CASE c2 = c + 1
    <3>. HIDE DEF n, c, c2
    <3>1. n > c
      BY <1>0, <1>1, <2>2
    <3>2. PICK k \in (n - c)..n : InPeriod(f, k)
      BY <1>2, <3>1
    <3>3. k \in 1..n /\ k \in ((n + 1) - c2)..(n + 1)
      BY <1>0, <1>1, <2>2, <3>1, <3>2
    <3>. QED  BY <1>1, <3>2, <3>3
  <2>. QED  BY <2>1, <2>2 DEF Looked
<1>. QED  BY <1>1, <1>4, <1>6, <1>7 DEF StillInTime

\* Of all files.
LEMMA AddedInTime ==
    ASSUME NEW l, NEW F \in Seq(FileRec), F # <<>>, NEW line \in Line, line.at = now,
           l.opened, l.count_ \in Nat, l.count_ < checkEveryN_, AllInTime(l, F)
    PROVE  /\ \A i \in DOMAIN Added(F, line) : InTime(Added(F, line)[i])
           /\ \A m : Looked(l, m, F[Len(F)], line) =>
                         StillInTime(m, Added(F, line)[Len(Added(F, line))])
<1>. DEFINE G == Added(F, line)
            n == Len(F)
<1>1. AddedWell(F, line, G)
  BY AddedFacts
<1>. HIDE DEF G
<1>2. /\ n \in DOMAIN F /\ DOMAIN G = DOMAIN F /\ Len(G) = n
      /\ F[n] \in FileRec /\ G[n] \in FileRec
      /\ \A i \in DOMAIN F : i # n => G[i] = F[i]
  BY <1>1 DEF AddedWell
<1>3. LineMore(F[n], G[n], line)
  BY <1>1, <1>2 DEF LineMore, AddedWell
<1>4. StillInTime(l, F[n]) /\ \A i \in DOMAIN F : InTime(F[i])
  BY DEF AllInTime
<1>. HIDE DEF n
<1>5. InTime(G[n])
  BY <1>2, <1>3, <1>4, MoreInTime
<1>6. \A i \in DOMAIN G : InTime(G[i])
  BY <1>2, <1>4, <1>5
<1>7. \A m : Looked(l, m, F[n], line) => StillInTime(m, G[n])
  BY <1>3, <1>4, StillMoreInTime
<1>. QED  BY <1>2, <1>6, <1>7 DEF G, n

\* Of an empty one.
LEMMA NewInTime ==
    ASSUME NEW F \in Seq(FileRec), \A i \in DOMAIN F : InTime(F[i]), NEW m,
           m.writen_bytes_ = 0, m.count_ \in Nat
    PROVE  AllInTime(m, Append(F, NewFile))
<1>. DEFINE G == Append(F, NewFile)
            n == Len(F)
<1>1. /\ n \in Nat /\ DOMAIN F = 1..n /\ DOMAIN G = 1..(n + 1) /\ G[n + 1] = NewFile
      /\ Len(G) = n + 1 /\ \A i \in DOMAIN F : i \in DOMAIN G /\ G[i] = F[i]
  OBVIOUS
<1>2. NewFile.lines = <<>> /\ DOMAIN <<>> = {} /\ Len(<<>>) = 0 /\ <<>> \in Seq(Line)
  BY DEF NewFile
<1>3. InTime(NewFile)
  BY <1>2 DEF InTime
<1>4. StillInTime(m, NewFile)
  <2>1. Bytes(NewFile.lines) = 0
    BY <1>2, BytesNat
  <2>2. ~(Len(NewFile.lines) > m.count_)
    BY <1>2
  <2>. QED  BY <1>2, <2>1, <2>2 DEF StillInTime
<1>. HIDE DEF G, n
<1>5. \A i \in DOMAIN G : i \in DOMAIN F \/ i = n + 1
  BY <1>1
<1>. QED  BY <1>1, <1>3, <1>4, <1>5 DEF AllInTime, G

-----------------------------------------------------------------------------
(* LogFile and disk, step by step.                                          *)

\* The last file is there when it is open.
LEMMA OpenedFile ==
    ASSUME NEW l, NEW d, Well(l, d)
    PROVE  /\ l \in LogRec /\ l.opened \in BOOLEAN /\ l.count_ \in Nat /\ l.count_ < checkEveryN_
           /\ KeptFiles(l, d) \in Seq(FileRec)
           /\ l.opened => /\ KeptFiles(l, d) # <<>>
                          /\ KeptFiles(l, d)[Len(KeptFiles(l, d))].name = l.name
<1>. DEFINE k == KeptFiles(l, d)
<1>1. /\ l \in LogRec /\ l.opened \in BOOLEAN /\ l.count_ \in Nat /\ l.count_ < checkEveryN_
      /\ d \in Seq(FileRec)
  BY LogParts DEF Well
<1>2. KeptWell(l, d, k)
  BY KeptFilesFacts
<1>. HIDE DEF k
<1>3. k \in Seq(FileRec) /\ Len(k) = Len(d)
  BY <1>2 DEF KeptWell
<1>4. ASSUME l.opened PROVE k # <<>> /\ k[Len(k)].name = l.name
  <2>1. Len(d) \in DOMAIN d /\ DOMAIN k = DOMAIN d /\ k[Len(d)].name = d[Len(d)].name
    BY <1>2, <1>4 DEF KeptWell
  <2>2. d[Len(d)].name = l.name
    BY <1>4 DEF Well
  <2>. QED  BY <1>3, <2>1, <2>2
<1>. QED  BY <1>1, <1>3, <1>4 DEF k

\* The line is where it belongs after append_unlocked(), and nothing else has changed.
LEMMA AppendFilesWell ==
    ASSUME NEW l, NEW d, NEW n \in Nat, NEW missing, FilesWell(l, d, n, missing),
           NEW line \in Line, line.no = n + 1, line.at = now, line.len < SIZE,
           NEW opened \in BOOLEAN, now \in 0..MaxTime,
           NEW s, s = append_unlocked(St(l, d), line, opened)
    PROVE  /\ FilesWell(s.log, s.disk, n + 1, IF l.opened THEN missing ELSE missing \cup {n + 1})
           /\ Grows(d, s.disk)
<1>. DEFINE F == KeptFiles(l, d)
            G == AddedTo(l, F, line)
            gone == IF l.opened THEN missing ELSE missing \cup {n + 1}
            m == s.log
            e == s.disk
<1>1. /\ Well(l, d) /\ missing \subseteq 1..n /\ Contents(F, n, missing) /\ AllInTime(l, F)
  BY DEF FilesWell
<1>2. /\ l \in LogRec /\ l.opened \in BOOLEAN /\ l.count_ \in Nat /\ l.count_ < checkEveryN_
      /\ F \in Seq(FileRec)
      /\ l.opened => F # <<>> /\ F[Len(F)].name = l.name
  BY <1>1, OpenedFile
<1>3. /\ Well(m, e) /\ Grows(d, e)
      /\ Stays(l, d, line, m, e) \/ Rolls(l, d, line, opened, m, e)
  BY <1>1, AppendKeeps DEF AppendWell
<1>. HIDE DEF F, m, e
<1>4. G \in Seq(FileRec) /\ Contents(G, n + 1, gone) /\ \A i \in DOMAIN G : InTime(G[i])
  <2>1. CASE l.opened
    <3>1. G = Added(F, line) /\ gone = missing
      BY <2>1 DEF AddedTo
    <3>2. Added(F, line) \in Seq(FileRec)
      BY <1>2, <2>1, AddedFacts DEF AddedWell
    <3>3. Contents(Added(F, line), n + 1, missing)
      BY <1>1, <1>2, <2>1, AddedContents
    <3>4. \A i \in DOMAIN Added(F, line) : InTime(Added(F, line)[i])
      BY <1>1, <1>2, <2>1, AddedInTime
    <3>. QED  BY <3>1, <3>2, <3>3, <3>4
  <2>2. CASE ~l.opened
    <3>1. G = F /\ gone = missing \cup {n + 1}
      BY <2>2 DEF AddedTo
    <3>2. Contents(F, n + 1, missing \cup {n + 1})
      BY <1>1, LostContents
    <3>. QED  BY <1>1, <1>2, <3>1, <3>2 DEF AllInTime
  <2>. QED  BY <1>2, <2>1, <2>2
<1>5. gone \subseteq 1..(n + 1)
  BY <1>1
<1>. HIDE DEF gone, G
<1>6. m.count_ \in Nat
  BY <1>3, LogParts DEF Well
<1>7. CASE Stays(l, d, line, m, e)
  <2>1. KeptFiles(m, e) = G /\ m.opened = l.opened /\ m.name = l.name
    BY <1>7 DEF Stays, G, F
  <2>2. ASSUME m.opened PROVE StillInTime(m, G[Len(G)])
    <3>1. l.opened /\ G = Added(F, line)
      BY <2>1, <2>2 DEF G, AddedTo
    <3>2. Looked(l, m, F[Len(F)], line)
      BY <1>2, <1>6, <1>7, <3>1 DEF Stays, Looked
    <3>. QED  BY <1>1, <1>2, <3>1, <3>2, AddedInTime
  <2>3. AllInTime(m, G)
    BY <1>4, <2>2 DEF AllInTime
  <2>4. FilesWell(m, e, n + 1, gone)
    BY <1>3, <1>4, <1>5, <2>1, <2>3 DEF FilesWell
  <2>. QED  BY <1>3, <2>4 DEF m, e, gone
<1>8. CASE Rolls(l, d, line, opened, m, e)
  <2>1. /\ KeptFiles(m, e) = IF opened THEN Append(G, NewFile) ELSE G
        /\ m.opened = opened /\ m.writen_bytes_ = 0
    BY <1>8 DEF Rolls, G, F
  <2>2. Contents(KeptFiles(m, e), n + 1, gone) /\ AllInTime(m, KeptFiles(m, e))
    <3>1. CASE opened
      BY <1>4, <1>6, <2>1, <3>1, NewContents, NewInTime
    <3>2. CASE ~opened
      BY <1>4, <2>1, <3>2 DEF AllInTime
    <3>. QED  BY <3>1, <3>2
  <2>3. FilesWell(m, e, n + 1, gone)
    BY <1>3, <1>5, <2>2 DEF FilesWell
  <2>. QED  BY <1>3, <2>3 DEF m, e, gone
<1>. QED  BY <1>3, <1>7, <1>8

\* Flushing puts every line on the disk.
LEMMA FlushFilesWell ==
    ASSUME NEW l, NEW d, NEW n, NEW missing, FilesWell(l, d, n, missing)
    PROVE  /\ FilesWell(Flushed(l), Written(d, l), n, missing)
           /\ Grows(d, Written(d, l)) /\ Saved(Written(d, l), n, missing)
<1>. DEFINE k == KeptFiles(l, d)
            m == Flushed(l)
<1>1. Well(l, d) /\ missing \subseteq 1..n /\ Contents(k, n, missing) /\ AllInTime(l, k)
  BY DEF FilesWell
<1>2. Written(d, l) = k /\ Grows(d, k)
  BY <1>1, WrittenIsKept, KeptGrows
<1>3. l \in LogRec /\ l.count_ < checkEveryN_
  BY <1>1 DEF Well
<1>4. /\ m \in LogRec /\ SameFile(l, m) /\ m.buffered = <<>> /\ m.count_ = l.count_
      /\ m.writen_bytes_ = l.writen_bytes_ /\ m.opened = l.opened
  <2>1. <<>> \in Seq(Line)
    OBVIOUS
  <2>. QED  BY <1>3, <2>1 DEF Flushed, LogRec, SameFile
<1>. HIDE DEF m
<1>5. Well(m, k) /\ KeptFiles(m, k) = k
  BY <1>1, <1>3, <1>4, FlushKeeps
<1>6. AllInTime(m, k)
  BY <1>1, <1>4 DEF AllInTime, StillInTime
<1>7. Saved(k, n, missing)
  BY <1>1 DEF Saved, Contents, Complete
<1>8. FilesWell(m, k, n, missing)
  BY <1>1, <1>5, <1>6 DEF FilesWell
<1>. QED  BY <1>2, <1>7, <1>8 DEF m

\* What is saved stays so.
LEMMA GrowsSaved ==
    ASSUME NEW d \in Seq(FileRec), NEW e \in Seq(FileRec), Grows(d, e),
           NEW n, NEW missing, NEW gone, missing \subseteq gone, Saved(d, n, missing)
    PROVE  Saved(e, n, gone)
<1>1. Len(d) \in Nat /\ Len(e) \in Nat /\ DOMAIN d = 1..Len(d) /\ DOMAIN e = 1..Len(e)
  OBVIOUS
<1>2. ASSUME NEW m, Holds(d, m) PROVE Holds(e, m)
  <2>1. PICK i \in DOMAIN d : \E a \in DOMAIN d[i].lines : d[i].lines[a].no = m
    BY <1>2 DEF Holds
  <2>2. PICK a \in DOMAIN d[i].lines : d[i].lines[a].no = m
    BY <2>1
  <2>3. i \in DOMAIN e
    BY <1>1 DEF Grows
  <2>4. Len(d[i].lines) <= Len(e[i].lines) /\ e[i].lines[a] = d[i].lines[a]
    BY <2>2 DEF Grows
  <2>5. /\ DOMAIN d[i].lines = 1..Len(d[i].lines) /\ DOMAIN e[i].lines = 1..Len(e[i].lines)
        /\ Len(d[i].lines) \in Nat /\ Len(e[i].lines) \in Nat
    BY <2>3, DiskParts
  <2>6. a \in DOMAIN e[i].lines
    BY <2>2, <2>4, <2>5
  <2>. QED  BY <2>2, <2>3, <2>4, <2>6 DEF Holds
<1>. QED  BY <1>2 DEF Saved

-----------------------------------------------------------------------------
(* The reader.                                                              *)

\* The numbers of lines.
LEMMA NumbersFacts ==
    ASSUME NEW ls \in Seq(Line)
    PROVE  /\ Numbers(ls) \in Seq(Nat) /\ Len(Numbers(ls)) = Len(ls)
           /\ DOMAIN Numbers(ls) = DOMAIN ls /\ \A i \in DOMAIN ls : Numbers(ls)[i] = ls[i].no
<1>1. Len(ls) \in Nat /\ DOMAIN ls = 1..Len(ls) /\ \A i \in 1..Len(ls) : ls[i] \in Line
  OBVIOUS
<1>2. \A i \in 1..Len(ls) : ls[i].no \in Nat
  BY <1>1, FileAssumption DEF Line
<1>3. Numbers(ls) = [i \in 1..Len(ls) |-> ls[i].no]
  BY <1>1 DEF Numbers
<1>. HIDE DEF Numbers
<1>. QED  BY <1>1, <1>2, <1>3

\* A part of lines.
LEMMA PartFacts ==
    ASSUME NEW ls \in Seq(Line), NEW a \in Nat, NEW n \in Nat, a + n <= Len(ls)
    PROVE  LET part == SubSeq(ls, a + 1, a + n)
           IN  /\ part \in Seq(Line) /\ Len(part) = n
               /\ \A i \in 1..n : part[i] = ls[a + i]
               /\ Numbers(part) \in Seq(Nat) /\ Len(Numbers(part)) = n
               /\ \A i \in 1..n : Numbers(part)[i] = ls[a + i].no
<1>. DEFINE p == a + 1
            q == a + n
            part == SubSeq(ls, p, q)
<1>1. /\ p \in Int /\ q \in Int /\ \A i \in p..q : ls[i] \in Line
      /\ (p <= q => (q - p) + 1 = n) /\ (~(p <= q) => n = 0) /\ (q - p) + 1 = n
      /\ \A i \in 1..n : (p + i) - 1 = a + i
  OBVIOUS
<1>. HIDE DEF p, q
<1>2. part \in Seq(Line) /\ Len(part) = n /\ \A i \in 1..n : part[i] = ls[a + i]
  BY <1>1, SubSeqProperties
<1>. HIDE DEF part
<1>3. DOMAIN part = 1..n
  BY <1>2
<1>. QED  BY <1>2, <1>3, NumbersFacts DEF part, p, q

\* The first lines.
LEMMA FirstFacts ==
    ASSUME NEW ls \in Seq(Line), NEW n \in Nat, n <= Len(ls)
    PROVE  LET part == SubSeq(ls, 1, n)
           IN  /\ part \in Seq(Line) /\ Numbers(part) \in Seq(Nat) /\ Len(Numbers(part)) = n
               /\ \A i \in 1..n : Numbers(part)[i] = ls[i].no
<1>1. 0 \in Nat /\ 0 + 1 = 1 /\ 0 + n = n /\ \A i \in 1..n : 0 + i = i
  OBVIOUS
<1>2. LET part == SubSeq(ls, 0 + 1, 0 + n)
      IN  /\ part \in Seq(Line) /\ Numbers(part) \in Seq(Nat) /\ Len(Numbers(part)) = n
          /\ \A i \in 1..n : Numbers(part)[i] = ls[0 + i].no
  BY <1>1, PartFacts
<1>. QED  BY <1>1, <1>2

\* A file that grows begins as it did.
LEMMA ReaderGrows ==
    ASSUME NEW r, NEW d \in Seq(FileRec), NEW e \in Seq(FileRec), Grows(d, e), ReaderInv(r, d)
    PROVE  ReaderInv(r, e)
<1>1. Len(d) \in Nat /\ Len(e) \in Nat /\ Len(d) <= Len(e)
  BY DEF Grows
<1>2. d # <<>> => e # <<>> /\ 1 \in DOMAIN d /\ 1 \in DOMAIN e
  BY <1>1
<1>3. ASSUME d # <<>>, r.offset \in 1..Len(d[1].lines),
             r.context = Numbers(SubSeq(d[1].lines, 1, r.offset))
      PROVE  /\ r.offset \in 1..Len(e[1].lines)
             /\ r.context = Numbers(SubSeq(e[1].lines, 1, r.offset))
  <2>. DEFINE ls == d[1].lines
              ms == e[1].lines
              n == r.offset
  <2>1. /\ ls \in Seq(Line) /\ ms \in Seq(Line) /\ Len(ls) \in Nat /\ Len(ms) \in Nat
        /\ DOMAIN ls = 1..Len(ls)
    BY <1>2, <1>3, DiskParts
  <2>2. Len(ls) <= Len(ms) /\ \A a \in DOMAIN ls : ms[a] = ls[a]
    BY <1>2, <1>3 DEF Grows
  <2>. HIDE DEF ls, ms, n
  <2>3. n \in 1..Len(ls) /\ n \in Nat /\ n <= Len(ls) /\ n <= Len(ms) /\ n \in 1..Len(ms)
    BY <1>3, <2>1, <2>2 DEF ls, n
  <2>. DEFINE p == Numbers(SubSeq(ls, 1, n))
              q == Numbers(SubSeq(ms, 1, n))
  <2>4. p \in Seq(Nat) /\ Len(p) = n /\ \A i \in 1..n : p[i] = ls[i].no
    BY <2>1, <2>3, FirstFacts
  <2>5. q \in Seq(Nat) /\ Len(q) = n /\ \A i \in 1..n : q[i] = ms[i].no
    BY <2>1, <2>3, FirstFacts
  <2>6. \A i \in 1..n : ls[i] = ms[i]
    BY <2>1, <2>2, <2>3
  <2>. HIDE DEF p, q
  <2>7. p = q
    <3>1. \A i \in 1..n : p[i] = q[i]
      BY <2>4, <2>5, <2>6
    <3>. QED  BY <2>4, <2>5, <3>1, SeqEqual
  <2>. QED  BY <1>3, <2>3, <2>7 DEF p, q, ls, ms, n
<1>. QED  BY <1>2, <1>3 DEF ReaderInv, ReadSoFar

\* The fields of the reader.
LEMMA ReaderParts ==
    ASSUME NEW r, ReaderType(r)
    PROVE  /\ r.context \in Seq(Nat) /\ r.offset \in Nat /\ Len(r.context) \in Nat
           /\ Len(r.context) <= ReadSize /\ ReadSize \in Nat
<1>1. r.context \in Seq(Nat) /\ r.offset \in Nat /\ Len(r.context) <= ReadSize
  BY DEF ReaderType
<1>2. \A c \in Seq(Nat) : Len(c) \in Nat
  OBVIOUS
<1>. QED  BY <1>1, <1>2, FileAssumption

\* n lines more are read.
ReadMore(r, ls, n) ==
    [r EXCEPT !.context = @ \o Numbers(SubSeq(ls, r.offset + 1, r.offset + n)), !.offset = @ + n]

\* Reading on gives what the file holds next.
LEMMA ReadMoreInv ==
    ASSUME NEW r, NEW d \in Seq(FileRec), ReaderInv(r, d), d # <<>>,
           NEW n \in 1..(ReadSize - Len(r.context)), r.offset + n <= Len(d[1].lines)
    PROVE  ReaderInv(ReadMore(r, d[1].lines, n), d)
<1>. DEFINE ls == d[1].lines
            o == r.offset
            more == Numbers(SubSeq(ls, o + 1, o + n))
            c == r.context \o more
            r2 == ReadMore(r, ls, n)
<1>1. ls \in Seq(Line) /\ Len(ls) \in Nat
  <2>1. 1 \in DOMAIN d
    OBVIOUS
  <2>. QED  BY <2>1, DiskParts
<1>2. /\ ReaderType(r) /\ r.context \in Seq(Nat) /\ o \in Nat /\ Len(r.context) \in Nat
      /\ Len(r.context) <= ReadSize /\ ReadSize \in Nat
  BY ReaderParts DEF ReaderInv
<1>3. n \in Nat /\ n >= 1 /\ Len(r.context) + n <= ReadSize /\ o + n <= Len(ls)
  BY <1>2
<1>4. more \in Seq(Nat) /\ Len(more) = n /\ \A i \in 1..n : more[i] = ls[o + i].no
  <2>. HIDE DEF ls, o
  <2>. QED  BY <1>1, <1>2, <1>3, PartFacts
<1>. HIDE DEF more
<1>5. /\ c \in Seq(Nat) /\ Len(c) = Len(r.context) + n
      /\ \A i \in 1..(Len(r.context) + n) :
             c[i] = IF i <= Len(r.context) THEN r.context[i] ELSE more[i - Len(r.context)]
  <2>. DEFINE k == r.context
  <2>1. k \in Seq(Nat) /\ more \in Seq(Nat) /\ Len(more) = n
    BY <1>2, <1>4
  <2>. HIDE DEF k
  <2>2. /\ k \o more \in Seq(Nat) /\ Len(k \o more) = Len(k) + Len(more)
        /\ \A i \in 1..(Len(k) + Len(more)) :
               (k \o more)[i] = IF i <= Len(k) THEN k[i] ELSE more[i - Len(k)]
    BY <2>1, ConcatProperties
  <2>. QED  BY <2>1, <2>2 DEF k
<1>. HIDE DEF c
<1>6. r2 = [r EXCEPT !.context = c, !.offset = o + n]
  BY DEF ReadMore, c, more
<1>7. /\ ReaderType(r2) /\ r2.context = c /\ r2.offset = o + n
      /\ r2.method = r.method /\ r2.faulty = r.faulty
  <2>1. c \in Seq(Nat) /\ o + n \in Nat /\ Len(c) <= ReadSize
    BY <1>2, <1>3, <1>5
  <2>. HIDE DEF o, r2
  <2>. QED  BY <1>2, <1>6, <2>1 DEF ReaderType
<1>. HIDE DEF r2, o
<1>8. ReadSoFar(r2, d)
  <2>1. CASE r.method = "readToByte" /\ r.faulty
    BY <1>7, <2>1 DEF ReadSoFar
  <2>2. CASE ~(r.method = "readToByte" /\ r.faulty)
    <3>1. Len(r.context) = o /\ \A i \in 1..o : r.context[i] = ls[i].no
      <4>1. CASE r.context = <<>> /\ o = 0
        BY <4>1
      <4>2. CASE o \in 1..Len(ls) /\ r.context = Numbers(SubSeq(ls, 1, o))
        <5>. HIDE DEF ls
        <5>1. o \in Nat /\ o <= Len(ls)
          BY <1>1, <4>2
        <5>2. /\ Len(Numbers(SubSeq(ls, 1, o))) = o
              /\ \A i \in 1..o : Numbers(SubSeq(ls, 1, o))[i] = ls[i].no
          BY <1>1, <5>1, FirstFacts
        <5>. QED  BY <4>2, <5>2
      <4>. QED  BY <2>2, <4>1, <4>2 DEF ReaderInv, ReadSoFar, o
    <3>. DEFINE p == Numbers(SubSeq(ls, 1, o + n))
    <3>2. p \in Seq(Nat) /\ Len(p) = o + n /\ \A i \in 1..(o + n) : p[i] = ls[i].no
      <4>1. o + n \in Nat
        BY <1>2, <1>3
      <4>. HIDE DEF ls
      <4>. QED  BY <1>1, <1>3, <4>1, FirstFacts
    <3>. HIDE DEF p
    <3>3. ASSUME NEW i \in 1..(o + n) PROVE c[i] = p[i]
      <4>1. CASE i <= o
        <5>1. i \in 1..o
          BY <1>2, <4>1
        <5>. QED  BY <1>5, <3>1, <3>2, <4>1, <5>1
      <4>2. CASE ~(i <= o)
        <5>1. i - o \in 1..n /\ o + (i - o) = i
          BY <1>2, <1>3, <4>2
        <5>2. c[i] = more[i - o]
          BY <1>5, <3>1, <4>2
        <5>3. more[i - o] = ls[i].no
          BY <1>4, <5>1
        <5>. QED  BY <3>2, <5>2, <5>3
      <4>. QED  BY <4>1, <4>2
    <3>4. c = p
      BY <1>5, <3>1, <3>2, <3>3, SeqEqual
    <3>5. o + n \in 1..Len(ls)
      BY <1>1, <1>2, <1>3
    <3>. QED  BY <1>7, <3>4, <3>5 DEF ReadSoFar, p
  <2>. QED  BY <2>1, <2>2
<1>. QED  BY <1>7, <1>8 DEF ReaderInv, r2

\* The other steps of the reader.
LEMMA ReaderOpens ==
    ASSUME NEW r, NEW d, ReaderInv(r, d), d # <<>>, r.method = "",
           NEW method \in {"readToString", "readToByte"}, NEW status \in {"FILE_OPEN_FAILED", ""}
    PROVE  ReaderInv([r EXCEPT !.method = method, !.status = status], d)
<1>. DEFINE r2 == [r EXCEPT !.method = method, !.status = status]
<1>1. ReaderType(r) /\ ReadSoFar(r, d)
  BY DEF ReaderInv
<1>2. ReaderType(r2) /\ r2.context = r.context /\ r2.offset = r.offset
  BY <1>1 DEF ReaderType
<1>. HIDE DEF r2
<1>3. ReadSoFar(r2, d)
  BY <1>1, <1>2 DEF ReadSoFar
<1>. QED  BY <1>2, <1>3 DEF ReaderInv, r2

\* The end of the file, or enough, is a success.
LEMMA ReaderEnds ==
    ASSUME NEW r, NEW d, ReaderInv(r, d)
    PROVE  ReaderInv([r EXCEPT !.status = "SUCCESS"], d)
<1>. DEFINE r2 == [r EXCEPT !.status = "SUCCESS"]
<1>1. ReaderType(r) /\ ReadSoFar(r, d) /\ (r.method # "" => d # <<>>)
  BY DEF ReaderInv
<1>2. /\ ReaderType(r2) /\ r2.context = r.context /\ r2.offset = r.offset
      /\ r2.method = r.method /\ r2.faulty = r.faulty
  BY <1>1 DEF ReaderType
<1>. HIDE DEF r2
<1>3. ReadSoFar(r2, d)
  BY <1>1, <1>2 DEF ReadSoFar
<1>. QED  BY <1>1, <1>2, <1>3 DEF ReaderInv, r2

\* All but the last element, which are no more.
LEMMA FrontFacts ==
    ASSUME NEW X, NEW k \in Seq(X), k # <<>>, NEW n \in Nat, Len(k) <= n
    PROVE  Front(k) \in Seq(X) /\ Len(Front(k)) <= n
<1>1. /\ Len(k) \in Nat /\ Len(k) # 0 /\ \A i \in 1..Len(k) : k[i] \in X
  OBVIOUS
<1>. DEFINE m == Len(k) - 1
<1>2. m \in Nat /\ \A i \in 1..m : i \in 1..Len(k)
  BY <1>1
<1>3. Front(k) = SubSeq(k, 1, m)
  BY DEF Front
<1>. HIDE DEF m
<1>4. Front(k) = [i \in 1..m |-> k[i]]
  BY <1>2, <1>3
<1>5. Len(Front(k)) = m
  BY <1>2, <1>4
<1>6. m <= n
  BY <1>1 DEF m
<1>. QED  BY <1>1, <1>2, <1>4, <1>5, <1>6

\* A failed read() takes a number back in readToByte().
LEMMA ReaderFails ==
    ASSUME NEW r, NEW d, ReaderInv(r, d), r.method # "", NEW r2,
           r2 = [r EXCEPT !.faulty = TRUE,
                   !.status = IF r.method = "readToString" THEN "FILE_READ_FAILED"
                              ELSE IF r.context = <<>> THEN "SUCCESS" ELSE "",
                   !.context = IF r.method = "readToByte" /\ @ # <<>> THEN Front(@) ELSE @]
    PROVE  ReaderInv(r2, d)
<1>. DEFINE c == IF r.method = "readToByte" /\ r.context # <<>>
                 THEN Front(r.context) ELSE r.context
            status == IF r.method = "readToString" THEN "FILE_READ_FAILED"
                      ELSE IF r.context = <<>> THEN "SUCCESS" ELSE ""
<1>1. /\ ReaderType(r) /\ ReadSoFar(r, d) /\ (r.method # "" => d # <<>>)
      /\ r.method \in {"readToString", "readToByte"}
  BY DEF ReaderInv, ReaderType
<1>2. /\ r.context \in Seq(Nat) /\ Len(r.context) \in Nat
      /\ Len(r.context) <= ReadSize /\ ReadSize \in Nat
  BY <1>1, ReaderParts
<1>3. c \in Seq(Nat) /\ Len(c) <= ReadSize
  <2>. DEFINE k == r.context
  <2>1. k \in Seq(Nat) /\ Len(k) \in Nat /\ Len(k) <= ReadSize
    BY <1>2
  <2>. HIDE DEF k
  <2>2. k # <<>> => Front(k) \in Seq(Nat) /\ Len(Front(k)) <= ReadSize
    BY <1>2, <2>1, FrontFacts, Zenon
  <2>. QED  BY <2>1, <2>2 DEF k
<1>4. status \in {"", "FILE_READ_FAILED", "SUCCESS"}
  OBVIOUS
<1>5. r2 = [r EXCEPT !.faulty = TRUE, !.status = status, !.context = c]
  OBVIOUS
<1>6. r.method = "readToString" => c = r.context
  OBVIOUS
<1>. HIDE DEF c, status
<1>7. /\ ReaderType(r2) /\ r2.context = c /\ r2.offset = r.offset
      /\ r2.method = r.method /\ r2.faulty = TRUE
  BY <1>1, <1>3, <1>4, <1>5 DEF ReaderType
<1>8. ReadSoFar(r2, d)
  <2>1. CASE r.method = "readToByte"
    BY <1>7, <2>1 DEF ReadSoFar
  <2>2. CASE r.method = "readToString"
    BY <1>1, <1>6, <1>7, <2>2 DEF ReadSoFar
  <2>. QED  BY <1>1, <2>1, <2>2
<1>. QED  BY <1>1, <1>7, <1>8 DEF ReaderInv

-----------------------------------------------------------------------------
(* FileSpec.                                                                *)

\* Fewer lines.
LEMMA SavedLess ==
    ASSUME NEW d, NEW n \in Nat, NEW m \in Nat, m <= n, NEW missing, Saved(d, n, missing)
    PROVE  Saved(d, m, missing)
<1>1. \A i \in 1..m : i \in 1..n
  OBVIOUS
<1>. QED  BY <1>1 DEF Saved

\* What the steps leave of the Loggers' knowledge.
LoggersType ==
    /\ lines \in 0..MaxLine /\ unopened \subseteq 1..MaxLine /\ aborted \in 0..MaxLine
    /\ logger \in [Thread -> [at : {"none", "flush", "abort"}, no : 0..MaxLine]]

\* The type invariant has these parts.
LEMMA TypeParts ==
    FileType <=> now \in 0..MaxTime /\ log \in LogRec /\ disk \in Seq(FileRec) /\ LoggersType
BY DEF FileType, LogRec, FileRec, LoggersType

\* The disk has grown, and with it what is saved and what can be read.
LEMMA DiskGrows ==
    ASSUME FileInv, Grows(disk, disk'), disk' \in Seq(FileRec), unopened \subseteq unopened'
    PROVE  /\ \A n : Saved(disk, n, unopened) => Saved(disk', n, unopened')
           /\ Saved(disk', aborted, unopened') /\ ReaderInv(reader, disk')
<1>1. disk \in Seq(FileRec) /\ Saved(disk, aborted, unopened) /\ ReaderInv(reader, disk)
  BY TypeParts DEF FileInv
<1>2. \A n : Saved(disk, n, unopened) => Saved(disk', n, unopened')
  BY <1>1, GrowsSaved
<1>. QED  BY <1>1, <1>2, ReaderGrows

\* A new logger.
LEMMA FileInitInv == FileInit => FileInv
<1>. SUFFICES ASSUME FileInit PROVE FileInv
  OBVIOUS
<1>. DEFINE zeroed == [name |-> 0, opened |-> FALSE, writen_bytes_ |-> 0, buffered |-> <<>>,
                       count_ |-> 0, startOfPeriod_ |-> 0, lastRoll_ |-> 0, lastFlush_ |-> 0]
<1>1. /\ now = 1 /\ now \in 0..MaxTime /\ 0 \in 0..MaxTime
      /\ 0 \in 0..checkEveryN_ /\ 0 < checkEveryN_
  BY FileAssumption DEF FileInit
<1>2. PICK opened \in BOOLEAN : LET s == rollFile(St(zeroed, <<>>), opened)
                                IN  log = s.log /\ disk = s.disk
  BY DEF FileInit, St
<1>3. zeroed \in LogRec /\ zeroed.lastRoll_ = 0 /\ zeroed.name = 0
  BY <1>1 DEF LogRec
<1>4. Well(zeroed, <<>>) /\ KeptFiles(zeroed, <<>>) = <<>>
  <2>1. Period(0) = 0
    BY FileAssumption DEF Period
  <2>. QED  BY <1>1, <1>3, <2>1 DEF Well, KeptFiles
<1>5. rollFile(St(zeroed, <<>>), opened) = Rolled(St(zeroed, <<>>), opened)
  BY <1>1 DEF rollFile, St
<1>6. zeroed.count_ = 0
  OBVIOUS
<1>. HIDE DEF zeroed
<1>7. RollWell(zeroed, <<>>, opened, Rolled(St(zeroed, <<>>), opened))
  BY <1>1, <1>3, <1>4, RollKeeps
<1>8. /\ Well(log, disk) /\ log.opened = opened /\ log.count_ = 0 /\ log.writen_bytes_ = 0
      /\ KeptFiles(log, disk) = IF opened THEN Append(<<>>, NewFile) ELSE <<>>
  BY <1>2, <1>4, <1>5, <1>6, <1>7 DEF RollWell
<1>9. <<>> \in Seq(FileRec) /\ DOMAIN <<>> = {} /\ 1..0 = {}
  OBVIOUS
<1>10. Contents(<<>>, 0, {}) /\ \A i \in DOMAIN <<>> : InTime(<<>>[i])
  BY <1>9 DEF Contents, NumbersInOrder, Complete, LinesFit
<1>11. FilesWell(log, disk, 0, {})
  <2>1. CASE opened
    <3>1. Contents(Append(<<>>, NewFile), 0, {})
      BY <1>9, <1>10, NewContents
    <3>2. AllInTime(log, Append(<<>>, NewFile))
      <4>1. log.count_ \in Nat
        BY <1>8
      <4>. QED  BY <1>8, <1>9, <1>10, <4>1, NewInTime
    <3>. QED  BY <1>8, <2>1, <3>1, <3>2 DEF FilesWell
  <2>2. CASE ~opened
    BY <1>8, <1>10, <2>2 DEF FilesWell, AllInTime
  <2>. QED  BY <2>1, <2>2
<1>12. lines = 0 /\ unopened = {} /\ aborted = 0 /\ reader = NoReader
       /\ logger = [t \in Thread |-> NoLogger]
  BY DEF FileInit
<1>13. LoggersType /\ LoggersKnow
  BY <1>12, FileAssumption DEF LoggersType, LoggersKnow, NoLogger
<1>14. FileType
  BY <1>1, <1>8, <1>13, TypeParts DEF Well
<1>15. Saved(disk, aborted, unopened)
  BY <1>9, <1>12 DEF Saved
<1>16. ReaderInv(reader, disk)
  <2>1. Len(<<>>) = 0 /\ <<>> \in Seq(Nat) /\ ReadSize \in Nat
    BY FileAssumption
  <2>2. /\ reader.method = "" /\ reader.status = "" /\ reader.context = <<>>
        /\ reader.offset = 0 /\ reader.faulty = FALSE
    BY <1>12 DEF NoReader
  <2>3. ReaderType(reader)
    <3>1. NoReader \in [method : {"", "readToString", "readToByte"},
                        status : {"", "FILE_OPEN_FAILED", "FILE_READ_FAILED", "SUCCESS"},
                        context : Seq(Nat), offset : Nat, faulty : BOOLEAN]
      BY <2>1 DEF NoReader
    <3>2. Len(reader.context) = 0
      BY <2>1, <2>2
    <3>3. Len(reader.context) <= ReadSize
      BY <2>1, <3>2
    <3>4. reader = NoReader
      BY <1>12
    <3>. QED  BY <3>1, <3>3, <3>4, Zenon DEF ReaderType
  <2>. QED  BY <2>2, <2>3 DEF ReaderInv, ReadSoFar
<1>. QED  BY <1>11, <1>12, <1>13, <1>14, <1>15, <1>16 DEF FileInv


\* The parts of the invariant.
LEMMA InvParts ==
    ASSUME FileInv
    PROVE  /\ now \in 0..MaxTime /\ log \in LogRec /\ disk \in Seq(FileRec) /\ LoggersType
           /\ lines \in Nat /\ lines <= MaxLine /\ aborted \in 0..MaxLine /\ MaxLine \in Nat
           /\ \A t \in Thread : logger[t].no \in Nat /\ logger[t].no <= lines
           /\ \A t \in Thread : logger[t].at = "abort" => Saved(disk, logger[t].no, unopened)
<1>1. now \in 0..MaxTime /\ log \in LogRec /\ disk \in Seq(FileRec) /\ LoggersType
  BY TypeParts DEF FileInv
<1>2. MaxLine \in Nat
  BY FileAssumption
<1>3. \A t \in Thread : logger[t].no \in Nat
  BY <1>1, <1>2 DEF LoggersType
<1>4. lines \in Nat /\ lines <= MaxLine /\ aborted \in 0..MaxLine
  BY <1>1, <1>2 DEF LoggersType
<1>. QED  BY <1>1, <1>2, <1>3, <1>4 DEF FileInv, LoggersKnow

\* A user's line.
LEMMA LogInv ==
    ASSUME FileInv, NEW t \in Thread, NEW level \in {"INFO", "FATAL"},
           NEW items \in SeqOf(Items, MaxItem), NEW opened \in BOOLEAN,
           Log(t, level, items, opened)
    PROVE  FileInv'
<1>. DEFINE line == [no |-> lines + 1, len |-> Len(Composed(items)), at |-> now]
            s == append_unlocked(St(log, disk), line, opened)
<1>1. /\ now \in 0..MaxTime /\ log \in LogRec /\ disk \in Seq(FileRec) /\ LoggersType
      /\ lines \in Nat /\ lines <= MaxLine /\ aborted \in 0..MaxLine /\ MaxLine \in Nat
      /\ \A u \in Thread : logger[u].no \in Nat /\ logger[u].no <= lines
      /\ \A u \in Thread : logger[u].at = "abort" => Saved(disk, logger[u].no, unopened)
  BY InvParts
<1>2. FilesWell(log, disk, lines, unopened)
  BY DEF FileInv
<1>3. /\ log' = s.log /\ disk' = s.disk /\ lines' = lines + 1 /\ lines < MaxLine
      /\ unopened' = IF log.opened THEN unopened ELSE unopened \cup {lines + 1}
      /\ logger' = IF level = "FATAL"
                   THEN [logger EXCEPT ![t] = [at |-> "flush", no |-> lines + 1]] ELSE logger
      /\ now' = now /\ aborted' = aborted /\ reader' = reader
  BY DEF Log, St
<1>4. Len(Composed(items)) < SIZE /\ Len(Composed(items)) \in 0..SIZE
  <2>1. items \in Seq(Items)
    BY FileAssumption DEF SeqOf
  <2>2. items \in Seq(Item)
    BY <2>1, ItemsAssumption
  <2>. QED  BY <2>2, ComposedFits
<1>. DEFINE len == Len(Composed(items))
<1>. HIDE DEF len
<1>5. line \in Line /\ line.no = lines + 1 /\ line.at = now /\ line.len < SIZE
  <2>1. lines + 1 \in 1..MaxLine
    BY <1>1, <1>3
  <2>. QED  BY <1>1, <1>4, <2>1 DEF Line
<1>. HIDE DEF line, s
<1>6. FilesWell(log', disk', lines', unopened') /\ Grows(disk, disk')
  <2>1. s = append_unlocked(St(log, disk), line, opened)
    BY DEF s
  <2>. QED  BY <1>1, <1>2, <1>3, <1>5, <2>1, AppendFilesWell
<1>7. disk' \in Seq(FileRec) /\ log' \in LogRec
  BY <1>6 DEF FilesWell, Well
<1>8. unopened \subseteq unopened' /\ lines' \in 0..MaxLine /\ unopened' \subseteq 1..MaxLine
  BY <1>1, <1>3 DEF LoggersType
<1>9. logger' \in [Thread -> [at : {"none", "flush", "abort"}, no : 0..MaxLine]]
  <2>1. [at |-> "flush", no |-> lines + 1] \in [at : {"none", "flush", "abort"}, no : 0..MaxLine]
    BY <1>1, <1>3
  <2>. QED  BY <1>1, <1>3, <2>1 DEF LoggersType
<1>10. FileType'
  <2>1. LoggersType'
    BY <1>1, <1>3, <1>8, <1>9 DEF LoggersType
  <2>2. now' \in 0..MaxTime
    BY <1>1, <1>3
  <2>. QED  BY <1>7, <2>1, <2>2 DEF FileType, LogRec, FileRec, LoggersType
<1>11. /\ \A n : Saved(disk, n, unopened) => Saved(disk', n, unopened')
       /\ Saved(disk', aborted, unopened') /\ ReaderInv(reader, disk')
  BY <1>6, <1>7, <1>8, DiskGrows
<1>12. LoggersKnow'
  <2>. SUFFICES ASSUME NEW u \in Thread
                PROVE  /\ logger'[u].no <= lines'
                       /\ logger'[u].at = "abort" => Saved(disk', logger'[u].no, unopened')
    BY DEF LoggersKnow
  <2>1. CASE logger'[u] = logger[u]
    <3>1. logger[u].no <= lines'
      BY <1>1, <1>3
    <3>. QED  BY <1>1, <1>11, <2>1, <3>1
  <2>2. CASE logger'[u] # logger[u]
    <3>1. logger'[u] = [at |-> "flush", no |-> lines + 1]
      BY <1>1, <1>3, <2>2 DEF LoggersType
    <3>. QED  BY <1>1, <1>3, <3>1
  <2>. QED  BY <2>1, <2>2
<1>. QED  BY <1>3, <1>6, <1>10, <1>11, <1>12 DEF FileInv

\* What is flushed is saved.
LEMMA FlushSaves ==
    ASSUME FileInv, log' = Flushed(log), disk' = Written(disk, log), lines' = lines,
           unopened' = unopened
    PROVE  /\ FilesWell(log', disk', lines', unopened')
           /\ disk' \in Seq(FileRec) /\ log' \in LogRec
           /\ \A n : Saved(disk, n, unopened) => Saved(disk', n, unopened')
           /\ Saved(disk', aborted, unopened') /\ ReaderInv(reader, disk')
           /\ Saved(disk', lines, unopened')
<1>1. FilesWell(log, disk, lines, unopened)
  BY DEF FileInv
<1>2. /\ FilesWell(log', disk', lines', unopened') /\ Grows(disk, disk')
      /\ Saved(disk', lines, unopened')
  BY <1>1, FlushFilesWell
<1>3. disk' \in Seq(FileRec) /\ log' \in LogRec
  BY <1>2 DEF FilesWell, Well
<1>. QED  BY <1>2, <1>3, DiskGrows

\* A FATAL line's flush.
LEMMA FlushInv ==
    ASSUME FileInv, NEW t \in Thread, Flush(t)
    PROVE  FileInv'
<1>1. /\ now \in 0..MaxTime /\ log \in LogRec /\ disk \in Seq(FileRec) /\ LoggersType
      /\ lines \in Nat /\ lines <= MaxLine /\ aborted \in 0..MaxLine /\ MaxLine \in Nat
      /\ \A u \in Thread : logger[u].no \in Nat /\ logger[u].no <= lines
      /\ \A u \in Thread : logger[u].at = "abort" => Saved(disk, logger[u].no, unopened)
  BY InvParts
<1>2. /\ log' = Flushed(log) /\ disk' = Written(disk, log)
      /\ logger' = [logger EXCEPT ![t].at = "abort"]
      /\ now' = now /\ lines' = lines /\ unopened' = unopened /\ aborted' = aborted
      /\ reader' = reader
  BY DEF Flush
<1>3. /\ FilesWell(log', disk', lines', unopened')
      /\ disk' \in Seq(FileRec) /\ log' \in LogRec
      /\ \A n : Saved(disk, n, unopened) => Saved(disk', n, unopened')
      /\ Saved(disk', aborted, unopened') /\ ReaderInv(reader, disk')
      /\ Saved(disk', lines, unopened')
  BY <1>2, FlushSaves
<1>4. \A u \in Thread : /\ u # t => logger'[u] = logger[u]
                        /\ logger'[u].no = logger[u].no
  BY <1>1, <1>2 DEF LoggersType
<1>5. logger' \in [Thread -> [at : {"none", "flush", "abort"}, no : 0..MaxLine]]
  BY <1>1, <1>2 DEF LoggersType
<1>6. FileType'
  <2>1. LoggersType'
    BY <1>1, <1>2, <1>5 DEF LoggersType
  <2>. QED  BY <1>1, <1>2, <1>3, <2>1 DEF FileType, LogRec, FileRec, LoggersType
<1>7. LoggersKnow'
  <2>. SUFFICES ASSUME NEW u \in Thread
                PROVE  /\ logger'[u].no <= lines'
                       /\ logger'[u].at = "abort" => Saved(disk', logger'[u].no, unopened')
    BY DEF LoggersKnow
  <2>1. logger'[u].no <= lines' /\ logger'[u].no = logger[u].no
    BY <1>1, <1>2, <1>4
  <2>2. Saved(disk', logger[u].no, unopened')
    BY <1>1, <1>3, SavedLess
  <2>. QED  BY <2>1, <2>2
<1>. QED  BY <1>2, <1>3, <1>6, <1>7 DEF FileInv

\* stdio's own.
LEMMA StdioInv ==
    ASSUME FileInv, StdioWrites
    PROVE  FileInv'
<1>1. /\ now \in 0..MaxTime /\ LoggersType
      /\ \A u \in Thread : logger[u].no \in Nat /\ logger[u].no <= lines
      /\ \A u \in Thread : logger[u].at = "abort" => Saved(disk, logger[u].no, unopened)
  BY InvParts
<1>2. /\ log' = Flushed(log) /\ disk' = Written(disk, log) /\ logger' = logger
      /\ now' = now /\ lines' = lines /\ unopened' = unopened /\ aborted' = aborted
      /\ reader' = reader
  BY DEF StdioWrites
<1>3. /\ FilesWell(log', disk', lines', unopened')
      /\ disk' \in Seq(FileRec) /\ log' \in LogRec
      /\ \A n : Saved(disk, n, unopened) => Saved(disk', n, unopened')
      /\ Saved(disk', aborted, unopened') /\ ReaderInv(reader, disk')
  BY <1>2, FlushSaves
<1>4. FileType'
  <2>1. LoggersType'
    BY <1>1, <1>2 DEF LoggersType
  <2>. QED  BY <1>1, <1>2, <1>3, <2>1 DEF FileType, LogRec, FileRec, LoggersType
<1>5. LoggersKnow'
  BY <1>1, <1>2, <1>3 DEF LoggersKnow
<1>. QED  BY <1>2, <1>3, <1>4, <1>5 DEF FileInv

\* abort().
LEMMA AbortInv ==
    ASSUME FileInv, NEW t \in Thread, Abort(t)
    PROVE  FileInv'
<1>1. /\ now \in 0..MaxTime /\ log \in LogRec /\ disk \in Seq(FileRec) /\ LoggersType
      /\ lines \in Nat /\ lines <= MaxLine /\ aborted \in 0..MaxLine /\ MaxLine \in Nat
      /\ \A u \in Thread : logger[u].no \in Nat /\ logger[u].no <= lines
      /\ \A u \in Thread : logger[u].at = "abort" => Saved(disk, logger[u].no, unopened)
  BY InvParts
<1>2. /\ logger[t].at = "abort" /\ aborted' = logger[t].no /\ log' = log /\ disk' = disk
      /\ logger' = logger /\ now' = now /\ lines' = lines /\ unopened' = unopened
      /\ reader' = reader
  BY DEF Abort
<1>3. FileType'
  <2>1. aborted' \in 0..MaxLine
    BY <1>1, <1>2
  <2>2. LoggersType'
    BY <1>1, <1>2, <2>1 DEF LoggersType
  <2>. QED  BY <1>1, <1>2, <2>2 DEF FileType, LogRec, FileRec, LoggersType
<1>4. Saved(disk', aborted', unopened')
  BY <1>1, <1>2
<1>. QED  BY <1>2, <1>3, <1>4 DEF FileInv, LoggersKnow

\* The clock.
LEMMA ClockInv ==
    ASSUME FileInv, Clock
    PROVE  FileInv'
<1>1. now \in 0..MaxTime /\ MaxTime \in Nat
  BY InvParts, FileAssumption
<1>2. /\ log' = log /\ disk' = disk /\ logger' = logger /\ lines' = lines
      /\ unopened' = unopened /\ aborted' = aborted /\ reader' = reader
  BY DEF Clock
<1>3. now' \in 0..MaxTime
  BY <1>1 DEF Clock
<1>4. FileType'
  BY <1>2, <1>3 DEF FileInv, FileType
<1>. QED  BY <1>2, <1>4 DEF FileInv, LoggersKnow

\* The reader.
LEMMA ReaderStepInv ==
    ASSUME FileInv, ReaderStep
    PROVE  FileInv'
<1>1. disk \in Seq(FileRec) /\ ReaderInv(reader, disk) /\ (reader.method # "" => disk # <<>>)
  BY InvParts DEF FileInv, ReaderInv
<1>2. /\ log' = log /\ disk' = disk /\ logger' = logger /\ lines' = lines /\ now' = now
      /\ unopened' = unopened /\ aborted' = aborted
  BY DEF ReaderStep, OpenReader, ReadSome, ReadEnds, ReadFails
<1>3. ReaderInv(reader', disk)
  <2>1. ASSUME NEW method \in {"readToString", "readToByte"}, NEW fd_ \in {-1, 0, 3},
               OpenReader(method, fd_)
        PROVE  ReaderInv(reader', disk)
    <3>. DEFINE status == IF fd_ < 0 \/ (fd_ = 0 /\ method = "readToString")
                          THEN "FILE_OPEN_FAILED" ELSE ""
    <3>1. /\ reader' = [reader EXCEPT !.method = method, !.status = status]
          /\ reader.method = "" /\ disk # <<>>
      BY <2>1 DEF OpenReader
    <3>2. status \in {"FILE_OPEN_FAILED", ""}
      OBVIOUS
    <3>. HIDE DEF status
    <3>. QED  BY <1>1, <3>1, <3>2, ReaderOpens
  <2>2. ASSUME ReadSome PROVE ReaderInv(reader', disk)
    <3>1. PICK n \in 1..(ReadSize - Len(reader.context)) :
              /\ reader.offset + n <= Len(disk[1].lines)
              /\ reader' = ReadMore(reader, disk[1].lines, n)
      BY <2>2 DEF ReadSome, ReadMore
    <3>2. reader.method # ""
      BY <2>2 DEF ReadSome, Reading
    <3>. QED  BY <1>1, <3>1, <3>2, ReadMoreInv
  <2>3. ASSUME ReadEnds PROVE ReaderInv(reader', disk)
    <3>1. reader' = [reader EXCEPT !.status = "SUCCESS"]
      BY <2>3 DEF ReadEnds
    <3>. QED  BY <1>1, <3>1, ReaderEnds
  <2>4. ASSUME ReadFails PROVE ReaderInv(reader', disk)
    <3>1. /\ reader.method # ""
          /\ reader' = [reader EXCEPT !.faulty = TRUE,
                   !.status = IF reader.method = "readToString" THEN "FILE_READ_FAILED"
                              ELSE IF reader.context = <<>> THEN "SUCCESS" ELSE "",
                   !.context = IF reader.method = "readToByte" /\ @ # <<>> THEN Front(@) ELSE @]
      BY <2>4 DEF ReadFails, Reading
    <3>. QED  BY <1>1, <3>1, ReaderFails
  <2>. QED  BY <2>1, <2>2, <2>3, <2>4 DEF ReaderStep
<1>4. FileType'
  BY <1>2 DEF FileInv, FileType
<1>. QED  BY <1>2, <1>3, <1>4 DEF FileInv, LoggersKnow

\* FileInv is inductive.
THEOREM FileInvariant == FileSpec => []FileInv
<1>1. FileInit => FileInv
  BY FileInitInv
<1>2. FileInv /\ [FileNext]_fileVars => FileInv'
  <2>. SUFFICES ASSUME FileInv, [FileNext]_fileVars PROVE FileInv'
    OBVIOUS
  <2>1. ASSUME NEW t \in Thread, LoggerStep(t) PROVE FileInv'
    <3>1. ASSUME NEW level \in {"INFO", "FATAL"}, NEW items \in SeqOf(Items, MaxItem),
                 NEW opened \in BOOLEAN, Log(t, level, items, opened)
          PROVE  FileInv'
      BY <3>1, LogInv
    <3>2. CASE Flush(t)
      BY <3>2, FlushInv
    <3>3. CASE Abort(t)
      BY <3>3, AbortInv
    <3>. QED  BY <2>1, <3>1, <3>2, <3>3 DEF LoggerStep
  <2>2. CASE StdioWrites
    BY <2>2, StdioInv
  <2>3. CASE Clock
    BY <2>3, ClockInv
  <2>4. CASE ReaderStep
    BY <2>4, ReaderStepInv
  <2>5. CASE UNCHANGED fileVars
    BY <2>5 DEF FileInv, FileType, LoggersKnow, fileVars
  <2>. QED  BY <2>1, <2>2, <2>3, <2>4, <2>5 DEF FileNext
<1>. QED  BY <1>1, <1>2, PTL DEF FileSpec

-----------------------------------------------------------------------------
(* The invariants of the runs.                                              *)

\* The files, as the properties see them.
LEMMA FilesKept ==
    ASSUME FileInv
    PROVE  /\ Files = KeptFiles(log, disk)
           /\ Files \in Seq(FileRec) /\ DOMAIN Files = 1..Len(Files)
           /\ \A i \in DOMAIN Files : Files[i].lines \in Seq(Line)
           /\ Contents(Files, lines, unopened) /\ \A i \in DOMAIN Files : InTime(Files[i])
<1>1. FilesWell(log, disk, lines, unopened)
  BY DEF FileInv
<1>2. Files = KeptFiles(log, disk)
  BY DEF Files, KeptFiles
<1>3. KeptFiles(log, disk) \in Seq(FileRec)
  BY <1>1, OpenedFile DEF FilesWell
<1>. QED  BY <1>1, <1>2, <1>3, DiskParts DEF FilesWell, AllInTime

\* The numbers of a file's lines.
LEMMA RangeOfNumbers ==
    ASSUME NEW ls \in Seq(Line)
    PROVE  Range(Numbers(ls)) = {ls[a].no : a \in DOMAIN ls}
<1>1. DOMAIN Numbers(ls) = DOMAIN ls /\ \A i \in DOMAIN ls : Numbers(ls)[i] = ls[i].no
  BY NumbersFacts
<1>. HIDE DEF Numbers
<1>. QED  BY <1>1 DEF Range

\* Every line is in one file, once and in order, whatever rolls, flushes and clock do.
THEOREM LinesOnceCorrect == FileSpec => []LinesOnce
<1>1. FileInv => LinesOnce
  <2>. SUFFICES ASSUME FileInv PROVE LinesOnce
    OBVIOUS
  <2>1. /\ Files \in Seq(FileRec) /\ DOMAIN Files = 1..Len(Files)
        /\ \A i \in DOMAIN Files : Files[i].lines \in Seq(Line)
        /\ NumbersInOrder(Files) /\ Complete(Files, lines, unopened)
    BY FilesKept DEF Contents
  <2>2. FileType /\ \A i, j \in DOMAIN disk : i < j => disk[i].name < disk[j].name
    BY DEF FileInv, FilesWell, Well
  <2>. HIDE DEF Files
  <2>3. UNION {Range(Numbers(f.lines)) : f \in Range(Files)} = (1..lines) \ unopened
    <3>. DEFINE U == UNION {Range(Numbers(f.lines)) : f \in Range(Files)}
    <3>1. \A i \in DOMAIN Files :
              Range(Numbers(Files[i].lines)) =
                  {Files[i].lines[a].no : a \in DOMAIN Files[i].lines}
      BY <2>1, RangeOfNumbers
    <3>2. Range(Files) = {Files[i] : i \in DOMAIN Files}
      BY DEF Range
    <3>3. \A m : m \in U <=> Holds(Files, m)
      <4>. SUFFICES ASSUME NEW m PROVE m \in U <=> Holds(Files, m)
        OBVIOUS
      <4>1. m \in U <=> \E i \in DOMAIN Files : m \in Range(Numbers(Files[i].lines))
        BY <3>2
      <4>. QED  BY <3>1, <4>1 DEF Holds
    <3>4. \A m : Holds(Files, m) <=> m \in (1..lines) \ unopened
      BY <2>1 DEF Complete, Holds
    <3>. HIDE DEF U
    <3>5. U = (1..lines) \ unopened
      BY <3>3, <3>4
    <3>. QED  BY <3>5 DEF U
  <2>. QED  BY <2>1, <2>2, <2>3 DEF LinesOnce, NumbersInOrder
<1>. QED  BY <1>1, FileInvariant, PTL

\* A file is left in time, by lines and by size, whatever the clock does.
THEOREM RollsInTimeCorrect == FileSpec => []RollsInTime
<1>1. FileInv => RollsInTime
  <2>. SUFFICES ASSUME FileInv PROVE RollsInTime
    OBVIOUS
  <2>1. \A i \in DOMAIN Files : InTime(Files[i])
    BY FilesKept
  <2>. HIDE DEF Files
  <2>2. \A f \in Range(Files) : InTime(f)
    BY <2>1 DEF Range
  <2>. QED  BY <2>2 DEF RollsInTime, InTime, InPeriod, OfSize
<1>. QED  BY <1>1, FileInvariant, PTL

\* The FATAL line that ends the process is on the disk, and every line before it.
THEOREM FatalOnDiskCorrect == FileSpec => []FatalOnDisk
<1>1. FileInv => FatalOnDisk
  <2>. SUFFICES ASSUME FileInv, NEW n \in 1..aborted, n \notin unopened
                PROVE  \E f \in Range(disk) : n \in Range(Numbers(f.lines))
    BY DEF FatalOnDisk
  <2>1. Holds(disk, n) /\ disk \in Seq(FileRec)
    BY InvParts DEF FileInv, Saved
  <2>2. PICK i \in DOMAIN disk : \E a \in DOMAIN disk[i].lines : disk[i].lines[a].no = n
    BY <2>1 DEF Holds
  <2>3. disk[i] \in Range(disk) /\ disk[i].lines \in Seq(Line)
    BY <2>1, DiskParts DEF Range
  <2>4. n \in Range(Numbers(disk[i].lines))
    BY <2>2, <2>3, RangeOfNumbers
  <2>. QED  BY <2>3, <2>4
<1>. QED  BY <1>1, FileInvariant, PTL

\* What is read of a file that is being written is how the file begins.
THEOREM ReadPrefixCorrect == FileSpec => []ReadPrefix
<1>1. FileInv => ReadPrefix
  <2>. SUFFICES ASSUME FileInv PROVE ReadPrefix
    OBVIOUS
  <2>1. disk \in Seq(FileRec) /\ ReaderType(reader) /\ ReadSoFar(reader, disk)
    BY InvParts DEF FileInv, ReaderInv
  <2>2. Len(reader.context) <= ReadSize
    BY <2>1 DEF ReaderType
  <2>3. ASSUME disk # <<>>, reader.offset \in 1..Len(disk[1].lines),
               reader.context = Numbers(SubSeq(disk[1].lines, 1, reader.offset))
        PROVE  IsPrefix(reader.context, Numbers(disk[1].lines))
    <3>. DEFINE ls == disk[1].lines
                n == reader.offset
                c == reader.context
                q == Numbers(ls)
    <3>1. 1 \in DOMAIN disk
      BY <2>1, <2>3
    <3>2. ls \in Seq(Line) /\ n \in 1..Len(ls) /\ c = Numbers(SubSeq(ls, 1, n))
      BY <2>1, <2>3, <3>1, DiskParts
    <3>. HIDE DEF ls, n, c
    <3>3. Len(ls) \in Nat /\ DOMAIN ls = 1..Len(ls) /\ n \in Nat /\ n <= Len(ls)
      BY <3>2
    <3>4. c \in Seq(Nat) /\ Len(c) = n /\ \A i \in 1..n : c[i] = ls[i].no
      BY <3>2, <3>3, FirstFacts
    <3>5. q \in Seq(Nat) /\ Len(q) = Len(ls) /\ \A i \in 1..Len(ls) : q[i] = ls[i].no
      BY <3>2, <3>3, NumbersFacts
    <3>. HIDE DEF q
    <3>. DEFINE p == SubSeq(q, 1, n)
    <3>6. p \in Seq(Nat) /\ Len(p) = n /\ \A i \in 1..n : p[i] = q[i]
      <4>1. 1 \in Int /\ n \in Int /\ \A i \in 1..n : q[i] \in Nat
        BY <3>3, <3>5
      <4>2. /\ p \in Seq(Nat) /\ Len(p) = (IF 1 <= n THEN n - 1 + 1 ELSE 0)
            /\ \A i \in 1..(n - 1 + 1) : p[i] = q[1 + i - 1]
        BY <4>1, SubSeqProperties
      <4>3. /\ (IF 1 <= n THEN n - 1 + 1 ELSE 0) = n /\ n - 1 + 1 = n
            /\ \A i \in 1..n : 1 + i - 1 = i
        BY <3>3
      <4>. QED  BY <4>2, <4>3
    <3>. HIDE DEF p
    <3>7. c = p
      <4>1. \A i \in 1..n : c[i] = p[i]
        <5>1. \A i \in 1..n : i \in 1..Len(ls)
          BY <3>3
        <5>. QED  BY <3>4, <3>5, <3>6, <5>1
      <4>. QED  BY <3>4, <3>6, <4>1, SeqEqual
    <3>8. SubSeq(c, 1, Len(c)) = c
      BY <3>4, SubSeqFull
    <3>9. IsPrefix(c, q)
      BY <3>3, <3>4, <3>5, <3>7, <3>8 DEF IsPrefix, p
    <3>. QED  BY <3>9 DEF c, q, ls
  <2>. QED  BY <2>1, <2>2, <2>3 DEF ReadPrefix, ReadSoFar
<1>. QED  BY <1>1, FileInvariant, PTL

\* An item is in a line whole or not at all, and a number as its numeral.
THEOREM WholeItemsCorrect == FileSpec => []WholeItems
<1>1. FileInv => WholeItems
  <2>. SUFFICES ASSUME FileInv PROVE WholeItems
    OBVIOUS
  <2>1. AllWhole
    <3>1. Items \cup Numeric \in SUBSET Item
      BY ItemsAssumption DEF Item
    <3>. QED  BY <3>1, AllInsertsWhole DEF AllWhole
  <2>2. Files \in Seq(FileRec) /\ LinesFit(Files)
    BY FilesKept DEF Contents
  <2>. HIDE DEF Files
  <2>3. \A f \in Range(Files) : \A line \in Range(f.lines) : line.len < SIZE
    BY <2>2 DEF Range, LinesFit
  <2>. QED  BY <2>1, <2>3 DEF WholeItems
<1>. QED  BY <1>1, FileInvariant, PTL
===============================================================================
