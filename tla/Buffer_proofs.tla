---------------------------- MODULE Buffer_proofs ----------------------------
(***************************************************************************)
(* The indices of a Buffer stay in order and inside of the vector, the      *)
(* vector grows no further than its content needs, and the content is a     *)
(* queue of bytes, for buffers, chunks and integers of every size.          *)
(***************************************************************************)
EXTENDS Buffer, SequenceTheorems, WellFoundedInduction, TLAPS

Record(bytes, reader, writer) ==
    [buffer_ |-> bytes, reader_index_ |-> reader, writer_index_ |-> writer]

\* b has the members of a buffer and no others.
IsRecord(b) == b = Record(b.buffer_, b.reader_index_, b.writer_index_)

\* A buffer with its bytes, and the headroom that RetrieveAll() returns to.
Sound(b) ==
    /\ IsRecord(b)
    /\ b.buffer_ \in Seq(Byte)
    /\ b.reader_index_ \in Nat /\ b.writer_index_ \in Nat
    /\ b.reader_index_ <= b.writer_index_
    /\ b.writer_index_ <= Len(b.buffer_)
    /\ cheap_prepend_ <= Len(b.buffer_)

IInv == Sound(buffer)

\* b, which comes after a, is no longer, or less than twice as long as its content.
Grown(a, b) ==
    Len(b.buffer_) > Len(a.buffer_) =>
        Len(b.buffer_) < 2 * ReadableBytes(b) + cheap_prepend_

-----------------------------------------------------------------------------
(* Buffers as records.                                                      *)

\* What has the three parts of a sound buffer is one.
LEMMA RecordSound ==
    ASSUME NEW bytes \in Seq(Byte), NEW reader \in Nat, NEW writer \in Nat,
           reader <= writer, writer <= Len(bytes), cheap_prepend_ <= Len(bytes)
    PROVE  Sound(Record(bytes, reader, writer))
BY DEF Sound, IsRecord, Record

\* An assignment to a member leaves a record.
LEMMA Assigned ==
    ASSUME NEW b, IsRecord(b), NEW v
    PROVE  /\ [b EXCEPT !.buffer_ = v] = Record(v, b.reader_index_, b.writer_index_)
           /\ [b EXCEPT !.reader_index_ = v] = Record(b.buffer_, v, b.writer_index_)
           /\ [b EXCEPT !.writer_index_ = v] = Record(b.buffer_, b.reader_index_, v)
<1>. DEFINE bb == b.buffer_  br == b.reader_index_  bw == b.writer_index_
<1>1. b = [buffer_ |-> bb, reader_index_ |-> br, writer_index_ |-> bw]
  BY DEF IsRecord, Record
<1>. HIDE DEF bb, br, bw
<1>2. b.buffer_ = bb /\ b.reader_index_ = br /\ b.writer_index_ = bw  BY <1>1
<1>3. [b EXCEPT !.buffer_ = v] = Record(v, br, bw)  BY <1>1 DEF Record
<1>4. [b EXCEPT !.reader_index_ = v] = Record(bb, v, bw)  BY <1>1 DEF Record
<1>5. [b EXCEPT !.writer_index_ = v] = Record(bb, br, v)  BY <1>1 DEF Record
<1>. QED  BY <1>2, <1>3, <1>4, <1>5

\* The members of a record.
LEMMA Members ==
    ASSUME NEW x, NEW y, NEW z
    PROVE  /\ Record(x, y, z).buffer_ = x
           /\ Record(x, y, z).reader_index_ = y
           /\ Record(x, y, z).writer_index_ = z
BY DEF Record

\* One assignment after the other.
LEMMA AssignedIndices ==
    ASSUME NEW b, IsRecord(b), NEW y, NEW z
    PROVE  [b EXCEPT !.reader_index_ = y, !.writer_index_ = z] = Record(b.buffer_, y, z)
<1>. DEFINE a == [b EXCEPT !.reader_index_ = y]
<1>1. [b EXCEPT !.reader_index_ = y, !.writer_index_ = z] = [a EXCEPT !.writer_index_ = z]
  OBVIOUS
<1>2. a = Record(b.buffer_, y, b.writer_index_)  BY Assigned
<1>. HIDE DEF a
<1>3. IsRecord(a) /\ a.buffer_ = b.buffer_ /\ a.reader_index_ = y
  BY <1>2, Members DEF IsRecord
<1>4. [a EXCEPT !.writer_index_ = z] = Record(a.buffer_, a.reader_index_, z)
  BY <1>3, Assigned
<1>. QED  BY <1>1, <1>3, <1>4

\* The vector and the writer index assigned,
LEMMA AssignedBufferWriter ==
    ASSUME NEW b, IsRecord(b), NEW x, NEW z
    PROVE  [b EXCEPT !.buffer_ = x, !.writer_index_ = z] = Record(x, b.reader_index_, z)
<1>. DEFINE a == [b EXCEPT !.buffer_ = x]
<1>1. [b EXCEPT !.buffer_ = x, !.writer_index_ = z] = [a EXCEPT !.writer_index_ = z]
  OBVIOUS
<1>2. a = Record(x, b.reader_index_, b.writer_index_)  BY Assigned
<1>. HIDE DEF a
<1>3. IsRecord(a) /\ a.buffer_ = x /\ a.reader_index_ = b.reader_index_
  BY <1>2, Members DEF IsRecord
<1>4. [a EXCEPT !.writer_index_ = z] = Record(a.buffer_, a.reader_index_, z)
  BY <1>3, Assigned
<1>. QED  BY <1>1, <1>3, <1>4

\* the reader index and the vector,
LEMMA AssignedReaderBuffer ==
    ASSUME NEW b, IsRecord(b), NEW x, NEW y
    PROVE  [b EXCEPT !.reader_index_ = y, !.buffer_ = x] = Record(x, y, b.writer_index_)
<1>. DEFINE a == [b EXCEPT !.reader_index_ = y]
<1>1. [b EXCEPT !.reader_index_ = y, !.buffer_ = x] = [a EXCEPT !.buffer_ = x]
  OBVIOUS
<1>2. a = Record(b.buffer_, y, b.writer_index_)  BY Assigned
<1>. HIDE DEF a
<1>3. IsRecord(a) /\ a.reader_index_ = y /\ a.writer_index_ = b.writer_index_
  BY <1>2, Members DEF IsRecord
<1>4. [a EXCEPT !.buffer_ = x] = Record(x, a.reader_index_, a.writer_index_)
  BY <1>3, Assigned
<1>. QED  BY <1>1, <1>3, <1>4

\* all three.
LEMMA AssignedAll ==
    ASSUME NEW b, IsRecord(b), NEW x, NEW y, NEW z
    PROVE  [b EXCEPT !.buffer_ = x, !.reader_index_ = y, !.writer_index_ = z] = Record(x, y, z)
<1>. DEFINE a == [b EXCEPT !.buffer_ = x]
<1>1. [b EXCEPT !.buffer_ = x, !.reader_index_ = y, !.writer_index_ = z]
          = [a EXCEPT !.reader_index_ = y, !.writer_index_ = z]
  OBVIOUS
<1>2. a = Record(x, b.reader_index_, b.writer_index_)  BY Assigned
<1>. HIDE DEF a
<1>3. IsRecord(a) /\ a.buffer_ = x  BY <1>2, Members DEF IsRecord
<1>4. [a EXCEPT !.reader_index_ = y, !.writer_index_ = z] = Record(a.buffer_, y, z)
  BY <1>3, AssignedIndices
<1>. QED  BY <1>1, <1>3, <1>4

-----------------------------------------------------------------------------
(* Sequences of bytes.                                                      *)

\* resize() and the constructor fill with bytes.
LEMMA ZerosType ==
    ASSUME NEW n \in Nat
    PROVE  Zeros(n) \in Seq(Byte) /\ Len(Zeros(n)) = n
BY BaseAssumption DEF Zeros, Byte

\* Copied() keeps the length.
LEMMA CopiedType ==
    ASSUME NEW bytes \in Seq(Byte), NEW to \in Int, NEW data \in Seq(Byte)
    PROVE  Copied(bytes, to, data) \in Seq(Byte) /\ Len(Copied(bytes, to, data)) = Len(bytes)
<1>1. \A i \in 1..Len(bytes) :
          (IF i \in (to + 1)..(to + Len(data)) THEN data[i - to] ELSE bytes[i]) \in Byte
  <2>. SUFFICES ASSUME NEW i \in 1..Len(bytes)
                PROVE  (IF i \in (to + 1)..(to + Len(data)) THEN data[i - to]
                        ELSE bytes[i]) \in Byte
    OBVIOUS
  <2>1. i \in (to + 1)..(to + Len(data)) => i - to \in 1..Len(data)  OBVIOUS
  <2>. QED  BY <2>1
<1>. QED  BY <1>1 DEF Copied

\* The content is a sequence of bytes as long as there are to read.
LEMMA ContentType ==
    ASSUME NEW b, Sound(b)
    PROVE  /\ Content(b) \in Seq(Byte)
           /\ Len(Content(b)) = ReadableBytes(b)
           /\ ReadableBytes(b) \in Nat
BY DEF Content, ReadableBytes, Sound

\* An integer in network order is a sequence of bytes.
LEMMA HostToNetworkType ==
    ASSUME NEW num \in Int, NEW size \in Nat
    PROVE  HostToNetwork(num, size) \in Seq(Byte)
<1>1. \A i \in 1..size : Base^(size - i) \in Int  BY BaseAssumption
<1>2. \A i \in 1..size : ((num \div Base^(size - i)) % Base) \in Byte
  BY <1>1, BaseAssumption DEF Byte
<1>. QED  BY <1>2 DEF HostToNetwork

\* The smaller of two sizes.
LEMMA LeastType ==
    ASSUME NEW m \in Nat, NEW n \in Nat
    PROVE  Least(m, n) \in Nat /\ Least(m, n) <= m /\ Least(m, n) <= n
BY DEF Least

-----------------------------------------------------------------------------
(* The methods.                                                             *)

\* After EnsureWritableBytes(len) there is room for len bytes, and the content is as
\* long as it was.
LEMMA EnsureSound ==
    ASSUME NEW b, Sound(b), NEW len \in Nat
    PROVE  LET c == EnsureWritableBytes(b, len)
           IN  /\ Sound(c)
               /\ ReadableBytes(c) = ReadableBytes(b)
               /\ c.writer_index_ + len <= Len(c.buffer_)
               /\ Len(c.buffer_) > Len(b.buffer_) =>
                      Len(c.buffer_) < 2 * (ReadableBytes(b) + len) + cheap_prepend_
<1>. DEFINE c == EnsureWritableBytes(b, len)
<1>1. CASE WritableBytes(b) >= len
  BY <1>1 DEF EnsureWritableBytes, WritableBytes, Sound
<1>2. CASE WritableBytes(b) < len
  <2>0. c = MakeSpace(b, len)  BY <1>2 DEF EnsureWritableBytes, WritableBytes, Sound
  <2>1. CASE WritableBytes(b) + PrependableBytes(b) < len + cheap_prepend_
    <3>. DEFINE more == b.writer_index_ + len - Len(b.buffer_)
    <3>1. more \in Nat  BY <1>2 DEF WritableBytes, Sound
    <3>2. c = [b EXCEPT !.buffer_ = @ \o Zeros(more)]  BY <2>0, <2>1 DEF MakeSpace
    <3>. DEFINE bytes == b.buffer_ \o Zeros(more)
                size == Len(b.buffer_)
    <3>3. Zeros(more) \in Seq(Byte) /\ Len(Zeros(more)) = more  BY <3>1, ZerosType
    <3>4. /\ b.buffer_ \in Seq(Byte) /\ size \in Nat /\ cheap_prepend_ <= size
          /\ b.reader_index_ \in Nat /\ b.writer_index_ \in Nat
          /\ b.reader_index_ <= b.writer_index_ /\ b.writer_index_ <= size
          /\ cheap_prepend_ \in Nat
      BY SizeAssumption DEF Sound
    <3>5. more = b.writer_index_ + len - size  OBVIOUS
    <3>6. size - b.writer_index_ + b.reader_index_ < len + cheap_prepend_
      BY <2>1 DEF WritableBytes, PrependableBytes
    <3>7. c = Record(bytes, b.reader_index_, b.writer_index_)  BY <3>2, Assigned DEF Sound
    <3>. HIDE DEF c, more
    <3>8. bytes \in Seq(Byte) /\ Len(bytes) = size + more
      BY <3>3, <3>4, ConcatProperties
    <3>. HIDE DEF bytes, size
    <3>9. /\ Len(bytes) = b.writer_index_ + len
          /\ Len(bytes) < 2 * (b.writer_index_ - b.reader_index_ + len) + cheap_prepend_
      <4>1. Len(bytes) = b.writer_index_ + len  BY <3>4, <3>5, <3>8
      <4>. DEFINE r == b.reader_index_  w == b.writer_index_
      <4>2. r \in Nat /\ w \in Nat /\ r <= w  BY <3>4
      <4>3. w <= size /\ size - w + r < len + cheap_prepend_  BY <3>4, <3>6
      <4>. HIDE DEF r, w
      <4>4. w + len < 2 * (w - r + len) + cheap_prepend_
        BY <3>4, <4>2, <4>3
      <4>. QED  BY <4>1, <4>4 DEF r, w
    <3>10. b.writer_index_ <= Len(bytes) /\ cheap_prepend_ <= Len(bytes)
      BY <3>1, <3>4, <3>8
    <3>11. Sound(c)  BY <3>4, <3>7, <3>8, <3>10, RecordSound
    <3>12. /\ c.buffer_ = bytes /\ c.reader_index_ = b.reader_index_
           /\ c.writer_index_ = b.writer_index_
      BY <3>7, Members
    <3>13. ReadableBytes(c) = ReadableBytes(b)  BY <3>12 DEF ReadableBytes
    <3>14. Len(c.buffer_) < 2 * (ReadableBytes(b) + len) + cheap_prepend_
      BY <3>9, <3>12 DEF ReadableBytes
    <3>15. c.writer_index_ + len <= Len(c.buffer_)  BY <3>4, <3>9, <3>12
    <3>. QED  BY <3>11, <3>13, <3>14, <3>15 DEF c
  <2>2. CASE ~(WritableBytes(b) + PrependableBytes(b) < len + cheap_prepend_)
    <3>. DEFINE moved == Copied(b.buffer_, cheap_prepend_, Content(b))
    <3>1. c = [b EXCEPT !.buffer_ = moved, !.reader_index_ = cheap_prepend_,
                        !.writer_index_ = cheap_prepend_ + ReadableBytes(b)]
      BY <2>0, <2>2 DEF MakeSpace
    <3>2. Content(b) \in Seq(Byte) /\ ReadableBytes(b) \in Nat  BY ContentType
    <3>3. cheap_prepend_ \in Nat  BY SizeAssumption
    <3>4. moved \in Seq(Byte) /\ Len(moved) = Len(b.buffer_)
      BY <3>2, <3>3, CopiedType DEF Sound
    <3>. HIDE DEF c, moved
    <3>5. c = Record(moved, cheap_prepend_, cheap_prepend_ + ReadableBytes(b))
      <4>1. IsRecord(b)  BY DEF Sound
      <4>2. \A x, y, z :
                [b EXCEPT !.buffer_ = x, !.reader_index_ = y, !.writer_index_ = z] = Record(x, y, z)
        BY <4>1, AssignedAll
      <4>. QED  BY <3>1, <4>2, Zenon
    <3>6. cheap_prepend_ + ReadableBytes(b) + len <= Len(b.buffer_)
      BY <2>2, <3>3 DEF WritableBytes, PrependableBytes, ReadableBytes, Sound
    <3>7. Sound(c)  BY <3>2, <3>3, <3>4, <3>5, <3>6, RecordSound DEF Sound
    <3>8. /\ c.buffer_ = moved /\ c.reader_index_ = cheap_prepend_
          /\ c.writer_index_ = cheap_prepend_ + ReadableBytes(b)
      BY <3>5, Members
    <3>9. ReadableBytes(c) = ReadableBytes(b)  BY <3>2, <3>3, <3>8 DEF ReadableBytes
    <3>. QED  BY <3>2, <3>3, <3>4, <3>6, <3>7, <3>8, <3>9 DEF c, Sound
  <2>. QED  BY <2>1, <2>2
<1>. QED  BY <1>1, <1>2 DEF WritableBytes, Sound

\* Bytes are copied behind the content, and the index moves over them.
LEMMA HasWrittenRecord ==
    ASSUME NEW b, IsRecord(b), NEW bytes, NEW len
    PROVE  HasWritten([b EXCEPT !.buffer_ = bytes], len)
               = Record(bytes, b.reader_index_, b.writer_index_ + len)
<1>. DEFINE copied == [b EXCEPT !.buffer_ = bytes]
<1>1. copied = Record(bytes, b.reader_index_, b.writer_index_)  BY Assigned
<1>2. HasWritten(copied, len) = [copied EXCEPT !.writer_index_ = @ + len]  BY DEF HasWritten
<1>. HIDE DEF copied
<1>3. IsRecord(copied) /\ copied.buffer_ = bytes
      /\ copied.reader_index_ = b.reader_index_ /\ copied.writer_index_ = b.writer_index_
  BY <1>1, Members DEF IsRecord
<1>4. [copied EXCEPT !.writer_index_ = copied.writer_index_ + len]
          = Record(copied.buffer_, copied.reader_index_, copied.writer_index_ + len)
  BY <1>3, Assigned
<1>5. HasWritten(copied, len) = Record(bytes, b.reader_index_, b.writer_index_ + len)
  BY <1>2, <1>3, <1>4
<1>. QED  BY <1>5 DEF copied

\* Append() leaves a sound buffer that is as long as it needs to be.
LEMMA AppendSound ==
    ASSUME NEW b, Sound(b), NEW data \in Seq(Byte)
    PROVE  /\ Sound(Append_(b, data)) /\ Grown(b, Append_(b, data))
           /\ ReadableBytes(Append_(b, data)) = ReadableBytes(b) + Len(data)
           /\ Len(Append_(b, data).buffer_) > Len(b.buffer_) =>
                  Len(Append_(b, data).buffer_)
                      < 2 * (ReadableBytes(b) + Len(data)) + cheap_prepend_
<1>. DEFINE room == EnsureWritableBytes(b, Len(data))
            after == Append_(b, data)
<1>1. /\ Sound(room) /\ ReadableBytes(room) = ReadableBytes(b)
      /\ room.writer_index_ + Len(data) <= Len(room.buffer_)
      /\ Len(room.buffer_) > Len(b.buffer_) =>
             Len(room.buffer_) < 2 * (ReadableBytes(b) + Len(data)) + cheap_prepend_
  BY EnsureSound
<1>. HIDE DEF room
<1>. DEFINE bytes == Copied(room.buffer_, room.writer_index_, data)
<1>2. /\ after.buffer_ = bytes
      /\ after.reader_index_ = room.reader_index_
      /\ after.writer_index_ = room.writer_index_ + Len(data)
      /\ bytes \in Seq(Byte) /\ Len(bytes) = Len(room.buffer_)
      /\ Sound(after)
  <2>1. bytes \in Seq(Byte) /\ Len(bytes) = Len(room.buffer_)
    BY <1>1, CopiedType DEF Sound
  <2>2. after = HasWritten([room EXCEPT !.buffer_ = bytes], Len(data))
    BY DEF Append_, room
  <2>. HIDE DEF after, bytes
  <2>3. after = Record(bytes, room.reader_index_, room.writer_index_ + Len(data))
    BY <1>1, <2>2, HasWrittenRecord DEF Sound
  <2>4. Sound(after)
    <3>1. /\ room.reader_index_ \in Nat /\ room.writer_index_ \in Nat /\ Len(data) \in Nat
          /\ room.reader_index_ <= room.writer_index_ /\ cheap_prepend_ <= Len(bytes)
      BY <1>1, <2>1 DEF Sound
    <3>2. /\ room.writer_index_ + Len(data) \in Nat
          /\ room.reader_index_ <= room.writer_index_ + Len(data)
          /\ room.writer_index_ + Len(data) <= Len(bytes)
      BY <1>1, <2>1, <3>1
    <3>. QED  BY <2>1, <2>3, <3>1, <3>2, RecordSound
  <2>. QED  BY <2>1, <2>3, <2>4, Members
<1>. HIDE DEF after, bytes
<1>3. after.buffer_ \in Seq(Byte) /\ Len(after.buffer_) = Len(room.buffer_)
  BY <1>2
<1>4. Sound(after)  BY <1>2
<1>5. ReadableBytes(after) = ReadableBytes(b) + Len(data)
  BY <1>1, <1>2 DEF ReadableBytes, Sound
<1>6. Grown(b, after)  BY <1>1, <1>3, <1>5 DEF Grown
<1>. QED  BY <1>1, <1>3, <1>4, <1>5, <1>6 DEF after

\* Retrieve() moves the reader index, or resets both, and keeps the vector.
LEMMA RetrieveSound ==
    ASSUME NEW b, Sound(b), NEW len \in Nat
    PROVE  /\ Sound(Retrieve(b, len)) /\ Sound(RetrieveAll(b))
           /\ Retrieve(b, len).buffer_ = b.buffer_ /\ RetrieveAll(b).buffer_ = b.buffer_
<1>1. Sound(RetrieveAll(b)) /\ RetrieveAll(b).buffer_ = b.buffer_
  <2>1. cheap_prepend_ \in Nat  BY SizeAssumption
  <2>2. RetrieveAll(b) = Record(b.buffer_, cheap_prepend_, cheap_prepend_)
    BY AssignedIndices DEF RetrieveAll, Sound
  <2>3. Sound(RetrieveAll(b))  BY <2>1, <2>2, RecordSound DEF Sound
  <2>. QED  BY <2>2, <2>3, Members
<1>2. CASE len < ReadableBytes(b)
  <2>1. Retrieve(b, len) = [b EXCEPT !.reader_index_ = @ + len]  BY <1>2 DEF Retrieve
  <2>2. Retrieve(b, len) = Record(b.buffer_, b.reader_index_ + len, b.writer_index_)
    BY <2>1, Assigned DEF Sound
  <2>3. Sound(Retrieve(b, len))
    BY <1>2, <2>2, RecordSound DEF ReadableBytes, Sound
  <2>. QED  BY <1>1, <2>2, <2>3, Members
<1>. QED  BY <1>1, <1>2 DEF Retrieve

\* RetrieveUntil() too, also for an end before the reader index.
LEMMA RetrieveUntilSound ==
    ASSUME NEW b, Sound(b), NEW end \in Int
    PROVE  Sound(RetrieveUntil(b, end)) /\ RetrieveUntil(b, end).buffer_ = b.buffer_
<1>. DEFINE rest == IF end >= b.writer_index_ THEN RetrieveAll(b) ELSE b
            n == (end - rest.reader_index_) % SizeRange
<1>1. Sound(rest) /\ rest.buffer_ = b.buffer_  BY RetrieveSound, 0 \in Nat
<1>2. n \in Nat
  <2>1. end - rest.reader_index_ \in Int  BY <1>1 DEF Sound
  <2>2. SizeRange \in Nat \ {0}  BY SizeAssumption
  <2>. HIDE DEF rest
  <2>. QED  BY <2>1, <2>2
<1>. HIDE DEF rest, n
<1>3. Sound(Retrieve(rest, n)) /\ Retrieve(rest, n).buffer_ = rest.buffer_
  BY <1>1, <1>2, RetrieveSound
<1>4. RetrieveUntil(b, end) = IF end <= b.reader_index_ THEN b ELSE Retrieve(rest, n)
  BY DEF RetrieveUntil, rest, n
<1>. QED  BY <1>1, <1>3, <1>4

\* Prepend() writes into the headroom.
LEMMA PrependSound ==
    ASSUME NEW b, Sound(b), NEW data \in Seq(Byte), Len(data) <= PrependableBytes(b)
    PROVE  Sound(Prepend(b, data)) /\ Len(Prepend(b, data).buffer_) = Len(b.buffer_)
<1>. DEFINE front == b.reader_index_ - Len(data)
            after == Prepend(b, data)
            bytes == Copied(b.buffer_, front, data)
<1>1. front \in Nat /\ front <= b.reader_index_  BY DEF PrependableBytes, Sound
<1>2. bytes \in Seq(Byte) /\ Len(bytes) = Len(b.buffer_)
  BY <1>1, CopiedType DEF Sound
<1>3. after = [b EXCEPT !.reader_index_ = front, !.buffer_ = bytes]  BY DEF Prepend
<1>. HIDE DEF front, after, bytes
<1>4. after = Record(bytes, front, b.writer_index_)  BY <1>3, AssignedReaderBuffer DEF Sound
<1>5. Sound(after)  BY <1>1, <1>2, <1>4, RecordSound DEF Sound
<1>. QED  BY <1>2, <1>4, <1>5, Members DEF after

\* What does not fit behind the content is appended.
LEMMA ReadFdSound ==
    ASSUME NEW b, Sound(b), NEW data \in Seq(Byte)
    PROVE  Sound(ReadFd(b, data)) /\ Grown(b, ReadFd(b, data))
<1>. DEFINE writable == WritableBytes(b)
            n == Least(writable, Len(data))
            first == SubSeq(data, 1, n)
            filled == [b EXCEPT !.buffer_ = Copied(@, b.writer_index_, first),
                                !.writer_index_ = @ + Len(first)]
            rest == SubSeq(data, writable + 1, Len(data))
<1>1. writable \in Nat /\ Len(data) \in Nat  BY DEF WritableBytes, Sound
<1>2. n \in Nat /\ n <= writable /\ n <= Len(data)  BY <1>1, LeastType
<1>3. ReadFd(b, data) = IF Len(data) <= writable THEN filled ELSE Append_(filled, rest)
  BY DEF ReadFd
<1>4. writable = Len(b.buffer_) - b.writer_index_  BY DEF WritableBytes
<1>. HIDE DEF writable, n
<1>5. first \in Seq(Byte) /\ Len(first) = n  BY <1>2
<1>6. rest \in Seq(Byte)  BY <1>1
<1>. DEFINE bytes == Copied(b.buffer_, b.writer_index_, first)
<1>7. filled = Record(bytes, b.reader_index_, b.writer_index_ + Len(first))
  BY AssignedBufferWriter DEF Sound
<1>. HIDE DEF first, filled, rest
<1>8. bytes \in Seq(Byte) /\ Len(bytes) = Len(b.buffer_)
  BY <1>5, CopiedType DEF Sound
<1>. HIDE DEF bytes
<1>9. Sound(filled) /\ Len(filled.buffer_) = Len(b.buffer_)
  <2>1. /\ b.reader_index_ \in Nat /\ b.writer_index_ \in Nat /\ Len(b.buffer_) \in Nat
        /\ b.reader_index_ <= b.writer_index_ /\ cheap_prepend_ <= Len(bytes)
    BY <1>8 DEF Sound
  <2>2. /\ b.writer_index_ + Len(first) \in Nat
        /\ b.reader_index_ <= b.writer_index_ + Len(first)
        /\ b.writer_index_ + Len(first) <= Len(bytes)
    BY <1>2, <1>4, <1>5, <1>8, <2>1
  <2>3. Sound(filled)  BY <1>7, <1>8, <2>1, <2>2, RecordSound
  <2>. QED  BY <1>7, <1>8, <2>3, Members
<1>10. CASE Len(data) <= writable
  BY <1>3, <1>9, <1>10 DEF Grown, Sound
<1>11. CASE ~(Len(data) <= writable)
  <2>1. Sound(Append_(filled, rest)) /\ Grown(filled, Append_(filled, rest))
    BY <1>6, <1>9, AppendSound
  <2>. QED  BY <1>3, <1>9, <1>11, <2>1 DEF Grown
<1>. QED  BY <1>10, <1>11

-----------------------------------------------------------------------------
(* What the methods do to the content.                                      *)

\* The room in front that is promised to a caller of Prepend().
Room(b) == Least(PrependableBytes(b), cheap_prepend_)

\* The content, byte by byte.
LEMMA ContentAt ==
    ASSUME NEW bytes \in Seq(Byte), NEW reader \in Nat, NEW writer \in Nat,
           reader <= writer, writer <= Len(bytes)
    PROVE  LET s == Content(Record(bytes, reader, writer))
           IN  /\ s \in Seq(Byte)
               /\ Len(s) = writer - reader
               /\ \A i \in 1..(writer - reader) : s[i] = bytes[reader + i]
<1>. DEFINE m == reader + 1
<1>1. m \in Int /\ writer \in Int /\ \A i \in m..writer : bytes[i] \in Byte
  OBVIOUS
<1>. HIDE DEF m
<1>2. /\ SubSeq(bytes, m, writer) \in Seq(Byte)
      /\ Len(SubSeq(bytes, m, writer)) = IF m <= writer THEN writer - m + 1 ELSE 0
      /\ \A i \in 1..(writer - m + 1) : SubSeq(bytes, m, writer)[i] = bytes[m + i - 1]
  BY <1>1, SubSeqProperties
<1>3. Content(Record(bytes, reader, writer)) = SubSeq(bytes, m, writer)
  <2>. DEFINE r == Record(bytes, reader, writer)
  <2>1. r.buffer_ = bytes /\ r.reader_index_ + 1 = m /\ r.writer_index_ = writer
    BY Members DEF m
  <2>. HIDE DEF r
  <2>2. Content(r) = SubSeq(r.buffer_, r.reader_index_ + 1, r.writer_index_)
    BY DEF Content
  <2>3. Content(r) = SubSeq(bytes, m, writer)
    BY <2>1, <2>2
  <2>. QED  BY <2>3 DEF r
<1>4. /\ (IF m <= writer THEN writer - m + 1 ELSE 0) = writer - reader
      /\ writer - m + 1 = writer - reader
      /\ \A i \in 1..(writer - reader) : m + i - 1 = reader + i
  BY DEF m
<1>. QED  BY <1>2, <1>3, <1>4

\* The same of a sound buffer.
LEMMA SoundAt ==
    ASSUME NEW b, Sound(b)
    PROVE  /\ b = Record(b.buffer_, b.reader_index_, b.writer_index_)
           /\ Len(Content(b)) = b.writer_index_ - b.reader_index_
           /\ Content(b) \in Seq(Byte)
           /\ \A i \in 1..(b.writer_index_ - b.reader_index_) :
                  Content(b)[i] = b.buffer_[b.reader_index_ + i]
<1>1. /\ b = Record(b.buffer_, b.reader_index_, b.writer_index_)
      /\ b.buffer_ \in Seq(Byte) /\ b.reader_index_ \in Nat /\ b.writer_index_ \in Nat
      /\ b.reader_index_ <= b.writer_index_ /\ b.writer_index_ <= Len(b.buffer_)
  BY DEF Sound, IsRecord
<1>2. \A x \in Seq(Byte), y \in Nat, z \in Nat :
          y <= z /\ z <= Len(x) =>
              /\ Len(Content(Record(x, y, z))) = z - y
              /\ Content(Record(x, y, z)) \in Seq(Byte)
              /\ \A i \in 1..(z - y) : Content(Record(x, y, z))[i] = x[y + i]
  BY ContentAt
<1>. DEFINE bb == b.buffer_  r == b.reader_index_  w == b.writer_index_
<1>3. b = Record(bb, r, w)  BY <1>1
<1>4. /\ Len(Content(Record(bb, r, w))) = w - r
      /\ Content(Record(bb, r, w)) \in Seq(Byte)
      /\ \A i \in 1..(w - r) : Content(Record(bb, r, w))[i] = bb[r + i]
  BY <1>1, <1>2
<1>. HIDE DEF bb, r, w
<1>5. /\ Len(Content(b)) = w - r /\ Content(b) \in Seq(Byte)
      /\ \A i \in 1..(w - r) : Content(b)[i] = bb[r + i]
  BY <1>3, <1>4
<1>. QED  BY <1>3, <1>5 DEF bb, r, w

\* Two vectors with the same bytes between the indices have the same content.
LEMMA SameContent ==
    ASSUME NEW x \in Seq(Byte), NEW y \in Nat, NEW z \in Nat, y <= z, z <= Len(x),
           NEW s \in Seq(Byte), Len(s) = z - y, \A i \in 1..(z - y) : s[i] = x[y + i]
    PROVE  Content(Record(x, y, z)) = s
<1>. DEFINE t == Content(Record(x, y, z))
<1>1. t \in Seq(Byte) /\ Len(t) = z - y /\ \A i \in 1..(z - y) : t[i] = x[y + i]
  BY ContentAt
<1>. HIDE DEF t
<1>2. Len(t) = Len(s) /\ \A i \in 1..Len(t) : t[i] = s[i]
  BY <1>1
<1>3. t = s  BY <1>1, <1>2, SeqEqual
<1>. QED  BY <1>3 DEF t

\* The bytes of a copy.
LEMMA CopiedAt ==
    ASSUME NEW bytes \in Seq(Byte), NEW to \in Nat, NEW data \in Seq(Byte),
           to + Len(data) <= Len(bytes)
    PROVE  /\ \A i \in 1..Len(data) : Copied(bytes, to, data)[to + i] = data[i]
           /\ \A i \in 1..Len(bytes) :
                  i <= to \/ i > to + Len(data) => Copied(bytes, to, data)[i] = bytes[i]
<1>1. \A i \in 1..Len(bytes) : Copied(bytes, to, data)[i] =
          IF i \in (to + 1)..(to + Len(data)) THEN data[i - to] ELSE bytes[i]
  BY DEF Copied
<1>. DEFINE c == Copied(bytes, to, data)
<1>. HIDE DEF c
<1>2. ASSUME NEW i \in 1..Len(data) PROVE c[to + i] = data[i]
  <2>1. to + i \in 1..Len(bytes) /\ to + i \in (to + 1)..(to + Len(data)) /\ (to + i) - to = i
    OBVIOUS
  <2>. QED  BY <1>1, <2>1 DEF c
<1>3. ASSUME NEW i \in 1..Len(bytes), i <= to \/ i > to + Len(data) PROVE c[i] = bytes[i]
  <2>1. ~(i \in (to + 1)..(to + Len(data)))  BY <1>3
  <2>. QED  BY <1>1, <2>1 DEF c
<1>. QED  BY <1>2, <1>3 DEF c

\* Bytes copied behind the content, and the index moved over them, are appended to it.
LEMMA Behind ==
    ASSUME NEW b, Sound(b), NEW data \in Seq(Byte),
           b.writer_index_ + Len(data) <= Len(b.buffer_)
    PROVE  Content(Record(Copied(b.buffer_, b.writer_index_, data),
                          b.reader_index_, b.writer_index_ + Len(data)))
               = Content(b) \o data
<1>. DEFINE bb == b.buffer_  r == b.reader_index_  w == b.writer_index_
            x == Copied(bb, w, data)
            s == Content(b)
            n == Len(data)
<1>1. bb \in Seq(Byte) /\ r \in Nat /\ w \in Nat /\ r <= w /\ w + n <= Len(bb) /\ n \in Nat
  BY DEF Sound
<1>2. s \in Seq(Byte) /\ Len(s) = w - r /\ \A i \in 1..(w - r) : s[i] = bb[r + i]
  BY SoundAt
<1>. HIDE DEF bb, r, w
<1>3. x \in Seq(Byte) /\ Len(x) = Len(bb)  BY <1>1, CopiedType
<1>4. /\ \A i \in 1..n : x[w + i] = data[i]
      /\ \A i \in 1..Len(bb) : i <= w => x[i] = bb[i]
  BY <1>1, CopiedAt
<1>. DEFINE t == s \o data
<1>. HIDE DEF s
<1>a. /\ t \in Seq(Byte) /\ Len(t) = Len(s) + Len(data)
      /\ \A i \in 1..(Len(s) + Len(data)) : t[i] = IF i <= Len(s) THEN s[i] ELSE data[i - Len(s)]
  BY <1>2, ConcatProperties
<1>. HIDE DEF x, n, t
<1>5. /\ t \in Seq(Byte) /\ Len(t) = w - r + n
      /\ \A i \in 1..(w - r + n) : t[i] = IF i <= w - r THEN s[i] ELSE data[i - (w - r)]
  BY <1>2, <1>a DEF n
<1>6. ASSUME NEW i \in 1..(w - r + n) PROVE t[i] = x[r + i]
  <2>1. CASE i <= w - r
    <3>1. i \in 1..(w - r) /\ r + i \in 1..Len(bb) /\ r + i <= w
      BY <1>1, <2>1
    <3>. QED  BY <1>2, <1>4, <1>5, <2>1, <3>1
  <2>2. CASE ~(i <= w - r)
    <3>. DEFINE j == i - (w - r)
    <3>1. j \in 1..n /\ w + j = r + i
      BY <1>1, <2>2
    <3>2. t[i] = data[j]  BY <1>5, <2>2
    <3>. HIDE DEF j
    <3>3. x[w + j] = data[j]  BY <1>4, <3>1
    <3>. QED  BY <3>1, <3>2, <3>3
  <2>. QED  BY <2>1, <2>2
<1>7. w + n \in Nat /\ r <= w + n /\ w + n <= Len(x) /\ (w + n) - r = w - r + n
  BY <1>1, <1>3
<1>8. t \in Seq(Byte) /\ Len(t) = (w + n) - r /\ \A i \in 1..((w + n) - r) : t[i] = x[r + i]
  BY <1>5, <1>6, <1>7
<1>9. Content(Record(x, r, w + n)) = t
  BY <1>1, <1>3, <1>7, <1>8, SameContent
<1>. QED  BY <1>9 DEF bb, r, w, x, s, n, t

\* EnsureWritableBytes() moves the content and leaves it as it is, and the room in front
\* is still what is promised.
LEMMA EnsureContent ==
    ASSUME NEW b, Sound(b), NEW len \in Nat
    PROVE  /\ Content(EnsureWritableBytes(b, len)) = Content(b)
           /\ Room(EnsureWritableBytes(b, len)) = Room(b)
<1>. DEFINE c == EnsureWritableBytes(b, len)
            bb == b.buffer_  r == b.reader_index_  w == b.writer_index_
            s == Content(b)
<1>0. cheap_prepend_ \in Nat  BY SizeAssumption
<1>1. bb \in Seq(Byte) /\ Len(bb) \in Nat /\ r \in Nat /\ w \in Nat /\ r <= w /\ w <= Len(bb)
  BY DEF Sound
<1>2. s \in Seq(Byte) /\ Len(s) = w - r /\ \A i \in 1..(w - r) : s[i] = bb[r + i]
  BY SoundAt
<1>3. CASE ~(WritableBytes(b) < len)
  BY <1>3 DEF EnsureWritableBytes
<1>4. CASE WritableBytes(b) < len /\ WritableBytes(b) + PrependableBytes(b) < len + cheap_prepend_
  <2>. DEFINE more == w + len - Len(bb)
              x == bb \o Zeros(more)
  <2>1. more \in Nat  BY <1>1, <1>4 DEF WritableBytes
  <2>2. c = [b EXCEPT !.buffer_ = x]  BY <1>4 DEF EnsureWritableBytes, MakeSpace
  <2>. HIDE DEF more
  <2>3. Zeros(more) \in Seq(Byte) /\ Len(Zeros(more)) = more  BY <2>1, ZerosType
  <2>. HIDE DEF bb
  <2>. DEFINE zs == Zeros(more)
  <2>a. /\ x \in Seq(Byte) /\ Len(x) = Len(bb) + Len(zs)
        /\ \A i \in 1..(Len(bb) + Len(zs)) :
               x[i] = IF i <= Len(bb) THEN bb[i] ELSE zs[i - Len(bb)]
    <3>. HIDE DEF zs
    <3>. QED  BY <1>1, <2>3, ConcatProperties DEF zs
  <2>. HIDE DEF zs, x
  <2>4. /\ x \in Seq(Byte) /\ Len(x) = Len(bb) + more
        /\ \A i \in 1..Len(bb) : x[i] = bb[i]
    BY <1>1, <2>1, <2>3, <2>a DEF zs
  <2>. HIDE DEF c, x
  <2>5. c = Record(x, r, w)  BY <2>2, Assigned DEF Sound
  <2>. HIDE DEF r, w, s
  <2>6. w <= Len(x) /\ \A i \in 1..(w - r) : r + i \in 1..Len(bb)  BY <1>1, <2>1, <2>4
  <2>7. Content(Record(x, r, w)) = s
    BY <1>1, <1>2, <2>4, <2>6, SameContent
  <2>8. c.reader_index_ = r  BY <2>5, Members
  <2>. QED  BY <2>5, <2>7, <2>8 DEF c, s, r, Room, PrependableBytes
<1>5. CASE /\ WritableBytes(b) < len
           /\ ~(WritableBytes(b) + PrependableBytes(b) < len + cheap_prepend_)
  <2>. DEFINE x == Copied(bb, cheap_prepend_, s)
  <2>1. c = [b EXCEPT !.buffer_ = x, !.reader_index_ = cheap_prepend_,
                      !.writer_index_ = cheap_prepend_ + (w - r)]
    BY <1>5 DEF EnsureWritableBytes, MakeSpace, ReadableBytes
  <2>a. Len(bb) - w < len /\ Len(bb) - w + r >= len + cheap_prepend_
    BY <1>0, <1>1, <1>5 DEF WritableBytes, PrependableBytes
  <2>. HIDE DEF c, s, bb, r, w
  <2>2. cheap_prepend_ < r /\ w - r \in Nat
    BY <1>0, <1>1, <2>a
  <2>3. cheap_prepend_ + Len(s) <= Len(bb)  BY <1>0, <1>1, <1>2, <2>2
  <2>b. x \in Seq(Byte) /\ Len(x) = Len(bb)
    BY <1>0, <1>1, <1>2, CopiedType
  <2>c. \A i \in 1..Len(s) : x[cheap_prepend_ + i] = s[i]
    BY <1>0, <1>1, <1>2, <2>3, CopiedAt
  <2>4. /\ x \in Seq(Byte) /\ Len(x) = Len(bb)
        /\ \A i \in 1..Len(s) : x[cheap_prepend_ + i] = s[i]
    BY <2>b, <2>c
  <2>. HIDE DEF x
  <2>5. c = Record(x, cheap_prepend_, cheap_prepend_ + (w - r))
    <3>1. IsRecord(b)  BY DEF Sound
    <3>2. \A u, y, z :
              [b EXCEPT !.buffer_ = u, !.reader_index_ = y, !.writer_index_ = z] = Record(u, y, z)
      BY <3>1, AssignedAll, Zenon
    <3>. QED  BY <2>1, <3>2, Zenon
  <2>. DEFINE z == cheap_prepend_ + (w - r)
  <2>6. z \in Nat /\ cheap_prepend_ <= z /\ z <= Len(x) /\ z - cheap_prepend_ = Len(s)
    BY <1>0, <1>2, <2>2, <2>3, <2>4
  <2>. HIDE DEF z
  <2>d. \A i \in 1..(z - cheap_prepend_) : s[i] = x[cheap_prepend_ + i]  BY <2>4, <2>6
  <2>7. Content(Record(x, cheap_prepend_, z)) = s
    BY <1>0, <1>2, <2>4, <2>6, <2>d, SameContent
  <2>8. c.reader_index_ = cheap_prepend_  BY <2>5, Members
  <2>9. Room(c) = Room(b)
    BY <1>0, <1>1, <2>2, <2>8 DEF Room, PrependableBytes, Least, r
  <2>. QED  BY <2>5, <2>7, <2>9 DEF c, s, z
<1>. QED  BY <1>3, <1>4, <1>5 DEF c

\* Append() puts data behind the content.
LEMMA AppendContent ==
    ASSUME NEW b, Sound(b), NEW data \in Seq(Byte)
    PROVE  /\ Content(Append_(b, data)) = Content(b) \o data
           /\ Room(Append_(b, data)) = Room(b)
<1>. DEFINE c == EnsureWritableBytes(b, Len(data))
            x == Copied(c.buffer_, c.writer_index_, data)
            after == Append_(b, data)
<1>0. Len(data) \in Nat  OBVIOUS
<1>1. Sound(c) /\ c.writer_index_ + Len(data) <= Len(c.buffer_)
  BY <1>0, EnsureSound
<1>2. Content(c) = Content(b) /\ Room(c) = Room(b)  BY <1>0, EnsureContent
<1>3. after = HasWritten([c EXCEPT !.buffer_ = x], Len(data))
  BY DEF Append_
<1>. HIDE DEF c, x, after
<1>4. after = Record(x, c.reader_index_, c.writer_index_ + Len(data))
  BY <1>1, <1>3, HasWrittenRecord DEF Sound
<1>5. Content(after) = Content(c) \o data  BY <1>1, <1>4, Behind DEF x
<1>6. Room(after) = Room(c)  BY <1>4, Members DEF Room, PrependableBytes
<1>. QED  BY <1>2, <1>5, <1>6 DEF after

\* RetrieveAll() sets both indices to the headroom.
LEMMA RetrieveAllRecord ==
    ASSUME NEW b, IsRecord(b)
    PROVE  RetrieveAll(b) = Record(b.buffer_, cheap_prepend_, cheap_prepend_)
<1>1. \A y, z : [b EXCEPT !.reader_index_ = y, !.writer_index_ = z] = Record(b.buffer_, y, z)
  BY AssignedIndices, Zenon
<1>. QED  BY <1>1, Zenon DEF RetrieveAll

\* After RetrieveAll() there is no content, and all of the headroom.
LEMMA RetrieveAllContent ==
    ASSUME NEW b, Sound(b)
    PROVE  Content(RetrieveAll(b)) = <<>> /\ Room(RetrieveAll(b)) = cheap_prepend_
<1>. DEFINE c == RetrieveAll(b)
<1>1. cheap_prepend_ \in Nat  BY SizeAssumption
<1>2. c = Record(b.buffer_, cheap_prepend_, cheap_prepend_)
  BY RetrieveAllRecord DEF Sound
<1>. HIDE DEF c
<1>3. c.reader_index_ = cheap_prepend_ /\ c.writer_index_ = cheap_prepend_
  BY <1>2, Members
<1>4. Content(c) = <<>>
  BY <1>1, <1>3, SubSeqEmpty, cheap_prepend_ < cheap_prepend_ + 1 DEF Content
<1>5. Room(c) = cheap_prepend_  BY <1>1, <1>3 DEF Room, PrependableBytes, Least
<1>. QED  BY <1>4, <1>5 DEF c

\* Retrieve() takes bytes from the front; the room they leave is promised up to the
\* headroom.
LEMMA RetrieveContent ==
    ASSUME NEW b, Sound(b), NEW n \in Nat
    PROVE  /\ Content(Retrieve(b, n)) = SubSeq(Content(b), n + 1, Len(Content(b)))
           /\ Room(Retrieve(b, n)) = IF n < Len(Content(b)) THEN Least(Room(b) + n, cheap_prepend_)
                                     ELSE cheap_prepend_
<1>. DEFINE bb == b.buffer_  r == b.reader_index_  w == b.writer_index_
            s == Content(b)
            c == Retrieve(b, n)
<1>0. cheap_prepend_ \in Nat  BY SizeAssumption
<1>1. bb \in Seq(Byte) /\ Len(bb) \in Nat /\ r \in Nat /\ w \in Nat /\ r <= w /\ w <= Len(bb)
  BY DEF Sound
<1>2. s \in Seq(Byte) /\ Len(s) = w - r /\ \A i \in 1..(w - r) : s[i] = bb[r + i]
  BY SoundAt
<1>3. CASE ~(n < w - r)
  <2>1. c = RetrieveAll(b)  BY <1>3 DEF Retrieve, ReadableBytes
  <2>2. Content(c) = <<>> /\ Room(c) = cheap_prepend_  BY <2>1, RetrieveAllContent
  <2>. HIDE DEF s, r, w, c
  <2>3. n + 1 \in Int /\ Len(s) \in Int /\ Len(s) < n + 1 /\ ~(n < Len(s))
    BY <1>1, <1>2, <1>3
  <2>4. SubSeq(s, n + 1, Len(s)) = <<>>  BY <2>3, SubSeqEmpty
  <2>. QED  BY <2>2, <2>3, <2>4 DEF s, c
<1>4. CASE n < w - r
  <2>1. c = [b EXCEPT !.reader_index_ = @ + n]  BY <1>4 DEF Retrieve, ReadableBytes
  <2>. HIDE DEF c
  <2>2. c = Record(bb, r + n, w)  BY <2>1, Assigned DEF Sound
  <2>3. c.reader_index_ = r + n  BY <2>2, Members
  <2>. DEFINE t == SubSeq(s, n + 1, Len(s))
              m == r + n
  <2>. HIDE DEF bb, r, w, s
  <2>4. \A i \in (n + 1)..Len(s) : s[i] \in Byte  BY <1>2
  <2>5. /\ t \in Seq(Byte)
        /\ Len(t) = IF n + 1 <= Len(s) THEN Len(s) - (n + 1) + 1 ELSE 0
        /\ \A i \in 1..(Len(s) - (n + 1) + 1) : t[i] = s[(n + 1) + i - 1]
    BY <1>1, <1>2, <2>4, SubSeqProperties
  <2>. HIDE DEF t
  <2>6. m \in Nat /\ m <= w /\ w <= Len(bb) /\ w - m = w - r - n  BY <1>1, <1>4 DEF m
  <2>7. Len(t) = w - m  BY <1>1, <1>2, <1>4, <2>5, <2>6
  <2>8. ASSUME NEW i \in 1..(w - m) PROVE t[i] = bb[m + i]
    <3>1. i \in 1..(Len(s) - (n + 1) + 1) /\ (n + 1) + i - 1 = n + i /\ n + i \in 1..(w - r)
          /\ r + (n + i) = m + i
      BY <1>1, <1>2, <1>4, <2>6 DEF m
    <3>. QED  BY <1>2, <2>5, <3>1
  <2>. HIDE DEF m
  <2>9. Content(Record(bb, m, w)) = t  BY <1>1, <2>5, <2>6, <2>7, <2>8, SameContent
  <2>10. n < Len(s)  BY <1>2, <1>4
  <2>11. Room(c) = Least(Room(b) + n, cheap_prepend_)
    BY <1>0, <1>1, <2>3 DEF Room, PrependableBytes, Least, r
  <2>. QED  BY <2>2, <2>9, <2>10, <2>11 DEF c, s, t, m
<1>. QED  BY <1>3, <1>4 DEF Retrieve, ReadableBytes

\* RetrieveUntil() takes the bytes before end, as long as a size_t holds their number;
\* what it computes from an end behind the content does not matter.
LEMMA RetrieveUntilContent ==
    ASSUME NEW b, Sound(b), NEW n \in Int, ReadableBytes(b) < SizeRange
    PROVE  RetrieveUntil(b, b.reader_index_ + n) =
               IF n > 0 THEN Retrieve(b, n) ELSE b
<1>. DEFINE r == b.reader_index_  w == b.writer_index_  end == r + n
            rest == IF end >= w THEN RetrieveAll(b) ELSE b
<1>0. SizeRange \in Nat  BY SizeAssumption
<1>1. r \in Nat /\ w \in Nat /\ r <= w  BY DEF Sound
<1>2. w - r < SizeRange  BY DEF ReadableBytes
<1>3. CASE n <= 0
  BY <1>1, <1>3 DEF RetrieveUntil
<1>4. CASE n > 0 /\ end < w
  <2>. HIDE DEF r, w
  <2>1. (end - r) % SizeRange = n
    <3>1. end - r = n /\ 0 <= n /\ n < SizeRange  BY <1>0, <1>1, <1>2, <1>4
    <3>. QED  BY <1>0, <3>1
  <2>2. rest = b  BY <1>1, <1>4
  <2>3. RetrieveUntil(b, end) = Retrieve(b, (end - r) % SizeRange)
    BY <1>1, <1>4, <2>2 DEF RetrieveUntil, r, w
  <2>. QED  BY <1>4, <2>1, <2>3 DEF r
<1>5. CASE n > 0 /\ end >= w
  <2>. DEFINE gap == (end - rest.reader_index_) % SizeRange
              none == RetrieveAll(b)
  <2>1. rest = none  BY <1>5
  <2>2. none = Record(b.buffer_, cheap_prepend_, cheap_prepend_)
    BY RetrieveAllRecord DEF Sound
  <2>3. end - cheap_prepend_ \in Int /\ SizeRange \in Nat \ {0} /\ cheap_prepend_ \in Nat
    BY <1>1, SizeAssumption
  <2>4. RetrieveUntil(b, end) = Retrieve(rest, gap)
    BY <1>1, <1>5 DEF RetrieveUntil
  <2>. HIDE DEF rest, none, end
  <2>5. none.reader_index_ = cheap_prepend_ /\ none.writer_index_ = cheap_prepend_
    BY <2>2, Members
  <2>6. gap \in Nat  BY <2>1, <2>3, <2>5
  <2>. HIDE DEF gap
  <2>7. Retrieve(none, gap) = RetrieveAll(none)
    BY <2>3, <2>5, <2>6 DEF Retrieve, ReadableBytes
  <2>8. RetrieveAll(none) = none
    <3>1. IsRecord(none)  BY <2>2, <2>5, Members DEF IsRecord
    <3>2. RetrieveAll(none) = Record(none.buffer_, cheap_prepend_, cheap_prepend_)
      BY <3>1, RetrieveAllRecord
    <3>3. none.buffer_ = b.buffer_  BY <2>2, Members
    <3>. QED  BY <2>2, <3>2, <3>3
  <2>9. Retrieve(b, n) = RetrieveAll(b)
    BY <1>1, <1>5 DEF Retrieve, ReadableBytes, end
  <2>. QED  BY <1>5, <2>1, <2>4, <2>7, <2>8, <2>9 DEF none, end
<1>. QED  BY <1>1, <1>3, <1>4, <1>5

\* Prepend() puts data before the content, into the room there is.
LEMMA PrependContent ==
    ASSUME NEW b, Sound(b), NEW data \in Seq(Byte), Len(data) <= PrependableBytes(b)
    PROVE  /\ Content(Prepend(b, data)) = data \o Content(b)
           /\ PrependableBytes(Prepend(b, data)) = PrependableBytes(b) - Len(data)
<1>. DEFINE bb == b.buffer_  r == b.reader_index_  w == b.writer_index_
            n == Len(data)
            front == r - n
            x == Copied(bb, front, data)
            s == Content(b)
            t == data \o s
            c == Prepend(b, data)
<1>1. bb \in Seq(Byte) /\ Len(bb) \in Nat /\ r \in Nat /\ w \in Nat /\ r <= w /\ w <= Len(bb)
      /\ n \in Nat /\ n <= r
  BY DEF Sound, PrependableBytes
<1>2. s \in Seq(Byte) /\ Len(s) = w - r /\ \A i \in 1..(w - r) : s[i] = bb[r + i]
  BY SoundAt
<1>3. c = [b EXCEPT !.reader_index_ = front, !.buffer_ = x]  BY DEF Prepend
<1>. HIDE DEF bb, r, w, s, c
<1>4. front \in Nat /\ front + n = r /\ front + n <= Len(bb)  BY <1>1
<1>. HIDE DEF front
<1>5. x \in Seq(Byte) /\ Len(x) = Len(bb)  BY <1>1, <1>4, CopiedType
<1>6. /\ \A i \in 1..n : x[front + i] = data[i]
      /\ \A i \in 1..Len(bb) : i > front + n => x[i] = bb[i]
  BY <1>1, <1>4, CopiedAt
<1>. HIDE DEF x
<1>7. c = Record(x, front, w)
  <2>1. IsRecord(b)  BY DEF Sound
  <2>2. \A u, y : [b EXCEPT !.reader_index_ = y, !.buffer_ = u] = Record(u, y, b.writer_index_)
    BY <2>1, AssignedReaderBuffer, Zenon
  <2>. QED  BY <1>3, <2>2, Zenon DEF w
<1>8. /\ t \in Seq(Byte) /\ Len(t) = Len(data) + Len(s)
      /\ \A i \in 1..(Len(data) + Len(s)) :
             t[i] = IF i <= Len(data) THEN data[i] ELSE s[i - Len(data)]
  BY <1>2, ConcatProperties
<1>. HIDE DEF n, t
<1>9. /\ Len(t) = w - front
      /\ \A i \in 1..(w - front) : t[i] = IF i <= n THEN data[i] ELSE s[i - n]
  <2>1. Len(data) = n  BY DEF n
  <2>2. n + Len(s) = w - front  BY <1>1, <1>2, <1>4
  <2>. QED  BY <1>8, <2>1, <2>2
<1>10. ASSUME NEW i \in 1..(w - front) PROVE t[i] = x[front + i]
  <2>1. CASE i <= n
    <3>1. i \in 1..n  BY <1>1, <1>4, <2>1
    <3>. QED  BY <1>6, <1>9, <2>1, <3>1
  <2>2. CASE ~(i <= n)
    <3>. DEFINE j == i - n
    <3>1. j \in 1..(w - r) /\ r + j = front + i /\ r + j \in 1..Len(bb) /\ r + j > front + n
      BY <1>1, <1>4, <2>2
    <3>2. t[i] = s[j]  BY <1>9, <2>2
    <3>. HIDE DEF j
    <3>3. s[j] = bb[r + j] /\ x[r + j] = bb[r + j]  BY <1>2, <1>6, <3>1
    <3>. QED  BY <3>1, <3>2, <3>3
  <2>. QED  BY <2>1, <2>2
<1>11. front <= w /\ w <= Len(x)  BY <1>1, <1>4, <1>5
<1>12. Content(Record(x, front, w)) = t
  BY <1>1, <1>4, <1>5, <1>8, <1>9, <1>10, <1>11, SameContent
<1>13. c.reader_index_ = front  BY <1>7, Members
<1>. QED  BY <1>7, <1>12, <1>13 DEF c, t, s, front, n, r, PrependableBytes

\* A sequence is its first m elements and the others.
LEMMA SplitWhole ==
    ASSUME NEW data \in Seq(Byte), NEW m \in 0..Len(data)
    PROVE  SubSeq(data, 1, m) \o SubSeq(data, m + 1, Len(data)) = data
<1>. DEFINE u == SubSeq(data, 1, m)  v == SubSeq(data, m + 1, Len(data))  t == u \o v
            n == Len(data)
<1>1. n \in Nat /\ m \in Nat /\ m <= n  OBVIOUS
<1>2. u \in Seq(Byte) /\ Len(u) = m /\ \A i \in 1..m : u[i] = data[i]
  OBVIOUS
<1>3. \A i \in (m + 1)..n : data[i] \in Byte  OBVIOUS
<1>4. /\ v \in Seq(Byte)
      /\ Len(v) = IF m + 1 <= n THEN n - (m + 1) + 1 ELSE 0
      /\ \A i \in 1..(n - (m + 1) + 1) : v[i] = data[(m + 1) + i - 1]
  BY <1>1, <1>3, SubSeqProperties
<1>. HIDE DEF u, v
<1>5. /\ t \in Seq(Byte) /\ Len(t) = Len(u) + Len(v)
      /\ \A i \in 1..(Len(u) + Len(v)) : t[i] = IF i <= Len(u) THEN u[i] ELSE v[i - Len(u)]
  BY <1>2, <1>4, ConcatProperties
<1>. HIDE DEF t, n
<1>6. Len(v) = n - m /\ Len(t) = n  BY <1>1, <1>2, <1>4, <1>5
<1>7. ASSUME NEW i \in 1..n PROVE t[i] = data[i]
  <2>1. t[i] = IF i <= m THEN u[i] ELSE v[i - m]  BY <1>1, <1>2, <1>5, <1>6
  <2>2. CASE i <= m  BY <1>1, <1>2, <2>1, <2>2
  <2>3. CASE ~(i <= m)
    <3>1. i - m \in 1..(n - (m + 1) + 1) /\ (m + 1) + (i - m) - 1 = i  BY <1>1, <2>3
    <3>. QED  BY <1>4, <2>1, <2>3, <3>1
  <2>. QED  BY <2>2, <2>3
<1>8. t = data  BY <1>5, <1>6, <1>7, SeqEqual DEF n
<1>. QED  BY <1>8 DEF t, u, v

\* ReadFd() appends all that arrived, in either way.
LEMMA ReadFdContent ==
    ASSUME NEW b, Sound(b), NEW data \in Seq(Byte)
    PROVE  Content(ReadFd(b, data)) = Content(b) \o data /\ Room(ReadFd(b, data)) = Room(b)
<1>. DEFINE writable == WritableBytes(b)
            n == Least(writable, Len(data))
            first == SubSeq(data, 1, n)
            filled == [b EXCEPT !.buffer_ = Copied(@, b.writer_index_, first),
                                !.writer_index_ = @ + Len(first)]
            rest == SubSeq(data, writable + 1, Len(data))
<1>1. writable \in Nat /\ Len(data) \in Nat  BY DEF WritableBytes, Sound
<1>2. n \in Nat /\ n <= writable /\ n <= Len(data)  BY <1>1, LeastType
<1>3. ReadFd(b, data) = IF Len(data) <= writable THEN filled ELSE Append_(filled, rest)
  BY DEF ReadFd
<1>4. writable = Len(b.buffer_) - b.writer_index_  BY DEF WritableBytes
<1>a. n = IF Len(data) <= writable THEN Len(data) ELSE writable
  BY <1>1 DEF Least
<1>. HIDE DEF writable, n
<1>5. first \in Seq(Byte) /\ Len(first) = n  BY <1>2
<1>. DEFINE bytes == Copied(b.buffer_, b.writer_index_, first)
<1>6. filled = Record(bytes, b.reader_index_, b.writer_index_ + Len(first))
  <2>1. IsRecord(b)  BY DEF Sound
  <2>2. \A u, z : [b EXCEPT !.buffer_ = u, !.writer_index_ = z] = Record(u, b.reader_index_, z)
    BY <2>1, AssignedBufferWriter, Zenon
  <2>. QED  BY <2>2, Zenon
<1>7. rest \in Seq(Byte)  BY <1>1
<1>8. Len(data) <= writable => first = data
  BY <1>1, <1>a, SubSeqFull
<1>9. ~(Len(data) <= writable) => first \o rest = data
  <2>. SUFFICES ASSUME ~(Len(data) <= writable) PROVE first \o rest = data
    OBVIOUS
  <2>1. writable \in 0..Len(data) /\ n = writable  BY <1>1, <1>a
  <2>. QED  BY <2>1, SplitWhole
<1>. HIDE DEF first, filled, rest
<1>10. b.writer_index_ \in Nat /\ Len(b.buffer_) \in Nat /\ b.reader_index_ \in Nat
       /\ b.reader_index_ <= b.writer_index_ /\ b.buffer_ \in Seq(Byte)
       /\ cheap_prepend_ <= Len(b.buffer_)
  BY DEF Sound
<1>11. b.writer_index_ + Len(first) <= Len(b.buffer_)
  <2>1. Len(first) = n /\ n <= Len(b.buffer_) - b.writer_index_  BY <1>2, <1>4, <1>5
  <2>. QED  BY <1>2, <1>10, <2>1
<1>12. bytes \in Seq(Byte) /\ Len(bytes) = Len(b.buffer_)
  BY <1>5, <1>10, CopiedType
<1>13. Content(filled) = Content(b) \o first  BY <1>5, <1>6, <1>11, Behind
<1>. HIDE DEF bytes
<1>14. Sound(filled)
  <2>1. /\ b.writer_index_ + Len(first) \in Nat
        /\ b.reader_index_ <= b.writer_index_ + Len(first)
        /\ b.writer_index_ + Len(first) <= Len(bytes)
    BY <1>2, <1>5, <1>10, <1>11, <1>12
  <2>. QED  BY <1>6, <1>10, <1>12, <2>1, RecordSound
<1>15. Room(filled) = Room(b)  BY <1>6, Members DEF Room, PrependableBytes
<1>16. CASE Len(data) <= writable
  BY <1>3, <1>8, <1>13, <1>15, <1>16
<1>17. CASE ~(Len(data) <= writable)
  <2>1. Content(Append_(filled, rest)) = Content(filled) \o rest
        /\ Room(Append_(filled, rest)) = Room(filled)
    BY <1>7, <1>14, AppendContent
  <2>2. Content(b) \in Seq(Byte)  BY ContentType
  <2>3. (Content(b) \o first) \o rest = Content(b) \o (first \o rest)
    <3>. DEFINE c == Content(b)
    <3>1. c \in Seq(Byte) /\ first \in Seq(Byte) /\ rest \in Seq(Byte)
      BY <1>5, <1>7, <2>2
    <3>. HIDE DEF c
    <3>2. (c \o first) \o rest = c \o (first \o rest)
      BY <3>1, ConcatAssociative
    <3>. QED  BY <3>2 DEF c
  <2>. QED  BY <1>3, <1>9, <1>13, <1>15, <1>17, <2>1, <2>3
<1>. QED  BY <1>16, <1>17

\* Unwrite() takes bytes from the end.
LEMMA UnwriteContent ==
    ASSUME NEW b, Sound(b), NEW n \in Nat, n <= ReadableBytes(b)
    PROVE  /\ Content([b EXCEPT !.writer_index_ = @ - n])
                  = SubSeq(Content(b), 1, Len(Content(b)) - n)
           /\ Room([b EXCEPT !.writer_index_ = @ - n]) = Room(b)
<1>. DEFINE bb == b.buffer_  r == b.reader_index_  w == b.writer_index_
            s == Content(b)
            c == [b EXCEPT !.writer_index_ = @ - n]
            m == w - n
            t == SubSeq(s, 1, Len(s) - n)
<1>1. bb \in Seq(Byte) /\ Len(bb) \in Nat /\ r \in Nat /\ w \in Nat /\ r <= w /\ w <= Len(bb)
      /\ n <= w - r
  BY DEF Sound, ReadableBytes
<1>2. s \in Seq(Byte) /\ Len(s) = w - r /\ \A i \in 1..(w - r) : s[i] = bb[r + i]
  BY SoundAt
<1>3. c = Record(bb, r, m)  BY Assigned DEF Sound
<1>4. c.reader_index_ = r
  <2>. HIDE DEF c
  <2>. QED  BY <1>3, Members
<1>. HIDE DEF bb, r, w, s, c
<1>5. m \in Nat /\ r <= m /\ m <= Len(bb) /\ Len(s) - n = m - r /\ Len(s) - n \in Int
  BY <1>1, <1>2
<1>6. \A i \in 1..(Len(s) - n) : s[i] \in Byte
  <2>. SUFFICES ASSUME NEW i \in 1..(Len(s) - n) PROVE s[i] \in Byte
    OBVIOUS
  <2>1. i \in 1..Len(s)  BY <1>1, <1>2, <1>5
  <2>. QED  BY <1>2, <2>1, ElementOfSeq
<1>7. /\ t \in Seq(Byte)
      /\ Len(t) = IF 1 <= Len(s) - n THEN (Len(s) - n) - 1 + 1 ELSE 0
      /\ \A i \in 1..((Len(s) - n) - 1 + 1) : t[i] = s[1 + i - 1]
  BY <1>5, <1>6, SubSeqProperties
<1>. HIDE DEF t, m
<1>8. Len(t) = m - r  BY <1>1, <1>5, <1>7
<1>9. ASSUME NEW i \in 1..(m - r) PROVE t[i] = bb[r + i]
  <2>1. i \in 1..((Len(s) - n) - 1 + 1) /\ 1 + i - 1 = i /\ i \in 1..(w - r)
    BY <1>1, <1>2, <1>5
  <2>. QED  BY <1>2, <1>7, <2>1
<1>10. Content(Record(bb, r, m)) = t  BY <1>1, <1>5, <1>7, <1>8, <1>9, SameContent
<1>11. Room(c) = Room(b)  BY <1>4 DEF Room, PrependableBytes, r
<1>. QED  BY <1>3, <1>10, <1>11 DEF c, t, s

\* A set of numbers that is not empty has a least one.
LEMMA LeastNumber ==
    ASSUME NEW S \in SUBSET Nat, S # {}
    PROVE  \E n \in S : \A m \in S : n <= m
<1>. DEFINE R == OpToRel(<, Nat)
<1>1. IsWellFoundedOn(R, Nat)  BY NatLessThanWellFounded, Zenon
<1>2. \A x, y \in Nat : x < y => <<x, y>> \in R  BY Zenon DEF OpToRel
<1>. HIDE DEF R
<1>3. PICK x \in S : \A y \in S : ~(<<y, x>> \in R)  BY <1>1, WFMin
<1>4. \A y \in S : ~(y < x)  BY <1>2, <1>3
<1>. QED  BY <1>4

\* The places in s, the first one being 1, where the separator begins n or more bytes in.
Places(s, separator, n) ==
    {p \in 1..(Len(s) - Len(separator) + 1) :
        p > n /\ SubSeq(s, p, p + Len(separator) - 1) = separator}

Earliest(S) == CHOOSE p \in S : \A q \in S : p <= q

\* The earliest of two sets of places that differ by a shift.
LEMMA EarliestShifted ==
    ASSUME NEW S \in SUBSET Nat, NEW T \in SUBSET Nat, NEW d \in Int, S # {},
           \A p \in S : p + d \in T, \A q \in T : q - d \in S
    PROVE  Earliest(S) \in S /\ Earliest(T) = Earliest(S) + d
<1>1. \E p \in S : \A q \in S : p <= q  BY LeastNumber
<1>2. Earliest(S) \in S /\ \A q \in S : Earliest(S) <= q  BY <1>1 DEF Earliest
<1>. DEFINE p == Earliest(S)
<1>. HIDE DEF p
<1>3. p \in S /\ \A q \in S : p <= q  BY <1>2 DEF p
<1>4. p + d \in T /\ \A q \in T : p + d <= q
  <2>. SUFFICES ASSUME NEW q \in T PROVE p + d <= q
    BY <1>3
  <2>1. p <= q - d /\ p \in Int /\ q \in Int  BY <1>3
  <2>. QED  BY <2>1
<1>5. Earliest(T) \in T /\ \A q \in T : Earliest(T) <= q  BY <1>4 DEF Earliest
<1>. DEFINE t == Earliest(T)
<1>. HIDE DEF t
<1>6. t \in T /\ \A q \in T : t <= q  BY <1>5 DEF t
<1>7. t = p + d
  <2>1. t <= p + d /\ p + d <= t /\ t \in Int /\ p + d \in Int  BY <1>3, <1>4, <1>6
  <2>. QED  BY <2>1
<1>. QED  BY <1>3, <1>7 DEF p, t

\* A part of the content is a part of the vector.
LEMMA PartOfContent ==
    ASSUME NEW b, Sound(b), NEW size \in Nat,
           NEW k \in 1..(Len(Content(b)) - size + 1)
    PROVE  SubSeq(Content(b), k, k + size - 1)
               = SubSeq(b.buffer_, b.reader_index_ + k, b.reader_index_ + k + size - 1)
<1>. DEFINE bb == b.buffer_  r == b.reader_index_  w == b.writer_index_
            s == Content(b)
            m == r + k
            u == SubSeq(s, k, k + size - 1)
            v == SubSeq(bb, m, m + size - 1)
<1>1. bb \in Seq(Byte) /\ Len(bb) \in Nat /\ r \in Nat /\ w \in Nat /\ r <= w /\ w <= Len(bb)
  BY DEF Sound
<1>2. s \in Seq(Byte) /\ Len(s) = w - r /\ \A i \in 1..(w - r) : s[i] = bb[r + i]
  BY SoundAt
<1>. HIDE DEF bb, r, w, s
<1>3. k \in 1..(Len(s) - size + 1)  BY DEF s
<1>4. k \in Nat /\ k >= 1 /\ k + size - 1 <= Len(s) /\ k + size - 1 \in Int
      /\ m \in Nat /\ m >= 1 /\ m + size - 1 <= Len(bb) /\ m + size - 1 \in Int
  BY <1>1, <1>2, <1>3
<1>5. (\A i \in k..(k + size - 1) : s[i] \in Byte)
      /\ (\A i \in m..(m + size - 1) : bb[i] \in Byte)
  <2>1. \A i \in k..(k + size - 1) : i \in 1..Len(s)  BY <1>4
  <2>2. \A i \in m..(m + size - 1) : i \in 1..Len(bb)  BY <1>4
  <2>. QED  BY <1>1, <1>2, <2>1, <2>2, ElementOfSeq
<1>. HIDE DEF m
<1>6. /\ u \in Seq(Byte)
      /\ Len(u) = IF k <= k + size - 1 THEN (k + size - 1) - k + 1 ELSE 0
      /\ \A i \in 1..((k + size - 1) - k + 1) : u[i] = s[k + i - 1]
  BY <1>4, <1>5, SubSeqProperties
<1>7. /\ v \in Seq(Byte)
      /\ Len(v) = IF m <= m + size - 1 THEN (m + size - 1) - m + 1 ELSE 0
      /\ \A i \in 1..((m + size - 1) - m + 1) : v[i] = bb[m + i - 1]
  BY <1>4, <1>5, SubSeqProperties
<1>. HIDE DEF u, v
<1>8. Len(u) = size /\ Len(v) = size  BY <1>4, <1>6, <1>7
<1>9. ASSUME NEW i \in 1..size PROVE u[i] = v[i]
  <2>1. i \in 1..((k + size - 1) - k + 1) /\ i \in 1..((m + size - 1) - m + 1)
        /\ k + i - 1 \in 1..(w - r) /\ r + (k + i - 1) = m + i - 1
    BY <1>1, <1>2, <1>4 DEF m
  <2>. QED  BY <1>2, <1>6, <1>7, <2>1
<1>10. u = v  BY <1>6, <1>7, <1>8, <1>9, SeqEqual
<1>. QED  BY <1>10 DEF u, v, s, bb, m, r

\* FindEOL() and FindCRLF() tell the first place in the content.
LEMMA FindPlace ==
    ASSUME NEW b, Sound(b), NEW separator \in Seq(Byte), Len(separator) >= 1, NEW n \in Nat,
           NEW p, p = Find(b, separator, b.reader_index_ + n)
    PROVE  (IF p = NotFound THEN NotFound ELSE p - b.reader_index_ + 1)
               = IF Places(Content(b), separator, n) = {} THEN NotFound
                 ELSE Earliest(Places(Content(b), separator, n))
<1>. DEFINE bb == b.buffer_  r == b.reader_index_  w == b.writer_index_
            s == Content(b)
            size == Len(separator)
            start == r + n
            Found == {q \in start..(w - size) : SubSeq(bb, q + 1, q + size) = separator}
            There == Places(s, separator, n)
<1>1. r \in Nat /\ w \in Nat /\ r <= w /\ size \in Nat /\ size >= 1
  BY DEF Sound
<1>2. Len(s) = w - r  BY SoundAt
<1>3. p = IF start > w \/ Found = {} THEN NotFound ELSE Earliest(Found)
  <2>1. ~(start < r)  BY <1>1
  <2>. QED  BY <2>1 DEF Find, Earliest
<1>4. \A k \in 1..(Len(s) - size + 1) :
          SubSeq(s, k, k + size - 1) = SubSeq(bb, r + k, r + k + size - 1)
  BY <1>1, PartOfContent
<1>. HIDE DEF bb, r, w, s, size
<1>5. Found \in SUBSET Nat  BY <1>1
<1>6. There = {k \in 1..(Len(s) - size + 1) : k > n /\ SubSeq(s, k, k + size - 1) = separator}
  BY DEF Places, size
<1>. HIDE DEF There
<1>7. There \in SUBSET Nat  BY <1>1, <1>2, <1>6
<1>8. ASSUME NEW q \in Found PROVE q + (1 - r) \in There
  <2>. DEFINE k == q + (1 - r)
  <2>1. q \in Nat /\ q >= start /\ q <= w - size /\ SubSeq(bb, q + 1, q + size) = separator
    BY <1>1
  <2>2. k \in 1..(Len(s) - size + 1) /\ k > n /\ r + k = q + 1 /\ r + k + size - 1 = q + size
    BY <1>1, <1>2, <2>1
  <2>. HIDE DEF k, start, Found
  <2>3. SubSeq(s, k, k + size - 1) = separator  BY <1>4, <2>1, <2>2
  <2>4. k \in There  BY <1>6, <2>2, <2>3
  <2>. QED  BY <2>4 DEF k
<1>9. ASSUME NEW k \in There PROVE k - (1 - r) \in Found
  <2>. DEFINE q == k - (1 - r)
  <2>1. k \in 1..(Len(s) - size + 1) /\ k > n /\ SubSeq(s, k, k + size - 1) = separator
    BY <1>6
  <2>2. q \in start..(w - size) /\ r + k = q + 1 /\ r + k + size - 1 = q + size
    BY <1>1, <1>2, <2>1
  <2>. HIDE DEF q
  <2>3. SubSeq(bb, q + 1, q + size) = separator  BY <1>4, <2>1, <2>2
  <2>. QED  BY <2>2, <2>3 DEF q
<1>10. start > w => Found = {}  BY <1>1
<1>. HIDE DEF Found, start
<1>11. CASE Found = {}
  <2>1. There = {}  BY <1>9, <1>11
  <2>. QED  BY <1>3, <1>11, <2>1 DEF There, s
<1>12. CASE Found # {}
  <2>1. 1 - r \in Int  BY <1>1
  <2>. DEFINE d == 1 - r
  <2>2. \A q \in Found : q + d \in There  BY <1>8
  <2>3. \A k \in There : k - d \in Found  BY <1>9
  <2>. HIDE DEF d
  <2>4. Earliest(Found) \in Found /\ Earliest(There) = Earliest(Found) + d
    BY <1>5, <1>7, <1>12, <2>1, <2>2, <2>3, EarliestShifted DEF d
  <2>5. There # {}  BY <1>12, <2>2
  <2>6. p = Earliest(Found)  BY <1>3, <1>10, <1>12
  <2>7. p \in Nat  BY <1>5, <2>4, <2>6
  <2>8. p # NotFound  BY <2>7 DEF NotFound
  <2>9. p - r + 1 = p + d  BY <1>1, <2>7 DEF d
  <2>10. Earliest(There) = p - r + 1  BY <2>4, <2>6, <2>9
  <2>. QED  BY <2>5, <2>8, <2>10 DEF There, s, r
<1>. QED  BY <1>11, <1>12

-----------------------------------------------------------------------------
(* The actions.                                                             *)

\* The constructor makes a sound buffer.
LEMMA InitSound == Init => IInv
<1>. SUFFICES ASSUME Init PROVE Sound(buffer)
  BY DEF IInv
<1>1. cheap_prepend_ \in Nat /\ cheap_prepend_ + initial_size_ \in Nat
      /\ cheap_prepend_ <= cheap_prepend_ + initial_size_
  BY SizeAssumption
<1>2. /\ Zeros(cheap_prepend_ + initial_size_) \in Seq(Byte)
      /\ Len(Zeros(cheap_prepend_ + initial_size_)) = cheap_prepend_ + initial_size_
  BY <1>1, ZerosType
<1>3. Init => buffer = Record(Zeros(cheap_prepend_ + initial_size_), cheap_prepend_, cheap_prepend_)
  BY DEF Init, Record
<1>. QED  BY <1>1, <1>2, <1>3, RecordSound

\* Every step keeps the buffer sound and grows it only as far as it must.
LEMMA StepSound ==
    ASSUME IInv, [Next]_vars
    PROVE  IInv' /\ Grown(buffer, buffer')
<1>0. Sound(buffer) /\ Len(buffer.buffer_) \in Nat  BY DEF IInv, Sound
<1>. SUFFICES Sound(buffer') /\ Grown(buffer, buffer')
  BY DEF IInv, Sound, Grown
<1>1. ASSUME buffer' = buffer PROVE Sound(buffer') /\ Grown(buffer, buffer')
  BY <1>0, <1>1 DEF Grown
<1>2. ASSUME NEW s \in Chunk, AppendBytes(s)
      PROVE  Sound(buffer') /\ Grown(buffer, buffer')
  BY <1>0, <1>2, AppendSound, ChunkAssumption DEF AppendBytes, Does
<1>3. ASSUME NEW s \in Chunk, WriteBytes(s)
      PROVE  Sound(buffer') /\ Grown(buffer, buffer')
  <2>1. CASE Len(s) > WritableBytes(buffer)
    BY <1>1, <1>3, <2>1 DEF WriteBytes, Aborts
  <2>2. CASE ~(Len(s) > WritableBytes(buffer))
    <3>. DEFINE bytes == Copied(buffer.buffer_, buffer.writer_index_, s)
    <3>1. s \in Seq(Byte)  BY ChunkAssumption
    <3>2. bytes \in Seq(Byte) /\ Len(bytes) = Len(buffer.buffer_)
      BY <1>0, <3>1, CopiedType DEF Sound
    <3>3. buffer' = HasWritten([buffer EXCEPT !.buffer_ = bytes], Len(s))
      BY <1>3, <2>2 DEF WriteBytes, Does
    <3>. HIDE DEF bytes
    <3>4. buffer' = Record(bytes, buffer.reader_index_, buffer.writer_index_ + Len(s))
      BY <1>0, <3>3, HasWrittenRecord DEF Sound
    <3>5. /\ buffer.reader_index_ \in Nat /\ buffer.writer_index_ \in Nat
          /\ buffer.reader_index_ <= buffer.writer_index_
          /\ cheap_prepend_ <= Len(bytes)
      BY <1>0, <3>2 DEF Sound
    <3>6. /\ buffer.writer_index_ + Len(s) \in Nat
          /\ buffer.reader_index_ <= buffer.writer_index_ + Len(s)
          /\ buffer.writer_index_ + Len(s) <= Len(bytes)
      BY <1>0, <2>2, <3>1, <3>2, <3>5 DEF WritableBytes
    <3>7. Sound(buffer')
      BY <3>2, <3>4, <3>5, <3>6, RecordSound
    <3>. QED  BY <1>0, <3>2, <3>4, <3>7, Members DEF Grown
  <2>. QED  BY <2>1, <2>2
<1>4. ASSUME NEW s \in Chunk, PrependBytes(s)
      PROVE  Sound(buffer') /\ Grown(buffer, buffer')
  <2>1. CASE PrependableBytes(buffer) < Len(s)
    BY <1>1, <1>4, <2>1 DEF PrependBytes, Aborts
  <2>2. CASE ~(PrependableBytes(buffer) < Len(s))
    <3>1. s \in Seq(Byte)  BY ChunkAssumption
    <3>2. Len(s) <= PrependableBytes(buffer)
      BY <1>0, <2>2, <3>1 DEF PrependableBytes, Sound
    <3>3. buffer' = Prepend(buffer, s)  BY <1>4, <2>2 DEF PrependBytes, Does
    <3>. QED  BY <1>0, <3>1, <3>2, <3>3, PrependSound DEF Grown
  <2>. QED  BY <2>1, <2>2
<1>5. ASSUME NEW s \in Chunk, ReadSocket(s)
      PROVE  Sound(buffer') /\ Grown(buffer, buffer')
  BY <1>0, <1>5, ReadFdSound, ChunkAssumption DEF ReadSocket, Does
<1>6. ASSUME NEW n \in Nat, buffer' = Retrieve(buffer, n)
      PROVE  Sound(buffer') /\ Grown(buffer, buffer')
  BY <1>0, <1>6, RetrieveSound DEF Grown
<1>7. ASSUME NEW size \in IntSize, PeekInt(size) \/ ReadInt(size)
      PROVE  Sound(buffer') /\ Grown(buffer, buffer')
  <2>1. size \in Nat  BY ChunkAssumption
  <2>2. buffer' = buffer \/ buffer' = Retrieve(buffer, size)
    BY <1>7 DEF PeekInt, ReadInt, Aborts, Does
  <2>. QED  BY <1>1, <1>6, <2>1, <2>2
<1>8. ASSUME NEW size \in IntSize, NEW num \in Number(size), AppendInt(num, size)
      PROVE  Sound(buffer') /\ Grown(buffer, buffer')
  <2>1. size \in Nat /\ num \in Int  BY ChunkAssumption DEF Number
  <2>2. HostToNetwork(num, size) \in Seq(Byte)  BY <2>1, HostToNetworkType
  <2>. QED  BY <1>0, <1>8, <2>2, AppendSound DEF AppendInt, AppendBytes, Does
<1>9. Count \subseteq Nat /\ Place \subseteq Int
  BY SizeAssumption DEF Count, Place
<1>10. ASSUME NEW n \in Count, RetrieveBytes(n) \/ RetrieveAsString(n)
       PROVE  Sound(buffer') /\ Grown(buffer, buffer')
  BY <1>6, <1>9, <1>10 DEF RetrieveBytes, RetrieveAsString, Does
<1>11. ASSUME NEW n \in Count, Unwrite(n)
       PROVE  Sound(buffer') /\ Grown(buffer, buffer')
  <2>1. CASE n > ReadableBytes(buffer)
    BY <1>1, <1>11, <2>1 DEF Unwrite, Aborts
  <2>2. CASE ~(n > ReadableBytes(buffer))
    <3>1. buffer' = [buffer EXCEPT !.writer_index_ = @ - n]
      BY <1>11, <2>2 DEF Unwrite, Does
    <3>2. buffer' = Record(buffer.buffer_, buffer.reader_index_, buffer.writer_index_ - n)
      BY <1>0, <3>1, Assigned DEF Sound
    <3>3. n \in Nat  BY <1>9
    <3>4. /\ buffer.buffer_ \in Seq(Byte) /\ buffer.reader_index_ \in Nat
          /\ buffer.writer_index_ \in Nat
          /\ buffer.reader_index_ <= buffer.writer_index_
          /\ buffer.writer_index_ <= Len(buffer.buffer_)
          /\ cheap_prepend_ <= Len(buffer.buffer_)
      BY <1>0 DEF Sound
    <3>5. /\ buffer.writer_index_ - n \in Nat
          /\ buffer.reader_index_ <= buffer.writer_index_ - n
          /\ buffer.writer_index_ - n <= Len(buffer.buffer_)
      BY <2>2, <3>3, <3>4 DEF ReadableBytes
    <3>6. Sound(buffer')
      BY <3>2, <3>4, <3>5, RecordSound
    <3>. QED  BY <1>0, <3>2, <3>6, Members DEF Grown
  <2>. QED  BY <2>1, <2>2
<1>12. ASSUME NEW n \in Place, RetrieveTo(n)
       PROVE  Sound(buffer') /\ Grown(buffer, buffer')
  <2>1. buffer.reader_index_ + n \in Int  BY <1>0, <1>9 DEF Sound
  <2>. DEFINE end == buffer.reader_index_ + n
  <2>2. buffer' = RetrieveUntil(buffer, end)  BY <1>12 DEF RetrieveTo, Does
  <2>. HIDE DEF end
  <2>3. end \in Int  BY <2>1 DEF end
  <2>4. Sound(buffer') /\ buffer'.buffer_ = buffer.buffer_
    BY <1>0, <2>2, <2>3, RetrieveUntilSound
  <2>. QED  BY <1>0, <2>4 DEF Grown
<1>13. ASSUME NEW op, NEW separator, NEW n \in Count, FindFrom(op, separator, n)
       PROVE  Sound(buffer') /\ Grown(buffer, buffer')
  BY <1>1, <1>13 DEF FindFrom, Does
<1>14. CASE UNCHANGED vars  BY <1>1, <1>14 DEF vars
<1>. QED  BY <1>2, <1>3, <1>4, <1>5, <1>7, <1>8, <1>10, <1>11, <1>12, <1>13, <1>14 DEF Next

\* A sound buffer has its type.
LEMMA SoundTypeOK == IInv => TypeOK
<1>. SUFFICES ASSUME Sound(buffer) PROVE TypeOK
  BY DEF IInv
<1>. QED  BY DEF Sound, IsRecord, Record, TypeOK

\* The indices stay in order and inside the vector, for every sequence of calls, with
\* any header, size, chunks and integers.
THEOREM TypeCorrect == Spec => []TypeOK
<1>1. IInv /\ [Next]_vars => IInv'  BY StepSound
<1>. QED  BY InitSound, SoundTypeOK, <1>1, PTL DEF Spec

\* MakeSpace() grows the vector only as far as the content needs it, always.
THEOREM GrowthCorrect == Spec => GrowthBounded
<1>1. IInv /\ [Next]_vars => IInv'  BY StepSound
<1>2. IInv /\ [Next]_vars =>
          [Len(buffer'.buffer_) > Len(buffer.buffer_) =>
              Len(buffer'.buffer_) < 2 * ReadableBytes(buffer') + cheap_prepend_]_vars
  BY StepSound DEF Grown
<1>. QED  BY InitSound, <1>1, <1>2, PTL DEF Spec, GrowthBounded

-----------------------------------------------------------------------------
(* Every call is a call of the queue of bytes.                              *)

\* No more than this is in a buffer; far less than a size_t can count.
Bounded == Len(Content(buffer)) <= MaxReadable

\* The two modules have one idea of an integer, and of an end of line.
LEMMA SameIntegers ==
    /\ \A bytes : Queue!NetworkToHost(bytes) = NetworkToHost(bytes)
    /\ \A num, size : Queue!HostToNetwork(num, size) = HostToNetwork(num, size)
    /\ \A size : Queue!Number(size) = Number(size)
    /\ Queue!NotFound = NotFound
    /\ \A m, n : Queue!Least(m, n) = Least(m, n)
<1>1. \A bytes : Queue!NetworkToHost(bytes) = NetworkToHost(bytes)
  BY Zenon DEF Queue!NetworkToHost, NetworkToHost, Queue!FoldLeft, FoldLeft,
               Queue!MapThenFoldSet, MapThenFoldSet, Queue!Max, Max
<1>2. \A num, size : Queue!HostToNetwork(num, size) = HostToNetwork(num, size)
  BY Zenon DEF Queue!HostToNetwork, HostToNetwork
<1>3. \A size : Queue!Number(size) = Number(size)  BY Zenon DEF Queue!Number, Number
<1>4. Queue!NotFound = NotFound  BY DEF Queue!NotFound, NotFound
<1>5. \A m, n : Queue!Least(m, n) = Least(m, n)  BY Zenon DEF Queue!Least, Least
<1>. QED  BY <1>1, <1>2, <1>3, <1>4, <1>5

\* A buffer that kept its content and its room is the same queue.
LEMMA Kept ==
    ASSUME Bounded, buffer' = buffer
    PROVE  UNCHANGED <<Content(buffer), Least(PrependableBytes(buffer), cheap_prepend_)>>
           /\ Bounded'
BY DEF Bounded, Content, PrependableBytes

\* Bytes put behind the content are appended to the queue.
LEMMA AppendStep ==
    ASSUME Sound(buffer), NEW s \in Seq(Byte), Fits(s),
           call' = <<"Append", s, "ok">>,
           Content(buffer') = Content(buffer) \o s, Room(buffer') = Room(buffer)
    PROVE  Queue!Append_(s) /\ Bounded'
<1>1. Content(buffer) \in Seq(Byte) /\ Len(Content(buffer)) = ReadableBytes(buffer)
  BY ContentType
<1>2. Len(Content(buffer) \o s) = Len(Content(buffer)) + Len(s)
  BY <1>1, ConcatProperties
<1>3. Bounded'  BY <1>1, <1>2 DEF Bounded, Fits
<1>4. Queue!Append_(s)  BY DEF Queue!Append_, Room
<1>. QED  BY <1>3, <1>4

\* Bytes taken from the front are dropped from the queue.
LEMMA DropStep ==
    ASSUME Sound(buffer), Bounded, NEW n \in Nat, buffer' = Retrieve(buffer, n)
    PROVE  Queue!Drop(n) /\ Bounded'
<1>. DEFINE s == Content(buffer)
<1>1. /\ Content(buffer') = SubSeq(s, n + 1, Len(s))
      /\ Room(buffer') = IF n < Len(s) THEN Least(Room(buffer) + n, cheap_prepend_)
                         ELSE cheap_prepend_
  BY RetrieveContent
<1>2. s \in Seq(Byte) /\ Len(s) \in Nat  BY ContentType
<1>3. Queue!Drop(n)
  BY <1>1, SameIntegers DEF Queue!Drop, Room
<1>4. Len(SubSeq(s, n + 1, Len(s))) <= Len(s)
  <2>. HIDE DEF s
  <2>1. \A i \in (n + 1)..Len(s) : s[i] \in Byte  BY <1>2
  <2>2. Len(SubSeq(s, n + 1, Len(s))) = IF n + 1 <= Len(s) THEN Len(s) - (n + 1) + 1 ELSE 0
    BY <1>2, <2>1, SubSeqProperties
  <2>. QED  BY <1>2, <2>2
<1>5. MaxReadable \in Nat /\ Len(SubSeq(s, n + 1, Len(s))) \in Int
  <2>. HIDE DEF s
  <2>1. SubSeq(s, n + 1, Len(s)) \in Seq(Byte)  BY <1>2
  <2>. QED  BY <2>1, SizeAssumption
<1>6. Len(Content(buffer')) <= MaxReadable  BY <1>1, <1>2, <1>4, <1>5 DEF Bounded
<1>7. Bounded'  BY <1>6 DEF Bounded
<1>. QED  BY <1>3, <1>7

\* One step of the queue for each call, whatever it comes to.
LEMMA StepImplements ==
    ASSUME IInv, Bounded, Next
    PROVE  Queue!Next /\ Bounded'
<1>0. Sound(buffer) /\ Queue!Running  BY DEF IInv, Next, Queue!Running, Running
<1>. DEFINE s0 == Content(buffer)
            room0 == Least(PrependableBytes(buffer), cheap_prepend_)
<1>1. /\ s0 \in Seq(Byte) /\ Len(s0) = ReadableBytes(buffer) /\ Len(s0) \in Nat
      /\ MaxReadable \in Nat /\ Len(s0) <= MaxReadable
  BY <1>0, ContentType, SizeAssumption DEF Bounded
<1>2. \A s \in Chunk : s \in Seq(Byte) /\ Len(s) \in Nat  BY ChunkAssumption
<1>3. IntSize \subseteq Nat /\ Count \subseteq Nat /\ Place \subseteq Int
  BY ChunkAssumption, SizeAssumption DEF Count, Place
<1>4. ASSUME buffer' = buffer PROVE UNCHANGED <<s0, room0>> /\ Bounded'
  BY <1>4, Kept
<1>5. ASSUME NEW s \in Chunk, AppendBytes(s) PROVE Queue!Append_(s) /\ Bounded'
  <2>1. Content(Append_(buffer, s)) = s0 \o s /\ Room(Append_(buffer, s)) = Room(buffer)
    BY <1>0, <1>2, AppendContent
  <2>. QED  BY <1>0, <1>2, <1>5, <2>1, AppendStep DEF AppendBytes, Does
<1>6. ASSUME NEW size \in IntSize, NEW num \in Number(size), AppendInt(num, size)
      PROVE  Queue!Append_(HostToNetwork(num, size)) /\ Bounded'
  <2>. DEFINE s == HostToNetwork(num, size)
  <2>1. size \in Nat /\ num \in Int  BY <1>3 DEF Number
  <2>2. s \in Seq(Byte)  BY <2>1, HostToNetworkType
  <2>3. AppendBytes(s)  BY <1>6 DEF AppendInt
  <2>. HIDE DEF s
  <2>4. Content(Append_(buffer, s)) = s0 \o s /\ Room(Append_(buffer, s)) = Room(buffer)
    BY <1>0, <2>2, AppendContent
  <2>5. Queue!Append_(s) /\ Bounded'
    BY <1>0, <2>2, <2>3, <2>4, AppendStep DEF AppendBytes, Does
  <2>. QED  BY <2>5 DEF s
<1>7. ASSUME NEW s \in Chunk, ReadSocket(s) PROVE Queue!Append_(s) /\ Bounded'
  <2>1. Content(ReadFd(buffer, s)) = s0 \o s /\ Room(ReadFd(buffer, s)) = Room(buffer)
    BY <1>0, <1>2, ReadFdContent
  <2>2. Fits(s) /\ buffer' = ReadFd(buffer, s) /\ call' = <<"Append", s, "ok">>
    BY <1>7 DEF ReadSocket, Does
  <2>. QED  BY <1>0, <1>2, <2>1, <2>2, AppendStep
<1>8. ASSUME NEW s \in Chunk, WriteBytes(s)
      PROVE  /\ Queue!Append_(s) \/ Queue!Abort
             /\ Bounded'
  <2>0. s \in Seq(Byte) /\ Len(s) \in Nat /\ Fits(s)  BY <1>2, <1>8 DEF WriteBytes
  <2>1. CASE Len(s) > WritableBytes(buffer)
    <3>1. call' = <<"abort", "HasWritten", s>> /\ buffer' = buffer
      BY <1>8, <2>1 DEF WriteBytes, Aborts
    <3>2. Len(s) > 0  BY <1>0, <2>0, <2>1 DEF WritableBytes, Sound
    <3>. QED  BY <1>4, <3>1, <3>2 DEF Queue!Abort
  <2>2. CASE ~(Len(s) > WritableBytes(buffer))
    <3>. DEFINE x == Copied(buffer.buffer_, buffer.writer_index_, s)
    <3>1. buffer' = HasWritten([buffer EXCEPT !.buffer_ = x], Len(s))
          /\ call' = <<"Append", s, "ok">>
      BY <1>8, <2>2 DEF WriteBytes, Does
    <3>2. buffer.writer_index_ + Len(s) <= Len(buffer.buffer_)
      BY <1>0, <2>0, <2>2 DEF WritableBytes, Sound
    <3>3. Content(Record(x, buffer.reader_index_, buffer.writer_index_ + Len(s))) = s0 \o s
      BY <1>0, <2>0, <3>2, Behind
    <3>. HIDE DEF x, s0
    <3>4. buffer' = Record(x, buffer.reader_index_, buffer.writer_index_ + Len(s))
      BY <1>0, <3>1, HasWrittenRecord DEF Sound
    <3>5. Room(buffer') = Room(buffer)  BY <3>4, Members DEF Room, PrependableBytes
    <3>6. Content(buffer') = s0 \o s  BY <3>3, <3>4
    <3>. QED  BY <1>0, <2>0, <3>1, <3>5, <3>6, AppendStep DEF s0
  <2>. QED  BY <2>1, <2>2
<1>9. ASSUME NEW s \in Chunk, PrependBytes(s)
      PROVE  /\ Queue!Prepend(s) \/ Queue!Abort
             /\ Bounded'
  <2>0. s \in Seq(Byte) /\ Len(s) \in Nat /\ Fits(s)  BY <1>2, <1>9 DEF PrependBytes
  <2>a. PrependableBytes(buffer) \in Nat /\ cheap_prepend_ \in Nat
    BY <1>0, SizeAssumption DEF PrependableBytes, Sound
  <2>1. CASE PrependableBytes(buffer) < Len(s)
    <3>1. call' = <<"abort", "Prepend", s>> /\ buffer' = buffer
      BY <1>9, <2>1 DEF PrependBytes, Aborts
    <3>2. Len(s) > room0  BY <2>0, <2>a, <2>1 DEF Least
    <3>. QED  BY <1>4, <3>1, <3>2 DEF Queue!Abort
  <2>2. CASE ~(PrependableBytes(buffer) < Len(s))
    <3>1. buffer' = Prepend(buffer, s) /\ call' = <<"Prepend", s, "ok">>
      BY <1>9, <2>2 DEF PrependBytes, Does
    <3>2. Len(s) <= PrependableBytes(buffer)  BY <2>0, <2>a, <2>2
    <3>3. Content(buffer') = s \o s0
          /\ PrependableBytes(buffer') = PrependableBytes(buffer) - Len(s)
      BY <1>0, <2>0, <3>1, <3>2, PrependContent
    <3>. DEFINE room1 == Least(PrependableBytes(buffer'), cheap_prepend_)
    <3>4. room1 \in ((room0 - Len(s))..room0) \cap Nat
      BY <2>0, <2>a, <3>2, <3>3 DEF Least
    <3>5. Queue!Prepend(s)  BY <3>1, <3>3, <3>4 DEF Queue!Prepend
    <3>6. Len(s \o s0) = Len(s) + Len(s0)  BY <1>1, <2>0, ConcatProperties
    <3>7. Bounded'  BY <1>1, <2>0, <3>3, <3>6 DEF Bounded, Fits
    <3>. QED  BY <3>5, <3>7
  <2>. QED  BY <2>1, <2>2
<1>10. ASSUME NEW n \in Count, RetrieveBytes(n) PROVE Queue!Retrieve(n) /\ Bounded'
  <2>1. buffer' = Retrieve(buffer, n) /\ call' = <<"Retrieve", n, "ok">>
    BY <1>10 DEF RetrieveBytes, Does
  <2>. QED  BY <1>0, <1>3, <2>1, DropStep DEF Queue!Retrieve
<1>11. ASSUME NEW n \in Count, RetrieveAsString(n)
       PROVE  Queue!RetrieveAsString(n) /\ Bounded'
  <2>1. /\ buffer' = Retrieve(buffer, n)
        /\ call' = <<"RetrieveAsString", n, SubSeq(s0, 1, Least(n, Len(s0)))>>
    BY <1>1, <1>11 DEF RetrieveAsString, Does
  <2>. QED  BY <1>0, <1>3, <2>1, DropStep, SameIntegers DEF Queue!RetrieveAsString
<1>12. ASSUME NEW n \in Place, RetrieveTo(n)
       PROVE  Queue!RetrieveUntil(n) /\ Bounded'
  <2>1. n \in Int  BY <1>3
  <2>2. buffer' = RetrieveUntil(buffer, buffer.reader_index_ + n)
        /\ call' = <<"RetrieveUntil", n, "ok">>
    BY <1>12 DEF RetrieveTo, Does
  <2>3. ReadableBytes(buffer) < SizeRange
    BY <1>1, SizeAssumption
  <2>4. buffer' = IF n > 0 THEN Retrieve(buffer, n) ELSE buffer
    BY <1>0, <2>1, <2>2, <2>3, RetrieveUntilContent
  <2>5. CASE n > 0
    <3>1. n \in Nat /\ buffer' = Retrieve(buffer, n)  BY <2>1, <2>4, <2>5
    <3>. QED  BY <1>0, <2>2, <2>5, <3>1, DropStep DEF Queue!RetrieveUntil
  <2>6. CASE ~(n > 0)
    <3>1. buffer' = buffer  BY <2>4, <2>6
    <3>. QED  BY <1>4, <2>2, <2>6, <3>1 DEF Queue!RetrieveUntil
  <2>. QED  BY <2>5, <2>6
<1>13. ASSUME NEW size \in IntSize, PeekInt(size)
       PROVE  /\ Queue!PeekInt(size) \/ Queue!Abort
              /\ Bounded'
  <2>0. size \in Nat /\ buffer' = buffer  BY <1>3, <1>13 DEF PeekInt, Aborts, Does
  <2>1. CASE ReadableBytes(buffer) < size
    <3>1. call' = <<"abort", "PeekInt", size>>  BY <1>13, <2>1 DEF PeekInt, Aborts
    <3>. QED  BY <1>1, <1>4, <2>0, <2>1, <3>1 DEF Queue!Abort
  <2>2. CASE ~(ReadableBytes(buffer) < size)
    <3>1. call' = <<"PeekInt", size, NetworkToHost(SubSeq(s0, 1, size))>>
      BY <1>13, <2>2 DEF PeekInt, Does, First
    <3>2. size <= Len(s0)  BY <1>1, <2>0, <2>2
    <3>. QED  BY <1>4, <2>0, <3>1, <3>2, SameIntegers DEF Queue!PeekInt
  <2>. QED  BY <2>1, <2>2
<1>14. ASSUME NEW size \in IntSize, ReadInt(size)
       PROVE  /\ Queue!ReadInt(size) \/ Queue!Abort
              /\ Bounded'
  <2>0. size \in Nat  BY <1>3
  <2>1. CASE ReadableBytes(buffer) < size
    <3>1. call' = <<"abort", "PeekInt", size>> /\ buffer' = buffer
      BY <1>14, <2>1 DEF ReadInt, Aborts
    <3>. QED  BY <1>1, <1>4, <2>0, <2>1, <3>1 DEF Queue!Abort
  <2>2. CASE ~(ReadableBytes(buffer) < size)
    <3>1. call' = <<"ReadInt", size, NetworkToHost(SubSeq(s0, 1, size))>>
          /\ buffer' = Retrieve(buffer, size)
      BY <1>14, <2>2 DEF ReadInt, Does, First
    <3>2. size <= Len(s0)  BY <1>1, <2>0, <2>2
    <3>. QED  BY <1>0, <2>0, <3>1, <3>2, DropStep, SameIntegers DEF Queue!ReadInt
  <2>. QED  BY <2>1, <2>2
<1>15. ASSUME NEW n \in Count, Unwrite(n)
       PROVE  /\ Queue!Unwrite(n) \/ Queue!Abort
              /\ Bounded'
  <2>0. n \in Nat  BY <1>3
  <2>1. CASE n > ReadableBytes(buffer)
    <3>1. call' = <<"abort", "Unwrite", n>> /\ buffer' = buffer
      BY <1>15, <2>1 DEF Unwrite, Aborts
    <3>. QED  BY <1>1, <1>4, <2>0, <2>1, <3>1 DEF Queue!Abort
  <2>2. CASE ~(n > ReadableBytes(buffer))
    <3>1. buffer' = [buffer EXCEPT !.writer_index_ = @ - n] /\ call' = <<"Unwrite", n, "ok">>
      BY <1>15, <2>2 DEF Unwrite, Does
    <3>2. n <= ReadableBytes(buffer) /\ n <= Len(s0)  BY <1>1, <2>0, <2>2
    <3>3. Content(buffer') = SubSeq(s0, 1, Len(s0) - n) /\ Room(buffer') = Room(buffer)
      BY <1>0, <2>0, <3>1, <3>2, UnwriteContent
    <3>4. Queue!Unwrite(n)  BY <3>1, <3>2, <3>3 DEF Queue!Unwrite, Room
    <3>5. Len(SubSeq(s0, 1, Len(s0) - n)) = Len(s0) - n
      <4>. HIDE DEF s0
      <4>. QED  BY <1>1, <2>0, <3>2
    <3>6. Bounded'  BY <1>1, <2>0, <3>3, <3>5 DEF Bounded
    <3>. QED  BY <3>4, <3>6
  <2>. QED  BY <2>1, <2>2
<1>16. ASSUME NEW op, NEW separator \in Seq(Byte), Len(separator) >= 1, NEW n \in Count,
              FindFrom(op, separator, n)
       PROVE  Queue!Find(op, separator, n) /\ Bounded'
  <2>. DEFINE p == Find(buffer, separator, buffer.reader_index_ + n)
              place == IF p = NotFound THEN NotFound ELSE p - buffer.reader_index_ + 1
  <2>1. buffer' = buffer /\ call' = <<op, n, place>>  BY <1>16 DEF FindFrom, Does
  <2>2. place = IF Places(s0, separator, n) = {} THEN NotFound
                ELSE Earliest(Places(s0, separator, n))
    BY <1>0, <1>3, <1>16, FindPlace
  <2>. HIDE DEF p, place, s0
  <2>3. call' = <<op, n, IF Places(s0, separator, n) = {} THEN NotFound
                         ELSE Earliest(Places(s0, separator, n))>>
    BY <2>1, <2>2
  <2>. QED  BY <1>4, <2>1, <2>3 DEF Queue!Find, Queue!NotFound, NotFound, Places, Earliest, s0
<1>17. /\ <<LF>> \in Seq(Byte) /\ Len(<<LF>>) >= 1
       /\ <<CR, LF>> \in Seq(Byte) /\ Len(<<CR, LF>>) >= 1
  BY ChunkAssumption
<1>18. CASE \E s \in Chunk : AppendBytes(s) \/ WriteBytes(s) \/ PrependBytes(s) \/ ReadSocket(s)
  <2>1. PICK s \in Chunk : AppendBytes(s) \/ WriteBytes(s) \/ PrependBytes(s) \/ ReadSocket(s)
    BY <1>18
  <2>2. (Queue!Append_(s) \/ Queue!Prepend(s) \/ Queue!Abort) /\ Bounded'
    BY <1>5, <1>7, <1>8, <1>9, <2>1
  <2>. QED  BY <1>0, <2>2 DEF Queue!Next
<1>19. CASE \E size \in IntSize :
                \/ PeekInt(size) \/ ReadInt(size)
                \/ \E num \in Number(size) : AppendInt(num, size)
  <2>1. PICK size \in IntSize :
                \/ PeekInt(size) \/ ReadInt(size)
                \/ \E num \in Number(size) : AppendInt(num, size)
    BY <1>19
  <2>2. CASE PeekInt(size) \/ ReadInt(size)
    <3>1. (Queue!PeekInt(size) \/ Queue!ReadInt(size) \/ Queue!Abort) /\ Bounded'
      BY <1>13, <1>14, <2>2
    <3>. QED  BY <1>0, <3>1 DEF Queue!Next
  <2>3. CASE \E num \in Number(size) : AppendInt(num, size)
    <3>1. PICK num \in Number(size) : AppendInt(num, size)  BY <2>3
    <3>2. Queue!Append_(HostToNetwork(num, size)) /\ Bounded'  BY <1>6, <3>1
    <3>. QED  BY <1>0, <3>2, SameIntegers DEF Queue!Next
  <2>. QED  BY <2>1, <2>2, <2>3
<1>20. CASE \E n \in Count : RetrieveBytes(n) \/ RetrieveAsString(n) \/ Unwrite(n)
  <2>1. PICK n \in Count : RetrieveBytes(n) \/ RetrieveAsString(n) \/ Unwrite(n)
    BY <1>20
  <2>2. (Queue!Retrieve(n) \/ Queue!RetrieveAsString(n) \/ Queue!Unwrite(n) \/ Queue!Abort)
        /\ Bounded'
    BY <1>10, <1>11, <1>15, <2>1
  <2>. QED  BY <1>0, <2>2 DEF Queue!Next
<1>21. CASE \E n \in Place : RetrieveTo(n)
  <2>1. PICK n \in Place : RetrieveTo(n)  BY <1>21
  <2>2. Queue!RetrieveUntil(n) /\ Bounded'  BY <1>12, <2>1
  <2>. QED  BY <1>0, <2>2 DEF Queue!Next
<1>22. CASE \E n \in Count :
                FindFrom("FindEOL", <<LF>>, n) \/ FindFrom("FindCRLF", <<CR, LF>>, n)
  <2>1. PICK n \in Count :
                FindFrom("FindEOL", <<LF>>, n) \/ FindFrom("FindCRLF", <<CR, LF>>, n)
    BY <1>22
  <2>2. (Queue!Find("FindEOL", <<LF>>, n) \/ Queue!Find("FindCRLF", <<CR, LF>>, n)) /\ Bounded'
    BY <1>16, <1>17, <2>1
  <2>. QED  BY <1>0, <2>2 DEF Queue!Next
<1>. QED  BY <1>18, <1>19, <1>20, <1>21, <1>22 DEF Next

\* A new buffer is an empty queue with all of its headroom.
LEMMA InitImplements == Init => Queue!Init /\ Bounded
<1>. SUFFICES ASSUME Init PROVE Queue!Init /\ Bounded
  OBVIOUS
<1>1. cheap_prepend_ \in Nat /\ MaxReadable \in Nat  BY SizeAssumption
<1>2. buffer.reader_index_ = cheap_prepend_ /\ buffer.writer_index_ = cheap_prepend_
      /\ call = <<"none", 0, 0>>
  BY DEF Init
<1>3. Content(buffer) = <<>>
  BY <1>1, <1>2, SubSeqEmpty, cheap_prepend_ < cheap_prepend_ + 1 DEF Content
<1>4. Least(PrependableBytes(buffer), cheap_prepend_) = cheap_prepend_
  BY <1>1, <1>2 DEF PrependableBytes, Least
<1>. QED  BY <1>1, <1>2, <1>3, <1>4 DEF Queue!Init, Bounded

\* A Buffer is a queue of bytes with room for a header in front, for every sequence of
\* calls: MakeSpace(), readv() into two buffers and the index arithmetic of Retrieve(),
\* RetrieveUntil() and Prepend() are not to be seen from outside.
THEOREM ImplementsByteQueueCorrect == Spec => ImplementsByteQueue
<1>1. Init => Queue!Init /\ IInv /\ Bounded  BY InitImplements, InitSound
<1>2. IInv /\ Bounded /\ [Next]_vars => [Queue!Next]_(Queue!vars) /\ IInv' /\ Bounded'
  <2>. SUFFICES ASSUME IInv, Bounded, [Next]_vars
                PROVE  [Queue!Next]_(Queue!vars) /\ IInv' /\ Bounded'
    OBVIOUS
  <2>1. IInv'  BY StepSound
  <2>2. CASE Next  BY <2>1, <2>2, StepImplements
  <2>3. CASE UNCHANGED vars
    <3>1. buffer' = buffer /\ call' = call  BY <2>3 DEF vars
    <3>. QED  BY <2>1, <3>1, Kept DEF Queue!vars
  <2>. QED  BY <2>2, <2>3
<1>. QED  BY <1>1, <1>2, PTL DEF Spec, ImplementsByteQueue, Queue!Spec
=============================================================================
