------------------------------- MODULE Buffer -------------------------------
(***************************************************************************)
(* Net::Buffer: one vector of bytes with two indices.  The bytes between    *)
(* reader_index_ and writer_index_ are the content, those before it are     *)
(* room for a header, those behind it are room to write.                    *)
(*                                                                         *)
(* An operator on a buffer b is a method; methods call one another as in    *)
(* the code, and an action is one call from outside.  A pointer into the    *)
(* content is its index in the vector.  A call that logs a FATAL message    *)
(* aborts the program.                                                      *)
(***************************************************************************)
EXTENDS Endian

CONSTANTS
    cheap_prepend_, initial_size_,
    LF, CR,
    ExtraSize,      \* size of the second buffer of ReadFd()
    SizeRange,      \* values of a size_t
    Chunk,          \* what is written, or arrives on a socket, at once
    IntSize,        \* sizes of the integers
    MaxReadable     \* bound: bytes in a buffer

ASSUME SizeAssumption ==
    /\ {cheap_prepend_, initial_size_, MaxReadable, ExtraSize} \subseteq Nat
    /\ SizeRange \in Nat /\ SizeRange > 2 * (cheap_prepend_ + initial_size_ + MaxReadable)
ASSUME ChunkAssumption ==
    {LF, CR} \subseteq Byte /\ Chunk \subseteq Seq(Byte) /\ IntSize \subseteq Nat

VARIABLES
    buffer,
    call            \* the last call: its name, argument and result

vars == <<buffer, call>>

NotFound == -1

Zeros(n) == [i \in 1..n |-> 0]

Least(m, n) == IF m < n THEN m ELSE n

-----------------------------------------------------------------------------
ReadableBytes(b) == b.writer_index_ - b.reader_index_
WritableBytes(b) == Len(b.buffer_) - b.writer_index_
PrependableBytes(b) == b.reader_index_

Content(b) == SubSeq(b.buffer_, b.reader_index_ + 1, b.writer_index_)

\* std::copy() of data to the index to.
Copied(bytes, to, data) ==
    [i \in 1..Len(bytes) |->
        IF i \in (to + 1)..(to + Len(data)) THEN data[i - to] ELSE bytes[i]]

\* Mutated form of MakeSpace: the room in front is never used again.
MakeSpace_Resize(b, len) ==
    [b EXCEPT !.buffer_ = @ \o Zeros(b.writer_index_ + len - Len(@))]

\* Room for len bytes: by a longer vector, unless moving the content to the front
\* makes it.
MakeSpace(b, len) ==
    IF WritableBytes(b) + PrependableBytes(b) < len + cheap_prepend_
    THEN [b EXCEPT !.buffer_ = @ \o Zeros(b.writer_index_ + len - Len(@))]
    ELSE [b EXCEPT !.buffer_ = Copied(@, cheap_prepend_, Content(b)),
                   !.reader_index_ = cheap_prepend_,
                   !.writer_index_ = cheap_prepend_ + ReadableBytes(b)]

EnsureWritableBytes(b, len) == IF WritableBytes(b) < len THEN MakeSpace(b, len) ELSE b

\* The bytes are there already; HasWritten() moves the index over them.
HasWritten(b, len) == [b EXCEPT !.writer_index_ = @ + len]

Append_(b, data) ==
    LET room == EnsureWritableBytes(b, Len(data))
    IN  HasWritten([room EXCEPT !.buffer_ = Copied(@, room.writer_index_, data)], Len(data))

RetrieveAll(b) ==
    [b EXCEPT !.reader_index_ = cheap_prepend_, !.writer_index_ = cheap_prepend_]

\* Mutated form of Retrieve: what is not there is read as well.
Retrieve_Unchecked(b, len) ==
    IF len = ReadableBytes(b) THEN RetrieveAll(b) ELSE [b EXCEPT !.reader_index_ = @ + len]

Retrieve(b, len) ==
    IF len < ReadableBytes(b) THEN [b EXCEPT !.reader_index_ = @ + len] ELSE RetrieveAll(b)

\* After RetrieveAll() the distance from Peek() to end is that of two unrelated
\* places, and as a size_t it may be huge.
RetrieveUntil(b, end) ==
    LET rest == IF end >= b.writer_index_ THEN RetrieveAll(b) ELSE b
    IN  IF end <= b.reader_index_ THEN b
        ELSE Retrieve(rest, (end - rest.reader_index_) % SizeRange)

Prepend(b, data) ==
    LET front == b.reader_index_ - Len(data)
    IN  [b EXCEPT !.reader_index_ = front, !.buffer_ = Copied(@, front, data)]

\* FindEOL() and FindCRLF(): where the separator begins, from start or from the
\* beginning of the content, whichever is later.
Find(b, separator, start) ==
    LET from == IF start < b.reader_index_ THEN b.reader_index_ ELSE start
        Found == {p \in from..(b.writer_index_ - Len(separator)) :
                     SubSeq(b.buffer_, p + 1, p + Len(separator)) = separator}
    IN  IF start > b.writer_index_ \/ Found = {} THEN NotFound
        ELSE CHOOSE p \in Found : \A q \in Found : p <= q

\* Mutated form of ReadFd: the rest is appended where the first part begins.
ReadFd_Rest(b, data) ==
    LET writable == WritableBytes(b)
        first == SubSeq(data, 1, Least(writable, Len(data)))
        filled == [b EXCEPT !.buffer_ = Copied(@, b.writer_index_, first)]
    IN  IF Len(data) <= writable THEN [filled EXCEPT !.writer_index_ = @ + Len(first)]
        ELSE Append_(filled, SubSeq(data, writable + 1, Len(data)))

\* readv() fills the room behind the content first, and a second buffer with what
\* does not fit.
ReadFd(b, data) ==
    LET writable == WritableBytes(b)
        first == SubSeq(data, 1, Least(writable, Len(data)))
        filled == [b EXCEPT !.buffer_ = Copied(@, b.writer_index_, first),
                            !.writer_index_ = @ + Len(first)]
    IN  IF Len(data) <= writable THEN filled
        ELSE Append_(filled, SubSeq(data, writable + 1, Len(data)))

-----------------------------------------------------------------------------
Init ==
    /\ buffer = [buffer_ |-> Zeros(cheap_prepend_ + initial_size_),
                 reader_index_ |-> cheap_prepend_, writer_index_ |-> cheap_prepend_]
    /\ call = <<"none", 0, 0>>

Running == call[1] # "abort"

Fits(s) == ReadableBytes(buffer) + Len(s) <= MaxReadable

\* Lengths the content has, and one more.
Count == 0..(MaxReadable + 1)

\* Places in the content and around it, relative to its first byte.
Place == (-cheap_prepend_)..(MaxReadable + 1)

Does(op, arg, result, b) == buffer' = b /\ call' = <<op, arg, result>>

Aborts(op, arg) == call' = <<"abort", op, arg>> /\ UNCHANGED buffer

AppendBytes(s) == Fits(s) /\ Does("Append", s, "ok", Append_(buffer, s))

AppendInt(num, size) == AppendBytes(HostToNetwork(num, size))

\* The caller has put bytes behind the content itself, as far as there was room.
WriteBytes(s) ==
    /\ Fits(s)
    /\ IF Len(s) > WritableBytes(buffer) THEN Aborts("HasWritten", s)
       ELSE Does("Append", s, "ok",
                 HasWritten([buffer EXCEPT !.buffer_ = Copied(@, buffer.writer_index_, s)], Len(s)))

\* At most as much as the two buffers hold.
ReadSocket(data) ==
    LET writable == WritableBytes(buffer)
    IN  /\ Fits(data)
        /\ Len(data) <= IF writable < ExtraSize THEN writable + ExtraSize ELSE writable
        /\ Does("Append", data, "ok", ReadFd(buffer, data))

RetrieveBytes(n) == Does("Retrieve", n, "ok", Retrieve(buffer, n))

RetrieveTo(n) ==
    /\ buffer.reader_index_ + n >= 0
    /\ Does("RetrieveUntil", n, "ok", RetrieveUntil(buffer, buffer.reader_index_ + n))

\* RetrieveAllAsString() asks for as much as there is.
RetrieveAsString(n) ==
    LET read_len == Least(n, ReadableBytes(buffer))
    IN  Does("RetrieveAsString", n, SubSeq(Content(buffer), 1, read_len), Retrieve(buffer, n))

First(size) == NetworkToHost(SubSeq(Content(buffer), 1, size))

PeekInt(size) ==
    IF ReadableBytes(buffer) < size THEN Aborts("PeekInt", size)
    ELSE Does("PeekInt", size, First(size), buffer)

ReadInt(size) ==
    IF ReadableBytes(buffer) < size THEN Aborts("PeekInt", size)
    ELSE Does("ReadInt", size, First(size), Retrieve(buffer, size))

Unwrite(n) ==
    IF n > ReadableBytes(buffer) THEN Aborts("Unwrite", n)
    ELSE Does("Unwrite", n, "ok", [buffer EXCEPT !.writer_index_ = @ - n])

PrependBytes(s) ==
    /\ Fits(s)
    /\ IF PrependableBytes(buffer) < Len(s) THEN Aborts("Prepend", s)
       ELSE Does("Prepend", s, "ok", Prepend(buffer, s))

\* The result is told as a place in the content, the first one being 1.
FindFrom(op, separator, n) ==
    LET p == Find(buffer, separator, buffer.reader_index_ + n)
    IN  Does(op, n, IF p = NotFound THEN NotFound ELSE p - buffer.reader_index_ + 1, buffer)

Next ==
    /\ Running
    /\ \/ \E s \in Chunk : AppendBytes(s) \/ WriteBytes(s) \/ PrependBytes(s) \/ ReadSocket(s)
       \/ \E size \in IntSize :
              \/ PeekInt(size) \/ ReadInt(size)
              \/ \E num \in Number(size) : AppendInt(num, size)
       \/ \E n \in Count : RetrieveBytes(n) \/ RetrieveAsString(n) \/ Unwrite(n)
       \/ \E n \in Place : RetrieveTo(n)
       \/ \E n \in Count :
              FindFrom("FindEOL", <<LF>>, n) \/ FindFrom("FindCRLF", <<CR, LF>>, n)

Spec == Init /\ [][Next]_vars

-----------------------------------------------------------------------------
TypeOK ==
    /\ buffer \in [buffer_ : Seq(Byte), reader_index_ : Nat, writer_index_ : Nat]
    /\ buffer.reader_index_ <= buffer.writer_index_
    /\ buffer.writer_index_ <= Len(buffer.buffer_)

Queue == INSTANCE ByteQueue WITH
    Headroom <- cheap_prepend_,
    queue <- Content(buffer),
    room <- Least(PrependableBytes(buffer), cheap_prepend_)

\* However the content is moved, grown or wrapped around the prepended header, a
\* Buffer is a queue of bytes: nothing is lost, repeated or out of order, every
\* result is the queue's, and Prepend() aborts only a caller that asks for more
\* than what is left of the headroom.
ImplementsByteQueue == Queue!Spec

\* The vector grows only as far as a call needs it: a buffer that is written and
\* read for ever is not longer than twice what it held at once, and the headroom.
GrowthBounded ==
    [][Len(buffer'.buffer_) > Len(buffer.buffer_) =>
          Len(buffer'.buffer_) < 2 * ReadableBytes(buffer') + cheap_prepend_]_vars
=============================================================================
