------------------------------ MODULE ByteQueue ------------------------------
(***************************************************************************)
(* What Net::Buffer promises: a queue of bytes read at the front and        *)
(* written at the end, with room kept free in front of it for a header      *)
(* that is known only once the rest is written.                             *)
(***************************************************************************)
EXTENDS Endian

CONSTANTS
    Headroom,       \* bytes in front that an unused queue has room for
    LF, CR,         \* the bytes of an end of line
    Chunk,          \* what is written at once
    Count,          \* how much is taken back or skipped at once
    Place,          \* places relative to the front, also before it
    IntSize         \* sizes of the integers

VARIABLES
    queue,          \* the bytes that have been written and not been read
    room,           \* bytes in front for which there certainly is room
    call            \* the last call: its name, argument and result

vars == <<queue, room, call>>

NotFound == -1

Init == queue = <<>> /\ room = Headroom /\ call = <<"none", 0, 0>>

Running == call[1] # "abort"

Least(m, n) == IF m < n THEN m ELSE n

\* Drop(n): the first n bytes leave the queue, or all if there are fewer.
Drop(n) ==
    /\ queue' = SubSeq(queue, n + 1, Len(queue))
    /\ room' = IF n < Len(queue) THEN Least(room + n, Headroom) ELSE Headroom

Append_(s) ==
    /\ call' = <<"Append", s, "ok">>
    /\ queue' = queue \o s
    /\ UNCHANGED room

Retrieve(n) == call' = <<"Retrieve", n, "ok">> /\ Drop(n)

\* Up to a place n bytes into the queue, or before it.
RetrieveUntil(n) ==
    /\ call' = <<"RetrieveUntil", n, "ok">>
    /\ IF n > 0 THEN Drop(n) ELSE UNCHANGED <<queue, room>>

RetrieveAsString(n) ==
    /\ call' = <<"RetrieveAsString", n, SubSeq(queue, 1, Least(n, Len(queue)))>>
    /\ Drop(n)

PeekInt(size) ==
    /\ size <= Len(queue)
    /\ call' = <<"PeekInt", size, NetworkToHost(SubSeq(queue, 1, size))>>
    /\ UNCHANGED <<queue, room>>

ReadInt(size) ==
    /\ size <= Len(queue)
    /\ call' = <<"ReadInt", size, NetworkToHost(SubSeq(queue, 1, size))>>
    /\ Drop(size)

Unwrite(n) ==
    /\ n <= Len(queue)
    /\ call' = <<"Unwrite", n, "ok">>
    /\ queue' = SubSeq(queue, 1, Len(queue) - n)
    /\ UNCHANGED room

\* What has been read may have left more room than is promised.
Prepend(s) ==
    /\ call' = <<"Prepend", s, "ok">>
    /\ queue' = s \o queue
    /\ room' \in (room - Len(s))..room \cap Nat

\* The place of the first separator that starts n or more bytes into the queue.
Find(op, separator, n) ==
    LET Places == {p \in 1..(Len(queue) - Len(separator) + 1) :
                      p > n /\ SubSeq(queue, p, p + Len(separator) - 1) = separator}
    IN  /\ call' = <<op, n, IF Places = {} THEN NotFound
                            ELSE CHOOSE p \in Places : \A q \in Places : p <= q>>
        /\ UNCHANGED <<queue, room>>

\* A call that cannot be served ends the program.
Abort ==
    /\ \/ \E size \in IntSize : size > Len(queue) /\ call' = <<"abort", "PeekInt", size>>
       \/ \E n \in Count : n > Len(queue) /\ call' = <<"abort", "Unwrite", n>>
       \/ \E s \in Chunk : Len(s) > room /\ call' = <<"abort", "Prepend", s>>
       \/ \E s \in Chunk : Len(s) > 0 /\ call' = <<"abort", "HasWritten", s>>
    /\ UNCHANGED <<queue, room>>

Next ==
    /\ Running
    /\ \/ \E s \in Chunk : Append_(s) \/ Prepend(s)
       \/ \E n \in Count :
              \/ Retrieve(n) \/ RetrieveAsString(n) \/ Unwrite(n)
              \/ Find("FindEOL", <<LF>>, n) \/ Find("FindCRLF", <<CR, LF>>, n)
       \/ \E n \in Place : RetrieveUntil(n)
       \/ \E size \in IntSize :
              \/ PeekInt(size) \/ ReadInt(size)
              \/ \E num \in Number(size) : Append_(HostToNetwork(num, size))
       \/ Abort

Spec == Init /\ [][Next]_vars
=============================================================================
