----------------------------- MODULE AsyncLogging -----------------------------
(***************************************************************************)
(* Log::AsyncLogging: any thread appends a line to currentBuffer_ under     *)
(* mutex_; a logging thread collects the full buffers, writes them to a     *)
(* LogFile and recycles two of them, so that appending rarely allocates.    *)
(*                                                                         *)
(* Lines are numbered in the order Append() got the mutex.  A buffer keeps  *)
(* the numbers of its lines and how many bytes it uses.  A unique_ptr to a  *)
(* buffer is a sequence of at most one buffer: <<>> is the null pointer.    *)
(***************************************************************************)
EXTENDS Integers, Sequences

CONSTANTS
    BufferSize,     \* kLargeBuffer
    MaxBuffers,     \* 25: with more buffers than this to write, lines are dropped
    Lens,           \* the lengths a line may have
    MaxLines        \* bound on the number of lines appended

ASSUME SizeAssumption ==
    /\ BufferSize \in Nat \ {0}
    /\ MaxBuffers \in Nat /\ MaxBuffers >= 2
    /\ Lens \subseteq Nat
    /\ MaxLines \in Nat

VARIABLES
    currentBuffer_, nextBuffer_,    \* unique_ptrs, the spare one may be null
    buffers_,                       \* the full buffers, oldest first
    running_,
    started_, joined_,              \* of thread_
    latched,                        \* latch_ has been counted down
    pc,                             \* where the logging thread is
    newBuffer1, newBuffer2,         \* the logging thread's spare buffers
    buffersToWrite,
    owner,                          \* the thread that calls Start() and Stop()
    file,                           \* the lines written to the LogFile
    total,                          \* history: the number of lines appended
    lost                            \* history: the lines the code threw away

shared == <<currentBuffer_, nextBuffer_, buffers_>>
local == <<newBuffer1, newBuffer2, buffersToWrite>>
control == <<running_, started_, joined_, latched, pc, owner>>
vars == <<shared, local, control, file, total, lost>>

\* One byte of a buffer always stays free: a line must be shorter than the room.
Buffer == [lines : Seq(Nat), used : 0..(BufferSize - 1)]

IsPointer(p) == p \in Seq(Buffer) /\ Len(p) <= 1

PcState == {
    "none",         \* pthread_create has not been called, or has failed
    "begin",        \* in ThreadFunc(), before latch_.CountDown()
    "test",         \* about to read running_
    "lock",         \* about to hold mutex_ and test buffers_.empty()
    "wait",         \* asleep on cond_, for flushInterval_ at most
    "woken",        \* the wait is over, about to hold mutex_ again
    "write",        \* writing buffersToWrite
    "done"}         \* ThreadFunc() has returned

OwnerState == {"idle", "latch", "started", "notify", "join", "stopped", "aborted"}

\* Types (what file and lost hold, LinesInOrder says), with two facts: no buffer
\* ever overflows, and buffersToWrite is empty but between Swap and Write.
TypeOK ==
    /\ IsPointer(currentBuffer_) /\ currentBuffer_ # <<>>
    /\ IsPointer(nextBuffer_) /\ IsPointer(newBuffer1) /\ IsPointer(newBuffer2)
    /\ buffers_ \in Seq(Buffer) /\ buffersToWrite \in Seq(Buffer)
    /\ {running_, started_, joined_, latched} \subseteq BOOLEAN
    /\ pc \in PcState /\ owner \in OwnerState
    /\ buffersToWrite # <<>> <=> pc = "write"
    /\ total \in Nat

Empty == [lines |-> <<>>, used |-> 0]

Init ==
    /\ currentBuffer_ = <<Empty>> /\ nextBuffer_ = <<Empty>> /\ buffers_ = <<>>
    /\ running_ = FALSE /\ started_ = FALSE /\ joined_ = FALSE /\ latched = FALSE
    /\ pc = "none" /\ owner = "idle"
    /\ newBuffer1 = <<>> /\ newBuffer2 = <<>> /\ buffersToWrite = <<>>
    /\ file = <<>> /\ total = 0 /\ lost = {}

-----------------------------------------------------------------------------
\* FixedBuffer.
\* Mutated form of Fits: a line as long as the room that is left is accepted.
Fits_OrEqual(b, len) == BufferSize - b.used >= len

Fits(b, len) == BufferSize - b.used > len

append(b, line, len) ==
    IF Fits(b, len)
    THEN [lines |-> Append(b.lines, line), used |-> b.used + len]
    ELSE b

\* Mutated form of reset: a recycled buffer keeps its lines.
reset_Kept(b) == b

reset(b) == Empty

\* cond_.notify(): the logging thread is the only one that waits.
notify == pc' = IF pc = "wait" THEN "woken" ELSE pc

-----------------------------------------------------------------------------
\* Append() by any thread.  A line as long as a whole buffer fits into none and
\* is thrown away by the second append.
AppendFits(len) ==
    /\ owner # "aborted" /\ total < MaxLines
    /\ Fits(currentBuffer_[1], len)
    /\ currentBuffer_' = <<append(currentBuffer_[1], total + 1, len)>>
    /\ total' = total + 1
    /\ UNCHANGED <<nextBuffer_, buffers_, local, control, file, lost>>

AppendNextBuffer(len) ==
    /\ owner # "aborted" /\ total < MaxLines
    /\ ~Fits(currentBuffer_[1], len)
    /\ buffers_' = buffers_ \o currentBuffer_
    /\ LET fresh == IF nextBuffer_ # <<>> THEN nextBuffer_[1] ELSE Empty
       IN  /\ currentBuffer_' = <<append(fresh, total + 1, len)>>
           /\ lost' = IF Fits(fresh, len) THEN lost ELSE lost \cup {total + 1}
    /\ nextBuffer_' = <<>>
    /\ total' = total + 1
    /\ notify
    /\ UNCHANGED <<local, running_, started_, joined_, latched, owner, file>>

-----------------------------------------------------------------------------
(* ThreadFunc().                                                            *)

Begin ==
    /\ pc = "begin"
    /\ latched' = TRUE
    /\ newBuffer1' = <<Empty>> /\ newBuffer2' = <<Empty>>
    /\ pc' = "test"
    /\ UNCHANGED <<shared, buffersToWrite, running_, started_, joined_, owner,
                   file, total, lost>>

TestRunning ==
    /\ pc = "test" /\ owner # "aborted"
    /\ pc' = IF running_ THEN "lock" ELSE "done"
    /\ UNCHANGED <<shared, local, running_, started_, joined_, latched, owner,
                   file, total, lost>>

WaitForSeconds ==
    /\ pc = "lock" /\ owner # "aborted"
    /\ buffers_ = <<>>
    /\ pc' = "wait"
    /\ UNCHANGED <<shared, local, running_, started_, joined_, latched, owner,
                   file, total, lost>>

\* Mutated form of Timeout: the wait has no time limit.
Timeout_Never == FALSE /\ UNCHANGED vars

\* flushInterval_ has passed, or the wake-up is spurious.
Timeout ==
    /\ pc = "wait" /\ owner # "aborted"
    /\ pc' = "woken"
    /\ UNCHANGED <<shared, local, running_, started_, joined_, latched, owner,
                   file, total, lost>>

\* Mutated forms of Swap: Append()'s spare is replaced although it is still there;
\* and what is in currentBuffer_ goes before the full buffers.
Swap_OneSpare ==
    /\ \/ pc = "lock" /\ buffers_ # <<>>
       \/ pc = "woken"
    /\ owner # "aborted"
    /\ buffersToWrite' = buffers_ \o currentBuffer_
    /\ buffers_' = <<>>
    /\ currentBuffer_' = newBuffer1 /\ newBuffer1' = <<>>
    /\ nextBuffer_' = newBuffer2 /\ newBuffer2' = <<>>
    /\ pc' = "write"
    /\ UNCHANGED <<running_, started_, joined_, latched, owner, file, total, lost>>

Swap_CurrentFirst ==
    /\ \/ pc = "lock" /\ buffers_ # <<>>
       \/ pc = "woken"
    /\ owner # "aborted"
    /\ buffersToWrite' = currentBuffer_ \o buffers_
    /\ buffers_' = <<>>
    /\ currentBuffer_' = newBuffer1 /\ newBuffer1' = <<>>
    /\ IF nextBuffer_ = <<>>
       THEN nextBuffer_' = newBuffer2 /\ newBuffer2' = <<>>
       ELSE UNCHANGED <<nextBuffer_, newBuffer2>>
    /\ pc' = "write"
    /\ UNCHANGED <<running_, started_, joined_, latched, owner, file, total, lost>>

\* The rest of the critical section, after the wait if there was one: the test
\* of buffers_ is not repeated.
Swap ==
    /\ \/ pc = "lock" /\ buffers_ # <<>>
       \/ pc = "woken"
    /\ owner # "aborted"
    /\ buffersToWrite' = buffers_ \o currentBuffer_
    /\ buffers_' = <<>>
    /\ currentBuffer_' = newBuffer1 /\ newBuffer1' = <<>>
    /\ IF nextBuffer_ = <<>>
       THEN nextBuffer_' = newBuffer2 /\ newBuffer2' = <<>>
       ELSE UNCHANGED <<nextBuffer_, newBuffer2>>
    /\ pc' = "write"
    /\ UNCHANGED <<running_, started_, joined_, latched, owner, file, total, lost>>

\* The lines of a sequence of buffers, in order.
Lines(bufs) ==
    LET upto[i \in 0..Len(bufs)] ==
            IF i = 0 THEN <<>> ELSE upto[i - 1] \o bufs[i].lines
    IN  upto[Len(bufs)]

Elements(q) == {q[i] : i \in DOMAIN q}

\* buffersToWrite without those dropped because there are too many.
Kept == IF Len(buffersToWrite) > MaxBuffers THEN SubSeq(buffersToWrite, 1, 2)
                                            ELSE buffersToWrite

\* The back of the (at most two) buffers left for recycling, n of them used up.
Spare(n) ==
    LET left == (IF Len(Kept) > 2 THEN 2 ELSE Len(Kept)) - n
    IN  IF left > 0 THEN <<reset(Kept[left])>> ELSE <<>>

\* Writing, recycling and flushing touch the logging thread's own data only.
Write ==
    /\ pc = "write" /\ owner # "aborted"
    /\ file' = file \o Lines(Kept)
    /\ lost' = lost \cup (Elements(Lines(buffersToWrite)) \ Elements(Lines(Kept)))
    /\ newBuffer1' = Spare(0)
    /\ newBuffer2' = IF newBuffer2 = <<>> THEN Spare(1) ELSE newBuffer2
    /\ buffersToWrite' = <<>>
    /\ pc' = "test"
    /\ UNCHANGED <<shared, running_, started_, joined_, latched, owner, total>>

-----------------------------------------------------------------------------
(* Start() and Stop().                                                      *)

\* Thread::start() creates no second thread; without one, or when pthread_create
\* fails, Start() still goes on to wait for the latch.
Start(created) ==
    /\ owner \in {"idle", "stopped"}
    /\ running_' = TRUE
    /\ started_' = (started_ \/ created)
    /\ pc' = IF ~started_ /\ created THEN "begin" ELSE pc
    /\ owner' = "latch"
    /\ UNCHANGED <<shared, local, joined_, latched, file, total, lost>>

LatchWait ==
    /\ owner = "latch"
    /\ latched
    /\ owner' = "started"
    /\ UNCHANGED <<shared, local, running_, started_, joined_, latched, pc,
                   file, total, lost>>

\* Stop() holds no mutex: its notify may come before the wait it should end.
Stop ==
    /\ owner = "started"
    /\ running_' = FALSE
    /\ owner' = "notify"
    /\ UNCHANGED <<shared, local, started_, joined_, latched, pc, file, total, lost>>

StopNotify ==
    /\ owner = "notify"
    /\ notify
    /\ owner' = "join"
    /\ UNCHANGED <<shared, local, running_, started_, joined_, latched,
                   file, total, lost>>

\* Thread::join() asserts that the thread has not been joined before; joining it
\* again without the assertion is undefined.  "aborted" stands for both.
Join ==
    /\ owner = "join"
    /\ \/ joined_ /\ owner' = "aborted" /\ joined_' = joined_
       \/ ~joined_ /\ pc = "done" /\ owner' = "stopped" /\ joined_' = TRUE
    /\ UNCHANGED <<shared, local, running_, started_, latched, pc, file, total, lost>>

-----------------------------------------------------------------------------
ThreadStep ==
    Begin \/ TestRunning \/ WaitForSeconds \/ Timeout \/ Swap \/ Write

OwnerStep == LatchWait \/ StopNotify \/ Join

Next ==
    \/ \E len \in Lens : AppendFits(len) \/ AppendNextBuffer(len)
    \/ Begin \/ TestRunning \/ WaitForSeconds \/ Timeout \/ Swap \/ Write
    \/ \E created \in BOOLEAN : Start(created)
    \/ LatchWait \/ Stop \/ StopNotify \/ Join

\* The logging thread is scheduled, gets the mutex and its wait times out; a
\* call of Start() or Stop() goes on when it can.
Spec == Init /\ [][Next]_vars /\ WF_vars(ThreadStep) /\ WF_vars(OwnerStep)

-----------------------------------------------------------------------------
\* The assertions before the two recycling steps: there is a written buffer for
\* each spare that the swap gave away, whatever appending did in between.
RecycleNeverEmpty ==
    pc = "write" => /\ newBuffer1 = <<>>
                    /\ newBuffer2 = <<>> => Len(buffersToWrite) >= 2

Flow == file \o Lines(buffersToWrite) \o Lines(buffers_) \o Lines(currentBuffer_)

\* From Append() to the file no line is duplicated or overtaken, and none
\* disappears but those too long for a buffer or dropped as too many: swapping,
\* recycling and appending during a write keep the buffers apart.
LinesInOrder ==
    /\ \A i, j \in DOMAIN Flow : i < j => Flow[i] < Flow[j]
    /\ Elements(Flow) = 1..total \ lost

\* A line reaches the file, or is thrown away, also when no further line fills
\* the buffer; unless the logging is stopped, or the thread has been.
LineWritten ==
    \A line \in 1..MaxLines :
        line <= total /\ started_
            ~> line \in Elements(file) \cup lost \/ ~running_ \/ pc = "done"

\* Stop() returns even when its notify finds nobody waiting: the time limit of
\* the wait makes up for it.
StopReturns == owner = "notify" ~> owner \in {"stopped", "aborted"}
=============================================================================
