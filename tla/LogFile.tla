------------------------------ MODULE LogFile ------------------------------
(***************************************************************************)
(* Log::LogFile written by Loggers of several threads, as in                *)
(* sample/log/LogFile.cpp, over Base::WriteFile, and a Base::ReadFile of    *)
(* its first file.  A Logger composes its line in its own LogStream and     *)
(* hands it to append(), which holds mutex_; a FATAL one then flushes and   *)
(* aborts.  The file is rolled by size and by period, and named by the      *)
(* second.  The clock may be set back, and fopen() may fail.                *)
(*                                                                         *)
(* A file holds lines, which reading takes for bytes.  stdio may write what *)
(* it has at any time; that writing fails is left out.                      *)
(***************************************************************************)
EXTENDS LogStream, TLC

CONSTANTS
    Thread, Items,                  \* what the users insert
    rollSize_, flushInterval_, checkEveryN_, kRollPerSeconds_,
    ReadSize,
    MaxItem, MaxLine, MaxTime       \* bounds

ASSUME ItemsAssumption == Items \subseteq Item
ASSUME FileAssumption ==
    /\ {rollSize_, flushInterval_, ReadSize, MaxItem, MaxLine} \subseteq Nat
    /\ {checkEveryN_, kRollPerSeconds_, MaxTime} \subseteq Nat \ {0}

VARIABLES
    now,            \* time(NULL)
    log,            \* the LogFile
    disk,           \* files that were opened: their names and what is written
    lines,          \* number of lines appended
    unopened,       \* those of them that went to a file that was not opened
    logger,         \* of each thread, its Logger
    aborted,        \* the number of the FATAL line the process has ended with, or 0
    reader          \* the ReadFile

fileVars == <<now, log, disk, lines, unopened, logger, aborted, reader>>

Line == [no : 1..MaxLine, len : 0..SIZE, at : 0..MaxTime]

FileType ==
    /\ now \in 0..MaxTime
    /\ log \in [name : 0..MaxTime, opened : BOOLEAN, writen_bytes_ : Nat, buffered : Seq(Line),
                count_ : 0..checkEveryN_, startOfPeriod_ : 0..MaxTime,
                lastRoll_ : 0..MaxTime, lastFlush_ : 0..MaxTime]
    /\ disk \in Seq([name : 0..MaxTime, lines : Seq(Line)])
    /\ lines \in 0..MaxLine /\ unopened \subseteq 1..MaxLine /\ aborted \in 0..MaxLine
    /\ logger \in [Thread -> [at : {"none", "flush", "abort"}, no : 0..MaxLine]]

-----------------------------------------------------------------------------
(* WriteFile.                                                               *)

Written(files, l) ==
    IF l.opened /\ l.buffered # <<>>
    THEN [files EXCEPT ![Len(files)].lines = @ \o l.buffered] ELSE files

Flushed(l) == [l EXCEPT !.buffered = <<>>]

\* The old file is closed.  fopen() may fail, which nobody looks at.
Open(s, name, opened) ==
    [log |-> [s.log EXCEPT !.name = name, !.opened = opened, !.writen_bytes_ = 0, !.buffered = <<>>],
     disk |-> IF opened THEN Append(Written(s.disk, s.log), [name |-> name, lines |-> <<>>])
              ELSE Written(s.disk, s.log)]

AppendFile(l, line) ==
    IF l.opened
    THEN [l EXCEPT !.buffered = Append(@, line), !.writen_bytes_ = @ + line.len] ELSE l

-----------------------------------------------------------------------------
(* LogFile, as operators on log and disk.                                   *)

Period(time) == (time \div kRollPerSeconds_) * kRollPerSeconds_

Rolled(s, opened) ==
    LET new == Open(s, now, opened)
    IN  [new EXCEPT !.log.lastRoll_ = now, !.log.lastFlush_ = now,
                    !.log.startOfPeriod_ = Period(now)]

\* Mutated form of rollFile: rolls again within the second.
rollFile_Again(s, opened) == IF now >= s.log.lastRoll_ THEN Rolled(s, opened) ELSE s

rollFile(s, opened) == IF now > s.log.lastRoll_ THEN Rolled(s, opened) ELSE s

\* Mutated form of append_unlocked: looks at the time one line late.
append_unlocked_Late(s, line, opened) ==
    LET written == [s EXCEPT !.log = AppendFile(@, line)]
        counted == [written EXCEPT !.log.count_ = @ + 1]
        checked == [written EXCEPT !.log.count_ = 0]
    IN  IF written.log.writen_bytes_ > rollSize_ THEN rollFile(written, opened)
        ELSE IF counted.log.count_ <= checkEveryN_ THEN counted
        ELSE IF Period(now) # s.log.startOfPeriod_ THEN rollFile(checked, opened) ELSE checked

append_unlocked(s, line, opened) ==
    LET written == [s EXCEPT !.log = AppendFile(@, line)]
        counted == [written EXCEPT !.log.count_ = @ + 1]
        checked == [written EXCEPT !.log.count_ = 0]
    IN  IF written.log.writen_bytes_ > rollSize_ THEN rollFile(written, opened)
        ELSE IF counted.log.count_ < checkEveryN_ THEN counted
        ELSE IF Period(now) # s.log.startOfPeriod_ THEN rollFile(checked, opened)
        ELSE IF now - s.log.lastFlush_ > flushInterval_
        THEN [log |-> Flushed([checked.log EXCEPT !.lastFlush_ = now]),
              disk |-> Written(checked.disk, checked.log)]
        ELSE checked

-----------------------------------------------------------------------------
NoLogger == [at |-> "none", no |-> 0]
NoReader == [method |-> "", status |-> "", context |-> <<>>, offset |-> 0, faulty |-> FALSE]

FileInit ==
    /\ now = 1
    /\ \E opened \in BOOLEAN :
           LET zeroed == [name |-> 0, opened |-> FALSE, writen_bytes_ |-> 0, buffered |-> <<>>,
                          count_ |-> 0, startOfPeriod_ |-> 0, lastRoll_ |-> 0, lastFlush_ |-> 0]
               s == rollFile([log |-> zeroed, disk |-> <<>>], opened)
           IN  log = s.log /\ disk = s.disk
    /\ lines = 0 /\ unopened = {} /\ aborted = 0
    /\ logger = [t \in Thread |-> NoLogger]
    /\ reader = NoReader

\* The constructor of Logger, the insertions and finish() work on the thread's own stream.
Log(t, level, items, opened) ==
    /\ logger[t].at = "none" /\ lines < MaxLine
    /\ LET line == [no |-> lines + 1, len |-> Len(Composed(items)), at |-> now]
           s == append_unlocked([log |-> log, disk |-> disk], line, opened)
       IN  log' = s.log /\ disk' = s.disk
    /\ lines' = lines + 1
    /\ unopened' = IF log.opened THEN unopened ELSE unopened \cup {lines + 1}
    /\ logger' = IF level = "FATAL"
                 THEN [logger EXCEPT ![t] = [at |-> "flush", no |-> lines + 1]] ELSE logger
    /\ UNCHANGED <<now, aborted, reader>>

\* Mutated form of Flush: the file is not flushed.
Flush_Nothing(t) ==
    /\ logger[t].at = "flush"
    /\ logger' = [logger EXCEPT ![t].at = "abort"]
    /\ UNCHANGED <<now, log, disk, lines, unopened, aborted, reader>>

Flush(t) ==
    /\ logger[t].at = "flush"
    /\ log' = Flushed(log) /\ disk' = Written(disk, log)
    /\ logger' = [logger EXCEPT ![t].at = "abort"]
    /\ UNCHANGED <<now, lines, unopened, aborted, reader>>

Abort(t) ==
    /\ logger[t].at = "abort"
    /\ aborted' = logger[t].no
    /\ UNCHANGED <<now, log, disk, lines, unopened, logger, reader>>

StdioWrites ==
    /\ log.buffered # <<>>
    /\ log' = Flushed(log) /\ disk' = Written(disk, log)
    /\ UNCHANGED <<now, lines, unopened, logger, aborted, reader>>

Clock ==
    /\ \/ now < MaxTime /\ now' = now + 1
       \/ now > 0 /\ now' = now - 1
    /\ UNCHANGED <<log, disk, lines, unopened, logger, aborted, reader>>

-----------------------------------------------------------------------------
(* ReadFile, of the first file.                                             *)

Numbers(s) == [i \in DOMAIN s |-> s[i].no]

\* open() may fail, and the constructor does not mind a descriptor 0, but getFileSize()
\* does, which only readToString() calls.
OpenReader(method, fd_) ==
    /\ reader.method = "" /\ disk # <<>>
    /\ reader' = [reader EXCEPT !.method = method,
          !.status = IF fd_ < 0 \/ (fd_ = 0 /\ method = "readToString")
                     THEN "FILE_OPEN_FAILED" ELSE ""]
    /\ UNCHANGED <<now, log, disk, lines, unopened, logger, aborted>>

Reading == reader.method # "" /\ reader.status = "" /\ Len(reader.context) < ReadSize

\* Mutated form of ReadSome: always reads as much as the buffer was made for.
ReadSome_Whole ==
    /\ Reading
    /\ \E n \in 1..ReadSize :
           /\ reader.offset + n <= Len(disk[1].lines)
           /\ reader' = [reader EXCEPT
                  !.context = @ \o Numbers(SubSeq(disk[1].lines, reader.offset + 1, reader.offset + n)),
                  !.offset = @ + n]
    /\ UNCHANGED <<now, log, disk, lines, unopened, logger, aborted>>

ReadSome ==
    /\ Reading
    /\ \E n \in 1..(ReadSize - Len(reader.context)) :
           /\ reader.offset + n <= Len(disk[1].lines)
           /\ reader' = [reader EXCEPT
                  !.context = @ \o Numbers(SubSeq(disk[1].lines, reader.offset + 1, reader.offset + n)),
                  !.offset = @ + n]
    /\ UNCHANGED <<now, log, disk, lines, unopened, logger, aborted>>

ReadEnds ==
    /\ reader.method # "" /\ reader.status = ""
    /\ Reading => reader.offset = Len(disk[1].lines)
    /\ reader' = [reader EXCEPT !.status = "SUCCESS"]
    /\ UNCHANGED <<now, log, disk, lines, unopened, logger, aborted>>

\* read() fails, once.  readToByte() keeps its result in a size_t, takes -1 for a number
\* of bytes, and goes back by one; with none read yet that is past the end.
ReadFails ==
    /\ Reading /\ ~reader.faulty
    /\ reader' = [reader EXCEPT !.faulty = TRUE,
          !.status = IF reader.method = "readToString" THEN "FILE_READ_FAILED"
                     ELSE IF reader.context = <<>> THEN "SUCCESS" ELSE "",
          !.context = IF reader.method = "readToByte" /\ @ # <<>> THEN Front(@) ELSE @]
    /\ UNCHANGED <<now, log, disk, lines, unopened, logger, aborted>>

ReaderStep ==
    \/ \E method \in {"readToString", "readToByte"}, fd_ \in {-1, 0, 3} : OpenReader(method, fd_)
    \/ ReadSome \/ ReadEnds \/ ReadFails

LoggerStep(t) ==
    \/ \E level \in {"INFO", "FATAL"}, items \in SeqOf(Items, MaxItem), opened \in BOOLEAN :
           Log(t, level, items, opened)
    \/ Flush(t) \/ Abort(t)

FileNext ==
    \/ aborted = 0 /\ \E t \in Thread : LoggerStep(t)
    \/ aborted = 0 /\ (StdioWrites \/ Clock)
    \/ aborted = 0 /\ ReaderStep

FileSpec == FileInit /\ [][FileNext]_fileVars

-----------------------------------------------------------------------------
\* What was written and what stdio still holds, file by file.
Files == IF log.opened THEN [disk EXCEPT ![Len(disk)].lines = @ \o log.buffered] ELSE disk

\* Each line is in one file, once and in order, over all rolls and flushes, unless it
\* went to a file that was not opened; and no file is opened again under its name,
\* also when the clock is set back.
LinesOnce ==
    /\ FileType
    /\ \A i, j \in DOMAIN Files : \A a \in DOMAIN Files[i].lines, b \in DOMAIN Files[j].lines :
           i < j \/ (i = j /\ a < b) => Files[i].lines[a].no < Files[j].lines[b].no
    /\ UNION {Range(Numbers(f.lines)) : f \in Range(Files)} = (1..lines) \ unopened
    /\ \A i, j \in DOMAIN disk : i < j => disk[i].name < disk[j].name

Bytes(ls) == FoldLeft(LAMBDA sum, l : sum + l.len, 0, ls)

\* A file gets no more than checkEveryN_ lines of a later period in a row, and a line
\* beyond rollSize_ only within the second in which the file was opened, or if the clock
\* was set back.  In all it may get more lines of a later period: one of its own period
\* resets count_ when the clock is set back in between.
RollsInTime ==
    \A f \in Range(Files) : \A i \in DOMAIN f.lines :
        /\ i + checkEveryN_ \in DOMAIN f.lines =>
               \E k \in i..(i + checkEveryN_) : Period(f.lines[k].at) <= Period(f.name)
        /\ i < Len(f.lines) /\ f.lines[i].at > f.name => Bytes(SubSeq(f.lines, 1, i)) <= rollSize_

\* When a FATAL line ends the process, it and all lines before it are on the disk,
\* whatever other threads log or roll between the line, the flush and abort().
FatalOnDisk ==
    \A n \in 1..aborted : n \in unopened \/ \E f \in Range(disk) : n \in Range(Numbers(f.lines))

\* Reading a file that is being written gives a prefix of it, and no more than asked
\* for, unless read() has failed in readToByte().
ReadPrefix ==
    /\ Len(reader.context) <= ReadSize
    /\ \/ reader.method = "readToByte" /\ reader.faulty
       \/ reader.context = <<>>
       \/ IsPrefix(reader.context, Numbers(disk[1].lines))

AllWhole ==
    InsertsWhole(Items \cup Numeric)

\* In a line, and at any place of a stream, an item is whole or missing, and every number
\* is its numeral; a line never fills its buffer, for what convert() writes behind it.
WholeItems ==
    /\ AllWhole
    /\ \A f \in Range(Files) : \A line \in Range(f.lines) : line.len < SIZE
=============================================================================
