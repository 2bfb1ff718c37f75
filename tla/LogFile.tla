------------------------------ MODULE LogFile ------------------------------
(***************************************************************************)
(* One output sink (src/src/server/output/log_file.cpp): up to two files,  *)
(* a text file and a JSONL file, each with a chain of rotated generations. *)
(*                                                                         *)
(* Every member of LogFile is touched only by handlers that run on the     *)
(* sink's strand, so at most one handler is under way: `job' says which    *)
(* and `pc' where in it.  A handler takes one step per filesystem call, so *)
(* that a storage fault or the death of the process can fall between any   *)
(* two of them.                                                            *)
(*                                                                         *)
(* A record is a number: records are numbered in the order in which the    *)
(* strand takes them up.  A file is the set of records written to it       *)
(* whole, and its length, to which a line that was cut short adds as well. *)
(***************************************************************************)
EXTENDS Integers

CONSTANTS
    NumFiles,         \* 1 or 2: file 1 is written first (text, then JSONL)
    LineSize,         \* LineSize[f]: bytes one record takes in file f
    MaxSize,          \* max_size; 0 = never rotate
    Cap,              \* how far rotate() probes when max_files = 0 (1000)
    MaxFilesChoices,  \* values max_files may have when the process starts
    IncludeMalformed, \* include_malformed
    Hazards,          \* what the environment may do, see AllHazards
    MaxMsgs           \* bound: messages routed to the sink in a behaviour

Files == 1..NumFiles

\* Generation 0 is the active file, generation g > 0 is rotatedPath(base, g).
Gens == 0..(Cap + 1)

\* fault:  the storage may start failing (and recover);
\* crash:  the process may die at any point;
\* delete: somebody deletes a rotated generation;
\* lower:  max_files is lowered between two runs of the process;
\* alloc:  an allocation inside a handler may throw.
AllHazards == {"fault", "crash", "delete", "lower", "alloc"}

ASSUME FilesAssumption == NumFiles \in {1, 2}
ASSUME SizesAssumption == /\ LineSize \in [Files -> Nat \ {0}]
                          /\ MaxSize \in Nat
ASSUME CapAssumption == Cap \in Nat \ {0}
ASSUME MaxFilesAssumption == /\ MaxFilesChoices \subseteq 0..Cap
                             /\ MaxFilesChoices # {}
ASSUME SwitchAssumption == /\ IncludeMalformed \in BOOLEAN
                           /\ Hazards \subseteq AllHazards
                           /\ MaxMsgs \in Nat

VARIABLES
    disk,          \* disk[f][g]: generation g of file f
    maxFiles,      \* max_files of the running process
    up,            \* the process is running
    job,           \* the handler under way on the strand
    pc,            \* the step that handler takes next
    i,             \* the file that step works on
    n,             \* the generation that step works on
    cur,           \* the record being written
    isOpen,        \* isOpen[f]: the stream of file f is open
    mSize,         \* mSize[f]: m_textSize, m_jsonlSize
    closed,        \* m_closed
    shuttingDown,  \* m_shuttingDown
    outage,        \* m_recovery counts a failure: m_failures # 0
    retry,         \* m_retryTimer: idle, armed, or its handler is queued
    fault,         \* the storage is failing at the moment
    next           \* the next record number

strand == <<job, pc, i, n, cur>>
stream == <<isOpen, mSize>>
sink == <<closed, shuttingDown, outage, retry>>
process == <<maxFiles, up>>
vars == <<disk, maxFiles, up, job, pc, i, n, cur, isOpen, mSize, closed,
          shuttingDown, outage, retry, fault, next>>

Content == [there: BOOLEAN, recs: SUBSET Nat, size: Nat]
NoFile == [there |-> FALSE, recs |-> {}, size |-> 0]
EmptyFile == [there |-> TRUE, recs |-> {}, size |-> 0]

\* The deepest generation a rotation can create under max_files = k.
Depth(k) == IF k > 0 THEN k ELSE Cap + 1

AllOpen == \A f \in Files : isOpen[f]
-----------------------------------------------------------------------------
(***************************************************************************)
(* Pieces of the handlers.                                                 *)
(***************************************************************************)

\* closeFiles()
CloseFiles ==
    /\ isOpen' = [f \in Files |-> FALSE]
    /\ mSize' = [f \in Files |-> 0]

\* The handler under way returns to the strand.
EndHandler ==
    job' = "none" /\ pc' = "idle" /\ i' = 1 /\ n' = 0 /\ cur' = 0

\* The process ends, whatever it was doing; what is on disk stays.
Halt ==
    /\ up' = FALSE
    /\ EndHandler
    /\ CloseFiles
    /\ closed' = FALSE /\ shuttingDown' = FALSE /\ outage' = FALSE
    /\ retry' = "idle"

\* Mutant: the timer is armed only for the failure that begins an outage.
RetryAfterFailureOnce == IF shuttingDown \/ outage THEN retry ELSE "armed"

\* scheduleRetry()
RetryAfterFailure == IF shuttingDown THEN retry ELSE "armed"

\* failSink() and the return from the handler that follows every call of it.
\* At startup the caller exits the process instead.
FailSink ==
    \/ /\ job = "startup"
       /\ Halt
    \/ /\ job # "startup"
       /\ closed' = TRUE
       /\ outage' = TRUE
       /\ CloseFiles
       /\ retry' = RetryAfterFailure
       /\ EndHandler
       /\ UNCHANGED <<up, shuttingDown>>

\* Mutant: the counters are compared with the limit by > instead of >=.
OverLimitStrict == MaxSize # 0 /\ \E f \in Files : mSize[f] > MaxSize

\* rotateIfNeeded()
OverLimit == MaxSize # 0 /\ \E f \in Files : mSize[f] >= MaxSize

\* probeLimit in rotate()
ProbeLimit == IF maxFiles > 0 THEN maxFiles ELSE Cap

\* Mutant: the generation that is to become max_files + 1 is spared.
ChainFullLate(h) == maxFiles > 0 /\ h > maxFiles

\* The deletion runs: the highest generation would become max_files + 1.
ChainFull(h) == maxFiles > 0 /\ h >= maxFiles

\* Mutant: the active file gets the number after the highest one in use.
RotatedToEnd(f, g) ==
    IF g = 0 /\ \E h \in 1..Cap : disk[f][h].there
    THEN CHOOSE h \in Gens \ {0} : disk[f][h - 1].there
                             /\ \A k \in Gens : k >= h => ~disk[f][k].there
    ELSE g + 1

\* Which generation a rotation renames generation g to.
RotatedTo(f, g) == g + 1

\* file_size() of the active file, which open() has created if need be.
LengthWhenOpened(f) == IF disk[f][0].there THEN disk[f][0].size ELSE 0

\* Mutant: the file is opened for truncation instead of append.
OpenedTruncated(f) == EmptyFile

\* The active file once open() has succeeded, which creates it if need be.
Opened(f) == IF disk[f][0].there THEN disk[f][0] ELSE EmptyFile
-----------------------------------------------------------------------------
(***************************************************************************)
(* The handlers, one step per filesystem call.                             *)
(***************************************************************************)

\* The process starts: openAtStartup() opens the files before run() does.
\* The configuration may have changed since the last run.
Start ==
    /\ ~up
    /\ \E k \in MaxFilesChoices :
        /\ "lower" \in Hazards \/ Depth(k) >= Depth(maxFiles)
        /\ maxFiles' = k
    /\ up' = TRUE
    /\ job' = "startup" /\ pc' = "open" /\ i' = 1 /\ n' = 0 /\ cur' = 0
    /\ UNCHANGED <<disk, stream, sink, fault, next>>

\* doWrite(): a closed sink drops the message, and a malformed one is
\* dropped unless the sink takes those.  A stream that is not open is
\* opened before anything else.
Write(malformed) ==
    /\ up /\ pc = "idle" /\ next <= MaxMsgs
    /\ next' = next + 1
    /\ IF closed \/ (malformed /\ ~IncludeMalformed)
       THEN UNCHANGED strand
       ELSE /\ cur' = next
            /\ i' = 1 /\ n' = 0
            /\ job' = IF AllOpen THEN "write" ELSE "lazyOpen"
            /\ pc' = IF AllOpen THEN "check" ELSE "open"
    /\ UNCHANGED <<disk, stream, sink, process, fault>>

\* rotateIfNeeded(), and closeFiles() at the head of rotate().
RotateIfNeeded ==
    /\ pc = "check"
    /\ pc' = IF OverLimit THEN "probe" ELSE "write"
    /\ IF OverLimit THEN CloseFiles ELSE UNCHANGED stream
    /\ UNCHANGED <<disk, sink, process, fault, next, job, i, n, cur>>

\* The first loop of shiftFiles(): the highest generation that exists, gaps
\* skipped.  A chain that is full has its last generation removed next.
Probe ==
    /\ pc = "probe"
    /\ \E h \in 0..ProbeLimit :
        /\ h > 0 => disk[i][h].there
        /\ \A g \in 1..ProbeLimit : disk[i][g].there => g <= h
        /\ n' = h
        /\ pc' = IF ChainFull(h) THEN "remove" ELSE "shift"
    /\ UNCHANGED <<disk, stream, sink, process, fault, next, job, i, cur>>

\* One turn of the loop that deletes generations from max_files up.
Remove ==
    /\ pc = "remove"
    /\ disk' = [disk EXCEPT ![i][n] = NoFile]
    /\ n' = n - 1
    /\ pc' = IF n - 1 >= maxFiles THEN "remove" ELSE "shift"
    /\ UNCHANGED <<stream, sink, process, fault, next, job, i, cur>>

\* The active file has become .1: the chain of this file is shifted.
ShiftDone == n = 0

\* One turn of the loop that renames generation n to n + 1, and its last
\* turn, the rename of the active file.  A generation that is not there is
\* skipped.  Then the next file, and after the last one openFiles().
Shift ==
    /\ pc = "shift"
    /\ disk' = IF disk[i][n].there
               THEN [disk EXCEPT ![i][n] = NoFile,
                                 ![i][RotatedTo(i, n)] = disk[i][n]]
               ELSE disk
    /\ n' = IF ShiftDone THEN 0 ELSE n - 1
    /\ i' = IF ~ShiftDone THEN i ELSE IF i = NumFiles THEN 1 ELSE i + 1
    /\ pc' = IF ~ShiftDone THEN "shift"
             ELSE IF i = NumFiles THEN "open" ELSE "probe"
    /\ UNCHANGED <<stream, sink, process, fault, next, job, cur>>

\* One file of openFiles(): opened for append, created when it is not there,
\* its length read back.  What follows the last file depends on the caller.
OpenFile ==
    /\ pc = "open"
    /\ disk' = [disk EXCEPT ![i][0] = Opened(i)]
    /\ isOpen' = [isOpen EXCEPT ![i] = TRUE]
    /\ mSize' = [mSize EXCEPT ![i] = LengthWhenOpened(i)]
    /\ IF i < NumFiles
       THEN i' = i + 1 /\ UNCHANGED <<job, pc, n, cur>>
       ELSE \/ /\ job = "startup"
               /\ EndHandler
            \/ /\ job # "startup"
               /\ job' = IF job = "lazyOpen" THEN "write" ELSE job
               /\ pc' = CASE job = "lazyOpen" -> "check"
                          [] job = "reopen" -> "recovered"
                          [] OTHER -> "write"
               /\ i' = 1
               /\ UNCHANGED <<n, cur>>
    /\ UNCHANGED <<sink, process, fault, next>>

\* The tail of attemptReopen(): onRecovered() ends the outage.
Recovered ==
    /\ pc = "recovered"
    /\ outage' = FALSE
    /\ EndHandler
    /\ UNCHANGED <<disk, stream, process, fault, next, closed, shuttingDown,
                   retry>>

\* b bytes of the record reach the active file of file i.
Append(b) ==
    LET old == disk[i][0]
    IN disk' = [disk EXCEPT ![i][0] =
                 [there |-> TRUE,
                  recs |-> IF b = LineSize[i] THEN old.recs \cup {cur} ELSE old.recs,
                  size |-> old.size + b]]

\* One file of the tail of doWrite(): the line is written and flushed.
WriteFile ==
    /\ pc = "write"
    /\ Append(LineSize[i])
    /\ mSize' = [mSize EXCEPT ![i] = @ + LineSize[i]]
    /\ IF i < NumFiles
       THEN i' = i + 1 /\ UNCHANGED <<job, pc, n, cur>>
       ELSE EndHandler
    /\ UNCHANGED <<isOpen, sink, process, fault, next>>

\* The same when the stream reports an error: part of the line may have
\* reached the disk before it.
WriteFails ==
    /\ pc = "write" /\ fault
    /\ \E b \in 0..(LineSize[i] - 1) : Append(b)
    /\ FailSink
    /\ UNCHANGED <<maxFiles, fault, next>>

\* A probe, a removal or a rename of the rotation fails.
RotationFails ==
    /\ pc \in {"probe", "remove", "shift"} /\ fault
    /\ FailSink
    /\ UNCHANGED <<disk, maxFiles, fault, next>>

\* open() fails, or file_size() does after open() has created the file.
OpenFails ==
    /\ pc = "open" /\ fault
    /\ \/ UNCHANGED disk
       \/ ~disk[i][0].there /\ disk' = [disk EXCEPT ![i][0] = EmptyFile]
    /\ FailSink
    /\ UNCHANGED <<maxFiles, fault, next>>

\* An exception reaches the catch of the handler and failSink() works.
Throw ==
    /\ pc # "idle" /\ "alloc" \in Hazards
    /\ FailSink
    /\ UNCHANGED <<disk, maxFiles, fault, next>>

\* failSinkFromHandler() when failSink() throws as well, before or after it
\* has closed the files: only m_closed is set.
ThrowTwice ==
    /\ pc # "idle" /\ job # "startup" /\ "alloc" \in Hazards
    /\ closed' = TRUE
    /\ outage' \in BOOLEAN
    /\ CloseFiles \/ UNCHANGED stream
    /\ EndHandler
    /\ UNCHANGED <<disk, process, fault, next, shuttingDown, retry>>

\* The retry timer expires: its handler is queued on the strand.
RetryExpires ==
    /\ retry = "armed"
    /\ retry' = "fired"
    /\ UNCHANGED <<disk, strand, stream, process, fault, next, closed,
                   shuttingDown, outage>>

\* The timer's handler: nothing to do after close(), else attemptReopen().
RetryHandler ==
    /\ retry = "fired" /\ pc = "idle"
    /\ retry' = "idle"
    /\ IF shuttingDown
       THEN UNCHANGED <<strand, closed>>
       ELSE /\ closed' = FALSE
            /\ job' = "reopen" /\ pc' = "open" /\ i' = 1
            /\ UNCHANGED <<n, cur>>
    /\ UNCHANGED <<disk, stream, process, fault, next, shuttingDown, outage>>

\* m_retryTimer.cancel(): too late for a handler that is already queued.
CancelRetry == IF retry = "armed" THEN "idle" ELSE retry

\* close()
Close ==
    /\ up /\ pc = "idle" /\ ~shuttingDown
    /\ shuttingDown' = TRUE /\ closed' = TRUE
    /\ retry' = CancelRetry
    /\ CloseFiles
    /\ UNCHANGED <<disk, strand, process, fault, next, outage>>

\* run() returns once the sink has no work left, and the process exits.
Exit ==
    /\ up /\ shuttingDown /\ pc = "idle" /\ retry = "idle"
    /\ Halt
    /\ UNCHANGED <<disk, maxFiles, fault, next>>
-----------------------------------------------------------------------------
(***************************************************************************)
(* The environment.                                                        *)
(***************************************************************************)

\* The process dies; a write under way may have got part of its line out.
Crash ==
    /\ up /\ "crash" \in Hazards
    /\ \/ UNCHANGED disk
       \/ pc = "write" /\ \E b \in 1..(LineSize[i] - 1) : Append(b)
    /\ Halt
    /\ UNCHANGED <<maxFiles, fault, next>>

\* The storage begins to fail, or works again.
FaultChanges ==
    /\ "fault" \in Hazards
    /\ fault' = ~fault
    /\ UNCHANGED <<disk, strand, stream, sink, process, next>>

\* Somebody deletes a rotated generation.
DeleteGeneration ==
    /\ "delete" \in Hazards
    /\ \E f \in Files, g \in Gens \ {0} :
        /\ disk[f][g].there
        /\ disk' = [disk EXCEPT ![f][g] = NoFile]
    /\ UNCHANGED <<strand, stream, sink, process, fault, next>>
-----------------------------------------------------------------------------
\* The disk is empty and the process has not been started yet.
Init ==
    /\ disk = [f \in Files |-> [g \in Gens |-> NoFile]]
    /\ maxFiles \in MaxFilesChoices
    /\ up = FALSE
    /\ job = "none" /\ pc = "idle" /\ i = 1 /\ n = 0 /\ cur = 0
    /\ isOpen = [f \in Files |-> FALSE]
    /\ mSize = [f \in Files |-> 0]
    /\ closed = FALSE /\ shuttingDown = FALSE /\ outage = FALSE
    /\ retry = "idle"
    /\ fault = FALSE
    /\ next = 1

\* What the strand does of its own accord once a handler has begun.
HandlerStep ==
    RotateIfNeeded \/ Probe \/ Remove \/ Shift \/ OpenFile \/ Recovered
    \/ WriteFile

Failure == WriteFails \/ RotationFails \/ OpenFails \/ Throw \/ ThrowTwice

Environment == Crash \/ FaultChanges \/ DeleteGeneration

Next ==
    \/ Start \/ Close \/ Exit
    \/ \E malformed \in BOOLEAN : Write(malformed)
    \/ HandlerStep \/ Failure
    \/ RetryExpires \/ RetryHandler
    \/ Environment

\* A handler that has begun runs to its end, the timer expires and its
\* handler is run: the io_context has threads in run() as long as the process
\* is up.  Nothing is assumed of the storage, of the senders or of a restart.
Fairness ==
    /\ WF_vars(HandlerStep \/ Failure)
    /\ WF_vars(RetryExpires)
    /\ WF_vars(RetryHandler)
    /\ WF_vars(Exit)

Spec == Init /\ [][Next]_vars
FairSpec == Spec /\ Fairness
-----------------------------------------------------------------------------
(***************************************************************************)
(* Properties.                                                             *)
(***************************************************************************)

\* Every variable has its type.
TypeOK ==
    /\ disk \in [Files -> [Gens -> Content]]
    /\ maxFiles \in MaxFilesChoices
    /\ up \in BOOLEAN
    /\ job \in {"none", "startup", "write", "lazyOpen", "reopen"}
    /\ pc \in {"idle", "check", "probe", "remove", "shift", "open",
               "write", "recovered"}
    /\ i \in Files
    /\ n \in 0..Cap
    /\ cur \in Nat
    /\ isOpen \in [Files -> BOOLEAN]
    /\ mSize \in [Files -> Nat]
    /\ closed \in BOOLEAN /\ shuttingDown \in BOOLEAN /\ outage \in BOOLEAN
    /\ retry \in {"idle", "armed", "fired"}
    /\ fault \in BOOLEAN
    /\ next \in Nat \ {0}

\* A higher generation number is older: every record of generation a is newer
\* than every record of a generation b > a, at every moment of a rotation and
\* after any failure or crash in it.  The viewers read the chain in this order.
ChainOrdered ==
    \A f \in Files : \A a, b \in Gens :
        a < b => \A x \in disk[f][a].recs, y \in disk[f][b].recs : y < x

\* No file of the chain outgrows max_size by a whole record or more, whatever
\* rotations, failures, reopenings and crashes there have been: rotateIfNeeded
\* runs on counters that were read back from the disk.
SizeBounded ==
    MaxSize # 0 =>
        \A f \in Files, g \in Gens : disk[f][g].size < MaxSize + LineSize[f]

\* Between handlers a sink in service has every stream open, and the counters
\* its rotation runs on are the lengths on disk (attemptReopen: "the accounting
\* matches what is on disk").  So the lazy open of doWrite() is never taken.
Accounting ==
    up /\ pc = "idle" /\ ~closed =>
        \A f \in Files : isOpen[f] /\ mSize[f] = disk[f][0].size

\* A sink is closed exactly while a retry is pending: none stays closed for
\* good, and a sink in service is never reopened under its writes.  The outage
\* that the summaries and the recovery line measure is under way exactly while
\* the sink is closed or its reopening is not finished.  Once close() has run
\* no retry timer is pending, so that run() does not wait out the interval, and
\* a handler that was queued before it opens nothing again.
RetryPending ==
    up => IF shuttingDown THEN retry # "armed" /\ closed /\ \A f \in Files : ~isOpen[f]
          ELSE /\ closed <=> retry # "idle"
               /\ outage <=> closed \/ job = "reopen"

\* No generation deeper than max_files survives, over restarts too, as long
\* as max_files is not lowered between them (Depth: one more than the cap when
\* max_files is 0).
GenerationsBounded ==
    \A f \in Files, g \in Gens : disk[f][g].there => g <= Depth(maxFiles)

\* What file f holds over all its generations.
Kept(f) == UNION {disk[f][g].recs : g \in Gens}

\* The chain of each file is a log that grows at the new end and is forgotten
\* at the old end only: no rotation, failure or crash loses a record from the
\* middle or brings one back.
Abstract == INSTANCE RetainedLog
    WITH Records <- 1..MaxMsgs, kept <- [f \in Files |-> Kept(f)]
ImplementsRetainedLog == Abstract!Spec

\* A closed sink is reopened once its storage works (README.md: "never having
\* to restart minilog to recover a sink"): it does not stay closed with the
\* storage working, unless it is being shut down or the process ends.
SinkRecovers == closed ~> (~closed \/ fault \/ shuttingDown \/ ~up)
=============================================================================
