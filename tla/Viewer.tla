-------------------------------- MODULE Viewer --------------------------------
(***************************************************************************)
(* The live tail of the web viewer: the page (assets/app.js), the /lines   *)
(* handler (handlers.go) and the reader of the rotation chain (reader.go), *)
(* while minilog writes and rotates the file.                              *)
(*                                                                         *)
(* The page holds cursors into a stream of bytes whose beginning is the    *)
(* oldest generation, so every deletion of a generation moves every        *)
(* offset.  Its requests are answered out of step: a poll, an older page   *)
(* and a reload may be under way together, and each applies what it gets   *)
(* to whatever the page is by then.                                        *)
(*                                                                         *)
(* A file is a sequence of bytes.  Record r is the byte r, once or twice,  *)
(* and Newline ends a line; a process killed in a write leaves a line cut  *)
(* short, without it.                                                      *)
(***************************************************************************)
EXTENDS Integers, Sequences, FiniteSets, SequencesExt, FiniteSetsExt

CONSTANTS
    MaxFiles,          \* sink.MaxFiles: rotated generations kept
    Matching,          \* records the filter of the page lets through
    Batch,             \* BATCH: lines of a page
    MaxResponseBytes,  \* maxResponseBytes
    MaxRows,           \* MAX_ROWS: rows kept in the table
    MaxRecords,        \* bound: records written
    MaxFails,          \* bound: requests that fail
    MaxUser            \* bound: reloads and clears by the user

ASSUME PositiveLimits ==
    {MaxFiles, Batch, MaxResponseBytes, MaxRows, MaxRecords} \subseteq Nat \ {0}

VARIABLES
    rotated,      \* the rotated files, oldest first
    active,       \* the active file
    written,      \* records written so far
    gone,         \* ghost: bytes deleted with old generations
    rows,         \* logBody: [at, rec] of each row
    topOffset, tailOffset, chainEnd,
    clearOffset,  \* [set, at]: the offset of a clear, if there was one
    pollTimer,    \* the interval timer is running
    topObserver,  \* what the observer for upward scrolling watches
    flights,      \* by kind: the request under way, or Idle
    base,         \* ghost: the deletions the cursors take into account
    exact,        \* ghost: see Blurs
    floor,        \* ghost: where the table begins after a load that failed
    fails, clicks \* counters of the bounds

page == <<rows, topOffset, tailOffset, chainEnd, clearOffset, pollTimer,
          topObserver, flights, base, exact, floor, fails, clicks>>
disk == <<rotated, active, written, gone>>
vars == <<disk, page>>

Newline == 0
Body(r) == IF r % 2 = 1 THEN <<r>> ELSE <<r, r>>
Records == 1..MaxRecords

-----------------------------------------------------------------------------
(* The files, as minilog writes them: a record and its newline in one step, *)
(* a rotation in one (what can happen inside them is in module LogFile).   *)

Write ==
    /\ written < MaxRecords
    /\ written' = written + 1
    /\ active' = active \o Body(written + 1) \o <<Newline>>
    /\ UNCHANGED <<rotated, gone, page>>

\* The process is killed in a write and started again.
WriteCut ==
    /\ written < MaxRecords
    /\ Len(Body(written + 1)) > 1
    /\ written' = written + 1
    /\ active' = active \o Tail(Body(written + 1))
    /\ UNCHANGED <<rotated, gone, page>>

Rotate ==
    /\ active # <<>>
    /\ active' = <<>>
    /\ IF Len(rotated) < MaxFiles
         THEN /\ rotated' = Append(rotated, active)
              /\ gone' = gone
         ELSE /\ rotated' = Append(Tail(rotated), active)
              /\ gone' = gone + Len(Head(rotated))
    /\ UNCHANGED <<written, page>>

-----------------------------------------------------------------------------
(* The chain of files as one stream of bytes.                              *)

\* NewFileChain(): empty files are left out.  No rotated file is empty (Rotate).
Chain == IF active = <<>> THEN rotated ELSE Append(rotated, active)

\* The size of the first n files of a chain.
Offsets(chain) ==
    LET upto[n \in Nat] == IF n = 0 THEN 0 ELSE upto[n - 1] + Len(chain[n])
    IN  upto

TailOffset == Offsets(Chain)[Len(Chain)]
StartOf(i) == Offsets(Chain)[i - 1]

\* The file an offset falls in, and the position in it.
FileAt(offset) ==
    IF offset >= TailOffset
    THEN [file |-> Len(Chain), at |-> Len(Chain[Len(Chain)])]
    ELSE LET i == Min({k \in DOMAIN Chain :
                         offset < StartOf(k) + Len(Chain[k])})
         IN  [file |-> i, at |-> offset - StartOf(i)]

EndOfLine(f, s) == Min({e \in s + 1 .. Len(f) : f[e] = Newline} \cup {Len(f) + 1})

\* Where the cursor stands after the line that ends at e: the newline that is
\* counted is on disk only if the line was terminated.
NextInFileUnclamped(f, e) == e
NextInFile(f, e) == Min({e, Len(f)})

\* The lines of the i-th file that start at position p or later, with the bytes
\* from p on taken for the first of them.
LinesOf(i, p) ==
    LET f == Chain[i]
        starts == {s \in p .. Len(f) - 1 : s = p \/ f[s] = Newline}
    IN  {[at   |-> StartOf(i) + s,
          tok  |-> SubSeq(f, s + 1, EndOfLine(f, s) - 1),
          next |-> StartOf(i) + NextInFile(f, EndOfLine(f, s))] : s \in starts}

\* The lines of the i-th file in its first p bytes.
LinesBefore(i, p) ==
    LET f == SubSeq(Chain[i], 1, p)
        starts == {s \in 0 .. p - 1 : s = 0 \/ f[s] = Newline}
    IN  {[at |-> StartOf(i) + s, tok |-> SubSeq(f, s + 1, EndOfLine(f, s) - 1)] :
            s \in starts}

\* Filter.Match() looks at the raw bytes of the line, whole or not.
Match(tok) == \E i \in DOMAIN tok : tok[i] \in Matching

\* The lines of a set in the order of their places.
InOrder(lines) ==
    CHOOSE s \in [1..Cardinality(lines) -> lines] :
        \A i, j \in 1..Cardinality(lines) : i < j => s[i].at < s[j].at

Size(lines) == Len(FlattenSeq([i \in DOMAIN lines |-> lines[i].tok]))

\* How many of the matching lines, in reading order, one read collects: up to
\* count, and within the budget, but the first whatever its size.
Collected(lines) ==
    Max({n \in 0 .. Min({Batch, Len(lines)}) :
           n < 2 \/ Size(SubSeq(lines, 1, n)) <= MaxResponseBytes})

ReadForward(offset) ==
    LET from == FileAt(offset)
        lines == UNION {LinesOf(i, IF i = from.file THEN from.at ELSE 0) :
                          i \in from.file .. Len(Chain)}
        found == InOrder({l \in lines : Match(l.tok)})
        n == Collected(found)
        read == {l \in lines :
                   /\ n = Batch => l.at <= found[n].at
                   /\ n < Len(found) => l.at < found[n + 1].at}
    IN  [lines |-> SubSeq(found, 1, n),
         first |-> IF n = 0 THEN offset ELSE found[1].at,
         next  |-> IF n = 0 THEN offset ELSE Max({l.next : l \in read})]

ReadBackward(offset, since) ==
    LET here == FileAt(offset)
        from == IF here.at = 0 /\ here.file > 1
                THEN [file |-> here.file - 1, at |-> Len(Chain[here.file - 1])]
                ELSE here
        lines == UNION {LinesBefore(i, IF i = from.file THEN from.at
                                       ELSE Len(Chain[i])) : i \in 1 .. from.file}
        found == Reverse(InOrder({l \in lines : l.at >= since /\ Match(l.tok)}))
        n == IF offset = 0 \/ offset <= since THEN 0 ELSE Collected(found)
    IN  [lines |-> Reverse(SubSeq(found, 1, n)),
         first |-> IF n = 0 THEN offset ELSE found[n].at,
         next  |-> offset]

\* GET /lines.  first_offset is 0 when nothing is read.
Lines(req) ==
    LET offset == IF req.dir = "tail" THEN TailOffset ELSE req.offset
        answer ==
            IF TailOffset = 0 \/ (req.clear.set /\ req.clear.at >= TailOffset)
            THEN [lines |-> <<>>, first |-> 0, next |-> offset]
            ELSE IF req.dir = "forward"
            THEN ReadForward(Max({offset, req.clear.at}))
            ELSE ReadBackward(offset, req.clear.at)
    IN  [lines |-> answer.lines, first |-> answer.first, next |-> answer.next,
         tail |-> TailOffset, gone |-> gone]

-----------------------------------------------------------------------------
(* The requests under way.  "load" is a reload by the user or at the start, *)
(* "again" one by the user while that is under way (nothing prevents it),  *)
(* "reload" one that a poll makes when it notices a rotation.              *)

Kinds == {"poll", "older", "load", "again", "reload"}
Idle == [dir |-> "none"]
NoClear == [set |-> FALSE, at |-> 0]

Loads == {"load", "again", "reload"}
UnderWay(k) == flights[k] # Idle

\* fetch(): the answer is not there yet.
Request(dir, offset) ==
    [dir |-> dir, offset |-> offset, clear |-> clearOffset,
     stale |-> \E l \in Loads : UnderWay(l), answered |-> FALSE]
\* stale (ghost): a load was, or has come to be, under way beside it.

\* loadTail() asks for the end of the log.
TailRequest(clear) ==
    [dir |-> "tail", offset |-> 0, clear |-> clear, stale |-> FALSE,
     answered |-> FALSE]

\* The server answers from the files as they are now.
Serve(k) ==
    /\ UnderWay(k) /\ ~flights[k].answered
    /\ LET r == flights[k]
       IN  flights' = [flights EXCEPT ![k] =
             [dir |-> r.dir, offset |-> r.offset, clear |-> r.clear,
              stale |-> r.stale, answered |-> TRUE, resp |-> Lines(r)]]
    /\ UNCHANGED <<disk, rows, topOffset, tailOffset, chainEnd, clearOffset,
                   pollTimer, topObserver, base, exact, floor, fails, clicks>>

\* pollTail(): polling is true until the reload it may make is over.
Polling == UnderWay("poll") \/ UnderWay("reload")

\* The answers that may leave a gap or a double row in the table: one whose
\* request overlaps with a load of the table anew; one read after a deletion the
\* page has not noticed; a poll that begins at a clear beyond its own cursor; an
\* older page for a top that a poll has pruned away meanwhile.
Blurs(k) ==
    LET f == flights[k]
    IN  \/ f.stale
        \/ \E l \in Loads \ {k} : UnderWay(l)
        \/ k \notin Loads /\ f.resp.gone # base
        \/ k = "poll" /\ f.clear.at > f.offset
        \/ k = "older" /\ f.resp.lines # <<>> /\ f.offset # topOffset

\* tryParse() drops the lines that are no record.
RowsOf(lines) ==
    LET whole == InOrder({l \in Range(lines) : \E r \in Records : l.tok = Body(r)})
    IN  [i \in DOMAIN whole |-> [at |-> whole[i].at, rec |-> whole[i].tok[1]]]

\* attachTopObserver()
Observe(top, rs) ==
    CASE top = 0 -> "none"
      [] top # 0 /\ rs = <<>> -> "sentinel"
      [] OTHER -> "row"

-----------------------------------------------------------------------------
(* loadTail(): the table is cleared at once and filled by the answer.      *)

\* With others the answers that are still to come are out of date.
BeginLoad(k, others) ==
    /\ flights' = [q \in Kinds |->
         IF q = k THEN TailRequest(clearOffset')
         ELSE IF others[q] = Idle THEN Idle
         ELSE [others[q] EXCEPT !.stale = TRUE]]
    /\ pollTimer' = FALSE
    /\ rows' = <<>>
    /\ topOffset' = 0
    /\ topObserver' = "none"
    /\ exact' = TRUE

\* The button "jump to tail" and a changed filter; with reset, the settings and
\* the offset of a clear are forgotten as well.  (Bound: two loads by the user
\* at once.)
UserLoads(k, reset) ==
    /\ clicks < MaxUser /\ ~UnderWay(k) /\ (k = "again" => UnderWay("load"))
    /\ clicks' = clicks + 1
    /\ clearOffset' = IF reset THEN NoClear ELSE clearOffset
    /\ BeginLoad(k, flights)
    /\ UNCHANGED <<disk, tailOffset, chainEnd, base, floor, fails>>

LoadAnswered(k) ==
    /\ UnderWay(k) /\ flights[k].answered
    /\ LET a == flights[k].resp
       IN  /\ tailOffset' = a.tail
           /\ chainEnd' = a.tail
           /\ topOffset' = a.first
           /\ rows' = rows \o RowsOf(a.lines)
           /\ topObserver' = Observe(a.first, rows')
           /\ base' = a.gone
    /\ pollTimer' = TRUE
    /\ floor' = 0
    /\ exact' = (exact /\ ~Blurs(k))
    /\ flights' = [flights EXCEPT ![k] = Idle]
    /\ UNCHANGED <<disk, clearOffset, fails, clicks>>

\* After a failed load the polls go on, with the cursor of before.
LoadFailed(k) ==
    /\ UnderWay(k) /\ fails < MaxFails
    /\ fails' = fails + 1
    /\ pollTimer' = TRUE
    /\ floor' = tailOffset
    /\ flights' = [flights EXCEPT ![k] = Idle]
    /\ UNCHANGED <<disk, rows, topOffset, tailOffset, chainEnd, clearOffset,
                   topObserver, base, exact, clicks>>

-----------------------------------------------------------------------------
(* pollTail(): every POLL_MS, the lines behind the cursor.                 *)

PollTail ==
    /\ pollTimer /\ ~Polling
    /\ flights' = [flights EXCEPT !["poll"] = Request("forward", tailOffset)]
    /\ UNCHANGED <<disk, rows, topOffset, tailOffset, chainEnd, clearOffset,
                   pollTimer, topObserver, base, exact, floor, fails, clicks>>

PollFailed ==
    /\ UnderWay("poll") /\ fails < MaxFails
    /\ fails' = fails + 1
    /\ flights' = [flights EXCEPT !["poll"] = Idle]
    /\ UNCHANGED <<disk, rows, topOffset, tailOffset, chainEnd, clearOffset,
                   pollTimer, topObserver, base, exact, floor, clicks>>

Regressed(a) == a.tail < chainEnd

\* The end of the chain regressed: files were deleted.
PollRegressed ==
    /\ UnderWay("poll") /\ flights["poll"].answered
    /\ Regressed(flights["poll"].resp)
    /\ clearOffset' = clearOffset
    /\ BeginLoad("reload", [flights EXCEPT !["poll"] = Idle])
    /\ UNCHANGED <<disk, tailOffset, chainEnd, base, floor, fails, clicks>>

\* pruneTop(): the rows above MAX_ROWS go, and with the first of them the row
\* the observer watched.
Pruned(rs) == SubSeq(rs, Max({1, Len(rs) - MaxRows + 1}), Len(rs))

\* The cursor moves past the lines that were returned, not to the end.
AdvancedToEnd(a) == a.tail
Advanced(a) == a.next

PollAnswered ==
    /\ UnderWay("poll") /\ flights["poll"].answered
    /\ LET a == flights["poll"].resp
           shown == rows \o RowsOf(a.lines)
           prunes == a.lines # <<>> /\ Len(shown) > MaxRows
       IN  /\ ~Regressed(a)
           /\ chainEnd' = a.tail
           /\ tailOffset' = Advanced(a)
           /\ rows' = IF prunes THEN Pruned(shown) ELSE shown
           /\ topOffset' = IF prunes THEN rows'[1].at ELSE topOffset
           /\ topObserver' = IF prunes /\ topObserver = "row" THEN "none"
                             ELSE topObserver
           /\ base' = a.gone
    /\ exact' = (exact /\ ~Blurs("poll"))
    /\ flights' = [flights EXCEPT !["poll"] = Idle]
    /\ UNCHANGED <<disk, clearOffset, pollTimer, floor, fails, clicks>>

-----------------------------------------------------------------------------
(* loadOlder(): the page above, when its first row comes into view.        *)

LoadOlder ==
    /\ topObserver # "none"
    /\ ~UnderWay("older") /\ topOffset # 0
    /\ flights' = [flights EXCEPT !["older"] = Request("backward", topOffset)]
    /\ UNCHANGED <<disk, rows, topOffset, tailOffset, chainEnd, clearOffset,
                   pollTimer, topObserver, base, exact, floor, fails, clicks>>

OlderFailed ==
    /\ UnderWay("older") /\ fails < MaxFails
    /\ fails' = fails + 1
    /\ flights' = [flights EXCEPT !["older"] = Idle]
    /\ UNCHANGED <<disk, rows, topOffset, tailOffset, chainEnd, clearOffset,
                   pollTimer, topObserver, base, exact, floor, clicks>>

OlderAnswered ==
    /\ UnderWay("older") /\ flights["older"].answered
    /\ LET a == flights["older"].resp
       IN  /\ rows' = RowsOf(a.lines) \o rows
           /\ topOffset' = IF a.lines # <<>> THEN a.first ELSE topOffset
    /\ exact' = (exact /\ ~Blurs("older"))
    /\ topObserver' = Observe(topOffset', rows')
    /\ flights' = [flights EXCEPT !["older"] = Idle]
    /\ UNCHANGED <<disk, tailOffset, chainEnd, clearOffset, pollTimer, base,
                   floor, fails, clicks>>

\* clearView(): an empty table that goes on from the cursor.
ClearView ==
    /\ clicks < MaxUser
    /\ clicks' = clicks + 1
    /\ clearOffset' = [set |-> TRUE, at |-> tailOffset]
    /\ rows' = <<>>
    /\ topOffset' = 0
    /\ topObserver' = "none"
    /\ pollTimer' = TRUE
    /\ flights' = IF UnderWay("older")
                  THEN [flights EXCEPT !["older"].stale = TRUE] ELSE flights
    /\ UNCHANGED <<disk, tailOffset, chainEnd, base, exact, floor, fails>>

-----------------------------------------------------------------------------
\* loadSinks(): the page begins with a load, of a log that may be there already.
Init ==
    /\ rotated = <<>> /\ active = <<>> /\ written = 0 /\ gone = 0
    /\ rows = <<>> /\ topOffset = 0 /\ tailOffset = 0 /\ chainEnd = 0
    /\ clearOffset = NoClear
    /\ pollTimer = FALSE
    /\ topObserver = "none"
    /\ flights = [k \in Kinds |->
         IF k = "load" THEN TailRequest(NoClear) ELSE Idle]
    /\ base = 0 /\ exact = TRUE /\ floor = 0
    /\ fails = 0 /\ clicks = 0

Page ==
    \/ PollTail \/ PollFailed \/ PollRegressed \/ PollAnswered
    \/ LoadOlder \/ OlderFailed \/ OlderAnswered
    \/ \E k \in Loads : LoadAnswered(k) \/ LoadFailed(k)
    \/ \E k \in {"load", "again"}, reset \in BOOLEAN : UserLoads(k, reset)
    \/ ClearView

Next ==
    \/ Write \/ WriteCut \/ Rotate
    \/ \E k \in Kinds : Serve(k)
    \/ Page

Spec == Init /\ [][Next]_vars

\* The interval timer ticks; and every request ends: the server answers it and
\* the browser runs the handler that waits for the answer.  (That is weak
\* fairness of Serve and of the handlers, stated without ENABLED.)
FairSpec ==
    /\ Spec
    /\ WF_vars(PollTail)
    /\ \A k \in Kinds : []<>~UnderWay(k)

-----------------------------------------------------------------------------
\* The records that stand as a whole line in the chain and pass the filter.
Whole ==
    {l \in UNION {LinesOf(i, 0) : i \in DOMAIN Chain} :
        \E r \in Records \cap Matching : l.tok = Body(r)}

\* The table is a piece of the log without a gap, a double row or a row out of
\* order, over bursts of more than a page, pages cut short by the byte budget,
\* filtered and half written lines, rotations, failed requests, and older pages
\* loaded while polls go on.  (Not after the answers that Blurs names.)
RowsContiguous ==
    exact =>
        /\ \A i, j \in DOMAIN rows : i < j => rows[i].rec < rows[j].rec
        /\ rows # <<>> =>
             \A l \in Whole :
                (rows[1].rec < l.tok[1] /\ l.tok[1] < rows[Len(rows)].rec)
                    => \E i \in DOMAIN rows : rows[i].rec = l.tok[1]

\* Once minilog writes nothing more, the newest record that passes the filter
\* comes to be shown, whatever requests failed or were answered late on the way,
\* unless it is older than what the table begins with: the first line of the
\* page that was loaded, a clear, or the cursor a failed load goes on from.
CatchesUp ==
    <>[](exact =>
           \A l \in Whole :
              \/ \E k \in Whole : k.at > l.at
              \/ l.at < Max({topOffset, clearOffset.at, floor})
              \/ \E i \in DOMAIN rows : rows[i].rec = l.tok[1])

===============================================================================
