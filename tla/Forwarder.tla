----------------------------- MODULE Forwarder -----------------------------
(***************************************************************************)
(* The forwarder (src/src/server/forwarder/forwarder.cpp): how the         *)
(* destination is settled (an address at once, a name by lookups that are  *)
(* repeated after a growing delay), what becomes of the messages that come *)
(* before that, and the stop at any moment of it.                          *)
(*                                                                         *)
(* Everything runs on the forwarder's strand, one handler at a time, but   *)
(* the lookup itself, which is on a thread of the resolver, and the timer. *)
(* A message is its facility and its size.                                 *)
(***************************************************************************)
EXTENDS Integers, Sequences

CONSTANTS
    Hosts,          \* kinds of [forwarding] host: "literal", "name", "off"
    Accepted,       \* facility, and the empty set is the wildcard
    Excluded,       \* exclude_facility
    Facilities,     \* facilities a message may have, NoFacility among them
    NoFacility,     \* the facility of a datagram of neither format
    MessageSizes,   \* sizes of a datagram
    MaxSizes,       \* values of max_message_size, 0 for no limit
    FirstRetryDelay, MaxRetryDelay, \* kFirstRetryDelay and kMaxRetryDelay
    MaxMessages     \* bound: messages in a behaviour

BufferSize == 65507     \* BUFFER_SIZE of udp_server.hpp

ASSUME HostsAssumption == Hosts \subseteq {"literal", "name", "off"}
ASSUME DelayAssumption == /\ FirstRetryDelay \in Nat \ {0}
                          /\ MaxRetryDelay \in Nat /\ FirstRetryDelay <= MaxRetryDelay
ASSUME SizesAssumption == MessageSizes \subseteq 0..BufferSize /\ MaxSizes \subseteq Nat
ASSUME MessagesAssumption == MaxMessages \in Nat

VARIABLES
    host,           \* m_cfg.host, by kind; "off" is m_cfg.enabled = false
    maxSize,        \* m_cfg.maxMessageSize
    works,          \* the name resolves and a socket can be opened
    built,          \* the constructor has run
    lookup,         \* the asynchronous lookup: none, queued for the resolver
                    \* thread, running there, or completed: found or failed
    first,          \* firstAttempt of that lookup
    timer,          \* m_retryTimer: idle, armed, or its handler is queued,
                    \* with expired or cancelled
    retryDelay,     \* m_retryDelay
    resolved,       \* m_resolved: the socket is open
    stopping,       \* m_stopping
    failureReported,\* m_failureReported
    failureLines,   \* lines in the system log about a failure
    droppedUnresolved, \* m_droppedUnresolved
    lines,          \* the drops named in lines about the success
    strand,         \* what forward() and stop() have posted
    matched,        \* messages that passed the facility lists
    sent,           \* messages given to the socket
    last,           \* the last one: its size, and what was sent of it
    posted          \* messages posted, and whether stop() was called

target == <<host, maxSize>>
search == <<lookup, first, timer, retryDelay>>
report == <<failureReported, failureLines>>
traffic == <<matched, sent, last>>
vars == <<host, maxSize, works, built, lookup, first, timer, retryDelay, resolved, stopping,
          failureReported, failureLines, droppedUnresolved, lines, strand,
          matched, sent, last, posted>>

Stop == [stop |-> TRUE]
Message == [facility: Facilities, size: MessageSizes]
Min2(a, b) == IF a <= b THEN a ELSE b
-----------------------------------------------------------------------------
\* facilityMatches().
FacilityMatches(f) ==
    IF f = NoFacility THEN Accepted = {}
    ELSE (Accepted = {} \/ f \in Accepted) /\ f \notin Excluded

\* std::to_string() of the size of a datagram.
Digits(n) ==
    CASE n \in 0..9 -> 1 [] n \in 10..99 -> 2 [] n \in 100..999 -> 3
      [] n \in 1000..9999 -> 4 [] OTHER -> 5

\* The size of "[TRUNCATED: n bytes]".
Suffix(n) == 19 + Digits(n)

\* Mutant: the suffix is appended after the cut.
TruncateIfNeededAfter(n, max) ==
    IF max = 0 \/ n <= max THEN [raw |-> n, suffix |-> 0]
    ELSE [raw |-> max, suffix |-> IF Suffix(n) >= max THEN 0 ELSE Suffix(n)]

\* truncateIfNeeded(): how much of a message of n bytes is kept, and the
\* length of the note that says so.
TruncateIfNeeded(n, max) ==
    IF max = 0 \/ n <= max THEN [raw |-> n, suffix |-> 0]
    ELSE IF Suffix(n) >= max THEN [raw |-> max, suffix |-> 0]
    ELSE [raw |-> max - Suffix(n), suffix |-> Suffix(n)]
-----------------------------------------------------------------------------
Grown == Min2(retryDelay * 2, MaxRetryDelay)

\* startResolve().
StartResolve(isFirst) == lookup' = "queued" /\ first' = isFirst

\* scheduleResolveRetry(): not during a stop.
ScheduleResolveRetry == timer' = IF stopping THEN timer ELSE "armed"

\* Mutant: the message of a socket that does not open is written each time.
ReportAgain == failureReported' = TRUE /\ failureLines' = failureLines + 1

\* The line about a socket that could not be opened, once.
ReportOpenFailure ==
    /\ failureReported' = TRUE
    /\ failureLines' = IF failureReported THEN failureLines ELSE failureLines + 1

\* Mutant: the drops stay in the counter.
ReportDroppedKeeps == lines' = lines + droppedUnresolved /\ UNCHANGED droppedUnresolved

\* The line about the messages dropped until now, if there were any.
ReportDropped == lines' = lines + droppedUnresolved /\ droppedUnresolved' = 0

\* useEndpoint() with a socket that opens.
AdoptEndpoint ==
    /\ resolved' = TRUE
    /\ ReportDropped
    /\ UNCHANGED <<report, timer, retryDelay>>

\* Mutant: a socket that does not open is not tried again.
OpenFailsGivesUp ==
    /\ ReportOpenFailure
    /\ retryDelay' = Grown
    /\ UNCHANGED <<timer, resolved, droppedUnresolved, lines>>

\* useEndpoint() with one that does not: like a lookup that failed.
OpenFails ==
    /\ ReportOpenFailure
    /\ retryDelay' = Grown
    /\ ScheduleResolveRetry
    /\ UNCHANGED <<resolved, droppedUnresolved, lines>>

UseEndpoint == (works /\ AdoptEndpoint) \/ (~works /\ OpenFails)

\* The constructor: an address is used at once, a name is looked up.
Construct ==
    /\ ~built /\ built' = TRUE
    /\ \/ /\ host = "off"
          /\ UNCHANGED <<search, resolved, report, droppedUnresolved, lines>>
       \/ /\ host = "literal"
          /\ UseEndpoint
          /\ UNCHANGED <<lookup, first>>
       \/ /\ host = "name"
          /\ StartResolve(TRUE)
          /\ UNCHANGED <<timer, retryDelay, resolved, report, droppedUnresolved, lines>>
    /\ UNCHANGED <<target, works, stopping, strand, traffic, posted>>

\* The resolver thread takes the lookup up and comes back with an answer.
LookupRuns ==
    /\ lookup = "queued" /\ lookup' = "running"
    /\ UNCHANGED <<target, works, built, first, timer, retryDelay, resolved, stopping,
                   report, droppedUnresolved, lines, strand, traffic, posted>>

LookupReturns ==
    /\ lookup = "running"
    /\ lookup' \in IF works THEN {"found"} ELSE {"found", "failed"}
    /\ UNCHANGED <<target, works, built, first, timer, retryDelay, resolved, stopping,
                   report, droppedUnresolved, lines, strand, traffic, posted>>

\* The completion of a lookup during a stop.
LookupIgnored ==
    /\ stopping /\ lookup \in {"found", "failed"}
    /\ lookup' = "none"
    /\ UNCHANGED <<target, works, built, first, timer, retryDelay, resolved, stopping,
                   report, droppedUnresolved, lines, strand, traffic, posted>>

\* The completion of one that found an address.
LookupFound ==
    /\ ~stopping /\ lookup = "found"
    /\ lookup' = "none"
    /\ UseEndpoint
    /\ UNCHANGED <<target, works, built, first, stopping, strand, traffic, posted>>

\* And of one that did not: the first is reported, a later one grows the
\* delay.
LookupFailed ==
    /\ ~stopping /\ lookup = "failed"
    /\ lookup' = "none"
    /\ IF first
       THEN /\ failureReported' = TRUE /\ failureLines' = failureLines + 1
            /\ UNCHANGED retryDelay
       ELSE retryDelay' = Grown /\ UNCHANGED report
    /\ ScheduleResolveRetry
    /\ UNCHANGED <<target, works, built, first, resolved, stopping, droppedUnresolved,
                   lines, strand, traffic, posted>>

\* The delay is over.
RetryExpires ==
    /\ timer = "armed" /\ timer' = "expired"
    /\ UNCHANGED <<target, works, built, lookup, first, retryDelay, resolved, stopping,
                   report, droppedUnresolved, lines, strand, traffic, posted>>

\* Mutant: the handler looks at the error only.
RetryWantedUnlessCancelled == timer = "expired"

\* Whether the timer's handler goes on.
RetryWanted == timer = "expired" /\ ~stopping

\* Mutant: the timer is periodic.
RetryHandlerPeriodic ==
    /\ timer \in {"expired", "cancelled"}
    /\ timer' = IF RetryWanted THEN "armed" ELSE "idle"
    /\ IF RetryWanted THEN StartResolve(FALSE) ELSE UNCHANGED <<lookup, first>>
    /\ UNCHANGED <<target, works, built, retryDelay, resolved, stopping, report,
                   droppedUnresolved, lines, strand, traffic, posted>>

RetryHandler ==
    /\ timer \in {"expired", "cancelled"}
    /\ timer' = "idle"
    /\ IF RetryWanted THEN StartResolve(FALSE) ELSE UNCHANGED <<lookup, first>>
    /\ UNCHANGED <<target, works, built, retryDelay, resolved, stopping, report,
                   droppedUnresolved, lines, strand, traffic, posted>>
-----------------------------------------------------------------------------
\* forward(): called for every message dispatched, after a stop as well.
Forward ==
    /\ built /\ posted.messages < MaxMessages
    /\ \E m \in Message : strand' = Append(strand, m)
    /\ posted' = [posted EXCEPT !.messages = @ + 1]
    /\ UNCHANGED <<target, works, built, search, resolved, stopping, report,
                   droppedUnresolved, lines, traffic>>

\* stop().
PostStop ==
    /\ built /\ ~posted.stop
    /\ strand' = Append(strand, Stop)
    /\ posted' = [posted EXCEPT !.stop = TRUE]
    /\ UNCHANGED <<target, works, built, search, resolved, stopping, report,
                   droppedUnresolved, lines, traffic>>

\* Mutant: the handler relies on the cancellations.
MarkStoppingNot == UNCHANGED stopping

MarkStopping == stopping' = TRUE

\* The handler of stop().  The timer's cancel() is too late for a handler that
\* is already queued; the resolver's reaches a lookup that is queued, not one
\* that is running.
StopHandler ==
    /\ strand # <<>> /\ Head(strand) = Stop
    /\ strand' = Tail(strand)
    /\ MarkStopping
    /\ timer' = IF timer = "armed" THEN "cancelled" ELSE timer
    /\ lookup' = IF lookup = "queued" THEN "failed" ELSE lookup
    /\ UNCHANGED <<target, works, built, first, retryDelay, resolved, report,
                   droppedUnresolved, lines, traffic, posted>>

\* doForward() up to the send: a message that matches is counted while there
\* is no destination, and sent afterwards, whatever send_to() answers.
DoForward ==
    /\ strand # <<>> /\ Head(strand) # Stop
    /\ strand' = Tail(strand)
    /\ LET m == Head(strand)
           takes == host # "off" /\ FacilityMatches(m.facility)
       IN /\ matched' = matched + (IF takes THEN 1 ELSE 0)
          /\ droppedUnresolved' = droppedUnresolved + (IF takes /\ ~resolved THEN 1 ELSE 0)
          /\ IF takes /\ resolved
             THEN /\ sent' = sent + 1
                  /\ last' = [m |-> m, out |-> TruncateIfNeeded(m.size, maxSize)]
             ELSE UNCHANGED <<sent, last>>
    /\ UNCHANGED <<target, works, built, search, resolved, stopping, report, lines, posted>>

\* The name service and the sockets come and go.
WorksChanges ==
    /\ works' = ~works
    /\ UNCHANGED <<target, built, search, resolved, stopping, report,
                   droppedUnresolved, lines, strand, traffic, posted>>
-----------------------------------------------------------------------------
NoMessage == [m |-> [facility |-> NoFacility, size |-> 0], out |-> [raw |-> 0, suffix |-> 0]]

Init ==
    /\ host \in Hosts /\ maxSize \in MaxSizes /\ works \in BOOLEAN
    /\ built = FALSE
    /\ lookup = "none" /\ first = FALSE /\ timer = "idle" /\ retryDelay = FirstRetryDelay
    /\ resolved = FALSE /\ stopping = FALSE
    /\ failureReported = FALSE /\ failureLines = 0
    /\ droppedUnresolved = 0 /\ lines = 0
    /\ strand = <<>>
    /\ matched = 0 /\ sent = 0 /\ last = NoMessage
    /\ posted = [messages |-> 0, stop |-> FALSE]

Lookup == LookupRuns \/ LookupReturns \/ LookupIgnored \/ LookupFound \/ LookupFailed
Posted == StopHandler \/ DoForward

Next ==
    \/ Construct
    \/ Lookup
    \/ RetryExpires \/ RetryHandler
    \/ Forward \/ PostStop \/ Posted
    \/ WorksChanges

\* Lookups return (the resolver has a timeout of its own), timers expire and
\* the threads in run() take up what is queued on the strand.
Fairness ==
    /\ WF_vars(Construct) /\ WF_vars(Lookup)
    /\ WF_vars(RetryExpires) /\ WF_vars(RetryHandler) /\ WF_vars(Posted)

Spec == Init /\ [][Next]_vars
FairSpec == Spec /\ Fairness
-----------------------------------------------------------------------------
(***************************************************************************)
(* Properties.                                                             *)
(***************************************************************************)

\* Every variable has its type; the retry delay stays between the first one
\* and the cap over any mixture of failed lookups and sockets.
TypeOK ==
    /\ host \in Hosts /\ maxSize \in MaxSizes
    /\ works \in BOOLEAN /\ built \in BOOLEAN /\ first \in BOOLEAN
    /\ resolved \in BOOLEAN /\ stopping \in BOOLEAN /\ failureReported \in BOOLEAN
    /\ lookup \in {"none", "queued", "running", "found", "failed"}
    /\ timer \in {"idle", "armed", "expired", "cancelled"}
    /\ retryDelay \in FirstRetryDelay..MaxRetryDelay
    /\ failureLines \in Nat /\ droppedUnresolved \in Nat /\ lines \in Nat
    /\ matched \in Nat /\ sent \in Nat
    /\ strand \in Seq(Message \cup {Stop})
    /\ posted \in [messages: 0..MaxMessages, stop: BOOLEAN]

\* The handler of stop() has run.
Stopped == posted.stop /\ \A k \in 1..Len(strand) : strand[k] # Stop

Searching == lookup # "none" \/ timer # "idle"

\* Until the stop, an enabled forwarder without a destination always has one
\* lookup or one retry on its way, never both and never none; with a
\* destination it has neither, so the socket is not opened a second time.
OneSearch ==
    /\ ~(lookup # "none" /\ timer # "idle")
    /\ built /\ host # "off" /\ ~Stopped => (Searching <=> ~resolved)

\* No message disappears: each one that passed the facility lists was given
\* to the socket, is in the line about the success, or is in the counter for
\* it.
DropsAccounted == matched = sent + lines + droppedUnresolved

\* The failure is in the system log once however often it is met, and it is
\* there whenever a retry is on its way.
FailureReportedOnce ==
    /\ failureLines <= 1
    /\ timer # "idle" => failureReported /\ failureLines = 1

\* A forwarded datagram never exceeds max_message_size, is unchanged when it
\* fits, and a shortened one has the note exactly when the note fits.
WithinMaxSize ==
    LET n == last.m.size
        out == last.out
        whole == maxSize = 0 \/ n <= maxSize
    IN /\ whole => out = [raw |-> n, suffix |-> 0]
       /\ ~whole => /\ out.raw + out.suffix = maxSize
                    /\ out.raw <= n
                    /\ out.suffix > 0 <=> Suffix(n) < maxSize

\* After the stop neither a lookup nor a retry is started.
NothingStartsAfterStop ==
    [][Stopped => ~(lookup = "none" /\ lookup' # "none") /\ timer' # "armed"]_vars

\* The stop lets run() return: what was under way ends and stays ended.
StopEnds == posted.stop ~> []~Searching

\* A destination is found once the name service answers, however the attempts
\* before failed.
EventuallyForwards ==
    <>[]works /\ [](~posted.stop) => <>(host = "off" \/ resolved)
=============================================================================
