----------------------------- MODULE UdpServer -----------------------------
(***************************************************************************)
(* From the socket to the sinks (src/src/server/udp_server.cpp,            *)
(* admission.hpp, output/output_manager.cpp, run_loop.hpp and runServer() *)
(* of main.cpp): the receive loop on the socket strand, the admission      *)
(* budget that every queued copy of a message is charged to, the parse and *)
(* dispatch tasks that run on any thread of the pool, the strands of the   *)
(* sinks, the stop, and the end of io_context::run().                      *)
(*                                                                         *)
(* Handlers of one strand run one at a time; those of different strands    *)
(* and the dispatch tasks interleave.  A datagram is a number, given in    *)
(* the order of arrival.  What an open sink does with a message is module  *)
(* LogFile's subject: here its handler takes the message off the queue, or *)
(* drops it once the sink is closed.  The forwarder (module Forwarder) has *)
(* a strand and a stop of its own and is posted to after the sinks: where  *)
(* there is one, it is the last of the sinks here.                         *)
(***************************************************************************)
EXTENDS Integers, Sequences, FiniteSets, FiniteSetsExt

CONSTANTS
    Budget,         \* max_queue_bytes
    Sizes,          \* sizes a datagram may have
    NumSinks,       \* output sections, in the order of the configuration
    Routes,         \* the sets of sinks that facilities are routed to
    Threads,        \* threads that run the io_context
    SignalWait,     \* the wait for a signal is work of the io_context: on
                    \* Linux and in a console, not in a Windows service
    CanThrow,       \* an allocation inside a handler may throw
    Outages,        \* the storage of a sink may fail
    Forwarding,     \* the last of the sinks is the forwarder
    MaxDatagrams    \* bound: datagrams in a behaviour

Sinks == 1..NumSinks
Datagrams == 1..MaxDatagrams
Close == 0          \* the handler that LogFile::close() posts

ASSUME BudgetAssumption == Budget \in Nat /\ Sizes \subseteq Nat \ {0}
ASSUME SinksAssumption == NumSinks \in Nat \ {0} /\ Routes \subseteq SUBSET Sinks
ASSUME ThreadsAssumption == Threads # {} /\ IsFiniteSet(Threads)
ASSUME SwitchesAssumption == /\ SignalWait \in BOOLEAN /\ CanThrow \in BOOLEAN
                             /\ Outages \in BOOLEAN
                             /\ MaxDatagrams \in Nat
\* forward() posts every message: the facilities are looked at behind the post.
ASSUME ForwardingAssumption == /\ Forwarding \in BOOLEAN
                               /\ Forwarding => \A r \in Routes : NumSinks \in r

VARIABLES
    arrived,        \* arrived[m]: size and route of the datagrams so far
    open,           \* the socket is open
    rx,             \* the asynchronous receive: none, armed, or completed
                    \* with data, with an error, or because the socket is gone
    rearm,          \* m_rearmTimer: idle, armed, or its handler is queued
    pc,             \* the step the handler on the socket strand takes next
    seen,           \* admit(): the counter as this handler last saw it
    inFlight,       \* State::inFlight
    charged,        \* the datagrams whose Charge exists
    dropped,        \* State::droppedWindow
    droppedTotal,   \* State::droppedTotal
    reported,       \* the drops that have been reported, all told
    lastReport,     \* m_lastDropReport: never, recent, or old
    tasks,          \* parse and dispatch tasks queued on the io_context
    running,        \* running[t]: the task thread t runs, and what it has
                    \* still to post
    queue,          \* queue[s]: the handlers queued on the strand of sink s
    taken,          \* taken[s][m]: how often sink s has run the handler of m
                    \* (or of Close)
    late,           \* late[s]: what sink s dropped because it was closed
    sink,           \* sink[s]: up; down, which is trying to reopen its files,
                    \* or to find the destination; or closed for good, at once
                    \* or once the try that was under way has ended (ending)
    signal,         \* onStop: waiting for the stop, being run, or over
    posts,          \* the posts onStop has made
    early,          \* history: what had been dispatched when the stop came
    stop,           \* UdpServer::stop(): no, posted, or done
    threw,          \* handlerThrew
    exited          \* run() has returned on every thread

socket == <<open, rx, rearm, pc, seen>>
drops == <<dropped, droppedTotal, reported, lastReport>>
pool == <<tasks, running>>
sinks == <<queue, taken, late, sink>>
ending == <<signal, posts, early, stop, threw, exited>>
vars == <<arrived, open, rx, rearm, pc, seen, inFlight, charged, dropped,
          droppedTotal, reported, lastReport, tasks, running, queue, taken,
          late, sink, signal, posts, early, stop, threw, exited>>

\* The datagram the socket strand is at: the last one that arrived.
current == Len(arrived)
size(m) == arrived[m].size

Idle == [msg |-> 0, todo |-> {}]

\* The sink is the forwarder; the sink is closed for good.
IsForwarder(s) == Forwarding /\ s = NumSinks
Closed(s) == sink[s] \in {"ending", "closed"}

\* Mutant: only the task on the io_context holds the charge.
HeldByTask(m) ==
    \/ pc = "copy" /\ current = m
    \/ \E k \in 1..Len(tasks) : tasks[k] = m
    \/ \E t \in Threads : running[t].msg = m

\* A copy of the token of datagram m exists: in the receive handler, in a
\* task that is queued or running, or in a message queued at a sink.
Held(m) ==
    \/ pc = "copy" /\ current = m
    \/ \E k \in 1..Len(tasks) : tasks[k] = m
    \/ \E t \in Threads : running[t].msg = m
    \/ \E s \in Sinks : \E k \in 1..Len(queue[s]) : queue[s][k] = m

\* What is queued anywhere on the way to a sink.
Queued == {m \in 1..current :
             \/ \E k \in 1..Len(tasks) : tasks[k] = m
             \/ \E t \in Threads : running[t].msg = m
             \/ \E s \in Sinks : \E k \in 1..Len(queue[s]) : queue[s][k] = m}

\* The bytes of the datagrams of S among those of a.
Bytes(a, S) ==
    LET upto[n \in Nat] ==
            IF n = 0 THEN 0 ELSE upto[n - 1] + (IF n \in S THEN a[n].size ELSE 0)
    IN upto[Len(a)]

Load(S) == Bytes(arrived, S)
-----------------------------------------------------------------------------
(***************************************************************************)
(* The socket strand.                                                      *)
(***************************************************************************)

\* receive(): on a closed socket the operation completes at once.
Receive == rx' = IF open THEN "armed" ELSE "gone"

\* The kernel delivers a datagram to the pending receive.
Arrive ==
    /\ rx = "armed" /\ current < MaxDatagrams
    /\ \E b \in Sizes, r \in Routes :
        arrived' = Append(arrived, [size |-> b, route |-> r])
    /\ rx' = "data"
    /\ UNCHANGED <<open, rearm, pc, seen, inFlight, charged, drops, pool, sinks,
                   ending>>

\* The pending receive fails.
ReceiveError ==
    /\ rx = "armed"
    /\ rx' = "error"
    /\ UNCHANGED <<arrived, open, rearm, pc, seen, inFlight, charged, drops, pool,
                   sinks, ending>>

\* Mutant: an error on a socket that is gone is treated like any other.
IsFatalNever(r) == FALSE

\* operation_aborted or bad_descriptor: the socket is gone.
IsFatal(r) == r = "gone"

\* onReceive() with an error: re-armed after a delay, unless the socket is
\* gone.
OnReceiveError ==
    /\ pc = "idle" /\ rx \in {"error", "gone"}
    /\ rx' = "none"
    /\ rearm' = IF IsFatal(rx) THEN rearm ELSE "armed"
    /\ UNCHANGED <<arrived, open, pc, seen, inFlight, charged, drops, pool, sinks,
                   ending>>

\* onReceive() with a datagram, up to the load at the head of admit().
OnReceive ==
    /\ pc = "idle" /\ rx = "data"
    /\ rx' = "none"
    /\ seen' = inFlight
    /\ pc' = "admit"
    /\ UNCHANGED <<arrived, open, rearm, inFlight, charged, drops, pool, sinks, ending>>

\* The test in the loop of admit().
Fits(f, b) == f + b <= Budget

\* reportDrops(): at most once in an interval unless it is the last report.
ReportDrops(window, force) ==
    LET due == force \/ lastReport # "recent"
    IN /\ dropped' = IF due THEN 0 ELSE window
       /\ reported' = IF due THEN reported + window ELSE reported
       /\ lastReport' = IF due /\ window > 0 THEN "recent" ELSE lastReport

\* reportDrops() throws while it puts its line together, which is after it has
\* taken the drops.
LoseReport(window, force) ==
    /\ force \/ lastReport # "recent"
    /\ window > 0
    /\ dropped' = 0
    /\ lastReport' \in {lastReport, "recent"}
    /\ UNCHANGED reported

\* Mutant: the refused datagram's handler returns without receive().
RefuseDeaf == UNCHANGED rx

\* The re-arm on the path of a refused datagram.
Refuse == Receive

\* admit() refuses the datagram: counted, reported, and the socket re-armed.
Drop ==
    /\ pc = "admit" /\ ~Fits(seen, size(current))
    /\ droppedTotal' = droppedTotal + 1
    /\ ReportDrops(dropped + 1, FALSE)
    /\ Refuse
    /\ pc' = "idle"
    /\ UNCHANGED <<arrived, open, rearm, seen, inFlight, charged, pool, sinks, ending>>

\* Mutant: the counter is stored instead of compared and exchanged.
ExchangeAlways == TRUE

\* Whether compare_exchange_weak() may succeed.
ExchangeSucceeds == inFlight = seen

\* The exchange takes: the charge exists.
Charge ==
    /\ pc = "admit" /\ Fits(seen, size(current))
    /\ ExchangeSucceeds
    /\ inFlight' = seen + size(current)
    /\ charged' = charged \cup {current}
    /\ pc' = "copy"
    /\ UNCHANGED <<arrived, open, rx, rearm, seen, drops, pool, sinks, ending>>

\* It does not, because the counter has moved (or for no reason: the exchange
\* is the weak one): the loop goes round with the value it found.
Recharge ==
    /\ pc = "admit" /\ Fits(seen, size(current)) /\ seen # inFlight
    /\ seen' = inFlight
    /\ UNCHANGED <<arrived, open, rx, rearm, pc, inFlight, charged, drops, pool,
                   sinks, ending>>

\* The rest of onReceive(): the data is copied out, the socket re-armed and
\* the task posted.
Accept ==
    /\ pc = "copy"
    /\ Receive
    /\ tasks' = Append(tasks, current)
    /\ pc' = "idle"
    /\ UNCHANGED <<arrived, open, rearm, seen, inFlight, charged, drops, running,
                   sinks, ending>>

\* An exception leaves the handler of a receive or of the re-arm, and
\* runIoContext() goes back to run() with no receive armed: from the handling of
\* an error or the line on its end, from the report of the drops, from the copy
\* or from receive() itself.  The allocation of the Charge fails behind the
\* exchange, and then the counter keeps the bytes for good.
HandlerThrows ==
    \/ /\ pc = "idle" /\ rx \in {"error", "data"}
       /\ rx' = "none"
       /\ UNCHANGED <<rearm, inFlight, drops>>
    \/ /\ pc = "idle" /\ rearm = "fired"
       /\ rearm' = "idle"
       /\ UNCHANGED <<rx, inFlight, drops>>
    \/ /\ pc = "admit" /\ ~Fits(seen, size(current))
       /\ droppedTotal' = droppedTotal + 1
       /\ ReportDrops(dropped + 1, FALSE) \/ LoseReport(dropped + 1, FALSE)
       /\ UNCHANGED <<rx, rearm, inFlight>>
    \/ /\ pc = "admit" /\ Fits(seen, size(current)) /\ seen = inFlight
       /\ inFlight' = seen + size(current)
       /\ UNCHANGED <<rx, rearm, drops>>
    \/ /\ pc = "copy"
       /\ UNCHANGED <<rx, rearm, inFlight, drops>>

\* The post of the task throws: the socket is armed, but the datagram is gone.
PostThrows ==
    /\ pc = "copy"
    /\ Receive
    /\ UNCHANGED <<rearm, inFlight, drops>>

OnReceiveThrows ==
    /\ CanThrow
    /\ HandlerThrows \/ PostThrows
    /\ pc' = "idle"
    /\ threw' = TRUE
    /\ UNCHANGED <<arrived, open, seen, charged, pool, sinks, signal, posts, early, stop,
                   exited>>

\* The delay before the re-arm is over, and the timer's handler runs.
RearmExpires ==
    /\ rearm = "armed"
    /\ rearm' = "fired"
    /\ UNCHANGED <<arrived, open, rx, pc, seen, inFlight, charged, drops, pool, sinks,
                   ending>>

RearmHandler ==
    /\ pc = "idle" /\ rearm = "fired"
    /\ rearm' = "idle"
    /\ Receive
    /\ UNCHANGED <<arrived, open, pc, seen, inFlight, charged, drops, pool, sinks, ending>>

\* The handler stop() posts: the socket is closed, which aborts a receive
\* that is waiting and leaves one that has completed; the re-arm is cancelled
\* and the drops are reported, last because that may throw.
StopHandler ==
    /\ pc = "idle" /\ stop = "posted"
    /\ stop' = "done"
    /\ open' = FALSE
    /\ rx' = IF rx = "armed" THEN "gone" ELSE rx
    /\ rearm' = IF rearm = "armed" THEN "idle" ELSE rearm
    /\ \/ ReportDrops(dropped, TRUE) /\ UNCHANGED threw
       \/ CanThrow /\ LoseReport(dropped, TRUE) /\ threw' = TRUE
    /\ UNCHANGED <<arrived, pc, seen, inFlight, charged, droppedTotal, pool, sinks,
                   signal, posts, early, exited>>

\* DROP_REPORT_INTERVAL passes.
ReportIntervalPasses ==
    /\ lastReport = "recent"
    /\ lastReport' = "old"
    /\ UNCHANGED <<arrived, socket, inFlight, charged, dropped, droppedTotal, reported,
                   pool, sinks, ending>>
-----------------------------------------------------------------------------
(***************************************************************************)
(* The pool and the sinks.                                                 *)
(***************************************************************************)

\* facilityMatches() for the sinks of dispatch().
Matching(m) == arrived[m].route

\* A thread takes the task at the head of the queue: the datagram is parsed.
TakeTask(t) ==
    /\ running[t] = Idle /\ tasks # <<>>
    /\ tasks' = Tail(tasks)
    /\ running' = [running EXCEPT ![t] = [msg |-> Head(tasks),
                                          todo |-> Matching(Head(tasks))]]
    /\ UNCHANGED <<arrived, socket, inFlight, charged, drops, sinks, ending>>

\* One turn of the loop in dispatch(): a copy is posted to the next sink that
\* matches.
Post(t) ==
    /\ running[t].todo # {}
    /\ LET s == Min(running[t].todo)
       IN /\ queue' = [queue EXCEPT ![s] = Append(@, running[t].msg)]
          /\ running' = [running EXCEPT ![t].todo = @ \ {s}]
    /\ UNCHANGED <<arrived, socket, inFlight, charged, drops, tasks, taken, late, sink,
                   ending>>

\* The task is done and its copy of the token gone.
TaskDone(t) ==
    /\ running[t].msg # 0 /\ running[t].todo = {}
    /\ running' = [running EXCEPT ![t] = Idle]
    /\ UNCHANGED <<arrived, socket, inFlight, charged, drops, tasks, sinks, ending>>

\* The task throws part way; runIoContext() goes back to run().
TaskThrows(t) ==
    /\ CanThrow /\ running[t].todo # {}
    /\ running' = [running EXCEPT ![t] = Idle]
    /\ threw' = TRUE
    /\ UNCHANGED <<arrived, socket, inFlight, charged, drops, tasks, sinks, signal, posts,
                   early, stop, exited>>

\* The strand of sink s runs the next handler.
Run(s) ==
    /\ queue[s] # <<>>
    /\ queue' = [queue EXCEPT ![s] = Tail(@)]
    /\ taken' = [taken EXCEPT ![s][Head(queue[s])] = @ + 1]
    /\ UNCHANGED <<arrived, socket, inFlight, charged, drops, pool, signal, posts, early,
                   stop, exited>>

\* doWrite(), which returns at once on a closed sink; doForward(), which does
\* not.
Write(s) ==
    /\ Run(s) /\ Head(queue[s]) # Close
    /\ late' = IF Closed(s) /\ ~IsForwarder(s)
                 THEN [late EXCEPT ![s] = @ \cup {Head(queue[s])}] ELSE late
    /\ UNCHANGED <<sink, threw>>

\* The write fails: failSink() closes the files and arms the retry timer.
WriteFails(s) ==
    /\ Outages /\ sink[s] = "up" /\ ~IsForwarder(s)
    /\ Run(s) /\ Head(queue[s]) # Close
    /\ sink' = [sink EXCEPT ![s] = "down"]
    /\ UNCHANGED <<late, threw>>

\* Nothing catches what doForward() throws but runIoContext().
ForwardThrows(s) ==
    /\ CanThrow /\ IsForwarder(s)
    /\ Run(s) /\ Head(queue[s]) # Close
    /\ threw' = TRUE
    /\ UNCHANGED <<late, sink>>

\* The handler that close() posts, or the forwarder's stop(): the timer is
\* cancelled.  A timer handler that is queued already returns when its turn
\* comes, a lookup when the resolver does.
CloseHandler(s) ==
    /\ Run(s) /\ Head(queue[s]) = Close
    /\ sink' = [sink EXCEPT ![s] = IF sink[s] = "down" THEN "ending" ELSE "closed"]
    /\ UNCHANGED <<late, threw>>

SinkStep(s) == Write(s) \/ WriteFails(s) \/ ForwardThrows(s) \/ CloseHandler(s)

\* A try to reopen the files, or to find the destination, succeeds.  One that
\* fails arms the timer again.
SinkRecovers(s) ==
    /\ sink[s] = "down"
    /\ sink' = [sink EXCEPT ![s] = "up"]
    /\ UNCHANGED <<arrived, socket, inFlight, charged, drops, pool, queue, taken, late,
                   ending>>

\* What was under way when the sink was closed comes to its end.
SinkEnds(s) ==
    /\ sink[s] = "ending"
    /\ sink' = [sink EXCEPT ![s] = "closed"]
    /\ UNCHANGED <<arrived, socket, inFlight, charged, drops, pool, queue, taken, late,
                   ending>>

\* ~Charge: the last copy of a token is gone.
Release(m) ==
    /\ m \in charged /\ ~Held(m)
    /\ inFlight' = inFlight - size(m)
    /\ charged' = charged \ {m}
    /\ UNCHANGED <<arrived, socket, drops, pool, sinks, ending>>
-----------------------------------------------------------------------------
(***************************************************************************)
(* The stop and the end of run().                                          *)
(***************************************************************************)

\* No task is left of these datagrams.
Dispatched ==
    {m \in 1..current :
        /\ ~(m = current /\ (rx = "data" \/ pc # "idle"))
        /\ \A k \in 1..Len(tasks) : tasks[k] # m
        /\ \A t \in Threads : running[t].msg # m}

\* A signal, or the service manager: a thread runs onStop.
Signal ==
    /\ ~exited /\ signal = "waiting"
    /\ signal' = "handling"
    /\ early' = Dispatched
    /\ UNCHANGED <<arrived, socket, inFlight, charged, drops, pool, sinks, posts, stop,
                   threw, exited>>

\* onStop posts the stop of the server first...
StopServer ==
    /\ signal = "handling" /\ posts = 0
    /\ stop' = "posted"
    /\ posts' = 1
    /\ UNCHANGED <<arrived, socket, inFlight, charged, drops, pool, sinks, signal, early,
                   threw, exited>>

\* Mutant: close() closes the sink where it is called.
CloseAhead(q) == <<Close>> \o q

\* close() posts: what is queued already goes first.
CloseBehind(q) == Append(q, Close)

\* ... and then the close of one sink after the other.
CloseSink(s) ==
    /\ signal = "handling" /\ posts = s
    /\ queue' = [queue EXCEPT ![s] = CloseBehind(@)]
    /\ posts' = s + 1
    /\ signal' = IF s = NumSinks THEN "over" ELSE signal
    /\ UNCHANGED <<arrived, socket, inFlight, charged, drops, pool, taken, late, sink,
                   early, stop, threw, exited>>

\* One of the posts throws: the ones behind it are never made.
OnStopThrows ==
    /\ CanThrow /\ signal = "handling"
    /\ signal' = "over"
    /\ threw' = TRUE
    /\ UNCHANGED <<arrived, socket, inFlight, charged, drops, pool, sinks, posts, early,
                   stop, exited>>

OnStop == StopServer \/ (\E s \in Sinks : CloseSink(s)) \/ OnStopThrows

\* Sinks and forwarder have a timer armed, a handler queued or a lookup under
\* way.
Retrying == \E s \in Sinks : sink[s] \in {"down", "ending"}

\* Mutant: the wait for a signal holds run() in a service too.
WorkInConsole ==
    \/ rx # "none" \/ rearm # "idle" \/ pc # "idle" \/ stop = "posted"
    \/ tasks # <<>> \/ \E t \in Threads : running[t] # Idle
    \/ \E s \in Sinks : queue[s] # <<>>
    \/ Retrying
    \/ signal # "over"

\* Work that run() waits for.
Work ==
    \/ rx # "none" \/ rearm # "idle" \/ pc # "idle" \/ stop = "posted"
    \/ tasks # <<>> \/ \E t \in Threads : running[t] # Idle
    \/ \E s \in Sinks : queue[s] # <<>>
    \/ Retrying
    \/ signal = "handling"
    \/ SignalWait /\ signal = "waiting"

\* run() returns on every thread, and runServer() with it.
Exit ==
    /\ ~exited /\ ~Work /\ charged = {}
    /\ exited' = TRUE
    /\ UNCHANGED <<arrived, socket, inFlight, charged, drops, pool, sinks, signal, posts,
                   early, stop, threw>>
-----------------------------------------------------------------------------
\* start() has bound the socket and called receive(); the files are open, and a
\* destination that is a name is being looked up.
Init ==
    /\ arrived = <<>>
    /\ open = TRUE /\ rx = "armed" /\ rearm = "idle" /\ pc = "idle" /\ seen = 0
    /\ inFlight = 0 /\ charged = {}
    /\ dropped = 0 /\ droppedTotal = 0 /\ reported = 0 /\ lastReport = "never"
    /\ tasks = <<>> /\ running = [t \in Threads |-> Idle]
    /\ queue = [s \in Sinks |-> <<>>] /\ taken = [s \in Sinks |-> [m \in 0..MaxDatagrams |-> 0]]
    /\ late = [s \in Sinks |-> {}]
    /\ sink \in [Sinks -> {"up", "down"}]
    /\ \A s \in Sinks : sink[s] = "down" => IsForwarder(s)
    /\ signal = "waiting" /\ posts = 0 /\ early = {}
    /\ stop = "no" /\ threw = FALSE /\ exited = FALSE

SocketStep ==
    \/ OnReceiveError \/ OnReceive \/ Drop \/ Charge \/ Recharge \/ Accept
    \/ OnReceiveThrows \/ RearmHandler \/ StopHandler

TaskStep(t) == TakeTask(t) \/ Post(t) \/ TaskDone(t) \/ TaskThrows(t)

Next ==
    \/ Arrive \/ ReceiveError
    \/ SocketStep
    \/ RearmExpires \/ ReportIntervalPasses
    \/ \E t \in Threads : TaskStep(t)
    \/ \E s \in Sinks : SinkStep(s) \/ SinkRecovers(s) \/ SinkEnds(s)
    \/ \E m \in Datagrams : Release(m)
    \/ Signal
    \/ OnStop
    \/ Exit

\* The threads in run() take up every handler that is queued and every timer
\* expires; a strand is first in, first out, so that a posted stop gets its
\* turn however many receives complete.  A lookup returns, by the resolver's
\* timeout if need be.  Senders, errors and signals owe nothing, and neither do
\* the storage and the name service, which may stay away for good.
Fairness ==
    /\ WF_vars(SocketStep) /\ SF_vars(StopHandler)
    /\ WF_vars(RearmExpires)
    /\ \A t \in Threads : WF_vars(TaskStep(t))
    /\ \A s \in Sinks : WF_vars(SinkStep(s)) /\ WF_vars(SinkEnds(s))
    /\ \A m \in Datagrams : WF_vars(Release(m))
    /\ WF_vars(OnStop) /\ WF_vars(Exit)

Spec == Init /\ [][Next]_vars
FairSpec == Spec /\ Fairness
-----------------------------------------------------------------------------
(***************************************************************************)
(* Properties.                                                             *)
(***************************************************************************)

\* Every variable has its type; what is queued has arrived; and the counter of
\* the budget never passes max_queue_bytes, whatever releases fall into the loop
\* of admit().
TypeOK ==
    /\ arrived \in Seq([size: Sizes, route: Routes]) /\ current <= MaxDatagrams
    /\ open \in BOOLEAN /\ threw \in BOOLEAN /\ exited \in BOOLEAN
    /\ rx \in {"none", "armed", "data", "error", "gone"}
    /\ rearm \in {"idle", "armed", "fired"}
    /\ pc \in {"idle", "admit", "copy"}
    /\ seen \in Int /\ inFlight \in Int /\ seen <= Budget /\ inFlight <= Budget
    /\ charged \subseteq 1..current
    /\ dropped \in Nat /\ droppedTotal \in Nat /\ reported \in Nat
    /\ lastReport \in {"never", "recent", "old"}
    /\ tasks \in Seq(1..current)
    /\ running \in [Threads -> [msg: 0..current, todo: SUBSET Sinks]]
    /\ queue \in [Sinks -> Seq(0..current)]
    /\ late \in [Sinks -> SUBSET (1..current)]
    /\ sink \in [Sinks -> {"up", "down", "ending", "closed"}]
    /\ signal \in {"waiting", "handling", "over"} /\ stop \in {"no", "posted", "done"}
    /\ posts \in 0..(NumSinks + 1) /\ early \subseteq 1..current

\* The bytes received and not yet taken by every sink they go to never exceed
\* max_queue_bytes (README.md, "Behaviour under flood"), however the threads
\* and the sinks fall behind.
QueuedWithinBudget == Load(Queued) <= Budget

\* The counters of AdmissionControl are exact.  The bytes in flight are the
\* charges that exist, whatever releases fall into the loop of admit(): none is
\* lost or counted twice, so that the budget neither leaks away nor grows.
\* Every datagram refused is in a report or waiting for the next one.
CountersMatch ==
    /\ inFlight = Load(charged)
    /\ droppedTotal = reported + dropped

\* Until it is stopped the server never stops listening: a receive is pending,
\* or completed and queued, or its handler is under way, or the re-arm is.
NeverDeaf == stop # "done" => rx # "none" \/ rearm # "idle" \/ pc # "idle"

\* When the process ends, every datagram has been through each sink it is
\* routed to exactly once and through no other, except the ones that were
\* refused, which no sink has seen; the budget is free again; and what the sinks
\* dropped because they were closed (LogFile::doWrite() behind close()) is none
\* of the datagrams that were dispatched before the stop came.
AllDelivered ==
    LET refused == {m \in 1..current : \A s \in Sinks : taken[s][m] = 0}
    IN exited =>
        /\ inFlight = 0
        /\ \A m \in (1..current) \ refused, s \in Sinks :
             taken[s][m] = IF s \in arrived[m].route THEN 1 ELSE 0
        /\ Cardinality({m \in refused : arrived[m].route # {}}) <= droppedTotal
        /\ \A s \in Sinks : late[s] \cap early = {}

\* A stop whose handler has made all its posts ends the process, whatever
\* receive, timer, task or lookup is under way or throws: the socket, the
\* timers, the tasks and the queues all come to an end.
StopEnds == posts = NumSinks + 1 ~> exited

Deaf == ~exited /\ stop = "no" /\ rx = "none" /\ rearm = "idle" /\ pc = "idle"

\* A server that a throw has left without a receive ends, and as a failed run
\* (run_loop.hpp), unless a sink is retrying its files or the forwarder looking
\* for its destination: if that comes to an end, so does the server.  This needs
\* SignalWait = FALSE: the wait for a signal is outstanding work.
DeafServerExits == Deaf ~> (exited /\ threw) \/ Retrying

\* "a throw from UdpServer::onReceive before it re-arms leaves no outstanding
\* async work, so the re-entered run() returns at once" (run_loop.hpp): a server
\* that no longer listens exits.  The timers of a sink in an outage and of a
\* forwarder without a destination are outstanding work of the same io_context.
DeafServerReturns == Deaf ~> exited
=============================================================================
