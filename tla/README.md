# minilog: TLA+ specifications

minilog receives syslog datagrams over UDP, writes them to rotating text and
JSONL files and may forward them; a web page shows the files. This directory
specifies that system from the command line of a sender to the rows of the page,
model-checks the specifications with TLC and proves their safety properties with
TLAPS.
Source paths are relative to the repository; `server/` stands for `src/server/`.

## The system

| Part | State | Operations | Talks to |
|---|---|---|---|
| UDP receive loop (`server/udp_server.cpp`) | socket, pending receive, re-arm timer, time of the last drop report | `start`, `receive`, `onReceive`, `handleReceiveError`, `reportDrops`, `stop` | admits each datagram, posts a parse and dispatch task to the pool |
| Admission control (`server/admission.hpp`) | bytes in flight, drop counters (atomics) | `admit`, `takeDropped`, release of a token | every queued copy of a message holds the token |
| Receive backoff (`server/receive_backoff.hpp`) | streak, delay, time of the last report | `onError`, `onSuccess` | called by the receive loop |
| Output manager (`server/output/output_manager.cpp`) | list of sinks | `open`, `dispatch`, `close` | posts to the strand of each sink that matches |
| Output sink (`server/output/log_file.cpp`) | two streams and their byte counters, `m_closed`, `m_shuttingDown`, retry timer; the chain of files on disk | `openAtStartup`, `write`, rotation, `failSink`, `attemptReopen`, `close` | one strand per sink; the file system; the viewers read its files |
| Sink recovery (`server/output/sink_recovery.hpp`) | failures of the outage, times | `onFailure`, `onRecovered` | called by the sink |
| Forwarder (`server/forwarder/forwarder.cpp`) | destination, retry delay, count of dropped messages | lookup, retry, `forward`, `stop` | one strand; posted to after the sinks |
| Run loop and lifetime (`server/run_loop.hpp`, `server/main.cpp`) | `handlerThrew` | `runIoContext`, shutdown handler | the threads that run everything above |
| Service control (`server/platform/service_*.cpp`) | service status, stop event, watcher thread | `serviceMsgMain`, `serviceCtrlHandler`, `setupShutdown`, `stopAndWait`, install and uninstall | the service manager starts, stops and restarts the server |
| Parser (`server/parser`) | none | `parseSyslog` | called by the tasks on the pool |
| Configuration (`server/config`) | none | `loadConfig`, `facilityMatches` | read once, before everything else |
| Preflight (`server/preflight.cpp`) | findings so far | `--check`: paths, port, destination | the same files and port as a server that may be running |
| Web viewer (`src/web-viewer`) | none in the server; cursor, chain end and rows in the page | `NewFileChain`, `ReadForward`, `ReadBackward`, polls | reads the chain while the sink rotates it |
| Command line viewer (`src/cli-viewer`) | open file and its identity | tail | the same |
| minilog-send (`src/send`) | none | options, formats, one datagram per line, exit status | sends to the receive loop |

What is hard in it, and what makes each part correct:

- **The sink.** A rotation is up to a thousand file system calls on two chains;
  any of them can fail, and the process can die between any two. After that the
  sink closes itself, retries on a timer, and goes on from whatever is on disk.
  Correct: the chain stays in the order the viewers read it in, nothing but the
  oldest records is ever lost, sizes and numbers of generations stay bounded, a
  closed sink comes back by itself, and a shutdown never waits for a timer.
- **From the socket to the sinks.** The receive handler, the tasks on the pool,
  the strands of the sinks and the release of tokens interleave, and the stop
  arrives among them. Correct: what is queued stays within `max_queue_bytes`,
  the counter never leaks, a receive is always pending until the stop, what was
  admitted reaches its sinks once, and a stop ends the process.
- **Failures inside handlers.** An exception leaves a handler half done and the
  run loop goes on.
- **Reports under a rate limit** (drops, receive errors, outages): nothing
  counted twice, nothing lost.
- **The forwarder.** A lookup on another thread, a retry timer and a stop meet on
  one strand. Correct: one search at a time and never none, every message sent
  or counted, nothing started after the stop.
- **The service.** The service manager, the control handler, the watcher, `main()`
  and a `--stop` run at once, and a process may outlive the status it reported.
  Correct: a stop is final, restarts end, a command that succeeds frees the image.
- **`--check`** looks at a machine that changes under it. Correct: what it passes
  starts, what works is not called broken, nothing is left behind.
- **Texts**: fields that contain the separators of the format, bytes that are not
  UTF-8, sizes that overflow, addresses that two platforms read differently.
- **Readers during a rotation** (both viewers): cursors into a chain whose every
  offset moves when a generation is deleted, and answers that arrive late.
  Correct: the page shows a piece of the log without a gap and reaches its end.

## Modules

| Module | Models |
|---|---|
| `LogFile` | one output sink with its chain of files |
| `RetainedLog` | what a chain promises: a log that is forgotten from its old end only |
| `UdpServer` | receive loop, admission, dispatch, strands of the sinks, stop and end of `run()` |
| `Forwarder` | destination, lookups and retries, messages meanwhile, stop |
| `Reports` | delays and reports of a failing socket and of a closed sink, over a clock |
| `Service` | the Windows service, the service manager, `--stop`, `--uninstall`, `--install` |
| `Config` | `loadConfig()` on both platforms, over files edited key by key |
| `Preflight` | `--check` beside the start of the server |
| `Wire` | minilog-send, the network, the parser, and the lines the sink writes |
| `Viewer` | the page of the web viewer, `/lines`, the reader and a file that rotates |
| `MCLogFile`, `MCUdpServer`, `MCForwarder`, `MCPreflight`, `MCWire` | values of the constants for TLC |
| `LogFileProofs` | proofs about the sink, that it implements `RetainedLog`, and about `Reports` |
| `UdpServerProofs`, `ForwarderProofs` | proofs about the receive loop and the forwarder |
| `ServiceProofs`, `PreflightProofs`, `ConfigProofs` | proofs about the service, `--check` and the configuration |
| `WireProofs` | proofs about minilog-send, the parser and the lines of a sink, for texts of any length |
| `ViewerProofs` | proof about the page of the web viewer, for chains, tables and answers of any length |

A definition whose comment begins with "Mutant:" is the bug that the definition
after it does not have; `PROJECT.json` says which property notices it. No
specification uses them.

### LogFile

All members of a sink are touched only on its strand, so at most one handler is
under way: `job` is the handler, `pc` the step it takes next, `i` and `n` the
file and the generation of that step. Every file system call is a step of its
own. `disk[f][g]` is generation `g` of file `f` (0 is the active file). A record
is a number in the order in which the strand takes the messages up, and a file
is the set of records written to it whole, its length, and whether its last line
is unfinished. What a line contains is the subject of `Wire`.

| Actions | Code |
|---|---|
| `Start` | `openAtStartup()`; the configuration may have changed since the last run |
| `Write` | the head of `doWrite()` |
| `RotateIfNeeded`, `Probe`, `Remove`, `Shift` | `rotateIfNeeded()` and the loops of `rotate()` |
| `OpenFile`, `Recovered` | `openFiles()`, the tail of `attemptReopen()` |
| `WriteFile` | the tail of `doWrite()` |
| `WriteFails`, `RotationFails`, `OpenFails` | the error returns, each with `failSink()` and `scheduleRetry()` |
| `Throw`, `ThrowTwice` | the catch of a handler; `failSinkFromHandler()` when the report fails too |
| `RetryExpires`, `RetryHandler` | the timer and its handler |
| `Close`, `Exit` | `close()`, the end of `run()` |
| `Crash`, `FaultChanges`, `DeleteGeneration` | the environment |

`Hazards` says what the environment may do: `fault`, `crash`, `delete`, `lower`
(a lowered `max_files` between two runs), `alloc`. The probe loop is one step: a
generation that disappears during it is as good as gone before or after it, since
every later step looks again. The storage fails as a whole; while it does, any
call may fail and any may succeed, which covers single calls that fail. Lines of
a file have one length, `LineSize[f]`; the active file itself is not deleted from
outside. When `openFiles()` or `rotate()` fails inside `doWrite()`, the code runs
on to its end with both streams closed and no effect; the model ends the handler.

### UdpServer

`rx` is the one asynchronous receive, `pc` the step of the handler on the socket
strand, which `admit()` breaks into load, test and exchange so that releases fall
between them. `running[t]` is the task on thread `t`, `queue[s]` the strand of
sink `s`, `charged` the charges that exist; `Bytes(a, S)` adds up the sizes of the
datagrams `S`, by recursion over the order of their arrival. `Release` is the
destructor of a charge once no copy of its token is left.

A sink is `up`, `down` (it is trying to reopen its files on a timer), `ending` (closed
while a try was under way) or `closed`. `Write` is `doWrite()`: on a closed sink it
returns at once, which the history variable `late` records. `WriteFails` is the way to
`down`, `SinkRecovers` the way back, and `CloseHandler` what `close()` posts. The
forwarder, where there is one (`Forwarding`), is the last of the sinks: its strand is
posted to after the others and stopped after them, it is `down` while it has no
destination, and its `stop()` does not keep it from forwarding what comes later.

`Signal` is the stop that arrives, and from it `onStop` runs on one of the threads, post
by post: `StopServer`, then `CloseSink(s)` for each sink. A datagram whose task runs
at the same time may be posted behind a close. `early` remembers which
datagrams had been dispatched when the stop came.

With `CanThrow` an allocation may fail wherever a handler allocates: in the handling
of a receive error, the report of drops, `admit()` behind its exchange, the copy, the
post of the task, `receive()` itself and the re-arm (`OnReceiveThrows`), in the last report
of the stop (`StopHandler`), in a task (`TaskThrows`), in `doForward()` (`ForwardThrows`) and at every
post of `onStop` (`OnStopThrows`), whose other posts are then never made. What a sink's
own handlers catch is `LogFile`'s subject.

`Work` is all that `run()` waits for, the retry timers of the sinks and the lookup and
timer of the forwarder included (`Retrying`). The wait for a signal is part of it on
Linux and in a console and not in a Windows service, where a thread outside the
`io_context` waits (`SignalWait`). Strands are not tied to threads, so a little more runs
at a time than there are workers; the delay of the re-arm, the retries and the ten
seconds between drop reports are timers that expire some time.

### Forwarder

Everything runs on the forwarder's strand, one handler at a time, except the
lookup itself (`LookupRuns`, `LookupReturns`) and the timer (`RetryExpires`).
`Construct` is the constructor, for a destination that is an address, a name or
absent; `LookupFound`, `LookupFailed` and `LookupIgnored` are the completion of a
lookup, with the socket opened in it; `RetryHandler` is the handler of the timer;
`Forward` and `PostStop` post, `DoForward` (with the facility lists and
`truncateIfNeeded()`) and `StopHandler` are what they post. While `works` is false,
which `WorksChanges` decides, lookups and sockets may fail or succeed, in any
mixture. A message is its facility and its size, which is at most `BufferSize`, what the
server receives a datagram into.

### Reports

`ReceiveError` and `ReceiveSucceeds` are `handleReceiveError()` with `onError()`
and the success path with `onSuccess()`; `SinkFails`, `ReopenFails` and `Reopened`
the calls of `SinkRecovery` from the sink. `Tick` advances the clock; a timer may be
late by `Slack` and no more, which is what makes a bound on the silence meaningful.
The counts in the lines that are written are history variables. `Init`, `Next` and
`Spec` have names of their own here (`ReportsInit` and so on), because
`LogFileProofs` extends this module and `LogFile` together.

### Service

A process is a slot with its own `main()`, control handler, watcher and stop
event, since the service manager may start the next one while the last is still
on its way out. `state`, `failures` and `restart` are the service manager's: they
are external, modelled from what `installService()` configures and `stopAndWait()`
relies on. `Begin` to `Finish` are the steps of `--stop` and `--uninstall`, whose
waits may time out (`TimesOut`); `Boot` to `Exits` the life of a process, the one that
cannot register its control handler and so never reports a status included; `Crash`,
`HandlerThrows` and `ServerEndsItself` its mishaps. That `onStop` itself does not throw
is assumed here: what happens when it does is in `UdpServer`.

### Config

A file is edited key by key (`EditServer`, `EditOutput`, ...) and loaded (`Load`), on
Windows or on Linux. A value is what its text amounts to: a number in or out of
range, junk, a size with its unit, the shape of a host. A function that throws is
an operator whose value is the empty set, and any other the set of its result, so
that a section is the set of records of its keys' results. `parseSize()` has the least
number it accepts in place of `allowZero`, and `requireBool()` its default as a text.
Integers keep the widths of the code
with smaller limits: `SizeMax` is the largest 64 bit number, `Kilo` the factor of
the units, chosen so that the largest unit overflows; the limits of the keys
themselves are the code's. A path is absolute on POSIX, on Windows or on both
(`PosixPaths`, `WindowsPaths`), and `requireAbsolutePath()` asks the platform it runs on:
`/a` is refused on Windows and `C:/a` on Linux.

### Preflight

`check` is the `--check` under way, one look at the machine per step: each
directory with its probe file, each file, the state of the service, the port, the
destination. Beside it the server starts and stops, step by step in the order of
`runServer()`, and others change a permission, a file, the port or the name
service up to `MaxChanges` times. `calm` says that nothing has changed since the check
began; only then can a check promise anything. `made` are the files that the check
has created, `removed` the files and directories that others took away during it.

### Wire

`Options`, `CheckFields`, `Resolve` and `SendLine` are `main()` of minilog-send; the
network loses, repeats and reorders (`Receive` takes any datagram sent so far, never
more than were sent), and
`ReceiveRaw` is a datagram of another sender. A text is a sequence of bytes in
which a symbol above 255 stands for a longer piece (a PRI, a date, the digits of a
number): everything the parser looks for is still a character. `parseSyslog()`,
`escapeControlChars()` and `sanitizeUtf8()` are operators, checked against `Unescape`
and `WellFormed`, which are written from the formats and not from the code. What
reads a text piece by piece (the loops of these two functions and of `splitLines()`,
and `Unescape`) is `Scan` of what is made of the piece at each position and of how long
that piece is.

### Viewer

`disk` is the chain of one file in bytes, written, cut short by a crash, rotated and
deleted from the old end; a record and its newline are written in one step here, and
so is a rotation. `flights` are the requests under way: a poll, an older page, a reload
that a poll has made, one by the user, and a second one by the user while that is under
way, which nothing in the page prevents. `Serve` answers one with the chain of that moment (`ReadForward`,
`ReadBackward`, the tail page, with the limits on lines and bytes); the handlers of
the page apply the answer to whatever the page is by then. `gone` and `base` are
history: how many bytes have been deleted, and at which of these states the
cursors of the page were taken. `Blurs` names the answers that the code applies to
a page they do not fit (below): one whose request overlaps with a load (another load
too), one read after a deletion the page has not noticed, a poll that begins at a clear
beyond its own cursor, and an older page for a top that a poll has pruned away. After
one of them `exact` is false and the properties promise
nothing until the next load. The third happens when a load that is answered after a
deletion moves the cursor back, but not the offset of the clear: the next poll then
skips the lines between the two. Its exact form comes from the proof: that bytes
were deleted since the clear does not describe it, since a clear made while such a
load is under way has the same effect, in more clicks than `Viewer_tail` has.

Offsets are a recursive function of the number of files, and the lines of a read are
put in order by what order means (`InOrder`), not by a sorting operator, so that both
can be reasoned about.

## Runs

| Run | Result | Question |
|---|---|---|
| `LogFile_everything` | holds | one file under every hazard: order, sizes, counters |
| `LogFile_retention` | holds | two files, faults and crashes: refinement, generations, retries, recovery |
| `UdpServer_flood` | holds | budget, counters, listening, delivery |
| `UdpServer_stop` | holds | a stop that was posted ends the process; in a service, a deaf server exits unless a sink or the forwarder is retrying |
| `UdpServer_deaf` | violated | a deaf server exits, whatever else is under way |
| `Forwarder_run` | holds | one search, accounts, one report, sizes, a final stop, eventual forwarding |
| `Reports_clock` | holds | accounts, rate and longest silence of the reports |
| `Service_stop` | holds | restarts bounded, stops final and effective, the watcher's references |
| `Config_load` | holds | an accepted file means what it says, is runnable, and its hosts are read alike everywhere |
| `Preflight_check` | holds | passing means starting, healthy means passing, nothing left behind |
| `Wire_trip` | holds | round trip, one reversible line, UTF-8, a truthful exit status |
| `Viewer_tail` | holds | rows without gaps that catch up with the end |

The violated property states what the comment of `run_loop.hpp` says of the code: that a
throw out of `onReceive()` leaves no outstanding work, so that `run()` returns and the
service manager restarts the service. In the counterexample a sink is in an outage when
the throw comes, and its retry timer keeps `run()` going with nobody listening.
`DeafServerExits` is what does hold.

**Bounds.** `LogFile`: `max_size` is one line, so that every record makes a rotation
due; two bytes are the shortest line that can be torn; a limit of two generations
has a full chain, a gap and a deletion; five messages fill such a chain and rotate
it twice more. Two files are needed for a rotation that stops between the chains.
`UdpServer`: a budget that two of three datagrams fill admits or refuses each
as the releases fall, and two threads and two sinks give every
interleaving of two dispatches with the posts of a stop (`UdpServer_flood`, where
nothing fails). The runs of a stop and of a deaf server have one thread, two datagrams
of which the budget holds one, a sink that may fail and a forwarder: throws at every
place of every handler are what they are for. `Forwarder`:
two messages are one before and one after any event; the sizes lie below, at and
above a limit that the suffix fits or does not fit. `Reports`: eleven ticks hold two
report intervals and most of a third. `Service`: two processes are one that
ends and the next, and a command meets both at every step of either.
`Config`: two edits are two keys that interact (a path and a path, a host and the
switch), at every value on both sides of every limit, with a path that is absolute on
each platform only and one that is on both. `Preflight`: two files in one
directory, one of them without rotation, and one change by others. `Wire`: fields
of up to four characters of every class that the formats tell apart, and all raw
datagrams of the few bytes that the decoders tell apart. `Viewer`: pages of two
lines and two bytes and a table of two rows are exceeded by four records, one of
which the filter hides; one generation is the shortest chain that moves offsets; one click is a second load
beside the one the page starts with.

Deadlock is checked where the system never stops (`LogFile`, `Forwarder`, `Viewer`). The
other runs end: the process exits, the clock or the edits reach their bound, the
check is done.

**Fairness.** Threads are in `run()` as long as the process is up, so a handler that
has begun ends, a timer expires and a queued handler runs (weak fairness of
each). Strands are first in, first out, so a posted stop gets its turn however
many receives complete before it (strong fairness of `StopHandler`). `onStop` goes on
to its end or throws. The resolver has a timeout, so a lookup ends; that of a stopped
forwarder and the queued handler of a closed sink end likewise (`SinkEnds`), while
nothing says that a sink that is down comes up again. In the page the interval timer ticks and every
request is answered or fails. In `Service` the processes and threads run. Nothing
is assumed of senders, signals, the storage, the name service or the service
manager: `SinkRecovers` and `EventuallyForwards` promise nothing while what they need
fails.

## What the models show besides

Behaviours that the properties exempt or that no text forbids, met while modelling:

- **Sink.** With `max_files = 0` a rotation of a full chain creates the generation one
  past the limit of the probe. A lowered `max_files` leaves the generations beyond it
  for good. A failure whose report fails too closes the sink without a retry. A
  record may be appended to a torn line, and the two then share a line.
- **Receive loop.** Outside a Windows service the wait for a signal keeps a server
  alive that has stopped listening after an exception; inside one, the retries of a
  sink or of the forwarder do (`UdpServer_deaf`). When the first post of `onStop` throws,
  the stop is lost: the socket goes on, and the wait for a stop is over. When a
  later one does, a sink is never closed, and one that is in an outage keeps `run()`
  going. A datagram whose task runs beside the stop may be posted behind the close of
  its sink, which drops it without counting it; the forwarder sends it, if it can. A drop
  counted after the last report of the stop is not reported, nor are drops whose
  report throws.
- **Service.** `stopAndWait()` returns at once for a service that already reports
  stopped, although its process may still be unwinding. A service whose handler
  once threw ends with a failure even when it was asked to stop, and is restarted.
  A restart by the service manager can fall into a `--stop`. If `run()` returns by
  itself while a stop arrives, the watcher posts to an `io_context` that is gone.
  A process that cannot register its control handler ends without a status.
- **Configuration.** An unknown section is ignored where an unknown key is an error.
  An empty `facility` means all. What follows a `*` is not validated.
- **`--check`** holds the port for a moment, and a start at that moment fails. A file
  that is removed between its look and its open is created again, empty. A directory
  that is taken away while the probe file is in it takes the probe along, and the
  removal of what is not there is no error.
- **Messages.** A `-` in RFC 5424 reads as no value, and the text keeps the
  structured data; a second of 60 is rejected by the parser.
- **Page.** A deletion smaller than what was appended since is not noticed by the
  comparison of chain ends, and the cursor then points into another line. A poll
  that a reload overtakes renders into the new table, and two loads at once both do. An older page that arrives
  after the table was pruned leaves a gap. After a failed reload the polls go on
  from the old cursor under an empty table. The offset of a clear survives a
  deletion, so that newer lines stay hidden until the chain has outgrown it.

## Proofs

All theorems hold for every value of the constants that the named assumptions of
the modules allow: any number of files, threads, sinks and messages, any sizes,
limits and intervals.

| Theorem | Statement | Excluded |
|---|---|---|
| `LogFileProofs!TypeCorrect` | `TypeOK` | nothing |
| `ChainStaysOrdered` | `ChainOrdered` | nothing |
| `SizesAccounted` | `SizeBounded` and `Accounting` | nothing |
| `RetryAlwaysPending` | `RetryPending` | `alloc` |
| `ChainStaysBounded` | `GenerationsBounded` | `lower` |
| `LogFileImplementsRetainedLog` | the sink implements `RetainedLog` | `lower`, `delete` |
| `UdpServerProofs!TypeCorrect` | `TypeOK`, with the counter within the budget | nothing |
| `ListensUntilStopped` | `NeverDeaf` | allocations that fail |
| `QueuedAlwaysWithinBudget` | `QueuedWithinBudget` | nothing |
| `CountersAlwaysMatch` | `CountersMatch` | allocations that fail |
| `EverythingDelivered` | `AllDelivered` | allocations that fail |
| `ForwarderProofs!TypeCorrect` | `TypeOK`, with the delay within its cap | nothing |
| `DropsAlwaysAccounted` | `DropsAccounted` | nothing |
| `AlwaysOneSearch` | `OneSearch` | nothing |
| `FailureAlwaysReportedOnce` | `FailureReportedOnce` | nothing |
| `StopIsFinal` | `NothingStartsAfterStop` | nothing |
| `SentAlwaysWithinMaxSize` | `WithinMaxSize` | nothing |
| `ReportsTypeCorrect` | `ReportsTypeOK` | nothing |
| `ErrorsAlwaysAccounted`, `OutagesAlwaysAccounted` | `ErrorsAccounted`, `OutageAccounted` | nothing |
| `LinesAlwaysBounded` | `LinesBounded` | nothing |
| `SinkNeverSilentLong` | `NeverSilentLong` | nothing |
| `RestartsBoundedAlways` | `RestartsBounded` | nothing |
| `StopFreesTheImageAlways` | `StopFreesTheImage` | nothing |
| `WatcherAstrayAlways` | `WatcherAstrayOnlyByItself` | nothing |
| `StoppedStaysStoppedAlways` | `StoppedStaysStopped` | nothing |
| `PassMeansStartsAlways` | `PassMeansStarts` | nothing |
| `HealthyPassesAlways` | `HealthyPasses` | nothing |
| `LeavesNothingAlways` | `LeavesNothing` | nothing |
| `AlwaysWhatTheFileSays` | `WhatTheFileSays` | nothing |
| `AlwaysRunnableConfig` | `RunnableConfig` | nothing |
| `AlwaysSameEverywhere` | `SameEverywhere` | nothing |
| `AlwaysRoundTrip` | `RoundTrip` | nothing |
| `ExitAlwaysTruthful` | `ExitTruthful` | nothing |
| `AlwaysOneLinePerDatagram` | `OneLinePerDatagram` | nothing |
| `JsonlAlwaysUtf8` | `JsonlIsUtf8` | nothing |
| `ViewerContiguous` | `RowsContiguous` | nothing, beyond what `Blurs` exempts |

The exclusions are necessary: an allocation that fails in the report of a failure
closes the sink for good, one in `onReceive()` leaves the socket without a receive, one
inside `admit()` leaves bytes in the counter that belong to no charge, one in a task
keeps a datagram from its sinks, a
lowered `max_files` leaves generations behind, and a deleted generation is a hole
in the log.

Each proof is an inductive invariant, one case per action. For the sink:

- `Control` ties `job` to `pc`: which handler can be at which step.
- `OrderInv` adds to the order of the generations that the record being written
  is newer than everything on disk, unless this file already has it; without it a
  write could not be seen to keep the order.
- `RecoveryInv` says, inside handlers too, when the sink is closed, an outage is
  counted and a retry is pending, and that after `close()` no file is open and no timer
  armed: a timer handler that was queued before opens nothing.
- `CountInv` follows `openFiles()` file by file: the files already opened have
  their counters right. `LimitInv` says that after the check of the limit the
  file to be written to is below it; after a rotation it is empty.
- `DepthInv` follows the shift: while generation `n` is to be renamed, `n + 1` is
  within the limit and is free, except for the one past the cap when `max_files`
  is 0. This is why a rename overwrites nothing but the oldest generation, which
  is what the refinement needs.
- `NumberInv` bounds the record being written by the number of messages.

For the others:

- `HasDatagram` (receive loop): a receive has completed, or its handler is under
  way, only for a datagram that has arrived; without it nothing is known of the
  size that `admit()` adds to the counter.
- `HeldInv`: whatever the handler, a task, a thread or a queue holds is charged, and
  the datagram being admitted is not yet. `LoadInv`: the counter covers the charges,
  and equals them while no allocation fails. Together they give the budget. What a
  charge adds to the sum, and a release takes from it, is `BytesAdd`; it is proved by
  induction over the order of arrival, from `LeastNat` (a set of numbers has a least
  one), which puts the induction in terms of sets that the provers can handle, and
  from `SumExists`, that the recursive function is one.
- `EarlyInv`: a datagram that had been dispatched when the stop came is ahead of the
  close in every queue that has both, and no sink is closed before `onStop` has posted its
  close; so none of these is among what a closed sink drops. This is the part of
  `EverythingDelivered` that is about `m_closed`.
- `PathInv`: a datagram is in one place of its path (not yet admitted, a task, a thread,
  the queues of its sinks) and in each queue at most once; what a thread has still to
  post is in no queue, and a sink has taken a datagram at most once and only where it
  is routed. The datagrams that are nowhere and were never taken are at most as many
  as were counted as dropped. `ExitInv` says that nothing waits after the end, and then
  every datagram that was not dropped has been taken.
- `StopInv` (forwarder): the stop is posted once, and `m_stopping` is set exactly when
  its handler has run. `SearchInv` rests on it: the stop leaves no timer armed, and
  only the stop cancels one. `ReportInv` rests on that: a first lookup is under way
  only before the one line about the failure, a retry only after it. `SentInv`: what
  was sent last is what `truncateIfNeeded()` made of a message of that size; the lemma
  `TruncateFits` says what that is.
- `SocketInv` (reports): the time of the last report survives the end of a streak, so
  each line about an error is an interval later than the one before. `SinkInv`: the
  next attempt of a closed sink is due within an interval and a wait of the last
  report, which gives the longest silence.
- `RestartInv` (service): a restart is due only for a service that is stopped and
  registered, and the failure it answers has been counted and not been answered yet.
  `CommandInv`: a command that has opened a process keeps its slot from being taken, and
  is past its wait only when that process is gone. `StopOf(p)` follows a stop through one
  process: a control that was accepted, the event, the watcher, the post; the process
  is on its way to a clean end only when the post has reached it.
- `PassInv` (`--check`): as long as nothing has changed and no error was found, the files
  and directories already looked at are good, the port is free once it has been tried,
  and a start that follows has not failed. `TraceInv` says what a step that is not over
  yet may have left behind; `ServerInv` ties the holder of the port to the server.
- `LoadedInv` (configuration): the file is one of `Files`, and `loaded` is what
  `loadConfig()` makes of it. The theorems are then about the operators: `Files` has any
  number and any size with any unit, lists of any length and any number of outputs,
  more than the edits of a run can write, and each `...Says` lemma compares one function
  of the code with the meaning of its text. `ProductFits` is the heart of the sizes: a
  number that is at most the largest one divided by the unit has a product that fits
  and is 0 only for 0.
- `SendInv` (minilog-send): at every place of `main()`, what has been sent is the first
  of the messages and `lines` are the others. `GotInv`: what has been received is what is
  made of some text. The theorems about lines and records are then about the operators,
  for texts of any length and any bytes (`TextsAssumption` says only that command lines,
  host names and datagrams are texts). `Scan` is a recursive function; `WalkExists` and
  `ScanWalks` show that it is one, and `WalkInd` gives an induction from the end of the text
  over a set of positions, in the form the provers can use. Along it, a line is read back to
  the bytes it was made of and has no control characters (`EscapeLine`), what
  `sanitizeUtf8()` returns is well formed (`SanitizedFormed`), and what was well formed is
  returned unchanged (`SanitizedSame`: the sequences of a well-formed text begin where the
  loop looks for them, because no two overlap, `Apart`).
- `TripInv`: every datagram sent can be read back, and one received from minilog-send was
  sent. `BuiltReadBack` is the result about the formats. A datagram is brought into the
  form of words, each with the character that ends it (`LastWords`, `LastWords3164`); what
  `validateFields()` lets through has no such character (`TokenField`, `TagIs`), so the parser
  finds the same words (`NilableWord`, `TagFound`), the date of RFC 3164 with its padded day
  (`StampFound`) and the four spaces it counts (`FourSpaces`); and nothing but the end of
  the message is stripped (`StrippedWord`).
- `Inv` (web viewer) says that there are places `p`, one for every record written, with
  which the disk, the answers under way and the table agree. A place counts the bytes
  written before a record, deleted or not, so it never changes, while every offset of
  the chain does; the places themselves are in no variable, hence the quantifier.
  - `DiskOK(p)`: places rise with the records, and every byte on the disk is a newline
    or belongs to the record of that number, at its place. A process killed in a write
    leaves a record without its line end; the next one then shares its line, and neither
    is a row. `View(p)` is what of the disk the rest needs to know: the whole lines with
    their places (`Marks`), the end, what is deleted. `DiskStep` shows that minilog only
    takes it further (`Later`): a line that stands anew stands behind the old end.
  - `AnswerOK`: what an answer shows was a piece of the log when it was read. A poll has
    every record sought from its offset to its `next` (`ForwardAnswer`), a page read
    backward every one from its `first` to its offset (`BackwardAnswer`), cut short by the
    count or the byte budget or not. By `AnswerLater` this stays true whatever is written
    and deleted until the answer is applied, because all of it is said of places and up to
    an end that the log had reached.
  - `Unbroken`: no line stands across the cursor at the top. Without it a page read
    backward, which reads the first piece of a line that crosses its offset as a line,
    would leave that record to neither side.
  - `FlightsOK`, `OlderAhead`: a poll that is not out of date goes on from the cursor at
    the bottom; an older page was asked for at a place the log has reached; beside a load
    both are out of date, and the table is empty.
  - `PageTable`: the rows are the records sought from where the table begins to the cursor
    at the bottom. `PollTable` (with the rows pruned at the top), `OlderTable` and `LoadTable`
    are the three ways in which an answer extends it.

  `OffsetsSum` (the recursive function of the offsets is one) and `InOrderLists` (a finite
  set of lines can be listed by place) are inductions over sets of numbers, like
  `SumExists` above.

Only model-checked: liveness (`SinkRecovers`, `StopEnds`, `DeafServerExits`,
`EventuallyForwards`, `CatchesUp`), since fairness is out of the reach of this prover.
Every invariant and every action property of the runs that hold is a theorem.

## Not modelled

- **The rest of the web viewer**: the search and its jumps, the switch between
  sinks, the chunks the reader reads in and the limit on the length of a line, the
  configuration and the service of the viewer. A snapshot of the chain is one step
  of `Viewer`: taken during a rotation it would need the steps of `LogFile`'s rotation
  in the same model, which with the page is more than TLC can explore. Reading the
  code, a jump to a match sets the cursor to the end of the chain after one page,
  and one that fails leaves the polls stopped.
- **The command line viewer**: an interactive tail of one file by name.
- **Command lines of the server**, logging and its wording, the layout of the JSON
  record, dates (one token in `Wire`), and quoting of the service's command line.
- **Composition**: `LogFile`, `UdpServer` and `Forwarder` are not one model. They meet at
  the strands: what `UdpServer` posts, the other two take up in that order, which is
  how their `Write` and `Forward` are enabled.
- **The installer, the demo, packaging and vendored code.**

Worth adding next: a reader over `LogFile`'s own rotation steps, without the page, for
the snapshot that is taken file by file.
