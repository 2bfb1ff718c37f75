------------------------------ MODULE Service ------------------------------
(***************************************************************************)
(* minilog as a Windows service (src/src/server/platform/service_win.cpp   *)
(* and main.cpp): the service process from serviceMsgMain() to its exit,   *)
(* with the control handler and the thread that watches the stop event;    *)
(* the commands --stop, --uninstall and --install; and, external, the      *)
(* service manager (SCM) between them, which starts the process again      *)
(* after a failure.                                                        *)
(*                                                                         *)
(* A process is a slot that the next start may take once the process is    *)
(* gone.  What the server does between its start and its end is the        *)
(* subject of the other modules.                                           *)
(***************************************************************************)
EXTENDS Integers

CONSTANTS
    MaxProcesses,   \* bound: processes of the service that there are at once,
                    \* the ones that have reported their end included
    MaxCommands     \* bound: runs of --stop and --uninstall

ASSUME BoundsAssumption == MaxProcesses \in Nat /\ MaxCommands \in Nat

Processes == 1..MaxProcesses
NoProcess == 0
Restarts == 2       \* SC_ACTION_RESTART in installService()

VARIABLES
    registered,     \* the service is in the SCM's database
    marked,         \* it is marked for deletion
    recovery,       \* the recovery actions are configured, and the flag that
                    \* makes a reported failure one
    state,          \* dwCurrentState
    failures,       \* failures since the reset period last passed, counted as
                    \* far as the recovery actions differ
    restart,        \* a restart by the SCM is due
    restarts,       \* history: restarts since the reset period last passed
    current,        \* the process of the last start
    proc,           \* proc[p]: where main() of process p is
    event,          \* event[p]: g_stopEvent
    watcher,        \* watcher[p]: the thread of setupShutdown()
    handler,        \* handler[p]: where serviceCtrlHandler() is
    threw,          \* threw[p]: handlerThrew
    byItself,       \* history: run() returned without a stop in process p
    asked,          \* history: a stop control was accepted by process p
    cmd             \* the command: its kind, step, the process it has opened,
                    \* and whether the service was started again meanwhile

scm == <<registered, marked, recovery, state, failures, restart, restarts, current>>
process == <<proc, event, watcher, handler, threw, byItself, asked>>
vars == <<registered, marked, recovery, state, failures, restart, restarts, current, proc,
          event, watcher, handler, threw, byItself, asked, cmd>>

Idle == {"none", "ok", "failed"}        \* steps at which no command runs
NoCommand ==
    [kind |-> "none", pc |-> "none", target |-> NoProcess, opened |-> FALSE,
     again |-> FALSE, count |-> 0]

Alive(p) == proc[p] \notin {"none", "gone"}
-----------------------------------------------------------------------------
(***************************************************************************)
(* The service manager.                                                    *)
(***************************************************************************)

\* A service that is stopped goes away if it is marked for deletion.
Gone == registered' = ~marked /\ marked' = FALSE

\* Mutant: the last restart is repeated.
ActionForAlways(n) == "restart"

\* The recovery action for the n-th failure: the last one is repeated.
ActionFor(n) == IF n <= Restarts THEN "restart" ELSE "none"

\* The service is stopped: a failure has its recovery action.
ScmStopped(failed) ==
    /\ state' = "stopped"
    /\ failures' = IF failed /\ failures <= Restarts THEN failures + 1 ELSE failures
    /\ restart' = (failed /\ recovery.actions /\ ~marked
                   /\ ActionFor(failures + 1) = "restart")
    /\ Gone
    /\ UNCHANGED <<recovery, restarts, current>>

\* A slot that the next process may take.
Free(p) == ~Alive(p) /\ p # cmd.target

\* A process of the service is started.
Launch ==
    /\ registered /\ ~marked /\ state = "stopped"
    /\ \E p \in Processes :
        /\ Free(p) /\ \A q \in 1..(p - 1) : ~Free(q)
        /\ current' = p /\ proc' = [proc EXCEPT ![p] = "boot"]
    /\ state' = "startPending"
    /\ restart' = FALSE
    /\ cmd' = [cmd EXCEPT !.again = (cmd.pc \notin Idle)]
    /\ UNCHANGED <<registered, marked, recovery, failures, event, watcher, handler, threw,
                   byItself, asked>>

\* By an administrator, or at the start of the machine.
Start ==
    /\ Launch
    /\ restarts' = restarts

\* By the recovery action.
Restart ==
    /\ restart
    /\ Launch
    /\ restarts' = restarts + 1

\* FAILURE_RESET_PERIOD_S without a failure.
ResetPeriodPasses ==
    /\ state = "running" /\ failures > 0
    /\ failures' = 0 /\ restarts' = 0
    /\ UNCHANGED <<registered, marked, recovery, state, restart, current, process, cmd>>

\* SetServiceStatus() of process p; after SERVICE_STOPPED it has no effect.
SetStatus(p, s, failed) ==
    IF p # current \/ state = "stopped" THEN UNCHANGED scm
    ELSE IF s = "stopped" THEN ScmStopped(failed)
    ELSE state' = s /\ UNCHANGED <<registered, marked, recovery, failures, restart, restarts,
                                   current>>

\* A process is gone, its threads with it; one that has not reported that it stopped has failed.
Vanish(p) ==
    /\ proc' = [proc EXCEPT ![p] = "gone"]
    /\ event' = [event EXCEPT ![p] = "none"]
    /\ watcher' = [watcher EXCEPT ![p] = "none"]
    /\ handler' = [handler EXCEPT ![p] = "idle"]
    /\ threw' = [threw EXCEPT ![p] = FALSE]
    /\ byItself' = [byItself EXCEPT ![p] = FALSE]
    /\ asked' = [asked EXCEPT ![p] = FALSE]
    /\ IF p = current /\ state # "stopped" THEN ScmStopped(TRUE) ELSE UNCHANGED scm
    /\ UNCHANGED cmd
-----------------------------------------------------------------------------
(***************************************************************************)
(* A service process.                                                      *)
(***************************************************************************)

To(p, where) == proc' = [proc EXCEPT ![p] = where]

\* serviceMsgMain() up to runServer(): the event that the handler sets.  Where
\* the handler cannot be registered it returns without a report, and the
\* process stays as it is until something ends it.
Boot(p) ==
    /\ proc[p] = "boot"
    /\ \/ /\ event' = [event EXCEPT ![p] = "open"]
          /\ To(p, "init")
          /\ SetStatus(p, "startPending", FALSE)
       \/ /\ To(p, "exiting")
          /\ SetStatus(p, "stopped", TRUE)
          /\ UNCHANGED event
       \/ To(p, "unreported") /\ UNCHANGED <<scm, event>>
    /\ UNCHANGED <<watcher, handler, threw, byItself, asked, cmd>>

\* runServer() up to setupShutdown(), which starts the watcher; a
\* configuration or a sink that fails ends it before that.
Initialise(p) ==
    /\ proc[p] = "init"
    /\ \/ To(p, "armed") /\ watcher' = [watcher EXCEPT ![p] = "waiting"]
       \/ To(p, "failed") /\ UNCHANGED watcher
    /\ UNCHANGED <<scm, event, handler, threw, byItself, asked, cmd>>

\* start() of the server, and reportServiceStarted().
StartServer(p) ==
    /\ proc[p] = "armed"
    /\ \/ To(p, "serving") /\ SetStatus(p, "running", FALSE)
       \/ To(p, "failed") /\ UNCHANGED scm
    /\ UNCHANGED <<event, watcher, handler, threw, byItself, asked, cmd>>

\* A handler throws: run() is entered again, and the exit code remembers it.
HandlerThrows(p) ==
    /\ proc[p] \in {"serving", "stopping"} /\ ~threw[p]
    /\ threw' = [threw EXCEPT ![p] = TRUE]
    /\ UNCHANGED <<scm, proc, event, watcher, handler, byItself, asked, cmd>>

\* The server listens no more and no work is left: run() returns unasked.
ServerEndsItself(p) ==
    /\ proc[p] = "serving" /\ threw[p]
    /\ To(p, "failed")
    /\ byItself' = [byItself EXCEPT ![p] = TRUE]
    /\ UNCHANGED <<scm, event, watcher, handler, threw, asked, cmd>>

\* The exit code of runServer() after a stop.
ExitCodeOfStop(p) == IF threw[p] THEN "failed" ELSE "returned"

\* The stop has run its course.  That onStop does not throw is assumed: what
\* becomes of a stop that does is in module UdpServer.
ServerStops(p) ==
    /\ proc[p] = "stopping"
    /\ To(p, ExitCodeOfStop(p))
    /\ UNCHANGED <<scm, event, watcher, handler, threw, byItself, asked, cmd>>

\* The rest of serviceMsgMain(): the event is closed, then the end reported.
CloseEvent(p) ==
    /\ proc[p] \in {"returned", "failed"} /\ event[p] # "closed"
    /\ event' = [event EXCEPT ![p] = "closed"]
    /\ UNCHANGED <<scm, proc, watcher, handler, threw, byItself, asked, cmd>>

\* Mutant: every end is reported with the code of a failure.
ReportedFailureAlways(p) == recovery.flag

\* Whether the status has a non-zero exit code that the SCM takes for a
\* failure.
ReportedFailure(p) == proc[p] = "failed" /\ recovery.flag

ReportStopped(p) ==
    /\ proc[p] \in {"returned", "failed"} /\ event[p] = "closed"
    /\ SetStatus(p, "stopped", ReportedFailure(p))
    /\ To(p, "exiting")
    /\ UNCHANGED <<event, watcher, handler, threw, byItself, asked, cmd>>

\* tryRunAsService() returns to main(), unless its dispatcher is in the
\* handler, and the image is released.
Exits(p) == proc[p] = "exiting" /\ handler[p] = "idle" /\ Vanish(p)

Crash(p) == Alive(p) /\ proc[p] # "exiting" /\ Vanish(p)

\* serviceCtrlHandler(), on the dispatcher's thread: first the status.
HandlerReports(p) ==
    /\ handler[p] = "report" /\ Alive(p)
    /\ handler' = [handler EXCEPT ![p] = "set"]
    /\ SetStatus(p, "stopPending", FALSE)
    /\ UNCHANGED <<proc, event, watcher, threw, byItself, asked, cmd>>

\* Mutant: the event is not set when the status has changed meanwhile.
SetEventIfPending(p) ==
    IF event[p] = "open" /\ state # "stopPending" THEN "set" ELSE event[p]

\* SetEvent(): nothing on a handle that is closed.
SetEvent(p) == IF event[p] = "open" THEN "set" ELSE event[p]

HandlerSets(p) ==
    /\ handler[p] = "set" /\ Alive(p)
    /\ handler' = [handler EXCEPT ![p] = "idle"]
    /\ event' = [event EXCEPT ![p] = SetEvent(p)]
    /\ UNCHANGED <<scm, proc, watcher, threw, byItself, asked, cmd>>

\* Mutant: the watcher looks at the event now and then, and takes a handle
\* that is closed for one that is set.
WakesOnClosed(p) == event[p] \in {"set", "closed"}

\* WaitForSingleObject() in the watcher returns.
Wakes(p) == event[p] = "set"

WatcherWakes(p) ==
    /\ watcher[p] = "waiting" /\ Wakes(p) /\ Alive(p)
    /\ watcher' = [watcher EXCEPT ![p] = "awake"]
    /\ UNCHANGED <<scm, proc, event, handler, threw, byItself, asked, cmd>>

\* post(ioc, onStop): it reaches the server, or an io_context that is gone.
WatcherPosts(p) ==
    /\ watcher[p] = "awake" /\ Alive(p)
    /\ IF proc[p] = "serving"
       THEN To(p, "stopping") /\ watcher' = [watcher EXCEPT ![p] = "posted"]
       ELSE UNCHANGED proc /\ watcher' = [watcher EXCEPT ![p] = "astray"]
    /\ UNCHANGED <<scm, event, handler, threw, byItself, asked, cmd>>
-----------------------------------------------------------------------------
(***************************************************************************)
(* The commands.                                                           *)
(***************************************************************************)

Goto(step) == cmd' = [cmd EXCEPT !.pc = step]
End(result) == cmd' = [NoCommand EXCEPT !.pc = result, !.count = cmd.count]

\* main() with --stop or --uninstall: without a registration there is nothing
\* to do.
Begin ==
    /\ cmd.pc \in Idle /\ cmd.count < MaxCommands
    /\ \E k \in {"stop", "uninstall"} :
        cmd' = [NoCommand EXCEPT !.kind = IF registered THEN k ELSE "none",
                                 !.pc = IF registered THEN "look" ELSE "ok",
                                 !.count = cmd.count + 1]
    /\ UNCHANGED <<scm, process>>

\* stopAndWait(): the state, and a handle on the process, which may be
\* refused.
Look ==
    /\ cmd.pc = "look"
    /\ IF state = "stopped" THEN Goto("stopped")
       ELSE \E p \in {current, NoProcess} :
              cmd' = [cmd EXCEPT !.pc = IF state = "stopPending" THEN "waitState"
                                        ELSE "request",
                                 !.target = p, !.opened = p # NoProcess]
    /\ UNCHANGED <<scm, process>>

\* requestStop() in its loop: taken by a running service, or not needed.
RequestStop ==
    /\ cmd.pc = "request" /\ state \in {"running", "stopped"}
    /\ Goto("waitState")
    /\ IF state = "running" /\ proc[current] # "gone"
       THEN /\ handler' = [handler EXCEPT ![current] = "report"]
            /\ asked' = [asked EXCEPT ![current] = TRUE]
       ELSE UNCHANGED <<handler, asked>>
    /\ UNCHANGED <<scm, proc, event, watcher, threw, byItself>>

\* Mutant: the state is all that is waited for.
AfterStoppedState == "stopped"

\* What follows once the SCM says the service is stopped.
AfterStopped == IF cmd.opened THEN "waitProcess" ELSE "stopped"

WaitState ==
    /\ cmd.pc = "waitState" /\ state = "stopped"
    /\ Goto(AfterStopped)
    /\ UNCHANGED <<scm, process>>

WaitProcess ==
    /\ cmd.pc = "waitProcess" /\ proc[cmd.target] = "gone"
    /\ Goto("stopped")
    /\ UNCHANGED <<scm, process>>

\* The deadline passes in one of the loops.
TimesOut ==
    /\ \/ cmd.pc = "request" /\ state \notin {"running", "stopped"}
       \/ cmd.pc = "waitState" /\ state # "stopped"
       \/ cmd.pc = "waitProcess" /\ proc[cmd.target] # "gone"
    /\ End("failed")
    /\ UNCHANGED <<scm, process>>

\* The end of stopService() and of uninstallService(): a service that runs
\* is only marked for deletion.
Finish ==
    /\ cmd.pc = "stopped"
    /\ End("ok")
    /\ IF cmd.kind = "uninstall"
       THEN /\ registered' = (registered /\ state # "stopped")
            /\ marked' = (registered /\ state # "stopped")
            /\ restart' = FALSE
            /\ UNCHANGED <<recovery, state, failures, restarts, current>>
       ELSE UNCHANGED scm
    /\ UNCHANGED process

\* installService(): a new registration, or a new path in the old one; what
\* fails of the recovery actions is only logged.  On a service that is marked
\* for deletion it fails.
Install ==
    /\ cmd.pc \in Idle /\ ~marked
    /\ registered' = TRUE
    /\ recovery' \in [actions: BOOLEAN, flag: BOOLEAN]
    /\ IF registered THEN UNCHANGED <<failures, restarts>>
       ELSE failures' = 0 /\ restarts' = 0
    /\ UNCHANGED <<marked, state, restart, current, process, cmd>>
-----------------------------------------------------------------------------
Init ==
    /\ registered = TRUE /\ marked = FALSE
    /\ recovery = [actions |-> TRUE, flag |-> TRUE]
    /\ state = "stopped" /\ failures = 0 /\ restart = FALSE /\ restarts = 0
    /\ current = NoProcess
    /\ proc = [p \in Processes |-> "none"]
    /\ event = [p \in Processes |-> "none"]
    /\ watcher = [p \in Processes |-> "none"]
    /\ handler = [p \in Processes |-> "idle"]
    /\ threw = [p \in Processes |-> FALSE]
    /\ byItself = [p \in Processes |-> FALSE]
    /\ asked = [p \in Processes |-> FALSE]
    /\ cmd = NoCommand

MainStep(p) ==
    \/ Boot(p) \/ Initialise(p) \/ StartServer(p) \/ ServerStops(p)
    \/ CloseEvent(p) \/ ReportStopped(p) \/ Exits(p)
HandlerStep(p) == HandlerReports(p) \/ HandlerSets(p)
WatcherStep(p) == WatcherWakes(p) \/ WatcherPosts(p)
Mishap(p) == HandlerThrows(p) \/ ServerEndsItself(p) \/ Crash(p)

Command ==
    \/ Begin \/ Look \/ RequestStop \/ WaitState \/ WaitProcess \/ TimesOut \/ Finish
    \/ Install

Next ==
    \/ Start \/ Restart \/ ResetPeriodPasses
    \/ \E p \in Processes : MainStep(p) \/ HandlerStep(p) \/ WatcherStep(p) \/ Mishap(p)
    \/ Command

\* The threads of a process run; nothing is assumed of administrators, of
\* failures, or of how soon the SCM restarts.
Fairness ==
    \A p \in Processes :
        WF_vars(MainStep(p)) /\ WF_vars(HandlerStep(p)) /\ WF_vars(WatcherStep(p))

Spec == Init /\ [][Next]_vars
FairSpec == Spec /\ Fairness
-----------------------------------------------------------------------------
(***************************************************************************)
(* Properties.                                                             *)
(***************************************************************************)

\* A service that keeps failing is restarted twice and then left stopped
\* until it has run healthily for the reset period, by whichever path it
\* fails: "leaving one clearly stopped service rather than an endless restart
\* loop".
RestartsBounded == restarts <= Restarts

\* The SCM starts a service again after an end that it reported itself only
\* if run() ended without the stop, or if a handler had thrown: the stop of an
\* administrator is not undone.
StoppedStaysStopped ==
    [][~restart /\ restart' /\ proc'[current] = "exiting"
           => threw[current] \/ watcher[current] # "posted"]_vars

\* --stop and --uninstall succeed only when the image is free: once they met
\* a service that was not stopped and opened its process, the process of the
\* service is gone when they report success, unless the service was started
\* again in between.
StopFreesTheImage ==
    cmd.pc = "stopped" /\ cmd.opened /\ ~cmd.again
        => proc[cmd.target] = "gone" /\ cmd.target = current

\* The watcher, a detached thread, reaches for the io_context of runServer()
\* after it is gone only where run() returned by itself while a stop was
\* arriving; a start that fails never leads to it.
WatcherAstrayOnlyByItself ==
    \A p \in Processes : watcher[p] = "astray" => byItself[p] /\ asked[p]

\* A stop that a service has accepted ends its process.
StopEnds == \A p \in Processes : asked[p] ~> proc[p] = "gone"
=============================================================================
