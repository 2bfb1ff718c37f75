--------------------------- MODULE ServiceProofs ---------------------------
(***************************************************************************)
(* Proofs about module Service: the restarts, the stop and its effect, and *)
(* the watcher, for any number of processes and commands.                  *)
(***************************************************************************)
EXTENDS Service, TLAPS

Slots == [Processes -> BOOLEAN]
Early == {"none", "boot", "init", "armed", "unreported", "gone"}   \* no server yet

\* A restart is due only for a service that is stopped, registered and not on
\* its way out, and the failure it answers has been counted.
RestartInv ==
    /\ failures \in 0..(Restarts + 1) /\ restarts \in 0..Restarts
    /\ restart \in BOOLEAN /\ registered \in BOOLEAN /\ marked \in BOOLEAN
    /\ restarts <= failures
    /\ restart => /\ state = "stopped" /\ registered /\ ~marked
                  /\ restarts < failures /\ failures <= Restarts

\* A command that has opened the process of the service keeps its slot from
\* being taken, and only a start in between changes what the current one is.
CommandInv ==
    /\ DOMAIN cmd = {"kind", "pc", "target", "opened", "again", "count"}
    /\ cmd.opened => cmd.target \in Processes /\ cmd.pc \notin Idle \cup {"look"}
    /\ cmd.opened /\ ~cmd.again => cmd.target = current
    /\ cmd.opened /\ cmd.pc = "stopped" => proc[cmd.target] = "gone"

ProcessType ==
    /\ current \in Processes \cup {NoProcess}
    /\ state # "stopped" => current \in Processes
    /\ DOMAIN proc = Processes /\ DOMAIN event = Processes /\ DOMAIN watcher = Processes
    /\ DOMAIN handler = Processes
    /\ threw \in Slots /\ byItself \in Slots /\ asked \in Slots

\* A stop has been accepted only in a process whose server was up: it is
\* serving still, or run() returned by itself, or the stop has reached it.
Reached(p) == proc[p] = "serving" \/ byItself[p] \/ watcher[p] = "posted"

StopOf(p) ==
    /\ proc[p] \in Early => ~asked[p] /\ ~byItself[p] /\ watcher[p] \in {"none", "waiting"}
    /\ handler[p] # "idle" \/ event[p] = "set" \/ watcher[p] \notin {"none", "waiting"}
         => asked[p]
    /\ asked[p] => Reached(p)
    /\ proc[p] = "stopping" => watcher[p] = "posted"
    /\ proc[p] = "failed" /\ watcher[p] = "posted" => threw[p]
    /\ watcher[p] = "astray" => byItself[p]

StopInv ==
    /\ \A p \in Processes : StopOf(p)
    /\ state = "running" => Reached(current)

IInv == RestartInv /\ CommandInv /\ ProcessType /\ StopInv
-----------------------------------------------------------------------------
\* The invariant holds of a machine without the service.
LEMMA InitIInv == Init => IInv
<1> SUFFICES ASSUME Init PROVE IInv
  OBVIOUS
<1>1. RestartInv
  <2>1. registered \in BOOLEAN /\ marked \in BOOLEAN /\ restart \in BOOLEAN
    BY Zenon DEF Init
  <2>2. ~restart /\ failures = 0 /\ restarts = 0
    BY Zenon DEF Init
  <2> QED
    BY <2>1, <2>2 DEF RestartInv, Restarts
<1>2. CommandInv
  <2>1. cmd = NoCommand
    BY Zenon DEF Init
  <2>2. /\ DOMAIN NoCommand = {"kind", "pc", "target", "opened", "again", "count"}
        /\ NoCommand.opened = FALSE
    BY DEF NoCommand
  <2> QED
    BY <2>1, <2>2 DEF CommandInv
<1>3. /\ state = "stopped" /\ current = NoProcess
      /\ proc = [p \in Processes |-> "none"]
      /\ event = [p \in Processes |-> "none"]
      /\ watcher = [p \in Processes |-> "none"]
      /\ handler = [p \in Processes |-> "idle"]
      /\ threw = [p \in Processes |-> FALSE]
      /\ byItself = [p \in Processes |-> FALSE]
      /\ asked = [p \in Processes |-> FALSE]
  BY Zenon DEF Init
<1>4. ProcessType
  BY <1>3 DEF ProcessType, Slots, NoProcess
<1>5. StopInv
  BY <1>3 DEF StopInv, StopOf, Early
<1> QED
  BY <1>1, <1>2, <1>4, <1>5 DEF IInv

-----------------------------------------------------------------------------
(***************************************************************************)
(* The restarts.                                                           *)
(***************************************************************************)

\* The manager counts a failure and restarts within the limit of the service's
\* recovery actions.
LEMMA ScmStoppedRestart ==
    ASSUME RestartInv, NEW failed \in BOOLEAN, ScmStopped(failed)
    PROVE  RestartInv'
<1>1. failures' \in 0..(Restarts + 1) /\ failures <= failures'
  BY DEF RestartInv, ScmStopped, Restarts
<1>2. restarts' = restarts /\ state' = "stopped"
  BY DEF ScmStopped
<1>3. registered' \in BOOLEAN /\ marked' \in BOOLEAN /\ restart' \in BOOLEAN
  BY Zenon DEF RestartInv, ScmStopped, Gone
<1>4. ASSUME restart'
      PROVE  /\ registered' /\ ~marked'
             /\ failures' = failures + 1 /\ failures' <= Restarts
  <2>1. failed /\ ~marked /\ ActionFor(failures + 1) = "restart"
    BY <1>4 DEF ScmStopped
  <2>2. failures + 1 <= Restarts
    BY <2>1 DEF ActionFor
  <2>3. failures' = failures + 1
    BY <2>1, <2>2 DEF ScmStopped, RestartInv, Restarts
  <2> QED
    BY <2>1, <2>2, <2>3 DEF ScmStopped, Gone
<1> QED
  BY <1>1, <1>2, <1>3, <1>4 DEF RestartInv, Restarts

\* A status report moves the restart budget only through the manager.
LEMMA SetStatusRestart ==
    ASSUME RestartInv, NEW p, NEW s, NEW failed \in BOOLEAN, SetStatus(p, s, failed)
    PROVE  RestartInv'
<1>1. CASE UNCHANGED scm
  BY <1>1 DEF scm, RestartInv
<1>2. CASE ScmStopped(failed)
  BY <1>2, ScmStoppedRestart
<1>3. CASE /\ state # "stopped"
           /\ UNCHANGED <<registered, marked, recovery, failures, restart, restarts, current>>
  BY <1>3 DEF RestartInv
<1> QED
  BY <1>1, <1>2, <1>3 DEF SetStatus

\* So does the end of a process.
LEMMA VanishRestart ==
    ASSUME RestartInv, NEW p, Vanish(p)
    PROVE  RestartInv'
<1>1. CASE ScmStopped(TRUE)
  BY <1>1, ScmStoppedRestart
<1>2. CASE UNCHANGED scm
  BY <1>2 DEF scm, RestartInv
<1> QED
  BY <1>1, <1>2 DEF Vanish

\* What starting a process does to the manager's record.
LEMMA LaunchManager ==
    ASSUME Launch
    PROVE  /\ registered /\ ~marked /\ state = "stopped"
           /\ state' = "startPending" /\ restart' = FALSE
           /\ UNCHANGED <<registered, marked, failures>>
BY Zenon DEF Launch

\* Every step keeps the restart budget.
LEMMA RestartStep == RestartInv /\ [Next]_vars => RestartInv'
<1> SUFFICES ASSUME RestartInv, [Next]_vars
             PROVE  RestartInv'
  OBVIOUS
<1>1. CASE Start
  BY <1>1, LaunchManager DEF Start, RestartInv
<1>2. CASE Restart
  BY <1>2, LaunchManager DEF Restart, RestartInv, Restarts
<1>3. CASE ResetPeriodPasses
  BY <1>3 DEF ResetPeriodPasses, RestartInv, Restarts
<1>4. ASSUME NEW p \in Processes, MainStep(p)
      PROVE  RestartInv'
  <2>1. CASE Boot(p)
    <3>1. \/ SetStatus(p, "startPending", FALSE) \/ SetStatus(p, "stopped", TRUE)
          \/ UNCHANGED scm
      BY <2>1, Zenon DEF Boot
    <3>2. CASE UNCHANGED scm
      BY <3>2 DEF scm, RestartInv
    <3> QED
      BY <3>1, <3>2, SetStatusRestart
  <2>2. CASE Initialise(p) \/ ServerStops(p) \/ CloseEvent(p)
    BY <2>2 DEF Initialise, ServerStops, CloseEvent, scm, RestartInv
  <2>3. CASE StartServer(p)
    <3>1. CASE SetStatus(p, "running", FALSE)
      BY <3>1, SetStatusRestart
    <3>2. CASE UNCHANGED scm
      BY <3>2 DEF scm, RestartInv
    <3> QED
      BY <2>3, <3>1, <3>2 DEF StartServer
  <2>4. CASE ReportStopped(p)
    <3>1. SetStatus(p, "stopped", TRUE) \/ SetStatus(p, "stopped", FALSE)
      <4>1. CASE ReportedFailure(p)
        BY <2>4, <4>1 DEF ReportStopped, SetStatus, ScmStopped
      <4>2. CASE ~ReportedFailure(p)
        BY <2>4, <4>2 DEF ReportStopped, SetStatus, ScmStopped
      <4> QED
        BY <4>1, <4>2
    <3> QED
      BY <3>1, SetStatusRestart
  <2>5. CASE Exits(p)
    BY <2>5, VanishRestart DEF Exits
  <2> QED
    BY <1>4, <2>1, <2>2, <2>3, <2>4, <2>5 DEF MainStep
<1>5. ASSUME NEW p \in Processes, HandlerStep(p)
      PROVE  RestartInv'
  <2>1. CASE HandlerReports(p)
    BY <2>1, SetStatusRestart DEF HandlerReports
  <2>2. CASE HandlerSets(p)
    BY <2>2 DEF HandlerSets, scm, RestartInv
  <2> QED
    BY <1>5, <2>1, <2>2 DEF HandlerStep
<1>6. ASSUME NEW p \in Processes, WatcherStep(p)
      PROVE  RestartInv'
  BY <1>6 DEF WatcherStep, WatcherWakes, WatcherPosts, scm, RestartInv
<1>7. ASSUME NEW p \in Processes, Mishap(p)
      PROVE  RestartInv'
  <2>1. CASE HandlerThrows(p) \/ ServerEndsItself(p)
    BY <2>1 DEF HandlerThrows, ServerEndsItself, scm, RestartInv
  <2>2. CASE Crash(p)
    BY <2>2, VanishRestart DEF Crash
  <2> QED
    BY <1>7, <2>1, <2>2 DEF Mishap
<1>8. CASE Begin \/ Look \/ RequestStop \/ WaitState \/ WaitProcess \/ TimesOut
  <2>1. UNCHANGED scm
    BY <1>8, Zenon DEF Begin, Look, RequestStop, WaitState, WaitProcess, TimesOut
  <2> QED
    BY <2>1 DEF scm, RestartInv
<1>9. CASE Finish
  <2>1. CASE UNCHANGED scm
    BY <2>1 DEF scm, RestartInv
  <2>2. CASE cmd.kind = "uninstall"
    <3>1. registered' \in BOOLEAN /\ marked' \in BOOLEAN
      BY <1>9, <2>2, Zenon DEF Finish, RestartInv
    <3> QED
      BY <1>9, <2>2, <3>1 DEF Finish, RestartInv
  <2> QED
    BY <1>9, <2>1, <2>2 DEF Finish
<1>10. CASE Install
  BY <1>10 DEF Install, RestartInv, Restarts
<1>11. CASE UNCHANGED vars
  BY <1>11 DEF vars, RestartInv
<1> QED
  BY <1>1, <1>2, <1>3, <1>4, <1>5, <1>6, <1>7, <1>8, <1>9, <1>10, <1>11 DEF Next, Command
-----------------------------------------------------------------------------
(***************************************************************************)
(* The frame of a step of one process: the others, the command and the     *)
(* current process stay as they are.                                       *)
(***************************************************************************)

ProcessStep(p) == MainStep(p) \/ HandlerStep(p) \/ WatcherStep(p) \/ Mishap(p)

SameProcess(q) ==
    /\ proc'[q] = proc[q] /\ event'[q] = event[q] /\ watcher'[q] = watcher[q]
    /\ handler'[q] = handler[q] /\ threw'[q] = threw[q]
    /\ byItself'[q] = byItself[q] /\ asked'[q] = asked[q]

Frame(p) ==
    /\ UNCHANGED <<current, cmd>>
    /\ state' # "stopped" => state # "stopped"
    /\ \A q \in Processes : q # p => SameProcess(q)
    /\ proc[p] # "gone"

\* A status report changes neither the current process nor a stopped service.
LEMMA StatusFrame ==
    ASSUME NEW p, NEW s, NEW failed, SetStatus(p, s, failed)
    PROVE  current' = current /\ (state' # "stopped" => state # "stopped")
BY Zenon DEF SetStatus, ScmStopped, scm

\* The end of a process leaves every other process alone.
LEMMA VanishFrame ==
    ASSUME ProcessType, NEW p \in Processes, Vanish(p), proc[p] # "gone"
    PROVE  Frame(p) /\ ProcessType'
<1>1. current' = current /\ (state' # "stopped" => state # "stopped") /\ cmd' = cmd
  BY Zenon DEF Vanish, ScmStopped, scm
<1>2. /\ proc' = [proc EXCEPT ![p] = "gone"]
      /\ event' = [event EXCEPT ![p] = "none"]
      /\ watcher' = [watcher EXCEPT ![p] = "none"]
      /\ handler' = [handler EXCEPT ![p] = "idle"]
      /\ threw' = [threw EXCEPT ![p] = FALSE]
      /\ byItself' = [byItself EXCEPT ![p] = FALSE]
      /\ asked' = [asked EXCEPT ![p] = FALSE]
  BY Zenon DEF Vanish
<1> QED
  BY <1>1, <1>2 DEF Frame, SameProcess, ProcessType, Slots

\* So does each of its steps.
LEMMA ProcessFrame ==
    ASSUME ProcessType, NEW p \in Processes, ProcessStep(p)
    PROVE  Frame(p) /\ ProcessType'
<1>1. CASE Boot(p)
  <2>1. current' = current /\ (state' # "stopped" => state # "stopped")
    BY <1>1, StatusFrame DEF Boot, scm
  <2> QED
    BY <1>1, <2>1 DEF Boot, To, Frame, SameProcess, ProcessType, Slots
<1>2. CASE StartServer(p)
  <2>1. current' = current /\ (state' # "stopped" => state # "stopped")
    BY <1>2, StatusFrame DEF StartServer, scm
  <2> QED
    BY <1>2, <2>1 DEF StartServer, To, Frame, SameProcess, ProcessType, Slots
<1>3. CASE ReportStopped(p)
  <2>1. current' = current /\ (state' # "stopped" => state # "stopped")
    BY <1>3, StatusFrame DEF ReportStopped
  <2> QED
    BY <1>3, <2>1 DEF ReportStopped, To, Frame, SameProcess, ProcessType, Slots
<1>4. CASE HandlerReports(p)
  <2>1. current' = current /\ (state' # "stopped" => state # "stopped")
    BY <1>4, StatusFrame DEF HandlerReports
  <2> QED
    BY <1>4, <2>1 DEF HandlerReports, Alive, Frame, SameProcess, ProcessType, Slots
<1>5. CASE Exits(p) \/ Crash(p)
  BY <1>5, VanishFrame DEF Exits, Crash, Alive
<1>6. CASE Initialise(p) \/ ServerStops(p) \/ CloseEvent(p)
  BY <1>6 DEF Initialise, ServerStops, CloseEvent, To, scm, Frame, SameProcess, ProcessType, Slots
<1>7. CASE HandlerSets(p) \/ WatcherWakes(p) \/ WatcherPosts(p)
  BY <1>7 DEF HandlerSets, WatcherWakes, WatcherPosts, Alive, To, scm, Frame, SameProcess,
              ProcessType, Slots
<1>8. CASE HandlerThrows(p) \/ ServerEndsItself(p)
  BY <1>8 DEF HandlerThrows, ServerEndsItself, To, scm, Frame, SameProcess, ProcessType, Slots
<1> QED
  BY <1>1, <1>2, <1>3, <1>4, <1>5, <1>6, <1>7, <1>8
  DEF ProcessStep, MainStep, HandlerStep, WatcherStep, Mishap
-----------------------------------------------------------------------------
(***************************************************************************)
(* The command and the process it has opened.                              *)
(***************************************************************************)

Fields == {"kind", "pc", "target", "opened", "again", "count"}

\* What the updates of a command's record leave alone.
LEMMA AgainSet ==
    ASSUME DOMAIN cmd = Fields, NEW b, cmd' = [cmd EXCEPT !.again = b]
    PROVE  /\ DOMAIN cmd' = Fields /\ cmd'.again = b
           /\ cmd'.pc = cmd.pc /\ cmd'.target = cmd.target /\ cmd'.opened = cmd.opened
BY DEF Fields

\* A command's next step changes its place only.
LEMMA GotoSets ==
    ASSUME DOMAIN cmd = Fields, NEW step, Goto(step)
    PROVE  /\ DOMAIN cmd' = Fields /\ cmd'.pc = step
           /\ cmd'.target = cmd.target /\ cmd'.opened = cmd.opened /\ cmd'.again = cmd.again
BY DEF Goto, Fields

\* A command that ends holds no handle.
LEMMA EndSets ==
    ASSUME NEW result, End(result)
    PROVE  DOMAIN cmd' = Fields /\ cmd'.opened = FALSE
<1>1. /\ DOMAIN NoCommand = Fields /\ NoCommand.opened = FALSE
  BY DEF NoCommand, Fields
<1> HIDE DEF NoCommand
<1> QED
  BY <1>1 DEF End, Fields

\* A new process takes a slot that neither a process nor a command holds.
LEMMA LaunchSlot ==
    ASSUME ProcessType, Launch
    PROVE  /\ \E p \in Processes :
                /\ proc[p] \in {"none", "gone"} /\ p # cmd.target
                /\ current' = p /\ proc' = [proc EXCEPT ![p] = "boot"]
           /\ cmd' = [cmd EXCEPT !.again = (cmd.pc \notin Idle)]
           /\ UNCHANGED <<event, watcher, handler, threw, byItself, asked>>
<1>1. PICK p \in Processes :
        Free(p) /\ current' = p /\ proc' = [proc EXCEPT ![p] = "boot"]
  BY Zenon DEF Launch
<1>2. proc[p] \in {"none", "gone"} /\ p # cmd.target
  BY <1>1 DEF Free, Alive
<1>3. /\ cmd' = [cmd EXCEPT !.again = (cmd.pc \notin Idle)]
      /\ UNCHANGED <<event, watcher, handler, threw, byItself, asked>>
  BY Zenon DEF Launch
<1> QED
  BY <1>1, <1>2, <1>3, Zenon

\* A process started while a command waits is noted for it.
LEMMA LaunchCommand ==
    ASSUME CommandInv, ProcessType, Launch
    PROVE  CommandInv'
<1>1. PICK p \in Processes :
        /\ p # cmd.target /\ current' = p /\ proc' = [proc EXCEPT ![p] = "boot"]
  BY LaunchSlot
<1>2. /\ DOMAIN cmd' = Fields /\ cmd'.again = (cmd.pc \notin Idle)
      /\ cmd'.pc = cmd.pc /\ cmd'.target = cmd.target /\ cmd'.opened = cmd.opened
  <2>1. DOMAIN cmd = Fields
    BY Zenon DEF CommandInv, Fields
  <2>2. cmd' = [cmd EXCEPT !.again = (cmd.pc \notin Idle)]
    BY LaunchSlot
  <2> QED
    BY <2>1, <2>2, AgainSet, Zenon
<1>3. cmd'.opened => cmd'.again
  BY <1>2 DEF CommandInv
<1> QED
  BY <1>1, <1>2, <1>3 DEF CommandInv, ProcessType, Fields

\* A command opens the process that the manager names at that moment.
LEMMA LookCommand ==
    ASSUME CommandInv, ProcessType, Look
    PROVE  CommandInv'
<1>1. DOMAIN cmd = Fields /\ ~cmd.opened
  BY Zenon DEF CommandInv, Fields, Look
<1>2. UNCHANGED <<current, proc>>
  BY Zenon DEF Look, scm, process
<1>3. CASE state = "stopped"
  <2>1. Goto("stopped")
    BY <1>3, Zenon DEF Look
  <2> QED
    BY <1>1, <1>2, <2>1, GotoSets DEF CommandInv, Fields
<1>4. CASE state # "stopped"
  <2>1. PICK p \in {current, NoProcess} :
          cmd' = [cmd EXCEPT !.pc = IF state = "stopPending" THEN "waitState" ELSE "request",
                             !.target = p, !.opened = p # NoProcess]
    BY <1>4, Zenon DEF Look
  <2>2. PICK step \in {"waitState", "request"}, b \in BOOLEAN :
          /\ b <=> p # NoProcess
          /\ cmd' = [cmd EXCEPT !.pc = step, !.target = p, !.opened = b]
    BY <2>1, Zenon
  <2>3. /\ DOMAIN cmd' = Fields /\ cmd'.pc = step /\ cmd'.target = p /\ cmd'.opened = b
    BY <1>1, <2>2 DEF Fields
  <2>4. b => p = current /\ p \in Processes
    BY <1>4, <2>2 DEF ProcessType
  <2> QED
    BY <1>2, <2>2, <2>3, <2>4 DEF CommandInv, Fields, Idle
<1> QED
  BY <1>3, <1>4

\* Every step keeps what a command knows of its target.
LEMMA CommandStep ==
    CommandInv /\ ProcessType /\ [Next]_vars => CommandInv'
<1> SUFFICES ASSUME CommandInv, ProcessType, [Next]_vars
             PROVE  CommandInv'
  OBVIOUS
<1> DEFINE Same == UNCHANGED <<current, proc>>
<1>0. DOMAIN cmd = Fields
  BY Zenon DEF CommandInv, Fields
<1>1. CASE Start \/ Restart
  BY <1>1, LaunchCommand DEF Start, Restart
<1>2. CASE ResetPeriodPasses \/ Install
  BY <1>2 DEF ResetPeriodPasses, Install, process, CommandInv
<1>3. ASSUME NEW p \in Processes, ProcessStep(p)
      PROVE  CommandInv'
  <2>1. Frame(p)
    BY <1>3, ProcessFrame
  <2> QED
    BY <2>1 DEF Frame, SameProcess, CommandInv
<1>4. CASE Begin
  <2>1. PICK k, step, n :
          cmd' = [NoCommand EXCEPT !.kind = k, !.pc = step, !.count = n]
    BY <1>4, Zenon DEF Begin
  <2>2. DOMAIN NoCommand = Fields /\ NoCommand.opened = FALSE
    BY DEF NoCommand, Fields
  <2>3. DOMAIN cmd' = Fields /\ cmd'.opened = FALSE
    <3> HIDE DEF NoCommand
    <3> QED
      BY <2>1, <2>2 DEF Fields
  <2> QED
    BY <2>3 DEF CommandInv, Fields
<1>5. CASE Look
  BY <1>5, LookCommand
<1>6. CASE RequestStop
  <2>1. cmd.pc = "request" /\ Goto("waitState") /\ Same
    BY <1>6, Zenon DEF RequestStop, scm
  <2> QED
    BY <1>0, <2>1, GotoSets DEF CommandInv, Fields, Idle
<1>7. CASE WaitState
  <2>1. cmd.pc = "waitState" /\ Goto(AfterStopped) /\ Same
    BY <1>7, Zenon DEF WaitState, scm, process
  <2>2. AfterStopped \notin Idle \cup {"look"} /\ (cmd.opened => AfterStopped # "stopped")
    BY DEF AfterStopped, Idle
  <2> HIDE DEF AfterStopped
  <2> QED
    BY <1>0, <2>1, <2>2, GotoSets DEF CommandInv, Fields
<1>8. CASE WaitProcess
  <2>1. proc[cmd.target] = "gone" /\ cmd.pc = "waitProcess" /\ Goto("stopped") /\ Same
    BY <1>8, Zenon DEF WaitProcess, scm, process
  <2> QED
    BY <1>0, <2>1, GotoSets DEF CommandInv, Fields, Idle
<1>9. CASE TimesOut \/ Finish
  <2>1. DOMAIN cmd' = Fields /\ cmd'.opened = FALSE
    BY <1>9, EndSets, Zenon DEF TimesOut, Finish
  <2> QED
    BY <2>1 DEF CommandInv, Fields
<1>10. CASE UNCHANGED vars
  BY <1>10 DEF vars, CommandInv
<1> QED
  BY <1>1, <1>2, <1>3, <1>4, <1>5, <1>6, <1>7, <1>8, <1>9, <1>10
  DEF Next, Command, ProcessStep

\* A command's own steps touch no process.
LEMMA CommandFrame ==
    ASSUME Begin \/ Look \/ WaitState \/ WaitProcess \/ TimesOut \/ Finish \/ Install
           \/ ResetPeriodPasses
    PROVE  UNCHANGED <<state, current, proc, event, watcher, handler, threw, byItself, asked>>
BY Zenon DEF Begin, Look, WaitState, WaitProcess, TimesOut, Finish, Install, ResetPeriodPasses,
             scm, process

\* Every step keeps the states of the processes.
LEMMA TypeStep == ProcessType /\ [Next]_vars => ProcessType'
<1> SUFFICES ASSUME ProcessType, [Next]_vars
             PROVE  ProcessType'
  OBVIOUS
<1>1. CASE Start \/ Restart
  <2>1. Launch
    BY <1>1 DEF Start, Restart
  <2> QED
    BY <2>1, LaunchSlot DEF ProcessType
<1>2. ASSUME NEW p \in Processes, ProcessStep(p)
      PROVE  ProcessType'
  BY <1>2, ProcessFrame
<1>3. CASE RequestStop
  <2>1. UNCHANGED <<state, current, proc, event, watcher, threw, byItself>>
    BY <1>3, Zenon DEF RequestStop, scm
  <2>2. \/ UNCHANGED <<handler, asked>>
        \/ /\ handler' = [handler EXCEPT ![current] = "report"]
           /\ asked' = [asked EXCEPT ![current] = TRUE]
    BY <1>3, Zenon DEF RequestStop
  <2> QED
    BY <2>1, <2>2 DEF ProcessType, Slots
<1>4. CASE \/ Begin \/ Look \/ WaitState \/ WaitProcess \/ TimesOut \/ Finish \/ Install
           \/ ResetPeriodPasses
  BY <1>4, CommandFrame DEF ProcessType
<1>5. CASE UNCHANGED vars
  BY <1>5 DEF vars, ProcessType
<1> QED
  BY <1>1, <1>2, <1>3, <1>4, <1>5 DEF Next, Command, ProcessStep
-----------------------------------------------------------------------------
(***************************************************************************)
(* The stop and the watcher.                                               *)
(***************************************************************************)

\* A process that a step does not touch keeps its place in the stop.
LEMMA SameStop ==
    ASSUME NEW q, SameProcess(q), StopOf(q)
    PROVE  StopOf(q)' /\ (Reached(q) => Reached(q)')
BY DEF SameProcess, StopOf, Reached

\* The process that takes a step keeps what StopOf() says of it.
LEMMA StopOfStep ==
    ASSUME ProcessType, NEW p \in Processes, StopOf(p), ProcessStep(p)
    PROVE  StopOf(p)'
<1> USE DEF ProcessType, Slots, StopOf, Early, Reached
<1>1. CASE Boot(p)
  BY <1>1 DEF Boot, To
<1>2. CASE Initialise(p)
  BY <1>2 DEF Initialise, To
<1>3. CASE StartServer(p)
  BY <1>3 DEF StartServer, To
<1>4. CASE HandlerThrows(p)
  BY <1>4 DEF HandlerThrows
<1>5. CASE ServerEndsItself(p)
  BY <1>5 DEF ServerEndsItself, To
<1>6. CASE ServerStops(p)
  BY <1>6 DEF ServerStops, To, ExitCodeOfStop
<1>7. CASE CloseEvent(p)
  BY <1>7 DEF CloseEvent
<1>8. CASE ReportStopped(p)
  BY <1>8 DEF ReportStopped, To
<1>9. CASE Exits(p) \/ Crash(p)
  <2>1. /\ proc' = [proc EXCEPT ![p] = "gone"]
        /\ event' = [event EXCEPT ![p] = "none"]
        /\ watcher' = [watcher EXCEPT ![p] = "none"]
        /\ handler' = [handler EXCEPT ![p] = "idle"]
        /\ byItself' = [byItself EXCEPT ![p] = FALSE]
        /\ asked' = [asked EXCEPT ![p] = FALSE]
    BY <1>9, Zenon DEF Exits, Crash, Vanish
  <2> QED
    BY <2>1
<1>10. CASE HandlerReports(p)
  BY <1>10 DEF HandlerReports
<1>11. CASE HandlerSets(p)
  BY <1>11 DEF HandlerSets, SetEvent
<1>12. CASE WatcherWakes(p)
  BY <1>12 DEF WatcherWakes, Wakes
<1>13. CASE WatcherPosts(p)
  BY <1>13 DEF WatcherPosts, To
<1> QED
  BY <1>1, <1>2, <1>3, <1>4, <1>5, <1>6, <1>7, <1>8, <1>9, <1>10, <1>11, <1>12, <1>13
  DEF ProcessStep, MainStep, HandlerStep, WatcherStep, Mishap

\* A service that runs has a server that was up, and its process is there.
LEMMA RunningStep ==
    ASSUME ProcessType, StopInv, NEW p \in Processes, ProcessStep(p), state' = "running"
    PROVE  Reached(current)'
<1>1. CASE StartServer(p)
  <2>1. CASE To(p, "serving") /\ SetStatus(p, "running", FALSE)
    <3>1. CASE p # current
      <4>1. UNCHANGED <<state, current>>
        BY <2>1, <3>1, Zenon DEF SetStatus, scm
      <4> QED
        BY <1>1, <3>1, <4>1, <2>1 DEF StartServer, To, StopInv, Reached, ProcessType
    <3>2. CASE p = current
      <4>1. current' = current
        BY <2>1, StatusFrame
      <4> QED
        BY <2>1, <3>2, <4>1 DEF To, Reached, ProcessType
    <3> QED
      BY <3>1, <3>2
  <2>2. CASE To(p, "failed") /\ UNCHANGED scm
    <3>1. UNCHANGED <<state, current>> /\ proc[p] = "armed"
      BY <1>1, <2>2, Zenon DEF StartServer, scm
    <3> QED
      BY <1>1, <2>2, <3>1 DEF StartServer, To, StopInv, Reached, ProcessType
  <2> QED
    BY <1>1, <2>1, <2>2 DEF StartServer
<1>2. CASE Exits(p) \/ Crash(p)
  <2>1. Vanish(p) /\ Frame(p)
    BY <1>2, ProcessFrame DEF Exits, Crash
  <2>2. p # current /\ state = "running"
    BY <2>1 DEF Vanish, ScmStopped, scm
  <2> QED
    BY <2>1, <2>2 DEF Frame, SameProcess, Reached, StopInv, ProcessType
<1>3. CASE Boot(p) \/ ReportStopped(p) \/ HandlerReports(p)
  <2>1. \/ SetStatus(p, "startPending", FALSE) \/ SetStatus(p, "stopped", TRUE)
        \/ SetStatus(p, "stopped", ReportedFailure(p)) \/ SetStatus(p, "stopPending", FALSE)
        \/ UNCHANGED scm
    BY <1>3, Zenon DEF Boot, ReportStopped, HandlerReports
  <2>2. UNCHANGED <<state, current>>
    BY <2>1 DEF SetStatus, ScmStopped, scm
  <2> QED
    BY <1>3, <2>2 DEF Boot, ReportStopped, HandlerReports, To, StopInv, Reached, ProcessType
<1>4. CASE Initialise(p) \/ CloseEvent(p) \/ HandlerSets(p) \/ HandlerThrows(p)
  BY <1>4 DEF Initialise, CloseEvent, HandlerSets, HandlerThrows, To, scm, StopInv, StopOf,
              Early, Reached, ProcessType
<1>5. CASE ServerEndsItself(p)
  BY <1>5 DEF ServerEndsItself, To, scm, StopInv, Reached, ProcessType, Slots
<1>6. CASE ServerStops(p) \/ WatcherWakes(p) \/ WatcherPosts(p)
  BY <1>6 DEF ServerStops, WatcherWakes, WatcherPosts, To, scm, StopInv, StopOf, Reached,
              ProcessType
<1> QED
  BY <1>1, <1>2, <1>3, <1>4, <1>5, <1>6
  DEF ProcessStep, MainStep, HandlerStep, WatcherStep, Mishap

\* Every step keeps the account of how a stop reaches the server.
LEMMA StopStep == ProcessType /\ StopInv /\ [Next]_vars => StopInv'
<1> SUFFICES ASSUME ProcessType, StopInv, [Next]_vars
             PROVE  StopInv'
  OBVIOUS
<1>1. CASE Start \/ Restart
  <2>1. Launch
    BY <1>1 DEF Start, Restart
  <2>2. PICK p \in Processes :
          /\ proc[p] \in {"none", "gone"} /\ proc' = [proc EXCEPT ![p] = "boot"]
          /\ UNCHANGED <<event, watcher, handler, threw, byItself, asked>>
    BY <2>1, LaunchSlot
  <2>3. state' = "startPending"
    BY <2>1, LaunchManager
  <2>4. StopOf(p)'
    BY <2>2 DEF StopInv, StopOf, Early, Reached, ProcessType
  <2>5. ASSUME NEW q \in Processes, q # p
        PROVE  StopOf(q)'
    BY <2>2, <2>5, SameStop DEF SameProcess, StopInv, ProcessType
  <2> QED
    BY <2>3, <2>4, <2>5 DEF StopInv
<1>2. ASSUME NEW p \in Processes, ProcessStep(p)
      PROVE  StopInv'
  <2>1. StopOf(p)'
    BY <1>2, StopOfStep DEF StopInv
  <2>2. ASSUME NEW q \in Processes, q # p
        PROVE  StopOf(q)'
    BY <1>2, <2>2, SameStop, ProcessFrame DEF Frame, StopInv
  <2>3. state' = "running" => Reached(current)'
    BY <1>2, RunningStep
  <2> QED
    BY <2>1, <2>2, <2>3 DEF StopInv
<1>3. CASE RequestStop
  <2>1. UNCHANGED <<state, current, proc, event, watcher, threw, byItself>>
    BY <1>3, Zenon DEF RequestStop, scm
  <2>2. CASE UNCHANGED <<handler, asked>>
    BY <2>1, <2>2 DEF StopInv, StopOf, Reached
  <2>3. CASE /\ state = "running"
             /\ handler' = [handler EXCEPT ![current] = "report"]
             /\ asked' = [asked EXCEPT ![current] = TRUE]
    BY <2>1, <2>3 DEF StopInv, StopOf, Reached, Early, ProcessType, Slots
  <2> QED
    BY <1>3, <2>2, <2>3 DEF RequestStop
<1>4. CASE \/ Begin \/ Look \/ WaitState \/ WaitProcess \/ TimesOut \/ Finish \/ Install
           \/ ResetPeriodPasses
  BY <1>4, CommandFrame DEF StopInv, StopOf, Reached
<1>5. CASE UNCHANGED vars
  BY <1>5 DEF vars, StopInv, StopOf, Reached
<1> QED
  BY <1>1, <1>2, <1>3, <1>4, <1>5 DEF Next, Command, ProcessStep
-----------------------------------------------------------------------------
(***************************************************************************)
(* The theorems.                                                           *)
(***************************************************************************)

\* Every step keeps the inductive invariant.
LEMMA IInvStep == IInv /\ [Next]_vars => IInv'
BY RestartStep, CommandStep, TypeStep, StopStep DEF IInv

\* The inductive invariant holds.
LEMMA IInvAlways == Spec => []IInv
BY InitIInv, IInvStep, PTL DEF Spec

\* The SCM restarts a service that keeps failing at most twice until the
\* reset period has passed, by whichever of ReportStopped(), a failed start,
\* a crash or an exit without a report it fails.
THEOREM RestartsBoundedAlways == Spec => []RestartsBounded
<1>1. IInv => RestartsBounded
  BY DEF IInv, RestartInv, RestartsBounded, Restarts
<1> QED
  BY <1>1, IInvAlways, PTL

\* stopAndWait() reports success only when the process it opened is gone, for
\* any number of processes, commands, restarts and crashes.
THEOREM StopFreesTheImageAlways == Spec => []StopFreesTheImage
<1>1. IInv => StopFreesTheImage
  BY DEF IInv, CommandInv, StopFreesTheImage
<1> QED
  BY <1>1, IInvAlways, PTL

\* The watcher of setupShutdown() posts to an io_context that is gone only
\* where run() had returned by itself and a stop had been accepted.
THEOREM WatcherAstrayAlways == Spec => []WatcherAstrayOnlyByItself
<1>1. IInv => WatcherAstrayOnlyByItself
  BY DEF IInv, StopInv, StopOf, WatcherAstrayOnlyByItself
<1> QED
  BY <1>1, IInvAlways, PTL

\* The SCM restarts after a reported end only where no stop had reached the
\* server or one of its handlers had thrown.
THEOREM StoppedStaysStoppedAlways == Spec => StoppedStaysStopped
<1> DEFINE Kept == ~restart /\ restart' /\ proc'[current] = "exiting"
                      => threw[current] \/ watcher[current] # "posted"
<1>1. IInv /\ [Next]_vars => [Kept]_vars
  <2> SUFFICES ASSUME IInv, Next, ~restart, restart', proc'[current] = "exiting",
                      watcher[current] = "posted"
               PROVE  threw[current]
    BY DEF vars
  <2> USE DEF IInv
  <2>1. CASE Start \/ Restart
    BY <2>1, LaunchManager DEF Start, Restart
  <2>2. CASE Command \/ ResetPeriodPasses
    <3>1. restart' = restart \/ restart' = FALSE
      BY <2>2, Zenon DEF Command, Begin, Look, RequestStop, WaitState, WaitProcess, TimesOut,
                         Finish, Install, ResetPeriodPasses, scm
    <3> QED
      BY <3>1
  <2>3. ASSUME NEW p \in Processes, ProcessStep(p)
        PROVE  threw[current]
    <3>1. CASE Exits(p) \/ Crash(p)
      <4>1. Vanish(p)
        BY <3>1 DEF Exits, Crash
      <4>2. p = current
        BY <4>1 DEF Vanish, scm
      <4> QED
        BY <4>1, <4>2 DEF Vanish, ProcessType
    <3>2. CASE Boot(p)
      <4>1. p = current
        BY <3>2 DEF Boot, SetStatus, scm
      <4> QED
        BY <3>2, <4>1 DEF Boot, StopInv, StopOf, Early
    <3>3. CASE ReportStopped(p)
      <4>1. p = current
        BY <3>3 DEF ReportStopped, SetStatus, scm
      <4>2. proc[p] = "failed"
        BY <3>3, <4>1 DEF ReportStopped, SetStatus, ScmStopped, ReportedFailure, scm
      <4> QED
        BY <4>1, <4>2 DEF StopInv, StopOf
    <3>4. CASE StartServer(p) \/ HandlerReports(p)
      BY <3>4 DEF StartServer, HandlerReports, SetStatus, scm
    <3>5. CASE \/ Initialise(p) \/ ServerStops(p) \/ CloseEvent(p) \/ HandlerSets(p)
               \/ WatcherWakes(p) \/ WatcherPosts(p) \/ HandlerThrows(p)
               \/ ServerEndsItself(p)
      BY <3>5 DEF Initialise, ServerStops, CloseEvent, HandlerSets, WatcherWakes, WatcherPosts,
                  HandlerThrows, ServerEndsItself, scm
    <3> QED
      BY <2>3, <3>1, <3>2, <3>3, <3>4, <3>5
      DEF ProcessStep, MainStep, HandlerStep, WatcherStep, Mishap
  <2> QED
    BY <2>1, <2>2, <2>3 DEF Next, ProcessStep
<1> QED
  BY <1>1, IInvAlways, PTL DEF Spec, StoppedStaysStopped
=============================================================================
