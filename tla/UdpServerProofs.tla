--------------------------- MODULE UdpServerProofs ---------------------------
(***************************************************************************)
(* That the server keeps listening, its counters stay right and every      *)
(* datagram gets to its sinks, for any number of datagrams, threads and    *)
(* sinks and every budget.                                                 *)
(***************************************************************************)
EXTENDS UdpServer, SequenceTheorems, FiniteSetTheorems, WellFoundedInduction, TLAPS

\* The socket is closed by the handler of the stop and by nothing else, so only
\* after it does a receive find the socket gone.
SocketInv ==
    /\ rx \in {"none", "armed", "data", "error", "gone"}
    /\ rearm \in {"idle", "armed", "fired"}
    /\ pc \in {"idle", "admit", "copy"}
    /\ stop \in {"no", "posted", "done"}
    /\ open \/ stop = "done"
    /\ rx = "gone" => stop = "done"
    /\ posts \in 0..(NumSinks + 1)
    /\ stop # "no" => posts # 0

ListenInv == SocketInv /\ NeverDeaf

\* Whatever a handler of a sink does, it takes one message off its queue.
LEMMA SinkStepRuns ==
    ASSUME NEW s \in Sinks, SinkStep(s)
    PROVE  /\ Run(s)
           /\ UNCHANGED threw \/ (CanThrow /\ threw' = TRUE)
           /\ \/ UNCHANGED sink
              \/ sink[s] = "up" /\ sink' = [sink EXCEPT ![s] = "down"]
              \/ Head(queue[s]) = Close /\ sink' = [sink EXCEPT ![s] = "ending"]
              \/ Head(queue[s]) = Close /\ sink' = [sink EXCEPT ![s] = "closed"]
           /\ \/ UNCHANGED late
              \/ /\ Closed(s) /\ Head(queue[s]) # Close
                 /\ late' = [late EXCEPT ![s] = @ \cup {Head(queue[s])}]
  BY DEF SinkStep, Write, WriteFails, ForwardThrows, CloseHandler

\* The steps of onStop leave all but the queues alone.
LEMMA OnStopFrame ==
    ASSUME OnStop \/ Signal
    PROVE  /\ UNCHANGED <<arrived, socket, inFlight, charged, drops, pool, taken, late, sink,
                          exited>>
           /\ \/ UNCHANGED queue
              \/ \E s \in Sinks : CloseSink(s)
  BY DEF OnStop, Signal, StopServer, CloseSink, OnStopThrows, sinks

\* The receive is armed or due from the start.
LEMMA ListenInit == Init => ListenInv
  BY SinksAssumption DEF Init, ListenInv, SocketInv, NeverDeaf

\* Every step keeps it so while no allocation fails.
LEMMA ListenStep ==
    ASSUME ~CanThrow, ListenInv, [Next]_vars
    PROVE  ListenInv'
<1> USE DEF ListenInv, SocketInv, NeverDeaf
<1>1. CASE Arrive \/ ReceiveError
  BY <1>1 DEF Arrive, ReceiveError, ending
<1>2. CASE OnReceiveError
  BY <1>2 DEF OnReceiveError, IsFatal, ending
<1>3. CASE OnReceive
  BY <1>3 DEF OnReceive, ending
<1>4. CASE Drop
  BY <1>4 DEF Drop, Refuse, Receive, ending
<1>5. CASE Charge \/ Recharge
  BY <1>5 DEF Charge, Recharge, ending
<1>6. CASE Accept
  BY <1>6 DEF Accept, Receive, ending
<1>7. CASE OnReceiveThrows
  BY <1>7 DEF OnReceiveThrows
<1>8. CASE RearmExpires
  BY <1>8 DEF RearmExpires, ending
<1>9. CASE RearmHandler
  BY <1>9 DEF RearmHandler, Receive, ending
<1>10. CASE StopHandler
  BY <1>10 DEF StopHandler
<1>11. CASE UNCHANGED <<socket, stop, posts>>
  BY <1>11 DEF socket
<1>12. CASE OnStop
  <2>1. CASE StopServer
    BY <2>1, SinksAssumption DEF StopServer, socket
  <2>2. ASSUME NEW s \in Sinks, CloseSink(s)
        PROVE  ListenInv'
    <3>1. posts' \in 0..(NumSinks + 1) /\ posts' # 0
      BY <2>2, SinksAssumption DEF CloseSink, Sinks
    <3> QED
      BY <2>2, <3>1 DEF CloseSink, socket
  <2>3. CASE OnStopThrows
    BY <2>3, <1>11 DEF OnStopThrows
  <2> QED
    BY <1>12, <2>1, <2>2, <2>3 DEF OnStop
<1>13. ASSUME NEW t \in Threads, TaskStep(t)
       PROVE  UNCHANGED <<socket, stop, posts>>
  BY <1>13 DEF TaskStep, TakeTask, Post, TaskDone, TaskThrows, ending
<1>14. ASSUME NEW s \in Sinks, SinkStep(s) \/ SinkRecovers(s) \/ SinkEnds(s)
       PROVE  UNCHANGED <<socket, stop, posts>>
  BY <1>14, SinkStepRuns DEF Run, SinkRecovers, SinkEnds, ending
<1>15. ASSUME NEW m \in Datagrams, Release(m)
       PROVE  UNCHANGED <<socket, stop, posts>>
  BY <1>15 DEF Release, ending
<1>16. CASE ReportIntervalPasses \/ Signal \/ Exit \/ UNCHANGED vars
  BY <1>16, <1>11 DEF ReportIntervalPasses, Signal, Exit, ending, socket, vars
<1> QED
  BY <1>1, <1>2, <1>3, <1>4, <1>5, <1>6, <1>7, <1>8, <1>9, <1>10, <1>11, <1>12, <1>13,
     <1>14, <1>15, <1>16 DEF Next, SocketStep

\* As long as allocations succeed, the server listens until it is stopped: every
\* way through onReceive() leaves a receive, a completion or a re-arm behind.
THEOREM ListensUntilStopped ==
    ASSUME ~CanThrow
    PROVE  Spec => []NeverDeaf
<1>1. ListenInv /\ [Next]_vars => ListenInv'
  BY ListenStep
<1>2. ListenInv => NeverDeaf
  BY DEF ListenInv
<1> QED
  BY ListenInit, <1>1, <1>2, PTL DEF Spec

-----------------------------------------------------------------------------
\* What is known of a sequence of numbers up to n holds of it up to n + 1.
LEMMA SeqGrows ==
    ASSUME NEW lo \in Int, NEW n \in Int, NEW q \in Seq(lo..n)
    PROVE  q \in Seq(lo..(n + 1))
<1>1. lo..n \subseteq lo..(n + 1)
  OBVIOUS
<1> QED
  BY <1>1, SeqMonotonic

\* The sizes and routes of the datagrams that arrived.
LEMMA DatagramType ==
    ASSUME TypeOK, NEW m \in 1..current
    PROVE  size(m) \in Nat \ {0} /\ arrived[m].route \subseteq Sinks
<1>0. arrived \in Seq([size: Sizes, route: Routes]) /\ m \in 1..Len(arrived)
  BY DEF TypeOK, current
<1>1. arrived[m] \in [size: Sizes, route: Routes]
  BY <1>0, ElementOfSeq
<1>2. arrived[m].size \in Sizes /\ arrived[m].route \in Routes
  BY <1>1
<1> QED
  BY <1>2, BudgetAssumption, SinksAssumption DEF size

\* The initial state has its types.
LEMMA TypeInit == Init => TypeOK
<1> SUFFICES ASSUME Init PROVE TypeOK
  OBVIOUS
<1>1. open \in BOOLEAN /\ threw \in BOOLEAN /\ exited \in BOOLEAN
  BY Zenon DEF Init
<1>2. arrived \in Seq([size: Sizes, route: Routes]) /\ current = 0 /\ tasks \in Seq(1..current)
  BY DEF Init, current
<1>3. running \in [Threads -> [msg: 0..current, todo: SUBSET Sinks]]
  BY <1>2 DEF Init, Idle
<1>4. queue \in [Sinks -> Seq(0..current)]
  BY <1>2 DEF Init
<1>5. 0 <= Budget /\ 0 <= MaxDatagrams
  BY BudgetAssumption, SwitchesAssumption
<1>6. seen = 0 /\ inFlight = 0 /\ charged = {} /\ dropped = 0 /\ droppedTotal = 0 /\ reported = 0
  BY DEF Init
<1>7. /\ rx = "armed" /\ rearm = "idle" /\ pc = "idle" /\ lastReport = "never"
      /\ signal = "waiting" /\ stop = "no" /\ posts = 0 /\ early = {}
  BY DEF Init
<1>8. posts \in 0..(NumSinks + 1)
  BY <1>7, SinksAssumption
<1>9. late \in [Sinks -> SUBSET (1..current)]
  BY <1>2 DEF Init
<1>10. sink \in [Sinks -> {"up", "down", "ending", "closed"}]
  BY DEF Init
<1> QED
  BY <1>1, <1>2, <1>3, <1>4, <1>5, <1>6, <1>7, <1>8, <1>9, <1>10 DEF TypeOK

\* TypeOK in two parts, and that a handler on the socket strand that looks at a
\* datagram has one.
Scalars ==
    /\ open \in BOOLEAN /\ threw \in BOOLEAN /\ exited \in BOOLEAN
    /\ rx \in {"none", "armed", "data", "error", "gone"}
    /\ rearm \in {"idle", "armed", "fired"}
    /\ pc \in {"idle", "admit", "copy"}
    /\ seen \in Int /\ inFlight \in Int /\ seen <= Budget /\ inFlight <= Budget
    /\ dropped \in Nat /\ droppedTotal \in Nat /\ reported \in Nat
    /\ lastReport \in {"never", "recent", "old"}
    /\ signal \in {"waiting", "handling", "over"} /\ stop \in {"no", "posted", "done"}
    /\ posts \in 0..(NumSinks + 1)

Stores ==
    /\ arrived \in Seq([size: Sizes, route: Routes]) /\ current <= MaxDatagrams
    /\ charged \subseteq 1..current
    /\ tasks \in Seq(1..current)
    /\ running \in [Threads -> [msg: 0..current, todo: SUBSET Sinks]]
    /\ queue \in [Sinks -> Seq(0..current)]
    /\ late \in [Sinks -> SUBSET (1..current)]
    /\ sink \in [Sinks -> {"up", "down", "ending", "closed"}]
    /\ early \subseteq 1..current

HasDatagram == pc # "idle" \/ rx = "data" => current > 0

\* TypeOK in the two parts that are kept separately.
LEMMA TypeParts == TypeOK <=> Scalars /\ Stores
  BY DEF TypeOK, Scalars, Stores

\* Datagrams are numbered.
LEMMA CurrentIsNat == Stores => current \in Nat
  BY DEF Stores, current

\* The receive loop is past the receive only with a datagram in hand.
LEMMA HasDatagramStep ==
    ASSUME Stores, HasDatagram, [Next]_vars
    PROVE  HasDatagram'
<1> USE DEF HasDatagram
<1>1. CASE Arrive
  <2>1. current' = current + 1 /\ current \in Nat
    BY <1>1, CurrentIsNat DEF Arrive, Stores, current
  <2> QED
    BY <2>1
<1>2. CASE UNCHANGED arrived /\ pc' = "idle" /\ (rx' # "data" \/ UNCHANGED rx)
  BY <1>2 DEF current
<1>3. CASE UNCHANGED <<arrived, pc, rx>>
  BY <1>3 DEF current
<1>4. CASE UNCHANGED arrived /\ rx' # "data" /\ (pc # "idle" \/ rx = "data" \/ pc' = pc)
  BY <1>4 DEF current
<1>5. CASE SocketStep
  <2>1. CASE OnReceiveError
    BY <2>1, <1>4 DEF OnReceiveError
  <2>2. CASE OnReceive
    BY <2>2, <1>4 DEF OnReceive
  <2>3. CASE Drop
    BY <2>3, <1>2 DEF Drop, Refuse, Receive
  <2>4. CASE Charge
    BY <2>4 DEF Charge, current
  <2>5. CASE Recharge
    BY <2>5, <1>3 DEF Recharge
  <2>6. CASE Accept
    BY <2>6, <1>2 DEF Accept, Receive
  <2>7. CASE OnReceiveThrows
    BY <2>7, <1>2 DEF OnReceiveThrows, HandlerThrows, PostThrows, Receive
  <2>8. CASE RearmHandler
    BY <2>8, <1>4 DEF RearmHandler, Receive
  <2>9. CASE StopHandler
    <3>1. UNCHANGED <<arrived, pc>> /\ (rx' = rx \/ rx' = "gone")
      BY <2>9 DEF StopHandler
    <3> QED
      BY <3>1, <1>3, <1>4
  <2> QED
    BY <1>5, <2>1, <2>2, <2>3, <2>4, <2>5, <2>6, <2>7, <2>8, <2>9 DEF SocketStep
<1>6. ASSUME NEW t \in Threads, TaskStep(t)
      PROVE  UNCHANGED <<arrived, pc, rx>>
  BY <1>6 DEF TaskStep, TakeTask, Post, TaskDone, TaskThrows, socket
<1>7. ASSUME NEW s \in Sinks, SinkStep(s) \/ SinkRecovers(s) \/ SinkEnds(s)
      PROVE  UNCHANGED <<arrived, pc, rx>>
  BY <1>7, SinkStepRuns DEF Run, SinkRecovers, SinkEnds, socket
<1>8. ASSUME NEW m \in Datagrams, Release(m)
      PROVE  UNCHANGED <<arrived, pc, rx>>
  BY <1>8 DEF Release, socket
<1>9. CASE ReceiveError
  BY <1>9, <1>4 DEF ReceiveError
<1>10. CASE RearmExpires \/ ReportIntervalPasses \/ Exit \/ UNCHANGED vars
  BY <1>10, <1>3 DEF RearmExpires, ReportIntervalPasses, Exit, socket, vars
<1>11. CASE Signal \/ OnStop
  BY <1>11, <1>3, OnStopFrame DEF socket
<1> QED
  BY <1>1, <1>3, <1>5, <1>6, <1>7, <1>8, <1>9, <1>10, <1>11 DEF Next

-----------------------------------------------------------------------------
\* Reporting moves drops from the window to the total and loses none.
LEMMA ReportDropsType ==
    ASSUME Scalars, NEW window \in Nat, NEW force \in BOOLEAN, ReportDrops(window, force)
    PROVE  /\ dropped' \in Nat /\ reported' \in Nat
           /\ lastReport' \in {"never", "recent", "old"}
           /\ reported' + dropped' = reported + window
  BY DEF Scalars, ReportDrops

\* A report that is lost leaves the types as they are.
LEMMA LoseReportType ==
    ASSUME Scalars, NEW window \in Nat, NEW force \in BOOLEAN, LoseReport(window, force)
    PROVE  /\ dropped' \in Nat /\ reported' \in Nat
           /\ lastReport' \in {"never", "recent", "old"}
  BY DEF Scalars, LoseReport

\* What a re-armed receive may be.
LEMMA ReceiveType ==
    Receive => rx' \in {"none", "armed", "data", "error", "gone"}
  BY DEF Receive

\* Every step keeps the types of the loop's own state.
LEMMA ScalarsStep ==
    ASSUME Scalars, Stores, HasDatagram, [Next]_vars
    PROVE  Scalars'
<1> USE DEF Scalars
<1>0. TypeOK /\ current \in Nat
  BY TypeParts, CurrentIsNat
<1>1. CASE Arrive \/ ReceiveError
  BY <1>1 DEF Arrive, ReceiveError, drops, ending
<1>2. CASE OnReceiveError
  BY <1>2 DEF OnReceiveError, drops, ending
<1>3. CASE OnReceive
  BY <1>3 DEF OnReceive, drops, ending
<1>4. CASE Drop
  <2>0. dropped + 1 \in Nat
    OBVIOUS
  <2>1. ReportDrops(dropped + 1, FALSE)
    BY <1>4 DEF Drop
  <2>2. /\ dropped' \in Nat /\ reported' \in Nat
        /\ lastReport' \in {"never", "recent", "old"}
    <3> HIDE DEF Scalars
    <3> QED
      BY <2>0, <2>1, ReportDropsType
  <2>3. rx' \in {"none", "armed", "data", "error", "gone"}
    BY <1>4, ReceiveType DEF Drop, Refuse
  <2> QED
    BY <1>4, <2>2, <2>3 DEF Drop, ending
<1>5. CASE Charge
  <2>1. size(current) \in Nat \ {0}
    BY <1>0, <1>5, DatagramType DEF Charge, HasDatagram
  <2>2. inFlight' \in Int /\ inFlight' <= Budget
    BY <1>5, <2>1 DEF Charge, Fits
  <2> QED
    BY <1>5, <2>2 DEF Charge, drops, ending
<1>6. CASE Recharge
  BY <1>6 DEF Recharge, drops, ending
<1>7. CASE Accept
  BY <1>7, ReceiveType DEF Accept, drops, ending
<1>8. CASE OnReceiveThrows
  <2>0. HandlerThrows \/ PostThrows
    BY <1>8 DEF OnReceiveThrows
  <2>1. inFlight' \in Int /\ inFlight' <= Budget
    <3>1. CASE UNCHANGED inFlight
      BY <3>1
    <3>2. CASE pc = "admit" /\ Fits(seen, size(current)) /\ inFlight' = seen + size(current)
      <4>1. size(current) \in Nat \ {0}
        BY <1>0, <3>2, DatagramType DEF HasDatagram
      <4> QED
        BY <3>2, <4>1 DEF Fits
    <3> QED
      BY <2>0, <3>1, <3>2 DEF HandlerThrows, PostThrows
  <2>2. threw' \in BOOLEAN
    BY <1>8, Zenon DEF OnReceiveThrows
  <2>3. /\ dropped' \in Nat /\ reported' \in Nat /\ droppedTotal' \in Nat
        /\ lastReport' \in {"never", "recent", "old"}
    <3>0. dropped + 1 \in Nat /\ FALSE \in BOOLEAN
      OBVIOUS
    <3>1. CASE UNCHANGED drops
      BY <3>1 DEF drops
    <3>2. CASE droppedTotal' = droppedTotal + 1
               /\ (ReportDrops(dropped + 1, FALSE) \/ LoseReport(dropped + 1, FALSE))
      <4>1. /\ dropped' \in Nat /\ reported' \in Nat
            /\ lastReport' \in {"never", "recent", "old"}
        <5> HIDE DEF Scalars
        <5> QED
          BY <3>0, <3>2, ReportDropsType, LoseReportType
      <4> QED
        BY <3>2, <4>1
    <3> QED
      BY <2>0, <3>1, <3>2 DEF HandlerThrows, PostThrows
  <2>4. rx' \in {"none", "armed", "data", "error", "gone"} /\ rearm' \in {"idle", "armed", "fired"}
    BY <2>0, ReceiveType DEF HandlerThrows, PostThrows
  <2> QED
    BY <1>8, <2>1, <2>2, <2>3, <2>4 DEF OnReceiveThrows
<1>9. CASE RearmHandler
  BY <1>9, ReceiveType DEF RearmHandler, drops, ending
<1>10. CASE StopHandler
  <2>1. \/ ReportDrops(dropped, TRUE) /\ UNCHANGED threw
        \/ LoseReport(dropped, TRUE) /\ threw' = TRUE
    BY <1>10 DEF StopHandler
  <2>2. /\ dropped' \in Nat /\ reported' \in Nat
        /\ lastReport' \in {"never", "recent", "old"}
    <3>1. dropped \in Nat /\ TRUE \in BOOLEAN
      OBVIOUS
    <3> HIDE DEF Scalars
    <3> QED
      BY <2>1, <3>1, ReportDropsType, LoseReportType
  <2>3. open' \in BOOLEAN
    BY <1>10, Zenon DEF StopHandler
  <2>4. threw' \in BOOLEAN
    BY <2>1, Zenon
  <2> QED
    BY <1>10, <2>2, <2>3, <2>4 DEF StopHandler
<1>11. ASSUME NEW t \in Threads, TaskStep(t)
       PROVE  Scalars'
  <2>1. threw' \in BOOLEAN
    <3>1. threw' = TRUE \/ UNCHANGED threw
      BY <1>11 DEF TaskStep, TakeTask, Post, TaskDone, TaskThrows, ending
    <3> QED
      BY <3>1, Zenon
  <2>2. UNCHANGED <<socket, inFlight, drops, signal, posts, stop, exited>>
    BY <1>11 DEF TaskStep, TakeTask, Post, TaskDone, TaskThrows, ending
  <2> QED
    BY <2>1, <2>2 DEF socket, drops
<1>12. ASSUME NEW s \in Sinks, SinkStep(s) \/ SinkRecovers(s) \/ SinkEnds(s)
       PROVE  Scalars'
  <2>1. /\ UNCHANGED <<socket, inFlight, drops, signal, posts, stop, exited>>
        /\ UNCHANGED threw \/ threw' = TRUE
    BY <1>12, SinkStepRuns DEF Run, SinkRecovers, SinkEnds, ending
  <2>2. threw' \in BOOLEAN
    BY <2>1, Zenon
  <2> QED
    BY <2>1, <2>2 DEF socket, drops
<1>13. ASSUME NEW m \in Datagrams, Release(m)
       PROVE  Scalars'
  <2>1. size(m) \in Nat \ {0}
    BY <1>0, <1>13, DatagramType DEF Release, Stores
  <2>2. inFlight' \in Int /\ inFlight' <= Budget
    BY <1>13, <2>1, BudgetAssumption DEF Release
  <2> QED
    BY <1>13, <2>2 DEF Release, socket, drops, ending
<1>14. CASE RearmExpires \/ ReportIntervalPasses
  BY <1>14 DEF RearmExpires, ReportIntervalPasses, socket, drops, ending
<1>17. CASE Signal
  BY <1>17 DEF Signal, socket, drops
<1>18. CASE StopServer
  BY <1>18, SinksAssumption DEF StopServer, socket, drops
<1>19. ASSUME NEW s \in Sinks, CloseSink(s)
       PROVE  Scalars'
  <2>1. posts' \in 0..(NumSinks + 1)
    BY <1>19, SinksAssumption DEF CloseSink, Sinks
  <2> QED
    BY <1>19, <2>1 DEF CloseSink, socket, drops
<1>20. CASE OnStopThrows
  <2>1. threw' \in BOOLEAN
    BY <1>20, Zenon DEF OnStopThrows
  <2> QED
    BY <1>20, <2>1 DEF OnStopThrows, socket, drops
<1>15. CASE Exit
  <2>1. exited' \in BOOLEAN
    BY <1>15, Zenon DEF Exit
  <2> QED
    BY <1>15, <2>1 DEF Exit, socket, drops
<1>16. CASE UNCHANGED vars
  BY <1>16 DEF vars
<1> QED
  BY <1>1, <1>2, <1>3, <1>4, <1>5, <1>6, <1>7, <1>8, <1>9, <1>10, <1>11, <1>12, <1>13,
     <1>14, <1>15, <1>16, <1>17, <1>18, <1>19, <1>20 DEF Next, SocketStep, OnStop

\* Every step keeps the types of the queues.
LEMMA StoresStep ==
    ASSUME Scalars, Stores, HasDatagram, [Next]_vars
    PROVE  Stores'
<1>0. TypeOK /\ current \in Nat
  BY TypeParts, CurrentIsNat
<1>1. CASE Arrive
  <2>1. /\ arrived' \in Seq([size: Sizes, route: Routes])
        /\ current' = current + 1 /\ current' <= MaxDatagrams
    BY <1>0, <1>1, SwitchesAssumption DEF Arrive, Stores, current
  <2>2. UNCHANGED <<charged, tasks, running, queue, late, sink, early>>
    BY <1>1 DEF Arrive, pool, sinks, ending
  <2>3. tasks' \in Seq(1..current')
    BY <1>0, <2>1, <2>2, SeqGrows DEF Stores
  <2>4. \A s \in Sinks : queue[s] \in Seq(0..current')
    BY <1>0, <2>1, SeqGrows DEF Stores
  <2>5. running' \in [Threads -> [msg: 0..current', todo: SUBSET Sinks]]
    BY <1>0, <2>1, <2>2 DEF Stores
  <2>6. /\ charged' \subseteq 1..current' /\ early' \subseteq 1..current'
        /\ late' \in [Sinks -> SUBSET (1..current')]
    BY <1>0, <2>1, <2>2 DEF Stores
  <2> QED
    BY <2>1, <2>2, <2>3, <2>4, <2>5, <2>6 DEF Stores
<1> SUFFICES ASSUME UNCHANGED arrived
             PROVE  /\ charged' \subseteq 1..current
                    /\ tasks' \in Seq(1..current)
                    /\ running' \in [Threads -> [msg: 0..current, todo: SUBSET Sinks]]
                    /\ queue' \in [Sinks -> Seq(0..current)]
                    /\ late' \in [Sinks -> SUBSET (1..current)]
                    /\ sink' \in [Sinks -> {"up", "down", "ending", "closed"}]
                    /\ early' \subseteq 1..current
  <2>1. CASE UNCHANGED arrived
    BY <2>1 DEF Stores, current
  <2>2. Arrive \/ UNCHANGED arrived
    BY SinkStepRuns, OnStopFrame
       DEF Next, ReceiveError, SocketStep, OnReceiveError, OnReceive, Drop, Charge, Recharge,
           Accept, OnReceiveThrows, RearmHandler, StopHandler, RearmExpires,
           ReportIntervalPasses, TaskStep, TakeTask, Post, TaskDone, TaskThrows, Run,
           SinkRecovers, SinkEnds, Release, Exit, vars
  <2> QED
    BY <1>1, <2>1, <2>2
<1> USE DEF Stores
<1>2. CASE Charge
  BY <1>0, <1>2 DEF Charge, HasDatagram, pool, sinks, ending
<1>3. CASE Accept
  <2>1. current \in 1..current
    BY <1>0, <1>3 DEF Accept, HasDatagram
  <2> QED
    BY <1>3, <2>1 DEF Accept, sinks, ending
<1>4. ASSUME NEW t \in Threads, TakeTask(t)
      PROVE  Stores'
  <2>0. tasks # <<>> /\ tasks' = Tail(tasks) /\ tasks \in Seq(1..current)
    BY <1>4 DEF TakeTask
  <2>1. Head(tasks) \in 1..current /\ tasks' \in Seq(1..current)
    BY <2>0, HeadTailProperties
  <2>2. Matching(Head(tasks)) \in SUBSET Sinks
    BY <1>0, <2>1, DatagramType DEF Matching
  <2>3. [msg |-> Head(tasks), todo |-> Matching(Head(tasks))]
            \in [msg: 0..current, todo: SUBSET Sinks]
    BY <1>0, <2>1, <2>2
  <2>4. running' \in [Threads -> [msg: 0..current, todo: SUBSET Sinks]]
    BY <1>4, <2>3 DEF TakeTask
  <2> QED
    BY <1>4, <2>1, <2>4 DEF TakeTask, sinks, ending, current
<1>5. ASSUME NEW t \in Threads, Post(t)
      PROVE  Stores'
  <2> DEFINE s == Min(running[t].todo)
  <2>1. queue' = [queue EXCEPT ![s] = Append(@, running[t].msg)]
    BY <1>5 DEF Post
  <2>2. running' = [running EXCEPT ![t].todo = @ \ {s}]
    BY <1>5 DEF Post
  <2> HIDE DEF s
  <2>3. queue' \in [Sinks -> Seq(0..current)]
    <3>1. running[t].msg \in 0..current
      BY <1>0
    <3>2. \A z \in Sinks : Append(queue[z], running[t].msg) \in Seq(0..current)
      BY <3>1, AppendProperties
    <3> QED
      BY <2>1, <3>2
  <2>4. running' \in [Threads -> [msg: 0..current, todo: SUBSET Sinks]]
    BY <1>0, <2>2
  <2> QED
    BY <1>5, <2>3, <2>4 DEF Post, ending, current
<1>6. ASSUME NEW t \in Threads, TaskDone(t) \/ TaskThrows(t)
      PROVE  Stores'
  <2>1. Idle \in [msg: 0..current, todo: SUBSET Sinks]
    BY <1>0 DEF Idle
  <2>2. running' \in [Threads -> [msg: 0..current, todo: SUBSET Sinks]]
    BY <1>6, <2>1 DEF TaskDone, TaskThrows
  <2> QED
    BY <1>6, <2>2 DEF TaskDone, TaskThrows, sinks, ending, current
<1>7. ASSUME NEW s \in Sinks, SinkStep(s)
      PROVE  Stores'
  <2>1. /\ Run(s) /\ queue[s] # <<>> /\ queue' = [queue EXCEPT ![s] = Tail(@)]
    BY <1>7, SinkStepRuns DEF Run
  <2>2. queue' \in [Sinks -> Seq(0..current)]
    BY <2>1
  <2>3. Head(queue[s]) \in 0..current
    <3>1. PICK q \in Seq(0..current) : q = queue[s] /\ q # <<>>
      BY <2>1
    <3> QED
      BY <3>1, HeadTailProperties
  <2>4. sink' \in [Sinks -> {"up", "down", "ending", "closed"}]
    BY <1>7, SinkStepRuns
  <2>5. late' \in [Sinks -> SUBSET (1..current)]
    <3>1. CASE UNCHANGED late
      BY <3>1
    <3>2. CASE Head(queue[s]) # Close /\ late' = [late EXCEPT ![s] = @ \cup {Head(queue[s])}]
      <4>1. Head(queue[s]) \in 1..current
        BY <1>0, <2>3, <3>2 DEF Close
      <4> QED
        BY <3>2, <4>1
    <3> QED
      BY <1>7, <3>1, <3>2, SinkStepRuns
  <2> QED
    BY <2>1, <2>2, <2>4, <2>5 DEF Run, pool, current
<1>8. ASSUME NEW s \in Sinks, SinkRecovers(s) \/ SinkEnds(s)
      PROVE  Stores'
  <2>1. sink' \in [Sinks -> {"up", "down", "ending", "closed"}]
    BY <1>8 DEF SinkRecovers, SinkEnds
  <2> QED
    BY <1>8, <2>1 DEF SinkRecovers, SinkEnds, pool, ending, current
<1>9. ASSUME NEW m \in Datagrams, Release(m)
      PROVE  Stores'
  BY <1>9 DEF Release, pool, sinks, ending, current
<1>10. ASSUME NEW s \in Sinks, CloseSink(s)
       PROVE  Stores'
  <2>1. queue' \in [Sinks -> Seq(0..current)]
    BY <1>0, <1>10 DEF CloseSink, CloseBehind, Close
  <2> QED
    BY <1>10, <2>1 DEF CloseSink, pool, current
<1>11. CASE Signal
  <2>1. early' \subseteq 1..current
    BY <1>11 DEF Signal, Dispatched
  <2> QED
    BY <1>11, <2>1 DEF Signal, pool, sinks
<1>12. CASE UNCHANGED <<charged, tasks, running, queue, late, sink, early>>
  BY <1>12
<1>13. CASE StopServer \/ OnStopThrows
  BY <1>13, <1>12 DEF StopServer, OnStopThrows, pool, sinks
<1>14. CASE \/ ReceiveError \/ OnReceiveError \/ OnReceive \/ Drop \/ Recharge \/ OnReceiveThrows
            \/ RearmHandler \/ StopHandler \/ RearmExpires \/ ReportIntervalPasses \/ Exit
            \/ UNCHANGED vars
  BY <1>14, <1>12
     DEF ReceiveError, OnReceiveError, OnReceive, Drop, Recharge, OnReceiveThrows, RearmHandler,
         StopHandler, RearmExpires, ReportIntervalPasses, Exit, vars, pool, sinks, ending
<1> HIDE DEF Stores
<1>15. CASE Stores'
  BY <1>15 DEF Stores, current
<1> QED
  BY <1>1, <1>2, <1>3, <1>4, <1>5, <1>6, <1>7, <1>8, <1>9, <1>10, <1>11, <1>13, <1>14, <1>15
     DEF Next, Arrive, SocketStep, TaskStep, OnStop, current

\* Every variable has its type, and the counter of the budget never passes
\* max_queue_bytes, whatever the threads do between the load and the exchange.
THEOREM TypeCorrect == Spec => []TypeOK
<1> DEFINE Inv == Scalars /\ Stores /\ HasDatagram
<1>1. Init => Inv
  BY TypeInit, TypeParts DEF Init, HasDatagram
<1>2. Inv /\ [Next]_vars => Inv'
  BY ScalarsStep, StoresStep, HasDatagramStep
<1>3. Inv => TypeOK
  BY TypeParts
<1> QED
  BY <1>1, <1>2, <1>3, PTL DEF Spec
-----------------------------------------------------------------------------
(***************************************************************************)
(* Sums.  Induction over the numbers is used in the form it has for a set: *)
(* a set that has 0 and with n always n + 1 has every number.              *)
(***************************************************************************)

\* Induction over the naturals for sets: a set of numbers has a least one.
LEMMA LeastNat ==
    ASSUME NEW T \in SUBSET Nat, T # {}
    PROVE  \E n \in T : \A m \in T : n <= m
<1> DEFINE R == {ss \in Nat \X Nat : ss[1] < ss[2]}
<1>1. IsWellFoundedOn(R, Nat)
  BY NatLessThanWellFounded DEF OpToRel
<1>2. \A x, y \in Nat : y < x => <<y, x>> \in R
  OBVIOUS
<1> HIDE DEF R
<1>3. PICK x \in T : \A y \in T : ~(<<y, x>> \in R)
  BY <1>1, WFMin
<1>4. \A y \in T : ~(y < x)
  BY <1>2, <1>3
<1> QED
  BY <1>4

\* A set with 0 and every successor has every number.
LEMMA NatInd ==
    ASSUME NEW T, 0 \in T, \A n \in Nat : n \in T => n + 1 \in T
    PROVE  Nat \subseteq T
<1> DEFINE C == Nat \ T
<1> SUFFICES ASSUME C # {} PROVE FALSE
  OBVIOUS
<1>1. PICK n \in C : \A m \in C : n <= m
  BY LeastNat
<1> QED
  BY <1>1

\* The recursive function that sums up weights exists.
LEMMA SumExists ==
    ASSUME NEW w
    PROVE  \E f : f = [n \in Nat |-> IF n = 0 THEN 0 ELSE f[n - 1] + w[n]]
<1> DEFINE Sat(g, N) == g = [n \in 0..N |-> IF n = 0 THEN 0 ELSE g[n - 1] + w[n]]
<1>1. \A N \in Nat : \E g : Sat(g, N)
  <2> DEFINE T == {N \in Nat : \E g : Sat(g, N)}
  <2>1. 0 \in T
    <3>1. Sat([n \in 0..0 |-> 0], 0)
      OBVIOUS
    <3> QED
      BY <3>1
  <2>2. ASSUME NEW N \in Nat, N \in T
        PROVE  N + 1 \in T
    <3>1. PICK g : Sat(g, N)
      BY <2>2
    <3> DEFINE h == [n \in 0..(N + 1) |-> IF n <= N THEN g[n] ELSE g[N] + w[N + 1]]
    <3>2. \A n \in 0..N : g[n] = IF n = 0 THEN 0 ELSE g[n - 1] + w[n]
      BY <3>1
    <3>3. ASSUME NEW n \in 0..(N + 1)
          PROVE  h[n] = IF n = 0 THEN 0 ELSE h[n - 1] + w[n]
      <4>1. CASE n <= N
        BY <3>2, <4>1
      <4>2. CASE n = N + 1
        BY <4>2
      <4> QED
        BY <4>1, <4>2
    <3>4. Sat(h, N + 1)
      BY <3>3
    <3> HIDE DEF h, Sat
    <3> QED
      BY <3>4
  <2> HIDE DEF T
  <2>3. Nat \subseteq T
    BY <2>1, <2>2, NatInd
  <2> QED
    BY <2>3 DEF T
<1>2. ASSUME NEW N \in Nat, NEW M \in Nat, N <= M, NEW g, NEW h, Sat(g, N), Sat(h, M)
      PROVE  \A n \in 0..N : g[n] = h[n]
  <2> DEFINE T == {n \in Nat : n <= N => g[n] = h[n]}
  <2>0. /\ \A n \in 0..N : g[n] = IF n = 0 THEN 0 ELSE g[n - 1] + w[n]
        /\ \A n \in 0..M : h[n] = IF n = 0 THEN 0 ELSE h[n - 1] + w[n]
    BY <1>2
  <2>1. 0 \in T
    BY <1>2, <2>0
  <2>2. ASSUME NEW n \in Nat, n \in T
        PROVE  n + 1 \in T
    <3>1. CASE n + 1 <= N
      BY <1>2, <2>0, <2>2, <3>1
    <3> QED
      BY <3>1
  <2> HIDE DEF T
  <2>3. Nat \subseteq T
    BY <2>1, <2>2, NatInd
  <2> QED
    BY <2>3 DEF T
<1> DEFINE G == [N \in Nat |-> CHOOSE g : Sat(g, N)]
           f == [n \in Nat |-> G[n][n]]
<1>3. \A N \in Nat : Sat(G[N], N)
  BY <1>1
<1> HIDE DEF G
<1>4. ASSUME NEW n \in Nat
      PROVE  f[n] = IF n = 0 THEN 0 ELSE f[n - 1] + w[n]
  <2>1. G[n][n] = IF n = 0 THEN 0 ELSE G[n][n - 1] + w[n]
    <3> DEFINE g == G[n]
    <3>1. Sat(g, n)
      BY <1>3
    <3> HIDE DEF g
    <3>2. g[n] = IF n = 0 THEN 0 ELSE g[n - 1] + w[n]
      BY <3>1
    <3> QED
      BY <3>2 DEF g
  <2>2. CASE n # 0
    <3>1. n - 1 \in Nat /\ Sat(G[n - 1], n - 1) /\ Sat(G[n], n)
      BY <1>3, <2>2
    <3> HIDE DEF Sat
    <3>2. G[n - 1][n - 1] = G[n][n - 1]
      BY <1>2, <2>2, <3>1
    <3> QED
      BY <2>1, <2>2, <3>1, <3>2
  <2> QED
    BY <2>1, <2>2
<1>5. f = [n \in Nat |-> IF n = 0 THEN 0 ELSE f[n - 1] + w[n]]
  BY <1>4
<1> QED
  BY <1>5

\* The sums that the definition of Bytes() runs through.
Sums(f, a, S) ==
    \A n \in Nat : f[n] = IF n = 0 THEN 0 ELSE f[n - 1] + (IF n \in S THEN a[n].size ELSE 0)

\* Bytes(a, S) is the last of the partial sums over S.
LEMMA BytesSums ==
    ASSUME NEW a, NEW S
    PROVE  \E f : Sums(f, a, S) /\ Bytes(a, S) = f[Len(a)]
<1> DEFINE w == [n \in Nat |-> IF n \in S THEN a[n].size ELSE 0]
           upto[n \in Nat] == IF n = 0 THEN 0 ELSE upto[n - 1] + (IF n \in S THEN a[n].size ELSE 0)
<1>1. PICK g : g = [n \in Nat |-> IF n = 0 THEN 0 ELSE g[n - 1] + w[n]]
  <2> HIDE DEF w
  <2> QED
    BY SumExists
<1>2. g = [n \in Nat |-> IF n = 0 THEN 0 ELSE g[n - 1] + (IF n \in S THEN a[n].size ELSE 0)]
  BY <1>1
<1>3. upto = [n \in Nat |-> IF n = 0 THEN 0 ELSE upto[n - 1] + (IF n \in S THEN a[n].size ELSE 0)]
  BY <1>2
<1>4. Bytes(a, S) = upto[Len(a)]
  BY DEF Bytes
<1> HIDE DEF upto
<1>5. Sums(upto, a, S)
  BY <1>3 DEF Sums
<1> QED
  BY <1>4, <1>5

\* The datagrams of S are among those of a, and have a size.
Sized(a, S) == Len(a) \in Nat /\ S \subseteq 1..Len(a) /\ \A n \in S : a[n].size \in Nat

\* The partial sums are numbers.
LEMMA SumsNat ==
    ASSUME NEW a, NEW S, Sized(a, S), NEW f, Sums(f, a, S)
    PROVE  \A n \in Nat : f[n] \in Nat
<1> DEFINE T == {n \in Nat : f[n] \in Nat}
<1>1. 0 \in T
  BY DEF Sums
<1>2. ASSUME NEW n \in Nat, n \in T
      PROVE  n + 1 \in T
  <2>1. f[n + 1] = f[n] + (IF n + 1 \in S THEN a[n + 1].size ELSE 0)
    BY DEF Sums
  <2>2. n + 1 \in S => a[n + 1].size \in Nat
    BY DEF Sized
  <2> QED
    BY <1>2, <2>1, <2>2
<1> HIDE DEF T
<1>3. Nat \subseteq T
  BY <1>1, <1>2, NatInd
<1> QED
  BY <1>3 DEF T

\* No datagram weighs nothing.
LEMMA BytesEmpty ==
    ASSUME NEW a, Len(a) \in Nat
    PROVE  Bytes(a, {}) = 0
<1>1. PICK f : Sums(f, a, {}) /\ Bytes(a, {}) = f[Len(a)]
  BY BytesSums
<1> DEFINE T == {n \in Nat : f[n] = 0}
<1>2. 0 \in T
  BY <1>1 DEF Sums
<1>3. ASSUME NEW n \in Nat, n \in T
      PROVE  n + 1 \in T
  BY <1>1, <1>3 DEF Sums
<1> HIDE DEF T
<1>4. Nat \subseteq T
  BY <1>2, <1>3, NatInd
<1> QED
  BY <1>1, <1>4 DEF T

\* One more datagram adds its size.
LEMMA BytesAdd ==
    ASSUME NEW a, NEW S, NEW k, k \notin S, Sized(a, S \cup {k})
    PROVE  Bytes(a, S \cup {k}) = Bytes(a, S) + a[k].size
<1> DEFINE R == S \cup {k}
<1>0. k \in 1..Len(a) /\ Len(a) \in Nat /\ a[k].size \in Nat /\ Sized(a, S)
  BY DEF Sized
<1>1. PICK f : Sums(f, a, S) /\ Bytes(a, S) = f[Len(a)]
  BY BytesSums
<1>2. PICK g : Sums(g, a, R) /\ Bytes(a, R) = g[Len(a)]
  BY BytesSums
<1>3. \A n \in Nat : f[n] \in Nat
  BY <1>0, <1>1, SumsNat
<1> DEFINE T == {n \in Nat : g[n] = IF k <= n THEN f[n] + a[k].size ELSE f[n]}
<1>4. 0 \in T
  BY <1>0, <1>1, <1>2, <1>3 DEF Sums
<1>5. ASSUME NEW n \in Nat, n \in T
      PROVE  n + 1 \in T
  <2>1. /\ f[n + 1] = f[n] + (IF n + 1 \in S THEN a[n + 1].size ELSE 0)
        /\ g[n + 1] = g[n] + (IF n + 1 \in R THEN a[n + 1].size ELSE 0)
    BY <1>1, <1>2 DEF Sums
  <2>2. CASE n + 1 = k
    BY <1>0, <1>3, <1>5, <2>1, <2>2
  <2>3. CASE n + 1 # k
    <3>1. n + 1 \in S => a[n + 1].size \in Nat
      BY <1>0 DEF Sized
    <3>2. n + 1 \in R <=> n + 1 \in S
      BY <2>3
    <3> QED
      BY <1>0, <1>3, <1>5, <2>1, <2>3, <3>1, <3>2
  <2> QED
    BY <2>2, <2>3
<1> HIDE DEF T
<1>6. Nat \subseteq T
  BY <1>4, <1>5, NatInd
<1>7. Len(a) \in T
  BY <1>0, <1>6
<1> QED
  BY <1>0, <1>1, <1>2, <1>7 DEF T

\* Fewer datagrams weigh no more.
LEMMA BytesMonotonic ==
    ASSUME NEW a, NEW S, NEW R, S \subseteq R, Sized(a, R)
    PROVE  Bytes(a, S) \in Nat /\ Bytes(a, R) \in Nat /\ Bytes(a, S) <= Bytes(a, R)
<1>0. Len(a) \in Nat /\ Sized(a, S)
  BY DEF Sized
<1>1. PICK f : Sums(f, a, S) /\ Bytes(a, S) = f[Len(a)]
  BY BytesSums
<1>2. PICK g : Sums(g, a, R) /\ Bytes(a, R) = g[Len(a)]
  BY BytesSums
<1>3. \A n \in Nat : f[n] \in Nat /\ g[n] \in Nat
  BY <1>0, <1>1, <1>2, SumsNat
<1> DEFINE T == {n \in Nat : f[n] <= g[n]}
<1>4. 0 \in T
  BY <1>1, <1>2 DEF Sums
<1>5. ASSUME NEW n \in Nat, n \in T
      PROVE  n + 1 \in T
  <2>1. /\ f[n + 1] = f[n] + (IF n + 1 \in S THEN a[n + 1].size ELSE 0)
        /\ g[n + 1] = g[n] + (IF n + 1 \in R THEN a[n + 1].size ELSE 0)
    BY <1>1, <1>2 DEF Sums
  <2>2. n + 1 \in R => a[n + 1].size \in Nat
    BY DEF Sized
  <2> QED
    BY <1>3, <1>5, <2>1, <2>2
<1> HIDE DEF T
<1>6. Nat \subseteq T
  BY <1>4, <1>5, NatInd
<1>7. Len(a) \in T
  BY <1>0, <1>6
<1> QED
  BY <1>0, <1>1, <1>2, <1>3, <1>7 DEF T

\* A datagram that arrives changes nothing about the ones before it.
LEMMA BytesAppend ==
    ASSUME NEW U, NEW a \in Seq(U), NEW e \in U, NEW S, Sized(a, S)
    PROVE  Bytes(Append(a, e), S) = Bytes(a, S)
<1> DEFINE b == Append(a, e)
<1>0. /\ Len(a) \in Nat /\ Len(b) = Len(a) + 1
      /\ \A n \in 1..Len(a) : b[n] = a[n]
      /\ Len(b) \notin S
  BY DEF Sized
<1> HIDE DEF b
<1>1. PICK f : Sums(f, a, S) /\ Bytes(a, S) = f[Len(a)]
  BY BytesSums
<1>2. PICK g : Sums(g, b, S) /\ Bytes(b, S) = g[Len(b)]
  BY BytesSums
<1>3. \A n \in Nat : f[n] \in Nat
  BY <1>1, SumsNat
<1> DEFINE T == {n \in Nat : f[n] = g[n]}
<1>4. 0 \in T
  BY <1>1, <1>2 DEF Sums
<1>5. ASSUME NEW n \in Nat, n \in T
      PROVE  n + 1 \in T
  <2>1. /\ f[n + 1] = f[n] + (IF n + 1 \in S THEN a[n + 1].size ELSE 0)
        /\ g[n + 1] = g[n] + (IF n + 1 \in S THEN b[n + 1].size ELSE 0)
    BY <1>1, <1>2 DEF Sums
  <2>2. n + 1 \in S => b[n + 1] = a[n + 1]
    BY <1>0 DEF Sized
  <2> QED
    BY <1>5, <2>1, <2>2
<1> HIDE DEF T
<1>6. Nat \subseteq T
  BY <1>4, <1>5, NatInd
<1>7. g[Len(b)] = g[Len(a)] + 0
  BY <1>0, <1>2 DEF Sums
<1>8. g[Len(a)] = f[Len(a)] /\ f[Len(a)] \in Nat
  BY <1>0, <1>3, <1>6 DEF T
<1> QED
  BY <1>1, <1>2, <1>7, <1>8 DEF b
-----------------------------------------------------------------------------
(***************************************************************************)
(* The budget.                                                             *)
(***************************************************************************)

\* Whatever waits on its way to a sink holds a charge, and the datagram that
\* admit() looks at does not have one yet.
HeldInv ==
    /\ pc # "idle" => rx = "none"
    /\ pc = "admit" \/ rx = "data" => current \notin charged
    /\ pc = "copy" => current \in charged
    /\ \A k \in 1..Len(tasks) : tasks[k] \in charged
    /\ \A t \in Threads : running[t].msg # 0 => running[t].msg \in charged
    /\ \A s \in Sinks : \A k \in 1..Len(queue[s]) : queue[s][k] # 0 => queue[s][k] \in charged

\* The counter covers the charges; it is more only by what an allocation that
\* fails inside admit() leaves behind.
LoadInv ==
    /\ Load(charged) <= inFlight
    /\ ~CanThrow => inFlight = Load(charged)

DropInv == ~CanThrow => droppedTotal = reported + dropped

TypeInv == Scalars /\ Stores /\ HasDatagram
BudgetInv == TypeInv /\ HeldInv /\ LoadInv /\ DropInv

\* Every datagram that has arrived has a size.
LEMMA ChargedSized ==
    ASSUME TypeInv, NEW S \in SUBSET (1..current)
    PROVE  Sized(arrived, S)
<1>1. \A n \in S : size(n) \in Nat
  BY DatagramType, TypeParts DEF TypeInv
<1> QED
  BY <1>1, CurrentIsNat DEF TypeInv, Sized, size, current

\* The types, with the datagram in hand, as one invariant.
LEMMA TypeInvInit == Init => TypeInv
BY TypeInit, TypeParts DEF Init, HasDatagram, TypeInv

\* Every step keeps it.
LEMMA TypeInvStep == TypeInv /\ [Next]_vars => TypeInv'
BY ScalarsStep, StoresStep, HasDatagramStep DEF TypeInv

\* The account starts empty.
LEMMA BudgetInit == Init => BudgetInv
<1> SUFFICES ASSUME Init PROVE BudgetInv
  OBVIOUS
<1>1. TypeInv
  BY TypeInvInit
<1>2. HeldInv
  BY DEF Init, HeldInv, Idle
<1>3. LoadInv
  <2>1. arrived = <<>> /\ inFlight = 0 /\ charged = {}
    BY DEF Init
  <2>2. Len(arrived) \in Nat
    BY <2>1
  <2>3. Load({}) = 0
    BY <2>2, BytesEmpty DEF Load
  <2> QED
    BY <2>1, <2>3 DEF LoadInv
<1>4. DropInv
  BY DEF Init, DropInv
<1> QED
  BY <1>1, <1>2, <1>3, <1>4 DEF BudgetInv

\* Every step keeps the account of the drops.
LEMMA DropStep ==
    ASSUME TypeInv, DropInv, [Next]_vars
    PROVE  DropInv'
<1> USE DEF DropInv
<1> SUFFICES ASSUME ~CanThrow
             PROVE  (droppedTotal = reported + dropped)'
  OBVIOUS
<1>1. CASE Drop
  <2>1. ReportDrops(dropped + 1, FALSE) /\ droppedTotal' = droppedTotal + 1
    BY <1>1 DEF Drop
  <2>2. dropped + 1 \in Nat /\ Scalars
    BY DEF TypeInv, Scalars
  <2>3. reported' + dropped' = reported + dropped + 1
    BY <2>1, <2>2 DEF ReportDrops, Scalars
  <2> QED
    BY <2>1, <2>2, <2>3 DEF Scalars
<1>2. CASE StopHandler
  <2>1. ReportDrops(dropped, TRUE) /\ UNCHANGED droppedTotal
    BY <1>2 DEF StopHandler
  <2> QED
    BY <2>1 DEF ReportDrops, TypeInv, Scalars
<1>3. CASE UNCHANGED <<dropped, droppedTotal, reported>>
  BY <1>3
<1> QED
  BY <1>1, <1>2, <1>3, SinkStepRuns, OnStopFrame
  DEF Next, Arrive, ReceiveError, SocketStep, OnReceiveError, OnReceive, Charge, Recharge,
      Accept, OnReceiveThrows, RearmHandler, RearmExpires, ReportIntervalPasses, TaskStep,
      TakeTask, Post, TaskDone, TaskThrows, Run, SinkRecovers, SinkEnds, Release, Exit, vars,
      drops

\* Whatever the loop, a thread or a queue still holds stays charged.
LEMMA HeldStep ==
    ASSUME TypeInv, HeldInv, [Next]_vars
    PROVE  HeldInv'
<1> USE DEF HeldInv
<1>0. /\ current \in Nat /\ charged \subseteq 1..current /\ tasks \in Seq(1..current)
      /\ running \in [Threads -> [msg: 0..current, todo: SUBSET Sinks]]
      /\ queue \in [Sinks -> Seq(0..current)]
  BY CurrentIsNat DEF TypeInv, Stores
<1>1. CASE Arrive
  <2>1. current' = current + 1
    BY <1>1 DEF Arrive, current, TypeInv, Stores
  <2> QED
    BY <1>0, <1>1, <2>1 DEF Arrive, pool, sinks
<1>2. CASE \/ ReceiveError \/ OnReceiveError \/ OnReceive \/ Recharge \/ OnReceiveThrows
           \/ RearmExpires \/ RearmHandler \/ StopHandler \/ ReportIntervalPasses \/ Exit
           \/ UNCHANGED vars \/ Drop
  <2>1. UNCHANGED <<arrived, charged, tasks, running, queue>>
    BY <1>2 DEF ReceiveError, OnReceiveError, OnReceive, Recharge, OnReceiveThrows, RearmExpires,
                RearmHandler, StopHandler, ReportIntervalPasses, Exit, vars, Drop, pool, sinks
  <2>2. /\ pc' # "idle" => rx' = "none"
        /\ pc' = "copy" => pc = "copy"
        /\ pc' = "admit" \/ rx' = "data" => pc = "admit" \/ rx = "data"
    BY <1>2 DEF ReceiveError, OnReceiveError, OnReceive, Recharge, OnReceiveThrows, HandlerThrows,
                PostThrows, RearmExpires, RearmHandler, StopHandler, ReportIntervalPasses, Exit,
                vars, Drop, Refuse, Receive, socket
  <2> QED
    BY <2>1, <2>2 DEF current
<1>3. CASE Charge
  BY <1>3 DEF Charge, pool, sinks, current
<1>4. CASE Accept
  <2>1. /\ tasks' = Append(tasks, current) /\ pc = "copy" /\ pc' = "idle"
        /\ UNCHANGED <<arrived, charged, running, queue>> /\ rx' # "data"
    BY <1>4 DEF Accept, Receive, sinks
  <2>2. \A k \in 1..Len(tasks') : tasks'[k] \in charged
    BY <1>0, <2>1
  <2> QED
    BY <2>1, <2>2 DEF current
<1>5. ASSUME NEW t \in Threads, TakeTask(t)
      PROVE  HeldInv'
  <2>1. /\ tasks # <<>> /\ tasks' = Tail(tasks)
        /\ running' = [running EXCEPT ![t] = [msg |-> Head(tasks), todo |-> Matching(Head(tasks))]]
        /\ UNCHANGED <<arrived, charged, queue, pc, rx>>
    BY <1>5 DEF TakeTask, socket, sinks
  <2>2. Head(tasks) \in charged /\ \A k \in 1..Len(tasks') : tasks'[k] \in charged
    BY <1>0, <2>1
  <2> QED
    BY <1>0, <2>1, <2>2 DEF current
<1>6. ASSUME NEW t \in Threads, Post(t)
      PROVE  HeldInv'
  <2> DEFINE s == Min(running[t].todo)
  <2>1. /\ queue' = [queue EXCEPT ![s] = Append(@, running[t].msg)]
        /\ running' = [running EXCEPT ![t].todo = @ \ {s}]
        /\ UNCHANGED <<arrived, charged, tasks, pc, rx>>
    BY <1>6 DEF Post, socket
  <2> HIDE DEF s
  <2>2. \A u \in Threads : running'[u].msg = running[u].msg
    BY <1>0, <2>1
  <2>3. ASSUME NEW z \in Sinks, NEW k \in 1..Len(queue'[z]), queue'[z][k] # 0
        PROVE  queue'[z][k] \in charged
    <3>1. CASE z = s
      <4>1. queue'[z] = Append(queue[z], running[t].msg) /\ queue[z] \in Seq(0..current)
        BY <1>0, <2>1, <3>1
      <4> QED
        BY <2>3, <4>1
    <3>2. CASE z # s
      BY <1>0, <2>1, <2>3, <3>2
    <3> QED
      BY <3>1, <3>2
  <2> QED
    BY <2>1, <2>2, <2>3 DEF current
<1>7. ASSUME NEW t \in Threads, TaskDone(t) \/ TaskThrows(t)
      PROVE  HeldInv'
  <2>1. /\ running' = [running EXCEPT ![t] = Idle]
        /\ UNCHANGED <<arrived, charged, tasks, queue, pc, rx>>
    BY <1>7 DEF TaskDone, TaskThrows, socket, sinks
  <2>2. \A u \in Threads : running'[u].msg # 0 => running[u].msg = running'[u].msg
    BY <1>0, <2>1 DEF Idle
  <2> QED
    BY <2>1, <2>2 DEF current
<1>8. ASSUME NEW s \in Sinks, SinkStep(s)
      PROVE  HeldInv'
  <2>1. /\ queue[s] # <<>> /\ queue' = [queue EXCEPT ![s] = Tail(@)]
        /\ UNCHANGED <<arrived, charged, tasks, running, pc, rx>>
    BY <1>8, SinkStepRuns DEF Run, socket, pool
  <2>2. ASSUME NEW z \in Sinks, NEW k \in 1..Len(queue'[z]), queue'[z][k] # 0
        PROVE  queue'[z][k] \in charged
    <3>1. CASE z = s
      <4>1. queue'[z] = Tail(queue[z]) /\ queue[z] \in Seq(0..current) /\ queue[z] # <<>>
        BY <1>0, <2>1, <3>1
      <4> QED
        BY <2>2, <4>1
    <3>2. CASE z # s
      BY <1>0, <2>1, <2>2, <3>2
    <3> QED
      BY <3>1, <3>2
  <2> QED
    BY <2>1, <2>2 DEF current
<1>9. ASSUME NEW m \in Datagrams, Release(m)
      PROVE  HeldInv'
  BY <1>9 DEF Release, Held, socket, pool, sinks, current
<1>10. ASSUME NEW s \in Sinks, CloseSink(s)
       PROVE  HeldInv'
  <2>1. /\ queue' = [queue EXCEPT ![s] = Append(@, Close)]
        /\ UNCHANGED <<arrived, charged, tasks, running, pc, rx>>
    BY <1>10 DEF CloseSink, CloseBehind, socket, pool
  <2>2. ASSUME NEW z \in Sinks, NEW k \in 1..Len(queue'[z]), queue'[z][k] # 0
        PROVE  queue'[z][k] \in charged
    <3>1. CASE z = s
      <4>1. queue'[z] = Append(queue[z], 0) /\ queue[z] \in Seq(0..current)
        BY <1>0, <2>1, <3>1 DEF Close
      <4> QED
        BY <2>2, <4>1
    <3>2. CASE z # s
      BY <1>0, <2>1, <2>2, <3>2
    <3> QED
      BY <3>1, <3>2
  <2> QED
    BY <2>1, <2>2 DEF current
<1>11. CASE UNCHANGED <<arrived, charged, tasks, running, queue, pc, rx>>
  BY <1>11 DEF current
<1>12. CASE Signal \/ OnStop
  BY <1>10, <1>11, <1>12, OnStopFrame DEF socket, pool
<1>13. ASSUME NEW s \in Sinks, SinkRecovers(s) \/ SinkEnds(s)
       PROVE  HeldInv'
  BY <1>11, <1>13 DEF SinkRecovers, SinkEnds, socket, pool
<1> QED
  BY <1>1, <1>2, <1>3, <1>4, <1>5, <1>6, <1>7, <1>8, <1>9, <1>12, <1>13
  DEF Next, SocketStep, TaskStep

\* Every step keeps the counter equal to the bytes charged.
LEMMA LoadStep ==
    ASSUME BudgetInv, [Next]_vars
    PROVE  LoadInv'
<1> USE DEF BudgetInv, LoadInv, Load
<1>0. /\ current \in Nat /\ charged \subseteq 1..current /\ inFlight \in Int
      /\ arrived \in Seq([size: Sizes, route: Routes]) /\ Len(arrived) = current
  BY CurrentIsNat DEF TypeInv, Stores, Scalars, current
<1>1. Sized(arrived, charged)
  BY <1>0, ChargedSized
<1>2. CASE Arrive
  <2>1. PICK e \in [size: Sizes, route: Routes] : arrived' = Append(arrived, e)
    BY <1>2 DEF Arrive
  <2>2. UNCHANGED <<charged, inFlight>>
    BY <1>2 DEF Arrive
  <2>3. Bytes(arrived', charged) = Bytes(arrived, charged)
    BY <1>0, <1>1, <2>1, BytesAppend
  <2> QED
    BY <2>2, <2>3
<1>3. CASE Charge
  <2>1. /\ inFlight' = inFlight + size(current) /\ charged' = charged \cup {current}
        /\ current \notin charged /\ UNCHANGED arrived /\ pc = "admit"
    BY <1>3 DEF Charge, ExchangeSucceeds, HeldInv
  <2>2. current \in 1..current
    BY <1>0, <2>1 DEF TypeInv, HasDatagram
  <2>3. Sized(arrived, charged \cup {current})
    BY <1>0, <2>2, ChargedSized
  <2>4. Bytes(arrived, charged \cup {current}) = Bytes(arrived, charged) + size(current)
    BY <2>1, <2>3, BytesAdd DEF size
  <2>5. Bytes(arrived, charged) \in Nat /\ size(current) \in Nat
    BY <1>1, <2>2, <2>3, BytesMonotonic DEF Sized, size
  <2> QED
    BY <1>0, <2>1, <2>4, <2>5
<1>4. CASE OnReceiveThrows
  <2>1. CanThrow /\ UNCHANGED <<arrived, charged>>
    BY <1>4 DEF OnReceiveThrows
  <2>2. inFlight' = inFlight \/ (pc = "admit" /\ inFlight' = inFlight + size(current))
    BY <1>4 DEF OnReceiveThrows, HandlerThrows, PostThrows
  <2>3. pc = "admit" => size(current) \in Nat
    BY <1>0, TypeParts, DatagramType DEF TypeInv, HasDatagram
  <2>4. Bytes(arrived, charged) \in Nat
    BY <1>1, BytesMonotonic
  <2> QED
    BY <1>0, <2>1, <2>2, <2>3, <2>4
<1>5. ASSUME NEW m \in Datagrams, Release(m)
      PROVE  LoadInv'
  <2>1. /\ m \in charged /\ inFlight' = inFlight - size(m) /\ charged' = charged \ {m}
        /\ UNCHANGED arrived
    BY <1>5 DEF Release
  <2>2. (charged \ {m}) \cup {m} = charged
    BY <2>1
  <2>3. Bytes(arrived, charged) = Bytes(arrived, charged \ {m}) + size(m)
    BY <1>1, <2>2, BytesAdd DEF size
  <2>4. Bytes(arrived, charged \ {m}) \in Nat /\ size(m) \in Nat
    BY <1>1, <2>1, BytesMonotonic DEF Sized, size
  <2> QED
    BY <1>0, <2>1, <2>3, <2>4
<1>6. CASE UNCHANGED <<arrived, charged, inFlight>>
  BY <1>6
<1> QED
  BY <1>2, <1>3, <1>4, <1>5, <1>6, SinkStepRuns, OnStopFrame
  DEF Next, ReceiveError, SocketStep, OnReceiveError, OnReceive, Drop, Recharge, Accept,
      RearmHandler, StopHandler, RearmExpires, ReportIntervalPasses, TaskStep, TakeTask, Post,
      TaskDone, TaskThrows, Run, SinkRecovers, SinkEnds, Exit, vars

\* The budget's invariant holds.
LEMMA BudgetAlways == Spec => []BudgetInv
<1>1. BudgetInv /\ [Next]_vars => BudgetInv'
  BY TypeInvStep, HeldStep, LoadStep, DropStep DEF BudgetInv
<1> QED
  BY BudgetInit, <1>1, PTL DEF Spec

\* What is received and not yet taken by every sink never exceeds
\* max_queue_bytes, also where allocations fail: whatever waits holds a Charge,
\* and the counter of admit() covers the charges.
THEOREM QueuedAlwaysWithinBudget == Spec => []QueuedWithinBudget
<1>1. ASSUME BudgetInv
      PROVE  QueuedWithinBudget
  <2> USE <1>1 DEF BudgetInv
  <2>1. charged \subseteq 1..current /\ inFlight \in Int /\ inFlight <= Budget
    BY DEF TypeInv, Stores, Scalars
  <2>2. Queued \subseteq charged
    <3> SUFFICES ASSUME NEW m \in Queued
                 PROVE  m \in charged
      OBVIOUS
    <3>1. m # 0
      BY CurrentIsNat DEF TypeInv, Queued
    <3> QED
      BY <3>1 DEF Queued, HeldInv
  <2>3. Load(Queued) \in Nat /\ Load(charged) \in Nat /\ Load(Queued) <= Load(charged)
    BY <2>1, <2>2, ChargedSized, BytesMonotonic DEF Load
  <2> QED
    BY <2>1, <2>3, BudgetAssumption DEF LoadInv, QueuedWithinBudget
<1> QED
  BY <1>1, BudgetAlways, PTL

\* Where no allocation fails, the counter of AdmissionControl is exactly the
\* bytes of the charges that exist, and every refused datagram is in a report
\* or waiting for one.
THEOREM CountersAlwaysMatch ==
    ASSUME ~CanThrow
    PROVE  Spec => []CountersMatch
<1>1. BudgetInv => CountersMatch
  BY DEF BudgetInv, LoadInv, DropInv, CountersMatch
<1> QED
  BY <1>1, BudgetAlways, PTL
-----------------------------------------------------------------------------
(***************************************************************************)
(* The way of a datagram to the sinks.                                     *)
(***************************************************************************)

\* Message m is in the sequence q of messages, and the ones that are there are
\* there once.
Has(q, m) == \E k \in 1..Len(q) : q[k] = m
Once(q) == \A i, j \in 1..Len(q) : q[i] = q[j] /\ q[i] # Close => i = j

\* Datagram m waits for its turn on the socket strand or for a thread; no
\* thread and no sink has it, or has had it; or it is under way, and each sink
\* it is routed to has taken it, has it queued, or is still to get it.
Fresh(m) == m = current /\ (rx = "data" \/ pc # "idle")
Waiting(m) == Fresh(m) \/ Has(tasks, m)
Untaken(m) ==
    /\ \A t \in Threads : running[t].msg # m
    /\ \A s \in Sinks : ~Has(queue[s], m) /\ taken[s][m] = 0
Underway(m) ==
    \A s \in arrived[m].route :
        \/ Has(queue[s], m) \/ taken[s][m] = 1
        \/ \E t \in Threads : running[t].msg = m /\ s \in running[t].todo

PathOf(m) ==
    /\ Waiting(m) => Untaken(m)
    /\ Waiting(m) \/ Untaken(m) \/ Underway(m)
    /\ ~(Fresh(m) /\ Has(tasks, m))
    /\ \A s \in Sinks :
        /\ taken[s][m] \in {0, 1}
        /\ Has(queue[s], m) => taken[s][m] = 0
        /\ Has(queue[s], m) \/ taken[s][m] = 1 => s \in arrived[m].route

\* A task is run by one thread, and what it has still to post has not been.
TaskOf(t) ==
    LET m == running[t].msg
    IN /\ m = 0 => running[t].todo = {}
       /\ m # 0 => /\ running[t].todo \subseteq arrived[m].route
                   /\ \A u \in Threads : running[u].msg = m => u = t
                   /\ \A s \in running[t].todo : ~Has(queue[s], m) /\ taken[s][m] = 0

\* The datagrams that wait nowhere though no sink has seen them.
Lost == {m \in 1..current : ~Waiting(m) /\ Untaken(m) /\ arrived[m].route # {}}

TakenType ==
    /\ taken \in [Sinks -> [0..MaxDatagrams -> Nat]]
    /\ \A s \in Sinks, m \in (current + 1)..MaxDatagrams : taken[s][m] = 0

PathInv ==
    /\ TakenType
    /\ Once(tasks) /\ \A s \in Sinks : Once(queue[s])
    /\ \A m \in 1..current : PathOf(m)
    /\ \A t \in Threads : TaskOf(t)
    /\ Cardinality(Lost) <= droppedTotal

\* Once run() has returned there is nothing left that could happen.
ExitInv ==
    exited => /\ charged = {} /\ rx = "none" /\ pc = "idle" /\ rearm = "idle" /\ stop # "posted"
              /\ signal # "handling" /\ \A s \in Sinks : sink[s] \notin {"down", "ending"}
              /\ tasks = <<>> /\ \A t \in Threads : running[t] = Idle
              /\ \A s \in Sinks : queue[s] = <<>>

\* The re-arm of the socket waits only while no receive is pending: there are
\* never two.
RearmInv == rearm # "idle" => rx = "none" /\ pc = "idle"

DeliveryInv == TypeInv /\ HeldInv /\ RearmInv /\ PathInv

\* Putting an element at the end of a queue, and taking one off its head.
LEMMA HasAppend ==
    ASSUME NEW q \in Seq(Nat), NEW x \in Nat
    PROVE  /\ \A m : Has(Append(q, x), m) <=> Has(q, m) \/ m = x
           /\ Once(q) /\ (x = Close \/ ~Has(q, x)) => Once(Append(q, x))
<1> DEFINE r == Append(q, x)
<1>1. /\ Len(r) = Len(q) + 1 /\ Len(q) \in Nat /\ r[Len(q) + 1] = x
      /\ \A k \in 1..Len(q) : r[k] = q[k]
  OBVIOUS
<1> HIDE DEF r
<1>2. ASSUME NEW m
      PROVE  Has(r, m) <=> Has(q, m) \/ m = x
  BY <1>1 DEF Has
<1>3. ASSUME Once(q), x = Close \/ ~Has(q, x)
      PROVE  Once(r)
  BY <1>1, <1>3 DEF Once, Has
<1> QED
  BY <1>2, <1>3 DEF r

\* What is left of a queue whose head is taken.
LEMMA HasTail ==
    ASSUME NEW q \in Seq(Nat), q # <<>>, Once(q)
    PROVE  /\ Head(q) \in Nat /\ Has(q, Head(q))
           /\ \A m : m # Close => (Has(Tail(q), m) <=> Has(q, m) /\ m # Head(q))
           /\ Once(Tail(q))
<1> DEFINE r == Tail(q)
<1>1. /\ Len(q) \in Nat \ {0} /\ Len(r) = Len(q) - 1 /\ Head(q) = q[1] /\ Head(q) \in Nat
      /\ \A k \in 1..(Len(q) - 1) : r[k] = q[k + 1]
  OBVIOUS
<1> HIDE DEF r
<1>2. Has(q, Head(q))
  BY <1>1 DEF Has
<1>3. ASSUME NEW m, m # Close
      PROVE  Has(r, m) <=> Has(q, m) /\ m # Head(q)
  <2>1. ASSUME Has(r, m)
        PROVE  Has(q, m) /\ m # Head(q)
    <3>1. PICK k \in 1..(Len(q) - 1) : q[k + 1] = m
      BY <1>1, <2>1 DEF Has
    <3>2. k + 1 \in 1..Len(q) /\ 1 \in 1..Len(q) /\ k + 1 # 1
      BY <1>1, <3>1
    <3>3. m # q[1]
      BY <1>3, <3>1, <3>2 DEF Once
    <3> QED
      BY <1>1, <3>1, <3>2, <3>3 DEF Has
  <2>2. ASSUME Has(q, m), m # Head(q)
        PROVE  Has(r, m)
    <3>1. PICK k \in 1..Len(q) : q[k] = m
      BY <2>2 DEF Has
    <3>2. k - 1 \in 1..Len(r) /\ r[k - 1] = m
      BY <1>1, <2>2, <3>1
    <3> QED
      BY <3>2 DEF Has
  <2> QED
    BY <2>1, <2>2
<1>4. Once(r)
  <2> SUFFICES ASSUME NEW i \in 1..Len(r), NEW j \in 1..Len(r), r[i] = r[j], r[i] # Close
               PROVE  i = j
    BY DEF Once
  <2>1. i \in 1..(Len(q) - 1) /\ j \in 1..(Len(q) - 1)
    BY <1>1
  <2>2. r[i] = q[i + 1] /\ r[j] = q[j + 1]
    BY <1>1, <2>1
  <2>3. i + 1 \in 1..Len(q) /\ j + 1 \in 1..Len(q)
    BY <1>1, <2>1
  <2>4. i + 1 = j + 1
    BY <2>2, <2>3 DEF Once
  <2> QED
    BY <2>4
<1> QED
  BY <1>1, <1>2, <1>3, <1>4 DEF r

\* The lost datagrams can be counted.
LEMMA LostFinite ==
    ASSUME TypeInv
    PROVE  IsFiniteSet(Lost) /\ Cardinality(Lost) \in Nat /\ droppedTotal \in Nat
<1>1. current \in Nat
  BY CurrentIsNat DEF TypeInv
<1>2. IsFiniteSet(1..current) /\ Lost \subseteq 1..current
  BY <1>1, FS_Interval DEF Lost
<1> QED
  BY <1>2, FS_Subset, FS_CardinalityType DEF TypeInv, Scalars

\* Where the stores are as they were, it is enough that a fresh datagram stays
\* fresh.
LEMMA PathQuiet ==
    ASSUME TypeInv, PathInv, UNCHANGED <<arrived, tasks, running, queue, taken>>,
           \A m \in 1..current : Fresh(m)' <=> Fresh(m),
           droppedTotal <= droppedTotal', droppedTotal' \in Nat
    PROVE  PathInv'
<1>0. current' = current /\ current \in Nat
  BY CurrentIsNat DEF current, TypeInv
<1>1. \A m \in 1..current : PathOf(m) => PathOf(m)'
  BY DEF PathOf, Waiting, Untaken, Underway
<1>2. \A t \in Threads : TaskOf(t) => TaskOf(t)'
  BY DEF TaskOf
<1>3. Lost' = Lost
  BY <1>0 DEF Lost, Waiting, Untaken
<1>4. Cardinality(Lost) \in Nat /\ droppedTotal \in Nat
  BY LostFinite
<1> QED
  BY <1>0, <1>1, <1>2, <1>3, <1>4 DEF PathInv, TakenType

\* What is lost grows only by a datagram that is refused.
LEMMA LostBounded ==
    ASSUME TypeInv, PathInv, droppedTotal' \in Nat,
           \/ Lost' \subseteq Lost /\ droppedTotal <= droppedTotal'
           \/ \E m : Lost' \subseteq Lost \cup {m} /\ droppedTotal' = droppedTotal + 1
    PROVE  Cardinality(Lost') <= droppedTotal'
<1>0. IsFiniteSet(Lost) /\ Cardinality(Lost) \in Nat /\ droppedTotal \in Nat
      /\ Cardinality(Lost) <= droppedTotal
  BY LostFinite DEF PathInv
<1>1. CASE Lost' \subseteq Lost /\ droppedTotal <= droppedTotal'
  <2>1. IsFiniteSet(Lost') /\ Cardinality(Lost') <= Cardinality(Lost)
    BY <1>0, <1>1, FS_Subset
  <2> QED
    BY <1>0, <1>1, <2>1, FS_CardinalityType
<1>2. ASSUME NEW m, Lost' \subseteq Lost \cup {m}, droppedTotal' = droppedTotal + 1
      PROVE  Cardinality(Lost') <= droppedTotal'
  <2>1. IsFiniteSet(Lost \cup {m}) /\ Cardinality(Lost \cup {m}) <= Cardinality(Lost) + 1
    <3>1. /\ IsFiniteSet(Lost \cup {m})
          /\ Cardinality(Lost \cup {m}) =
               IF m \in Lost THEN Cardinality(Lost) ELSE Cardinality(Lost) + 1
      BY <1>0, FS_AddElement, Zenon
    <3> QED
      BY <1>0, <3>1
  <2>2. IsFiniteSet(Lost') /\ Cardinality(Lost') <= Cardinality(Lost \cup {m})
    BY <1>2, <2>1, FS_Subset
  <2> QED
    BY <1>0, <1>2, <2>1, <2>2, FS_CardinalityType
<1> QED
  BY <1>1, <1>2

\* Every datagram has its place on the path at the start.
LEMMA PathInit == Init => PathInv
<1> SUFFICES ASSUME Init PROVE PathInv
  OBVIOUS
<1>1. current = 0 /\ droppedTotal = 0 /\ tasks = <<>> /\ queue = [s \in Sinks |-> <<>>]
      /\ running = [t \in Threads |-> Idle]
      /\ taken = [s \in Sinks |-> [m \in 0..MaxDatagrams |-> 0]]
  BY DEF Init, current
<1>2. TakenType
  BY <1>1, SwitchesAssumption DEF TakenType
<1>3. Once(tasks) /\ \A s \in Sinks : Once(queue[s])
  BY <1>1 DEF Once
<1>4. \A t \in Threads : TaskOf(t)
  BY <1>1 DEF TaskOf, Idle
<1>5. Lost = {}
  BY <1>1 DEF Lost
<1> QED
  BY <1>1, <1>2, <1>3, <1>4, <1>5, FS_EmptySet DEF PathInv

\* One lemma for each action that moves a datagram: it has one place on its
\* path before the step and one after it.
LEMMA PathArrive ==
    ASSUME DeliveryInv, Arrive
    PROVE  PathInv'
<1> USE DEF DeliveryInv
<1>0. /\ current \in Nat /\ tasks \in Seq(1..current)
      /\ running \in [Threads -> [msg: 0..current, todo: SUBSET Sinks]]
      /\ queue \in [Sinks -> Seq(0..current)]
  BY CurrentIsNat DEF TypeInv, Stores
<1>1. /\ current' = current + 1 /\ current' <= MaxDatagrams
      /\ \A m \in 1..current : arrived'[m] = arrived[m]
  <2>1. PICK e \in [size: Sizes, route: Routes] : arrived' = Append(arrived, e)
    BY DEF Arrive
  <2> QED
    BY <1>0, <2>1, SwitchesAssumption DEF TypeInv, Stores, current, Arrive
<1>2. /\ pc = "idle" /\ rx = "armed" /\ pc' = "idle" /\ rx' = "data"
      /\ UNCHANGED <<tasks, running, queue, taken, droppedTotal>>
  BY DEF Arrive, HeldInv, drops, pool, sinks
<1>3. /\ ~Has(tasks, current + 1) /\ \A s \in Sinks : ~Has(queue[s], current + 1)
      /\ \A t \in Threads : running[t].msg # current + 1
  BY <1>0 DEF Has
<1>4. \A m \in 1..current : ~Fresh(m) /\ ~Fresh(m)'
  BY <1>0, <1>1, <1>2 DEF Fresh
<1>5. TakenType'
  BY <1>0, <1>1, <1>2 DEF PathInv, TakenType
<1>6. ASSUME NEW m \in 1..current
      PROVE  PathOf(m)'
  <2>1. PathOf(m)
    BY DEF PathInv
  <2> QED
    BY <1>1, <1>2, <1>4, <2>1 DEF PathOf, Waiting, Untaken, Underway
<1>7. ASSUME NEW m \in Nat, m = current + 1
      PROVE  PathOf(m)'
  <2>1. \A s \in Sinks : taken[s][m] = 0
    BY <1>0, <1>1, <1>7, SwitchesAssumption DEF PathInv, TakenType
  <2>2. Untaken(m)'
    BY <1>2, <1>3, <1>7, <2>1 DEF Untaken
  <2> QED
    BY <1>2, <1>3, <1>7, <2>1, <2>2 DEF PathOf, Waiting
<1>8. \A m \in 1..current' : PathOf(m)'
  <2>1. \A m \in 1..current' : m \in Nat /\ (m \in 1..current \/ m = current + 1)
    BY <1>0, <1>1
  <2> QED
    BY <1>6, <1>7, <2>1
<1>9. ASSUME NEW t \in Threads
      PROVE  TaskOf(t)'
  <2>1. TaskOf(t) /\ (running[t].msg # 0 => running[t].msg \in 1..current)
    BY <1>0 DEF PathInv
  <2> QED
    BY <1>1, <1>2, <2>1 DEF TaskOf
<1>10. Lost' \subseteq Lost
  <2> SUFFICES ASSUME NEW m \in Lost'
               PROVE  m \in Lost
    OBVIOUS
  <2>1. m \in 1..current' /\ ~Waiting(m)'
    BY DEF Lost
  <2>2. m \in 1..current
    BY <1>0, <1>1, <1>2, <2>1 DEF Waiting, Fresh
  <2> QED
    BY <1>1, <1>2, <1>4, <2>2 DEF Lost, Waiting, Untaken
<1>11. Cardinality(Lost') <= droppedTotal'
  BY <1>2, <1>10, LostBounded DEF TypeInv, Scalars
<1> QED
  BY <1>2, <1>5, <1>8, <1>9, <1>11 DEF PathInv

LEMMA PathDrop ==
    ASSUME DeliveryInv, Drop
    PROVE  PathInv'
<1> USE DEF DeliveryInv
<1>0. current' = current /\ current \in Nat
  BY CurrentIsNat DEF TypeInv, current, Drop
<1>1. /\ UNCHANGED <<arrived, tasks, running, queue, taken>>
      /\ droppedTotal' = droppedTotal + 1 /\ droppedTotal \in Nat
      /\ pc = "admit" /\ pc' = "idle" /\ rx' # "data"
  BY DEF Drop, Refuse, Receive, pool, sinks, TypeInv, Scalars
<1>2. Fresh(current) /\ \A m : ~Fresh(m)' /\ (m # current => ~Fresh(m))
  BY <1>1 DEF Fresh
<1>3. \A m \in 1..current : PathOf(m)'
  <2> SUFFICES ASSUME NEW m \in 1..current PROVE PathOf(m)'
    BY <1>0
  <2>1. PathOf(m)
    BY DEF PathInv
  <2> QED
    BY <1>1, <1>2, <2>1 DEF PathOf, Waiting, Untaken, Underway
<1>4. \A t \in Threads : TaskOf(t)'
  BY <1>1 DEF PathInv, TaskOf
<1>5. Lost' \subseteq Lost \cup {current}
  BY <1>0, <1>1, <1>2 DEF Lost, Waiting, Untaken
<1>6. Cardinality(Lost') <= droppedTotal'
  BY <1>1, <1>5, LostBounded
<1> QED
  BY <1>0, <1>1, <1>3, <1>4, <1>6 DEF PathInv, TakenType

LEMMA PathAccept ==
    ASSUME DeliveryInv, Accept
    PROVE  PathInv'
<1> USE DEF DeliveryInv
<1>0. current' = current /\ current \in Nat /\ current > 0 /\ tasks \in Seq(Nat)
  <2>1. current \in Nat /\ tasks \in Seq(1..current)
    BY CurrentIsNat DEF TypeInv, Stores
  <2>2. tasks \in Seq(Nat)
    BY <2>1
  <2> QED
    BY <2>1, <2>2 DEF TypeInv, HasDatagram, current, Accept
<1>1. /\ UNCHANGED <<arrived, running, queue, taken, droppedTotal>>
      /\ tasks' = Append(tasks, current)
      /\ pc = "copy" /\ pc' = "idle" /\ rx' # "data"
  BY DEF Accept, Receive, drops, sinks
<1>2. Fresh(current) /\ \A m : ~Fresh(m)' /\ (m # current => ~Fresh(m))
  BY <1>1 DEF Fresh
<1>3. ~Has(tasks, current)
  BY <1>0, <1>2 DEF PathInv, PathOf
<1>4. Once(tasks') /\ \A m : Has(tasks', m) <=> Has(tasks, m) \/ m = current
  BY <1>0, <1>1, <1>3, HasAppend DEF PathInv
<1>5. \A m : Waiting(m)' <=> Waiting(m)
  BY <1>2, <1>4 DEF Waiting
<1>6. \A m \in 1..current : PathOf(m)'
  <2> SUFFICES ASSUME NEW m \in 1..current PROVE PathOf(m)'
    BY <1>0
  <2>1. PathOf(m)
    BY DEF PathInv
  <2>2. (Untaken(m)' <=> Untaken(m)) /\ (Underway(m)' <=> Underway(m))
    BY <1>1 DEF Untaken, Underway
  <2> QED
    BY <1>1, <1>2, <1>5, <2>1, <2>2 DEF PathOf
<1>7. \A t \in Threads : TaskOf(t)'
  BY <1>1 DEF PathInv, TaskOf
<1>8. Lost' \subseteq Lost
  BY <1>0, <1>1, <1>5 DEF Lost, Untaken
<1>9. Cardinality(Lost') <= droppedTotal'
  BY <1>1, <1>8, LostBounded DEF TypeInv, Scalars
<1> QED
  BY <1>0, <1>1, <1>4, <1>6, <1>7, <1>9 DEF PathInv, TakenType

LEMMA PathTakeTask ==
    ASSUME DeliveryInv, NEW t \in Threads, TakeTask(t)
    PROVE  PathInv'
<1> USE DEF DeliveryInv
<1>0. /\ current \in Nat /\ tasks \in Seq(1..current) /\ tasks \in Seq(Nat)
      /\ running \in [Threads -> [msg: 0..current, todo: SUBSET Sinks]]
  BY CurrentIsNat DEF TypeInv, Stores
<1>1. PICK m \in 1..current : m = Head(tasks) /\ tasks # <<>>
  BY <1>0 DEF TakeTask
<1>2. /\ running[t] = Idle /\ tasks' = Tail(tasks)
      /\ running' = [running EXCEPT ![t] = [msg |-> m, todo |-> arrived[m].route]]
      /\ UNCHANGED <<arrived, queue, taken, droppedTotal, pc, rx>>
  BY <1>1 DEF TakeTask, Matching, socket, drops, sinks
<1>3. /\ Has(tasks, m) /\ Once(tasks')
      /\ \A x : x # Close => (Has(tasks', x) <=> Has(tasks, x) /\ x # m)
  BY <1>0, <1>2, <1>1, HasTail DEF PathInv
<1>4. /\ running'[t].msg = m /\ running'[t].todo = arrived[m].route
      /\ \A u \in Threads : u # t => running'[u] = running[u]
      /\ running[t].msg = 0 /\ running[t].todo = {}
  BY <1>0, <1>2 DEF Idle
<1>5. /\ current' = current /\ \A x : Fresh(x)' <=> Fresh(x)
  BY <1>2 DEF current, Fresh
<1>6. Untaken(m) /\ ~Fresh(m)
  BY <1>1, <1>3 DEF PathInv, PathOf, Waiting
<1>7. ASSUME NEW x \in 1..current, x # m
      PROVE  PathOf(x)' /\ (Waiting(x)' <=> Waiting(x)) /\ (Untaken(x)' <=> Untaken(x))
  <2>1. x # 0 /\ x # Close /\ PathOf(x)
    BY <1>0 DEF PathInv, Close
  <2>2. Waiting(x)' <=> Waiting(x)
    BY <1>3, <1>5, <1>7, <2>1 DEF Waiting
  <2>3. Untaken(x)' <=> Untaken(x)
    BY <1>2, <1>4, <1>7, <2>1 DEF Untaken
  <2>4. Underway(x)' <=> Underway(x)
    BY <1>2, <1>4, <1>7, <2>1 DEF Underway
  <2> QED
    BY <1>2, <1>3, <1>5, <2>1, <2>2, <2>3, <2>4 DEF PathOf
<1>8. PathOf(m)' /\ ~Untaken(m)'
  <2>1. m # Close /\ PathOf(m)
    BY <1>0, <1>1 DEF PathInv, Close
  <2>2. ~Waiting(m)'
    BY <1>3, <1>5, <1>6, <2>1 DEF Waiting
  <2>3. Underway(m)' /\ ~Untaken(m)'
    BY <1>2, <1>4 DEF Underway, Untaken
  <2> QED
    BY <1>2, <1>5, <1>6, <2>1, <2>2, <2>3 DEF PathOf, Untaken
<1>9. ASSUME NEW u \in Threads
      PROVE  TaskOf(u)'
  <2>1. TaskOf(u) /\ running[u].msg # m
    BY <1>6 DEF PathInv, Untaken
  <2>2. arrived[m].route \subseteq Sinks
    BY <1>1, DatagramType, TypeParts DEF TypeInv
  <2>3. CASE u = t
    BY <1>2, <1>1, <1>4, <1>6, <2>2, <2>3 DEF TaskOf, Untaken
  <2>4. CASE u # t
    BY <1>2, <1>4, <2>1, <2>4 DEF TaskOf
  <2> QED
    BY <2>3, <2>4
<1>10. Lost' \subseteq Lost
  BY <1>2, <1>5, <1>7, <1>8 DEF Lost
<1>11. Cardinality(Lost') <= droppedTotal'
  BY <1>2, <1>10, LostBounded DEF TypeInv, Scalars
<1> QED
  BY <1>2, <1>3, <1>5, <1>7, <1>8, <1>9, <1>11 DEF PathInv, TakenType

LEMMA PathPost ==
    ASSUME DeliveryInv, NEW t \in Threads, Post(t)
    PROVE  PathInv'
<1> USE DEF DeliveryInv
<1>0. /\ current \in Nat /\ queue \in [Sinks -> Seq(0..current)]
      /\ \A s \in Sinks : queue[s] \in Seq(Nat)
      /\ running \in [Threads -> [msg: 0..current, todo: SUBSET Sinks]]
  BY CurrentIsNat DEF TypeInv, Stores
<1>1. PICK s \in running[t].todo : s = Min(running[t].todo)
  <2>1. running[t].todo \in SUBSET Nat /\ running[t].todo # {}
    BY <1>0, SinksAssumption DEF Post, Sinks
  <2>2. \E x \in running[t].todo : \A y \in running[t].todo : x <= y
    BY <2>1, LeastNat
  <2> QED
    BY <2>2 DEF Min
<1>2. PICK m \in 1..current : m = running[t].msg
  BY <1>0, <1>1 DEF PathInv, TaskOf
<1>3. /\ queue' = [queue EXCEPT ![s] = Append(@, m)]
      /\ running' = [running EXCEPT ![t].todo = @ \ {s}]
      /\ UNCHANGED <<arrived, tasks, taken, droppedTotal, pc, rx>>
  BY <1>1, <1>2 DEF Post, socket, drops
<1>4. /\ s \in Sinks /\ s \in arrived[m].route /\ ~Has(queue[s], m) /\ taken[s][m] = 0
  BY <1>0, <1>1, <1>2 DEF PathInv, TaskOf
<1>5. /\ queue'[s] = Append(queue[s], m) /\ \A z \in Sinks : z # s => queue'[z] = queue[z]
      /\ running'[t].todo = running[t].todo \ {s}
      /\ \A u \in Threads : /\ running'[u].msg = running[u].msg
                            /\ u # t => running'[u].todo = running[u].todo
  BY <1>0, <1>3, <1>4
<1>6. /\ Once(queue'[s]) /\ \A x : Has(queue'[s], x) <=> Has(queue[s], x) \/ x = m
  BY <1>0, <1>4, <1>5, HasAppend DEF PathInv
<1>7. \A z \in Sinks : Once(queue'[z])
  BY <1>5, <1>6 DEF PathInv
<1>8. /\ current' = current /\ \A x : (Fresh(x)' <=> Fresh(x)) /\ (Waiting(x)' <=> Waiting(x))
  BY <1>3 DEF current, Fresh, Waiting
<1>9. ASSUME NEW x \in 1..current, x # m
      PROVE  PathOf(x)' /\ (Untaken(x)' <=> Untaken(x))
  <2>1. PathOf(x) /\ \A z \in Sinks : Has(queue'[z], x) <=> Has(queue[z], x)
    BY <1>5, <1>6, <1>9 DEF PathInv
  <2>2. Untaken(x)' <=> Untaken(x)
    BY <1>3, <1>5, <2>1 DEF Untaken
  <2>3. Underway(x)' <=> Underway(x)
    <3>1. arrived[x].route \subseteq Sinks
      BY DatagramType, TypeParts DEF TypeInv
    <3> QED
      BY <1>2, <1>3, <1>5, <1>9, <2>1, <3>1 DEF Underway
  <2> QED
    BY <1>3, <1>8, <2>1, <2>2, <2>3 DEF PathOf
<1>10. PathOf(m)' /\ ~Untaken(m)'
  <2>1. PathOf(m) /\ ~Untaken(m)
    BY <1>2 DEF PathInv, Untaken
  <2>2. ~Untaken(m)'
    BY <1>2, <1>5 DEF Untaken
  <2>3. ~Waiting(m) /\ Underway(m)
    BY <2>1 DEF PathOf
  <2>4. arrived[m].route \subseteq Sinks
    BY DatagramType, TypeParts DEF TypeInv
  <2>5. Underway(m)'
    <3> SUFFICES ASSUME NEW z \in arrived[m].route
                 PROVE  \/ Has(queue'[z], m) \/ taken[z][m] = 1
                        \/ \E u \in Threads : running'[u].msg = m /\ z \in running'[u].todo
      BY <1>3 DEF Underway
    <3>1. CASE z = s
      BY <1>6, <3>1
    <3>2. CASE z # s
      BY <1>5, <2>3, <2>4, <3>2 DEF Underway
    <3> QED
      BY <3>1, <3>2
  <2> QED
    BY <1>3, <1>4, <1>5, <1>6, <1>8, <2>1, <2>2, <2>3, <2>5 DEF PathOf
<1>11. ASSUME NEW u \in Threads
       PROVE  TaskOf(u)'
  <2>1. TaskOf(u) /\ TaskOf(t)
    BY DEF PathInv
  <2>2. CASE u = t
    <3>1. \A z \in running'[t].todo : z \in running[t].todo /\ z # s /\ z \in Sinks
      BY <1>0, <1>5
    <3> QED
      BY <1>2, <1>3, <1>5, <2>1, <2>2, <3>1 DEF TaskOf
  <2>3. CASE u # t
    <3>1. running[u].msg # 0 => running[u].msg # m
      BY <1>2, <2>1, <2>3 DEF TaskOf
    <3>2. \A z \in running[u].todo : z \in Sinks
      BY <1>0
    <3> QED
      BY <1>3, <1>5, <1>6, <2>1, <2>3, <3>1, <3>2 DEF TaskOf
  <2> QED
    BY <2>2, <2>3
<1>12. Lost' \subseteq Lost
  BY <1>3, <1>8, <1>9, <1>10 DEF Lost
<1>13. Cardinality(Lost') <= droppedTotal'
  BY <1>3, <1>12, LostBounded DEF TypeInv, Scalars
<1> QED
  BY <1>3, <1>7, <1>8, <1>9, <1>10, <1>11, <1>13 DEF PathInv, TakenType

LEMMA PathTaskDone ==
    ASSUME DeliveryInv, NEW t \in Threads, TaskDone(t)
    PROVE  PathInv'
<1> USE DEF DeliveryInv
<1>0. /\ current \in Nat
      /\ running \in [Threads -> [msg: 0..current, todo: SUBSET Sinks]]
  BY CurrentIsNat DEF TypeInv, Stores
<1>1. PICK m \in 1..current : m = running[t].msg
  BY <1>0 DEF TaskDone
<1>2. /\ running' = [running EXCEPT ![t] = Idle] /\ running[t].todo = {}
      /\ UNCHANGED <<arrived, tasks, queue, taken, droppedTotal, pc, rx>>
  BY DEF TaskDone, socket, drops, sinks
<1>3. /\ running'[t].msg = 0 /\ running'[t].todo = {}
      /\ \A u \in Threads : u # t => running'[u] = running[u]
  BY <1>0, <1>2 DEF Idle
<1>4. \A u \in Threads : running[u].msg = m => u = t
  BY <1>1 DEF PathInv, TaskOf
<1>5. /\ current' = current /\ \A x : (Fresh(x)' <=> Fresh(x)) /\ (Waiting(x)' <=> Waiting(x))
  BY <1>2 DEF current, Fresh, Waiting
<1>6. ASSUME NEW x \in 1..current
      PROVE  /\ PathOf(x)'
             /\ Untaken(x)' /\ ~Untaken(x) => x = m
             /\ x = m => Underway(x)'
  <2>1. PathOf(x) /\ x # 0
    BY <1>0 DEF PathInv
  <2>2. (Untaken(x) => Untaken(x)') /\ (Untaken(x)' /\ ~Untaken(x) => x = m)
    BY <1>1, <1>2, <1>3, <2>1 DEF Untaken
  <2>3. Underway(x) => Underway(x)'
    BY <1>2, <1>3 DEF Underway
  <2>4. x = m => ~Untaken(x)
    BY <1>1 DEF Untaken
  <2>5. x = m => Underway(x)'
    BY <2>1, <2>3, <2>4 DEF PathOf
  <2> QED
    BY <1>2, <1>5, <2>1, <2>2, <2>3, <2>5 DEF PathOf
<1>7. ASSUME NEW u \in Threads
      PROVE  TaskOf(u)'
  <2>1. TaskOf(u)
    BY DEF PathInv
  <2> QED
    BY <1>2, <1>3, <2>1 DEF TaskOf
<1>8. Lost' \subseteq Lost
  <2> SUFFICES ASSUME NEW x \in Lost'
               PROVE  x \in Lost
    OBVIOUS
  <2>1. x \in 1..current /\ Untaken(x)' /\ ~Waiting(x) /\ arrived[x].route # {}
    BY <1>2, <1>5 DEF Lost
  <2>2. ~Underway(x)'
    <3>1. PICK z \in arrived[x].route : TRUE
      BY <2>1
    <3>2. z \in Sinks
      BY <2>1, DatagramType, TypeParts DEF TypeInv
    <3> QED
      BY <1>2, <2>1, <3>1, <3>2 DEF Underway, Untaken
  <2>3. Untaken(x)
    BY <1>6, <2>1, <2>2
  <2> QED
    BY <2>1, <2>3 DEF Lost
<1>9. Cardinality(Lost') <= droppedTotal'
  BY <1>2, <1>8, LostBounded DEF TypeInv, Scalars
<1> QED
  BY <1>2, <1>5, <1>6, <1>7, <1>9 DEF PathInv, TakenType

LEMMA PathSinkStep ==
    ASSUME DeliveryInv, NEW s \in Sinks, SinkStep(s)
    PROVE  PathInv'
<1> USE DEF DeliveryInv
<1>0. /\ current \in Nat /\ current <= MaxDatagrams /\ queue \in [Sinks -> Seq(0..current)]
      /\ \A z \in Sinks : queue[z] \in Seq(Nat)
      /\ running \in [Threads -> [msg: 0..current, todo: SUBSET Sinks]]
      /\ taken \in [Sinks -> [0..MaxDatagrams -> Nat]]
  BY CurrentIsNat DEF TypeInv, Stores, PathInv, TakenType
<1>1. PICK m \in 0..current : m = Head(queue[s]) /\ queue[s] # <<>>
  <2>1. queue[s] # <<>>
    BY SinkStepRuns DEF Run
  <2>2. PICK q \in Seq(0..current) : q = queue[s] /\ q # <<>>
    BY <1>0, <2>1
  <2>3. Head(q) \in 0..current
    BY <2>2, HeadTailProperties
  <2> QED
    BY <2>2, <2>3
<1>2. /\ queue' = [queue EXCEPT ![s] = Tail(@)]
      /\ taken' = [taken EXCEPT ![s][m] = @ + 1]
      /\ UNCHANGED <<arrived, tasks, running, droppedTotal, pc, rx>>
  BY <1>1, SinkStepRuns DEF Run, socket, drops, pool
<1>3. /\ queue'[s] = Tail(queue[s]) /\ \A z \in Sinks : z # s => queue'[z] = queue[z]
      /\ taken'[s][m] = taken[s][m] + 1
      /\ \A z \in Sinks, x \in 0..MaxDatagrams : z # s \/ x # m => taken'[z][x] = taken[z][x]
      /\ taken' \in [Sinks -> [0..MaxDatagrams -> Nat]]
  <2>1. m \in 0..MaxDatagrams /\ MaxDatagrams \in Nat
    BY <1>0, SwitchesAssumption
  <2>2. queue'[s] = Tail(queue[s]) /\ \A z \in Sinks : z # s => queue'[z] = queue[z]
    BY <1>0, <1>2
  <2>3. PICK f \in [0..MaxDatagrams -> Nat] : f = taken[s]
    BY <1>0
  <2>4. PICK g : g = [f EXCEPT ![m] = @ + 1]
    OBVIOUS
  <2>5. g \in [0..MaxDatagrams -> Nat] /\ g[m] = f[m] + 1
        /\ \A x \in 0..MaxDatagrams : x # m => g[x] = f[x]
    BY <2>1, <2>3, <2>4
  <2>6. taken' = [taken EXCEPT ![s] = g]
    BY <1>0, <1>2, <2>3, <2>4
  <2>7. taken'[s] = g /\ \A z \in Sinks : z # s => taken'[z] = taken[z]
    BY <1>0, <2>6
  <2>8. taken' \in [Sinks -> [0..MaxDatagrams -> Nat]]
    BY <1>0, <2>5, <2>6
  <2> QED
    BY <2>2, <2>3, <2>5, <2>7, <2>8
<1>4. /\ Has(queue[s], m) /\ Once(queue'[s])
      /\ \A x : x # Close => (Has(queue'[s], x) <=> Has(queue[s], x) /\ x # m)
  BY <1>0, <1>1, <1>3, HasTail DEF PathInv
<1>5. \A z \in Sinks : Once(queue'[z])
  BY <1>3, <1>4 DEF PathInv
<1>6. /\ current' = current /\ \A x : (Fresh(x)' <=> Fresh(x)) /\ (Waiting(x)' <=> Waiting(x))
  BY <1>2 DEF current, Fresh, Waiting
<1>7. TakenType'
  <2>1. \A z \in Sinks, x \in (current + 1)..MaxDatagrams : taken'[z][x] = taken[z][x]
    BY <1>0, <1>3, SwitchesAssumption
  <2> QED
    BY <1>3, <1>6, <2>1 DEF PathInv, TakenType
<1>8. ASSUME NEW x \in 1..current, x # m
      PROVE  PathOf(x)' /\ (Untaken(x)' <=> Untaken(x))
  <2>1. x # Close /\ x \in 0..MaxDatagrams /\ PathOf(x)
    BY <1>0, SwitchesAssumption DEF PathInv, Close
  <2>2. \A z \in Sinks : /\ Has(queue'[z], x) <=> Has(queue[z], x)
                         /\ taken'[z][x] = taken[z][x]
    BY <1>3, <1>4, <1>8, <2>1
  <2>3. arrived[x].route \subseteq Sinks
    BY DatagramType, TypeParts DEF TypeInv
  <2>4. (Untaken(x)' <=> Untaken(x)) /\ (Underway(x)' <=> Underway(x))
    BY <1>2, <2>2, <2>3 DEF Untaken, Underway
  <2> QED
    BY <1>2, <1>6, <2>1, <2>2, <2>4 DEF PathOf
<1>9. ASSUME m \in 1..current
      PROVE  PathOf(m)' /\ ~Untaken(m)'
  <2>1. m # Close /\ m \in 0..MaxDatagrams /\ PathOf(m)
    BY <1>0, <1>9, SwitchesAssumption DEF PathInv, Close
  <2>2. /\ taken[s][m] = 0 /\ s \in arrived[m].route /\ ~Waiting(m) /\ Underway(m)
    BY <1>4, <2>1 DEF PathOf, Untaken
  <2>3. taken'[s][m] = 1 /\ ~Has(queue'[s], m)
    BY <1>3, <1>4, <2>1, <2>2
  <2>4. \A z \in Sinks : z # s => /\ Has(queue'[z], m) <=> Has(queue[z], m)
                                  /\ taken'[z][m] = taken[z][m]
    BY <1>3, <2>1
  <2>5. arrived[m].route \subseteq Sinks
    BY <1>9, DatagramType, TypeParts DEF TypeInv
  <2>6. ~Untaken(m)' /\ Underway(m)'
    BY <1>2, <2>2, <2>3, <2>4, <2>5 DEF Untaken, Underway
  <2> QED
    BY <1>2, <1>6, <2>1, <2>2, <2>3, <2>4, <2>6 DEF PathOf
<1>10. ASSUME NEW u \in Threads
       PROVE  TaskOf(u)'
  <2>1. TaskOf(u) /\ running[u].msg \in 0..current /\ running[u].todo \subseteq Sinks
    BY <1>0 DEF PathInv
  <2> SUFFICES ASSUME running[u].msg # 0, NEW z \in running[u].todo
               PROVE  ~Has(queue'[z], running[u].msg) /\ taken'[z][running[u].msg] = 0
    BY <1>2, <2>1 DEF TaskOf
  <2>2. ~Has(queue[z], running[u].msg) /\ taken[z][running[u].msg] = 0
    BY <2>1 DEF TaskOf
  <2>3. z # s \/ running[u].msg # m
    BY <1>4, <2>2
  <2>4. running[u].msg \in 0..MaxDatagrams /\ running[u].msg # Close
    BY <1>0, <2>1, SwitchesAssumption DEF Close
  <2> QED
    BY <1>3, <1>4, <2>1, <2>2, <2>3, <2>4
<1>11. Lost' \subseteq Lost
  BY <1>2, <1>6, <1>8, <1>9 DEF Lost
<1>12. Cardinality(Lost') <= droppedTotal'
  BY <1>2, <1>11, LostBounded DEF TypeInv, Scalars
<1> QED
  BY <1>2, <1>5, <1>6, <1>7, <1>8, <1>9, <1>10, <1>12 DEF PathInv

LEMMA PathCloseSink ==
    ASSUME DeliveryInv, NEW z \in Sinks, CloseSink(z)
    PROVE  PathInv'
<1> USE DEF DeliveryInv
<1>0. /\ current \in Nat /\ queue \in [Sinks -> Seq(0..current)]
      /\ \A s \in Sinks : queue[s] \in Seq(Nat)
  BY CurrentIsNat DEF TypeInv, Stores
<1>1. /\ queue'[z] = Append(queue[z], Close) /\ \A s \in Sinks : s # z => queue'[s] = queue[s]
      /\ UNCHANGED <<arrived, tasks, running, taken, droppedTotal, pc, rx>>
  BY <1>0 DEF CloseSink, CloseBehind, socket, drops, pool
<1>2. ASSUME NEW s \in Sinks
      PROVE  /\ Once(queue'[s])
             /\ \A x : x # Close => (Has(queue'[s], x) <=> Has(queue[s], x))
  <2>1. Close \in Nat /\ queue[s] \in Seq(Nat) /\ Once(queue[s])
    BY <1>0 DEF Close, PathInv
  <2>2. PICK q \in Seq(Nat) : q = queue[s]
    BY <2>1
  <2>3. /\ \A x : Has(Append(q, Close), x) <=> Has(q, x) \/ x = Close
        /\ Once(Append(q, Close))
    BY <2>1, <2>2, HasAppend
  <2> QED
    BY <1>1, <2>1, <2>2, <2>3
<1>3. /\ current' = current /\ \A x : (Fresh(x)' <=> Fresh(x)) /\ (Waiting(x)' <=> Waiting(x))
  BY <1>1 DEF current, Fresh, Waiting
<1>4. ASSUME NEW x \in 1..current
      PROVE  PathOf(x)' /\ (Untaken(x)' <=> Untaken(x))
  <2>1. PathOf(x) /\ x # Close /\ arrived[x].route \subseteq Sinks
    BY <1>0, DatagramType, TypeParts DEF PathInv, TypeInv, Close
  <2>2. \A s \in Sinks : Has(queue'[s], x) <=> Has(queue[s], x)
    BY <1>2, <2>1
  <2>3. (Untaken(x)' <=> Untaken(x)) /\ (Underway(x)' <=> Underway(x))
    BY <1>1, <2>1, <2>2 DEF Untaken, Underway
  <2> QED
    BY <1>1, <1>3, <2>1, <2>2, <2>3 DEF PathOf
<1>5. ASSUME NEW t \in Threads
      PROVE  TaskOf(t)'
  <2>1. TaskOf(t) /\ running[t].todo \subseteq Sinks
    BY DEF PathInv, TypeInv, Stores
  <2> QED
    BY <1>1, <1>2, <2>1 DEF TaskOf, Close
<1>6. Lost' \subseteq Lost
  BY <1>1, <1>3, <1>4 DEF Lost
<1>7. Cardinality(Lost') <= droppedTotal'
  BY <1>1, <1>6, LostBounded DEF TypeInv, Scalars
<1> QED
  BY <1>1, <1>2, <1>3, <1>4, <1>5, <1>7 DEF PathInv, TakenType

\* Every step keeps each accepted datagram on its path.
LEMMA PathStep ==
    ASSUME DeliveryInv, ~CanThrow, [Next]_vars
    PROVE  PathInv'
<1>1. CASE \/ ReceiveError \/ OnReceiveError \/ OnReceive \/ Charge \/ Recharge
           \/ RearmExpires \/ RearmHandler \/ StopHandler \/ ReportIntervalPasses
           \/ (\E m \in Datagrams : Release(m)) \/ Exit \/ UNCHANGED vars
           \/ Signal \/ StopServer \/ \E s \in Sinks : SinkRecovers(s) \/ SinkEnds(s)
  <2>1. UNCHANGED <<arrived, tasks, running, queue, taken, droppedTotal>>
    BY <1>1
    DEF ReceiveError, OnReceiveError, OnReceive, Charge, Recharge, RearmExpires, RearmHandler,
        StopHandler, ReportIntervalPasses, Release, Exit, vars, drops, pool, sinks, Signal,
        StopServer, SinkRecovers, SinkEnds
  <2>2. (rx' = "data" \/ pc' # "idle") <=> (rx = "data" \/ pc # "idle")
    BY <1>1
    DEF ReceiveError, OnReceiveError, OnReceive, Charge, Recharge, RearmExpires, RearmHandler,
        StopHandler, ReportIntervalPasses, Release, Exit, vars, socket, Receive, DeliveryInv,
        HeldInv, RearmInv, Signal, StopServer, SinkRecovers, SinkEnds
  <2>3. \A m \in 1..current : Fresh(m)' <=> Fresh(m)
    BY <2>1, <2>2 DEF Fresh, current
  <2>4. droppedTotal \in Nat
    BY DEF DeliveryInv, TypeInv, Scalars
  <2> QED
    BY <2>1, <2>3, <2>4, PathQuiet DEF DeliveryInv
<1>2. ~OnReceiveThrows /\ ~OnStopThrows /\ \A t \in Threads : ~TaskThrows(t)
  BY DEF OnReceiveThrows, OnStopThrows, TaskThrows
<1> QED
  BY <1>1, <1>2, PathArrive, PathDrop, PathAccept, PathTakeTask, PathPost, PathTaskDone,
     PathSinkStep, PathCloseSink
  DEF Next, SocketStep, TaskStep, OnStop

\* While a re-arm is due no receive is armed and none is being handled.
LEMMA RearmStep == RearmInv /\ [Next]_vars => RearmInv'
BY SinkStepRuns, OnStopFrame
   DEF RearmInv, Next, Arrive, ReceiveError, SocketStep, OnReceiveError, OnReceive, Charge,
       Recharge, Accept, Drop, Refuse, Receive, OnReceiveThrows, HandlerThrows, PostThrows,
       RearmHandler, StopHandler, RearmExpires, ReportIntervalPasses, TaskStep, TakeTask, Post,
       TaskDone, TaskThrows, Run, SinkRecovers, SinkEnds, Release, Exit, vars, socket

\* A server that has exited holds nothing and has charged nothing.
LEMMA ExitStep ==
    ASSUME TypeInv, ExitInv, [Next]_vars
    PROVE  ExitInv'
<1>1. CASE exited
  <2>1. UNCHANGED <<charged, rx, pc, rearm, stop, signal, tasks, running, queue, sink>>
    <3>1. /\ charged = {} /\ rx = "none" /\ pc = "idle" /\ rearm = "idle" /\ stop # "posted"
          /\ tasks = <<>> /\ \A t \in Threads : running[t].msg = 0 /\ running[t].todo = {}
          /\ signal # "handling"
          /\ \A s \in Sinks : queue[s] = <<>> /\ sink[s] \notin {"down", "ending"}
      BY <1>1 DEF ExitInv, Idle
    <3>2. \A s \in Sinks : ~SinkStep(s) /\ ~SinkRecovers(s) /\ ~SinkEnds(s)
      BY <3>1, SinkStepRuns DEF Run, SinkRecovers, SinkEnds
    <3>3. ~Signal /\ ~OnStop
      BY <1>1, <3>1 DEF Signal, OnStop, StopServer, CloseSink, OnStopThrows
    <3> QED
      BY <1>1, <3>1, <3>2, <3>3
      DEF Next, Arrive, ReceiveError, SocketStep, OnReceiveError, OnReceive, Charge, Recharge,
          Accept, Drop, OnReceiveThrows, HandlerThrows, PostThrows, RearmHandler, StopHandler,
          RearmExpires, ReportIntervalPasses, TaskStep, TakeTask, Post, TaskDone, TaskThrows,
          Release, Exit, vars, socket, pool, sinks, ending
  <2> QED
    BY <1>1, <2>1 DEF ExitInv
<1>2. CASE Exit
  <2>1. UNCHANGED <<charged, rx, pc, rearm, stop, signal, tasks, running, queue, sink>>
    BY <1>2 DEF Exit, socket, pool, sinks
  <2> QED
    BY <1>2, <2>1 DEF ExitInv, Exit, Work, Retrying
<1>3. CASE ~exited /\ UNCHANGED exited
  BY <1>3 DEF ExitInv
<1> QED
  BY <1>1, <1>2, <1>3, SinkStepRuns, OnStopFrame
  DEF Next, Arrive, ReceiveError, SocketStep, OnReceiveError, OnReceive, Charge, Recharge,
      Accept, Drop, OnReceiveThrows, RearmHandler, StopHandler, RearmExpires,
      ReportIntervalPasses, TaskStep, TakeTask, Post, TaskDone, TaskThrows, Run, SinkRecovers,
      SinkEnds, Release, vars, ending

-----------------------------------------------------------------------------
(***************************************************************************)
(* What was dispatched before the stop came is ahead of every close.       *)
(***************************************************************************)

\* Message m is ahead of a close in the sequence q.
Ahead(q, m) == \A i, j \in 1..Len(q) : q[i] = m /\ q[j] = Close => i < j

\* Until onStop has come to it, a sink is not closed and its close is not
\* queued; what was dispatched before is ahead of the close.
EarlyInv ==
    /\ signal = "waiting" => posts = 0 /\ early = {}
    /\ \A s \in Sinks : posts <= s => ~Has(queue[s], Close) /\ ~Closed(s) /\ late[s] = {}
    /\ \A m \in early : ~Waiting(m) /\ \A t \in Threads : running[t].msg # m
    /\ \A m \in early, s \in Sinks :
        /\ m \notin late[s]
        /\ Has(queue[s], m) => ~Closed(s) /\ Ahead(queue[s], m)

\* Another handler at the end of the queue overtakes nothing.
LEMMA AheadAppend ==
    ASSUME NEW q \in Seq(Nat), NEW x \in Nat, NEW m, m # Close, m # x, Ahead(q, m)
    PROVE  Ahead(Append(q, x), m)
<1> DEFINE r == Append(q, x)
<1>1. /\ Len(r) = Len(q) + 1 /\ Len(q) \in Nat /\ r[Len(q) + 1] = x
      /\ \A k \in 1..Len(q) : r[k] = q[k]
  OBVIOUS
<1> HIDE DEF r
<1>2. Ahead(r, m)
  BY <1>1 DEF Ahead
<1> QED
  BY <1>2 DEF r

\* Nor does taking one off the head; behind a close at the head there is nothing.
LEMMA AheadTail ==
    ASSUME NEW q \in Seq(Nat), q # <<>>, NEW m, m # Close, Ahead(q, m)
    PROVE  Ahead(Tail(q), m) /\ (Head(q) = Close => ~Has(q, m))
<1> DEFINE r == Tail(q)
<1>1. /\ Len(q) \in Nat \ {0} /\ Len(r) = Len(q) - 1 /\ Head(q) = q[1]
      /\ \A k \in 1..(Len(q) - 1) : r[k] = q[k + 1]
  OBVIOUS
<1> HIDE DEF r
<1>2. Ahead(r, m)
  <2> SUFFICES ASSUME NEW i \in 1..Len(r), NEW j \in 1..Len(r), r[i] = m, r[j] = Close
               PROVE  i < j
    BY DEF Ahead
  <2>0. i \in 1..(Len(q) - 1) /\ j \in 1..(Len(q) - 1)
    BY <1>1
  <2>1. i + 1 \in 1..Len(q) /\ j + 1 \in 1..Len(q) /\ q[i + 1] = m /\ q[j + 1] = Close
    <3>1. q[i + 1] = m /\ q[j + 1] = Close
      BY <1>1, <2>0
    <3>2. i + 1 \in 1..Len(q) /\ j + 1 \in 1..Len(q)
      BY <1>1, <2>0
    <3> QED
      BY <3>1, <3>2
  <2>2. i + 1 < j + 1
    BY <2>1 DEF Ahead
  <2> QED
    BY <2>2
<1>3. Head(q) = Close => ~Has(q, m)
  BY <1>1 DEF Ahead, Has
<1> QED
  BY <1>2, <1>3 DEF r

\* Where the sinks and the tasks are as they were, it is enough that nothing
\* that had been dispatched becomes fresh.
LEMMA EarlyQuiet ==
    ASSUME EarlyInv, UNCHANGED <<tasks, running, queue, late, sink, early, posts, signal>>,
           \A m \in early : Fresh(m)' => Fresh(m)
    PROVE  EarlyInv'
  BY DEF EarlyInv, Waiting, Closed

\* One lemma for each action that moves a datagram or a close.
LEMMA EarlyPost ==
    ASSUME DeliveryInv, EarlyInv, NEW t \in Threads, Post(t)
    PROVE  EarlyInv'
<1> USE DEF DeliveryInv
<1>0. /\ current \in Nat /\ queue \in [Sinks -> Seq(0..current)]
      /\ \A s \in Sinks : queue[s] \in Seq(Nat)
      /\ running \in [Threads -> [msg: 0..current, todo: SUBSET Sinks]]
      /\ early \subseteq 1..current
  BY CurrentIsNat DEF TypeInv, Stores
<1>1. PICK x \in 1..current : x = running[t].msg
  BY <1>0 DEF PathInv, TaskOf, Post
<1>2. PICK z : z = Min(running[t].todo)
  OBVIOUS
<1>3. /\ queue' = [queue EXCEPT ![z] = Append(@, x)]
      /\ running' = [running EXCEPT ![t].todo = @ \ {z}]
      /\ UNCHANGED <<arrived, tasks, late, sink, early, posts, signal, pc, rx>>
  BY <1>1, <1>2 DEF Post, socket, ending
<1>4. /\ \A u \in Threads : running'[u].msg = running[u].msg
      /\ \A s \in Sinks : queue'[s] = queue[s] \/ queue'[s] = Append(queue[s], x)
  BY <1>0, <1>3
<1>5. x \in Nat /\ x # Close /\ x \notin early
  BY <1>0, <1>1 DEF EarlyInv, Close
<1>6. ASSUME NEW s \in Sinks
      PROVE  /\ Has(queue'[s], Close) => Has(queue[s], Close)
             /\ \A m \in early : Has(queue'[s], m) => Has(queue[s], m)
             /\ \A m \in early : Ahead(queue[s], m) => Ahead(queue'[s], m)
  <2>1. PICK q \in Seq(Nat) : q = queue[s]
    BY <1>0
  <2>2. \A m \in early : m # Close /\ m # x
    BY <1>0, <1>5 DEF Close
  <2>3. /\ Has(Append(q, x), Close) => Has(q, Close)
        /\ \A m \in early : Has(Append(q, x), m) => Has(q, m)
    BY <1>5, <2>2, HasAppend
  <2>4. \A m \in early : Ahead(q, m) => Ahead(Append(q, x), m)
    BY <1>5, <2>2, AheadAppend
  <2> QED
    BY <1>4, <2>1, <2>3, <2>4
<1>7. \A m : Waiting(m)' => Waiting(m)
  BY <1>3 DEF Waiting, Fresh, current
<1> QED
  BY <1>3, <1>4, <1>6, <1>7 DEF EarlyInv, Closed

LEMMA EarlyTakeTask ==
    ASSUME DeliveryInv, EarlyInv, NEW t \in Threads, TakeTask(t)
    PROVE  EarlyInv'
<1> USE DEF DeliveryInv
<1>0. /\ current \in Nat /\ tasks \in Seq(1..current) /\ tasks \in Seq(Nat)
      /\ running \in [Threads -> [msg: 0..current, todo: SUBSET Sinks]]
      /\ early \subseteq 1..current
  BY CurrentIsNat DEF TypeInv, Stores
<1>1. /\ tasks # <<>> /\ tasks' = Tail(tasks)
      /\ running' = [running EXCEPT ![t] = [msg |-> Head(tasks), todo |-> Matching(Head(tasks))]]
      /\ UNCHANGED <<arrived, queue, late, sink, early, posts, signal, pc, rx>>
  BY DEF TakeTask, socket, sinks, ending
<1>2. Has(tasks, Head(tasks)) /\ \A m : m # Close => (Has(tasks', m) => Has(tasks, m))
  BY <1>0, <1>1, HasTail DEF PathInv
<1>3. Head(tasks) \notin early
  BY <1>2 DEF EarlyInv, Waiting
<1>4. \A u \in Threads : running'[u].msg = running[u].msg \/ running'[u].msg = Head(tasks)
  BY <1>0, <1>1
<1>5. \A m \in early : ~Waiting(m)' /\ \A u \in Threads : running'[u].msg # m
  <2>1. \A m \in early : m # Close
    BY <1>0 DEF Close
  <2> QED
    BY <1>1, <1>2, <1>3, <1>4, <2>1 DEF EarlyInv, Waiting, Fresh, current
<1> QED
  BY <1>1, <1>5 DEF EarlyInv, Closed

LEMMA EarlySinkStep ==
    ASSUME DeliveryInv, EarlyInv, NEW z \in Sinks, SinkStep(z)
    PROVE  EarlyInv'
<1> USE DEF DeliveryInv
<1>0. /\ current \in Nat /\ queue \in [Sinks -> Seq(0..current)]
      /\ \A s \in Sinks : queue[s] \in Seq(Nat)
      /\ late \in [Sinks -> SUBSET (1..current)]
      /\ sink \in [Sinks -> {"up", "down", "ending", "closed"}]
      /\ early \subseteq 1..current
  BY CurrentIsNat DEF TypeInv, Stores
<1>1. PICK q \in Seq(Nat) : q = queue[z] /\ q # <<>>
  BY <1>0, SinkStepRuns DEF Run
<1>2. /\ queue' = [queue EXCEPT ![z] = Tail(@)]
      /\ UNCHANGED <<arrived, tasks, running, early, posts, signal, pc, rx>>
  BY SinkStepRuns DEF Run, socket, pool
<1>3. queue'[z] = Tail(q) /\ \A s \in Sinks : s # z => queue'[s] = queue[s]
  BY <1>0, <1>1, <1>2
<1>4. /\ \A s \in Sinks : s # z => sink'[s] = sink[s] /\ late'[s] = late[s]
      /\ Head(q) # Close => (Closed(z)' => Closed(z))
      /\ late'[z] = late[z] \/ (Closed(z) /\ late'[z] = late[z] \cup {Head(q)})
  BY <1>0, <1>1, SinkStepRuns DEF Closed
<1>5. /\ Has(q, Head(q)) /\ (Has(Tail(q), Close) => Has(q, Close))
      /\ \A m \in early : m # Close /\ (Has(Tail(q), m) => Has(q, m))
  <2>1. Once(q)
    BY <1>1 DEF PathInv
  <2>2. \A m \in early : m # Close
    BY <1>0 DEF Close
  <2>3. Has(Tail(q), Close) => Has(q, Close)
    <3>1. /\ Len(q) \in Nat \ {0} /\ Len(Tail(q)) = Len(q) - 1
          /\ \A k \in 1..(Len(q) - 1) : Tail(q)[k] = q[k + 1]
      BY <1>1
    <3> QED
      BY <3>1 DEF Has
  <2> QED
    BY <1>1, <2>1, <2>2, <2>3, HasTail
<1>6. ASSUME posts <= z
      PROVE  ~Has(queue'[z], Close) /\ ~Closed(z)' /\ late'[z] = {}
  <2>1. ~Has(q, Close) /\ ~Closed(z) /\ late[z] = {}
    BY <1>1, <1>6 DEF EarlyInv
  <2> QED
    BY <1>3, <1>4, <1>5, <2>1
<1>7. ASSUME NEW m \in early
      PROVE  /\ m \notin late'[z]
             /\ Has(queue'[z], m) => ~Closed(z)' /\ Ahead(queue'[z], m)
  <2>1. m \notin late[z] /\ (Has(q, m) => ~Closed(z) /\ Ahead(q, m))
    BY <1>1 DEF EarlyInv
  <2>2. m \notin late'[z]
    BY <1>4, <1>5, <2>1
  <2>3. ASSUME Has(Tail(q), m)
        PROVE  ~Closed(z)' /\ Ahead(Tail(q), m)
    <3>1. Has(q, m) /\ ~Closed(z) /\ Ahead(q, m) /\ m # Close
      BY <1>5, <2>1, <2>3
    <3>2. Ahead(Tail(q), m) /\ Head(q) # Close
      BY <1>1, <3>1, AheadTail
    <3> QED
      BY <1>4, <3>1, <3>2
  <2> QED
    BY <1>3, <2>2, <2>3
<1>8. \A m : Waiting(m)' => Waiting(m)
  BY <1>2 DEF Waiting, Fresh, current
<1>9. \A s \in Sinks : s # z => (Closed(s)' <=> Closed(s))
  BY <1>4 DEF Closed
<1> QED
  BY <1>2, <1>3, <1>4, <1>6, <1>7, <1>8, <1>9 DEF EarlyInv

LEMMA EarlyCloseSink ==
    ASSUME DeliveryInv, EarlyInv, NEW z \in Sinks, CloseSink(z)
    PROVE  EarlyInv'
<1> USE DEF DeliveryInv
<1>0. /\ current \in Nat /\ queue \in [Sinks -> Seq(0..current)]
      /\ \A s \in Sinks : queue[s] \in Seq(Nat)
      /\ early \subseteq 1..current /\ z \in Nat /\ Sinks \subseteq Nat
  BY CurrentIsNat, SinksAssumption DEF TypeInv, Stores, Sinks
<1>1. /\ queue' = [queue EXCEPT ![z] = Append(@, Close)] /\ posts = z /\ posts' = z + 1
      /\ signal = "handling" /\ signal' # "waiting"
      /\ UNCHANGED <<arrived, tasks, running, late, sink, early, pc, rx>>
  BY DEF CloseSink, CloseBehind, socket, pool
<1>2. queue'[z] = Append(queue[z], Close) /\ \A s \in Sinks : s # z => queue'[s] = queue[s]
  BY <1>0, <1>1
<1>3. PICK q \in Seq(Nat) : q = queue[z]
  BY <1>0
<1>4. ~Has(q, Close) /\ ~Closed(z)
  BY <1>0, <1>1, <1>3 DEF EarlyInv
<1>5. ASSUME NEW m \in early
      PROVE  Has(queue'[z], m) => ~Closed(z) /\ Ahead(queue'[z], m)
  <2>1. m # Close /\ Close \in Nat
    BY <1>0 DEF Close
  <2>2. ASSUME Has(Append(q, Close), m)
        PROVE  Ahead(Append(q, Close), m)
    <3>1. Has(q, m)
      BY <2>1, <2>2, HasAppend
    <3>2. Ahead(q, m)
      BY <1>3, <3>1 DEF EarlyInv
    <3> QED
      BY <2>1, <3>2, AheadAppend
  <2> QED
    BY <1>2, <1>3, <1>4, <2>2
<1>6. \A m : Waiting(m)' => Waiting(m)
  BY <1>1 DEF Waiting, Fresh, current
<1>7. \A s \in Sinks : posts' <= s => s # z /\ posts <= s
  BY <1>0, <1>1
<1> QED
  BY <1>1, <1>2, <1>5, <1>6, <1>7 DEF EarlyInv, Closed

LEMMA EarlySignal ==
    ASSUME DeliveryInv, EarlyInv, Signal
    PROVE  EarlyInv'
<1>1. /\ posts = 0 /\ signal' = "handling" /\ early' = Dispatched
      /\ UNCHANGED <<arrived, tasks, running, queue, late, sink, posts, pc, rx>>
  BY DEF Signal, EarlyInv, socket, pool, sinks
<1>2. \A s \in Sinks : ~Has(queue[s], Close) /\ ~Closed(s) /\ late[s] = {}
  BY <1>1, SinksAssumption DEF EarlyInv, Sinks
<1>3. \A m \in Dispatched : ~Waiting(m) /\ \A t \in Threads : running[t].msg # m
  BY DEF Dispatched, Waiting, Fresh, Has
<1>4. \A m : Waiting(m)' => Waiting(m)
  BY <1>1 DEF Waiting, Fresh, current
<1>5. \A s \in Sinks : \A m : Ahead(queue[s], m)
  BY <1>2 DEF Ahead, Has
<1> QED
  BY <1>1, <1>2, <1>3, <1>4, <1>5 DEF EarlyInv, Closed

\* Every step keeps what was dispatched before the stop ahead of the closes.
LEMMA EarlyStep ==
    ASSUME DeliveryInv, EarlyInv, ~CanThrow, [Next]_vars
    PROVE  EarlyInv'
<1>0. current \in Nat /\ early \subseteq 1..current
  BY CurrentIsNat DEF DeliveryInv, TypeInv, Stores
<1>1. CASE Arrive
  <2>1. current' = current + 1
    BY <1>1 DEF Arrive, current, DeliveryInv, TypeInv, Stores
  <2>2. \A m \in early : ~Fresh(m)'
    BY <1>0, <2>1 DEF Fresh
  <2>3. UNCHANGED <<tasks, running, queue, late, sink, early, posts, signal>>
    BY <1>1 DEF Arrive, pool, sinks, ending
  <2> QED
    BY <2>2, <2>3, EarlyQuiet
<1>2. CASE \/ ReceiveError \/ OnReceiveError \/ OnReceive \/ Charge \/ Recharge \/ Drop
           \/ RearmExpires \/ RearmHandler \/ StopHandler \/ ReportIntervalPasses
           \/ (\E m \in Datagrams : Release(m)) \/ Exit \/ UNCHANGED vars
  <2>1. UNCHANGED <<arrived, tasks, running, queue, late, sink, early, posts, signal>>
    BY <1>2
    DEF ReceiveError, OnReceiveError, OnReceive, Charge, Recharge, Drop, RearmExpires,
        RearmHandler, StopHandler, ReportIntervalPasses, Release, Exit, vars, pool, sinks, ending
  <2>2. (rx' = "data" \/ pc' # "idle") => (rx = "data" \/ pc # "idle")
    BY <1>2
    DEF ReceiveError, OnReceiveError, OnReceive, Charge, Recharge, Drop, Refuse, RearmExpires,
        RearmHandler, StopHandler, ReportIntervalPasses, Release, Exit, vars, socket, Receive
  <2>3. \A m \in early : Fresh(m)' => Fresh(m)
    BY <2>1, <2>2 DEF Fresh, current
  <2> QED
    BY <2>1, <2>3, EarlyQuiet
<1>3. CASE Accept
  <2>1. /\ tasks' = Append(tasks, current) /\ pc = "copy" /\ pc' = "idle" /\ rx' # "data"
        /\ UNCHANGED <<arrived, running, queue, late, sink, early, posts, signal>>
    BY <1>3 DEF Accept, Receive, sinks, ending
  <2>2. tasks \in Seq(Nat)
    BY <1>0 DEF DeliveryInv, TypeInv, Stores
  <2>3. \A m : Has(tasks', m) <=> Has(tasks, m) \/ m = current
    BY <1>0, <2>1, <2>2, HasAppend
  <2>4. Fresh(current) /\ \A m : ~Fresh(m)'
    BY <2>1 DEF Fresh
  <2>5. \A m : Waiting(m)' => Waiting(m)
    BY <2>3, <2>4 DEF Waiting
  <2> QED
    BY <2>1, <2>5 DEF EarlyInv, Closed
<1>4. ASSUME NEW t \in Threads, TaskDone(t)
      PROVE  EarlyInv'
  <2>1. /\ running' = [running EXCEPT ![t] = Idle]
        /\ UNCHANGED <<arrived, tasks, queue, late, sink, early, posts, signal, pc, rx>>
    BY <1>4 DEF TaskDone, socket, sinks, ending
  <2>2. \A u \in Threads : running'[u].msg = running[u].msg \/ running'[u].msg = 0
    BY <2>1 DEF Idle, DeliveryInv, TypeInv, Stores
  <2>3. \A m : Waiting(m)' => Waiting(m)
    BY <2>1 DEF Waiting, Fresh, current
  <2>4. \A m \in early : m # 0
    BY <1>0
  <2> QED
    BY <2>1, <2>2, <2>3, <2>4 DEF EarlyInv, Closed
<1>5. ASSUME NEW s \in Sinks, SinkRecovers(s) \/ SinkEnds(s)
      PROVE  EarlyInv'
  <2>1. UNCHANGED <<arrived, tasks, running, queue, late, early, posts, signal, pc, rx>>
    BY <1>5 DEF SinkRecovers, SinkEnds, socket, pool, ending
  <2>2. \A z \in Sinks : Closed(z)' => Closed(z)
    BY <1>5 DEF SinkRecovers, SinkEnds, Closed, DeliveryInv, TypeInv, Stores
  <2>3. \A m : Waiting(m)' => Waiting(m)
    BY <2>1 DEF Waiting, Fresh, current
  <2> QED
    BY <2>1, <2>2, <2>3 DEF EarlyInv
<1>6. CASE StopServer
  <2>1. /\ posts = 0 /\ posts' = 1 /\ signal = "handling"
        /\ UNCHANGED <<arrived, tasks, running, queue, late, sink, early, signal, pc, rx>>
    BY <1>6 DEF StopServer, socket, pool, sinks
  <2>2. \A s \in Sinks : posts <= s
    BY <2>1, SinksAssumption DEF Sinks
  <2>3. \A m : Waiting(m)' => Waiting(m)
    BY <2>1 DEF Waiting, Fresh, current
  <2> QED
    BY <2>1, <2>2, <2>3 DEF EarlyInv, Closed
<1>7. ~OnReceiveThrows /\ ~OnStopThrows /\ \A t \in Threads : ~TaskThrows(t)
  BY DEF OnReceiveThrows, OnStopThrows, TaskThrows
<1> QED
  BY <1>1, <1>2, <1>3, <1>4, <1>5, <1>6, <1>7, EarlyPost, EarlyTakeTask, EarlySinkStep,
     EarlyCloseSink, EarlySignal
  DEF Next, SocketStep, TaskStep, OnStop

\* Where no allocation fails: when run() has returned, every datagram that was
\* not refused has been through each sink it is routed to exactly once and
\* through no other, no more were refused than were counted, the budget is free
\* again, and none that a sink dropped behind its close had been dispatched
\* before the stop came.
THEOREM EverythingDelivered ==
    ASSUME ~CanThrow
    PROVE  Spec => []AllDelivered
<1> DEFINE IInv == BudgetInv /\ RearmInv /\ PathInv /\ ExitInv /\ EarlyInv
<1>1. Init => IInv
  <2>1. Init => EarlyInv
    BY DEF Init, EarlyInv, Has, Closed
  <2> QED
    BY <2>1, BudgetInit, PathInit DEF Init, ExitInv, RearmInv
<1>2. IInv /\ [Next]_vars => IInv'
  BY PathStep, EarlyStep, ExitStep, RearmStep, TypeInvStep, HeldStep, LoadStep, DropStep
  DEF BudgetInv, DeliveryInv
<1>3. ASSUME IInv
      PROVE  AllDelivered
  <2> SUFFICES ASSUME exited PROVE AllDelivered
    BY DEF AllDelivered
  <2>1. /\ charged = {} /\ rx = "none" /\ pc = "idle" /\ tasks = <<>>
        /\ \A t \in Threads : running[t].msg = 0 /\ running[t].todo = {}
        /\ \A s \in Sinks : queue[s] = <<>>
    BY <1>3 DEF ExitInv, Idle
  <2>2. inFlight = 0
    <3>1. Len(arrived) \in Nat
      BY <1>3, CurrentIsNat DEF BudgetInv, TypeInv, current
    <3> QED
      BY <1>3, <2>1, <3>1, BytesEmpty DEF BudgetInv, LoadInv, Load
  <2>3. ASSUME NEW m \in 1..current
        PROVE  /\ ~Waiting(m) /\ PathOf(m) /\ arrived[m].route \subseteq Sinks
               /\ \A s \in Sinks : ~Has(queue[s], m)
               /\ \A t \in Threads : running[t].msg # m
    <3>1. current \in Nat /\ m # 0
      BY <1>3, CurrentIsNat DEF BudgetInv, TypeInv
    <3>2. PathOf(m) /\ arrived[m].route \subseteq Sinks
      BY <1>3, DatagramType, TypeParts DEF BudgetInv, PathInv, TypeInv
    <3> QED
      BY <2>1, <3>1, <3>2 DEF Waiting, Fresh, Has
  <2> DEFINE refused == {m \in 1..current : \A s \in Sinks : taken[s][m] = 0}
  <2>4. ASSUME NEW m \in (1..current) \ refused, NEW s \in Sinks
        PROVE  taken[s][m] = IF s \in arrived[m].route THEN 1 ELSE 0
    <3>1. ~Untaken(m)
      BY DEF Untaken
    <3>2. Underway(m)
      BY <2>3, <3>1 DEF PathOf
    <3>3. s \in arrived[m].route => taken[s][m] = 1
      BY <2>3, <3>2 DEF Underway
    <3>4. taken[s][m] \in {0, 1} /\ (taken[s][m] = 1 => s \in arrived[m].route)
      BY <2>3 DEF PathOf
    <3> QED
      BY <3>3, <3>4
  <2>5. {m \in refused : arrived[m].route # {}} \subseteq Lost
    BY <2>3 DEF Lost, Untaken
  <2>6. Cardinality({m \in refused : arrived[m].route # {}}) <= droppedTotal
    <3>1. /\ IsFiniteSet(Lost) /\ Cardinality(Lost) \in Nat /\ droppedTotal \in Nat
          /\ Cardinality(Lost) <= droppedTotal
      BY <1>3, LostFinite DEF BudgetInv, PathInv
    <3>2. PICK R : R = {m \in refused : arrived[m].route # {}}
      OBVIOUS
    <3>3. IsFiniteSet(R) /\ Cardinality(R) <= Cardinality(Lost)
      BY <2>5, <3>1, <3>2, FS_Subset
    <3>4. Cardinality(R) \in Nat
      BY <3>3, FS_CardinalityType
    <3>5. Cardinality(R) <= droppedTotal
      BY <3>1, <3>3, <3>4
    <3> QED
      BY <3>2, <3>5
  <2>7. \A s \in Sinks : late[s] \cap early = {}
    BY <1>3 DEF EarlyInv
  <2> HIDE DEF IInv
  <2> QED
    BY <2>2, <2>4, <2>6, <2>7 DEF AllDelivered
<1> HIDE DEF IInv
<1> QED
  BY <1>1, <1>2, <1>3, PTL DEF Spec
=============================================================================
