--------------------------- MODULE ForwarderProofs ---------------------------
(***************************************************************************)
(* The safety properties of Forwarder for any number of messages, any      *)
(* delays, sizes and facility lists.                                       *)
(***************************************************************************)
EXTENDS Forwarder, TLAPS

\* The counters are numbers.
Counters == matched \in Nat /\ sent \in Nat /\ lines \in Nat /\ droppedUnresolved \in Nat

\* The stop as the handlers see it is the stop as its caller sees it: it was
\* posted once, and m_stopping is set exactly when its handler has run.
StopInv ==
    /\ strand \in Seq(Message \cup {Stop})
    /\ posted \in [messages: Int, stop: BOOLEAN]
    /\ stopping \in BOOLEAN
    /\ stopping <=> Stopped
    /\ ~posted.stop => \A k \in 1..Len(strand) : strand[k] # Stop
    /\ \A j, k \in 1..Len(strand) : strand[j] = Stop /\ strand[k] = Stop => j = k
    /\ posted.stop => built

LookupStates == {"none", "queued", "running", "found", "failed"}
TimerStates == {"idle", "armed", "expired", "cancelled"}

\* One search at a time.  A search belongs to a forwarder that is built and on;
\* the stop leaves no timer armed, and only the stop cancels one.
SearchInv ==
    /\ lookup \in LookupStates /\ timer \in TimerStates
    /\ lookup = "none" \/ timer = "idle"
    /\ Searching => built /\ host # "off"
    /\ ~built => ~resolved
    /\ built /\ host # "off" /\ ~stopping => (Searching <=> ~resolved)
    /\ stopping => timer # "armed"
    /\ timer = "cancelled" => stopping

\* The one line about a failure: a first lookup is under way only before it, a
\* retry and what a retry began only after it.
ReportInv ==
    /\ failureLines \in {0, 1}
    /\ failureReported <=> failureLines = 1
    /\ ~built => failureLines = 0
    /\ lookup # "none" => (first <=> failureLines = 0)
    /\ timer # "idle" => failureLines = 1

-----------------------------------------------------------------------------
LEMMA MessageIsNotStop ==
    ASSUME NEW m \in Message
    PROVE  m # Stop
<1>1. DOMAIN m = {"facility", "size"}
  BY DEF Message
<1>2. DOMAIN Stop = {"stop"}
  BY DEF Stop
<1>3. "stop" \notin {"facility", "size"}
  OBVIOUS
<1> QED
  BY <1>1, <1>2, <1>3

\* Every message that passed the lists was sent, reported or is still counted.
THEOREM DropsAlwaysAccounted == Spec => []DropsAccounted
<1> DEFINE Inv == Counters /\ DropsAccounted
<1>1. Init => Inv
  BY DEF Init, Counters, DropsAccounted
<1>2. Inv /\ [Next]_vars => Inv'
  <2> SUFFICES ASSUME Inv, [Next]_vars PROVE Inv'
    OBVIOUS
  <2> USE DEF Counters, DropsAccounted
  <2>1. CASE UNCHANGED <<matched, sent, lines, droppedUnresolved>>
    BY <2>1
  <2>2. CASE AdoptEndpoint /\ UNCHANGED traffic
    BY <2>2 DEF AdoptEndpoint, ReportDropped, traffic
  <2>3. CASE DoForward
    <3> DEFINE takes == host # "off" /\ FacilityMatches(Head(strand).facility)
    <3>0. /\ matched' = matched + (IF takes THEN 1 ELSE 0)
          /\ droppedUnresolved' = droppedUnresolved + (IF takes /\ ~resolved THEN 1 ELSE 0)
          /\ sent' = IF takes /\ resolved THEN sent + 1 ELSE sent
          /\ lines' = lines
      BY <2>3 DEF DoForward
    <3> HIDE DEF takes
    <3>1. CASE takes /\ resolved
      BY <3>0, <3>1
    <3>2. CASE takes /\ ~resolved
      BY <3>0, <3>2
    <3>3. CASE ~takes
      BY <3>0, <3>3
    <3> QED
      BY <3>1, <3>2, <3>3
  <2>4. CASE Construct
    BY <2>4, <2>1, <2>2 DEF Construct, UseEndpoint, OpenFails, traffic
  <2>5. CASE Lookup
    BY <2>5, <2>1, <2>2 DEF Lookup, LookupRuns, LookupReturns, LookupIgnored, LookupFound,
                            LookupFailed, UseEndpoint, OpenFails, traffic
  <2>6. CASE RetryExpires \/ RetryHandler \/ Forward \/ PostStop \/ StopHandler \/ WorksChanges
    BY <2>6, <2>1 DEF RetryExpires, RetryHandler, Forward, PostStop, StopHandler,
                      WorksChanges, traffic
  <2>7. CASE UNCHANGED vars
    BY <2>7, <2>1 DEF vars
  <2> QED
    BY <2>3, <2>4, <2>5, <2>6, <2>7 DEF Next, Posted
<1>3. Inv => DropsAccounted
  OBVIOUS
<1> QED
  BY <1>1, <1>2, <1>3, PTL DEF Spec

-----------------------------------------------------------------------------
LEMMA StopInit == Init => StopInv
<1> SUFFICES ASSUME Init PROVE StopInv
  OBVIOUS
<1>1. posted \in [messages: Int, stop: BOOLEAN] /\ ~posted.stop
  BY DEF Init
<1>2. strand = <<>> /\ stopping \in BOOLEAN /\ ~stopping
  BY DEF Init
<1> QED
  BY <1>1, <1>2 DEF StopInv, Stopped

LEMMA StopStep == StopInv /\ [Next]_vars => StopInv'
<1> SUFFICES ASSUME StopInv, [Next]_vars PROVE StopInv'
  OBVIOUS
<1>1. CASE UNCHANGED <<strand, posted, stopping, built>>
  BY <1>1 DEF StopInv, Stopped
<1>2. CASE Construct
  <2>1. ~posted.stop /\ UNCHANGED <<strand, posted, stopping>>
    BY <1>2 DEF Construct, StopInv
  <2> QED
    BY <2>1 DEF StopInv, Stopped
<1>3. CASE Forward
  <2> PICK m \in Message : strand' = Append(strand, m)
    BY <1>3 DEF Forward
  <2>1. m # Stop
    BY MessageIsNotStop
  <2>2. /\ UNCHANGED <<stopping, built>>
        /\ posted'.stop = posted.stop
        /\ posted' \in [messages: Int, stop: BOOLEAN]
    BY <1>3 DEF Forward, StopInv
  <2>3. /\ strand' \in Seq(Message \cup {Stop})
        /\ Len(strand') = Len(strand) + 1
        /\ \A k \in 1..Len(strand) : strand'[k] = strand[k]
        /\ strand'[Len(strand) + 1] = m
    BY DEF StopInv
  <2> QED
    BY <2>1, <2>2, <2>3 DEF StopInv, Stopped
<1>4. CASE PostStop
  <2>1. /\ UNCHANGED <<stopping, built>> /\ built
        /\ ~posted.stop /\ posted'.stop
        /\ posted' \in [messages: Int, stop: BOOLEAN]
    BY <1>4 DEF PostStop, StopInv
  <2>2. /\ strand' \in Seq(Message \cup {Stop})
        /\ Len(strand') = Len(strand) + 1
        /\ \A k \in 1..Len(strand) : strand'[k] = strand[k]
        /\ strand'[Len(strand) + 1] = Stop
    BY <1>4 DEF PostStop, StopInv
  <2> QED
    BY <2>1, <2>2 DEF StopInv, Stopped
<1>5. CASE StopHandler
  <2>1. /\ UNCHANGED <<posted, built>>
        /\ stopping' = TRUE
        /\ strand # <<>> /\ Head(strand) = Stop /\ strand' = Tail(strand)
    BY <1>5 DEF StopHandler, MarkStopping
  <2>2. /\ strand' \in Seq(Message \cup {Stop})
        /\ Len(strand') = Len(strand) - 1 /\ Len(strand) \in Nat \ {0}
        /\ \A k \in 1..Len(strand') : strand'[k] = strand[k + 1]
        /\ strand[1] = Stop
    BY <2>1 DEF StopInv
  <2>3. posted.stop /\ \A k \in 1..Len(strand') : strand'[k] # Stop
    BY <2>2 DEF StopInv
  <2> QED
    BY <2>1, <2>2, <2>3 DEF StopInv, Stopped
<1>6. CASE DoForward
  <2>1. /\ UNCHANGED <<posted, built, stopping>>
        /\ strand # <<>> /\ Head(strand) # Stop /\ strand' = Tail(strand)
    BY <1>6 DEF DoForward
  <2>2. /\ strand' \in Seq(Message \cup {Stop})
        /\ Len(strand') = Len(strand) - 1 /\ Len(strand) \in Nat \ {0}
        /\ \A k \in 1..Len(strand') : strand'[k] = strand[k + 1]
        /\ strand[1] # Stop
    BY <2>1 DEF StopInv
  <2>3. Stopped' <=> Stopped
    <3>1. ASSUME Stopped' PROVE Stopped
      <4> SUFFICES ASSUME NEW k \in 1..Len(strand) PROVE strand[k] # Stop
        BY <2>1, <3>1 DEF Stopped
      <4>1. CASE k = 1
        BY <2>2, <4>1
      <4>2. CASE k # 1
        <5>1. k - 1 \in 1..Len(strand') /\ (k - 1) + 1 = k
          BY <2>2, <4>2
        <5>2. strand'[k - 1] = strand[k]
          BY <2>2, <5>1
        <5> QED
          BY <3>1, <5>1, <5>2 DEF Stopped
      <4> QED
        BY <4>1, <4>2
    <3>2. ASSUME Stopped PROVE Stopped'
      BY <2>1, <2>2, <3>2 DEF Stopped
    <3> QED
      BY <3>1, <3>2
  <2> QED
    BY <2>1, <2>2, <2>3 DEF StopInv
<1> QED
  BY <1>1, <1>2, <1>3, <1>4, <1>5, <1>6
     DEF Next, Lookup, LookupRuns, LookupReturns, LookupIgnored, LookupFound, LookupFailed,
         RetryExpires, RetryHandler, Posted, WorksChanges, vars

-----------------------------------------------------------------------------
LEMMA SearchInit == Init => SearchInv
  BY DEF Init, SearchInv, Searching, LookupStates, TimerStates

LEMMA SearchStep == StopInv /\ SearchInv /\ [Next]_vars => SearchInv'
<1> SUFFICES ASSUME StopInv, SearchInv, [Next]_vars PROVE SearchInv'
  OBVIOUS
<1> USE DEF SearchInv, Searching, LookupStates, TimerStates
<1>0. ~built => ~stopping
  BY DEF StopInv, Stopped
<1>1. CASE Construct
  <2>1. lookup = "none" /\ timer = "idle" /\ ~resolved /\ ~built /\ ~stopping
    BY <1>1, <1>0 DEF Construct
  <2>2. built' /\ UNCHANGED <<host, stopping>>
    BY <1>1 DEF Construct, target
  <2>3. CASE host = "off"
    BY <1>1, <2>1, <2>2, <2>3 DEF Construct, search
  <2>4. CASE host = "literal"
    <3>1. lookup' = "none"
      BY <1>1, <2>1, <2>4 DEF Construct
    <3>2. \/ resolved' /\ timer' = "idle"
          \/ ~resolved' /\ timer' = "armed"
      BY <1>1, <2>1, <2>4 DEF Construct, UseEndpoint, AdoptEndpoint, OpenFails,
                              ScheduleResolveRetry
    <3> QED
      BY <2>1, <2>2, <2>4, <3>1, <3>2
  <2>5. CASE host = "name"
    <3>1. lookup' = "queued" /\ timer' = "idle" /\ ~resolved'
      BY <1>1, <2>1, <2>5 DEF Construct, StartResolve
    <3> QED
      BY <2>1, <2>2, <2>5, <3>1
  <2> QED
    BY <1>1, <2>3, <2>4, <2>5 DEF Construct
<1>2. CASE LookupRuns \/ LookupReturns
  <2>1. /\ lookup # "none" /\ lookup' \in LookupStates \ {"none"}
        /\ UNCHANGED <<host, built, timer, resolved, stopping>>
    BY <1>2 DEF LookupRuns, LookupReturns, target
  <2> QED
    BY <2>1
<1>3. CASE LookupIgnored
  <2>1. /\ stopping /\ lookup' = "none"
        /\ UNCHANGED <<host, built, timer, resolved, stopping>>
    BY <1>3 DEF LookupIgnored, target
  <2> QED
    BY <2>1
<1>4. CASE LookupFound \/ LookupFailed
  <2>1. /\ ~stopping /\ lookup # "none" /\ lookup' = "none"
        /\ UNCHANGED <<host, built, stopping>>
    BY <1>4 DEF LookupFound, LookupFailed, target
  <2>2. timer = "idle" /\ built /\ host # "off" /\ ~resolved
    BY <2>1
  <2>3. \/ resolved' /\ timer' = "idle"
        \/ ~resolved' /\ timer' = "armed"
    BY <1>4, <2>1, <2>2 DEF LookupFound, LookupFailed, UseEndpoint, AdoptEndpoint,
                            OpenFails, ScheduleResolveRetry
  <2> QED
    BY <2>1, <2>2, <2>3
<1>5. CASE RetryExpires
  <2>1. /\ timer = "armed" /\ timer' = "expired"
        /\ UNCHANGED <<host, built, lookup, resolved, stopping>>
    BY <1>5 DEF RetryExpires, target
  <2> QED
    BY <2>1
<1>6. CASE RetryHandler
  <2>1. /\ timer \in {"expired", "cancelled"} /\ timer' = "idle"
        /\ UNCHANGED <<host, built, resolved, stopping>>
    BY <1>6 DEF RetryHandler, target
  <2>2. CASE RetryWanted
    <3>1. lookup' = "queued" /\ ~stopping
      BY <1>6, <2>2 DEF RetryHandler, StartResolve, RetryWanted
    <3> QED
      BY <2>1, <3>1
  <2>3. CASE ~RetryWanted
    <3>1. lookup' = lookup /\ stopping
      BY <1>6, <2>1, <2>3 DEF RetryHandler, RetryWanted
    <3> QED
      BY <2>1, <3>1
  <2> QED
    BY <2>2, <2>3
<1>7. CASE StopHandler
  <2>1. /\ stopping' = TRUE
        /\ timer' = IF timer = "armed" THEN "cancelled" ELSE timer
        /\ lookup' = IF lookup = "queued" THEN "failed" ELSE lookup
        /\ UNCHANGED <<host, built, resolved>>
    BY <1>7 DEF StopHandler, MarkStopping, target
  <2> QED
    BY <2>1
<1>8. CASE UNCHANGED <<host, built, lookup, timer, resolved, stopping>>
  BY <1>8
<1> QED
  BY <1>1, <1>2, <1>3, <1>4, <1>5, <1>6, <1>7, <1>8
     DEF Next, Lookup, Forward, PostStop, Posted, DoForward, WorksChanges, vars, target, search

LEMMA ReportInit == Init => ReportInv
  BY DEF Init, ReportInv

LEMMA ReportStep == SearchInv /\ ReportInv /\ [Next]_vars => ReportInv'
<1> SUFFICES ASSUME SearchInv, ReportInv, [Next]_vars PROVE ReportInv'
  OBVIOUS
<1> USE DEF ReportInv
<1>0. lookup = "none" \/ timer = "idle"
  BY DEF SearchInv
<1>1. CASE Construct
  <2>1. lookup = "none" /\ timer = "idle" /\ failureLines = 0 /\ built'
    BY <1>1 DEF Construct, SearchInv, Searching
  <2>2. \/ lookup' = "none" /\ timer' = "idle" /\ UNCHANGED report
        \/ lookup' = "queued" /\ first' = TRUE /\ timer' = "idle" /\ UNCHANGED report
        \/ lookup' = "none" /\ failureReported' = TRUE /\ failureLines' = 1
    BY <1>1, <2>1 DEF Construct, UseEndpoint, AdoptEndpoint, OpenFails, ReportOpenFailure,
                      StartResolve, search
  <2> QED
    BY <2>1, <2>2 DEF report
<1>2. CASE LookupRuns \/ LookupReturns \/ LookupIgnored
  <2>1. lookup # "none" /\ UNCHANGED <<first, timer, built, failureReported, failureLines>>
    BY <1>2 DEF LookupRuns, LookupReturns, LookupIgnored, report
  <2> QED
    BY <2>1
<1>3. CASE LookupFound
  <2>1. timer = "idle" /\ lookup' = "none" /\ UNCHANGED built
    BY <1>0, <1>3 DEF LookupFound
  <2>2. \/ timer' = "idle" /\ UNCHANGED report
        \/ failureReported' = TRUE /\ failureLines' = 1
    BY <1>3, <2>1 DEF LookupFound, UseEndpoint, AdoptEndpoint, OpenFails, ReportOpenFailure
  <2>3. built
    BY <1>3 DEF LookupFound, SearchInv, Searching
  <2> QED
    BY <2>1, <2>2, <2>3 DEF report
<1>4. CASE LookupFailed
  <2>1. lookup # "none" /\ lookup' = "none" /\ UNCHANGED built
    BY <1>4 DEF LookupFailed
  <2>2. failureReported' /\ failureLines' = 1
    BY <1>4, <2>1 DEF LookupFailed, report
  <2>3. built
    BY <2>1 DEF SearchInv, Searching
  <2> QED
    BY <2>1, <2>2, <2>3
<1>5. CASE RetryExpires
  BY <1>5 DEF RetryExpires, report
<1>6. CASE RetryHandler
  <2>1. /\ timer # "idle" /\ timer' = "idle"
        /\ UNCHANGED <<built, failureReported, failureLines>>
    BY <1>6 DEF RetryHandler, report
  <2>2. \/ lookup' = "queued" /\ first' = FALSE
        \/ UNCHANGED <<lookup, first>>
    BY <1>6 DEF RetryHandler, StartResolve
  <2> QED
    BY <2>1, <2>2
<1>7. CASE StopHandler
  <2>1. /\ timer' # "idle" => timer # "idle"
        /\ lookup' # "none" => lookup # "none"
        /\ UNCHANGED <<first, built, failureReported, failureLines>>
    BY <1>7 DEF StopHandler, report
  <2> QED
    BY <2>1
<1>8. CASE UNCHANGED <<built, lookup, first, timer, failureReported, failureLines>>
  BY <1>8
<1> QED
  BY <1>1, <1>2, <1>3, <1>4, <1>5, <1>6, <1>7, <1>8
     DEF Next, Lookup, Forward, PostStop, Posted, DoForward, WorksChanges, vars, search, report

\* The invariant the theorems below are read off.
IInv == StopInv /\ SearchInv /\ ReportInv

LEMMA IInvAlways == Spec => []IInv
<1>1. Init => IInv
  BY StopInit, SearchInit, ReportInit DEF IInv
<1>2. IInv /\ [Next]_vars => IInv'
  BY StopStep, SearchStep, ReportStep DEF IInv
<1> QED
  BY <1>1, <1>2, PTL DEF Spec

-----------------------------------------------------------------------------
\* An enabled forwarder without a destination has exactly one lookup or retry
\* on its way until the stop, and one with a destination has none.
THEOREM AlwaysOneSearch == Spec => []OneSearch
<1>1. IInv => OneSearch
  BY DEF IInv, StopInv, SearchInv, OneSearch
<1> QED
  BY IInvAlways, <1>1, PTL

\* The failure to find a destination is in the system log once.
THEOREM FailureAlwaysReportedOnce == Spec => []FailureReportedOnce
<1>1. IInv => FailureReportedOnce
  BY DEF IInv, ReportInv, FailureReportedOnce
<1> QED
  BY IInvAlways, <1>1, PTL

\* The stop is final: no step begins a lookup or a retry after it.
THEOREM StopIsFinal == Spec => NothingStartsAfterStop
<1>1. IInv /\ [Next]_vars =>
        [Stopped => ~(lookup = "none" /\ lookup' # "none") /\ timer' # "armed"]_vars
  <2> SUFFICES ASSUME IInv, Next, Stopped
               PROVE  ~(lookup = "none" /\ lookup' # "none") /\ timer' # "armed"
    OBVIOUS
  <2>1. stopping /\ built /\ timer # "armed"
    BY DEF IInv, StopInv, SearchInv, Stopped
  <2>2. timer' = timer \/ timer' \in {"expired", "idle", "cancelled"}
    BY <2>1 DEF Next, Construct, Lookup, LookupRuns, LookupReturns, LookupIgnored,
                LookupFound, LookupFailed, RetryExpires, RetryHandler, Forward, PostStop,
                Posted, StopHandler, DoForward, WorksChanges, search
  <2>3. lookup = "none" => lookup' = "none"
    BY <2>1 DEF Next, Construct, Lookup, LookupRuns, LookupReturns, LookupIgnored,
                LookupFound, LookupFailed, RetryExpires, RetryHandler, RetryWanted, Forward,
                PostStop, Posted, StopHandler, DoForward, WorksChanges, search
  <2> QED
    BY <2>1, <2>2, <2>3
<1> QED
  BY IInvAlways, <1>1, PTL DEF Spec, NothingStartsAfterStop

-----------------------------------------------------------------------------
\* What settling the destination does to the types.
LEMMA UseEndpointType ==
    ASSUME TypeOK, UseEndpoint
    PROVE  /\ resolved' \in BOOLEAN /\ failureReported' \in BOOLEAN
           /\ failureLines' \in Nat /\ droppedUnresolved' \in Nat /\ lines' \in Nat
           /\ timer' \in TimerStates /\ retryDelay' \in FirstRetryDelay..MaxRetryDelay
<1>1. CASE AdoptEndpoint
  <2>1. resolved' \in BOOLEAN /\ failureReported' \in BOOLEAN
    BY <1>1, Zenon DEF AdoptEndpoint, TypeOK, report
  <2>2. failureLines' \in Nat /\ timer' \in TimerStates
    BY <1>1 DEF AdoptEndpoint, TypeOK, TimerStates, report
  <2> QED
    BY <1>1, <2>1, <2>2 DEF AdoptEndpoint, ReportDropped, TypeOK
<1>2. CASE OpenFails
  <2>1. resolved' \in BOOLEAN /\ failureReported' \in BOOLEAN
    BY <1>2, Zenon DEF OpenFails, ReportOpenFailure, TypeOK
  <2>2. timer' \in TimerStates
    BY <1>2 DEF OpenFails, ScheduleResolveRetry, TypeOK, TimerStates
  <2>3. failureLines' \in Nat
    BY <1>2 DEF OpenFails, ReportOpenFailure, TypeOK
  <2>4. retryDelay' \in FirstRetryDelay..MaxRetryDelay
    BY <1>2, DelayAssumption DEF OpenFails, Grown, Min2, TypeOK
  <2> QED
    BY <1>2, <2>1, <2>2, <2>3, <2>4 DEF OpenFails, TypeOK
<1> QED
  BY <1>1, <1>2 DEF UseEndpoint

\* Every variable has its type, and the retry delay stays between the first one
\* and its cap over any mixture of failed lookups and sockets.
THEOREM TypeCorrect == Spec => []TypeOK
<1>1. Init => TypeOK
  <2> SUFFICES ASSUME Init PROVE TypeOK
    OBVIOUS
  <2>1. /\ works \in BOOLEAN /\ built \in BOOLEAN /\ first \in BOOLEAN
        /\ resolved \in BOOLEAN /\ stopping \in BOOLEAN /\ failureReported \in BOOLEAN
    BY Zenon DEF Init
  <2>2. posted \in [messages: 0..MaxMessages, stop: BOOLEAN]
    BY MessagesAssumption DEF Init
  <2>3. strand \in Seq(Message \cup {Stop})
    BY DEF Init
  <2> QED
    BY <2>1, <2>2, <2>3, DelayAssumption DEF Init, TypeOK
<1>2. TypeOK /\ [Next]_vars => TypeOK'
  <2> SUFFICES ASSUME TypeOK, [Next]_vars PROVE TypeOK'
    OBVIOUS
  <2> USE DEF TypeOK
  <2>0. Grown \in FirstRetryDelay..MaxRetryDelay
    BY DelayAssumption DEF Grown, Min2
  <2>1. CASE Construct
    <3>1. built' \in BOOLEAN /\ first' \in BOOLEAN
      <4>1. first' = TRUE \/ UNCHANGED first
        BY <2>1, Zenon DEF Construct, StartResolve, search
      <4> QED
        BY <2>1, <4>1, Zenon DEF Construct
    <3>2. CASE UseEndpoint /\ UNCHANGED lookup
      BY <2>1, <3>1, <3>2, UseEndpointType DEF Construct, TimerStates, target, traffic
    <3>3. CASE StartResolve(TRUE) /\ UNCHANGED <<timer, retryDelay, resolved, report,
                                                droppedUnresolved, lines>>
      BY <2>1, <3>1, <3>3 DEF Construct, StartResolve, target, report, traffic
    <3>4. CASE UNCHANGED <<search, resolved, report, droppedUnresolved, lines>>
      BY <2>1, <3>1, <3>4 DEF Construct, target, search, report, traffic
    <3> QED
      BY <2>1, <3>2, <3>3, <3>4 DEF Construct
  <2>2. CASE LookupRuns \/ LookupReturns \/ LookupIgnored
    BY <2>2 DEF LookupRuns, LookupReturns, LookupIgnored, target, report, traffic
  <2>3. CASE LookupFound
    BY <2>3, UseEndpointType DEF LookupFound, TimerStates, target, traffic
  <2>4. CASE LookupFailed
    <3>1. failureReported' \in BOOLEAN /\ failureLines' \in Nat
      <4>1. failureReported' = TRUE \/ UNCHANGED failureReported
        BY <2>4, Zenon DEF LookupFailed, report
      <4>2. failureReported' \in BOOLEAN
        BY <4>1, Zenon
      <4> QED
        BY <2>4, <4>2 DEF LookupFailed, report
    <3>2. retryDelay' \in FirstRetryDelay..MaxRetryDelay
      BY <2>0, <2>4 DEF LookupFailed
    <3>3. timer' \in TimerStates
      BY <2>4 DEF LookupFailed, ScheduleResolveRetry, TimerStates
    <3> QED
      BY <2>4, <3>1, <3>2, <3>3 DEF LookupFailed, TimerStates, target, traffic
  <2>5. CASE RetryExpires
    BY <2>5 DEF RetryExpires, target, report, traffic
  <2>6. CASE RetryHandler
    BY <2>6 DEF RetryHandler, StartResolve, target, report, traffic
  <2>7. CASE Forward
    <3>1. strand' \in Seq(Message \cup {Stop})
      BY <2>7 DEF Forward
    <3>2. posted' \in [messages: 0..MaxMessages, stop: BOOLEAN]
      BY <2>7, MessagesAssumption DEF Forward
    <3> QED
      BY <2>7, <3>1, <3>2 DEF Forward, target, search, report, traffic
  <2>8. CASE PostStop
    <3>1. strand' \in Seq(Message \cup {Stop})
      BY <2>8 DEF PostStop
    <3>2. posted' \in [messages: 0..MaxMessages, stop: BOOLEAN]
      BY <2>8 DEF PostStop
    <3> QED
      BY <2>8, <3>1, <3>2 DEF PostStop, target, search, report, traffic
  <2>9. CASE StopHandler
    BY <2>9 DEF StopHandler, MarkStopping, target, report, traffic
  <2>10. CASE DoForward
    <3>1. strand' \in Seq(Message \cup {Stop})
      BY <2>10 DEF DoForward
    <3>2. matched' \in Nat /\ sent' \in Nat /\ droppedUnresolved' \in Nat
      BY <2>10 DEF DoForward
    <3> QED
      BY <2>10, <3>1, <3>2 DEF DoForward, target, search, report
  <2>11. CASE WorksChanges
    BY <2>11 DEF WorksChanges, target, search, report, traffic
  <2>12. CASE UNCHANGED vars
    BY <2>12 DEF vars
  <2> QED
    BY <2>1, <2>2, <2>3, <2>4, <2>5, <2>6, <2>7, <2>8, <2>9, <2>10, <2>11, <2>12
       DEF Next, Lookup, Posted
<1> QED
  BY <1>1, <1>2, PTL DEF Spec

-----------------------------------------------------------------------------
\* What was last sent is what truncateIfNeeded() made of a message.
SentInv ==
    /\ maxSize \in Nat
    /\ last.m.size \in Nat /\ last.out = TruncateIfNeeded(last.m.size, maxSize)

LEMMA SentStep == StopInv /\ SentInv /\ [Next]_vars => SentInv'
<1> SUFFICES ASSUME StopInv, SentInv, [Next]_vars
             PROVE  SentInv'
  OBVIOUS
<1>1. maxSize' = maxSize
  BY DEF Next, Construct, Lookup, LookupRuns, LookupReturns, LookupIgnored, LookupFound,
         LookupFailed, RetryExpires, RetryHandler, Forward, PostStop, Posted, StopHandler,
         DoForward, WorksChanges, target, vars
<1>2. CASE DoForward
  <2>1. Head(strand) \in Message
    BY <1>2 DEF StopInv, DoForward
  <2>2. Head(strand).size \in Nat
    <3>1. Head(strand).size \in MessageSizes
      BY <2>1 DEF Message
    <3>2. 0..BufferSize \subseteq Nat
      BY DEF BufferSize
    <3> QED
      BY <3>1, <3>2, SizesAssumption
  <2>3. \/ last' = [m |-> Head(strand), out |-> TruncateIfNeeded(Head(strand).size, maxSize)]
        \/ last' = last
    BY <1>2 DEF DoForward
  <2> QED
    BY <1>1, <2>2, <2>3 DEF SentInv
<1>3. CASE ~DoForward
  <2>1. last' = last
    BY <1>3 DEF Next, Construct, Lookup, LookupRuns, LookupReturns, LookupIgnored, LookupFound,
         LookupFailed, RetryExpires, RetryHandler, Forward, PostStop, Posted, StopHandler,
         WorksChanges, traffic, vars
  <2> QED
    BY <1>1, <2>1 DEF SentInv
<1> QED
  BY <1>2, <1>3

\* What truncateIfNeeded() makes of a message of any size and any limit: never
\* more than the limit, the message itself where it fits, and the note wherever
\* there is room for it.
LEMMA TruncateFits ==
    ASSUME NEW n \in Nat, NEW max \in Nat
    PROVE  LET out == TruncateIfNeeded(n, max)
           IN /\ max = 0 \/ n <= max => out = [raw |-> n, suffix |-> 0]
              /\ ~(max = 0 \/ n <= max) =>
                    /\ out.raw + out.suffix = max /\ out.raw <= n
                    /\ out.suffix > 0 <=> Suffix(n) < max
<1>1. Suffix(n) \in Nat /\ Suffix(n) > 0
  BY DEF Suffix, Digits
<1> QED
  BY <1>1 DEF TruncateIfNeeded

\* A forwarded datagram never exceeds max_message_size, is unchanged when it
\* fits, and a shortened one has the note exactly when the note fits, for every
\* size a datagram can have and every limit.
THEOREM SentAlwaysWithinMaxSize == Spec => []WithinMaxSize
<1>1. Init => StopInv /\ SentInv
  <2> SUFFICES ASSUME Init PROVE SentInv
    BY StopInit
  <2>1. maxSize \in Nat /\ last.m.size = 0 /\ last.out = [raw |-> 0, suffix |-> 0]
    BY SizesAssumption DEF Init, NoMessage
  <2> QED
    BY <2>1 DEF SentInv, TruncateIfNeeded
<1>2. StopInv /\ SentInv /\ [Next]_vars => (StopInv /\ SentInv)'
  BY StopStep, SentStep
<1>3. ASSUME SentInv
      PROVE  WithinMaxSize
  BY <1>3, TruncateFits DEF SentInv, WithinMaxSize
<1> QED
  BY <1>1, <1>2, <1>3, PTL DEF Spec
=============================================================================
