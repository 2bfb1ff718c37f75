------------------------------ MODULE Reports ------------------------------
(***************************************************************************)
(* When a failure that lasts is tried again and how often it is reported:  *)
(* the receive socket (src/src/server/receive_backoff.hpp, called from     *)
(* udp_server.cpp) and a closed sink (output/sink_recovery.hpp, called     *)
(* from output/log_file.cpp), over a discrete clock.                       *)
(*                                                                         *)
(* The counts the lines carry are kept in history variables, so that what  *)
(* the system log says can be compared with what happened.  The names of   *)
(* the specification begin with Reports: LogFileProofs extends LogFile and *)
(* this module together.                                                   *)
(***************************************************************************)
EXTENDS Integers

CONSTANTS
    FirstDelay, MaxDelay,   \* kFirstDelay and kMaxDelay
    ReportInterval,         \* kReportInterval
    RetryInterval,          \* SinkRecovery::kRetryInterval
    Slack,                  \* how late a timer's handler may run
    MaxTime                 \* bound: length of a behaviour

ASSUME DelaysAssumption ==
    /\ FirstDelay \in Nat \ {0} /\ MaxDelay \in Nat /\ FirstDelay <= MaxDelay
    /\ ReportInterval \in Nat \ {0} /\ RetryInterval \in Nat \ {0}
    /\ Slack \in Nat /\ MaxTime \in Nat

Never == -1

VARIABLES
    now,
    \* ReceiveBackoff
    streak,             \* m_streak
    unreported,         \* m_unreported
    streakReported,     \* m_streakReported
    delay,              \* m_delay
    lastReport,         \* m_lastReport, or Never
    armedAt,            \* when the socket listens (again)
    errors,             \* history: receive errors
    named,              \* history: the errors the lines account for
    errorLines,         \* history: lines about an error
    recoveryLines,      \* history: lines "receiving again"
    \* SinkRecovery
    failures,           \* m_failures
    sinkUnreported,     \* m_unreported
    closedSince,        \* m_closedSince
    sinkReport,         \* m_lastReport
    retryAt,            \* when the retry is due
    attempts,           \* history: failed reopenings of this outage
    summarised          \* history: those its lines account for

socketVars == <<streak, unreported, streakReported, delay, lastReport, armedAt,
                errors, named, errorLines, recoveryLines>>
sinkVars == <<failures, sinkUnreported, closedSince, sinkReport, retryAt, attempts,
              summarised>>
reportsVars == <<now, streak, unreported, streakReported, delay, lastReport, armedAt,
                 errors, named, errorLines, recoveryLines, failures, sinkUnreported,
                 closedSince, sinkReport, retryAt, attempts, summarised>>

Min2(a, b) == IF a <= b THEN a ELSE b
-----------------------------------------------------------------------------
NextDelay == IF streak = 0 THEN FirstDelay ELSE Min2(delay * 2, MaxDelay)

ReportDue == lastReport = Never \/ now - lastReport >= ReportInterval

\* Mutant: the error that is reported stays in the count.
ReportErrorKeeps ==
    /\ unreported' = unreported + 1
    /\ named' = named + unreported + 1

\* The line of this error: it and what was counted since the last one.
ReportError ==
    /\ unreported' = 0
    /\ named' = named + unreported + 1

\* handleReceiveError() with onError(): the socket listens again after the
\* delay.
ReceiveError ==
    /\ now >= armedAt
    /\ streak' = streak + 1
    /\ delay' = NextDelay
    /\ armedAt' = now + NextDelay
    /\ errors' = errors + 1
    /\ IF ReportDue
       THEN /\ ReportError
            /\ lastReport' = now
            /\ streakReported' = TRUE
            /\ errorLines' = errorLines + 1
       ELSE /\ unreported' = unreported + 1
            /\ UNCHANGED <<named, lastReport, streakReported, errorLines>>
    /\ UNCHANGED <<now, recoveryLines, sinkVars>>

\* Mutant: a success ends the reporting interval too.
EndIntervalToo == lastReport' = Never

\* What a success does to the reporting interval: nothing.
EndInterval == UNCHANGED lastReport

\* onReceive() with onSuccess(): a streak that was reported gets a line.
ReceiveSucceeds ==
    /\ now >= armedAt
    /\ recoveryLines' = IF streakReported /\ streak # 0 THEN recoveryLines + 1
                        ELSE recoveryLines
    /\ streak' = 0
    /\ streakReported' = FALSE
    /\ delay' = 0
    /\ armedAt' = now
    /\ EndInterval
    /\ UNCHANGED <<now, unreported, errors, named, errorLines, sinkVars>>
-----------------------------------------------------------------------------
\* onFailure() for the failure that closes the sink: reported at once.
SinkFails ==
    /\ failures = 0
    /\ failures' = 1
    /\ closedSince' = now
    /\ sinkReport' = now
    /\ retryAt' = now + RetryInterval
    /\ attempts' = 0
    /\ summarised' = 0
    /\ UNCHANGED <<now, socketVars, sinkUnreported>>

\* Mutant: the interval is measured from the beginning of the outage.
SinkReportDueOnce == now - closedSince = ReportInterval

SinkReportDue == now - sinkReport >= ReportInterval

\* onFailure() for a reopening that failed: counted, and summarised at most
\* once an interval.
ReopenFails ==
    /\ failures # 0 /\ now >= retryAt
    /\ failures' = failures + 1
    /\ attempts' = attempts + 1
    /\ retryAt' = now + RetryInterval
    /\ IF SinkReportDue
       THEN /\ summarised' = summarised + sinkUnreported + 1
            /\ sinkUnreported' = 0
            /\ sinkReport' = now
       ELSE /\ sinkUnreported' = sinkUnreported + 1
            /\ UNCHANGED <<summarised, sinkReport>>
    /\ UNCHANGED <<now, socketVars, closedSince>>

\* Mutant: the count of the outage that ended stays.
ResetUnreportedNot == UNCHANGED sinkUnreported

ResetUnreported == sinkUnreported' = 0

\* onRecovered(): the line has the whole outage.
Reopened ==
    /\ failures # 0 /\ now >= retryAt
    /\ failures' = 0
    /\ ResetUnreported
    /\ UNCHANGED <<now, socketVars, closedSince, sinkReport, retryAt, attempts,
                   summarised>>
-----------------------------------------------------------------------------
\* Time passes; the handler of the retry is late by at most Slack.
Tick ==
    /\ now < MaxTime
    /\ failures # 0 => now < retryAt + Slack
    /\ now' = now + 1
    /\ UNCHANGED <<socketVars, sinkVars>>

ReportsInit ==
    /\ now = 0
    /\ streak = 0 /\ unreported = 0 /\ streakReported = FALSE /\ delay = 0
    /\ lastReport = Never /\ armedAt = 0
    /\ errors = 0 /\ named = 0 /\ errorLines = 0 /\ recoveryLines = 0
    /\ failures = 0 /\ sinkUnreported = 0 /\ closedSince = 0 /\ sinkReport = 0
    /\ retryAt = 0 /\ attempts = 0 /\ summarised = 0

ReportsNext ==
    \/ ReceiveError \/ ReceiveSucceeds
    \/ SinkFails \/ ReopenFails \/ Reopened
    \/ Tick

ReportsSpec == ReportsInit /\ [][ReportsNext]_reportsVars
-----------------------------------------------------------------------------
(***************************************************************************)
(* Properties.                                                             *)
(***************************************************************************)

\* Every variable has its type; the delay before the socket listens again
\* stays within its cap.
ReportsTypeOK ==
    /\ now \in 0..MaxTime
    /\ {streak, unreported, errors, named, errorLines, recoveryLines} \subseteq Nat
    /\ streakReported \in BOOLEAN
    /\ delay \in 0..MaxDelay /\ armedAt \in 0..(now + MaxDelay)
    /\ lastReport \in {Never} \cup 0..now
    /\ {failures, sinkUnreported, attempts, summarised} \subseteq Nat
    /\ closedSince \in 0..now /\ sinkReport \in 0..now
    /\ retryAt \in 0..(now + RetryInterval)

\* Every receive error is in exactly one line or waiting for the next one,
\* over streaks that end and begin again.
ErrorsAccounted == errors = named + unreported

\* However the socket flaps between errors and successes, the system log gets
\* at most one line about an error in an interval, and at most one line about
\* the recovery for each of them.
LinesBounded ==
    /\ errorLines > 0 => (errorLines - 1) * ReportInterval <= now
    /\ recoveryLines <= errorLines

\* In each outage every failed reopening is in exactly one summary or waiting
\* for the next, and the count of the recovery line includes them all.
OutageAccounted ==
    failures # 0 => /\ failures = 1 + attempts
                    /\ attempts = summarised + sinkUnreported

\* While a sink is closed the system log is never silent about it for longer
\* than the interval and the wait for one more attempt.
NeverSilentLong ==
    failures # 0 => now - sinkReport <= ReportInterval + RetryInterval + Slack
=============================================================================
