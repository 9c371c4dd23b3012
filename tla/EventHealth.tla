---------------------------- MODULE EventHealth ----------------------------
(***************************************************************************)
(* What /health says of Event Analysis (bot/health.py).  It joins a count  *)
(* of the failures in a row, which is memory of the process; the time of   *)
(* the last success, a row; and the share of a day's operations that       *)
(* succeeded, from rows (observability/logical_llm_health.py).  Analyses   *)
(* run and end while it reads; a row may not be written, a read may fail   *)
(* or run out of time, the process may restart.                            *)
(***************************************************************************)
EXTENDS Integers, FiniteSets, Functions

CONSTANTS
    HealthWindow,   \* WINDOW_HOURS
    CoverageGrace,  \* COVERAGE_GRACE
    MaxAge,         \* EVENT_ANALYSIS_HEALTH_MAX_AGE_SECONDS
    StreakLimit,    \* EVENT_ANALYSIS_FAILURE_ESCALATION_THRESHOLD
    MinSamples, AlertFailures, LowSampleFailures,
    FailRate, DegradedRate, \* in percent
    Operations,     \* bound on the operations
    LastReading     \* bound on the time

ASSUME HealthAssumption ==
    /\ {HealthWindow, CoverageGrace, MaxAge, Operations, LastReading} \subseteq Nat
    /\ {StreakLimit, MinSamples, AlertFailures, LowSampleFailures} \subseteq Nat \ {0}
    /\ {FailRate, DegradedRate} \subseteq 1..100
    /\ AlertFailures <= LowSampleFailures

VARIABLES
    healthTime,     \* the time
    outcomes,       \* outcomes[t][k]: rows of time t with a status of kind k
    unmatched,      \* unmatched[t]: operations of time t with usage rows only
    running,        \* what the analysis under way has come to
    streak,         \* _consecutive_failures
    reading,        \* how far a request to /health has got
    sawStreak,      \* the counters it began with
    sawSuccess,     \* the last success it read, or NoSuccess
    shown           \* the state it answered with, and whether it had read the rows

operationVars == <<outcomes, unmatched, running, streak>>
healthVars == <<healthTime, operationVars, reading, sawStreak, sawSuccess, shown>>

\* _outcome_kind: skipped and unrecognized statuses are "unknown".
Kinds == {"success", "failure", "unknown"}
Instants == 0..LastReading
NoSuccess == -1

InitHealth ==
    /\ healthTime = 0
    /\ outcomes = [t \in Instants |-> [k \in Kinds |-> 0]]
    /\ unmatched = [t \in Instants |-> 0]
    /\ running = "nothing" /\ streak = 0
    /\ reading = "idle" /\ sawStreak = 0 /\ sawSuccess = NoSuccess /\ shown = [state |-> "unknown", rows |-> FALSE]

-----------------------------------------------------------------------------
(***************************************************************************)
(* Operations: one analysis at a time, what it calls and what it leaves.   *)
(***************************************************************************)

Written(kind, times) == SumFunctionOnSet([t \in Instants |-> outcomes[t][kind]], times)

Begun ==
    SumFunctionOnSet(unmatched, Instants) + SumFunction([k \in Kinds |-> Written(k, Instants)])

\* The calls of an analysis leave usage rows; a skipped one makes no call.
BeginOperation ==
    /\ running = "nothing" /\ Begun < Operations
    /\ \E result \in {"called", "skipped"} : running' = result
    /\ unmatched' = [unmatched EXCEPT ![healthTime] = IF running' = "called" THEN @ + 1 ELSE @]
    /\ UNCHANGED <<healthTime, outcomes, streak, reading, sawStreak, sawSuccess, shown>>

WriteOutcome(kind) ==
    outcomes' = [outcomes EXCEPT ![healthTime][kind] = @ + 1]

\* Its usage rows have an outcome to go with.
Match == unmatched' = [unmatched EXCEPT ![healthTime] = @ - 1]

\* A success is counted, then written.
Succeed ==
    /\ running = "called" /\ running' = "succeeded"
    /\ streak' = 0
    /\ UNCHANGED <<healthTime, outcomes, unmatched, reading, sawStreak, sawSuccess, shown>>

WriteSuccess ==
    /\ running = "succeeded" /\ running' = "nothing"
    /\ unmatched[healthTime] > 0 /\ WriteOutcome("success") /\ Match
    /\ UNCHANGED <<healthTime, streak, reading, sawStreak, sawSuccess, shown>>

\* A failure is written, then counted.
WriteFailure ==
    /\ running = "called" /\ running' = "failed"
    /\ unmatched[healthTime] > 0 /\ WriteOutcome("failure") /\ Match
    /\ UNCHANGED <<healthTime, streak, reading, sawStreak, sawSuccess, shown>>

CountFailure ==
    /\ running = "failed" /\ running' = "nothing"
    /\ streak' = streak + 1
    /\ UNCHANGED <<healthTime, outcomes, unmatched, reading, sawStreak, sawSuccess, shown>>

\* An active back-off is written as a skip and not counted.
WriteSkip ==
    /\ running = "skipped" /\ running' = "nothing"
    /\ WriteOutcome("unknown")
    /\ UNCHANGED <<healthTime, unmatched, streak, reading, sawStreak, sawSuccess, shown>>

\* The row cannot be written: the exception ends the analysis.
LoseOutcome ==
    /\ running \in {"called", "succeeded", "skipped"} /\ running' = "nothing"
    /\ UNCHANGED <<healthTime, outcomes, unmatched, streak, reading, sawStreak, sawSuccess, shown>>

-----------------------------------------------------------------------------
(***************************************************************************)
(* A request to /health.                                                   *)
(***************************************************************************)

InWindow == {t \in Instants : t >= healthTime - HealthWindow /\ t <= healthTime}
Covered24h == {t \in Instants : /\ t >= healthTime - HealthWindow + CoverageGrace
                                /\ t <= healthTime - CoverageGrace}

Successes == Written("success", InWindow)

Failures == Written("failure", InWindow)

Unknowns == Written("unknown", InWindow)
Gaps == SumFunctionOnSet(unmatched, Covered24h)
Recorded24h == Successes + Failures + Unknowns

RateBelow(percent) == Successes * 100 < percent * (Successes + Failures)

\* Bug: what is unknown is left out of account.
LogicalStateOfCompleted ==
    IF Successes + Failures < MinSamples THEN "unknown"
    ELSE IF Failures >= AlertFailures /\ RateBelow(DegradedRate) THEN "degraded" ELSE "ok"

\* _state
LogicalState ==
    IF Successes + Failures >= MinSamples
    THEN IF Failures >= AlertFailures /\ RateBelow(DegradedRate)
         THEN IF Failures >= LowSampleFailures /\ RateBelow(FailRate) THEN "failed" ELSE "degraded"
         ELSE IF Unknowns + Gaps > 0 \/ RateBelow(DegradedRate) THEN "unknown" ELSE "ok"
    ELSE IF Failures >= LowSampleFailures THEN "degraded" ELSE "unknown"

\* evaluate_state
CounterState ==
    IF \/ sawStreak >= StreakLimit
       \/ sawSuccess = NoSuccess /\ sawStreak > 0
       \/ sawSuccess # NoSuccess /\ healthTime - sawSuccess > MaxAge
    THEN "degraded"
    ELSE IF sawSuccess = NoSuccess THEN "unknown" ELSE "ok"

\* An old success alone is no outage where no work was done, or it all went well.
StaleIsUnknown ==
    CounterState = "degraded" /\ sawStreak = 0 /\ (LogicalState = "ok" \/ Recorded24h = 0)

StateFromRows ==
    IF LogicalState \in {"failed", "degraded"} THEN LogicalState
    ELSE IF StaleIsUnknown \/ (LogicalState = "unknown" /\ CounterState = "ok") THEN "unknown"
    ELSE CounterState

\* Without rows nothing is known to be well.
StateWithoutRows ==
    IF CounterState = "degraded" /\ sawStreak > 0 THEN "degraded" ELSE "unknown"

BeginReport ==
    /\ reading = "idle" /\ reading' = "success"
    /\ sawStreak' = streak
    /\ UNCHANGED <<healthTime, operationVars, sawSuccess, shown>>

SuccessTimes == {t \in Instants : outcomes[t]["success"] > 0}

\* The last success, however old; or there is none, or the read fails.
ReadSuccess ==
    /\ reading = "success" /\ reading' = "rows"
    /\ \/ sawSuccess' \in {t \in SuccessTimes : \A u \in SuccessTimes : u <= t}
       \/ sawSuccess' = NoSuccess
    /\ UNCHANGED <<healthTime, operationVars, sawStreak, shown>>

Answer(state, complete) ==
    /\ shown' = [state |-> state, rows |-> complete]
    /\ reading' = "idle" /\ sawStreak' = 0 /\ sawSuccess' = NoSuccess
    /\ UNCHANGED <<healthTime, operationVars>>

ReadRows == reading = "rows" /\ Answer(StateFromRows, TRUE)

\* The read fails, or the two seconds of the request are over.
RowsUnavailable == reading = "rows" /\ Answer(StateWithoutRows, FALSE)

\* A request takes no time, on the scale of the window; nor does an analysis.
PassHealthTime ==
    /\ healthTime < LastReading /\ reading = "idle" /\ running = "nothing"
    /\ healthTime' = healthTime + 1
    /\ UNCHANGED <<operationVars, reading, sawStreak, sawSuccess, shown>>

RestartBotProcess ==
    /\ streak > 0 \/ running # "nothing"
    /\ streak' = 0 /\ running' = "nothing"
    /\ reading' = "idle" /\ sawStreak' = 0 /\ sawSuccess' = NoSuccess
    /\ UNCHANGED <<healthTime, outcomes, unmatched, shown>>

NextHealth ==
    \/ BeginOperation \/ Succeed \/ WriteSuccess \/ WriteFailure \/ CountFailure
    \/ WriteSkip \/ LoseOutcome
    \/ BeginReport \/ ReadSuccess \/ ReadRows \/ RowsUnavailable
    \/ PassHealthTime \/ RestartBotProcess

SpecHealth == InitHealth /\ [][NextHealth]_healthVars

-----------------------------------------------------------------------------
(***************************************************************************)
(* Properties.                                                             *)
(***************************************************************************)

TypeOKHealth ==
    /\ healthTime \in Instants
    /\ outcomes \in [Instants -> [Kinds -> Nat]]
    /\ unmatched \in [Instants -> Nat]
    /\ running \in {"nothing", "called", "skipped", "succeeded", "failed"}
    /\ streak \in Nat /\ sawStreak \in Nat
    /\ reading \in {"idle", "success", "rows"}
    /\ sawSuccess \in Instants \cup {NoSuccess}
    /\ shown \in [state : {"ok", "degraded", "failed", "unknown"}, rows : BOOLEAN]

Answers == reading = "rows" /\ reading' = "idle" /\ UNCHANGED operationVars

Recorded(kind) == SumFunctionOnSet([t \in Instants |-> outcomes[t][kind]], InWindow)

\* "ok" is said only on the evidence that docs/observability.md:197 asks for: a
\* recent success, enough operations, nearly all of which succeeded, and none
\* whose outcome is missing or not known.  Unwritten rows, failed reads and
\* restarts make it "unknown" and never "ok".
OkIsEarned ==
    [][Answers /\ shown'.state = "ok" =>
          /\ \E t \in SuccessTimes : healthTime - t <= MaxAge
          /\ Recorded("success") + Recorded("failure") >= MinSamples
          /\ 100 * Recorded("success") >= DegradedRate * (Recorded("success") + Recorded("failure"))
          /\ Recorded("unknown") = 0
          /\ \A t \in Covered24h : unmatched[t] = 0]_healthVars

\* An outage is shown: after StreakLimit failures in a row of one process whatever
\* can be read, and after a day of failures only, when its rows can be read,
\* however often the process was restarted meanwhile.
OutageShown ==
    [][Answers /\ shown'.state \in {"ok", "unknown"} =>
          /\ sawStreak < StreakLimit
          /\ shown'.rows => Recorded("success") > 0 \/ Recorded("failure") < LowSampleFailures]_healthVars

\* Nothing is called an outage that is not one: some operation has failed, or
\* the day has operations and, but for one that ended during the request, their
\* last success is old.  Skipped operations and silence raise no alarm.
AlarmHasCause ==
    [][Answers /\ shown'.state \in {"degraded", "failed"} =>
          \/ sawStreak > 0 \/ Recorded("failure") > 0
          \/ /\ Recorded("success") + Recorded("unknown") > 0
             /\ \A t \in SuccessTimes : t < healthTime - MaxAge \/ t = healthTime]_healthVars

\* What the status shows of the analysis has its reasons, in both directions.
StatusTruthful == OkIsEarned /\ OutageShown /\ AlarmHasCause

=============================================================================
