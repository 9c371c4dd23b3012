---------------------------- MODULE ReportCache ----------------------------
(***************************************************************************)
(* The cache of one kind of market report (bot/reports.py): users ask for  *)
(* it, a job refreshes it every few minutes, and a one-shot job follows a  *)
(* failed refresh.  Whoever finds no usable report waits for one lock, and *)
(* looks again before it generates.  A generation fails, runs into the     *)
(* price provider's rate limit, or cannot save its result; the process     *)
(* restarts.  Back-offs are memory of the process, reports are rows.       *)
(***************************************************************************)
EXTENDS Integers

CONSTANTS
    Users,          \* requests, one of a user each
    RefreshJob,     \* market_report cache job
    RecoveryJob,    \* market_report_{type}_recovery
    NoReader,
    ValidFor,       \* REPORT_FRESHNESS_SECONDS
    Grace,          \* REPORT_SCHEDULED_REFRESH_GRACE_SECONDS
    FailureBackoff, \* REPORT_SCHEDULED_FAILURE_BACKOFF_SECONDS
    RateBackoff,    \* REPORT_PROVIDER_BACKOFF_SECONDS
    UpgradeRetry,   \* _REPORT_UPGRADE_RETRY_SECONDS
    FirstCheck,     \* the time of the first check of a process
    Missing,        \* no report, no time
    LastCheck       \* bound on the time, in checks of the job

Scheduled == {RefreshJob, RecoveryJob}
Readers == Users \cup Scheduled

ASSUME ReportAssumption ==
    /\ RefreshJob # RecoveryJob /\ NoReader \notin Readers /\ Users \cap Scheduled = {}
    /\ {ValidFor, Grace, FailureBackoff, RateBackoff, UpgradeRetry, LastCheck} \subseteq Nat
    /\ FirstCheck \in 1..LastCheck /\ Missing \notin Nat
    \* The checks are no further apart than the grace, and begin before a report ends.
    /\ Grace > 0 /\ Grace < ValidFor /\ FirstCheck < ValidFor

VARIABLES
    checkNo,        \* the time
    made,           \* generated_at of the latest completed report
    outdated,       \* whether its content is of an older version
    phase,          \* phase[r]: where a reader is
    generating,     \* who holds the lock, or NoReader
    madeAt,         \* `generated_at` of the generation under way
    upgrading,      \* `outdated` of the generation under way
    answer,         \* answer[u]: what user u was sent
    backoffUntil,   \* _report_provider_backoff_until
    upgradeUntil,   \* _report_upgrade_retry_until
    recovery,       \* when the one-shot job is due
    checked,        \* the last check the job has done (history)
    failedAt,       \* when a refresh of this process last failed (history)
    disturbed       \* a check came late, failed or was lost (history)

cacheVars == <<made, outdated>>
memoryVars == <<backoffUntil, upgradeUntil, recovery>>
lockVars == <<generating, madeAt, upgrading>>
reportVars == <<checkNo, cacheVars, phase, lockVars, answer, memoryVars, checked, failedAt, disturbed>>

InitReports ==
    /\ checkNo = 0
    /\ made \in {Missing, 0} /\ outdated \in {FALSE, made = 0}
    /\ phase = [r \in Readers |-> "idle"]
    /\ generating = NoReader /\ madeAt = 0 /\ upgrading = FALSE
    /\ answer = [u \in Users |-> "none"]
    /\ backoffUntil = 0 /\ upgradeUntil = 0 /\ recovery = Missing
    /\ checked = 0 /\ failedAt = Missing /\ disturbed = FALSE

FreshReport == made # Missing /\ made + ValidFor > checkNo
Remaining == made + ValidFor - checkNo

\* _scheduled_refresh_can_skip
LeaveAlone == FreshReport /\ Remaining > Grace

Usable(r) == IF r \in Scheduled THEN LeaveAlone ELSE FreshReport /\ ~outdated

BackoffActive == backoffUntil > checkNo
UpgradeHeldBack == FreshReport /\ outdated /\ checkNo < upgradeUntil

\* The reasons not to generate, which the code looks at before and under the lock.
Stop(r) == Usable(r) \/ BackoffActive \/ (r \in Users /\ UpgradeHeldBack)

Reply(r, text) == answer' = IF r \in Users THEN [answer EXCEPT ![r] = text] ELSE answer

\* What a reader has when it does not generate: the cached report, or nothing.
ReplyFromCache(r) == Reply(r, IF FreshReport THEN "report" ELSE "unavailable")

\* The check of this time has been done.
Done(r) == checked' = IF r = RefreshJob THEN checkNo ELSE checked

\* Updates are handled one at a time, beside the jobs.
MayBegin(r) ==
    \/ r \in Users /\ answer[r] = "none" /\ \A u \in Users : phase[u] = "idle"
    \/ r = RefreshJob /\ checkNo >= FirstCheck /\ checked < checkNo
    \/ r = RecoveryJob /\ recovery # Missing /\ recovery <= checkNo

BeginReading(r) ==
    /\ phase[r] = "idle" /\ MayBegin(r)
    /\ recovery' = IF r = RecoveryJob THEN Missing ELSE recovery
    /\ \/ Stop(r) /\ ReplyFromCache(r) /\ Done(r) /\ UNCHANGED phase
       \/ ~Stop(r) /\ phase' = [phase EXCEPT ![r] = "wait"] /\ UNCHANGED <<answer, checked>>
    /\ UNCHANGED <<checkNo, cacheVars, lockVars, backoffUntil, upgradeUntil, failedAt, disturbed>>

\* Bug: whoever gets the lock generates.
StopUnderLockForgotten(r) == FALSE

StopUnderLock(r) == Stop(r)

TakeReportLock(r) ==
    /\ phase[r] = "wait" /\ generating = NoReader
    /\ \/ /\ StopUnderLock(r)
          /\ phase' = [phase EXCEPT ![r] = "idle"]
          /\ ReplyFromCache(r) /\ Done(r)
          /\ UNCHANGED lockVars
       \/ /\ ~StopUnderLock(r)
          /\ phase' = [phase EXCEPT ![r] = "generate"]
          /\ generating' = r /\ madeAt' = checkNo
          /\ upgrading' = (FreshReport /\ outdated)
          /\ UNCHANGED <<answer, checked>>
    /\ UNCHANGED <<checkNo, cacheVars, memoryVars, failedAt, disturbed>>

EndGeneration(r) ==
    /\ phase[r] = "generate"
    /\ phase' = [phase EXCEPT ![r] = "idle"]
    /\ generating' = NoReader /\ madeAt' = 0 /\ upgrading' = FALSE
    /\ UNCHANGED checkNo

\* By the model, or from the data alone when the model gave nothing valid.
Complete(r) ==
    /\ EndGeneration(r)
    /\ made' = madeAt /\ outdated' = FALSE
    /\ Reply(r, "report") /\ Done(r)
    /\ UNCHANGED <<memoryVars, failedAt, disturbed>>

\* A failed upgrade leaves the older report, as it was read under the lock.
ReplyAfterFailure(r) == Reply(r, IF upgrading THEN "report" ELSE "unavailable")

\* No market data, or any error; a failed row is stored that nobody reads.  The
\* price provider's rate limit begins a back-off of its own, which that of a
\* scheduled refresh replaces.
Fail(r) ==
    /\ EndGeneration(r)
    /\ \E rated \in BOOLEAN :
         backoffUntil' = IF r \in Scheduled THEN checkNo + FailureBackoff
                         ELSE IF rated THEN checkNo + RateBackoff ELSE backoffUntil
    /\ upgradeUntil' = IF r \in Users /\ upgrading THEN checkNo + UpgradeRetry ELSE upgradeUntil
    /\ recovery' = IF r = RefreshJob /\ recovery = Missing
                   THEN checkNo + FailureBackoff + 1 ELSE recovery
    /\ failedAt' = IF r \in Scheduled THEN checkNo ELSE failedAt
    /\ disturbed' = TRUE
    /\ ReplyAfterFailure(r) /\ Done(r)
    /\ UNCHANGED cacheVars

\* The outcome could not be saved: the handler or job ends with an error.
Raise(r) ==
    /\ EndGeneration(r)
    /\ disturbed' = TRUE
    /\ Reply(r, "error") /\ Done(r)
    /\ UNCHANGED <<cacheVars, memoryVars, failedAt>>

RestartReports ==
    /\ phase' = [r \in Readers |-> "idle"]
    /\ generating' = NoReader /\ madeAt' = 0 /\ upgrading' = FALSE
    /\ backoffUntil' = 0 /\ upgradeUntil' = 0 /\ recovery' = Missing
    /\ failedAt' = Missing /\ disturbed' = TRUE
    /\ UNCHANGED <<checkNo, cacheVars, answer, checked>>

NextCheck ==
    /\ checkNo < LastCheck
    /\ checkNo' = checkNo + 1
    /\ disturbed' = (disturbed \/ (checkNo >= FirstCheck /\ checked < checkNo))
    /\ UNCHANGED <<cacheVars, phase, lockVars, answer, memoryVars, checked, failedAt>>

NextReports ==
    \/ \E r \in Readers :
        BeginReading(r) \/ TakeReportLock(r) \/ Complete(r) \/ Fail(r) \/ Raise(r)
    \/ RestartReports
    \/ NextCheck

SpecReports == InitReports /\ [][NextReports]_reportVars

-----------------------------------------------------------------------------
MaybeTime == Nat \cup {Missing}

\* Every variable has its type, and only the holder of the lock generates.
TypeOKReports ==
    /\ checkNo \in 0..LastCheck /\ checked \in 0..LastCheck
    /\ {made, recovery, failedAt} \subseteq MaybeTime
    /\ {outdated, upgrading, disturbed} \subseteq BOOLEAN
    /\ phase \in [Readers -> {"idle", "wait", "generate"}]
    /\ generating \in Readers \cup {NoReader} /\ madeAt \in 0..LastCheck
    /\ answer \in [Users -> {"none", "report", "unavailable", "error"}]
    /\ backoffUntil \in Nat /\ upgradeUntil \in Nat
    /\ \A r \in Readers : phase[r] = "generate" <=> generating = r

\* A completed report of the current content is replaced only by one begun when
\* it had the grace left at most, however many readers waited for it together.
ReportsApart ==
    [][made' # made /\ made # Missing /\ ~outdated
         => made' >= made + ValidFor - Grace]_reportVars

\* After a failed refresh nobody generates for the whole back-off, although
\* readers were already waiting for the lock and the recovery job follows.
FailureHeldBack ==
    generating # NoReader /\ failedAt # Missing => madeAt >= failedAt + FailureBackoff

\* A user is told that there is no report only when no valid one is stored.
ReportShownWhileValid ==
    [][\A u \in Users :
         answer[u] = "none" /\ answer'[u] = "unavailable" => ~FreshReport]_reportVars

\* While every check of the job comes in time and succeeds, there is no moment
\* without a valid report from the first one on.
NoGap == ~disturbed /\ made # Missing => FreshReport

\* After every step, the reports of a coin are neither missing, nor made twice, nor
\* insisted on.
ReportsRefreshed ==
    [][NoGap' /\ FailureHeldBack']_reportVars /\ ReportsApart /\ ReportShownWhileValid

=============================================================================
