------------------------------ MODULE Evidence ------------------------------
(***************************************************************************)
(* What the operations agent says of a period (ops_agent/cli.py,           *)
(* collectors, alert_similarity.py, detectors.py, report_context.py).  A   *)
(* run of `collect` asks the database one query at a time, reads the alert *)
(* evidence bucket by bucket, the health endpoint and the log files; any   *)
(* of these may fail, and the collectors go on.  Each detector then says   *)
(* "triggered", "clear" or "unknown" of what was collected, and the packet *)
(* for the report is headed "healthy" or not.  A behaviour follows one     *)
(* detector, `watched`, and what it reads.                                 *)
(***************************************************************************)
EXTENDS Integers, FiniteSets

CONSTANTS
    NoisyAt,        \* 5 sent alerts of a coin
    StrictCooldown, \* the semantic cooldown of a recipient
    BucketHours,    \* OPS_AGENT_ALERT_EVIDENCE_BUCKET_HOURS
    RowCaps,        \* values of OPS_AGENT_ALERT_EVIDENCE_ROW_CAP
    Worlds,         \* sets of analyses a period may hold (below)
    LogFiles

ASSUME EvidenceAssumption ==
    /\ {NoisyAt, BucketHours} \cup RowCaps \subseteq Nat \ {0}
    /\ StrictCooldown \in Nat
    /\ \A world \in Worlds : IsFiniteSet(world) /\ \A a \in world : a.made \in Nat

VARIABLES
    watched,        \* the detector
    rows,           \* rows[q]: what query q has to say
    alerts,         \* the analyses of the period and their alerts
    endpoint,       \* the health endpoint
    errors,         \* the log files with an error of the period
    rowCap,
    step,           \* what collect does next
    found,          \* the queries that were answered
    file,           \* alert evidence: "absent", "partial" or "whole"
    evidence,       \* the analyses in it
    health,         \* "none", or the status in health.json
    scanned,        \* those of the log files with errors that were read as listed
    rotated,        \* log files that were rotated away in between (history)
    lapsed,         \* a collector has a status other than "ok"
    verdict,        \* what the detector says
    heading         \* "healthy" or "other", the status of the report's packet

worldVars == <<watched, rows, alerts, endpoint, errors, rowCap>>
bundleVars == <<found, file, evidence, health, scanned, rotated>>
evidenceVars == <<worldVars, step, bundleVars, lapsed, verdict, heading>>

\* The queries without which a detector says "unknown".
DeliveryNeeds ==
    [failed_telegram_deliveries |->
         {"alerts_summary", "telegram_delivery_failure_summary", "alerts_failures"},
     no_alert_deliveries_observed |->
         {"alerts_summary", "price_state_current", "market_events_summary"}]

AnalysisNeeds ==
    [market_events_without_alert_deliveries |-> {"market_events_without_delivery_classification"},
     event_alert_delivery_explanation_gaps |-> {"event_alert_delivery_explanation_gaps"},
     repeated_llm_failures_or_rate_limits |->
         {"llm_failure_category_summary", "event_analysis_logical_outcome_summary",
          "llm_operation_reconciliation_summary", "llm_operation_correlation_coverage"}]

ServiceNeeds ==
    [failed_daily_weekly_reports |-> {"market_reports_summary", "market_reports_freshness"},
     stale_or_failed_market_heartbeats |->
         {"market_heartbeats_summary", "market_heartbeats_freshness"},
     duplicate_market_events |-> {"duplicate_market_event_buckets"},
     duplicate_alert_deliveries |-> {"delivery_invariant_checks"},
     market_event_analysis_invariant |->
         {"delivery_invariant_checks", "event_ai_analysis_invariant_checks"},
     blocked_users_still_active |-> {"blocked_users_still_active"},
     payment_premium_inconsistencies |-> {"premium_payment_inconsistencies"}]

ContextNeeds ==
    [news_intelligence_failures |-> {"news_intelligence_budget_summary"},
     event_alert_render_consecutive_failures |-> {"event_alert_render_failure_streaks"},
     event_alert_positive_render_loss |-> {"event_alert_positive_render_loss_summary"},
     event_alert_news_context_missing_with_candidates |-> {"event_analysis_news_candidates_summary"},
     event_alert_market_snapshot_gaps |-> {"event_alert_check_gap_summary"},
     stale_price_snapshots |-> {"price_state_current", "app_settings"}]

ModelNeeds ==
    [event_analysis_success_rate_zero |-> {"llm_usage_summary"},
     event_analysis_model_drift |-> {"event_analysis_provider_models"}]

QueryDetectors ==
    DOMAIN DeliveryNeeds \cup DOMAIN AnalysisNeeds \cup DOMAIN ServiceNeeds
    \cup DOMAIN ContextNeeds \cup DOMAIN ModelNeeds

AlertDetectors ==
    {"noisy_alert_symbols", "repeated_alert_content", "similar_alert_groups",
     "llm_repeated_alert_true_for_similar_situations", "weak_event_identity",
     "cooldown_effectiveness_gap"}

Detectors ==
    QueryDetectors \cup AlertDetectors \cup {"health_endpoint_unavailable", "exception_patterns_in_logs"}

NeedsOf(d) ==
    CASE d \in DOMAIN DeliveryNeeds -> DeliveryNeeds[d]
      [] d \in DOMAIN AnalysisNeeds -> AnalysisNeeds[d]
      [] d \in DOMAIN ServiceNeeds -> ServiceNeeds[d]
      [] d \in DOMAIN ContextNeeds -> ContextNeeds[d]
      [] d \in DOMAIN ModelNeeds -> ModelNeeds[d]
      [] OTHER -> {}

\* Queries that give a detector its denominators and samples.
Background == {"alerts_summary", "alerts_failures", "market_events_summary", "app_settings"}

\* The queries whose rows tell of the trouble a detector looks for.
Telling(d) ==
    IF d = "no_alert_deliveries_observed" THEN {} ELSE NeedsOf(d) \ Background

\* Queries whose rows may leave a detector in doubt.
Doubtful == {"market_events_without_delivery_classification", "market_heartbeats_freshness",
             "event_analysis_provider_models"}

\* Queries that always have rows unless nothing was observed.
SilentWhenBlind ==
    {"event_alert_render_failure_streaks", "event_alert_positive_render_loss_summary",
     "event_analysis_news_candidates_summary", "event_alert_check_gap_summary",
     "llm_usage_summary", "event_analysis_provider_models"}

Answers(q) == {"none", "quiet", "trouble"} \cup (IF q \in Doubtful THEN {"doubt"} ELSE {})

-----------------------------------------------------------------------------
(***************************************************************************)
(* Alert evidence.  An analysis has the hour it was made at, its key, its  *)
(* text and what the text is about (`gist`), and its alert: none decided,  *)
(* unsent, or sent at an hour to a recipient, and whether the rows prove   *)
(* the hour and the recipient.                                             *)
(***************************************************************************)

Bucket(hour) == hour \div BucketHours

\* The query of a bucket takes its analyses and the alerts sent in it.
Counted(a) == a.alert = "sent" /\ Bucket(a.sent) = Bucket(a.made)

Alike(a, b) == a # b /\ a.gist = b.gist

\* What the payloads hold of the analyses A.
Noisy(A) == Cardinality({a \in A : Counted(a)}) >= NoisyAt

RepeatedContent(A) == \E a, b \in A : a # b /\ a.text = b.text

SimilarGroups(A) == \E a, b \in A : Alike(a, b)

RepeatedDecisions(A) == \E a, b \in A : Alike(a, b) /\ "none" \notin {a.alert, b.alert}

WeakIdentity(A) == \E a, b \in A : (a.text = b.text /\ a.key # b.key) \/ a.key = "odd"

\* The alerts of one recipient and one semantic family are too close.
CooldownGap(A) ==
    \E a, b \in {c \in A : Counted(c) /\ c.proof} :
        a # b /\ a.key = b.key /\ a.to = b.to /\ b.sent - a.sent \in 0..(StrictCooldown - 1)

Finding(d, A) ==
    \/ d = "noisy_alert_symbols" /\ Noisy(A)
    \/ d = "repeated_alert_content" /\ RepeatedContent(A)
    \/ d = "similar_alert_groups" /\ SimilarGroups(A)
    \/ d = "llm_repeated_alert_true_for_similar_situations" /\ RepeatedDecisions(A)
    \/ d = "weak_event_identity" /\ WeakIdentity(A)
    \/ d = "cooldown_effectiveness_gap" /\ CooldownGap(A)

\* Sent alerts of which it is not known when or to whom.
Unverified(d, A) ==
    d = "cooldown_effectiveness_gap" /\ \E a \in A : Counted(a) /\ ~a.proof

-----------------------------------------------------------------------------
InitEvidence ==
    /\ watched \in Detectors
    /\ rows \in {r \in [NeedsOf(watched) -> {"none", "quiet", "trouble", "doubt"}] :
                    \A q \in NeedsOf(watched) : r[q] \in Answers(q)}
    /\ alerts \in IF watched \in AlertDetectors THEN Worlds ELSE {{}}
    /\ endpoint \in IF watched = "health_endpoint_unavailable"
                     THEN {"unset", "down", "unwell", "ok"} ELSE {"ok"}
    /\ errors \in IF watched = "exception_patterns_in_logs" THEN SUBSET LogFiles ELSE {{}}
    /\ rowCap \in RowCaps
    /\ step = "role"
    /\ found = {} /\ file = "absent" /\ evidence = {}
    /\ health = "none" /\ scanned = {} /\ rotated = {}
    /\ lapsed = FALSE /\ verdict = "none" /\ heading = "none"

Lapse(failed) == lapsed' = (lapsed \/ failed)

\* With another role than the reader's nothing is asked, and no file of alert
\* evidence has any of a detector's keys.
CheckRole ==
    /\ step = "role"
    /\ \/ step' = "queries" /\ UNCHANGED lapsed
       \/ step' = "health" /\ Lapse(TRUE)
    /\ UNCHANGED <<worldVars, bundleVars, verdict, heading>>

\* Each query has a transaction of its own: those that fail leave a warning.
RunQueries ==
    /\ step = "queries" /\ step' = "buckets"
    /\ \E failed \in SUBSET NeedsOf(watched) :
           found' = NeedsOf(watched) \ failed /\ Lapse(failed # {})
    /\ UNCHANGED <<worldVars, file, evidence, health, scanned, rotated, verdict, heading>>

Buckets == {Bucket(a.made) : a \in alerts} \cup {0}

\* The rows read if the queries of the buckets in `failed` fail: the newest of
\* the other buckets, one bucket after the other, as long as there is room.
RowsRead(failed) ==
    LET answered == {a \in alerts : Bucket(a.made) \notin failed}
    IN  {a \in answered : Cardinality({b \in answered : b.made > a.made}) < rowCap}

\* Buckets are read newest first until the cap is reached.  A payload built of
\* them has warnings if a bucket failed or the cap was reached.
ReadBuckets ==
    /\ step = "buckets" /\ step' = "health"
    /\ \E failed \in SUBSET Buckets :
           /\ evidence' = RowsRead(failed)
           /\ file' = IF failed # {} \/ Cardinality(RowsRead(failed)) >= rowCap
                      THEN "partial" ELSE "whole"
           /\ Lapse(file' = "partial")
    /\ UNCHANGED <<worldVars, found, health, scanned, rotated, verdict, heading>>

\* What was collected is lost if the database collector fails as a whole.
LoseDatabase ==
    /\ step \in {"queries", "buckets"} /\ step' = "health"
    /\ found' = {} /\ file' = "absent" /\ evidence' = {}
    /\ Lapse(TRUE)
    /\ UNCHANGED <<worldVars, health, scanned, rotated, verdict, heading>>

\* An endpoint that is down or whose answer is lost, that answers with an error
\* or says that it is not well, has failed.
ReadHealth ==
    /\ step = "health" /\ step' = "logs"
    /\ health' = IF endpoint \in {"down", "unwell"} THEN "failed"
                 ELSE IF endpoint = "unset" THEN "unknown" ELSE "ok"
    /\ Lapse(health' # "ok")
    /\ UNCHANGED <<worldVars, found, file, evidence, scanned, rotated, verdict, heading>>

\* Files are listed and then opened by their names, oldest first.
ReadLogs ==
    /\ step = "logs" /\ step' = "rest"
    /\ \E unread \in SUBSET errors : \E gone \in SUBSET (errors \ unread) :
           /\ scanned' = errors \ (unread \cup gone)
           /\ rotated' = gone
           /\ Lapse(unread # {})
    /\ UNCHANGED <<worldVars, found, file, evidence, health, verdict, heading>>

\* The other log files, the state of the containers and of the agent itself.
CollectRest ==
    /\ step = "rest" /\ step' = "detect"
    /\ \E failed \in BOOLEAN : Lapse(failed)
    /\ UNCHANGED <<worldVars, bundleVars, verdict, heading>>

-----------------------------------------------------------------------------
(***************************************************************************)
(* Detectors.                                                              *)
(***************************************************************************)

DeliveriesKnown ==
    rows["alerts_summary"] # "none" \/ rows["market_events_summary"] = "none"

\* db_result: a missing query outweighs whatever the others tell.
QueriesVerdict ==
    IF ~(NeedsOf(watched) \subseteq found) THEN "unknown"
    ELSE IF watched = "no_alert_deliveries_observed"
         THEN IF DeliveriesKnown THEN "clear" ELSE "unknown"
    ELSE IF \E q \in Telling(watched) : rows[q] = "trouble" THEN "triggered"
    ELSE IF \E q \in Telling(watched) :
                rows[q] = "doubt" \/ (rows[q] = "none" /\ q \in SilentWhenBlind)
         THEN "unknown" ELSE "clear"

\* Bug: partial evidence without a finding is clean.
FileVerdictOfAny ==
    IF file = "absent" THEN "unknown"
    ELSE IF Finding(watched, evidence) THEN "triggered"
    ELSE IF Unverified(watched, evidence) THEN "unknown" ELSE "clear"

\* file_result: a finding in partial evidence is a finding, but no finding is
\* not a clean result.
FileVerdict ==
    IF file = "absent" THEN "unknown"
    ELSE IF Finding(watched, evidence) THEN "triggered"
    ELSE IF Unverified(watched, evidence) \/ file = "partial" THEN "unknown" ELSE "clear"

Verdict ==
    IF watched \in QueryDetectors THEN QueriesVerdict
    ELSE IF watched \in AlertDetectors THEN FileVerdict
    ELSE IF watched = "health_endpoint_unavailable"
         THEN IF health = "ok" THEN "clear" ELSE "triggered"
    ELSE IF scanned # {} THEN "triggered" ELSE "clear"

Detect ==
    /\ step = "detect" /\ step' = "context"
    /\ \/ verdict' = Verdict /\ UNCHANGED lapsed
       \/ Lapse(TRUE) /\ UNCHANGED verdict
    /\ UNCHANGED <<worldVars, bundleVars, heading>>

\* The other detectors and the quality of the alerts have a say as well.
WriteContext ==
    /\ step = "context" /\ step' = "done"
    /\ heading' \in IF lapsed \/ verdict \in {"triggered", "unknown"}
                    THEN {"other"} ELSE {"healthy", "other"}
    /\ UNCHANGED <<worldVars, bundleVars, lapsed, verdict>>

NextEvidence ==
    \/ CheckRole \/ RunQueries \/ ReadBuckets \/ LoseDatabase \/ ReadHealth
    \/ ReadLogs \/ CollectRest \/ Detect \/ WriteContext

SpecEvidence == InitEvidence /\ [][NextEvidence]_evidenceVars

-----------------------------------------------------------------------------
TypeOKEvidence ==
    /\ watched \in Detectors
    /\ step \in {"role", "queries", "buckets", "health", "logs", "rest", "detect",
                 "context", "done"}
    /\ found \subseteq NeedsOf(watched)
    /\ file \in {"absent", "partial", "whole"} /\ evidence \subseteq alerts
    /\ health \in {"none", "unknown", "failed", "ok"}
    /\ scanned \cup rotated \subseteq errors /\ lapsed \in BOOLEAN
    /\ verdict \in {"none", "triggered", "unknown", "clear"}
    /\ heading \in {"none", "healthy", "other"}

\* Nothing the watched detector looks for was there to be found.
Sound ==
    /\ \A q \in Telling(watched) : rows[q] \in {"none", "quiet"}
    /\ watched \in AlertDetectors => ~Finding(watched, alerts) /\ ~Unverified(watched, alerts)
    /\ watched = "health_endpoint_unavailable" => endpoint = "ok"

\* A detector is clear only of what is not there, whatever failed while the
\* evidence was collected (docs/ops_agent_service.md: missing evidence is not
\* healthy evidence); one that reads log files may miss the lines of a file
\* that could not be read, which the bundle then says, or that was rotated
\* away.  A packet headed "healthy" misses nothing but the latter.
ClearIsEarned ==
    /\ verdict = "clear" =>
           /\ Sound
           /\ lapsed \/ errors \subseteq rotated
    /\ heading = "healthy" => verdict = "clear" /\ Sound /\ errors \subseteq rotated

=============================================================================
