----------------------------- MODULE StatusPage -----------------------------
(***************************************************************************)
(* The administrator's System Status (bot/observability/system_status.py). *)
(* One session asks the database section by section, one statement after   *)
(* the other, while checks, analyses, news jobs and deliveries go on: each *)
(* statement sees what is committed by then.  Any statement may fail, and  *)
(* PostgreSQL then refuses the others of the transaction.  A behaviour     *)
(* builds one page and changes what one of the sections, `subject`, reads. *)
(***************************************************************************)
EXTENDS Naturals, FiniteSets

CONSTANTS
    StatusCoins,    \* SUPPORTED_SYMBOLS
    Deliveries      \* rows of alerts

VARIABLES
    subject,        \* the section whose tables change
    prices,         \* prices[c]: "missing", "never", "stale" or "fresh"
    analysis,       \* what came of the latest event analysis
    logical,        \* what a day's operations say (LogicalHealth)
    news,           \* [saved, usable, enriched]: the rows of news_items
    delivery,       \* delivery[d]: [status, recent, cause]
    statement,      \* the statement the page is at
    aborted,        \* a statement of the transaction has failed
    returned,       \* what the statements so far have returned
    sections,       \* the statuses on the page
    failedBefore,   \* deliveries that had failed when the page was asked for (history)
    standing,       \* unsettled deliveries no statement saw change (history)
    steady          \* the analysis has not changed either (history)

factVars == <<subject, prices, analysis, logical, news, delivery>>
historyVars == <<failedBefore, standing, steady>>
pageVars == <<factVars, statement, aborted, returned, sections, historyVars>>

Subjects == {"prices", "analysis", "news", "delivery"}
Analyses24h == {"none", "success", "limited", "failed", "other"}
LogicalStates == {"failed", "degraded", "incomplete", "complete"}
NewsRows == [saved : {"none", "old", "recent"}, usable : BOOLEAN, enriched : {"failed", "other"}]
Unavailable == {"blocked", "unavailable"}

\* The rows that exist; a failure that is not final is an older version's.
Rows24h ==
    [status : {"none"}, recent : {TRUE}, cause : {"real"}]
    \cup [status : {"pending", "retry_pending", "failed", "sent"}, recent : BOOLEAN, cause : {"real"}]
    \cup [status : {"final"}, recent : BOOLEAN, cause : {"real"} \cup Unavailable]

Ordinary == [saved |-> "recent", usable |-> TRUE, enriched |-> "other"]
Delivered == [status |-> "sent", recent |-> TRUE, cause |-> "real"]

NothingReturned ==
    [prices |-> {}, analysis |-> "none", logical |-> "complete", saved |-> "none",
     usable |-> FALSE, enriched |-> "other", counts |-> {}, finalized |-> FALSE,
     failures |-> {}, unsettled |-> FALSE]

Failed(d) == delivery[d].status = "final" /\ delivery[d].cause = "real"
Unsettled24h(d) ==
    delivery[d].recent /\ delivery[d].status \in {"pending", "retry_pending", "failed"}

InitPage ==
    /\ subject \in Subjects
    /\ prices \in IF subject = "prices" THEN [StatusCoins -> {"missing", "never", "stale", "fresh"}]
                  ELSE [StatusCoins -> {"fresh"}]
    /\ analysis \in IF subject = "analysis" THEN Analyses24h ELSE {"success"}
    /\ logical \in IF subject = "analysis" THEN LogicalStates ELSE {"complete"}
    /\ news \in IF subject = "news" THEN NewsRows ELSE {Ordinary}
    /\ delivery \in [Deliveries -> IF subject = "delivery" THEN Rows24h ELSE {Delivered}]
    /\ statement = "connect" /\ aborted = FALSE /\ returned = NothingReturned
    /\ sections = [s \in {} |-> "OK"]
    /\ failedBefore = {d \in Deliveries : Failed(d)}
    /\ standing = {d \in Deliveries : Unsettled24h(d)}
    /\ steady = TRUE

-----------------------------------------------------------------------------
(***************************************************************************)
(* What the rest of the bot commits meanwhile.                             *)
(***************************************************************************)

Reading == statement # "shown"

CheckPrice(c) ==
    /\ Reading /\ subject = "prices"
    /\ prices' = [prices EXCEPT ![c] = "fresh"]
    /\ UNCHANGED <<subject, analysis, logical, news, delivery, statement, aborted, returned, sections,
                   historyVars>>

EndAnalysis ==
    /\ Reading /\ subject = "analysis"
    /\ analysis' \in Analyses24h \ {"none"} /\ logical' \in LogicalStates
    /\ steady' = FALSE
    /\ UNCHANGED <<subject, prices, news, delivery, statement, aborted, returned, sections,
                   failedBefore, standing>>

SaveNews ==
    /\ Reading /\ subject = "news"
    /\ news' \in {n \in NewsRows : n.saved = "recent" /\ (news.usable => n.usable)}
    /\ UNCHANGED <<subject, prices, analysis, logical, delivery, statement, aborted, returned, sections,
                   historyVars>>

\* A row is reserved, waits for another try, or is settled.
Progress(d) ==
    /\ Reading /\ subject = "delivery"
    /\ \E row \in Rows24h :
        /\ row.recent = delivery[d].recent
        /\ \/ delivery[d].status \in {"none", "failed"} /\ row.status = "pending"
           \/ delivery[d].status = "pending" /\ row.status = "retry_pending"
           \/ delivery[d].status \in {"pending", "retry_pending"} /\ row.status \in {"sent", "final"}
        /\ delivery' = [delivery EXCEPT ![d] = row]
    /\ standing' = standing \ {d}
    /\ UNCHANGED <<subject, prices, analysis, logical, news, statement, aborted, returned, sections,
                   failedBefore, steady>>

-----------------------------------------------------------------------------
(***************************************************************************)
(* The sections.                                                           *)
(***************************************************************************)

\* A coin without a row or without a check fails, a stale one warns.
MarketStatus ==
    IF returned.prices \subseteq {"missing", "never"} THEN "FAIL"
    ELSE IF returned.prices = {"fresh"} THEN "OK" ELSE "WARN"

LatestStatus ==
    CASE returned.analysis = "success" -> "OK"
      [] returned.analysis = "limited" -> "WARN"
      [] returned.analysis = "failed" -> "FAIL"
      [] OTHER -> "UNKNOWN"

\* Bug: the day's operations decide alone.
AnalysisStatusOfDay ==
    IF returned.analysis = "none" THEN "UNKNOWN"
    ELSE IF returned.logical = "failed" THEN "FAIL"
    ELSE IF returned.logical = "degraded" THEN "WARN"
    ELSE IF returned.logical = "complete" THEN "OK" ELSE "UNKNOWN"

\* What is missing takes away an "OK" and nothing else.
AnalysisStatus ==
    IF returned.analysis = "none" THEN "UNKNOWN"
    ELSE IF returned.logical = "failed" THEN "FAIL"
    ELSE IF returned.logical = "degraded" THEN "WARN"
    ELSE IF returned.logical \in {"incomplete", "gap"} /\ LatestStatus = "OK" THEN "UNKNOWN"
    ELSE LatestStatus

NewsStatus ==
    IF returned.saved = "none" THEN "UNKNOWN"
    ELSE IF returned.saved = "recent" /\ returned.usable /\ returned.enriched # "failed" THEN "OK" ELSE "WARN"

DeliveryStatus ==
    IF returned.counts = {} /\ ~returned.finalized THEN "WARN"
    ELSE IF "real" \in returned.failures THEN "FAIL"
    ELSE IF returned.unsettled \/ returned.counts \cap {"pending", "retry_pending"} # {} THEN "WARN"
    ELSE IF "sent" \in returned.counts \/ returned.failures # {} THEN "OK" ELSE "UNKNOWN"

Rank(status) ==
    CASE status = "OK" -> 0 [] status = "UNKNOWN" -> 1 [] status = "WARN" -> 2 [] OTHER -> 3

\* The heading has the worst of them.
Overall == CHOOSE s \in {sections[n] : n \in DOMAIN sections} :
              \A n \in DOMAIN sections : Rank(sections[n]) <= Rank(s)

-----------------------------------------------------------------------------
(***************************************************************************)
(* The statements, in their order.                                         *)
(***************************************************************************)

Ask(here, next, result) ==
    /\ statement = here /\ ~aborted /\ statement' = next /\ returned' = result
    /\ UNCHANGED <<factVars, aborted, sections, historyVars>>

OpenSession == Ask("connect", "prices", returned)

ReadPrices == Ask("prices", "analysis", [returned EXCEPT !.prices = {prices[c] : c \in StatusCoins}])

\* The latest analysis; the latest success and failure add text.
ReadAnalysis == Ask("analysis", "logical", [returned EXCEPT !.analysis = analysis])

ReadLogical == Ask("logical", "saved", [returned EXCEPT !.logical = logical])

\* The exception is caught here, the transaction stays aborted.
LogicalFails ==
    /\ statement = "logical" /\ ~aborted
    /\ statement' = "saved" /\ aborted' = TRUE
    /\ returned' = [returned EXCEPT !.logical = "gap"]
    /\ UNCHANGED <<factVars, sections, historyVars>>

ReadSaved ==
    Ask("saved", IF news.saved = "none" THEN "counts" ELSE "usable", [returned EXCEPT !.saved = news.saved])

ReadUsable == Ask("usable", "enriched", [returned EXCEPT !.usable = news.usable])

ReadEnriched == Ask("enriched", "counts", [returned EXCEPT !.enriched = news.enriched])

StatusOfRow(d) == IF delivery[d].status = "final" THEN "failed" ELSE delivery[d].status

ReadCounts ==
    Ask("counts", "finalized",
        [returned EXCEPT !.counts = {StatusOfRow(d) : d \in {x \in Deliveries :
                                    delivery[x].recent /\ delivery[x].status # "none"}}])

Finalized == {d \in Deliveries : delivery[d].status = "final"}

ReadFinalized == Ask("finalized", "failures", [returned EXCEPT !.finalized = Finalized # {}])

\* The count of blocked users follows, and changes no status.
ReadFailures == Ask("failures", "unsettled", [returned EXCEPT !.failures = {delivery[d].cause : d \in Finalized}])

FailedForNow == {d \in Deliveries : delivery[d].recent /\ delivery[d].status = "failed"}

\* Bug: rows of one window are set off against those of the other.
UnsettledByDifference ==
    Cardinality({d \in Deliveries : delivery[d].recent /\ delivery[d].status \in {"failed", "final"}})
        > Cardinality(Finalized)

NotSettled == FailedForNow # {}

ReadUnsettled == Ask("unsettled", "render", [returned EXCEPT !.unsettled = NotSettled])

\* Outside the analysis section an exception ends the page.
StatementFails ==
    /\ statement \notin {"logical", "render", "shown"}
    /\ statement' = "shown" /\ aborted' = TRUE
    /\ sections' = [s \in {"Database"} |-> "FAIL"]
    /\ UNCHANGED <<factVars, returned, historyVars>>

Render ==
    /\ statement = "render" /\ statement' = "shown"
    /\ sections' = [s \in {"Database", "Market", "AI", "News", "Telegram"} |->
                      CASE s = "Market" -> MarketStatus [] s = "AI" -> AnalysisStatus
                        [] s = "News" -> NewsStatus [] s = "Telegram" -> DeliveryStatus
                        [] OTHER -> "OK"]
    /\ UNCHANGED <<factVars, aborted, returned, historyVars>>

NextPage ==
    \/ \E c \in StatusCoins : CheckPrice(c)
    \/ EndAnalysis \/ SaveNews
    \/ \E d \in Deliveries : Progress(d)
    \/ OpenSession \/ ReadPrices \/ ReadAnalysis \/ ReadLogical \/ LogicalFails
    \/ ReadSaved \/ ReadUsable \/ ReadEnriched
    \/ ReadCounts \/ ReadFinalized \/ ReadFailures \/ ReadUnsettled
    \/ StatementFails \/ Render

SpecPage == InitPage /\ [][NextPage]_pageVars

-----------------------------------------------------------------------------
(***************************************************************************)
(* Properties.                                                             *)
(***************************************************************************)

Statements == {"connect", "prices", "analysis", "logical", "saved", "usable", "enriched", "counts",
               "finalized", "failures", "unsettled", "render", "shown"}
Statuses24h == {"OK", "WARN", "FAIL", "UNKNOWN"}

TypeOKPage ==
    /\ prices \in [StatusCoins -> {"missing", "never", "stale", "fresh"}]
    /\ analysis \in Analyses24h /\ logical \in LogicalStates /\ news \in NewsRows
    /\ delivery \in [Deliveries -> Rows24h]
    /\ statement \in Statements /\ aborted \in BOOLEAN
    /\ returned \in [prices : SUBSET {"missing", "never", "stale", "fresh"}, analysis : Analyses24h,
                 logical : LogicalStates \cup {"gap"}, saved : {"none", "old", "recent"},
                 usable : BOOLEAN, enriched : {"failed", "other"},
                 counts : SUBSET {"pending", "retry_pending", "failed", "sent"},
                 finalized : BOOLEAN, failures : SUBSET ({"real"} \cup Unavailable),
                 unsettled : BOOLEAN]
    /\ DOMAIN sections \in {{}, {"Database"}, {"Database", "Market", "AI", "News", "Telegram"}}
    /\ \A n \in DOMAIN sections : sections[n] \in Statuses24h
    /\ failedBefore \cup standing \subseteq Deliveries /\ steady \in BOOLEAN

Shows(name, statuses) == name \in DOMAIN sections => sections[name] \in statuses

\* Although no moment is the one the page shows, it hides nothing that was so
\* all the time it was made (the comments of system_status.py at lines 1190
\* and 510): a delivery that had failed is shown as a failure, one that waits as
\* a warning at least, and a failed analysis as a failure, or as degraded where
\* the day's operations say so.  Nor does it accuse: a failure is shown only if
\* some delivery failed for another reason than its recipient, and "OK" only if
\* some delivery was settled.
PageTruthful ==
    statement = "shown" =>
        /\ failedBefore # {} => Shows("Telegram", {"FAIL"})
        /\ standing # {} => Shows("Telegram", {"WARN", "FAIL"})
        /\ steady /\ analysis = "failed" =>
               Shows("AI", IF logical = "degraded" THEN {"WARN"} ELSE {"FAIL"})
        /\ (\A d \in Deliveries : ~Failed(d)) => Shows("Telegram", Statuses24h \ {"FAIL"})
        /\ (\A d \in Deliveries : delivery[d].status \notin {"sent", "final"}) =>
               Shows("Telegram", Statuses24h \ {"OK"})
        /\ Overall = "OK" => failedBefore \cup standing = {}

\* "A query gap must not overwrite a proven terminal failure", and the latest
\* failure is preserved, as the comments at lines 452 and 510 say.
GapKeepsFailure ==
    statement = "shown" /\ returned.logical = "gap" /\ returned.analysis = "failed" =>
        "AI" \in DOMAIN sections /\ sections["AI"] = "FAIL"

=============================================================================
