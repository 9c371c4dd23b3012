-------------------------- MODULE NewsIntelligence --------------------------
(***************************************************************************)
(* The classification of news                                              *)
(* (bot/services/news_intelligence_service.py, bot/db/news.py, bot/news.py)*)
(* by the hourly ingestion and by jobs that want news for a report.        *)
(* Batches of one process take turns; each selects articles by the rows in *)
(* the database, counts the model calls of the last hour, and then works   *)
(* article by article, with a call to the model in between.  Calls fail,   *)
(* their outcome is not always recorded, and the process may crash.        *)
(***************************************************************************)
EXTENDS Integers, FiniteSets

CONSTANTS
    Articles,       \* news keys
    Noise,          \* those whose text says it is noise
    Stories,
    StoryOf,        \* StoryOf[a]: the dedup group before the model is asked
    Jobs,
    Ingestion,      \* the job that also retries what failed before
    Nobody,
    PerBatch,       \* NEWS_INTELLIGENCE_MAX_ITEMS_PER_RUN
    CallsPerBatch,  \* NEWS_INTELLIGENCE_MAX_LLM_CALLS_PER_RUN
    CallsPerHour,   \* NEWS_INTELLIGENCE_MAX_LLM_CALLS_PER_HOUR
    Fresh,          \* hours a failed row is retried for
    Misses,         \* bound on the outcomes not stored in an hour
    LastHour        \* bound on the clock

ASSUME NewsAssumption ==
    /\ IsFiniteSet(Articles) /\ Noise \subseteq Articles
    /\ StoryOf \in [Articles -> Stories]
    /\ Ingestion \in Jobs /\ Nobody \notin Jobs
    /\ {PerBatch, CallsPerBatch, CallsPerHour, Fresh, Misses, LastHour} \subseteq Nat

VARIABLES
    hour,
    turn,           \* the job that holds _NEWS_INTELLIGENCE_LOCK, or Nobody
    class,          \* class[a]: llm_status of a's row, "none" without one
    updated,        \* updated[a]: when that row was last written
    grouped,        \* rows that carry the story as their group, not a hint
    called,         \* called[h]: calls that ended in hour h
    missed,         \* missed[h]: those of them whose outcome was not stored
    batch,          \* batch[j]: the articles job j has yet to work on
    reworded,       \* reworded[j]: those whose text is not that of the row
    before,         \* before[j]: calls of the hour before, read at the start
    calls,          \* calls[j]: _run_llm_calls
    told,           \* told[j]: stories the batch has met
    asking          \* asking[j]: the articles the model is being asked about

newsRows == <<class, updated, grouped>>
batchVars == <<batch, reworded, before, calls, told, asking>>
newsVars == <<hour, turn, newsRows, called, missed, batchVars>>

Classes == {"none", "success", "failed", "skipped_budget", "skipped_noise", "skipped_duplicate"}

InitNews ==
    /\ hour = 0 /\ turn = Nobody
    /\ class = [a \in Articles |-> "none"]
    /\ updated = [a \in Articles |-> 0]
    /\ grouped = {}
    /\ called = [h \in 0..LastHour |-> 0]
    /\ missed = [h \in 0..LastHour |-> 0]
    /\ batch = [j \in Jobs |-> {}]
    /\ reworded = [j \in Jobs |-> {}]
    /\ before = [j \in Jobs |-> 0]
    /\ calls = [j \in Jobs |-> 0]
    /\ told = [j \in Jobs |-> {}]
    /\ asking = [j \in Jobs |-> {}]

LastTwo(count) == count[hour] + (IF hour = 0 THEN 0 ELSE count[hour - 1])

Unsettled == {a \in Articles : class[a] \in {"failed", "skipped_budget"}}
Cached(a) == class[a] \in {"success", "skipped_noise", "skipped_duplicate"}

Cooling == {a \in Unsettled : updated[a] > hour - 1}

Retryable == {a \in Unsettled : hour - Fresh <= updated[a] /\ updated[a] <= hour - 1}

Eligible(j, feed, edited) ==
    {a \in feed \ Cooling : Cached(a) => a \in edited}
      \cup (IF j = Ingestion THEN Retryable ELSE {})

SelectItems(j, feed, edited) ==
    LET eligible == Eligible(j, feed, edited)
    IN \E items \in SUBSET eligible :
        /\ items # {}
        /\ Cardinality(items) <= PerBatch
        /\ items = eligible \/ Cardinality(items) = PerBatch
        /\ batch' = [batch EXCEPT ![j] = items]
        /\ reworded' = [reworded EXCEPT ![j] = edited]
        /\ before' = [before EXCEPT ![j] = LastTwo(called) - LastTwo(missed)]
        /\ calls' = [calls EXCEPT ![j] = 0]
        /\ told' = [told EXCEPT ![j] = {}]
        /\ UNCHANGED <<hour, newsRows, called, missed, asking>>

\* The lock, the selection and the count.  The feed's text of an article may
\* differ from the one its row was made of.
StartBatch(j) ==
    /\ turn = Nobody
    /\ turn' = j
    /\ \E feed \in SUBSET Articles : \E edited \in SUBSET feed : SelectItems(j, feed, edited)

StoreResult(a, result) ==
    /\ class' = [class EXCEPT ![a] = result]
    /\ updated' = [updated EXCEPT ![a] = hour]

\* A row with the story as its group that belongs to another article.
Covered(a) == \E b \in grouped \ {a} : StoryOf[b] = StoryOf[a]

\* Bug: the calls of the hour are not counted, only those of the batch.
BudgetAllowsBatch(j) == calls[j] < CallsPerBatch

BudgetAllows(j) ==
    /\ calls[j] < CallsPerBatch
    /\ before[j] + calls[j] < CallsPerHour

Skip(j, a, result) ==
    /\ StoreResult(a, result)
    /\ grouped' = grouped \cup {a}
    /\ UNCHANGED asking

\* _process_item up to the call: a cached row, noise, a duplicate, the budget.
Process(j, a) ==
    /\ a \in batch[j] /\ asking[j] = {}
    /\ batch' = [batch EXCEPT ![j] = @ \ {a}]
    /\ LET duplicate == StoryOf[a] \in told[j] \/ Covered(a)
       IN \/ /\ Cached(a) /\ a \notin reworded[j]
             /\ UNCHANGED <<newsRows, told, asking>>
          \/ /\ Cached(a) => a \in reworded[j]
             /\ \/ a \in Noise /\ Skip(j, a, "skipped_noise") /\ UNCHANGED told
                \/ /\ a \notin Noise /\ duplicate
                   /\ Skip(j, a, "skipped_duplicate")
                   /\ UNCHANGED told
                \/ /\ a \notin Noise /\ ~duplicate
                   /\ told' = [told EXCEPT ![j] = @ \cup {StoryOf[a]}]
                   /\ \/ ~BudgetAllows(j) /\ Skip(j, a, "skipped_budget")
                      \/ /\ BudgetAllows(j)
                         /\ asking' = [asking EXCEPT ![j] = {a}]
                         /\ UNCHANGED newsRows
    /\ UNCHANGED <<hour, turn, called, missed, reworded, before, calls>>

\* The answer: a success may move the row to a group named by a hint, a failure
\* keeps the story; an answer that fails validation counts twice.
Classify(j) ==
    \E a \in asking[j] :
        /\ asking' = [asking EXCEPT ![j] = {}]
        /\ \/ /\ StoreResult(a, "success")
              /\ grouped' \in {grouped \cup {a}, grouped \ {a}}
              /\ calls' = [calls EXCEPT ![j] = @ + 1]
           \/ /\ StoreResult(a, "failed")
              /\ grouped' = grouped \cup {a}
              /\ \E n \in 1..2 : calls' = [calls EXCEPT ![j] = @ + n]
        /\ called' = [called EXCEPT ![hour] = @ + 1]
        /\ \/ UNCHANGED missed
           \/ /\ missed[hour] < Misses
              /\ missed' = [missed EXCEPT ![hour] = @ + 1]
        /\ UNCHANGED <<hour, turn, batch, reworded, before, told>>

EndBatch(j) ==
    /\ turn = j /\ batch[j] = {} /\ asking[j] = {}
    /\ turn' = Nobody
    /\ reworded' = [reworded EXCEPT ![j] = {}]
    /\ before' = [before EXCEPT ![j] = 0]
    /\ calls' = [calls EXCEPT ![j] = 0]
    /\ told' = [told EXCEPT ![j] = {}]
    /\ UNCHANGED <<hour, newsRows, called, missed, batch, asking>>

\* The process restarts; rows that are committed stay.
CrashNews ==
    /\ turn # Nobody
    /\ turn' = Nobody
    /\ batch' = [j \in Jobs |-> {}] /\ reworded' = [j \in Jobs |-> {}]
    /\ told' = [j \in Jobs |-> {}] /\ asking' = [j \in Jobs |-> {}]
    /\ before' = [j \in Jobs |-> 0] /\ calls' = [j \in Jobs |-> 0]
    /\ UNCHANGED <<hour, newsRows, called, missed>>

NextHour ==
    /\ hour < LastHour
    /\ hour' = hour + 1
    /\ UNCHANGED <<turn, newsRows, called, missed, batchVars>>

NextNews ==
    \/ \E j \in Jobs :
        \/ StartBatch(j) \/ Classify(j) \/ EndBatch(j)
        \/ \E a \in Articles : Process(j, a)
    \/ CrashNews
    \/ NextHour

SpecNews == InitNews /\ [][NextNews]_newsVars

-----------------------------------------------------------------------------
\* Every variable has its type, and only the job whose turn it is has a batch.
TypeOKNews ==
    /\ hour \in 0..LastHour
    /\ turn \in Jobs \cup {Nobody}
    /\ class \in [Articles -> Classes]
    /\ updated \in [Articles -> 0..LastHour]
    /\ grouped \subseteq Articles
    /\ {called, missed} \subseteq [0..LastHour -> Nat]
    /\ {batch, reworded, asking} \subseteq [Jobs -> SUBSET Articles]
    /\ {before, calls} \subseteq [Jobs -> Nat]
    /\ told \in [Jobs -> SUBSET Stories]
    /\ \A j \in Jobs \ {turn} : batch[j] = {} /\ asking[j] = {}

\* Any two hours that follow each other see no more model calls than the hourly
\* cap, whichever jobs made them and although a batch counts only at its start,
\* but for one more for each whose outcome was not stored.
CallsWithinHour == LastTwo(called) <= CallsPerHour + LastTwo(missed)

\* An article that failed, or that the budget skipped, is not given to the model
\* again within the hour, by whichever job, feed and text.
NotRetriedAtOnce ==
    [][\A j \in Jobs : \A a \in asking'[j] \ asking[j] :
         a \in Unsettled => updated[a] < hour]_newsVars

\* A failed or skipped article is recovered: a retry drops it as a duplicate only
\* if another article of its story was classified.
FailureIsRecovered ==
    [][\A a \in Unsettled :
         class'[a] = "skipped_duplicate" =>
             \E b \in Articles \ {a} : StoryOf[b] = StoryOf[a] /\ class[b] = "success"]_newsVars

\* After every step the model was asked no more often than the plan allows, however
\* the jobs, their failures and the restarts of the process interleave.
NewsRationed == [][CallsWithinHour']_newsVars /\ NotRetriedAtOnce

=============================================================================
