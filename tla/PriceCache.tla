----------------------------- MODULE PriceCache -----------------------------
(***************************************************************************)
(* The CoinGecko price cache of a bot process                              *)
(* (bot/services/price_service.py): price lookups that share one request   *)
(* per symbol, the batch request of the market check and heartbeat jobs,   *)
(* rate limits, and the warm-up from persisted prices.  A price is         *)
(* represented by the time the provider quoted it.                         *)
(***************************************************************************)
EXTENDS Integers

CONSTANTS
    Symbols,        \* COIN_SYMBOL_TO_ID
    Callers,        \* users of get_coin_price
    Tasks,          \* names for the tasks of _refresh_coin_price
    NoTask,
    TTL,            \* PRICE_CACHE_TTL_SECONDS
    Backoff,        \* _PRICE_PROVIDER_BACKOFF_SECONDS
    Retries,        \* max_retries of _get_with_retry
    Start,          \* the time at start-up, long after the epoch
    End             \* bound on the clock

ASSUME PriceAssumption ==
    /\ Symbols # {} /\ NoTask \notin Tasks
    /\ TTL \in Nat /\ Backoff \in Nat /\ Retries \in Nat
    /\ Start \in Nat /\ End \in Nat /\ TTL < Start /\ Start <= End

VARIABLES
    now,
    cache,          \* _PRICE_CACHE: quoted, at, and whether it was re-stamped
    inFlight,       \* _PRICE_IN_FLIGHT
    backoff,        \* _PRICE_PROVIDER_BACKOFF_UNTIL
    task,           \* the state, the symbol and the retries left of each task
    waitsFor,       \* waitsFor[c]: the task that caller c awaits, or NoTask
    batch,          \* retries left of the batch request, -1 without one
    answer,         \* answer[c]: what c was told last
    limited         \* limited[s]: when a lookup of s last ran out of retries

vars == <<now, cache, inFlight, backoff, task, waitsFor, batch, answer, limited>>

Times == 0..End
Entries == [quoted : Times \cup {-1}, at : Times, restamped : BOOLEAN]
NoEntry == [quoted |-> -1, at |-> 0, restamped |-> FALSE]
TaskStates == {"free", "asking", "done", "failed"}
Answers == {"none", "current", "old", "restamped", "error"}

Fresh(s) == now - cache[s].at <= TTL

\* What a caller is given from the cache, judged by the age of the quote.
Served(s) ==
    IF now - cache[s].quoted <= TTL THEN "current"
    ELSE IF cache[s].restamped THEN "restamped" ELSE "old"

\* Bug: a persisted price of unknown age enters the cache as current.
WarmEntriesCurrent == {NoEntry, [quoted |-> 0, at |-> Start, restamped |-> FALSE]}

\* No entry and a persisted price of unknown age are both expired.
WarmEntries == {NoEntry, [quoted |-> 0, at |-> 0, restamped |-> FALSE]}

FreeTask == [state |-> "free", symbol |-> CHOOSE s \in Symbols : TRUE, left |-> 0]

Init ==
    /\ now = Start
    /\ cache \in [Symbols -> WarmEntries]
    /\ inFlight = [s \in Symbols |-> NoTask]
    /\ backoff = [s \in Symbols |-> 0]
    /\ task = [t \in Tasks |-> FreeTask]
    /\ waitsFor = [c \in Callers |-> NoTask]
    /\ batch = -1
    /\ answer = [c \in Callers |-> "none"]
    /\ limited = [s \in Symbols |-> 0]

Finished(t) == task[t].state \in {"done", "failed"}
Tell(c, what) == answer' = [answer EXCEPT ![c] = what]
Set(t, state) == task' = [task EXCEPT ![t].state = state]

AskCached(c, s) ==
    /\ waitsFor[c] = NoTask
    /\ Fresh(s)
    /\ Tell(c, Served(s))
    /\ UNCHANGED <<now, cache, inFlight, backoff, task, waitsFor, batch, limited>>

AskInBackoff(c, s) ==
    /\ waitsFor[c] = NoTask
    /\ ~Fresh(s) /\ now < backoff[s]
    /\ Tell(c, "error")
    /\ UNCHANGED <<now, cache, inFlight, backoff, task, waitsFor, batch, limited>>

Running(t) == t # NoTask /\ task[t].state = "asking"

Join(c, s) ==
    /\ waitsFor[c] = NoTask
    /\ ~Fresh(s) /\ now >= backoff[s]
    /\ Running(inFlight[s])
    /\ waitsFor' = [waitsFor EXCEPT ![c] = inFlight[s]]
    /\ UNCHANGED <<now, cache, inFlight, backoff, task, batch, answer, limited>>

\* The check and the registration of the task are one step of the event loop.
Request(c, s) ==
    /\ waitsFor[c] = NoTask
    /\ ~Fresh(s) /\ now >= backoff[s]
    /\ ~Running(inFlight[s])
    /\ \E t \in Tasks :
          /\ task[t].state = "free"
          /\ task' = [task EXCEPT ![t] = [state |-> "asking", symbol |-> s, left |-> Retries]]
          /\ inFlight' = [inFlight EXCEPT ![s] = t]
          /\ waitsFor' = [waitsFor EXCEPT ![c] = t]
    /\ UNCHANGED <<now, cache, backoff, batch, answer, limited>>

Quote == [quoted |-> now, at |-> now, restamped |-> FALSE]

\* A price: the provider's back-off of the symbol ends and the cache is set.
Receive(t) ==
    /\ task[t].state = "asking"
    /\ Set(t, "done")
    /\ cache' = [cache EXCEPT ![task[t].symbol] = Quote]
    /\ backoff' = [backoff EXCEPT ![task[t].symbol] = 0]
    /\ UNCHANGED <<now, inFlight, waitsFor, batch, answer, limited>>

\* A network error, or a response without the coin, which ends the back-off too.
Fail(t) ==
    /\ task[t].state = "asking"
    /\ Set(t, "failed")
    /\ \/ UNCHANGED backoff
       \/ backoff' = [backoff EXCEPT ![task[t].symbol] = 0]
    /\ UNCHANGED <<now, cache, inFlight, waitsFor, batch, answer, limited>>

Retry(t) ==
    /\ task[t].state = "asking" /\ task[t].left > 0
    /\ task' = [task EXCEPT ![t].left = @ - 1]
    /\ UNCHANGED <<now, cache, inFlight, backoff, waitsFor, batch, answer, limited>>

\* Bug: the attempts start over while the provider says 429.
GiveUpNever(t) ==
    /\ task[t].state = "asking" /\ task[t].left = 0
    /\ task' = [task EXCEPT ![t].left = Retries]
    /\ UNCHANGED <<now, cache, inFlight, backoff, waitsFor, batch, answer, limited>>

\* The last 429: no stale price is used, and the symbol is left alone for a while.
GiveUp(t) ==
    /\ task[t].state = "asking" /\ task[t].left = 0
    /\ Set(t, "failed")
    /\ backoff' = [backoff EXCEPT ![task[t].symbol] = now + Backoff]
    /\ limited' = [limited EXCEPT ![task[t].symbol] = now]
    /\ UNCHANGED <<now, cache, inFlight, waitsFor, batch, answer>>

\* Bug: the callback removes whatever task the symbol has by now.
ForgetAnyTask(t) ==
    /\ Finished(t)
    /\ inFlight' = [inFlight EXCEPT ![task[t].symbol] = NoTask]
    /\ task' = [task EXCEPT ![t] = FreeTask]
    /\ waitsFor' = [c \in Callers |-> IF waitsFor[c] = t THEN NoTask ELSE waitsFor[c]]
    /\ answer' = [c \in Callers |->
          IF waitsFor[c] # t THEN answer[c]
          ELSE IF task[t].state = "done" THEN "current" ELSE "error"]
    /\ UNCHANGED <<now, cache, backoff, batch, limited>>

\* The callbacks of a finished task: it is forgotten, unless another one took
\* its place meanwhile, and its waiters are resumed with its result.
ForgetTask(t) ==
    /\ Finished(t)
    /\ inFlight' = [inFlight EXCEPT ![task[t].symbol] = IF @ = t THEN NoTask ELSE @]
    /\ task' = [task EXCEPT ![t] = FreeTask]
    /\ waitsFor' = [c \in Callers |-> IF waitsFor[c] = t THEN NoTask ELSE waitsFor[c]]
    /\ answer' = [c \in Callers |->
          IF waitsFor[c] # t THEN answer[c]
          ELSE IF task[t].state = "done" THEN "current" ELSE "error"]
    /\ UNCHANGED <<now, cache, backoff, batch, limited>>

\* A waiter is cancelled; asyncio.shield keeps the request for the others.
Cancel(c) ==
    /\ waitsFor[c] # NoTask
    /\ waitsFor' = [waitsFor EXCEPT ![c] = NoTask]
    /\ Tell(c, "none")
    /\ UNCHANGED <<now, cache, inFlight, backoff, task, batch, limited>>

BatchRequest ==
    /\ batch = -1
    /\ batch' = Retries
    /\ UNCHANGED <<now, cache, inFlight, backoff, task, waitsFor, answer, limited>>

\* The symbols the response has are cached, whoever else is asking for them.
BatchReceive ==
    /\ batch >= 0
    /\ batch' = -1
    /\ \E present \in SUBSET Symbols :
          cache' = [s \in Symbols |-> IF s \in present THEN Quote ELSE cache[s]]
    /\ UNCHANGED <<now, inFlight, backoff, task, waitsFor, answer, limited>>

BatchRetry ==
    /\ batch > 0
    /\ batch' = batch - 1
    /\ UNCHANGED <<now, cache, inFlight, backoff, task, waitsFor, answer, limited>>

\* After the last 429 the expired entries stand in for the response, and are
\* cached again as of now.  A network error, or an empty cache, changes nothing.
BatchGiveUp ==
    /\ batch >= 0
    /\ batch' = -1
    /\ \/ batch = 0 /\ cache' = [s \in Symbols |->
             IF cache[s] = NoEntry THEN NoEntry
             ELSE [quoted |-> cache[s].quoted, at |-> now, restamped |-> TRUE]]
       \/ UNCHANGED cache
    /\ UNCHANGED <<now, inFlight, backoff, task, waitsFor, answer, limited>>

\* Callbacks that are ready run before a measurable time has passed.
Tick ==
    /\ now < End
    /\ \A t \in Tasks : ~Finished(t)
    /\ now' = now + 1
    /\ UNCHANGED <<cache, inFlight, backoff, task, waitsFor, batch, answer, limited>>

Ask(c, s) == AskCached(c, s) \/ AskInBackoff(c, s) \/ Join(c, s) \/ Request(c, s)
TaskStep(t) == Receive(t) \/ Fail(t) \/ Retry(t) \/ GiveUp(t) \/ ForgetTask(t)
BatchStep == BatchReceive \/ BatchRetry \/ BatchGiveUp

Next ==
    \/ \E c \in Callers : Cancel(c) \/ \E s \in Symbols : Ask(c, s)
    \/ \E t \in Tasks : TaskStep(t)
    \/ BatchRequest \/ BatchStep
    \/ Tick

Spec == Init /\ [][Next]_vars

\* Requests have a timeout of ten seconds.
FairSpec == Spec /\ \A t \in Tasks : WF_vars(TaskStep(t))

-----------------------------------------------------------------------------
\* Every variable has its type, and only a live task of the symbol is registered.
TypeOK ==
    /\ now \in Start..End
    /\ cache \in [Symbols -> Entries]
    /\ inFlight \in [Symbols -> Tasks \cup {NoTask}]
    /\ backoff \in [Symbols -> Nat]
    /\ task \in [Tasks -> [state : TaskStates, symbol : Symbols, left : 0..Retries]]
    /\ waitsFor \in [Callers -> Tasks \cup {NoTask}]
    /\ batch \in -1..Retries
    /\ answer \in [Callers -> Answers]
    /\ limited \in [Symbols -> Times]
    /\ \A s \in Symbols : inFlight[s] # NoTask =>
          task[inFlight[s]].symbol = s /\ task[inFlight[s]].state # "free"

\* However callers, failures and callbacks interleave, lookups have at most one
\* request per symbol under way.
SingleFlight ==
    \A t, u \in Tasks :
        Running(t) /\ Running(u) /\ task[t].symbol = task[u].symbol => t = u

Starts(t) == ~Running(t) /\ Running(t)'

\* After a lookup of a symbol ran out of retries, the provider is not asked for
\* that symbol again before the back-off is over.
BackoffRespected ==
    [][\A t \in Tasks : \A s \in Symbols :
          Starts(t) /\ task'[t].symbol = s =>
              limited[s] = 0 \/ now >= limited[s] + Backoff]_vars

\* A price older than the TTL is served only after a batch re-stamped it, never
\* out of the warm-up.
OldPriceOnlyRestamped == \A c \in Callers : answer[c] # "old"

\* _refresh_coin_price's docstring: "Never silently present expired data as
\* current."
NeverExpired == \A c \in Callers : answer[c] \notin {"old", "restamped"}

\* Whoever waits for a request is answered, or gives up.
EveryCallerAnswered == \A c \in Callers : waitsFor[c] # NoTask ~> waitsFor[c] = NoTask

=============================================================================
