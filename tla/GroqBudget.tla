----------------------------- MODULE GroqBudget -----------------------------
(***************************************************************************)
(* The local admission guard of the free Groq plan                         *)
(* (bot/services/llm/budget.py, and the calls of it in                     *)
(* bot/services/llm/base_provider.py).  An attempt reserves an estimate of *)
(* its tokens in a rolling window of the process before the request, and   *)
(* settles it after.  Requests fail with and without usage, rows of the    *)
(* usage log are lost, and the process restarts: the window is then read   *)
(* back from the log, or found empty if the log cannot be read.            *)
(***************************************************************************)
EXTENDS Integers, FiniteSets, Functions

CONSTANTS
    Attempts,       \* requests of one model, one admission each
    Symbols,        \* SUPPORTED_SYMBOLS
    Other,          \* the owner of every call that is not an event analysis
    Owner,          \* Owner[a]: the symbol a analyses, or Other
    Estimate,       \* Estimate[a]: input and practical completion tokens
    TokenCosts,     \* tokens a request may really use
    Day, Minute,    \* the two windows
    DailyTokens, DailyRequests, MinuteRequests, MinuteTokens,
    SymbolShare,    \* int(DailyTokens * EVENT_SYMBOL_SHARE)
    NoTime,         \* no time
    LastTime        \* bound on the clock

ASSUME GroqAssumption ==
    /\ Other \notin Symbols /\ IsFiniteSet(Symbols) /\ IsFiniteSet(Attempts)
    /\ Owner \in [Attempts -> Symbols \cup {Other}]
    /\ Estimate \in [Attempts -> Nat \ {0}] /\ TokenCosts \subseteq Nat
    /\ {Day, Minute, LastTime, SymbolShare, DailyTokens} \subseteq Nat /\ Minute <= Day
    /\ {DailyRequests, MinuteRequests, MinuteTokens} \subseteq Nat
    /\ Cardinality(Symbols) * SymbolShare <= DailyTokens
    /\ NoTime \notin Nat

VARIABLES
    clock,
    asked,          \* asked[a]: the time a was admitted at
    stage,          \* stage[a]: where a is
    loaded,         \* this process has read the log, or failed to
    counted,        \* counted[a]: when a's charge in the window dates from
    tokens,         \* tokens[a]: of that charge
    used,           \* used[a]: tokens the provider counts for a
    outcome,        \* outcome[a]: what the provider answered
    row,            \* row[a]: when a's row of the usage log was written
    forgotten       \* requests no window can know any more (history variable)

window == <<loaded, counted, tokens>>
groqVars == <<clock, asked, stage, window, used, outcome, row, forgotten>>

Stages == {"new", "sent", "refused", "over"}
Outcomes == {"none", "rejected", "unknown", "reported"}

InitGroq ==
    /\ clock = 0 /\ loaded = FALSE /\ forgotten = {}
    /\ asked = [a \in Attempts |-> NoTime]
    /\ stage = [a \in Attempts |-> "new"]
    /\ counted = [a \in Attempts |-> NoTime]
    /\ tokens = [a \in Attempts |-> 0]
    /\ used = [a \in Attempts |-> 0]
    /\ outcome = [a \in Attempts |-> "none"]
    /\ row = [a \in Attempts |-> NoTime]

Move(a, to) == stage' = [stage EXCEPT ![a] = to]

\* The charges of the window, and those of the last minute, seen from time t.
Charged(t, span) == {a \in Attempts : counted[a] # NoTime /\ counted[a] > t - span}
Tokens(set) == SumFunctionOnSet(tokens, set)
OwnedBy(owner, set) == {a \in set : Owner[a] = owner}

\* What is left to calls that are not event analyses.
Unreserved == DailyTokens - Cardinality(Symbols) * SymbolShare

\* Bug: a row without usage is read back as no tokens.
RowTokensAsLogged(a) == IF outcome[a] = "reported" THEN used[a] ELSE 0

\* The charge a row of the log stands for.  Missing usage is not zero.
RowTokens(a) ==
    CASE outcome[a] = "reported" -> used[a]
      [] outcome[a] = "rejected" -> 0
      [] OTHER -> Estimate[a]

RowsSince(t) == {a \in Attempts : row[a] # NoTime /\ row[a] >= t - Day}

\* The first admission of a process reads the log; when that fails the window
\* stays empty, and counts as loaded.
LoadHistory ==
    /\ ~loaded
    /\ loaded' = TRUE
    /\ \/ /\ counted' = [a \in Attempts |-> IF a \in RowsSince(clock) THEN row[a] ELSE NoTime]
          /\ tokens' = [a \in Attempts |-> IF a \in RowsSince(clock) THEN RowTokens(a) ELSE 0]
          /\ UNCHANGED forgotten
       \/ /\ forgotten' = forgotten \cup RowsSince(clock)
          /\ UNCHANGED <<counted, tokens>>
    /\ UNCHANGED <<clock, asked, stage, used, outcome, row>>

\* Bug: renders and reports draw on the tokens reserved for analyses.
ReserveExhaustedIgnored(a, day) == FALSE

ReserveExhausted(a, day) ==
    Owner[a] = Other /\ Tokens(OwnedBy(Other, day)) + Estimate[a] > Unreserved

\* The guards in the order of the code: the first that holds names the refusal.
Refusal(a) ==
    LET day == Charged(clock, Day)
        minute == Charged(clock, Minute)
    IN CASE Tokens(day) + Estimate[a] > DailyTokens -> "local_tpd"
         [] ReserveExhausted(a, day) -> "non_analysis_reserve"
         [] Cardinality(day) >= DailyRequests -> "local_rpd"
         [] /\ Owner[a] \in Symbols
            /\ Tokens(OwnedBy(Owner[a], day)) + Estimate[a] > SymbolShare -> "symbol_fair_share"
         [] Cardinality(minute) >= MinuteRequests -> "local_rpm"
         [] Tokens(minute) + Estimate[a] > MinuteTokens -> "local_tpm"
         [] OTHER -> "none"

\* A charge of the estimate, or a refusal.  The time is read just before the
\* lock, which is a queue: admissions come in the order of theirs.  A refusal by
\* the quotas of the provider's last headers leaves the same as no request.
Reserve(a) ==
    /\ loaded /\ stage[a] = "new"
    /\ LET pruned == [b \in Attempts |-> IF b \in Charged(clock, Day) THEN counted[b] ELSE NoTime]
       IN \/ /\ Refusal(a) = "none"
             /\ asked' = [asked EXCEPT ![a] = clock]
             /\ counted' = [pruned EXCEPT ![a] = clock]
             /\ tokens' = [tokens EXCEPT ![a] = Estimate[a]]
             /\ Move(a, "sent")
          \/ /\ Refusal(a) # "none"
             /\ counted' = pruned
             /\ Move(a, "refused")
             /\ UNCHANGED <<asked, tokens>>
    /\ UNCHANGED <<clock, loaded, used, outcome, row, forgotten>>

\* Unknown usage stays reserved; a rejection gives the tokens back, and the
\* request stays counted.
LeftOf(a, result, cost) ==
    CASE result = "rejected" -> 0
      [] result = "reported" -> cost
      [] OTHER -> tokens[a]

\* The provider rejects the request before it generates, fails or times out
\* after any amount of work, or reports what it used.  The lease is settled, and
\* a row of the usage log written, which may fail.
SettleLease(a) ==
    /\ stage[a] = "sent"
    /\ \E cost \in TokenCosts, result \in {"rejected", "unknown", "reported"} :
        /\ result = "rejected" <=> cost = 0
        /\ used' = [used EXCEPT ![a] = cost]
        /\ outcome' = [outcome EXCEPT ![a] = result]
        /\ tokens' = [tokens EXCEPT ![a] = LeftOf(a, result, cost)]
    /\ row' \in {row, [row EXCEPT ![a] = clock]}
    /\ Move(a, "over")
    /\ UNCHANGED <<clock, asked, loaded, counted, forgotten>>

\* The process dies with its window and its requests; what a request
\* on its way uses, nobody reports.
RestartGroq ==
    /\ loaded
    /\ loaded' = FALSE
    /\ counted' = [a \in Attempts |-> NoTime]
    /\ tokens' = [a \in Attempts |-> 0]
    /\ stage' = [a \in Attempts |-> IF stage[a] \in {"new", "refused"} THEN stage[a] ELSE "over"]
    /\ used' = [a \in Attempts |-> IF stage[a] = "sent" THEN Estimate[a] ELSE used[a]]
    /\ forgotten' = forgotten \cup
         {a \in Attempts : stage[a] \in {"sent", "over"} /\ row[a] = NoTime}
    /\ UNCHANGED <<clock, asked, outcome, row>>

TickGroq ==
    /\ clock < LastTime
    /\ clock' = clock + 1
    /\ UNCHANGED <<asked, stage, window, used, outcome, row, forgotten>>

NextGroq ==
    \/ \E a \in Attempts : Reserve(a) \/ SettleLease(a)
    \/ LoadHistory
    \/ RestartGroq
    \/ TickGroq

SpecGroq == InitGroq /\ [][NextGroq]_groqVars

-----------------------------------------------------------------------------
Times == 0..LastTime \cup {NoTime}

\* Every variable has its type, and only a process that looked for the log
\* has charges in its window.
TypeOKGroq ==
    /\ clock \in 0..LastTime
    /\ loaded \in BOOLEAN
    /\ stage \in [Attempts -> Stages]
    /\ outcome \in [Attempts -> Outcomes]
    /\ {asked, counted, row} \subseteq [Attempts -> Times]
    /\ {tokens, used} \subseteq [Attempts -> Nat]
    /\ forgotten \subseteq Attempts
    /\ ~loaded => \A a \in Attempts : counted[a] = NoTime

Started == {a \in Attempts : stage[a] \in {"sent", "over"}}

\* In any day the requests use no more than the plan's tokens, across restarts
\* and whatever failed, but for a day with a request that used more than was
\* reserved for it or that left neither a charge nor a row.
DayWithinLimit ==
    \A t \in 0..LastTime :
        LET day == {a \in Started : t - Day < asked[a] /\ asked[a] <= t}
        IN (\A a \in day : used[a] <= Estimate[a] /\ a \notin forgotten)
             => SumFunctionOnSet(used, day) <= DailyTokens

\* The event analysis of a symbol within its share is never refused because the
\* others used up the day, in whatever order the jobs came, but for a day in
\* which a request used more than was reserved for it, was left out of the
\* window of a process that could not read the log, or is counted from the time
\* of its row, later than its own, since a restart.
ShareKept ==
    [][\A a \in Attempts :
         LET day == Charged(clock, Day)
         IN /\ Owner[a] \in Symbols
            /\ stage[a] = "new" /\ stage'[a] = "refused" /\ Refusal(a) = "local_tpd"
            /\ Tokens(OwnedBy(Owner[a], day)) + Estimate[a] <= SymbolShare
            => \E b \in day : \/ tokens[b] > Estimate[b]
                             \/ b \in forgotten
                             \/ counted[b] # asked[b]]_groqVars

=============================================================================
