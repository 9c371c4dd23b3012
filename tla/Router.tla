------------------------------- MODULE Router -------------------------------
(***************************************************************************)
(* The LLM router (bot/services/llm/router.py): logical calls of a process *)
(* walk their chains of provider/model targets at the same time, sharing   *)
(* the circuit breakers and the rate-limit back-offs of the targets, and   *)
(* turn what they met into one result or one exception.  Provider answers  *)
(* are the classes of bot/services/llm/telemetry.py.                       *)
(***************************************************************************)
EXTENDS Naturals, Sequences, Circuit

CONSTANTS
    Calls,          \* concurrent logical calls
    Kind,           \* Kind[c]: "analysis" (it has a deadline), "render" or "other"
    Targets,        \* (provider, model) pairs
    Chain,          \* Chain[c]: the targets of the call type whose provider has its
                    \* configuration, in the order of their priority
    Paid,           \* the targets the OpenAI budget may refuse
    Metered         \* the targets the local Groq budget may refuse

ASSUME RouterAssumption ==
    /\ Kind \in [Calls -> {"analysis", "render", "other"}]
    /\ Chain \in [Calls -> Seq(Targets)]

VARIABLES
    circuit,        \* circuit[t]: the breaker of t
    unreported,     \* unreported[t]: the probe of t was used without a report
    limited,        \* limited[t]: t is in its rate-limit back-off
    phase,          \* phase[c]: where the call is
    position,       \* position[c]: the index in the chain
    notes,          \* notes[c]: what the call met, as <<target, category>>
    late,           \* late[c]: the operation's deadline has passed
    cut,            \* cut[c]: operation_budget_exhausted
    verdict         \* verdict[c]: the result or the exception

sharedVars == <<circuit, unreported, limited>>
callVars   == <<phase, position, notes, late, cut, verdict>>
routerVars == <<sharedVars, callVars>>

\* Met without a request, and answers to a request.
Unasked  == {"skipped", "backoff", "refused"}
Requests == {"limited", "fault", "badJson", "invalid"}
Categories == Unasked \cup Requests

Verdicts == {"none", "answered", "defect", "deadline", "invalid", "backoff",
             "rate_limited", "circuit_broken", "failed"}

AtEnd(c) == position[c] > Len(Chain[c])
Target(c) == Chain[c][position[c]]

InitRouter ==
    /\ circuit = [t \in Targets |-> "closed"]
    /\ unreported = [t \in Targets |-> FALSE]
    /\ limited = [t \in Targets |-> FALSE]
    /\ phase = [c \in Calls |-> "idle"]
    /\ position = [c \in Calls |-> 1]
    /\ notes = [c \in Calls |-> {}]
    /\ late = [c \in Calls |-> FALSE]
    /\ cut = [c \in Calls |-> FALSE]
    /\ verdict = [c \in Calls |-> "none"]

\* The call met `category` at its target and goes on with the next one.
Advance(c, category) ==
    /\ notes' = [notes EXCEPT ![c] = @ \cup {<<Target(c), category>>}]
    /\ position' = [position EXCEPT ![c] = @ + 1]
    /\ phase' = [phase EXCEPT ![c] = "walk"]

End(c, v) ==
    /\ verdict' = [verdict EXCEPT ![c] = v]
    /\ phase' = [phase EXCEPT ![c] = "done"]

\* The breaker hears nothing of the attempt, or ignores its reason.
NoWord(c) ==
    /\ unreported' = [unreported EXCEPT ![Target(c)] = @ \/ circuit[Target(c)] = "half"]
    /\ UNCHANGED circuit

-----------------------------------------------------------------------------
Begin(c) ==
    /\ phase[c] = "idle"
    /\ phase' = [phase EXCEPT ![c] = "walk"]
    /\ UNCHANGED <<sharedVars, position, notes, late, cut, verdict>>

SkipOpen(c) ==
    /\ phase[c] = "walk" /\ ~AtEnd(c)
    /\ Skips(circuit[Target(c)])
    /\ Advance(c, "skipped")
    /\ UNCHANGED <<sharedVars, late, cut, verdict>>

Admitted(c) ==
    /\ phase[c] = "walk" /\ ~AtEnd(c)
    /\ ~Skips(circuit[Target(c)])
    /\ \E s \in CircuitStates :
        /\ Admits(circuit[Target(c)], s)
        /\ circuit' = [circuit EXCEPT ![Target(c)] = s]
    /\ unreported' = [unreported EXCEPT ![Target(c)] = @ /\ circuit[Target(c)] # "due"]
    /\ phase' = [phase EXCEPT ![c] = "admitted"]
    /\ UNCHANGED <<limited, position, notes, late, cut, verdict>>

\* Bug: the probe is not given back.
RefusedKeepingProbe(c, category) ==
    /\ Advance(c, category)
    /\ UNCHANGED <<sharedVars, late, cut, verdict>>

\* No request leaves the process: the probe, if it is one, is given back.
Refused(c, category) ==
    /\ Advance(c, category)
    /\ \E s \in CircuitStates :
        /\ GivesBack(circuit[Target(c)], s) \/ GivesBackLate(circuit[Target(c)], s)
        /\ circuit' = [circuit EXCEPT ![Target(c)] = s]
    /\ UNCHANGED <<unreported, limited, late, cut, verdict>>

\* The provider is in its back-off, or the local Groq budget says the same.
MeetBackoff(c) ==
    /\ phase[c] = "admitted" /\ ~late[c]
    /\ limited[Target(c)] \/ Target(c) \in Metered
    /\ Refused(c, "backoff")

MeetBudget(c) ==
    /\ phase[c] = "admitted" /\ ~late[c]
    /\ ~limited[Target(c)] /\ Target(c) \in Paid
    /\ Refused(c, "refused")

Request(c) ==
    /\ phase[c] = "admitted" /\ ~late[c]
    /\ ~limited[Target(c)]
    /\ phase' = [phase EXCEPT ![c] = "requested"]
    /\ UNCHANGED <<sharedVars, position, notes, late, cut, verdict>>

-----------------------------------------------------------------------------
AnswerLimited(c) ==
    /\ phase[c] = "requested"
    /\ limited' = [limited EXCEPT ![Target(c)] = TRUE]
    /\ Advance(c, "limited")
    /\ NoWord(c)
    /\ UNCHANGED <<late, cut, verdict>>

\* A failure that counts for the breaker: the model, the key or the quota.
AnswerBroken(c) ==
    /\ phase[c] = "requested"
    /\ \E s \in CircuitStates :
        /\ Fails(circuit[Target(c)], s)
        /\ circuit' = [circuit EXCEPT ![Target(c)] = s]
    /\ Advance(c, "fault")
    /\ UNCHANGED <<unreported, limited, late, cut, verdict>>

\* A timeout, a 5xx or a network error; a timeout cut short by the deadline
\* also exhausts the operation.
AnswerTransient(c) ==
    /\ phase[c] = "requested"
    /\ cut' \in {cut, [cut EXCEPT ![c] = @ \/ late[c]]}
    /\ Advance(c, "fault")
    /\ NoWord(c)
    /\ UNCHANGED <<limited, late, verdict>>

\* The provider itself rejected the JSON the model produced.
AnswerBadJson(c) ==
    /\ phase[c] = "requested"
    /\ Advance(c, "badJson")
    /\ NoWord(c)
    /\ UNCHANGED <<limited, late, cut, verdict>>

\* A defect of the request ends the call.
AnswerDefect(c) ==
    /\ phase[c] = "requested"
    /\ End(c, "defect")
    /\ NoWord(c)
    /\ UNCHANGED <<limited, position, notes, late, cut>>

AnswerText(c) ==
    /\ phase[c] = "requested"
    /\ circuit' = [circuit EXCEPT ![Target(c)] = "closed"]
    /\ phase' = [phase EXCEPT ![c] = "judging"]
    /\ UNCHANGED <<unreported, limited, position, notes, late, cut, verdict>>

\* validate_response accepts the text, or the next target is tried.
Judge(c) ==
    /\ phase[c] = "judging"
    /\ \/ End(c, "answered") /\ UNCHANGED <<position, notes>>
       \/ Advance(c, "invalid") /\ UNCHANGED verdict
    /\ UNCHANGED <<sharedVars, late, cut>>

\* Less than a second is left before a request, or asyncio.timeout cancels the
\* call wherever it waits.
DeadlineEnds(c) ==
    /\ late[c]
    /\ phase[c] \in {"walk", "admitted", "requested", "judging"}
    /\ End(c, "deadline")
    /\ IF phase[c] \in {"admitted", "requested"} THEN NoWord(c)
                                                 ELSE UNCHANGED <<circuit, unreported>>
    /\ UNCHANGED <<limited, position, notes, late, cut>>

-----------------------------------------------------------------------------
Met(c, categories) == \E n \in notes[c] : n[2] \in categories

\* provider_json_validate_failed is invalid output for renders only.
InvalidNoted(c) ==
    \/ Met(c, {"invalid"})
    \/ Kind[c] = "render" /\ Met(c, {"badJson"})

\* saw_other_fallback.
OtherNoted(c) == Met(c, {"fault", "badJson", "refused"})

\* Bug: a 429 is believed before the other failures are looked at.
ExhaustedHastily(c) ==
    IF cut[c] THEN "deadline"
    ELSE IF InvalidNoted(c) THEN "invalid"
    ELSE IF Met(c, {"limited"}) THEN "rate_limited"
    ELSE IF Met(c, {"backoff"}) /\ ~Met(c, Requests) /\ ~OtherNoted(c) THEN "backoff"
    ELSE IF Met(c, {"skipped"}) /\ ~Met(c, Requests) THEN "circuit_broken"
    ELSE "failed"

\* The exception of an exhausted chain: the first rule that applies.
Exhausted(c) ==
    IF cut[c] THEN "deadline"
    ELSE IF InvalidNoted(c) THEN "invalid"
    ELSE IF Met(c, {"backoff"}) /\ ~Met(c, Requests) /\ ~OtherNoted(c) THEN "backoff"
    ELSE IF Met(c, {"limited"}) /\ ~OtherNoted(c) THEN "rate_limited"
    ELSE IF Met(c, {"skipped"}) /\ ~Met(c, Requests) THEN "circuit_broken"
    ELSE "failed"

Conclude(c) ==
    /\ phase[c] = "walk" /\ AtEnd(c)
    /\ End(c, Exhausted(c))
    /\ UNCHANGED <<sharedVars, position, notes, late, cut>>

\* The provider answered, and its output did not pass.
Unusable == {"invalid", "badJson"}

\* _llm_all_exhausted_attempts_invalid_output: the render stage may then fall
\* back to a text of its own.
Recoverable(c) ==
    /\ verdict[c] = "invalid"
    /\ notes[c] # {}
    /\ \A n \in notes[c] : n[2] \in Unusable

\* The caller has its answer and may call again.
Return(c) ==
    /\ phase[c] = "done"
    /\ phase' = [phase EXCEPT ![c] = "idle"]
    /\ position' = [position EXCEPT ![c] = 1]
    /\ notes' = [notes EXCEPT ![c] = {}]
    /\ late' = [late EXCEPT ![c] = FALSE]
    /\ cut' = [cut EXCEPT ![c] = FALSE]
    /\ verdict' = [verdict EXCEPT ![c] = "none"]
    /\ UNCHANGED sharedVars

DeadlinePasses(c) ==
    /\ Kind[c] = "analysis" /\ ~late[c] /\ phase[c] \notin {"idle", "done"}
    /\ late' = [late EXCEPT ![c] = TRUE]
    /\ UNCHANGED <<sharedVars, phase, position, notes, cut, verdict>>

\* An interval of a breaker, or the wait for its probe, elapses.
CircuitElapses(t) ==
    /\ Skips(circuit[t])
    /\ circuit' = [circuit EXCEPT ![t] = "due"]
    /\ UNCHANGED <<unreported, limited, callVars>>

BackoffEnds(t) ==
    /\ limited[t]
    /\ limited' = [limited EXCEPT ![t] = FALSE]
    /\ UNCHANGED <<circuit, unreported, callVars>>

\* Breakers, back-offs and calls are in memory.
RestartRouter ==
    /\ \E c \in Calls : phase[c] # "idle"
    /\ circuit' = [t \in Targets |-> "closed"]
    /\ unreported' = [t \in Targets |-> FALSE]
    /\ limited' = [t \in Targets |-> FALSE]
    /\ phase' = [c \in Calls |-> "idle"]
    /\ position' = [c \in Calls |-> 1]
    /\ notes' = [c \in Calls |-> {}]
    /\ late' = [c \in Calls |-> FALSE]
    /\ cut' = [c \in Calls |-> FALSE]
    /\ verdict' = [c \in Calls |-> "none"]

CallStep(c) ==
    \/ SkipOpen(c) \/ Admitted(c) \/ MeetBackoff(c) \/ MeetBudget(c) \/ Request(c)
    \/ AnswerLimited(c) \/ AnswerBroken(c) \/ AnswerTransient(c) \/ AnswerBadJson(c)
    \/ AnswerDefect(c) \/ AnswerText(c)
    \/ Judge(c) \/ DeadlineEnds(c) \/ Conclude(c)

NextRouter ==
    \/ \E c \in Calls : Begin(c) \/ CallStep(c) \/ Return(c) \/ DeadlinePasses(c)
    \/ \E t \in Targets : CircuitElapses(t) \/ BackoffEnds(t)
    \/ RestartRouter

SpecRouter == InitRouter /\ [][NextRouter]_routerVars

-----------------------------------------------------------------------------
TypeOKRouter ==
    /\ circuit \in [Targets -> CircuitStates]
    /\ unreported \in [Targets -> BOOLEAN]
    /\ limited \in [Targets -> BOOLEAN]
    /\ phase \in [Calls -> {"idle", "walk", "admitted", "requested", "judging", "done"}]
    /\ position \in [Calls -> Nat \ {0}] /\ \A c \in Calls : position[c] <= Len(Chain[c]) + 1
    /\ notes \in [Calls -> SUBSET (Targets \X Categories)]
    /\ late \in [Calls -> BOOLEAN] /\ cut \in [Calls -> BOOLEAN]
    /\ verdict \in [Calls -> Verdicts]
    /\ \A c \in Calls : phase[c] \in {"admitted", "requested", "judging"} => ~AtEnd(c)

\* What the callers conclude from the exception is what happened: a rate limit
\* means that every request was answered with 429, an active back-off or a
\* broken circuit that no request was made, and invalid output that some
\* provider produced it; and a render recovers with a text of its own only when
\* every configured target was asked and answered unusable output, however
\* breakers, budgets and other calls interfere.
VerdictTruthful ==
    \A c \in Calls :
        /\ verdict[c] = "rate_limited" =>
              /\ Met(c, {"limited"})
              /\ \A n \in notes[c] : n[2] \in Requests => n[2] = "limited"
        /\ verdict[c] \in {"backoff", "circuit_broken"} => ~Met(c, Requests)
        /\ verdict[c] = "invalid" => Met(c, Unusable)
        /\ Recoverable(c) =>
              \A i \in 1..Len(Chain[c]) : \E n \in notes[c] : n[1] = Chain[c][i] /\ n[2] \in Unusable

\* record_not_attempted's purpose: while a breaker waits for a probe, a call is
\* on its way with it, or the probe was spent on a request or a deadline.
ProbeAccounted ==
    \A t \in Targets : circuit[t] = "half" =>
        \/ unreported[t]
        \/ \E c \in Calls : phase[c] \in {"admitted", "requested"} /\ Target(c) = t

\* The docstring of the router: "if every provider that made a request hit a
\* rate limit -> AIProviderRateLimitError".
RateLimitWhenAllLimited ==
    \A c \in Calls : verdict[c] = "failed" /\ Met(c, Requests) =>
        \E n \in notes[c] : n[2] \in Requests \ {"limited"}

=============================================================================
