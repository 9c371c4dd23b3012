------------------------------ MODULE Breaker ------------------------------
(***************************************************************************)
(* The circuit breaker of one (call type, provider, model) triple          *)
(* (bot/services/llm/breaker.py) and the router's calls of it              *)
(* (bot/services/llm/router.py).  Several logical LLM calls of a process   *)
(* run at once: each asks whether to skip the triple, attempts it, and     *)
(* reports what happened, perhaps long after the breaker has moved on.     *)
(* Deadlines are modelled as the time left until them.                     *)
(***************************************************************************)
EXTENDS Integers, Sequences, Circuit

CONSTANTS
    Callers,        \* concurrent logical calls
    Threshold,      \* LLM_BREAKER_FAILURE_THRESHOLD
    Schedule,       \* LLM_BREAKER_BACKOFF_SECONDS
    ProbeTimeout,   \* _HALF_OPEN_PROBE_TIMEOUT_SECONDS
    MinGap,         \* a lower bound of the schedule and of the probe timeout
    Horizon         \* bound on the measured time since the last probe

Steps == 1..Len(Schedule)

ASSUME BreakerAssumption ==
    /\ Threshold \in Nat \ {0}
    /\ Schedule \in Seq(Nat \ {0}) /\ Schedule # <<>>
    /\ ProbeTimeout \in Nat \ {0}
    /\ MinGap \in Nat /\ Horizon \in Nat /\ MinGap <= Horizon
    /\ MinGap <= ProbeTimeout /\ \A i \in Steps : MinGap <= Schedule[i]

VARIABLES
    failures,       \* consecutive_failures, counted up to Threshold
    armed,          \* open_until is set
    openLeft,       \* time left until open_until
    index,          \* backoff_index + 1
    halfOpen,       \* half_open
    probeLeft,      \* time left until the probe counts as abandoned
    trying,         \* the callers between should_skip and their report
    opened,         \* the breaker opened since the last success or restart
    sinceProbe      \* time since the last probe after that, up to Horizon

breakerVars == <<failures, armed, openLeft, index, halfOpen, probeLeft>>
vars == <<breakerVars, trying, opened, sinceProbe>>

Init ==
    /\ failures = 0 /\ armed = FALSE /\ openLeft = 0 /\ index = 1
    /\ halfOpen = FALSE /\ probeLeft = 0
    /\ trying = {}
    /\ opened = FALSE /\ sinceProbe = Horizon

\* The state of a triple that never failed, which is not stored.
Forget ==
    /\ failures' = 0 /\ armed' = FALSE /\ openLeft' = 0 /\ index' = 1
    /\ halfOpen' = FALSE /\ probeLeft' = 0
    /\ opened' = FALSE /\ sinceProbe' = Horizon

\* A caller that asks now is told to use another provider.
Skipped == IF halfOpen THEN probeLeft > 0 ELSE armed /\ openLeft > 0

\* should_skip of a breaker that never opened or closed again.
Admit(c) ==
    /\ c \notin trying
    /\ ~halfOpen /\ ~armed
    /\ trying' = trying \cup {c}
    /\ UNCHANGED <<breakerVars, opened, sinceProbe>>

\* Bug: the hand-out does not mark the breaker half-open.
HandOutManyProbes(c) ==
    /\ c \notin trying
    /\ halfOpen \/ armed
    /\ ~Skipped
    /\ probeLeft' = ProbeTimeout
    /\ trying' = trying \cup {c}
    /\ sinceProbe' = 0
    /\ UNCHANGED <<failures, armed, openLeft, index, halfOpen, opened>>

\* should_skip after the interval, or after a probe that never reported.
HandOutProbe(c) ==
    /\ c \notin trying
    /\ halfOpen \/ armed
    /\ ~Skipped
    /\ armed' = FALSE /\ openLeft' = 0
    /\ halfOpen' = TRUE /\ probeLeft' = ProbeTimeout
    /\ trying' = trying \cup {c}
    /\ sinceProbe' = 0
    /\ UNCHANGED <<failures, index, opened>>

RecordSuccess(c) ==
    /\ c \in trying
    /\ Forget
    /\ trying' = trying \ {c}

\* Bug: the last step of the schedule is not the last word.
RecordFailurePastSchedule(c) ==
    /\ c \in trying
    /\ failures' = IF failures < Threshold THEN failures + 1 ELSE failures
    /\ halfOpen' = FALSE /\ probeLeft' = 0
    /\ IF failures' < Threshold /\ ~halfOpen
       THEN UNCHANGED <<armed, openLeft, index, opened>>
       ELSE /\ index' = IF halfOpen THEN index + 1 ELSE index
            /\ armed' = TRUE /\ openLeft' = Schedule[Len(Schedule)]
            /\ opened' = TRUE
    /\ trying' = trying \ {c}
    /\ UNCHANGED sinceProbe

\* Bug: a late failure forgets the interval that is running.
RecordFailureForgetsInterval(c) ==
    /\ c \in trying
    /\ failures' = IF failures < Threshold THEN failures + 1 ELSE failures
    /\ halfOpen' = FALSE /\ probeLeft' = 0
    /\ IF halfOpen \/ (failures' = Threshold /\ ~armed)
       THEN /\ index' = IF halfOpen /\ index < Len(Schedule) THEN index + 1 ELSE index
            /\ armed' = TRUE /\ openLeft' = Schedule[index']
            /\ opened' = TRUE
       ELSE armed' = FALSE /\ openLeft' = 0 /\ UNCHANGED <<index, opened>>
    /\ trying' = trying \ {c}
    /\ UNCHANGED sinceProbe

\* A deterministic failure, of the probe or of an attempt admitted earlier.
RecordFailure(c) ==
    /\ c \in trying
    /\ failures' = IF failures < Threshold THEN failures + 1 ELSE failures
    /\ halfOpen' = FALSE /\ probeLeft' = 0
    /\ IF failures' < Threshold /\ ~halfOpen
       THEN UNCHANGED <<armed, openLeft, index, opened>>
       ELSE /\ index' = IF halfOpen /\ index < Len(Schedule) THEN index + 1 ELSE index
            /\ armed' = TRUE /\ openLeft' = Schedule[index']
            /\ opened' = TRUE
    /\ trying' = trying \ {c}
    /\ UNCHANGED sinceProbe

\* record_not_attempted: the provider's own back-off or the budget refused.
RecordNotAttempted(c) ==
    /\ c \in trying
    /\ IF halfOpen
       THEN /\ halfOpen' = FALSE /\ probeLeft' = 0
            /\ armed' = TRUE /\ openLeft' = Schedule[index]
       ELSE UNCHANGED <<halfOpen, probeLeft, armed, openLeft>>
    /\ trying' = trying \ {c}
    /\ UNCHANGED <<failures, index, opened, sinceProbe>>

\* A rate limit, a timeout, a 5xx, an exhausted deadline or a cancelled call:
\* the breaker is not told, or ignores it.
NoReport(c) ==
    /\ c \in trying
    /\ trying' = trying \ {c}
    /\ UNCHANGED <<breakerVars, opened, sinceProbe>>

\* The state is in memory: a restart closes the breaker.
Restart ==
    /\ opened \/ trying # {} \/ failures > 0
    /\ Forget
    /\ trying' = {}

\* Bug: an outstanding probe is waited for without a limit.
TickWithoutProbeTimeout ==
    /\ openLeft > 0 \/ sinceProbe < Horizon
    /\ openLeft' = IF openLeft > 0 THEN openLeft - 1 ELSE 0
    /\ sinceProbe' = IF sinceProbe < Horizon THEN sinceProbe + 1 ELSE Horizon
    /\ UNCHANGED <<failures, armed, index, halfOpen, probeLeft, trying, opened>>

Tick ==
    /\ openLeft > 0 \/ probeLeft > 0 \/ sinceProbe < Horizon
    /\ openLeft' = IF openLeft > 0 THEN openLeft - 1 ELSE 0
    /\ probeLeft' = IF probeLeft > 0 THEN probeLeft - 1 ELSE 0
    /\ sinceProbe' = IF sinceProbe < Horizon THEN sinceProbe + 1 ELSE Horizon
    /\ UNCHANGED <<failures, armed, index, halfOpen, trying, opened>>

Next ==
    \/ \E c \in Callers :
        \/ Admit(c) \/ HandOutProbe(c)
        \/ RecordSuccess(c) \/ RecordFailure(c) \/ RecordNotAttempted(c) \/ NoReport(c)
    \/ Restart
    \/ Tick

Spec == Init /\ [][Next]_vars

\* Time passes.  Nothing is assumed of the callers: they may never report.
FairSpec == Spec /\ WF_vars(Tick)

-----------------------------------------------------------------------------
\* Every variable has its type; a half-open breaker is not also open.
TypeOK ==
    /\ failures \in 0..Threshold
    /\ armed \in BOOLEAN /\ openLeft \in Nat
    /\ index \in Steps
    /\ halfOpen \in BOOLEAN /\ probeLeft \in 0..ProbeTimeout
    /\ trying \subseteq Callers
    /\ opened \in BOOLEAN /\ sinceProbe \in 0..Horizon
    /\ halfOpen => ~armed

Starts(c) == c \notin trying /\ c \in trying'

\* From its opening to the next success, a breaker lets one attempt through per
\* MinGap at most, however many callers race for it and however late earlier
\* attempts report.
AttemptsRationed ==
    [][\A c \in Callers : opened /\ Starts(c) => sinceProbe >= MinGap]_vars

\* A triple is not skipped forever, even if its probes never report back: the
\* reason for _HALF_OPEN_PROBE_TIMEOUT_SECONDS.
NotSkippedForever == []<>~Skipped

\* The breaker in the four states that the router knows.
CircuitView ==
    IF halfOpen THEN IF probeLeft > 0 THEN "half" ELSE "due"
    ELSE IF armed THEN IF openLeft > 0 THEN "open" ELSE "due"
    ELSE "closed"

CircuitStep(c) ==
    /\ Admit(c) \/ HandOutProbe(c) => Admits(CircuitView, CircuitView')
    /\ RecordSuccess(c) => Closes(CircuitView, CircuitView')
    /\ RecordFailure(c) => Fails(CircuitView, CircuitView')
    /\ RecordNotAttempted(c) => \/ GivesBack(CircuitView, CircuitView')
                                \/ GivesBackLate(CircuitView, CircuitView')
    /\ NoReport(c) => CircuitView' = CircuitView

\* The schedule, the counters and the deadlines implement the four-state
\* circuit that the router's model is built on, call by call: in particular a
\* closed breaker never jumps to a probe, and a late failure never closes it.
BehavesAsCircuit ==
    [][/\ \A c \in Callers : CircuitStep(c)
       /\ Tick => Elapses(CircuitView, CircuitView')
       /\ Restart => Closes(CircuitView, CircuitView')]_vars

=============================================================================
