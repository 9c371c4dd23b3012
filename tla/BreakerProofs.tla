--------------------------- MODULE BreakerProofs ---------------------------
(***************************************************************************)
(* Breaker: type correctness and the spacing of attempts on an open        *)
(* breaker, for any callers, threshold, schedule and probe timeout.        *)
(* Router: type correctness, the account of the probes it is handed and    *)
(* the truth of its verdicts, for any calls, targets and chains.           *)
(***************************************************************************)
EXTENDS Breaker, Router, TLAPS

\* An open breaker is armed or half-open, and not both.
Flags ==
    /\ armed \in BOOLEAN /\ halfOpen \in BOOLEAN /\ opened \in BOOLEAN
    /\ halfOpen => ~armed
    /\ opened <=> armed \/ halfOpen

Numbers ==
    /\ failures \in 0..Threshold /\ index \in Steps
    /\ openLeft \in Nat /\ probeLeft \in 0..ProbeTimeout
    /\ sinceProbe \in 0..Horizon
    /\ trying \subseteq Callers

\* What is left of the deadline makes up for what the last probe's distance
\* lacks.
Rationed ==
    /\ halfOpen => sinceProbe + probeLeft >= MinGap
    /\ armed => sinceProbe + openLeft >= MinGap

BreakerInv == Flags /\ Numbers /\ Rationed

\* The two facts about the steps of the schedule that the proofs use.
LEMMA ScheduleRange ==
    ASSUME NEW i \in Steps
    PROVE  Schedule[i] \in Nat /\ MinGap <= Schedule[i]
  BY BreakerAssumption DEF Steps

\* A deadline of at least MinGap makes up for any distance.
LEMMA GapReached ==
    ASSUME NEW since \in Nat, NEW left \in Nat, MinGap <= left
    PROVE  since + left >= MinGap
  <1>1. MinGap \in Nat
    BY BreakerAssumption
  <1> QED
    BY <1>1

LEMMA InitBreakerInv == Init => BreakerInv
  <1> SUFFICES ASSUME Init PROVE BreakerInv
    OBVIOUS
  <1>1. Flags
    BY Zenon DEF Init, Flags
  <1>2. Numbers
    BY BreakerAssumption DEF Init, Numbers, Steps
  <1>3. ~halfOpen /\ ~armed
    BY Zenon DEF Init
  <1> QED
    BY <1>1, <1>2, <1>3 DEF BreakerInv, Rationed

LEMMA NextFlags == Flags /\ [Next]_vars => Flags'
  <1> SUFFICES ASSUME Flags, [Next]_vars PROVE Flags'
    OBVIOUS
  <1> USE DEF Flags
  <1>1. ASSUME NEW c \in Callers, Admit(c) \/ NoReport(c) PROVE Flags'
    BY <1>1 DEF Admit, NoReport, breakerVars
  <1>2. ASSUME NEW c \in Callers, HandOutProbe(c) PROVE Flags'
    BY <1>2, Zenon DEF HandOutProbe
  <1>3. ASSUME Forget PROVE Flags'
    BY <1>3, Zenon DEF Forget
  <1>4. ASSUME NEW c \in Callers, RecordFailure(c) PROVE Flags'
    <2>1. CASE failures' < Threshold /\ ~halfOpen
      <3>1. UNCHANGED <<armed, opened>> /\ halfOpen' = FALSE
        BY <1>4, <2>1 DEF RecordFailure
      <3> QED
        BY <2>1, <3>1, Zenon
    <2>2. CASE ~(failures' < Threshold /\ ~halfOpen)
      BY <1>4, <2>2, Zenon DEF RecordFailure
    <2> QED
      BY <2>1, <2>2
  <1>5. ASSUME NEW c \in Callers, RecordNotAttempted(c) PROVE Flags'
    BY <1>5, Zenon DEF RecordNotAttempted
  <1>6. CASE Tick \/ UNCHANGED vars
    BY <1>6 DEF Tick, vars, breakerVars
  <1> QED
    BY <1>1, <1>2, <1>3, <1>4, <1>5, <1>6 DEF Next, RecordSuccess, Restart

LEMMA NextNumbers == BreakerInv /\ [Next]_vars => (Numbers /\ Rationed)'
  <1> SUFFICES ASSUME Flags, Numbers, Rationed, [Next]_vars PROVE Numbers' /\ Rationed'
    BY DEF BreakerInv
  <1> USE BreakerAssumption DEF Numbers, Rationed
  <1>1. ASSUME NEW c \in Callers, Admit(c) \/ NoReport(c) PROVE Numbers' /\ Rationed'
    BY <1>1 DEF Admit, NoReport, breakerVars
  <1>2. ASSUME NEW c \in Callers, HandOutProbe(c) PROVE Numbers' /\ Rationed'
    <2>1. ~armed'
      BY <1>2, Zenon DEF HandOutProbe
    <2> QED
      BY <1>2, <2>1 DEF HandOutProbe
  <1>3. ASSUME Forget, trying' \subseteq Callers PROVE Numbers' /\ Rationed'
    <2>1. ~armed' /\ ~halfOpen'
      BY <1>3, Zenon DEF Forget
    <2>2. 1 \in Steps
      BY DEF Steps
    <2> QED
      BY <1>3, <2>1, <2>2 DEF Forget
  <1>4. ASSUME NEW c \in Callers, RecordSuccess(c) PROVE Numbers' /\ Rationed'
    BY <1>3, <1>4 DEF RecordSuccess
  <1>5. ASSUME NEW c \in Callers, RecordFailure(c) PROVE Numbers' /\ Rationed'
    <2>1. ~halfOpen'
      BY <1>5, Zenon DEF RecordFailure
    <2>2. /\ failures' \in 0..Threshold /\ probeLeft' = 0
          /\ trying' \subseteq Callers /\ sinceProbe' = sinceProbe
      BY <1>5 DEF RecordFailure
    <2>3. CASE failures' < Threshold /\ ~halfOpen
      <3>1. UNCHANGED <<armed, openLeft, index>>
        BY <1>5, <2>3 DEF RecordFailure
      <3> QED
        BY <2>1, <2>2, <3>1
    <2>4. CASE ~(failures' < Threshold /\ ~halfOpen)
      <3>1. /\ index' = IF halfOpen /\ index < Len(Schedule) THEN index + 1 ELSE index
            /\ openLeft' = Schedule[index']
        BY <1>5, <2>4 DEF RecordFailure
      <3>2. index' \in Steps
        BY <3>1 DEF Steps
      <3>3. openLeft' \in Nat /\ MinGap <= openLeft'
        BY <3>1, <3>2, ScheduleRange
      <3>4. Numbers'
        BY <2>2, <3>2, <3>3
      <3>5. sinceProbe' \in Nat
        BY <2>2
      <3>6. sinceProbe' + openLeft' >= MinGap
        BY <3>3, <3>5, GapReached
      <3>7. Rationed'
        BY <2>1, <3>6, Zenon
      <3> QED
        BY <3>4, <3>7, Zenon
    <2> QED
      BY <2>3, <2>4
  <1>6. ASSUME NEW c \in Callers, RecordNotAttempted(c) PROVE Numbers' /\ Rationed'
    <2>1. Schedule[index] \in Nat /\ MinGap <= Schedule[index]
      BY ScheduleRange
    <2>2. trying' \subseteq Callers /\ UNCHANGED <<failures, index, sinceProbe>>
      BY <1>6 DEF RecordNotAttempted
    <2>3. CASE halfOpen
      <3>1. ~halfOpen'
        BY <1>6, <2>3, Zenon DEF RecordNotAttempted
      <3>2. probeLeft' = 0 /\ openLeft' = Schedule[index]
        BY <1>6, <2>3 DEF RecordNotAttempted
      <3> QED
        BY <2>1, <2>2, <3>1, <3>2
    <2>4. CASE ~halfOpen
      <3>1. UNCHANGED <<halfOpen, probeLeft, armed, openLeft>>
        BY <1>6, <2>4 DEF RecordNotAttempted
      <3> QED
        BY <2>2, <3>1
    <2> QED
      BY <2>3, <2>4
  <1>7. CASE Restart
    BY <1>3, <1>7 DEF Restart
  <1>8. CASE Tick
    BY <1>8 DEF Tick
  <1>9. CASE UNCHANGED vars
    BY <1>9 DEF vars, breakerVars
  <1> QED
    BY <1>1, <1>2, <1>4, <1>5, <1>6, <1>7, <1>8, <1>9 DEF Next

LEMMA NextBreakerInv == BreakerInv /\ [Next]_vars => BreakerInv'
  BY NextFlags, NextNumbers DEF BreakerInv

\* Every variable keeps its type (bot/services/llm/breaker.py, _BreakerState).
THEOREM BreakerTypeCorrect == Spec => []TypeOK
  <1>1. BreakerInv => TypeOK
    BY DEF BreakerInv, Flags, Numbers, TypeOK
  <1> QED
    BY InitBreakerInv, NextBreakerInv, <1>1, PTL DEF Spec

LEMMA StepRationed ==
    ASSUME BreakerInv, [Next]_vars, NEW c \in Callers, opened, Starts(c)
    PROVE  sinceProbe >= MinGap
  <1>1. ASSUME NEW d \in Callers, Admit(d) PROVE FALSE
    BY <1>1 DEF Admit, BreakerInv, Flags
  <1>2. ASSUME NEW d \in Callers, HandOutProbe(d) PROVE sinceProbe >= MinGap
    <2>1. CASE halfOpen
      BY <1>2, <2>1, BreakerAssumption DEF HandOutProbe, Skipped, BreakerInv, Numbers, Rationed
    <2>2. CASE ~halfOpen
      BY <1>2, <2>2, BreakerAssumption DEF HandOutProbe, Skipped, BreakerInv, Numbers, Rationed
    <2> QED
      BY <2>1, <2>2
  <1>3. ASSUME NEW d \in Callers,
               RecordSuccess(d) \/ RecordFailure(d) \/ RecordNotAttempted(d) \/ NoReport(d)
        PROVE  FALSE
    BY <1>3 DEF Starts, RecordSuccess, RecordFailure, RecordNotAttempted, NoReport
  <1>4. CASE Restart \/ Tick \/ UNCHANGED vars
    BY <1>4 DEF Starts, Restart, Tick, vars
  <1> QED
    BY <1>1, <1>2, <1>3, <1>4 DEF Next

\* Between an opening and the next success, attempts are MinGap apart, whoever
\* races in should_skip and whatever is reported late.
THEOREM Rationing == Spec => AttemptsRationed
  <1>1. BreakerInv /\ [Next]_vars =>
            [\A c \in Callers : opened /\ Starts(c) => sinceProbe >= MinGap]_vars
    BY StepRationed
  <1> QED
    BY InitBreakerInv, NextBreakerInv, <1>1, PTL DEF Spec, AttemptsRationed

-----------------------------------------------------------------------------
(***************************************************************************)
(* The circuit that the router is built on.                                *)
(***************************************************************************)

\* A breaker that opened has seen enough failures, until a success.
CircuitInv == BreakerInv /\ (armed \/ halfOpen => failures = Threshold)

LEMMA NextCircuitInv == CircuitInv /\ [Next]_vars => CircuitInv'
  <1> SUFFICES ASSUME CircuitInv, [Next]_vars, armed' \/ halfOpen' PROVE failures' = Threshold
    BY NextBreakerInv DEF CircuitInv
  <1> USE BreakerAssumption DEF CircuitInv, BreakerInv, Flags, Numbers
  <1>1. ASSUME NEW c \in Callers, Admit(c) \/ NoReport(c) PROVE failures' = Threshold
    BY <1>1 DEF Admit, NoReport, breakerVars
  <1>2. ASSUME NEW c \in Callers, HandOutProbe(c) PROVE failures' = Threshold
    BY <1>2 DEF HandOutProbe
  <1>3. ASSUME Forget PROVE FALSE
    BY <1>3, Zenon DEF Forget
  <1>4. ASSUME NEW c \in Callers, RecordFailure(c) PROVE failures' = Threshold
    <2>1. failures' = IF failures < Threshold THEN failures + 1 ELSE failures
      BY <1>4 DEF RecordFailure
    <2>2. CASE failures' < Threshold /\ ~halfOpen
      <3>1. armed' = armed /\ ~halfOpen'
        BY <1>4, <2>2, Zenon DEF RecordFailure
      <3>2. armed
        BY <3>1, Zenon
      <3> QED
        BY <2>1, <2>2, <3>2
    <2>3. CASE ~(failures' < Threshold /\ ~halfOpen)
      BY <2>1, <2>3
    <2> QED
      BY <2>2, <2>3
  <1>5. ASSUME NEW c \in Callers, RecordNotAttempted(c) PROVE failures' = Threshold
    <2>1. failures' = failures
      BY <1>5 DEF RecordNotAttempted
    <2>2. armed \/ halfOpen
      BY <1>5, Zenon DEF RecordNotAttempted
    <2> QED
      BY <2>1, <2>2
  <1>6. CASE Tick \/ UNCHANGED vars
    BY <1>6 DEF Tick, vars, breakerVars
  <1> QED
    BY <1>1, <1>2, <1>3, <1>4, <1>5, <1>6 DEF Next, RecordSuccess, Restart

LEMMA CircuitCall ==
    ASSUME CircuitInv, NEW c \in Callers
    PROVE  CircuitStep(c)
  <1> USE BreakerAssumption DEF CircuitInv, BreakerInv, Flags, Numbers
  <1>1. ASSUME Admit(c) PROVE Admits(CircuitView, CircuitView')
    BY <1>1 DEF Admit, breakerVars, CircuitView, Admits
  <1>2. ASSUME HandOutProbe(c) PROVE Admits(CircuitView, CircuitView')
    <2>1. CircuitView = "due"
      BY <1>2 DEF HandOutProbe, Skipped, CircuitView
    <2>2. halfOpen' /\ probeLeft' = ProbeTimeout
      BY <1>2, Zenon DEF HandOutProbe
    <2>3. CircuitView' = "half"
      BY <2>2 DEF CircuitView
    <2> QED
      BY <2>1, <2>3 DEF Admits
  <1>3. ASSUME RecordSuccess(c) PROVE Closes(CircuitView, CircuitView')
    <2>1. ~halfOpen' /\ ~armed'
      BY <1>3, Zenon DEF RecordSuccess, Forget
    <2> QED
      BY <2>1 DEF CircuitView, Closes
  <1>4. ASSUME RecordFailure(c) PROVE Fails(CircuitView, CircuitView')
    <2>1. ~halfOpen'
      BY <1>4, Zenon DEF RecordFailure
    <2>2. CASE failures' < Threshold /\ ~halfOpen
      <3>1. failures' = IF failures < Threshold THEN failures + 1 ELSE failures
        BY <1>4 DEF RecordFailure
      <3>2. failures # Threshold
        BY <2>2, <3>1
      <3>3. ~armed
        BY <3>2, Zenon
      <3>4. armed' = armed
        BY <1>4, <2>2, Zenon DEF RecordFailure
      <3>5. ~armed'
        BY <3>3, <3>4, Zenon
      <3> QED
        BY <2>1, <2>2, <3>3, <3>5 DEF CircuitView, Fails
    <2>3. CASE ~(failures' < Threshold /\ ~halfOpen)
      <3>1. armed' /\ openLeft' = Schedule[index']
        BY <1>4, <2>3, Zenon DEF RecordFailure
      <3>2. index' \in Steps
        BY <1>4, <2>3 DEF RecordFailure, Steps
      <3>3. openLeft' > 0
        BY <3>1, <3>2 DEF Steps
      <3> QED
        BY <2>1, <3>1, <3>3 DEF CircuitView, Fails
    <2> QED
      BY <2>2, <2>3
  <1>5. ASSUME RecordNotAttempted(c)
        PROVE  \/ GivesBack(CircuitView, CircuitView')
               \/ GivesBackLate(CircuitView, CircuitView')
    <2>1. CASE halfOpen
      <3>1. ~halfOpen' /\ armed' /\ openLeft' = Schedule[index]
        BY <1>5, <2>1, Zenon DEF RecordNotAttempted
      <3>2. openLeft' > 0
        BY <3>1 DEF Steps
      <3> QED
        BY <2>1, <3>1, <3>2 DEF CircuitView, GivesBack, GivesBackLate
    <2>2. CASE ~halfOpen
      <3>1. UNCHANGED <<halfOpen, probeLeft, armed, openLeft>>
        BY <1>5, <2>2 DEF RecordNotAttempted
      <3> QED
        BY <2>2, <3>1 DEF CircuitView, GivesBack
    <2> QED
      BY <2>1, <2>2
  <1>6. ASSUME NoReport(c) PROVE CircuitView' = CircuitView
    BY <1>6 DEF NoReport, breakerVars, CircuitView
  <1> QED
    BY <1>1, <1>2, <1>3, <1>4, <1>5, <1>6 DEF CircuitStep

LEMMA CircuitTime ==
    ASSUME CircuitInv
    PROVE  /\ Tick => Elapses(CircuitView, CircuitView')
           /\ Restart => Closes(CircuitView, CircuitView')
  <1>1. ASSUME Tick PROVE Elapses(CircuitView, CircuitView')
    BY <1>1 DEF Tick, CircuitView, Elapses, Skips, CircuitInv, BreakerInv, Numbers
  <1>2. ASSUME Restart PROVE Closes(CircuitView, CircuitView')
    <2>1. ~halfOpen' /\ ~armed'
      BY <1>2, Zenon DEF Restart, Forget
    <2> QED
      BY <2>1 DEF CircuitView, Closes
  <1> QED
    BY <1>1, <1>2

\* The breaker is the circuit that Router assumes, for any schedule, threshold
\* and set of callers.
THEOREM CircuitRefinement == Spec => BehavesAsCircuit
  <1>1. Init => CircuitInv
    BY InitBreakerInv, Zenon DEF Init, CircuitInv
  <1>2. CircuitInv /\ [Next]_vars =>
            [/\ \A c \in Callers : CircuitStep(c)
             /\ Tick => Elapses(CircuitView, CircuitView')
             /\ Restart => Closes(CircuitView, CircuitView')]_vars
    BY CircuitCall, CircuitTime
  <1> QED
    BY <1>1, <1>2, NextCircuitInv, PTL DEF Spec, BehavesAsCircuit

-----------------------------------------------------------------------------
(***************************************************************************)
(* Router.                                                                 *)
(***************************************************************************)

Phases == {"idle", "walk", "admitted", "requested", "judging", "done"}

\* A call that is at a target has one.
LEMMA TargetIsOne ==
    ASSUME TypeOKRouter, NEW c \in Calls, ~AtEnd(c)
    PROVE  Target(c) \in Targets
<1>1. Chain[c] \in Seq(Targets) /\ position[c] \in 1..Len(Chain[c])
  BY RouterAssumption DEF TypeOKRouter, AtEnd
<1> QED BY <1>1 DEF Target

\* Going on with the next target.
LEMMA AdvanceTyped ==
    ASSUME TypeOKRouter, NEW c \in Calls, ~AtEnd(c), NEW category \in Categories, Advance(c, category)
    PROVE  /\ notes' \in [Calls -> SUBSET (Targets \X Categories)]
           /\ position' \in [Calls -> Nat \ {0}] /\ \A d \in Calls : position'[d] <= Len(Chain[d]) + 1
           /\ phase' \in [Calls -> Phases]
           /\ phase'[c] = "walk" /\ \A d \in Calls \ {c} : phase'[d] = phase[d] /\ position'[d] = position[d]
<1>1. Target(c) \in Targets
  BY TargetIsOne
<1>2. notes' = [notes EXCEPT ![c] = @ \cup {<<Target(c), category>>}]
  BY DEF Advance
<1>3. notes' \in [Calls -> SUBSET (Targets \X Categories)]
  BY <1>1, <1>2 DEF TypeOKRouter
<1>4. position' = [position EXCEPT ![c] = @ + 1]
  BY DEF Advance
<1>5. Len(Chain[c]) \in Nat /\ position[c] \in 1..Len(Chain[c])
  BY RouterAssumption DEF TypeOKRouter, AtEnd
<1>6. position' \in [Calls -> Nat \ {0}] /\ \A d \in Calls : position'[d] <= Len(Chain[d]) + 1
  BY <1>4, <1>5 DEF TypeOKRouter
<1>7. phase' = [phase EXCEPT ![c] = "walk"]
  BY DEF Advance
<1> QED BY <1>3, <1>4, <1>6, <1>7 DEF TypeOKRouter, Phases

\* The circuits and back-offs stay what they are.
SharedTyped ==
    /\ circuit \in [Targets -> CircuitStates]
    /\ unreported \in [Targets -> BOOLEAN]
    /\ limited \in [Targets -> BOOLEAN]

LEMMA NoWordTyped ==
    ASSUME SharedTyped, NEW c \in Calls, NoWord(c)
    PROVE  circuit' = circuit /\ unreported' \in [Targets -> BOOLEAN]
<1>1. (unreported[Target(c)] \/ circuit[Target(c)] = "half") \in BOOLEAN
  OBVIOUS
<1>2. \A b \in BOOLEAN : [unreported EXCEPT ![Target(c)] = b] \in [Targets -> BOOLEAN]
  BY DEF SharedTyped
<1> QED BY <1>1, <1>2, Zenon DEF NoWord

LEMMA SharedStep == SharedTyped /\ [NextRouter]_routerVars => SharedTyped'
<1> SUFFICES ASSUME SharedTyped, [NextRouter]_routerVars PROVE SharedTyped'
  OBVIOUS
<1> USE DEF SharedTyped
<1>1. CASE UNCHANGED sharedVars
  BY <1>1 DEF sharedVars
<1>2. ASSUME NEW c \in Calls, Admitted(c) PROVE SharedTyped'
  <2>1. circuit' \in [Targets -> CircuitStates] /\ limited' = limited
    BY <1>2 DEF Admitted
  <2>2. (unreported[Target(c)] /\ circuit[Target(c)] # "due") \in BOOLEAN
    OBVIOUS
  <2>3. \A b \in BOOLEAN : [unreported EXCEPT ![Target(c)] = b] \in [Targets -> BOOLEAN]
    OBVIOUS
  <2>4. unreported' \in [Targets -> BOOLEAN]
    BY <1>2, <2>2, <2>3, Zenon DEF Admitted
  <2> QED BY <2>1, <2>4
<1>3. ASSUME NEW c \in Calls, MeetBackoff(c) \/ MeetBudget(c) PROVE SharedTyped'
  BY <1>3 DEF MeetBackoff, MeetBudget, Refused
<1>4. ASSUME NEW c \in Calls, AnswerLimited(c) PROVE SharedTyped'
  BY <1>4, NoWordTyped DEF AnswerLimited
<1>5. ASSUME NEW c \in Calls, AnswerBroken(c) PROVE SharedTyped'
  BY <1>5 DEF AnswerBroken
<1>6. ASSUME NEW c \in Calls, AnswerTransient(c) \/ AnswerBadJson(c) \/ AnswerDefect(c) PROVE SharedTyped'
  BY <1>6, NoWordTyped DEF AnswerTransient, AnswerBadJson, AnswerDefect
<1>7. ASSUME NEW c \in Calls, AnswerText(c) PROVE SharedTyped'
  BY <1>7 DEF AnswerText, CircuitStates
<1>8. ASSUME NEW c \in Calls, DeadlineEnds(c) PROVE SharedTyped'
  BY <1>8, NoWordTyped DEF DeadlineEnds
<1>9. ASSUME NEW t \in Targets, CircuitElapses(t) \/ BackoffEnds(t) PROVE SharedTyped'
  BY <1>9 DEF CircuitElapses, BackoffEnds, CircuitStates
<1>10. CASE RestartRouter
  BY <1>10 DEF RestartRouter, CircuitStates
<1> QED
  BY <1>1, <1>2, <1>3, <1>4, <1>5, <1>6, <1>7, <1>8, <1>9, <1>10
     DEF NextRouter, CallStep, Begin, SkipOpen, Request, Judge, Conclude, Return, DeadlinePasses, routerVars

\* Where the calls are and what they have met.
CallsTyped ==
    /\ phase \in [Calls -> Phases]
    /\ position \in [Calls -> Nat \ {0}] /\ \A c \in Calls : position[c] <= Len(Chain[c]) + 1
    /\ notes \in [Calls -> SUBSET (Targets \X Categories)]
    /\ \A c \in Calls : phase[c] \in {"admitted", "requested", "judging"} => ~AtEnd(c)

OutcomesTyped ==
    /\ late \in [Calls -> BOOLEAN] /\ cut \in [Calls -> BOOLEAN]
    /\ verdict \in [Calls -> Verdicts]

LEMMA TypesAre == TypeOKRouter <=> SharedTyped /\ CallsTyped /\ OutcomesTyped
BY DEF TypeOKRouter, SharedTyped, CallsTyped, OutcomesTyped, Phases

LEMMA OutcomesStep ==
    ASSUME OutcomesTyped, [NextRouter]_routerVars
    PROVE  OutcomesTyped'
<1> USE DEF OutcomesTyped
<1>1. CASE UNCHANGED <<late, cut, verdict>>
  BY <1>1
<1>2. ASSUME NEW c \in Calls, AnswerTransient(c) PROVE OutcomesTyped'
  <2>1. (cut[c] \/ late[c]) \in BOOLEAN
    OBVIOUS
  <2>2. \A b \in BOOLEAN : [cut EXCEPT ![c] = b] \in [Calls -> BOOLEAN]
    OBVIOUS
  <2>3. cut' \in [Calls -> BOOLEAN]
    BY <1>2, <2>1, <2>2, Zenon DEF AnswerTransient
  <2> QED BY <1>2, <2>3 DEF AnswerTransient
<1>3. ASSUME NEW c \in Calls, AnswerDefect(c) \/ DeadlineEnds(c) \/ Judge(c) PROVE OutcomesTyped'
  BY <1>3 DEF AnswerDefect, DeadlineEnds, Judge, End, Verdicts
<1>4. ASSUME NEW c \in Calls, Conclude(c) PROVE OutcomesTyped'
  <2>1. Exhausted(c) \in Verdicts
    BY DEF Exhausted, Verdicts
  <2> QED BY <1>4, <2>1 DEF Conclude, End
<1>5. ASSUME NEW c \in Calls, Return(c) \/ DeadlinePasses(c) PROVE OutcomesTyped'
  BY <1>5 DEF Return, DeadlinePasses, Verdicts
<1>6. CASE RestartRouter
  BY <1>6 DEF RestartRouter, Verdicts
<1> QED
  BY <1>1, <1>2, <1>3, <1>4, <1>5, <1>6
     DEF NextRouter, CallStep, Begin, SkipOpen, Admitted, MeetBackoff, MeetBudget, Refused, Request,
         AnswerLimited, AnswerBroken, AnswerBadJson, AnswerText, CircuitElapses, BackoffEnds,
         routerVars, callVars

\* The steps of a call that go on with the next target, and what was met.
GoesOn(c, category) ==
    /\ ~AtEnd(c) /\ category \in Categories
    /\ Advance(c, category)

LEMMA GoingOn ==
    ASSUME TypeOKRouter, NEW c \in Calls,
           \/ SkipOpen(c) \/ MeetBackoff(c) \/ MeetBudget(c) \/ AnswerLimited(c) \/ AnswerBroken(c)
           \/ AnswerTransient(c) \/ AnswerBadJson(c) \/ (Judge(c) /\ Advance(c, "invalid"))
    PROVE  (\E category \in Categories : GoesOn(c, category)) /\ verdict' = verdict
<1> USE DEF Categories, Unasked, Requests, GoesOn, TypeOKRouter
<1>1. CASE SkipOpen(c)
  BY <1>1 DEF SkipOpen
<1>2. CASE MeetBackoff(c) \/ MeetBudget(c)
  BY <1>2 DEF MeetBackoff, MeetBudget, Refused
<1>3. CASE AnswerLimited(c) \/ AnswerBroken(c) \/ AnswerTransient(c) \/ AnswerBadJson(c)
  BY <1>3 DEF AnswerLimited, AnswerBroken, AnswerTransient, AnswerBadJson
<1>4. CASE Judge(c) /\ Advance(c, "invalid")
  <2>1. ~End(c, "answered")
    BY <1>4 DEF End, Advance
  <2> QED BY <1>4, <2>1 DEF Judge
<1> QED BY <1>1, <1>2, <1>3, <1>4

LEMMA CallsStep ==
    ASSUME TypeOKRouter, [NextRouter]_routerVars
    PROVE  CallsTyped'
<1>t. CallsTyped
  BY TypesAre
<1>1. CASE UNCHANGED <<phase, position, notes>>
  BY <1>t, <1>1 DEF CallsTyped, AtEnd
<1>2. ASSUME NEW c \in Calls, NEW category \in Categories, GoesOn(c, category) PROVE CallsTyped'
  <2>1. /\ notes' \in [Calls -> SUBSET (Targets \X Categories)]
        /\ position' \in [Calls -> Nat \ {0}] /\ \A d \in Calls : position'[d] <= Len(Chain[d]) + 1
        /\ phase' \in [Calls -> Phases]
        /\ phase'[c] = "walk"
        /\ \A d \in Calls \ {c} : phase'[d] = phase[d] /\ position'[d] = position[d]
    BY <1>2, AdvanceTyped DEF GoesOn
  <2> QED BY <1>t, <2>1 DEF CallsTyped, AtEnd
<1>3. ASSUME NEW c \in Calls, Begin(c) \/ Admitted(c) \/ Request(c) \/ AnswerText(c) PROVE CallsTyped'
  <2>1. PICK p \in Phases : phase' = [phase EXCEPT ![c] = p] /\ (p = "walk" \/ ~AtEnd(c))
    BY <1>3 DEF Begin, Admitted, Request, AnswerText, Phases, TypeOKRouter
  <2>2. UNCHANGED <<position, notes>>
    BY <1>3 DEF Begin, Admitted, Request, AnswerText
  <2> QED BY <1>t, <2>1, <2>2 DEF CallsTyped, AtEnd
<1>4. ASSUME NEW c \in Calls,
             AnswerDefect(c) \/ DeadlineEnds(c) \/ Conclude(c) \/ (Judge(c) /\ End(c, "answered"))
      PROVE  CallsTyped'
  <2>1. phase' = [phase EXCEPT ![c] = "done"]
    BY <1>4 DEF AnswerDefect, DeadlineEnds, Conclude, End
  <2>2. ~Advance(c, "invalid")
    BY <2>1, <1>t DEF Advance, CallsTyped
  <2>3. UNCHANGED <<position, notes>>
    BY <1>4, <2>2 DEF AnswerDefect, DeadlineEnds, Conclude, Judge
  <2> QED BY <1>t, <2>1, <2>3 DEF CallsTyped, AtEnd, Phases
<1>5. ASSUME NEW c \in Calls, Return(c) PROVE CallsTyped'
  <2>1. Len(Chain[c]) \in Nat
    BY RouterAssumption
  <2>2. phase' = [phase EXCEPT ![c] = "idle"] /\ position' = [position EXCEPT ![c] = 1]
        /\ notes' = [notes EXCEPT ![c] = {}]
    BY <1>5 DEF Return
  <2>4. position' \in [Calls -> Nat \ {0}] /\ \A d \in Calls : position'[d] <= Len(Chain[d]) + 1
    BY <1>t, <2>1, <2>2, RouterAssumption DEF CallsTyped
  <2>5. \A d \in Calls \ {c} : position'[d] = position[d] /\ phase'[d] = phase[d]
    BY <2>2
  <2> QED BY <1>t, <2>2, <2>4, <2>5 DEF CallsTyped, AtEnd, Phases
<1>6. CASE RestartRouter
  <2>1. \A c \in Calls : Len(Chain[c]) \in Nat
    BY RouterAssumption
  <2> QED BY <1>6, <2>1 DEF RestartRouter, CallsTyped, Phases
<1>7. ASSUME NEW c \in Calls, CallStep(c) PROVE CallsTyped'
  BY <1>2, <1>3, <1>4, <1>7, GoingOn DEF CallStep, Judge
<1> QED
  BY <1>1, <1>3, <1>5, <1>6, <1>7
     DEF NextRouter, DeadlinePasses, CircuitElapses, BackoffEnds, routerVars, callVars

LEMMA InitRouterTyped == InitRouter => TypeOKRouter
<1> SUFFICES ASSUME InitRouter PROVE TypeOKRouter
  OBVIOUS
<1>1. \A c \in Calls : Len(Chain[c]) \in Nat
  BY RouterAssumption
<1>2. SharedTyped /\ OutcomesTyped
  BY DEF InitRouter, SharedTyped, OutcomesTyped, CircuitStates, Verdicts
<1>3. CallsTyped
  BY <1>1 DEF InitRouter, CallsTyped, Phases
<1> QED BY <1>2, <1>3, TypesAre

LEMMA RouterTypedStep == TypeOKRouter /\ [NextRouter]_routerVars => TypeOKRouter'
<1> SUFFICES ASSUME TypeOKRouter, [NextRouter]_routerVars PROVE TypeOKRouter'
  OBVIOUS
<1>1. (SharedTyped /\ CallsTyped /\ OutcomesTyped)'
  BY TypesAre, SharedStep, CallsStep, OutcomesStep
<1> QED BY <1>1, TypesAre, PTL

\* Every variable of the router keeps its type, and a call that is admitted, or
\* has asked, is at a target of its chain.
THEOREM RouterTypeCorrect == SpecRouter => []TypeOKRouter
BY InitRouterTyped, RouterTypedStep, PTL DEF SpecRouter

\* A call holds the breaker of its target between its admission and the answer.
Holds(c, t) == phase[c] \in {"admitted", "requested"} /\ Target(c) = t

LEMMA ProbeStep ==
    TypeOKRouter /\ ProbeAccounted /\ [NextRouter]_routerVars => ProbeAccounted'
<1> SUFFICES ASSUME TypeOKRouter, ProbeAccounted, [NextRouter]_routerVars,
                    NEW t \in Targets, circuit'[t] = "half", ~unreported'[t]
             PROVE  \E c \in Calls : Holds(c, t)'
  BY DEF ProbeAccounted, Holds
<1>s. SharedTyped /\ CallsTyped /\ OutcomesTyped
  BY TypesAre
<1>a. circuit[t] = "half" => unreported[t] \/ \E c \in Calls : Holds(c, t)
  BY DEF ProbeAccounted, Holds
\* Steps after which nothing is held that was not, and the circuit is the same.
<1>1. ASSUME UNCHANGED <<circuit, unreported, position>>,
             \A c \in Calls : phase[c] \in {"admitted", "requested"} => phase'[c] \in {"admitted", "requested"}
      PROVE  \E c \in Calls : Holds(c, t)'
  BY <1>1, <1>a DEF Holds, Target
<1>2. ASSUME NEW c \in Calls, Admitted(c) PROVE \E d \in Calls : Holds(d, t)'
  <2>1. phase' = [phase EXCEPT ![c] = "admitted"] /\ position' = position
    BY <1>2 DEF Admitted
  <2>2. \A d \in Calls : Holds(d, t) => Holds(d, t)'
    BY <2>1, <1>s DEF Holds, Target, CallsTyped
  <2>3. CASE Target(c) = t
    BY <2>1, <2>3, <1>s DEF Holds, Target, CallsTyped
  <2>4. CASE Target(c) # t
    <3>1. circuit'[t] = circuit[t] /\ unreported'[t] = unreported[t]
      BY <1>2, <2>4, <1>s DEF Admitted, SharedTyped
    <3> QED BY <3>1, <2>2, <1>a
  <2> QED BY <2>3, <2>4
\* The call leaves its target, whose circuit is not half-open, or which has been
\* marked.
<1>3. ASSUME NEW c \in Calls, \A d \in Calls \ {c} : Holds(d, t) => Holds(d, t)',
             Holds(c, t) => circuit'[t] # "half" \/ unreported'[t],
             ~(Holds(c, t)) => (circuit'[t] = "half" => circuit[t] = "half" /\ (unreported[t] => unreported'[t]))
      PROVE  \E d \in Calls : Holds(d, t)'
  BY <1>3, <1>a
<1>4. ASSUME NEW c \in Calls,
             MeetBackoff(c) \/ MeetBudget(c) \/ AnswerLimited(c) \/ AnswerBroken(c) \/ AnswerTransient(c)
             \/ AnswerBadJson(c) \/ AnswerDefect(c) \/ AnswerText(c)
             \/ (DeadlineEnds(c) /\ phase[c] \in {"admitted", "requested"})
      PROVE  \E d \in Calls : Holds(d, t)'
  <2>1. phase[c] \in {"admitted", "requested"}
    BY <1>4 DEF MeetBackoff, MeetBudget, AnswerLimited, AnswerBroken, AnswerTransient, AnswerBadJson,
         AnswerDefect, AnswerText
  <2>2. \A d \in Calls \ {c} : phase'[d] = phase[d] /\ position'[d] = position[d]
    BY <1>4, <1>s DEF MeetBackoff, MeetBudget, Refused, AnswerLimited, AnswerBroken, AnswerTransient,
         AnswerBadJson, AnswerDefect, AnswerText, DeadlineEnds, Advance, End, CallsTyped
  <2>3. \A d \in Calls \ {c} : Holds(d, t) => Holds(d, t)'
    BY <2>2 DEF Holds, Target
  <2>4. CASE NoWord(c)
    <3>1. circuit' = circuit
      BY <2>4 DEF NoWord
    <3>2. unreported' = [unreported EXCEPT ![Target(c)] = unreported[Target(c)] \/ circuit[Target(c)] = "half"]
      BY <2>4, Zenon DEF NoWord
    <3>3. ASSUME Target(c) # t PROVE unreported'[t] = unreported[t]
      BY <3>2, <3>3, <1>s, Zenon DEF SharedTyped
    <3>4. ASSUME Target(c) = t, circuit[t] = "half" PROVE unreported'[t]
      BY <3>2, <3>4, <1>s, Zenon DEF SharedTyped
    <3> QED BY <2>1, <2>3, <3>1, <3>3, <3>4, <1>3 DEF Holds
  <2>5. CASE MeetBackoff(c) \/ MeetBudget(c) \/ AnswerBroken(c) \/ AnswerText(c)
    <3>1. PICK s \in CircuitStates \ {"half"} : circuit' = [circuit EXCEPT ![Target(c)] = s]
      BY <2>5 DEF MeetBackoff, MeetBudget, Refused, AnswerBroken, AnswerText, GivesBack, GivesBackLate,
           Fails, CircuitStates
    <3>2. unreported' = unreported
      BY <2>5 DEF MeetBackoff, MeetBudget, Refused, AnswerBroken, AnswerText
    <3> QED BY <2>1, <2>3, <3>1, <3>2, <1>3, <1>s DEF Holds, SharedTyped
  <2> QED
    BY <1>4, <2>4, <2>5 DEF AnswerLimited, AnswerTransient, AnswerBadJson, AnswerDefect, DeadlineEnds
<1>5. ASSUME NEW c \in Calls,
             \/ Begin(c) \/ SkipOpen(c) \/ Judge(c) \/ Conclude(c) \/ Return(c)
             \/ (DeadlineEnds(c) /\ phase[c] \notin {"admitted", "requested"})
      PROVE  \E d \in Calls : Holds(d, t)'
  <2>1. phase[c] \notin {"admitted", "requested"} /\ UNCHANGED <<circuit, unreported>>
    BY <1>5 DEF Begin, SkipOpen, Judge, Conclude, Return, DeadlineEnds, sharedVars
  <2>2. \A d \in Calls \ {c} : phase'[d] = phase[d] /\ position'[d] = position[d]
    BY <1>5, <1>s DEF Begin, SkipOpen, Judge, Conclude, Return, DeadlineEnds, Advance, End, CallsTyped
  <2>3. \A d \in Calls : Holds(d, t) => Holds(d, t)'
    BY <2>1, <2>2 DEF Holds, Target
  <2> QED BY <2>1, <2>3, <1>a
<1>6. ASSUME NEW c \in Calls, Request(c) PROVE \E d \in Calls : Holds(d, t)'
  BY <1>6, <1>1, <1>s DEF Request, sharedVars, CallsTyped
<1>7. ASSUME NEW u \in Targets, CircuitElapses(u) PROVE \E d \in Calls : Holds(d, t)'
  <2>1. circuit'[t] # "half" \/ circuit'[t] = circuit[t]
    BY <1>7, <1>s DEF CircuitElapses, SharedTyped
  <2>2. UNCHANGED <<unreported, phase, position>>
    BY <1>7 DEF CircuitElapses, callVars
  <2> QED BY <2>1, <2>2, <1>a DEF Holds, Target
<1>8. ASSUME NEW u \in Targets, BackoffEnds(u) PROVE \E d \in Calls : Holds(d, t)'
  BY <1>8, <1>1 DEF BackoffEnds, callVars
<1>9. CASE RestartRouter
  BY <1>9 DEF RestartRouter
<1>10. ASSUME NEW c \in Calls, DeadlinePasses(c) PROVE \E d \in Calls : Holds(d, t)'
  BY <1>10, <1>1 DEF DeadlinePasses, sharedVars
<1>11. CASE UNCHANGED routerVars
  BY <1>11, <1>1 DEF routerVars, sharedVars, callVars
<1> QED
  BY <1>2, <1>4, <1>5, <1>6, <1>7, <1>8, <1>9, <1>10, <1>11 DEF NextRouter, CallStep

\* While a breaker waits for the outcome of a probe, some call is on its way with
\* it, or the probe was spent on a request or a deadline, however calls share
\* their targets (record_not_attempted).
THEOREM ProbesAreAccounted == SpecRouter => []ProbeAccounted
<1>1. InitRouter => ProbeAccounted
  BY DEF InitRouter, ProbeAccounted
<1> QED BY <1>1, InitRouterTyped, RouterTypedStep, ProbeStep, PTL DEF SpecRouter

\* The targets before a call's place are in its notes, and only a call that has
\* ended has an outcome, the exception by what it met.
Noted ==
    \A c \in Calls : \A i \in 1..(position[c] - 1) : \E n \in notes[c] : n[1] = Chain[c][i]

Concluded ==
    \A c \in Calls : verdict[c] \notin {"none", "answered", "defect", "deadline"} =>
        phase[c] = "done" /\ AtEnd(c) /\ verdict[c] = Exhausted(c)

LEMMA NotedStep == TypeOKRouter /\ Noted /\ [NextRouter]_routerVars => Noted'
<1> SUFFICES ASSUME TypeOKRouter, Noted, [NextRouter]_routerVars PROVE Noted'
  OBVIOUS
<1>1. CASE UNCHANGED <<position, notes>>
  BY <1>1 DEF Noted
<1>2. ASSUME NEW c \in Calls, NEW category \in Categories, GoesOn(c, category) PROVE Noted'
  <2>1. notes' = [notes EXCEPT ![c] = notes[c] \cup {<<Target(c), category>>}]
        /\ position' = [position EXCEPT ![c] = position[c] + 1]
    BY <1>2 DEF GoesOn, Advance
  <2>2. notes \in [Calls -> SUBSET (Targets \X Categories)] /\ position[c] \in Nat
    BY RouterAssumption DEF TypeOKRouter
  <2>3. \A d \in Calls \ {c} : notes'[d] = notes[d] /\ position'[d] = position[d]
    BY <2>1
  <2>4. position'[c] = position[c] + 1
    BY <2>1 DEF TypeOKRouter
  <2>5. notes'[c] = notes[c] \cup {<<Target(c), category>>}
    BY <2>1, <2>2
  <2>6. ASSUME NEW i \in 1..(position'[c] - 1) PROVE \E n \in notes'[c] : n[1] = Chain[c][i]
    <3>1. CASE i = position[c]
      <4>1. <<Target(c), category>>[1] = Chain[c][i]
        BY <3>1 DEF Target
      <4> QED BY <2>5, <4>1
    <3>2. CASE i # position[c]
      <4>1. i \in 1..(position[c] - 1)
        BY <2>2, <2>4, <3>2
      <4> QED BY <2>5, <4>1 DEF Noted
    <3> QED BY <3>1, <3>2
  <2> QED BY <2>3, <2>6 DEF Noted
<1>3. ASSUME NEW c \in Calls, Return(c) PROVE Noted'
  <2>1. position' = [position EXCEPT ![c] = 1] /\ notes' = [notes EXCEPT ![c] = {}]
    BY <1>3 DEF Return
  <2>2. position'[c] = 1
    BY <2>1 DEF TypeOKRouter
  <2>3. \A d \in Calls \ {c} : notes'[d] = notes[d] /\ position'[d] = position[d]
    BY <2>1
  <2> QED BY <2>2, <2>3 DEF Noted
<1>4. CASE RestartRouter
  BY <1>4 DEF RestartRouter, Noted
<1>5. ASSUME NEW c \in Calls, CallStep(c) PROVE Noted'
  BY <1>1, <1>2, <1>5, GoingOn
     DEF CallStep, Admitted, Request, AnswerDefect, AnswerText, DeadlineEnds, Conclude, Judge
<1> QED
  BY <1>1, <1>3, <1>4, <1>5
     DEF NextRouter, Begin, DeadlinePasses, CircuitElapses, BackoffEnds, routerVars, callVars

LEMMA ConcludedStep == TypeOKRouter /\ Concluded /\ [NextRouter]_routerVars => Concluded'
<1> SUFFICES ASSUME TypeOKRouter, Concluded, [NextRouter]_routerVars PROVE Concluded'
  OBVIOUS
<1> DEFINE Ended(c) == verdict[c] \notin {"none", "answered", "defect", "deadline"}
\* What decides the exception of a call that another one leaves alone.
<1>1. ASSUME NEW c \in Calls, phase'[c] = phase[c], verdict'[c] = verdict[c], position'[c] = position[c],
             notes'[c] = notes[c], cut'[c] = cut[c], Ended(c)
      PROVE  phase'[c] = "done" /\ AtEnd(c)' /\ verdict'[c] = Exhausted(c)'
  <2>1. phase[c] = "done" /\ AtEnd(c) /\ verdict[c] = Exhausted(c)
    BY <1>1 DEF Concluded
  <2>2. AtEnd(c)' = AtEnd(c) /\ Exhausted(c)' = Exhausted(c)
    BY <1>1 DEF AtEnd, Exhausted, InvalidNoted, OtherNoted, Met
  <2> QED BY <1>1, <2>1, <2>2
<1>2. ASSUME UNCHANGED <<phase, verdict, position, notes, cut>> PROVE Concluded'
  BY <1>1, <1>2 DEF Concluded
<1>3. ASSUME NEW c \in Calls,
             \A d \in Calls \ {c} : /\ phase'[d] = phase[d] /\ verdict'[d] = verdict[d]
                                    /\ position'[d] = position[d] /\ notes'[d] = notes[d] /\ cut'[d] = cut[d],
             Ended(c)' => phase'[c] = "done" /\ AtEnd(c)' /\ verdict'[c] = Exhausted(c)'
      PROVE  Concluded'
  BY <1>1, <1>3 DEF Concluded
<1>4. ASSUME NEW c \in Calls, CallStep(c) \/ Begin(c) \/ Return(c)
      PROVE  \A d \in Calls \ {c} : /\ phase'[d] = phase[d] /\ verdict'[d] = verdict[d]
                                    /\ position'[d] = position[d] /\ notes'[d] = notes[d] /\ cut'[d] = cut[d]
  BY <1>4 DEF CallStep, SkipOpen, Admitted, MeetBackoff, MeetBudget, Refused, Request, AnswerLimited,
       AnswerBroken, AnswerTransient, AnswerBadJson, AnswerDefect, AnswerText, Judge, DeadlineEnds,
       Conclude, Begin, Return, Advance, End, TypeOKRouter
<1>5. ASSUME NEW c \in Calls, Conclude(c) PROVE Concluded'
  <2>1. /\ phase' = [phase EXCEPT ![c] = "done"] /\ verdict' = [verdict EXCEPT ![c] = Exhausted(c)]
        /\ UNCHANGED <<position, notes, cut>> /\ AtEnd(c)
    BY <1>5 DEF Conclude, End
  <2>2. phase'[c] = "done" /\ verdict'[c] = Exhausted(c)
    BY <2>1 DEF TypeOKRouter
  <2>3. AtEnd(c)' /\ Exhausted(c)' = Exhausted(c)
    BY <2>1 DEF AtEnd, Exhausted, InvalidNoted, OtherNoted, Met
  <2> QED BY <1>3, <1>4, <1>5, <2>2, <2>3 DEF CallStep
<1>6. ASSUME NEW c \in Calls, CallStep(c), ~Conclude(c) PROVE Concluded'
  <2>1. phase[c] # "done"
    BY <1>6 DEF CallStep, SkipOpen, Admitted, MeetBackoff, MeetBudget, Request, AnswerLimited,
         AnswerBroken, AnswerTransient, AnswerBadJson, AnswerDefect, AnswerText, Judge, DeadlineEnds
  <2>2. ~Ended(c)
    BY <2>1 DEF Concluded
  <2>3. verdict'[c] \in {verdict[c], "defect", "answered", "deadline"}
    BY <1>6 DEF CallStep, SkipOpen, Admitted, MeetBackoff, MeetBudget, Refused, Request, AnswerLimited,
         AnswerBroken, AnswerTransient, AnswerBadJson, AnswerDefect, AnswerText, Judge, DeadlineEnds,
         End, TypeOKRouter
  <2> QED BY <1>3, <1>4, <1>6, <2>2, <2>3
<1>7. ASSUME NEW c \in Calls, Begin(c) \/ Return(c) PROVE Concluded'
  <2>1. Ended(c)' => FALSE
    BY <1>7 DEF Begin, Return, Concluded, TypeOKRouter
  <2> QED BY <1>3, <1>4, <1>7, <2>1
<1>8. ASSUME NEW c \in Calls, DeadlinePasses(c) PROVE Concluded'
  BY <1>2, <1>8 DEF DeadlinePasses
<1>9. CASE RestartRouter
  BY <1>9 DEF RestartRouter, Concluded
<1>10. CASE (\E t \in Targets : CircuitElapses(t) \/ BackoffEnds(t)) \/ UNCHANGED routerVars
  BY <1>2, <1>10 DEF CircuitElapses, BackoffEnds, routerVars, callVars
<1> QED BY <1>5, <1>6, <1>7, <1>8, <1>9, <1>10 DEF NextRouter

\* What the exception of an exhausted chain says is what the call has met.
LEMMA ExhaustedTruthful ==
    ASSUME TypeOKRouter, Noted, NEW c \in Calls, AtEnd(c), verdict[c] = Exhausted(c)
    PROVE  /\ verdict[c] = "rate_limited" =>
              /\ Met(c, {"limited"})
              /\ \A n \in notes[c] : n[2] \in Requests => n[2] = "limited"
           /\ verdict[c] \in {"backoff", "circuit_broken"} => ~Met(c, Requests)
           /\ verdict[c] = "invalid" => Met(c, Unusable)
           /\ Recoverable(c) =>
              \A i \in 1..Len(Chain[c]) : \E n \in notes[c] : n[1] = Chain[c][i] /\ n[2] \in Unusable
<1>1. ASSUME verdict[c] = "rate_limited"
      PROVE  Met(c, {"limited"}) /\ ~OtherNoted(c) /\ ~InvalidNoted(c)
  BY <1>1 DEF Exhausted
<1>2. ASSUME verdict[c] = "rate_limited", NEW n \in notes[c], n[2] \in Requests PROVE n[2] = "limited"
  BY <1>1, <1>2 DEF OtherNoted, InvalidNoted, Met, Requests
<1>3. verdict[c] \in {"backoff", "circuit_broken"} => ~Met(c, Requests)
  BY DEF Exhausted
<1>4. verdict[c] = "invalid" => InvalidNoted(c)
  BY DEF Exhausted
<1>5. InvalidNoted(c) => Met(c, Unusable)
  BY DEF InvalidNoted, Met, Unusable
<1>6. ASSUME Recoverable(c), NEW i \in 1..Len(Chain[c])
      PROVE  \E n \in notes[c] : n[1] = Chain[c][i] /\ n[2] \in Unusable
  <2>1. Len(Chain[c]) \in Nat /\ position[c] \in Nat
    BY RouterAssumption DEF TypeOKRouter
  <2>2. i \in 1..(position[c] - 1)
    BY <2>1 DEF AtEnd
  <2> QED BY <1>6, <2>2 DEF Noted, Recoverable
<1> QED BY <1>1, <1>2, <1>3, <1>4, <1>5, <1>6

\* What a caller concludes from an exception is what happened, and a render
\* recovers only when every target answered unusable output (LLMRouter).
THEOREM VerdictsAreTruthful == SpecRouter => []VerdictTruthful
<1>1. InitRouter => Noted /\ Concluded
  BY DEF InitRouter, Noted, Concluded
<1>2. TypeOKRouter /\ Noted /\ Concluded => VerdictTruthful
  <2> SUFFICES ASSUME TypeOKRouter, Noted, Concluded, NEW c \in Calls
               PROVE  /\ verdict[c] = "rate_limited" =>
                         /\ Met(c, {"limited"})
                         /\ \A n \in notes[c] : n[2] \in Requests => n[2] = "limited"
                      /\ verdict[c] \in {"backoff", "circuit_broken"} => ~Met(c, Requests)
                      /\ verdict[c] = "invalid" => Met(c, Unusable)
                      /\ Recoverable(c) =>
                         \A i \in 1..Len(Chain[c]) : \E n \in notes[c] : n[1] = Chain[c][i] /\ n[2] \in Unusable
    BY DEF VerdictTruthful
  <2>1. CASE verdict[c] \in {"none", "answered", "defect", "deadline"}
    BY <2>1 DEF Recoverable
  <2>2. CASE verdict[c] \notin {"none", "answered", "defect", "deadline"}
    BY <2>2, ExhaustedTruthful DEF Concluded
  <2> QED BY <2>1, <2>2
<1> QED BY <1>1, <1>2, InitRouterTyped, RouterTypedStep, NotedStep, ConcludedStep, PTL DEF SpecRouter

=============================================================================
