-------------------------- MODULE PriceCacheProofs --------------------------
(* Proofs about PriceCache: at most one lookup request per symbol, the       *)
(* provider left alone after a rate limit, and old prices served only where  *)
(* a batch re-stamped them, for any callers and symbols.                     *)
EXTENDS PriceCache, TLAPS

\* A running task is the one that is registered for its symbol.
Registered == \A t \in Tasks : Running(t) => inFlight[task[t].symbol] = t

\* While the symbol's provider is to be left alone, the back-off is set and no
\* request for the symbol is running.
Quiet(s) ==
    \/ limited[s] = 0
    \/ now >= limited[s] + Backoff
    \/ /\ backoff[s] = limited[s] + Backoff
       /\ \A t \in Tasks : Running(t) => task[t].symbol # s

\* The inductive invariant.
IInv == TypeOK /\ Registered /\ \A s \in Symbols : Quiet(s)

LEMMA TaskTyped ==
    ASSUME TypeOK, NEW t \in Tasks
    PROVE  /\ task[t] \in [state : TaskStates, symbol : Symbols, left : 0..Retries]
           /\ task[t].state \in TaskStates /\ task[t].symbol \in Symbols
           /\ task[t].left \in 0..Retries
BY DEF TypeOK

LEMMA FreeTaskTyped == FreeTask \in [state : TaskStates, symbol : Symbols, left : 0..Retries]
<1>1. (CHOOSE s \in Symbols : TRUE) \in Symbols
  BY PriceAssumption
<1> QED BY <1>1, PriceAssumption DEF FreeTask, TaskStates

LEMMA InitIInv == Init => IInv
<1> SUFFICES ASSUME Init PROVE IInv
  OBVIOUS
<1> USE PriceAssumption
<1>1. cache \in [Symbols -> Entries]
  <2>1. WarmEntries \subseteq Entries
    BY DEF WarmEntries, NoEntry, Entries, Times
  <2> QED BY <2>1 DEF Init
<1>2. TypeOK
  BY <1>1, FreeTaskTyped DEF Init, TypeOK, Times, Answers
<1>3. \A t \in Tasks : ~Running(t)
  BY DEF Init, Running, FreeTask
<1>4. \A s \in Symbols : Quiet(s)
  BY DEF Init, Quiet
<1> QED BY <1>2, <1>3, <1>4 DEF IInv, Registered

\* Steps that leave requests, registrations and the back-off alone.
LEMMA CallerSteps ==
    ASSUME IInv, UNCHANGED <<inFlight, backoff, task, limited>>,
           now' \in Start..End, now' >= now
    PROVE  /\ Registered' /\ (\A s \in Symbols : Quiet(s))'
           /\ (inFlight \in [Symbols -> Tasks \cup {NoTask}])'
           /\ (backoff \in [Symbols -> Nat])'
           /\ (task \in [Tasks -> [state : TaskStates, symbol : Symbols, left : 0..Retries]])'
           /\ (limited \in [Symbols -> Times])'
           /\ (\A s \in Symbols : inFlight[s] # NoTask =>
                  task[inFlight[s]].symbol = s /\ task[inFlight[s]].state # "free")'
<1>1. Registered'
  BY DEF IInv, Registered, Running
<1>2. ASSUME NEW s \in Symbols PROVE Quiet(s)'
  <2>1. Quiet(s) /\ limited[s] \in Nat /\ now \in Nat /\ now' \in Nat
    BY PriceAssumption DEF IInv, TypeOK, Times
  <2> QED BY <2>1, PriceAssumption DEF Quiet, Running
<1> QED BY <1>1, <1>2 DEF IInv, TypeOK

LEMMA ServedTyped == \A s \in Symbols : Served(s) \in Answers
BY DEF Served, Answers

LEMMA AskPreserves ==
    ASSUME IInv, NEW c \in Callers, NEW s \in Symbols, Ask(c, s)
    PROVE  IInv'
<1> USE PriceAssumption
<1>1. CASE AskCached(c, s) \/ AskInBackoff(c, s) \/ Join(c, s)
  <2>1. UNCHANGED <<now, cache, inFlight, backoff, task, batch, limited>>
    BY <1>1 DEF AskCached, AskInBackoff, Join
  <2>2. (answer \in [Callers -> Answers])'
    BY <1>1, ServedTyped DEF AskCached, AskInBackoff, Join, Tell, IInv, TypeOK, Answers
  <2>3. (waitsFor \in [Callers -> Tasks \cup {NoTask}])'
    BY <1>1 DEF AskCached, AskInBackoff, Join, IInv, TypeOK
  <2>4. now' \in Start..End /\ now' >= now
    BY <2>1 DEF IInv, TypeOK
  <2> QED BY <2>1, <2>2, <2>3, <2>4, CallerSteps DEF IInv, TypeOK
<1>2. CASE Request(c, s)
  <2> DEFINE New == [state |-> "asking", symbol |-> s, left |-> Retries]
  <2>1. PICK t \in Tasks :
          /\ task[t].state = "free"
          /\ task' = [task EXCEPT ![t] = New]
          /\ inFlight' = [inFlight EXCEPT ![s] = t]
          /\ waitsFor' = [waitsFor EXCEPT ![c] = t]
    BY <1>2 DEF Request
  <2>2. ~Running(inFlight[s]) /\ now >= backoff[s]
        /\ UNCHANGED <<now, cache, backoff, batch, answer, limited>>
    BY <1>2 DEF Request
  <2>3. New \in [state : TaskStates, symbol : Symbols, left : 0..Retries]
    BY DEF TaskStates
  <2>4. \A u \in Tasks : task'[u] = IF u = t THEN New ELSE task[u]
    BY <2>1 DEF IInv, TypeOK
  <2>5. \A r \in Symbols : inFlight'[r] = IF r = s THEN t ELSE inFlight[r]
    BY <2>1 DEF IInv, TypeOK
  <2>6. \A u \in Tasks : Running(u) => u # t /\ task[u].symbol # s
    BY <2>1, <2>2 DEF Running, IInv, Registered
  <2>7. \A r \in Symbols : inFlight[r] # t
    BY <2>1 DEF IInv, TypeOK
  <2>8. (task \in [Tasks -> [state : TaskStates, symbol : Symbols, left : 0..Retries]])'
        /\ (inFlight \in [Symbols -> Tasks \cup {NoTask}])'
        /\ (waitsFor \in [Callers -> Tasks \cup {NoTask}])'
    BY <2>1, <2>3 DEF IInv, TypeOK
  <2>9. \A r \in Symbols : inFlight'[r] # NoTask =>
            task'[inFlight'[r]].symbol = r /\ task'[inFlight'[r]].state # "free"
    BY <2>4, <2>5, <2>7 DEF IInv, TypeOK
  <2>10. TypeOK'
    BY <2>2, <2>8, <2>9 DEF IInv, TypeOK
  <2>11. Registered'
    BY <2>4, <2>5, <2>6, SMTT(30) DEF IInv, TypeOK, Registered, Running
  <2>12. ASSUME NEW r \in Symbols PROVE Quiet(r)'
    <3>1. limited[r] = 0 \/ now >= limited[r] + Backoff
          \/ /\ backoff[r] = limited[r] + Backoff
             /\ \A u \in Tasks : Running(u) => task[u].symbol # r
      BY DEF IInv, Quiet
    <3>2. limited[r] \in Nat /\ now \in Nat
      BY DEF IInv, TypeOK, Times
    <3> QED BY <2>2, <2>4, <3>1, <3>2 DEF Quiet, Running
  <2> QED BY <2>10, <2>11, <2>12 DEF IInv
<1> QED BY <1>1, <1>2 DEF Ask

LEMMA QuoteTyped == TypeOK => Quote \in Entries
BY PriceAssumption DEF TypeOK, Quote, Entries, Times

LEMMA TaskPreserves ==
    ASSUME IInv, NEW t \in Tasks, TaskStep(t)
    PROVE  IInv'
<1> USE PriceAssumption
<1> DEFINE TaskType == [state : TaskStates, symbol : Symbols, left : 0..Retries]
<1>t. /\ task[t].symbol \in Symbols /\ task[t].left \in 0..Retries
      /\ task[t] \in TaskType /\ task \in [Tasks -> TaskType]
  BY TaskTyped DEF IInv, TypeOK
<1>q. ASSUME NEW r \in Symbols PROVE limited[r] \in Nat /\ now \in Nat /\ backoff[r] \in Nat
  BY DEF IInv, TypeOK, Times
\* A request ends, with or without a price: one fewer runs.
<1>1. CASE Receive(t) \/ Fail(t)
  <2>1. PICK st \in {"done", "failed"} : task' = [task EXCEPT ![t].state = st]
    BY <1>1 DEF Receive, Fail, Set
  <2>2. task[t].state = "asking" /\ UNCHANGED <<now, inFlight, waitsFor, batch, answer, limited>>
    BY <1>1 DEF Receive, Fail
  <2>3. \A u \in Tasks : task'[u] = IF u = t THEN [task[t] EXCEPT !.state = st] ELSE task[u]
    BY <2>1, <1>t
  <2>4. /\ task'[t].state = st /\ task'[t].symbol = task[t].symbol
        /\ task'[t].left = task[t].left /\ task'[t] \in TaskType
    BY <2>3, <1>t DEF TaskStates
  <2>5. task' \in [Tasks -> TaskType]
    BY <2>1, <2>3, <2>4, <1>t
  <2>6. cache' \in [Symbols -> Entries]
    BY <1>1, <1>t, QuoteTyped DEF Receive, Fail, IInv, TypeOK
  <2>7. backoff' \in [Symbols -> Nat]
    BY <1>1, <1>t DEF Receive, Fail, IInv, TypeOK
  <2>8. \A r \in Symbols : inFlight[r] # NoTask =>
            task'[inFlight[r]].symbol = r /\ task'[inFlight[r]].state # "free"
    BY <2>3, <2>4 DEF IInv, TypeOK
  <2>9. TypeOK'
    BY <2>2, <2>5, <2>6, <2>7, <2>8 DEF IInv, TypeOK
  <2>10. Registered'
    BY <2>2, <2>3, <2>4 DEF IInv, Registered, Running
  <2>11. ASSUME NEW r \in Symbols PROVE Quiet(r)'
    <3>1. r = task[t].symbol => limited[r] = 0 \/ now >= limited[r] + Backoff
      BY <2>2 DEF IInv, Quiet, Running, TypeOK
    <3>2. r # task[t].symbol => backoff'[r] = backoff[r]
      BY <1>1 DEF Receive, Fail, IInv, TypeOK
    <3> QED BY <2>2, <2>3, <2>4, <3>1, <3>2, <1>q DEF IInv, Quiet, Running
  <2> QED BY <2>9, <2>10, <2>11 DEF IInv
<1>2. CASE Retry(t)
  <2>1. \A u \in Tasks : task'[u] = IF u = t THEN [task[t] EXCEPT !.left = @ - 1] ELSE task[u]
    BY <1>2, <1>t DEF Retry
  <2>2. \A u \in Tasks : task'[u].state = task[u].state /\ task'[u].symbol = task[u].symbol
    BY <2>1, <1>t DEF IInv, TypeOK
  <2>3. task[t].left - 1 \in 0..Retries
    BY <1>2, <1>t DEF Retry
  <2>4. task'[t] \in TaskType
    BY <2>1, <2>3, <1>t
  <2>5. task' \in [Tasks -> TaskType]
    BY <1>2, <2>1, <2>4, <1>t DEF Retry
  <2>6. UNCHANGED <<now, cache, inFlight, backoff, waitsFor, batch, answer, limited>>
    BY <1>2 DEF Retry
  <2>7. TypeOK'
    BY <2>2, <2>5, <2>6 DEF IInv, TypeOK
  <2>8. Registered' /\ \A r \in Symbols : Quiet(r)'
    BY <2>2, <2>6 DEF IInv, Registered, Quiet, Running
  <2> QED BY <2>7, <2>8 DEF IInv
<1>3. CASE GiveUp(t)
  <2> DEFINE s == task[t].symbol
  <2>1. \A u \in Tasks : task'[u] = IF u = t THEN [task[t] EXCEPT !.state = "failed"] ELSE task[u]
    BY <1>3, <1>t DEF GiveUp, Set
  <2>2. task'[t].state = "failed" /\ task'[t].symbol = s /\ task'[t] \in TaskType
    BY <2>1, <1>t DEF TaskStates
  <2>3. task' \in [Tasks -> TaskType]
    BY <1>3, <2>1, <2>2, <1>t DEF GiveUp, Set
  <2>4. UNCHANGED <<now, cache, inFlight, waitsFor, batch, answer>> /\ Running(t)
    BY <1>3, <1>t DEF GiveUp, Running, IInv, TypeOK
  <2>5. \A r \in Symbols : /\ backoff'[r] = IF r = s THEN now + Backoff ELSE backoff[r]
                           /\ limited'[r] = IF r = s THEN now ELSE limited[r]
    BY <1>3 DEF GiveUp, IInv, TypeOK
  <2>6. backoff' \in [Symbols -> Nat] /\ limited' \in [Symbols -> Times]
    BY <1>3, <1>q, <1>t DEF GiveUp, IInv, TypeOK, Times
  <2>7. \A r \in Symbols : inFlight[r] # NoTask =>
            task'[inFlight[r]].symbol = r /\ task'[inFlight[r]].state # "free"
    BY <2>1, <2>2 DEF IInv, TypeOK
  <2>8. TypeOK'
    BY <2>3, <2>4, <2>6, <2>7 DEF IInv, TypeOK
  <2>9. Registered'
    BY <2>1, <2>2, <2>4 DEF IInv, Registered, Running
  <2>10. \A u \in Tasks : Running(u)' => Running(u) /\ u # t /\ task'[u].symbol = task[u].symbol
    BY <2>1, <2>2 DEF Running
  <2>11. \A u \in Tasks : Running(u)' => task'[u].symbol # s
    BY <2>4, <2>10 DEF IInv, Registered
  <2>12. ASSUME NEW r \in Symbols PROVE Quiet(r)'
    <3>1. CASE r = s
      BY <3>1, <2>5, <2>11, <1>q DEF Quiet
    <3>2. CASE r # s
      BY <3>2, <2>4, <2>5, <2>10, <1>q DEF Quiet, IInv
    <3> QED BY <3>1, <3>2
  <2> QED BY <2>8, <2>9, <2>12 DEF IInv
<1>4. CASE ForgetTask(t)
  <2> DEFINE s == task[t].symbol
  <2>1. \A u \in Tasks : task'[u] = IF u = t THEN FreeTask ELSE task[u]
    BY <1>4, <1>t DEF ForgetTask
  <2>2. \A r \in Symbols :
            inFlight'[r] = IF r = s /\ inFlight[r] = t THEN NoTask ELSE inFlight[r]
    BY <1>4 DEF ForgetTask, IInv, TypeOK
  <2>3. task' \in [Tasks -> TaskType] /\ inFlight' \in [Symbols -> Tasks \cup {NoTask}]
    BY <1>4, <1>t, FreeTaskTyped DEF ForgetTask, IInv, TypeOK
  <2>4. waitsFor' \in [Callers -> Tasks \cup {NoTask}] /\ answer' \in [Callers -> Answers]
    BY <1>4 DEF ForgetTask, IInv, TypeOK, Answers
  <2>5. UNCHANGED <<now, cache, backoff, batch, limited>>
    BY <1>4 DEF ForgetTask
  <2>6. \A r \in Symbols : inFlight'[r] # t
    BY <2>2, <1>t DEF IInv, TypeOK
  <2>7. \A r \in Symbols : inFlight'[r] # NoTask =>
            task'[inFlight'[r]].symbol = r /\ task'[inFlight'[r]].state # "free"
    BY <2>1, <2>2, <2>6 DEF IInv, TypeOK
  <2>8. TypeOK'
    BY <2>3, <2>4, <2>5, <2>7 DEF IInv, TypeOK
  <2>9. \A u \in Tasks : Running(u)' => Running(u) /\ u # t /\ task'[u] = task[u]
    <3>1. FreeTask.state # "asking"
      BY DEF FreeTask
    <3>2. task'[t] = FreeTask
      BY <2>1
    <3>3. \A u \in Tasks : u # t => task'[u] = task[u]
      BY <2>1
    <3> QED BY <3>1, <3>2, <3>3 DEF Running
  <2>10. Registered'
    BY <2>2, <2>9, <1>t DEF IInv, Registered, TypeOK
  <2>11. \A r \in Symbols : Quiet(r)'
    BY <2>5, <2>9 DEF IInv, Quiet
  <2> QED BY <2>8, <2>10, <2>11 DEF IInv
<1> QED BY <1>1, <1>2, <1>3, <1>4 DEF TaskStep

LEMMA OthersPreserve ==
    ASSUME IInv,
           BatchRequest \/ BatchStep \/ Tick \/ (\E c \in Callers : Cancel(c)) \/ UNCHANGED vars
    PROVE  IInv'
<1> USE PriceAssumption
<1>1. UNCHANGED <<inFlight, backoff, task, limited>>
  BY DEF BatchRequest, BatchStep, BatchReceive, BatchRetry, BatchGiveUp, Tick, Cancel, vars
<1>2. now' \in Start..End /\ now' >= now
  BY DEF BatchRequest, BatchStep, BatchReceive, BatchRetry, BatchGiveUp, Tick, Cancel, vars,
         IInv, TypeOK
<1>3. cache' \in [Symbols -> Entries]
  <2>1. CASE BatchReceive
    BY <2>1, QuoteTyped DEF BatchReceive, IInv, TypeOK
  <2>2. CASE BatchGiveUp
    <3>1. now \in Times
      BY DEF IInv, TypeOK, Times
    <3>2. \A s \in Symbols :
              [quoted |-> cache[s].quoted, at |-> now, restamped |-> TRUE] \in Entries
      BY <3>1 DEF IInv, TypeOK, Entries
    <3>3. NoEntry \in Entries
      BY DEF NoEntry, Entries, Times
    <3>4. CASE cache' = [s \in Symbols |->
             IF cache[s] = NoEntry THEN NoEntry
             ELSE [quoted |-> cache[s].quoted, at |-> now, restamped |-> TRUE]]
      <4>1. \A s \in Symbols :
               (IF cache[s] = NoEntry THEN NoEntry
                ELSE [quoted |-> cache[s].quoted, at |-> now, restamped |-> TRUE]) \in Entries
        BY <3>2, <3>3
      <4> QED BY <3>4, <4>1
    <3>5. CASE UNCHANGED cache
      BY <3>5 DEF IInv, TypeOK
    <3> QED BY <2>2, <3>4, <3>5 DEF BatchGiveUp
  <2>3. CASE UNCHANGED cache
    BY <2>3 DEF IInv, TypeOK
  <2> QED BY <2>1, <2>2, <2>3 DEF BatchRequest, BatchStep, BatchRetry, Tick, Cancel, vars
<1>4. batch' \in -1..Retries
  BY DEF BatchRequest, BatchStep, BatchReceive, BatchRetry, BatchGiveUp, Tick, Cancel, vars,
         IInv, TypeOK
<1>5. waitsFor' \in [Callers -> Tasks \cup {NoTask}] /\ answer' \in [Callers -> Answers]
  BY DEF BatchRequest, BatchStep, BatchReceive, BatchRetry, BatchGiveUp, Tick, Cancel, vars,
         Tell, IInv, TypeOK, Answers
<1> QED BY <1>1, <1>2, <1>3, <1>4, <1>5, CallerSteps DEF IInv, TypeOK

LEMMA StepIInv == IInv /\ [Next]_vars => IInv'
BY AskPreserves, TaskPreserves, OthersPreserve DEF Next

LEMMA SpecIInv == Spec => []IInv
BY InitIInv, StepIInv, PTL DEF Spec

\* Every variable keeps its type, and only a live task of the symbol is
\* registered for it, for any symbols, callers and limits.
THEOREM TypeCorrect == Spec => []TypeOK
BY SpecIInv, PTL DEF IInv

\* Lookups of a symbol never have two requests under way: get_coin_price checks
\* and registers in one step, and the callback only forgets its own task.
THEOREM OneRequestPerSymbol == Spec => []SingleFlight
<1>1. IInv => SingleFlight
  BY DEF IInv, Registered, SingleFlight
<1> QED BY <1>1, SpecIInv, PTL

\* A symbol whose lookup ran out of retries is left alone for the back-off.
THEOREM ProviderLeftAlone == Spec => BackoffRespected
<1> DEFINE Step == \A t \in Tasks : \A s \in Symbols :
              Starts(t) /\ task'[t].symbol = s => limited[s] = 0 \/ now >= limited[s] + Backoff
<1>1. IInv /\ [Next]_vars => Step
  <2> SUFFICES ASSUME IInv, [Next]_vars, NEW t \in Tasks, NEW s \in Symbols,
                      Starts(t), task'[t].symbol = s
               PROVE  limited[s] = 0 \/ now >= limited[s] + Backoff
    OBVIOUS
  <2>1. ASSUME NEW c \in Callers, NEW r \in Symbols, Request(c, r)
        PROVE  limited[s] = 0 \/ now >= limited[s] + Backoff
    <3>1. r = s /\ now >= backoff[r]
      BY <2>1 DEF Request, Starts, Running, IInv, TypeOK
    <3> QED BY <3>1, PriceAssumption DEF IInv, Quiet, TypeOK, Times
  <2>2. ASSUME NEW u \in Tasks, TaskStep(u) PROVE FALSE
    <3>1. task \in [Tasks -> [state : TaskStates, symbol : Symbols, left : 0..Retries]]
      BY DEF IInv, TypeOK
    <3>2. ASSUME Retry(u) PROVE task'[t].state = task[t].state
      BY <3>1, <3>2 DEF Retry
    <3>3. ASSUME ~Retry(u) PROVE ~Running(t)' \/ Running(t)
      BY <2>2, <3>1, <3>3
         DEF TaskStep, Receive, Fail, GiveUp, ForgetTask, Set, Running, FreeTask
    <3> QED BY <3>2, <3>3 DEF Starts, Running
  <2>3. ASSUME UNCHANGED task PROVE FALSE
    BY <2>3 DEF Starts, Running
  <2>4. CASE \E c \in Callers : Cancel(c) \/ \E r \in Symbols : Ask(c, r)
    BY <2>1, <2>3, <2>4 DEF Cancel, Ask, AskCached, AskInBackoff, Join
  <2>5. CASE BatchRequest \/ BatchStep \/ Tick \/ UNCHANGED vars
    BY <2>3, <2>5 DEF BatchRequest, BatchStep, BatchReceive, BatchRetry, BatchGiveUp, Tick, vars
  <2> QED BY <2>2, <2>4, <2>5 DEF Next
<1> QED BY <1>1, SpecIInv, PTL DEF Spec, BackoffRespected

-----------------------------------------------------------------------------
\* An entry is as old as its quote, or from the warm-up, which has expired since,
\* or re-stamped.
Stamped(entry) == entry.restamped \/ entry.at = entry.quoted \/ entry.at = 0

Dated == \A s \in Symbols : Stamped(cache[s])

LEMMA FreshIsCurrent ==
    ASSUME TypeOK, Dated, NEW s \in Symbols, Fresh(s)
    PROVE  Served(s) # "old"
<1>1. cache[s] \in Entries /\ now \in Start..End /\ Stamped(cache[s])
  BY DEF TypeOK, Dated
<1>2. cache[s].at # 0
  BY <1>1, PriceAssumption DEF Fresh, Entries, Times
<1> QED BY <1>1, <1>2 DEF Fresh, Served, Stamped, Entries

\* Quotes carry their own time, and what stands in for a response is marked.
LEMMA DatedStep == TypeOK /\ Dated /\ [Next]_vars => Dated'
<1> SUFFICES ASSUME TypeOK, Dated, [Next]_vars PROVE Dated'
  OBVIOUS
<1>1. Stamped(Quote) /\ Stamped(NoEntry)
  BY DEF Stamped, Quote, NoEntry
<1>2. ASSUME NEW t \in Tasks, Receive(t) PROVE Dated'
  <2>1. cache' = [cache EXCEPT ![task[t].symbol] = Quote]
    BY <1>2 DEF Receive
  <2>2. \A s \in Symbols : cache'[s] \in {Quote, cache[s]}
    BY <2>1 DEF TypeOK
  <2> QED BY <1>1, <2>2 DEF Dated
<1>3. CASE BatchReceive
  <2>1. \A s \in Symbols : cache'[s] \in {Quote, cache[s]}
    BY <1>3 DEF BatchReceive
  <2> QED BY <1>1, <2>1 DEF Dated
<1>4. CASE BatchGiveUp
  <2>1. ASSUME NEW s \in Symbols
        PROVE  cache'[s] \in {cache[s], NoEntry, [quoted |-> cache[s].quoted, at |-> now, restamped |-> TRUE]}
    BY <1>4 DEF BatchGiveUp
  <2>2. ASSUME NEW s \in Symbols
        PROVE  Stamped([quoted |-> cache[s].quoted, at |-> now, restamped |-> TRUE])
    BY DEF Stamped
  <2> QED BY <1>1, <2>1, <2>2, Zenon DEF Dated
<1>5. CASE UNCHANGED cache
  BY <1>5 DEF Dated
<1> QED
  BY <1>2, <1>3, <1>4, <1>5
     DEF Next, Ask, AskCached, AskInBackoff, Join, Request, TaskStep, Fail, Retry, GiveUp,
         ForgetTask, Cancel, BatchRequest, BatchStep, BatchRetry, Tick, vars

\* Only a fresh entry is served.
LEMMA AnswersStep == TypeOK /\ Dated /\ OldPriceOnlyRestamped /\ [Next]_vars => OldPriceOnlyRestamped'
<1> SUFFICES ASSUME TypeOK, Dated, OldPriceOnlyRestamped, [Next]_vars PROVE OldPriceOnlyRestamped'
  OBVIOUS
<1>t. answer \in [Callers -> Answers]
  BY DEF TypeOK
<1>1. ASSUME NEW c \in Callers, NEW what \in Answers \ {"old"}, Tell(c, what) PROVE OldPriceOnlyRestamped'
  BY <1>1, <1>t DEF Tell, OldPriceOnlyRestamped
<1>2. ASSUME NEW c \in Callers, NEW s \in Symbols, AskCached(c, s) PROVE OldPriceOnlyRestamped'
  <2>1. Served(s) \in Answers \ {"old"}
    BY <1>2, FreshIsCurrent, ServedTyped DEF AskCached
  <2> QED BY <1>1, <1>2, <2>1 DEF AskCached
<1>3. ASSUME NEW c \in Callers, NEW s \in Symbols, AskInBackoff(c, s) PROVE OldPriceOnlyRestamped'
  BY <1>1, <1>3 DEF AskInBackoff, Answers
<1>4. ASSUME NEW c \in Callers, Cancel(c) PROVE OldPriceOnlyRestamped'
  BY <1>1, <1>4 DEF Cancel, Answers
<1>5. ASSUME NEW t \in Tasks, ForgetTask(t) PROVE OldPriceOnlyRestamped'
  BY <1>5 DEF ForgetTask, OldPriceOnlyRestamped
<1>6. CASE UNCHANGED answer
  BY <1>6 DEF OldPriceOnlyRestamped
<1> QED
  BY <1>2, <1>3, <1>4, <1>5, <1>6
     DEF Next, Ask, Join, Request, TaskStep, Receive, Fail, Retry, GiveUp,
         BatchRequest, BatchStep, BatchReceive, BatchRetry, BatchGiveUp, Tick, vars

\* A price older than the TTL is served only where a batch re-stamped it
\* (get_coin_market_data_batch after its last 429), never out of the warm-up.
THEOREM OldPricesRestamped == Spec => []OldPriceOnlyRestamped
<1>1. Init => Dated /\ OldPriceOnlyRestamped
  BY DEF Init, Dated, Stamped, WarmEntries, NoEntry, OldPriceOnlyRestamped
<1> QED BY <1>1, TypeCorrect, DatedStep, AnswersStep, PTL DEF Spec

=============================================================================
