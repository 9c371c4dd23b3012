---------------------------- MODULE BudgetProofs ----------------------------
(***************************************************************************)
(* The paid budget, the free plan and the classification of news, for any  *)
(* calls, jobs, processes, costs and caps.  OpenAIBudget: its ledger never *)
(* understates a call, admits nothing to a month after a breach, and a     *)
(* month costs at most the cap.  NewsIntelligence: how often the model is  *)
(* asked.  GroqBudget: a day uses at most the plan's tokens, and a symbol  *)
(* has its share of them.                                                  *)
(***************************************************************************)
EXTENDS MCLlm, BreakerProofs, SumFacts, TLAPS

\* The holder of the advisory lock is the one call in a serialized section.
Mutex == \A c \in PaidCalls : pc[c] \in Serialized <=> advisory = c

\* An admitted call found no breach, and none can appear while it holds the lock.
NoBreachYet == \A c \in PaidCalls : pc[c] = "insert" => ~Breached(bucket[c])

\* A row appears with the reservation, and the request costs something after it.
Ledger ==
    \A c \in PaidCalls :
        /\ pc[c] \in {"idle", "process", "advisory", "clock", "sum", "insert"}
              => status[c] = "none"
        /\ pc[c] \in {"http", "settle_process", "settle_advisory", "settle"}
              => status[c] = "reserved"
        /\ status[c] = "none" => charge[c] = 0 /\ spent[c] = 0
        /\ status[c] \in {"reserved", "conservative"} => charge[c] = Worst[c]
        /\ status[c] \in {"settled", "cap_breach"} => charge[c] = spent[c]

Typed ==
    /\ month \in 0..LastMonth
    /\ advisory \in PaidCalls \cup {NoCall}
    /\ pc \in [PaidCalls -> Points]
    /\ bucket \in [PaidCalls -> 0..LastMonth]
    /\ status \in [PaidCalls -> Statuses]
    /\ charge \in [PaidCalls -> Nat]
    /\ spent \in [PaidCalls -> Nat]
    /\ reported \in [PaidCalls -> BOOLEAN]

LEMMA InitTyped == InitBudget => Typed
  BY BudgetAssumption DEF InitBudget, Typed, Points, InProcessLock, Serialized, Statuses

LEMMA NextTyped == Typed /\ [NextBudget]_budgetVars => Typed'
  <1> SUFFICES ASSUME Typed, [NextBudget]_budgetVars PROVE Typed'
    OBVIOUS
  <1> USE BudgetAssumption DEF Typed, Goto, Points, InProcessLock, Serialized, Statuses, ledger
  <1>1. ASSUME NEW c \in PaidCalls, BeginRequest(c) PROVE Typed'
    BY <1>1 DEF BeginRequest
  <1>2. ASSUME NEW c \in PaidCalls, LockProcess(c) PROVE Typed'
    BY <1>2 DEF LockProcess
  <1>3. ASSUME NEW c \in PaidCalls, LockDatabase(c) PROVE Typed'
    BY <1>3 DEF LockDatabase
  <1>4. ASSUME NEW c \in PaidCalls, ReadClock(c) PROVE Typed'
    BY <1>4 DEF ReadClock
  <1>5. ASSUME NEW c \in PaidCalls, AdmitRequest(c) PROVE Typed'
    BY <1>5 DEF AdmitRequest
  <1>6. ASSUME NEW c \in PaidCalls, Insert(c) PROVE Typed'
    BY <1>6 DEF Insert, AddRow
  <1>7. ASSUME NEW c \in PaidCalls, Respond(c) PROVE Typed'
    <2>1. PICK cost \in Costs : spent' = [spent EXCEPT ![c] = cost]
      BY <1>7 DEF Respond
    <2>2. PICK known \in BOOLEAN : reported' = [reported EXCEPT ![c] = known]
      BY <1>7 DEF Respond
    <2>3. spent' \in [PaidCalls -> Nat]
      BY <2>1
    <2>4. reported' \in [PaidCalls -> BOOLEAN]
      BY <2>2, Zenon
    <2> QED
      BY <1>7, <2>3, <2>4 DEF Respond
  <1>8. ASSUME NEW c \in PaidCalls, Settle(c) PROVE Typed'
    <2>1. status' \in [PaidCalls -> Statuses]
      BY <1>8 DEF Settle
    <2>2. charge' \in [PaidCalls -> Nat]
      BY <1>8 DEF Settle
    <2> QED
      BY <1>8, <2>1, <2>2 DEF Settle
  <1>9. ASSUME NEW c \in PaidCalls, Stop(c) PROVE Typed'
    <2>1. status' \in [PaidCalls -> Statuses] /\ charge' \in [PaidCalls -> Nat]
      BY <1>9 DEF Stop, AddRow
    <2>2. spent' \in [PaidCalls -> Nat]
      <3>1. CASE UNCHANGED spent
        BY <3>1
      <3>2. CASE \E cost \in Costs : spent' = [spent EXCEPT ![c] = cost]
        <4>1. PICK cost \in Costs : spent' = [spent EXCEPT ![c] = cost]
          BY <3>2
        <4> QED
          BY <4>1
      <3> QED
        BY <1>9, <3>1, <3>2 DEF Stop
    <2> QED
      BY <1>9, <2>1, <2>2 DEF Stop
  <1>10. CASE NextMonth
    BY <1>10 DEF NextMonth
  <1>11. CASE UNCHANGED budgetVars
    BY <1>11 DEF budgetVars
  <1> QED
    BY <1>1, <1>2, <1>3, <1>4, <1>5, <1>6, <1>7, <1>8, <1>9, <1>10, <1>11 DEF NextBudget, RequestStep

LEMMA NextMutex == Typed /\ Mutex /\ [NextBudget]_budgetVars => Mutex'
  <1> SUFFICES ASSUME Typed, Mutex, [NextBudget]_budgetVars PROVE Mutex'
    OBVIOUS
  <1> USE BudgetAssumption DEF Typed, Mutex, Goto, Serialized, ledger
  <1>1. ASSUME NEW c \in PaidCalls, BeginRequest(c) \/ LockProcess(c) \/ ReadClock(c) PROVE Mutex'
    BY <1>1 DEF BeginRequest, LockProcess, ReadClock
  <1>2. ASSUME NEW c \in PaidCalls, LockDatabase(c) PROVE Mutex'
    BY <1>2 DEF LockDatabase
  <1>3. ASSUME NEW c \in PaidCalls, AdmitRequest(c) PROVE Mutex'
    <2>1. CASE ~Breached(bucket[c]) /\ Fits(c)
      BY <1>3, <2>1 DEF AdmitRequest
    <2>2. CASE ~(~Breached(bucket[c]) /\ Fits(c))
      BY <1>3, <2>2 DEF AdmitRequest
    <2> QED
      BY <2>1, <2>2
  <1>4. ASSUME NEW c \in PaidCalls, Insert(c) \/ Settle(c) \/ Respond(c) PROVE Mutex'
    BY <1>4 DEF Insert, Settle, Respond
  <1>5. ASSUME NEW c \in PaidCalls, Stop(c) PROVE Mutex'
    BY <1>5 DEF Stop
  <1>6. CASE NextMonth \/ UNCHANGED budgetVars
    BY <1>6 DEF NextMonth, budgetVars
  <1> QED
    BY <1>1, <1>2, <1>3, <1>4, <1>5, <1>6 DEF NextBudget, RequestStep

LEMMA NextLedger == Typed /\ Ledger /\ [NextBudget]_budgetVars => Ledger'
  <1> SUFFICES ASSUME Typed, Ledger, [NextBudget]_budgetVars PROVE Ledger'
    OBVIOUS
  <1> USE BudgetAssumption DEF Typed, Ledger, Goto, ledger
  <1>1. ASSUME NEW c \in PaidCalls,
               BeginRequest(c) \/ LockProcess(c) \/ LockDatabase(c) \/ ReadClock(c) \/ AdmitRequest(c)
        PROVE  Ledger'
    BY <1>1 DEF BeginRequest, LockProcess, LockDatabase, ReadClock, AdmitRequest
  <1>2. ASSUME NEW c \in PaidCalls, Insert(c) PROVE Ledger'
    BY <1>2 DEF Insert, AddRow
  <1>3. ASSUME NEW c \in PaidCalls, Respond(c) PROVE Ledger'
    <2>1. PICK cost \in Costs : spent' = [spent EXCEPT ![c] = cost]
      BY <1>3 DEF Respond
    <2> QED
      BY <1>3, <2>1 DEF Respond
  <1>4. ASSUME NEW c \in PaidCalls, Settle(c) PROVE Ledger'
    <2>1. CASE reported[c]
      BY <1>4, <2>1 DEF Settle
    <2>2. CASE ~reported[c]
      BY <1>4, <2>2 DEF Settle
    <2> QED
      BY <2>1, <2>2
  <1>5. ASSUME NEW c \in PaidCalls, Stop(c) PROVE Ledger'
    <2>1. CASE UNCHANGED spent
      BY <1>5, <2>1 DEF Stop, AddRow
    <2>2. CASE pc[c] = "http" /\ \E cost \in Costs : spent' = [spent EXCEPT ![c] = cost]
      <3>1. PICK cost \in Costs : spent' = [spent EXCEPT ![c] = cost]
        BY <2>2
      <3> QED
        BY <1>5, <2>2, <3>1 DEF Stop, AddRow
    <2> QED
      BY <1>5, <2>1, <2>2 DEF Stop
  <1>6. CASE NextMonth \/ UNCHANGED budgetVars
    BY <1>6 DEF NextMonth, budgetVars
  <1> QED
    BY <1>1, <1>2, <1>3, <1>4, <1>5, <1>6 DEF NextBudget, RequestStep

\* Only a settlement creates a breach, and it holds the lock.
LEMMA NextNoBreachYet ==
    Typed /\ Mutex /\ Ledger /\ NoBreachYet /\ [NextBudget]_budgetVars => NoBreachYet'
  <1> SUFFICES ASSUME Typed, Mutex, Ledger, NoBreachYet, [NextBudget]_budgetVars,
                      NEW c \in PaidCalls, pc'[c] = "insert"
               PROVE  ~Breached(bucket[c])'
    BY DEF NoBreachYet
  <1> USE BudgetAssumption DEF Typed, Goto, ledger, Breached, Rows
  <1>1. CASE pc[c] = "insert"
    <2>1. ~Breached(bucket[c]) /\ advisory = c /\ status[c] = "none"
      BY <1>1 DEF NoBreachYet, Mutex, Serialized, Ledger
    <2>2. \A d \in PaidCalls : status'[d] = status[d] \/ status'[d] = "reserved"
      <3>1. ASSUME NEW d \in PaidCalls, Settle(d) PROVE FALSE
        BY <2>1, <3>1, <1>1 DEF Settle, Mutex, Serialized
      <3> QED
        BY <3>1 DEF NextBudget, RequestStep, BeginRequest, LockProcess, LockDatabase, ReadClock, AdmitRequest, Insert,
                    AddRow, Respond, Stop, NextMonth, budgetVars
    <2>3. \A d \in PaidCalls : bucket'[d] = bucket[d]
      <3>1. ASSUME NEW d \in PaidCalls, ReadClock(d) PROVE FALSE
        BY <2>1, <3>1, <1>1 DEF ReadClock, Mutex, Serialized
      <3> QED
        BY <3>1 DEF NextBudget, RequestStep, BeginRequest, LockProcess, LockDatabase, AdmitRequest, Insert,
                    Respond, Settle, Stop, NextMonth, budgetVars
    <2> QED
      BY <2>1, <2>2, <2>3
  <1>2. CASE pc[c] # "insert"
    <2>1. AdmitRequest(c) /\ ~Breached(bucket[c])
      BY <1>2 DEF NextBudget, RequestStep, BeginRequest, LockProcess, LockDatabase, ReadClock, AdmitRequest, Insert,
                  Respond, Settle, Stop, NextMonth, budgetVars
    <2> QED
      BY <2>1 DEF AdmitRequest
  <1> QED
    BY <1>1, <1>2

IInv == Typed /\ Mutex /\ Ledger /\ NoBreachYet

LEMMA InitIInv == InitBudget => IInv
  BY InitTyped, BudgetAssumption
  DEF InitBudget, IInv, Typed, Mutex, Ledger, NoBreachYet, Serialized

LEMMA NextIInv == IInv /\ [NextBudget]_budgetVars => IInv'
  BY NextTyped, NextMutex, NextLedger, NextNoBreachYet DEF IInv

\* Types, and the advisory lock never held across a request
\* (openai_budget.py: the transaction of reserve ends before the request).
THEOREM TypeCorrect == SpecBudget => []TypeOKBudget
  <1>1. IInv => TypeOKBudget
    BY DEF IInv, Typed, Mutex, TypeOKBudget
  <1> QED
    BY InitIInv, NextIInv, <1>1, PTL DEF SpecBudget

\* No request is paid before it is reserved or for more than the ledger says,
\* but for an unreported overrun.
THEOREM Conservative == SpecBudget => []NeverUnderstated
  <1>1. IInv => NeverUnderstated
    <2> SUFFICES ASSUME IInv, NEW c \in PaidCalls, spent[c] > charge[c]
                 PROVE  spent[c] > Worst[c] /\ status[c] \in {"reserved", "conservative"}
      BY DEF NeverUnderstated
    <2> QED
      BY BudgetAssumption DEF IInv, Typed, Ledger, Statuses
  <1> QED
    BY InitIInv, NextIInv, <1>1, PTL DEF SpecBudget

\* A row only appears by a reservation that saw no breach.
LEMMA RowAppears ==
    ASSUME IInv, [NextBudget]_budgetVars, NEW c \in PaidCalls, status[c] = "none", status'[c] # "none"
    PROVE  pc[c] = "insert"
  <1> USE DEF IInv, Typed, Ledger, Goto, ledger
  <1>1. ASSUME NEW d \in PaidCalls, Settle(d) PROVE pc[c] = "insert"
    BY <1>1 DEF Settle
  <1>2. ASSUME NEW d \in PaidCalls, Insert(d) \/ Stop(d) PROVE pc[c] = "insert"
    BY <1>2 DEF Insert, Stop, AddRow
  <1> QED
    BY <1>1, <1>2 DEF NextBudget, RequestStep, BeginRequest, LockProcess, LockDatabase, ReadClock, AdmitRequest,
                      Respond, NextMonth, budgetVars

\* After a recorded breach its month is closed, whatever was being admitted.
THEOREM FailClosed == SpecBudget => BreachStopsAdmission
  <1>1. IInv /\ [NextBudget]_budgetVars =>
            [\A c \in PaidCalls :
                status[c] = "none" /\ status'[c] # "none" => ~Breached(bucket[c])]_budgetVars
    BY RowAppears DEF IInv, NoBreachYet
  <1> QED
    BY InitIInv, NextIInv, <1>1, PTL DEF SpecBudget, BreachStopsAdmission

-----------------------------------------------------------------------------
(***************************************************************************)
(* The month's sum.                                                        *)
(***************************************************************************)

\* What an admitted call found left is still left when its row is written.
Room == \A c \in PaidCalls : pc[c] = "insert" => Fits(c)

\* Without an overrun the rows of a month never promise more than the cap.
Promised(m) == SumFunctionOnSet(charge, Rows(m))
Within == \A m \in 0..LastMonth : (\A c \in Rows(m) : charge[c] <= Worst[c]) => Promised(m) <= Cap

LEMMA RowsFinite == \A m : Rows(m) \in SUBSET PaidCalls /\ IsFiniteSet(Rows(m))
<1> SUFFICES ASSUME NEW m PROVE Rows(m) \in SUBSET PaidCalls /\ IsFiniteSet(Rows(m))
  OBVIOUS
<1>1. Rows(m) \in SUBSET PaidCalls
  BY DEF Rows
<1> QED BY <1>1, FS_Subset, BudgetAssumption

\* What a step may do to the ledger: nothing, one new row, or one settlement.
RowAdded(c) ==
    /\ pc[c] = "insert" /\ pc'[c] # "insert" /\ UNCHANGED bucket
    /\ status' = [status EXCEPT ![c] = "reserved"] /\ charge' = [charge EXCEPT ![c] = Worst[c]]

LEMMA LedgerSteps ==
    ASSUME IInv, [NextBudget]_budgetVars
    PROVE  \/ UNCHANGED charge /\ \A m : Rows(m)' = Rows(m)
           \/ \E c \in PaidCalls : RowAdded(c) \/ Settle(c)
<1> USE DEF IInv, Typed, Goto, ledger
<1>1. CASE UNCHANGED <<status, bucket, charge>>
  BY <1>1 DEF Rows
<1>2. ASSUME NEW c \in PaidCalls, ReadClock(c)
      PROVE  UNCHANGED charge /\ \A m : Rows(m)' = Rows(m)
  <2>1. /\ status[c] = "none" /\ UNCHANGED <<status, charge>>
        /\ \A d \in PaidCalls : d # c => bucket'[d] = bucket[d]
    BY <1>2 DEF ReadClock, Ledger
  <2> QED BY <2>1 DEF Rows
<1>3. ASSUME NEW c \in PaidCalls, Insert(c) \/ Stop(c)
      PROVE  UNCHANGED <<status, bucket, charge>> \/ RowAdded(c)
  BY <1>3 DEF Insert, Stop, AddRow, RowAdded
<1>4. ASSUME NEW c \in PaidCalls, BeginRequest(c) \/ LockProcess(c) \/ LockDatabase(c) \/ AdmitRequest(c) \/ Respond(c)
      PROVE  UNCHANGED <<status, bucket, charge>>
  BY <1>4 DEF BeginRequest, LockProcess, LockDatabase, AdmitRequest, Respond
<1>5. CASE NextMonth \/ UNCHANGED budgetVars
  BY <1>1, <1>5 DEF NextMonth, budgetVars
<1> QED BY <1>1, <1>2, <1>3, <1>4, <1>5 DEF NextBudget, RequestStep

\* The room a call has found stays while it holds the lock.
LEMMA RoomStep == IInv /\ Room /\ [NextBudget]_budgetVars => Room'
<1> SUFFICES ASSUME IInv, Room, [NextBudget]_budgetVars, NEW c \in PaidCalls, pc'[c] = "insert"
             PROVE  Fits(c)'
  BY DEF Room
<1>t. Typed /\ Mutex
  BY DEF IInv
<1>1. Fits(c) /\ bucket'[c] = bucket[c] /\ ~ \E d \in PaidCalls : RowAdded(d) \/ Settle(d)
  <2>1. CASE pc[c] = "insert"
    <3>1. advisory = c /\ Fits(c)
      BY <1>t, <2>1 DEF Mutex, Serialized, Room
    <3>2. ASSUME NEW d \in PaidCalls, pc[d] \in Serialized PROVE d = c
      BY <1>t, <3>1, <3>2 DEF Mutex
    <3>3. ASSUME NEW d \in PaidCalls, RowAdded(d) \/ Settle(d) \/ ReadClock(d) PROVE FALSE
      <4>1. d = c
        BY <3>2, <3>3 DEF RowAdded, Settle, ReadClock, Serialized
      <4> QED BY <2>1, <3>3, <4>1 DEF RowAdded, Settle, ReadClock
    <3>4. bucket'[c] = bucket[c]
      BY <3>3 DEF NextBudget, RequestStep, BeginRequest, LockProcess, LockDatabase, AdmitRequest, Insert,
                  Respond, Settle, Stop, NextMonth, budgetVars, ledger
    <3> QED BY <3>1, <3>3, <3>4
  <2>2. CASE pc[c] # "insert"
    <3>1. AdmitRequest(c) /\ Fits(c)
      BY <1>t, <2>2 DEF Typed, Goto, NextBudget, RequestStep, BeginRequest, LockProcess, LockDatabase, ReadClock,
         AdmitRequest, Insert, Respond, Settle, Stop, NextMonth, budgetVars
    <3>2. UNCHANGED <<bucket, status>> /\ pc[c] = "sum"
      BY <3>1 DEF AdmitRequest, ledger
    <3>3. \A d \in PaidCalls : pc'[d] = pc[d] \/ d = c
      BY <1>t, <3>1 DEF Typed, AdmitRequest, Goto
    <3>4. ASSUME NEW d \in PaidCalls, RowAdded(d) \/ Settle(d) PROVE FALSE
      <4>1. pc[d] \in {"insert", "settle"} /\ pc'[d] # pc[d]
        BY <1>t, <3>4 DEF RowAdded, Settle, Goto, Typed
      <4> QED BY <3>2, <3>3, <4>1
    <3> QED BY <3>1, <3>2, <3>4
  <2> QED BY <2>1, <2>2
<1>2. UNCHANGED charge /\ \A m : Rows(m)' = Rows(m)
  BY <1>1, LedgerSteps
<1>3. Rows(bucket[c])' = Rows(bucket[c])
  BY <1>1, <1>2 DEF Rows
<1> QED BY <1>1, <1>2, <1>3 DEF Fits

\* A row is added where there is room, and a settlement within the worst case
\* lowers the sum.
LEMMA WithinStep == IInv /\ Room /\ Within /\ [NextBudget]_budgetVars => Within'
<1> SUFFICES ASSUME IInv, Room, Within, [NextBudget]_budgetVars, NEW m \in 0..LastMonth,
                    \A c \in Rows(m)' : charge'[c] <= Worst[c]
             PROVE  Promised(m)' <= Cap
  BY DEF Within
<1>t. charge \in [PaidCalls -> Nat] /\ Rows(m) \in SUBSET PaidCalls /\ IsFiniteSet(Rows(m))
  BY RowsFinite DEF IInv, Typed
<1>w. Cap \in Nat /\ Worst \in [PaidCalls -> Nat]
  BY BudgetAssumption
<1>1. CASE UNCHANGED charge /\ \A k : Rows(k)' = Rows(k)
  BY <1>1 DEF Within, Promised
<1>2. ASSUME NEW c \in PaidCalls, RowAdded(c) PROVE Promised(m)' <= Cap
  <2>1. status[c] = "none" /\ c \notin Rows(m)
    BY <1>2 DEF IInv, Ledger, RowAdded, Rows
  <2>2. charge' = [charge EXCEPT ![c] = Worst[c]]
    BY <1>2 DEF RowAdded
  <2>3. SumFunctionOnSet(charge', Rows(m)) = Promised(m)
    <3>1. \A x \in Rows(m) : charge[x] \in Int /\ charge[x] = charge'[x]
      BY <1>t, <2>1, <2>2
    <3> QED BY <1>t, <3>1, SumSame DEF Promised
  <2>4. CASE bucket[c] = m
    <3>1. Rows(m)' = Rows(m) \cup {c}
      BY <1>2, <2>4 DEF RowAdded, Rows, IInv, Typed
    <3>2. \A x \in Rows(m) \cup {c} : charge'[x] \in Int
      BY <1>t, <1>w, <2>2
    <3>3. Promised(m)' = charge'[c] + SumFunctionOnSet(charge', Rows(m))
      BY <1>t, <2>1, <3>1, <3>2, SumWith DEF Promised
    <3>4. charge'[c] = Worst[c]
      BY <1>t, <2>2
    <3>5. Promised(m) + Worst[c] <= Cap
      BY <1>2, <2>4 DEF Room, RowAdded, Fits, Promised
    <3>6. Promised(m) \in Int
      BY <1>t, SumIsInt DEF Promised
    <3> QED BY <1>w, <2>3, <3>3, <3>4, <3>5, <3>6
  <2>5. CASE bucket[c] # m
    <3>1. Rows(m)' = Rows(m)
      BY <1>2, <2>5 DEF RowAdded, Rows, IInv, Typed
    <3>2. Promised(m)' = Promised(m)
      BY <2>3, <3>1 DEF Promised
    <3>3. \A x \in Rows(m) : charge[x] <= Worst[x]
      BY <1>t, <2>1, <2>2, <3>1
    <3> QED BY <3>2, <3>3 DEF Within
  <2> QED BY <2>4, <2>5
<1>3. ASSUME NEW c \in PaidCalls, Settle(c) PROVE Promised(m)' <= Cap
  <2>1. pc[c] = "settle" /\ status[c] = "reserved" /\ charge[c] = Worst[c]
    BY <1>3 DEF Settle, IInv, Ledger
  <2>2. Rows(m)' = Rows(m)
    <3>1. /\ status'[c] # "none" /\ UNCHANGED bucket
          /\ \A d \in PaidCalls : d # c => status'[d] = status[d]
      BY <1>3 DEF Settle, IInv, Typed
    <3> QED BY <2>1, <3>1 DEF Rows
  <2>3. charge' = [charge EXCEPT ![c] = IF reported[c] THEN spent[c] ELSE @]
    BY <1>3 DEF Settle
  <2>4. spent[c] \in Nat
    BY DEF IInv, Typed
  <2>5. \A x \in Rows(m) : charge'[x] \in Int /\ charge[x] \in Int /\ charge'[x] <= charge[x]
    BY <1>t, <1>w, <2>1, <2>2, <2>3, <2>4
  <2>6. \A x \in Rows(m) : charge[x] <= Worst[x]
    BY <1>t, <1>w, <2>1, <2>2, <2>3
  <2>7. Promised(m)' <= Promised(m)
    <3>1. SumFunctionOnSet(charge', Rows(m)) <= SumFunctionOnSet(charge, Rows(m))
      BY <1>t, <2>5, SumMonotone
    <3> QED BY <2>2, <3>1 DEF Promised
  <2>8. Promised(m) <= Cap
    BY <2>6 DEF Within
  <2>9. Promised(m) \in Int /\ Promised(m)' \in Int
    <3>1. SumFunctionOnSet(charge, Rows(m)) \in Int /\ SumFunctionOnSet(charge', Rows(m)) \in Int
      BY <1>t, <2>5, SumIsInt
    <3> QED BY <2>2, <3>1 DEF Promised
  <2> QED BY <1>w, <2>7, <2>8, <2>9
<1> QED BY <1>1, <1>2, <1>3, LedgerSteps

\* Requests that keep to their worst case never cost a month more than the cap,
\* however many there are and wherever they stop.
THEOREM SpendingWithinCap == SpecBudget => []MonthWithinCap
<1>1. InitBudget => IInv /\ Room /\ Within
  <2> SUFFICES ASSUME InitBudget PROVE Room /\ Within
    BY InitIInv
  <2>1. Room
    BY DEF InitBudget, Room
  <2>2. \A m : Rows(m) = {}
    BY DEF InitBudget, Rows
  <2>3. \A m : Promised(m) = 0
    BY <2>2, SumOfNone DEF Promised
  <2> QED BY <2>1, <2>3, BudgetAssumption DEF Within
<1>2. IInv /\ Room /\ Within /\ [NextBudget]_budgetVars => (IInv /\ Room /\ Within)'
  BY NextIInv, RoomStep, WithinStep
<1>3. IInv /\ Within => MonthWithinCap
  <2> SUFFICES ASSUME IInv, Within, NEW m \in 0..LastMonth, \A c \in Rows(m) : spent[c] <= Worst[c]
               PROVE  SumFunctionOnSet(spent, Rows(m)) <= Cap
    BY DEF MonthWithinCap
  <2>1. Rows(m) \in SUBSET PaidCalls /\ IsFiniteSet(Rows(m))
    BY RowsFinite
  <2>2. \A c \in Rows(m) : /\ charge[c] <= Worst[c] /\ spent[c] <= charge[c]
                           /\ charge[c] \in Int /\ spent[c] \in Int
    BY BudgetAssumption DEF IInv, Typed, Ledger, Statuses, Rows
  <2>3. Promised(m) <= Cap
    BY <2>2 DEF Within
  <2>4. SumFunctionOnSet(spent, Rows(m)) <= Promised(m)
    BY <2>1, <2>2, SumMonotone DEF Promised
  <2>5. SumFunctionOnSet(spent, Rows(m)) \in Int /\ Promised(m) \in Int
    BY <2>1, <2>2, SumIsInt DEF Promised
  <2> QED BY <2>3, <2>4, <2>5, BudgetAssumption
<1> QED BY <1>1, <1>2, <1>3, PTL DEF SpecBudget

-----------------------------------------------------------------------------
(***************************************************************************)
(* News: how often the model is asked.                                     *)
(***************************************************************************)

RowsTyped ==
    /\ class \in [Articles -> Classes] /\ updated \in [Articles -> 0..LastHour]
    /\ grouped \subseteq Articles

CountsTyped ==
    /\ hour \in 0..LastHour /\ turn \in Jobs \cup {Nobody}
    /\ called \in [0..LastHour -> Nat] /\ missed \in [0..LastHour -> Nat]
    /\ before \in [Jobs -> Nat] /\ calls \in [Jobs -> Nat]
    /\ \A h \in 0..LastHour : missed[h] <= called[h]

BatchesTyped ==
    /\ batch \in [Jobs -> SUBSET Articles] /\ reworded \in [Jobs -> SUBSET Articles]
    /\ asking \in [Jobs -> SUBSET Articles] /\ told \in [Jobs -> SUBSET Stories]
    /\ \A j \in Jobs \ {turn} : batch[j] = {} /\ asking[j] = {}

NewsTyped == RowsTyped /\ CountsTyped /\ BatchesTyped

\* The sum over the last two hours, and how a step of a count or of the clock moves it.
LEMMA HourBefore == CountsTyped /\ hour # 0 => hour - 1 \in 0..LastHour
BY NewsAssumption DEF CountsTyped

LEMMA LastTwoTyped ==
    ASSUME CountsTyped, NEW count \in [0..LastHour -> Nat]
    PROVE  LastTwo(count) \in Nat
<1>1. count[hour] \in Nat
  BY DEF CountsTyped
<1>2. CASE hour = 0
  BY <1>1, <1>2 DEF LastTwo
<1>3. CASE hour # 0
  <2>1. count[hour - 1] \in Nat
    BY <1>3, HourBefore
  <2> QED BY <1>1, <1>3, <2>1 DEF LastTwo
<1> QED BY <1>2, <1>3

LEMMA MissedAtMost == CountsTyped => LastTwo(missed) <= LastTwo(called)
<1> SUFFICES ASSUME CountsTyped PROVE LastTwo(missed) <= LastTwo(called)
  OBVIOUS
<1>1. called[hour] \in Nat /\ missed[hour] \in Nat /\ missed[hour] <= called[hour]
  BY DEF CountsTyped
<1>2. CASE hour = 0
  BY <1>1, <1>2 DEF LastTwo
<1>3. CASE hour # 0
  <2>1. called[hour - 1] \in Nat /\ missed[hour - 1] \in Nat /\ missed[hour - 1] <= called[hour - 1]
    BY <1>3, HourBefore DEF CountsTyped
  <2> QED BY <1>1, <1>3, <2>1 DEF LastTwo
<1> QED BY <1>2, <1>3

LEMMA LastTwoBumped ==
    ASSUME CountsTyped, NEW count \in [0..LastHour -> Nat],
           NEW bumped, bumped = [count EXCEPT ![hour] = @ + 1]
    PROVE  LastTwo(bumped) = LastTwo(count) + 1
<1>1. count[hour] \in Nat /\ bumped[hour] = count[hour] + 1
  BY DEF CountsTyped
<1>2. CASE hour = 0
  BY <1>1, <1>2 DEF LastTwo
<1>3. CASE hour # 0
  <2>1. count[hour - 1] \in Nat /\ hour - 1 # hour /\ hour - 1 \in 0..LastHour
    BY <1>3, HourBefore DEF CountsTyped
  <2>2. bumped[hour - 1] = count[hour - 1]
    BY <2>1
  <2> QED BY <1>1, <1>3, <2>1, <2>2 DEF LastTwo
<1> QED BY <1>2, <1>3

LEMMA InitNewsTyped == InitNews => NewsTyped
BY NewsAssumption DEF InitNews, NewsTyped, RowsTyped, CountsTyped, BatchesTyped, Classes

\* What StartBatch leaves in the batch of the job that takes its turn.
LEMMA NewsStarted ==
    ASSUME NewsTyped, NEW j \in Jobs, StartBatch(j)
    PROVE  /\ turn = Nobody /\ turn' = j
           /\ UNCHANGED <<hour, newsRows, called, missed, asking>>
           /\ before' = [before EXCEPT ![j] = LastTwo(called) - LastTwo(missed)]
           /\ calls' = [calls EXCEPT ![j] = 0] /\ told' = [told EXCEPT ![j] = {}]
           /\ \E items \in SUBSET Articles, edited \in SUBSET Articles :
                 /\ batch' = [batch EXCEPT ![j] = items]
                 /\ reworded' = [reworded EXCEPT ![j] = edited]
                 /\ \A a \in items : a \in Unsettled => updated[a] < hour
<1>1. turn = Nobody /\ turn' = j
  BY DEF StartBatch
<1>2. PICK feed \in SUBSET Articles : \E edited \in SUBSET feed : SelectItems(j, feed, edited)
  BY DEF StartBatch
<1>3. PICK edited \in SUBSET feed : SelectItems(j, feed, edited)
  BY <1>2
<1>4. Eligible(j, feed, edited) \subseteq Articles
  BY DEF Eligible, Retryable, Unsettled
<1>5. \A a \in Eligible(j, feed, edited) : a \in Unsettled => updated[a] < hour
  <2> SUFFICES ASSUME NEW a \in Eligible(j, feed, edited), a \in Unsettled PROVE updated[a] < hour
    OBVIOUS
  <2>1. updated[a] \in Int /\ hour \in Int
    BY <1>4 DEF NewsTyped, RowsTyped, CountsTyped
  <2>2. a \notin Cooling \/ a \in Retryable
    BY DEF Eligible
  <2> QED BY <2>1, <2>2 DEF Cooling, Retryable
<1>6. PICK items \in SUBSET Eligible(j, feed, edited) :
          /\ batch' = [batch EXCEPT ![j] = items]
          /\ reworded' = [reworded EXCEPT ![j] = edited]
          /\ before' = [before EXCEPT ![j] = LastTwo(called) - LastTwo(missed)]
          /\ calls' = [calls EXCEPT ![j] = 0] /\ told' = [told EXCEPT ![j] = {}]
          /\ UNCHANGED <<hour, newsRows, called, missed, asking>>
  BY <1>3, Zenon DEF SelectItems
<1> QED BY <1>1, <1>4, <1>5, <1>6

\* What Process does to the article and to the batch.
LEMMA Processed ==
    ASSUME NEW j \in Jobs, NEW a \in Articles, Process(j, a)
    PROVE  /\ a \in batch[j] /\ asking[j] = {}
           /\ batch' = [batch EXCEPT ![j] = @ \ {a}]
           /\ UNCHANGED <<hour, turn, called, missed, reworded, before, calls>>
           /\ \/ UNCHANGED <<class, updated>>
              \/ \E result \in Classes : StoreResult(a, result)
           /\ grouped' \in {grouped, grouped \cup {a}}
           /\ told' = told \/ told' = [told EXCEPT ![j] = @ \cup {StoryOf[a]}]
           /\ \/ UNCHANGED asking
              \/ asking' = [asking EXCEPT ![j] = {a}] /\ BudgetAllows(j)
BY DEF Process, Skip, newsRows, Classes

LEMMA Classified ==
    ASSUME NEW j \in Jobs, Classify(j)
    PROVE  /\ asking' = [asking EXCEPT ![j] = {}] /\ asking[j] # {}
           /\ \E a \in asking[j] : \E result \in Classes :
                 StoreResult(a, result) /\ grouped' \in {grouped \cup {a}, grouped \ {a}}
           /\ \E n \in 1..2 : calls' = [calls EXCEPT ![j] = @ + n]
           /\ called' = [called EXCEPT ![hour] = @ + 1]
           /\ missed' = missed \/ missed' = [missed EXCEPT ![hour] = @ + 1]
           /\ UNCHANGED <<hour, turn, batch, reworded, before, told>>
BY DEF Classify, Classes

LEMMA RowsTypedStep == NewsTyped /\ [NextNews]_newsVars => RowsTyped'
<1> SUFFICES ASSUME NewsTyped, [NextNews]_newsVars PROVE RowsTyped'
  OBVIOUS
<1> USE DEF NewsTyped, RowsTyped
<1>h. hour \in 0..LastHour
  BY DEF CountsTyped
<1>1. CASE UNCHANGED newsRows
  BY <1>1 DEF newsRows
<1>2. ASSUME NEW a \in Articles, NEW result \in Classes, StoreResult(a, result)
      PROVE  class' \in [Articles -> Classes] /\ updated' \in [Articles -> 0..LastHour]
  BY <1>2, <1>h DEF StoreResult
<1>3. ASSUME NEW j \in Jobs, NEW a \in Articles, Process(j, a) PROVE RowsTyped'
  <2>1. class' \in [Articles -> Classes] /\ updated' \in [Articles -> 0..LastHour]
    BY <1>2, <1>3, Processed
  <2>2. grouped' \subseteq Articles
    BY <1>3, Processed
  <2> QED BY <2>1, <2>2
<1>4. ASSUME NEW j \in Jobs, Classify(j) PROVE RowsTyped'
  <2>1. PICK a \in asking[j] : \E result \in Classes :
            StoreResult(a, result) /\ grouped' \in {grouped \cup {a}, grouped \ {a}}
    BY <1>4, Classified
  <2>2. a \in Articles
    BY DEF BatchesTyped
  <2> QED BY <1>2, <2>1, <2>2
<1> QED
  BY <1>1, <1>3, <1>4, NewsStarted DEF NextNews, newsVars, EndBatch, CrashNews, NextHour

LEMMA CountsTypedStep == NewsTyped /\ [NextNews]_newsVars => CountsTyped'
<1> SUFFICES ASSUME NewsTyped, [NextNews]_newsVars PROVE CountsTyped'
  OBVIOUS
<1>c. CountsTyped
  BY DEF NewsTyped
<1>1. CASE UNCHANGED <<hour, turn, called, missed, before, calls>>
  BY <1>1, <1>c DEF CountsTyped
<1>2. ASSUME NEW j \in Jobs, StartBatch(j) PROVE CountsTyped'
  <2>1. /\ UNCHANGED <<hour, called, missed>> /\ turn' = j /\ calls' = [calls EXCEPT ![j] = 0]
        /\ before' = [before EXCEPT ![j] = LastTwo(called) - LastTwo(missed)]
    BY <1>2, NewsStarted
  <2>2. LastTwo(called) - LastTwo(missed) \in Nat
    <3>1. LastTwo(called) \in Nat /\ LastTwo(missed) \in Nat
      BY <1>c, LastTwoTyped DEF CountsTyped
    <3> QED BY <1>c, <3>1, MissedAtMost
  <2> QED BY <1>c, <2>1, <2>2 DEF CountsTyped
<1>3. ASSUME NEW j \in Jobs, NEW a \in Articles, Process(j, a) PROVE CountsTyped'
  BY <1>1, <1>3, Processed
<1>4. ASSUME NEW j \in Jobs, Classify(j) PROVE CountsTyped'
  <2>1. /\ UNCHANGED <<hour, turn, before>> /\ called' = [called EXCEPT ![hour] = @ + 1]
        /\ missed' = missed \/ missed' = [missed EXCEPT ![hour] = @ + 1]
    BY <1>4, Classified
  <2>2. calls' \in [Jobs -> Nat]
    <3>1. PICK n \in 1..2 : calls' = [calls EXCEPT ![j] = @ + n]
      BY <1>4, Classified
    <3>2. calls \in [Jobs -> Nat] /\ calls[j] + n \in Nat
      BY <1>c DEF CountsTyped
    <3> QED BY <3>1, <3>2
  <2>3. /\ called \in [0..LastHour -> Nat] /\ missed \in [0..LastHour -> Nat] /\ hour \in 0..LastHour
        /\ called[hour] \in Nat /\ missed[hour] \in Nat /\ missed[hour] <= called[hour]
    BY <1>c DEF CountsTyped
  <2>4. called' \in [0..LastHour -> Nat]
    BY <2>1, <2>3
  <2>5. missed' \in [0..LastHour -> Nat]
    BY <2>1, <2>3
  <2>6. ASSUME NEW h \in 0..LastHour PROVE missed'[h] <= called'[h]
    <3>1. CASE h = hour
      <4>1. called'[hour] = called[hour] + 1
        BY <2>1, <2>3
      <4>2. missed'[hour] = missed[hour] \/ missed'[hour] = missed[hour] + 1
        BY <2>1, <2>3
      <4> QED BY <2>3, <3>1, <4>1, <4>2
    <3>2. CASE h # hour
      <4>1. missed'[h] = missed[h] /\ called'[h] = called[h]
        BY <2>1, <2>3, <3>2
      <4> QED BY <1>c, <4>1 DEF CountsTyped
    <3> QED BY <3>1, <3>2
  <2> QED BY <1>c, <2>1, <2>2, <2>4, <2>5, <2>6 DEF CountsTyped
<1>5. ASSUME NEW j \in Jobs, EndBatch(j) PROVE CountsTyped'
  BY <1>5, <1>c DEF EndBatch, CountsTyped
<1>6. CASE CrashNews
  BY <1>6, <1>c DEF CrashNews, CountsTyped
<1>7. CASE NextHour
  BY <1>7, <1>c, NewsAssumption DEF NextHour, batchVars, CountsTyped
<1> QED BY <1>1, <1>2, <1>3, <1>4, <1>5, <1>6, <1>7 DEF NextNews, newsVars, batchVars

LEMMA BatchesTypedStep == NewsTyped /\ [NextNews]_newsVars => BatchesTyped'
<1> SUFFICES ASSUME NewsTyped, [NextNews]_newsVars PROVE BatchesTyped'
  OBVIOUS
<1> USE NewsAssumption DEF NewsTyped, BatchesTyped
<1>1. CASE UNCHANGED <<turn, batchVars>>
  BY <1>1 DEF batchVars
<1>2. ASSUME NEW j \in Jobs, StartBatch(j) PROVE BatchesTyped'
  <2>1. turn = Nobody /\ turn' = j /\ asking' = asking /\ told' = [told EXCEPT ![j] = {}]
    BY <1>2, NewsStarted
  <2>2. PICK items \in SUBSET Articles, edited \in SUBSET Articles :
           batch' = [batch EXCEPT ![j] = items] /\ reworded' = [reworded EXCEPT ![j] = edited]
    BY <1>2, NewsStarted
  <2> QED BY <2>1, <2>2
<1>3. ASSUME NEW j \in Jobs, NEW a \in Articles, Process(j, a) PROVE BatchesTyped'
  <2>1. /\ a \in batch[j] /\ batch' = [batch EXCEPT ![j] = @ \ {a}] /\ UNCHANGED <<turn, reworded>>
        /\ asking' = asking \/ asking' = [asking EXCEPT ![j] = {a}]
    BY <1>3, Processed
  <2>2. told' \in [Jobs -> SUBSET Stories]
    BY <1>3, Processed
  <2>3. j = turn
    BY <2>1
  <2>4. batch' \in [Jobs -> SUBSET Articles] /\ \A i \in Jobs \ {j} : batch'[i] = batch[i]
    BY <2>1
  <2>5. asking' \in [Jobs -> SUBSET Articles] /\ \A i \in Jobs \ {j} : asking'[i] = asking[i]
    BY <2>1
  <2> QED BY <2>1, <2>2, <2>3, <2>4, <2>5
<1>4. ASSUME NEW j \in Jobs, Classify(j) PROVE BatchesTyped'
  BY <1>4, Classified
<1>5. ASSUME NEW j \in Jobs, EndBatch(j) PROVE BatchesTyped'
  BY <1>5 DEF EndBatch
<1>6. CASE CrashNews
  BY <1>6 DEF CrashNews
<1>7. CASE NextHour
  BY <1>1, <1>7 DEF NextHour
<1> QED BY <1>1, <1>2, <1>3, <1>4, <1>5, <1>6, <1>7 DEF NextNews, newsVars

LEMMA NewsTypedStep == NewsTyped /\ [NextNews]_newsVars => NewsTyped'
BY RowsTypedStep, CountsTypedStep, BatchesTypedStep DEF NewsTyped

-----------------------------------------------------------------------------
\* What is ahead has no calls; the job at work knows of at least the calls whose
\* outcome was stored, and asks only below the cap.
CallsInv ==
    /\ \A h \in 0..LastHour : h > hour => called[h] = 0 /\ missed[h] = 0
    /\ turn \in Jobs => LastTwo(called) - LastTwo(missed) <= before[turn] + calls[turn]
    /\ \A j \in Jobs : asking[j] # {} => before[j] + calls[j] < CallsPerHour
    /\ CallsWithinHour

\* The articles of a batch were not written in this hour while they wait, and
\* the one that the model is asked about is not among them.
WaitingInv ==
    \A j \in Jobs : \A a \in batch[j] :
        a \notin asking[j] /\ (a \in Unsettled => updated[a] < hour)

NewsInv == NewsTyped /\ CallsInv /\ WaitingInv

LEMMA InitNewsInv == InitNews => NewsInv
<1> SUFFICES ASSUME InitNews PROVE NewsInv
  OBVIOUS
<1>1. hour \in 0..LastHour /\ hour = 0
  BY NewsAssumption DEF InitNews
<1>2. LastTwo(called) = 0 /\ LastTwo(missed) = 0
  BY <1>1 DEF InitNews, LastTwo
<1>3. CallsInv
  BY <1>1, <1>2, NewsAssumption DEF InitNews, CallsInv, CallsWithinHour
<1> QED BY <1>3, InitNewsTyped DEF InitNews, NewsInv, WaitingInv

LEMMA WaitingStep ==
    ASSUME NewsInv, [NextNews]_newsVars
    PROVE  WaitingInv'
<1> USE DEF NewsInv, NewsTyped, WaitingInv
<1>1. ASSUME NEW b \in Articles, UNCHANGED <<class, updated, hour>>
      PROVE  (b \in Unsettled => updated[b] < hour) = (b \in Unsettled => updated[b] < hour)'
  BY <1>1 DEF Unsettled
<1>2. ASSUME NEW a \in Articles, NEW b \in Articles \ {a}, NEW result \in Classes,
             StoreResult(a, result), hour' = hour, b \in Unsettled'
      PROVE  b \in Unsettled /\ updated'[b] = updated[b]
  BY <1>2 DEF StoreResult, Unsettled, RowsTyped
<1>3. ASSUME NEW j \in Jobs, StartBatch(j) PROVE WaitingInv'
  <2>1. UNCHANGED <<hour, class, updated, asking>> /\ turn = Nobody
    BY <1>3, NewsStarted DEF newsRows
  <2>2. PICK items \in SUBSET Articles :
           /\ batch' = [batch EXCEPT ![j] = items]
           /\ \A a \in items : a \in Unsettled => updated[a] < hour
    BY <1>3, NewsStarted
  <2>3. asking[j] = {} /\ Unsettled' = Unsettled
    BY <2>1, NewsAssumption DEF BatchesTyped, Unsettled
  <2> QED BY <2>1, <2>2, <2>3 DEF BatchesTyped
<1>4. ASSUME NEW j \in Jobs, NEW a \in Articles, Process(j, a) PROVE WaitingInv'
  <2>1. /\ hour' = hour /\ batch' = [batch EXCEPT ![j] = @ \ {a}] /\ a \in batch[j]
        /\ asking' = asking \/ asking' = [asking EXCEPT ![j] = {a}]
        /\ UNCHANGED <<class, updated>> \/ \E result \in Classes : StoreResult(a, result)
    BY <1>4, Processed
  <2>2. \A i \in Jobs \ {j} : batch[i] = {}
    BY <2>1 DEF BatchesTyped
  <2>3. ASSUME NEW b \in batch[j] \ {a} PROVE b \in Unsettled' => updated'[b] < hour
    <3>1. b \in Articles
      BY DEF BatchesTyped
    <3>2. CASE UNCHANGED <<class, updated>>
      BY <3>1, <3>2 DEF Unsettled
    <3>3. CASE \E result \in Classes : StoreResult(a, result)
      BY <1>2, <2>1, <3>1, <3>3
    <3> QED BY <2>1, <3>2, <3>3
  <2> QED BY <2>1, <2>2, <2>3 DEF BatchesTyped
<1>5. ASSUME NEW j \in Jobs, Classify(j) PROVE WaitingInv'
  <2>1. UNCHANGED <<hour, batch>> /\ asking' = [asking EXCEPT ![j] = {}] /\ asking[j] # {}
    BY <1>5, Classified
  <2>2. PICK a \in asking[j] : \E result \in Classes : StoreResult(a, result)
    BY <1>5, Classified
  <2>3. a \in Articles /\ \A i \in Jobs \ {j} : batch[i] = {}
    BY <2>2 DEF BatchesTyped
  <2>4. ASSUME NEW b \in batch[j] PROVE b \in Unsettled' => updated'[b] < hour
    <3>1. b \in Articles \ {a}
      BY <2>2 DEF BatchesTyped
    <3> QED BY <1>2, <2>1, <2>2, <2>3, <3>1
  <2> QED BY <2>1, <2>3, <2>4 DEF BatchesTyped
<1>6. ASSUME NEW j \in Jobs, EndBatch(j) PROVE WaitingInv'
  BY <1>6 DEF EndBatch, newsRows, Unsettled
<1>7. CASE CrashNews
  BY <1>7 DEF CrashNews
<1>8. CASE NextHour
  <2>1. hour' = hour + 1 /\ UNCHANGED <<batch, asking, class, updated>>
    BY <1>8 DEF NextHour, batchVars, newsRows
  <2>2. Unsettled' = Unsettled /\ \A a \in Unsettled : updated[a] \in Int /\ hour \in Int
    BY <2>1 DEF Unsettled, RowsTyped, CountsTyped
  <2> QED BY <2>1, <2>2
<1>9. CASE UNCHANGED newsVars
  BY <1>9 DEF newsVars, newsRows, batchVars, Unsettled
<1> QED BY <1>3, <1>4, <1>5, <1>6, <1>7, <1>8, <1>9 DEF NextNews

\* The counts as they were, so is what CallsInv says of them.
LEMMA CountsKept ==
    ASSUME CallsInv, UNCHANGED <<hour, called, missed>>
    PROVE  /\ LastTwo(called)' = LastTwo(called) /\ LastTwo(missed)' = LastTwo(missed)
           /\ \A h \in 0..LastHour : h > hour' => called'[h] = 0 /\ missed'[h] = 0
           /\ CallsWithinHour'
BY DEF LastTwo, CallsInv, CallsWithinHour

LEMMA HourCallsStep ==
    ASSUME NewsInv, [NextNews]_newsVars
    PROVE  CallsInv'
<1>c. NewsTyped /\ CountsTyped /\ BatchesTyped /\ CallsInv
  BY DEF NewsInv, NewsTyped
<1>n. LastTwo(called) \in Nat /\ LastTwo(missed) \in Nat /\ CallsPerHour \in Nat
  BY <1>c, LastTwoTyped, NewsAssumption DEF CountsTyped
<1>1. CASE UNCHANGED <<hour, turn, called, missed, before, calls, asking>>
  BY <1>1, <1>c, CountsKept DEF CallsInv
<1>2. ASSUME NEW j \in Jobs, StartBatch(j) PROVE CallsInv'
  <2>1. /\ UNCHANGED <<hour, called, missed, asking>> /\ turn = Nobody /\ turn' = j
        /\ before' = [before EXCEPT ![j] = LastTwo(called) - LastTwo(missed)]
        /\ calls' = [calls EXCEPT ![j] = 0]
    BY <1>c, <1>2, NewsStarted
  <2>2. \A i \in Jobs : asking'[i] = {}
    BY <1>c, <2>1, NewsAssumption DEF BatchesTyped
  <2>3. before'[j] = LastTwo(called) - LastTwo(missed) /\ calls'[j] = 0
    BY <1>c, <2>1 DEF CountsTyped
  <2>4. LastTwo(called)' - LastTwo(missed)' <= before'[j] + calls'[j]
    BY <1>c, <1>n, <2>1, <2>3, CountsKept
  <2> QED BY <1>c, <2>1, <2>2, <2>4, CountsKept DEF CallsInv
<1>3. ASSUME NEW j \in Jobs, NEW a \in Articles, Process(j, a) PROVE CallsInv'
  <2>1. /\ UNCHANGED <<hour, turn, called, missed, before, calls>>
        /\ \/ UNCHANGED asking
           \/ asking' = [asking EXCEPT ![j] = {a}] /\ BudgetAllows(j)
    BY <1>3, Processed
  <2>2. \A i \in Jobs : asking'[i] # {} => before[i] + calls[i] < CallsPerHour
    BY <1>c, <2>1 DEF BudgetAllows, BatchesTyped, CallsInv
  <2> QED BY <1>c, <2>1, <2>2, CountsKept DEF CallsInv
<1>4. ASSUME NEW j \in Jobs, Classify(j) PROVE CallsInv'
  <2>1. /\ UNCHANGED <<hour, turn, before>> /\ called' = [called EXCEPT ![hour] = @ + 1]
        /\ missed' = missed \/ missed' = [missed EXCEPT ![hour] = @ + 1]
        /\ asking[j] # {} /\ asking' = [asking EXCEPT ![j] = {}]
    BY <1>4, Classified
  <2>2. PICK n \in 1..2 : calls' = [calls EXCEPT ![j] = @ + n]
    BY <1>4, Classified
  <2>3. turn = j /\ turn \in Jobs /\ \A i \in Jobs : asking'[i] = {}
    BY <1>c, <2>1 DEF BatchesTyped
  <2>4. /\ LastTwo(called)' = LastTwo(called) + 1
        /\ LastTwo(missed)' \in {LastTwo(missed), LastTwo(missed) + 1}
    <3>1. LastTwo(called)' = LastTwo(called') /\ LastTwo(missed)' = LastTwo(missed')
      BY <2>1 DEF LastTwo
    <3>2. LastTwo(called') = LastTwo(called) + 1
      BY <1>c, <2>1, LastTwoBumped DEF CountsTyped
    <3>3. missed' = [missed EXCEPT ![hour] = @ + 1] => LastTwo(missed') = LastTwo(missed) + 1
      BY <1>c, LastTwoBumped DEF CountsTyped
    <3> QED BY <2>1, <3>1, <3>2, <3>3
  <2>5. before[j] \in Nat /\ calls[j] \in Nat /\ before[j] + calls[j] < CallsPerHour
        /\ calls'[j] = calls[j] + n /\ LastTwo(called) - LastTwo(missed) <= before[j] + calls[j]
    BY <1>c, <2>1, <2>2, <2>3 DEF CountsTyped, CallsInv
  <2>6. ASSUME NEW h \in 0..LastHour, h > hour' PROVE called'[h] = 0 /\ missed'[h] = 0
    <3>1. h # hour /\ hour \in 0..LastHour
      BY <1>c, <2>1, <2>6 DEF CountsTyped
    <3>2. called'[h] = called[h] /\ missed'[h] = missed[h]
      BY <1>c, <2>1, <3>1 DEF CountsTyped
    <3> QED BY <1>c, <2>1, <2>6, <3>2 DEF CallsInv
  <2>7. LastTwo(called)' - LastTwo(missed)' <= before'[j] + calls'[j]
    BY <1>n, <2>1, <2>4, <2>5
  <2>8. LastTwo(called)' <= CallsPerHour + LastTwo(missed)'
    BY <1>n, <2>4, <2>5
  <2> QED BY <2>1, <2>3, <2>6, <2>7, <2>8 DEF CallsInv, CallsWithinHour
<1>5. ASSUME NEW j \in Jobs, EndBatch(j) PROVE CallsInv'
  <2>1. UNCHANGED <<hour, called, missed, asking>> /\ turn' = Nobody /\ turn = j /\ asking[j] = {}
    BY <1>5 DEF EndBatch
  <2>2. \A i \in Jobs : asking'[i] = {}
    BY <1>c, <2>1 DEF BatchesTyped
  <2> QED BY <1>c, <2>1, <2>2, CountsKept, NewsAssumption DEF CallsInv
<1>6. CASE CrashNews
  <2>1. UNCHANGED <<hour, called, missed>> /\ turn' = Nobody /\ \A i \in Jobs : asking'[i] = {}
    BY <1>6 DEF CrashNews
  <2> QED BY <1>c, <2>1, CountsKept, NewsAssumption DEF CallsInv
<1>7. CASE NextHour
  <2>1. /\ hour' = hour + 1 /\ hour < LastHour
        /\ UNCHANGED <<turn, called, missed, before, calls, asking>>
    BY <1>7 DEF NextHour, batchVars
  <2>2. hour \in Nat /\ hour' \in 0..LastHour /\ hour' > hour /\ hour' - 1 = hour /\ hour' # 0
    <3>1. hour \in 0..LastHour /\ LastHour \in Nat
      BY <1>c, NewsAssumption DEF CountsTyped
    <3>2. hour' = hour + 1 /\ hour < LastHour
      BY <2>1
    <3> QED BY <3>1, <3>2
  <2>3. called[hour'] = 0 /\ missed[hour'] = 0
    BY <1>c, <2>2 DEF CallsInv
  <2>4. /\ called[hour] \in Nat /\ missed[hour] \in Nat
        /\ LastTwo(called)' = called[hour] /\ LastTwo(missed)' = missed[hour]
    BY <1>c, <2>1, <2>2, <2>3 DEF LastTwo, CountsTyped
  <2>5. LastTwo(called)' - LastTwo(missed)' <= LastTwo(called) - LastTwo(missed)
    <3>1. CASE hour = 0
      BY <2>4, <3>1 DEF LastTwo
    <3>2. CASE hour # 0
      <4>1. called[hour - 1] \in Nat /\ missed[hour - 1] \in Nat /\ missed[hour - 1] <= called[hour - 1]
        BY <1>c, <3>2, HourBefore DEF CountsTyped
      <4> QED BY <2>4, <3>2, <4>1 DEF LastTwo
    <3> QED BY <3>1, <3>2
  <2>6. \A h \in 0..LastHour : h > hour' => called'[h] = 0 /\ missed'[h] = 0
    BY <1>c, <2>1, <2>2 DEF CallsInv
  <2>7. turn' \in Jobs => LastTwo(called)' - LastTwo(missed)' <= before'[turn'] + calls'[turn']
    <3>1. turn \in Jobs => /\ before[turn] + calls[turn] \in Nat
                           /\ LastTwo(called) - LastTwo(missed) <= before[turn] + calls[turn]
      BY <1>c DEF CallsInv, CountsTyped
    <3> QED BY <1>n, <2>1, <2>4, <2>5, <3>1
  <2>8. CallsWithinHour'
    BY <1>c, <1>n, <2>4, <2>5 DEF CallsInv, CallsWithinHour
  <2> QED BY <1>c, <2>1, <2>6, <2>7, <2>8 DEF CallsInv
<1> QED BY <1>1, <1>2, <1>3, <1>4, <1>5, <1>6, <1>7 DEF NextNews, newsVars, batchVars

LEMMA SpecNewsInv == SpecNews => []NewsInv
<1>1. NewsInv /\ [NextNews]_newsVars => NewsInv'
  BY NewsTypedStep, HourCallsStep, WaitingStep DEF NewsInv
<1> QED BY InitNewsInv, <1>1, PTL DEF SpecNews

\* Every variable of the classification has its type, and only the job whose turn
\* it is has a batch.
THEOREM NewsTypeCorrect == SpecNews => []TypeOKNews
<1>1. NewsInv => TypeOKNews
  BY DEF NewsInv, NewsTyped, RowsTyped, CountsTyped, BatchesTyped, TypeOKNews
<1> QED BY <1>1, SpecNewsInv, PTL

\* An article that failed or was skipped is not asked about again in the hour.
LEMMA AskedLater ==
    ASSUME NewsInv, [NextNews]_newsVars, NEW j \in Jobs, NEW a \in asking'[j] \ asking[j], a \in Unsettled
    PROVE  updated[a] < hour
<1>1. ASSUME NEW i \in Jobs, NEW b \in Articles, Process(i, b) PROVE updated[a] < hour
  <2>1. b \in batch[i] /\ (asking' = asking \/ asking' = [asking EXCEPT ![i] = {b}])
    BY <1>1, Processed
  <2>2. a = b
    BY <2>1 DEF NewsInv, NewsTyped, BatchesTyped
  <2> QED BY <2>1, <2>2 DEF NewsInv, WaitingInv
<1>2. CASE \A i \in Jobs : asking'[i] \in {asking[i], {}}
  BY <1>2
<1>3. ASSUME NEW i \in Jobs, Classify(i) PROVE \A k \in Jobs : asking'[k] \in {asking[k], {}}
  BY <1>3, Classified DEF NewsInv, NewsTyped, BatchesTyped
<1>4. ASSUME NEW i \in Jobs, StartBatch(i) PROVE UNCHANGED asking
  BY <1>4, NewsStarted DEF NewsInv
<1> QED
  BY <1>1, <1>2, <1>3, <1>4 DEF NextNews, newsVars, batchVars, EndBatch, CrashNews, NextHour

\* Two consecutive hours see no more calls than the cap and what was not stored,
\* and nothing that failed is asked about again in the hour, for any jobs,
\* articles, stories, caps and restarts.
THEOREM NewsAreRationed == SpecNews => NewsRationed
<1>1. NewsInv => CallsWithinHour
  BY DEF NewsInv, CallsInv
<1>2. NewsInv /\ [NextNews]_newsVars =>
          \A j \in Jobs : \A a \in asking'[j] \ asking[j] : a \in Unsettled => updated[a] < hour
  BY AskedLater
<1> QED BY <1>1, <1>2, SpecNewsInv, PTL DEF SpecNews, NewsRationed, NotRetriedAtOnce

-----------------------------------------------------------------------------
(***************************************************************************)
(* The window of the free plan.                                            *)
(***************************************************************************)

ClockTyped == clock \in 0..LastTime /\ loaded \in BOOLEAN /\ forgotten \subseteq Attempts

AttemptsTyped ==
    /\ stage \in [Attempts -> Stages] /\ outcome \in [Attempts -> Outcomes]
    /\ asked \in [Attempts -> Times] /\ counted \in [Attempts -> Times] /\ row \in [Attempts -> Times]
    /\ tokens \in [Attempts -> Nat] /\ used \in [Attempts -> Nat]

\* What is known of an attempt by its stage: its row is not older than it, and
\* its charge is what the row says, or would say.
AttemptSound(a) ==
    /\ stage[a] \in {"new", "refused"} =>
          asked[a] = NoTime /\ counted[a] = NoTime /\ row[a] = NoTime /\ outcome[a] = "none"
    /\ stage[a] \in {"sent", "over"} => asked[a] \in 0..clock
    /\ stage[a] = "sent" =>
          loaded /\ row[a] = NoTime /\ outcome[a] = "none" /\ tokens[a] = Estimate[a]
    /\ row[a] # NoTime => row[a] \in Nat /\ asked[a] <= row[a] /\ row[a] <= clock
    /\ counted[a] # NoTime =>
          /\ loaded /\ counted[a] \in Nat /\ asked[a] <= counted[a] /\ counted[a] <= clock
          /\ tokens[a] = RowTokens(a)
    /\ outcome[a] = "rejected" => used[a] = 0

\* A request of the day that is not forgotten is in the window of the process,
\* or will be when it reads the log.
Remembered(a) ==
    a \in Started \ forgotten =>
        /\ loaded /\ asked[a] > clock - Day => counted[a] # NoTime
        /\ ~loaded => row[a] # NoTime

GroqInv == ClockTyped /\ AttemptsTyped /\ \A a \in Attempts : AttemptSound(a) /\ Remembered(a)

LEMMA TimesKinds == NoTime \notin Nat /\ 0..LastTime \subseteq Nat /\ LastTime \in Nat /\ Day \in Nat /\ Minute \in Nat
BY GroqAssumption

LEMMA RowTokensTyped == AttemptsTyped => \A a \in Attempts : RowTokens(a) \in Nat
BY GroqAssumption DEF AttemptsTyped, RowTokens, Outcomes

LEMMA InitGroqInv == InitGroq => GroqInv
<1> SUFFICES ASSUME InitGroq PROVE GroqInv
  OBVIOUS
<1>1. ClockTyped
  <2>1. loaded \in BOOLEAN
    BY Zenon DEF InitGroq
  <2> QED BY <2>1, TimesKinds DEF InitGroq, ClockTyped
<1>2. AttemptsTyped
  BY TimesKinds DEF InitGroq, AttemptsTyped, Stages, Outcomes, Times
<1>3. \A a \in Attempts : AttemptSound(a) /\ Remembered(a)
  BY DEF InitGroq, AttemptSound, Remembered, Started
<1> QED BY <1>1, <1>2, <1>3 DEF GroqInv

\* What a reservation does.
AdmittedNow(a) ==
    /\ loaded /\ stage[a] = "new" /\ Refusal(a) = "none"
    /\ asked' = [asked EXCEPT ![a] = clock] /\ tokens' = [tokens EXCEPT ![a] = Estimate[a]]
    /\ stage' = [stage EXCEPT ![a] = "sent"] /\ counted'[a] = clock
    /\ \A b \in Attempts \ {a} : counted'[b] = IF b \in Charged(clock, Day) THEN counted[b] ELSE NoTime
    /\ counted' \in [Attempts -> Times]
    /\ UNCHANGED <<clock, loaded, used, outcome, row, forgotten>>

RefusedNow(a) ==
    /\ loaded /\ stage[a] = "new" /\ Refusal(a) # "none"
    /\ stage' = [stage EXCEPT ![a] = "refused"]
    /\ \A b \in Attempts : counted'[b] = IF b \in Charged(clock, Day) THEN counted[b] ELSE NoTime
    /\ counted' \in [Attempts -> Times]
    /\ UNCHANGED <<clock, asked, loaded, tokens, used, outcome, row, forgotten>>

LEMMA ReserveIs ==
    ASSUME ClockTyped, AttemptsTyped, NEW a \in Attempts, Reserve(a)
    PROVE  AdmittedNow(a) \/ RefusedNow(a)
<1> DEFINE pruned == [b \in Attempts |-> IF b \in Charged(clock, Day) THEN counted[b] ELSE NoTime]
<1>1. pruned \in [Attempts -> Times] /\ clock \in Times
  BY DEF AttemptsTyped, ClockTyped, Times
<1>2. /\ loaded /\ stage[a] = "new"
      /\ \/ /\ Refusal(a) = "none"
            /\ asked' = [asked EXCEPT ![a] = clock]
            /\ counted' = [pruned EXCEPT ![a] = clock]
            /\ tokens' = [tokens EXCEPT ![a] = Estimate[a]]
            /\ Move(a, "sent")
         \/ /\ Refusal(a) # "none"
            /\ counted' = pruned
            /\ Move(a, "refused")
            /\ UNCHANGED <<asked, tokens>>
      /\ UNCHANGED <<clock, loaded, used, outcome, row, forgotten>>
  BY DEF Reserve
<1>3. \A b \in Attempts : pruned[b] = IF b \in Charged(clock, Day) THEN counted[b] ELSE NoTime
  OBVIOUS
<1> HIDE DEF pruned
<1>4. CASE Refusal(a) = "none"
  <2>1. counted' = [pruned EXCEPT ![a] = clock]
    BY <1>2, <1>4
  <2>2. counted' \in [Attempts -> Times] /\ counted'[a] = clock /\ \A b \in Attempts \ {a} : counted'[b] = pruned[b]
    BY <1>1, <2>1
  <2> QED BY <1>2, <1>3, <1>4, <2>2 DEF AdmittedNow, Move
<1>5. CASE Refusal(a) # "none"
  BY <1>1, <1>2, <1>3, <1>5 DEF RefusedNow, Move
<1> QED BY <1>4, <1>5

LEMMA GroqTypedStep == GroqInv /\ [NextGroq]_groqVars => ClockTyped' /\ AttemptsTyped'
<1> SUFFICES ASSUME GroqInv, [NextGroq]_groqVars PROVE ClockTyped' /\ AttemptsTyped'
  OBVIOUS
<1>t. ClockTyped /\ AttemptsTyped
  BY DEF GroqInv
<1>k. clock \in Times /\ NoTime \in Times
  BY <1>t DEF ClockTyped, Times
<1>1. ASSUME NEW a \in Attempts, Reserve(a) PROVE ClockTyped' /\ AttemptsTyped'
  <2>1. CASE AdmittedNow(a)
    BY <1>k, <1>t, <2>1, GroqAssumption DEF AdmittedNow, ClockTyped, AttemptsTyped, Stages
  <2>2. CASE RefusedNow(a)
    BY <1>t, <2>2 DEF RefusedNow, ClockTyped, AttemptsTyped, Stages
  <2> QED BY <1>t, <1>1, <2>1, <2>2, ReserveIs
<1>2. ASSUME NEW a \in Attempts, SettleLease(a) PROVE ClockTyped' /\ AttemptsTyped'
  <2>1. PICK cost \in TokenCosts, result \in {"rejected", "unknown", "reported"} :
          /\ used' = [used EXCEPT ![a] = cost] /\ outcome' = [outcome EXCEPT ![a] = result]
          /\ tokens' = [tokens EXCEPT ![a] = LeftOf(a, result, cost)]
    BY <1>2 DEF SettleLease
  <2>2. LeftOf(a, result, cost) \in Nat /\ cost \in Nat
    BY <1>t, GroqAssumption DEF LeftOf, AttemptsTyped
  <2>3. row' \in [Attempts -> Times]
    BY <1>2, <1>k, <1>t DEF SettleLease, AttemptsTyped
  <2> QED BY <1>2, <1>t, <2>1, <2>2, <2>3 DEF SettleLease, Move, ClockTyped, AttemptsTyped, Stages, Outcomes
<1>3. CASE LoadHistory
  <2>1. loaded' \in BOOLEAN
    BY <1>3, Zenon DEF LoadHistory
  <2>2. forgotten' \subseteq Attempts
    BY <1>3, <1>t DEF LoadHistory, ClockTyped, RowsSince
  <2>3. counted' \in [Attempts -> Times]
    BY <1>3, <1>k, <1>t DEF LoadHistory, AttemptsTyped
  <2>4. tokens' \in [Attempts -> Nat]
    BY <1>3, <1>t, RowTokensTyped DEF LoadHistory, AttemptsTyped
  <2> QED BY <1>3, <1>t, <2>1, <2>2, <2>3, <2>4 DEF LoadHistory, ClockTyped, AttemptsTyped
<1>4. CASE RestartGroq
  <2>1. loaded' \in BOOLEAN
    BY <1>4, Zenon DEF RestartGroq
  <2>2. forgotten' \subseteq Attempts
    BY <1>4, <1>t DEF RestartGroq, ClockTyped
  <2>3. stage' \in [Attempts -> Stages]
    BY <1>4, <1>t DEF RestartGroq, AttemptsTyped, Stages
  <2>4. used' \in [Attempts -> Nat] /\ tokens' \in [Attempts -> Nat] /\ counted' \in [Attempts -> Times]
    BY <1>4, <1>k, <1>t, GroqAssumption DEF RestartGroq, AttemptsTyped
  <2> QED BY <1>4, <1>t, <2>1, <2>2, <2>3, <2>4 DEF RestartGroq, ClockTyped, AttemptsTyped
<1>5. CASE TickGroq
  BY <1>5, <1>t, TimesKinds DEF TickGroq, window, ClockTyped, AttemptsTyped
<1>6. CASE UNCHANGED groqVars
  BY <1>6, <1>t DEF groqVars, window, ClockTyped, AttemptsTyped
<1> QED BY <1>1, <1>2, <1>3, <1>4, <1>5, <1>6 DEF NextGroq

LEMMA SoundStep ==
    ASSUME GroqInv, [NextGroq]_groqVars, NEW a \in Attempts
    PROVE  AttemptSound(a)'
<1>t. ClockTyped /\ AttemptsTyped /\ AttemptSound(a) /\ ClockTyped' /\ AttemptsTyped'
  BY GroqTypedStep DEF GroqInv
<1>k. clock \in Nat /\ stage[a] \in Stages
  BY <1>t, TimesKinds DEF ClockTyped, AttemptsTyped
<1>1. ASSUME NEW b \in Attempts, Reserve(b) PROVE AttemptSound(a)'
  <2>1. CASE AdmittedNow(b) /\ b = a
    <3>1. /\ asked'[a] = clock /\ tokens'[a] = Estimate[a] /\ stage'[a] = "sent" /\ counted'[a] = clock /\ loaded'
          /\ row'[a] = NoTime /\ outcome'[a] = "none" /\ clock' = clock
      BY <1>t, <2>1 DEF AdmittedNow, AttemptsTyped, AttemptSound
    <3> QED BY <1>k, <3>1 DEF AttemptSound, RowTokens
  <2>2. CASE AdmittedNow(b) /\ b # a
    <3>1. /\ asked'[a] = asked[a] /\ tokens'[a] = tokens[a] /\ stage'[a] = stage[a]
          /\ counted'[a] \in {counted[a], NoTime}
          /\ UNCHANGED <<clock, loaded, used, outcome, row>>
      BY <1>t, <2>2 DEF AdmittedNow, AttemptsTyped
    <3> QED BY <1>t, <3>1 DEF AttemptSound, RowTokens
  <2>3. CASE RefusedNow(b)
    <3>1. /\ counted'[a] \in {counted[a], NoTime}
          /\ stage'[a] = stage[a] \/ (stage[a] = "new" /\ stage'[a] = "refused")
          /\ UNCHANGED <<clock, asked, loaded, tokens, used, outcome, row>>
      BY <1>t, <2>3 DEF RefusedNow, AttemptsTyped
    <3> QED BY <1>t, <3>1 DEF AttemptSound, RowTokens
  <2> QED BY <1>t, <1>1, <2>1, <2>2, <2>3, ReserveIs
<1>2. ASSUME NEW b \in Attempts, SettleLease(b) PROVE AttemptSound(a)'
  <2>0. UNCHANGED <<clock, asked, loaded, counted>> /\ stage[b] = "sent" /\ stage' = [stage EXCEPT ![b] = "over"]
        /\ row' \in {row, [row EXCEPT ![b] = clock]}
    BY <1>2 DEF SettleLease, Move
  <2>1. PICK cost \in TokenCosts, result \in {"rejected", "unknown", "reported"} :
          /\ (result = "rejected" <=> cost = 0)
          /\ used' = [used EXCEPT ![b] = cost] /\ outcome' = [outcome EXCEPT ![b] = result]
          /\ tokens' = [tokens EXCEPT ![b] = LeftOf(b, result, cost)]
    BY <1>2 DEF SettleLease
  <2>2. CASE b = a
    <3>1. tokens[a] = Estimate[a] /\ loaded /\ asked[a] \in 0..clock
      BY <1>t, <2>0, <2>2 DEF AttemptSound
    <3>2. stage'[a] = "over" /\ used'[a] = cost /\ outcome'[a] = result /\ tokens'[a] = LeftOf(a, result, cost)
      BY <1>t, <2>0, <2>1, <2>2 DEF AttemptsTyped
    <3>3. row'[a] = row[a] \/ row'[a] = clock
      BY <1>t, <2>0, <2>2 DEF AttemptsTyped
    <3>4. tokens'[a] = RowTokens(a)'
      BY <2>1, <3>1, <3>2 DEF LeftOf, RowTokens
    <3>5. row'[a] # NoTime => row'[a] \in Nat /\ asked'[a] <= row'[a] /\ row'[a] <= clock'
      BY <1>k, <1>t, <2>0, <3>1, <3>3 DEF AttemptSound
    <3>6. counted'[a] # NoTime =>
            loaded' /\ counted'[a] \in Nat /\ asked'[a] <= counted'[a] /\ counted'[a] <= clock'
      BY <1>t, <2>0 DEF AttemptSound
    <3> QED BY <2>0, <2>1, <3>1, <3>2, <3>4, <3>5, <3>6 DEF AttemptSound
  <2>3. CASE b # a
    <3>1. /\ stage'[a] = stage[a] /\ used'[a] = used[a] /\ outcome'[a] = outcome[a]
          /\ tokens'[a] = tokens[a] /\ row'[a] = row[a]
      BY <1>t, <2>0, <2>1, <2>3 DEF AttemptsTyped
    <3> QED BY <1>t, <2>0, <3>1 DEF AttemptSound, RowTokens
  <2> QED BY <2>2, <2>3
<1>3. CASE LoadHistory
  <2>1. loaded' /\ ~loaded /\ UNCHANGED <<clock, asked, stage, used, outcome, row>>
    BY <1>3 DEF LoadHistory
  <2>2. CASE /\ counted' = [b \in Attempts |-> IF b \in RowsSince(clock) THEN row[b] ELSE NoTime]
             /\ tokens' = [b \in Attempts |-> IF b \in RowsSince(clock) THEN RowTokens(b) ELSE 0]
    <3>1. counted'[a] # NoTime => counted'[a] = row[a] /\ row[a] # NoTime /\ tokens'[a] = RowTokens(a)
      BY <2>2 DEF RowsSince
    <3>2. stage[a] # "sent" /\ (stage[a] \in {"new", "refused"} => counted'[a] = NoTime)
      BY <1>t, <2>1, <2>2 DEF AttemptSound, RowsSince
    <3> QED BY <1>t, <2>1, <3>1, <3>2 DEF AttemptSound, RowTokens
  <2>3. CASE UNCHANGED <<counted, tokens>>
    BY <1>t, <2>1, <2>3 DEF AttemptSound, RowTokens
  <2> QED BY <1>3, <2>2, <2>3 DEF LoadHistory
<1>4. CASE RestartGroq
  <2>1. /\ ~loaded' /\ counted'[a] = NoTime /\ UNCHANGED <<clock, asked, outcome, row>>
        /\ stage'[a] = (IF stage[a] \in {"new", "refused"} THEN stage[a] ELSE "over")
        /\ used'[a] = (IF stage[a] = "sent" THEN Estimate[a] ELSE used[a])
    BY <1>4 DEF RestartGroq
  <2>2. stage'[a] # "sent" /\ (stage'[a] \in {"new", "refused"} => stage'[a] = stage[a])
    BY <1>k, <2>1 DEF Stages
  <2>3. stage'[a] = "over" => stage[a] \in {"sent", "over"}
    BY <1>k, <2>1 DEF Stages
  <2>4. outcome[a] = "rejected" => stage[a] # "sent" /\ used'[a] = used[a]
    BY <1>t, <2>1 DEF AttemptSound
  <2> QED BY <1>t, <2>1, <2>2, <2>3, <2>4 DEF AttemptSound
<1>5. CASE TickGroq
  <2>1. clock' = clock + 1 /\ UNCHANGED <<asked, stage, window, used, outcome, row>>
    BY <1>5 DEF TickGroq
  <2>2. UNCHANGED <<loaded, counted, tokens>> /\ RowTokens(a)' = RowTokens(a)
    BY <2>1 DEF window, RowTokens
  <2>3. row[a] \in Nat => (row[a] <= clock => row[a] <= clock')
    BY <1>k, <2>1
  <2>4. counted[a] \in Nat => (counted[a] <= clock => counted[a] <= clock')
    BY <1>k, <2>1
  <2>5. asked[a] \in 0..clock => asked'[a] \in 0..clock'
    BY <1>k, <2>1
  <2> QED BY <1>t, <2>1, <2>2, <2>3, <2>4, <2>5 DEF AttemptSound
<1>6. CASE UNCHANGED groqVars
  BY <1>6, <1>t DEF groqVars, window, AttemptSound, RowTokens
<1> QED BY <1>1, <1>2, <1>3, <1>4, <1>5, <1>6 DEF NextGroq

LEMMA RememberedStep ==
    ASSUME GroqInv, [NextGroq]_groqVars, NEW a \in Attempts
    PROVE  Remembered(a)'
<1>t. ClockTyped /\ AttemptsTyped /\ AttemptSound(a) /\ Remembered(a)
  BY DEF GroqInv
<1>k. clock \in Nat /\ Day \in Nat /\ NoTime \notin Nat
  BY <1>t, TimesKinds DEF ClockTyped
<1>1. ASSUME NEW b \in Attempts, Reserve(b) PROVE Remembered(a)'
  <2>1. CASE AdmittedNow(b) /\ b = a
    <3>1. counted'[a] = clock /\ loaded'
      BY <2>1 DEF AdmittedNow
    <3> QED BY <1>k, <3>1 DEF Remembered
  <2>2. CASE (AdmittedNow(b) /\ b # a) \/ RefusedNow(b)
    <3>1. /\ counted'[a] = IF a \in Charged(clock, Day) THEN counted[a] ELSE NoTime
          /\ loaded /\ asked'[a] = asked[a] /\ UNCHANGED <<clock, loaded, row, forgotten>>
          /\ stage'[a] \in {"sent", "over"} => stage'[a] = stage[a]
      BY <1>t, <2>2 DEF AdmittedNow, RefusedNow, AttemptsTyped
    <3>2. a \in (Started \ forgotten)' => a \in Started \ forgotten
      BY <3>1 DEF Started
    <3>3. ASSUME a \in Started \ forgotten, asked[a] > clock - Day PROVE counted'[a] # NoTime
      <4>1. counted[a] # NoTime
        BY <1>t, <3>1, <3>3 DEF Remembered
      <4>2. counted[a] > clock - Day
        <5>1. asked[a] \in Nat /\ counted[a] \in Nat /\ asked[a] <= counted[a]
          BY <1>k, <1>t, <3>3, <4>1 DEF AttemptSound, Started
        <5> QED BY <1>k, <3>3, <5>1
      <4> QED BY <3>1, <4>1, <4>2 DEF Charged
    <3> QED BY <3>1, <3>2, <3>3 DEF Remembered
  <2> QED BY <1>t, <1>1, <2>1, <2>2, ReserveIs
<1>2. ASSUME NEW b \in Attempts, SettleLease(b) PROVE Remembered(a)'
  <2>1. /\ UNCHANGED <<clock, asked, loaded, counted, forgotten>> /\ stage[b] = "sent"
        /\ stage' = [stage EXCEPT ![b] = "over"] /\ row' \in {row, [row EXCEPT ![b] = clock]}
    BY <1>2 DEF SettleLease, Move
  <2>2. loaded
    BY <2>1 DEF GroqInv, AttemptSound
  <2>3. a \in (Started \ forgotten)' => a \in Started \ forgotten
    BY <1>t, <2>1 DEF Started, AttemptsTyped
  <2> QED BY <1>t, <2>1, <2>2, <2>3 DEF Remembered
<1>3. CASE LoadHistory
  <2>1. loaded' /\ ~loaded /\ UNCHANGED <<clock, asked, stage, row>> /\ forgotten \subseteq forgotten'
    BY <1>3 DEF LoadHistory
  <2>2. ASSUME a \in (Started \ forgotten)', asked[a] > clock - Day PROVE counted'[a] # NoTime
    <3>1. row[a] # NoTime
      BY <1>t, <2>1, <2>2 DEF Remembered, Started
    <3>2. row[a] \in Nat /\ asked[a] \in Nat /\ asked[a] <= row[a]
      BY <1>k, <1>t, <2>1, <2>2, <3>1 DEF AttemptSound, Started
    <3>3. a \in RowsSince(clock)
      BY <1>k, <2>2, <3>1, <3>2 DEF RowsSince
    <3> QED BY <1>3, <2>2, <3>1, <3>3 DEF LoadHistory
  <2> QED BY <2>1, <2>2 DEF Remembered
<1>4. CASE RestartGroq
  <2>1. /\ ~loaded' /\ UNCHANGED row
        /\ stage'[a] = (IF stage[a] \in {"new", "refused"} THEN stage[a] ELSE "over")
        /\ forgotten' = forgotten \cup {b \in Attempts : stage[b] \in {"sent", "over"} /\ row[b] = NoTime}
    BY <1>4 DEF RestartGroq
  <2>2. a \in Started' => stage[a] \in {"sent", "over"}
    BY <1>t, <2>1 DEF Started, AttemptsTyped, Stages
  <2> QED BY <2>1, <2>2 DEF Remembered
<1>5. CASE TickGroq
  <2>1. clock' = clock + 1 /\ UNCHANGED <<asked, stage, loaded, counted, row, forgotten>>
    BY <1>5 DEF TickGroq, window
  <2>2. a \in Started => (asked[a] > clock' - Day => asked[a] > clock - Day)
    <3>1. a \in Started => asked[a] \in Nat
      BY <1>k, <1>t DEF AttemptSound, Started
    <3> QED BY <1>k, <2>1, <3>1
  <2> QED BY <1>t, <2>1, <2>2 DEF Remembered, Started
<1>6. CASE UNCHANGED groqVars
  BY <1>6, <1>t DEF groqVars, window, Remembered, Started
<1> QED BY <1>1, <1>2, <1>3, <1>4, <1>5, <1>6 DEF NextGroq

LEMMA SpecGroqInv == SpecGroq => []GroqInv
<1>1. GroqInv /\ [NextGroq]_groqVars => GroqInv'
  BY GroqTypedStep, SoundStep, RememberedStep DEF GroqInv
<1> QED BY InitGroqInv, <1>1, PTL DEF SpecGroq

\* Every variable of the admission guard has its type, and a process that has
\* not looked for the log has no window.
THEOREM GroqTypeCorrect == SpecGroq => []TypeOKGroq
<1>1. GroqInv => TypeOKGroq
  <2> SUFFICES ASSUME GroqInv PROVE TypeOKGroq
    OBVIOUS
  <2>1. ~loaded => \A a \in Attempts : counted[a] = NoTime
    BY DEF GroqInv, AttemptSound
  <2> QED BY <2>1 DEF GroqInv, ClockTyped, AttemptsTyped, TypeOKGroq
<1> QED BY SpecGroqInv, <1>1, PTL

-----------------------------------------------------------------------------
(***************************************************************************)
(* The sums of a day.                                                      *)
(***************************************************************************)

\* The charge that the log has, or would have, of each attempt.
Charges == [a \in Attempts |-> RowTokens(a)]

\* The requests of a group in the day up to t that are known of and kept to
\* their estimates.
Regular(t, group) ==
    {a \in Started \cap group : /\ a \notin forgotten /\ RowTokens(a) <= Estimate[a]
                                /\ t - Day < asked[a] /\ asked[a] <= t}

WithinGroup(group, limit) ==
    \A t \in 0..LastTime : SumFunctionOnSet(Charges, Regular(t, group)) <= limit

\* A group of attempts whose reservations are held to a limit.
Limited(group, limit) ==
    \A a \in group : Refusal(a) = "none" =>
        Tokens(Charged(clock, Day) \cap group) + Estimate[a] <= limit

LEMMA SetsFinite ==
    \A S \in SUBSET Attempts : IsFiniteSet(S)
BY FS_Subset, GroqAssumption

LEMMA RegularIn == \A t, group : Regular(t, group) \in SUBSET Attempts /\ IsFiniteSet(Regular(t, group))
<1> SUFFICES ASSUME NEW t, NEW group PROVE Regular(t, group) \in SUBSET Attempts /\ IsFiniteSet(Regular(t, group))
  OBVIOUS
<1>1. Regular(t, group) \in SUBSET Attempts
  BY DEF Regular, Started
<1> QED BY <1>1, SetsFinite

LEMMA ChargesAre == AttemptsTyped => \A a \in Attempts : Charges[a] = RowTokens(a) /\ Charges[a] \in Nat
BY RowTokensTyped DEF Charges

LEMMA ChargesNext == AttemptsTyped' => \A a \in Attempts : Charges'[a] = RowTokens(a)' /\ Charges'[a] \in Nat
<1>1. AttemptsTyped' => \A a \in Attempts : RowTokens(a)' \in Nat
  BY GroqAssumption DEF AttemptsTyped, RowTokens, Outcomes
<1>2. Charges' = [a \in Attempts |-> RowTokens(a)']
  BY DEF Charges
<1> QED BY <1>1, <1>2

\* Fewer requests with smaller charges.
LEMMA WithinKept ==
    ASSUME AttemptsTyped, AttemptsTyped', NEW group, NEW limit \in Nat, NEW t,
           SumFunctionOnSet(Charges, Regular(t, group)) <= limit,
           Regular(t, group)' \subseteq Regular(t, group),
           \A a \in Regular(t, group)' : RowTokens(a)' <= RowTokens(a)
    PROVE  SumFunctionOnSet(Charges, Regular(t, group))' <= limit
<1> DEFINE R == Regular(t, group)
           Q == Regular(t, group)'
           C == Charges'
<1>1. R \in SUBSET Attempts /\ IsFiniteSet(R) /\ Q \in SUBSET R /\ IsFiniteSet(Q)
  BY RegularIn, FS_Subset
<1>2. \A a \in Attempts : C[a] = RowTokens(a)' /\ C[a] \in Int /\ Charges[a] = RowTokens(a) /\ Charges[a] \in Nat
  <2>1. \A a \in Attempts : Charges'[a] = RowTokens(a)' /\ Charges'[a] \in Nat
    BY ChargesNext
  <2> QED BY <2>1, ChargesAre
<1>3. \A a \in Q : C[a] \in Int /\ C[a] <= Charges[a]
  BY <1>1, <1>2
<1>4. \A a \in R : Charges[a] \in Int /\ (a \notin Q => 0 <= Charges[a])
  BY <1>1, <1>2
<1> HIDE DEF R, Q, C
<1>5. SumFunctionOnSet(C, Q) <= SumFunctionOnSet(Charges, R)
  BY <1>1, <1>3, <1>4, SumMonotone
<1>6. SumFunctionOnSet(C, Q) \in Int /\ SumFunctionOnSet(Charges, R) \in Int
  BY <1>1, <1>3, <1>4, SumIsInt
<1>7. SumFunctionOnSet(Charges, R) <= limit
  BY DEF R
<1>8. SumFunctionOnSet(C, Q) <= limit
  BY <1>5, <1>6, <1>7
<1> QED BY <1>8 DEF Q, C

\* What is regular is in the window.
LEMMA RegularCharged ==
    ASSUME GroqInv, loaded, NEW group, NEW t \in 0..LastTime, clock <= t
    PROVE  /\ Regular(t, group) \subseteq Charged(clock, Day) \cap group
           /\ \A a \in Regular(t, group) : tokens[a] = RowTokens(a)
<1> SUFFICES ASSUME NEW a \in Regular(t, group)
             PROVE  a \in Charged(clock, Day) /\ a \in group /\ tokens[a] = RowTokens(a)
  OBVIOUS
<1>1. a \in Attempts /\ a \in Started \ forgotten /\ a \in group /\ t - Day < asked[a]
  BY DEF Regular, Started
<1>2. clock \in Nat /\ Day \in Nat /\ t \in Nat /\ asked[a] \in Nat
  BY <1>1, TimesKinds DEF GroqInv, ClockTyped, AttemptSound, Started
<1>3. asked[a] > clock - Day
  BY <1>1, <1>2
<1>4. counted[a] # NoTime
  BY <1>1, <1>3 DEF GroqInv, Remembered
<1>5. counted[a] \in Nat /\ asked[a] <= counted[a] /\ tokens[a] = RowTokens(a)
  BY <1>1, <1>4 DEF GroqInv, AttemptSound
<1>6. counted[a] > clock - Day
  BY <1>2, <1>3, <1>5
<1> QED BY <1>1, <1>4, <1>5, <1>6 DEF Charged

LEMMA WithinAdmitted ==
    ASSUME GroqInv, GroqInv', NEW a \in Attempts, AdmittedNow(a), NEW group, NEW limit \in Nat,
           Limited(group, limit), WithinGroup(group, limit)
    PROVE  WithinGroup(group, limit)'
<1> SUFFICES ASSUME NEW t \in 0..LastTime PROVE SumFunctionOnSet(Charges, Regular(t, group))' <= limit
  BY DEF WithinGroup
<1>t. AttemptsTyped /\ AttemptsTyped' /\ ClockTyped
  BY DEF GroqInv
<1>k. clock \in Nat /\ t \in Nat /\ Day \in Nat
  BY <1>t, TimesKinds DEF ClockTyped
<1>1. /\ \A b \in Attempts : RowTokens(b)' = RowTokens(b)
      /\ \A b \in Attempts \ {a} : asked'[b] = asked[b] /\ stage'[b] = stage[b]
      /\ asked'[a] = clock /\ UNCHANGED forgotten /\ stage[a] = "new" /\ loaded
  BY <1>t DEF AdmittedNow, RowTokens, AttemptsTyped
<1>2. /\ Regular(t, group)' \subseteq Regular(t, group) \cup {a} /\ a \notin Regular(t, group)
      /\ a \in Regular(t, group)' => a \in group /\ clock <= t
  BY <1>1 DEF Regular, Started
<1>3. CASE a \notin Regular(t, group)'
  <2>1. Regular(t, group)' \subseteq Regular(t, group)
    BY <1>2, <1>3
  <2>2. \A b \in Regular(t, group)' : RowTokens(b)' <= RowTokens(b)
    <3>1. \A b \in Regular(t, group) : b \in Attempts
      BY RegularIn
    <3> QED BY <1>1, <1>t, <2>1, <3>1, RowTokensTyped
  <2> QED BY <1>t, <2>1, <2>2, WithinKept DEF WithinGroup
<1>4. CASE a \in Regular(t, group)'
  <2> DEFINE R == Regular(t, group)
             Q == Regular(t, group)'
             C == Charges'
             W == Charged(clock, Day) \cap group
  <2>1. a \in group /\ clock <= t
    BY <1>2, <1>4
  <2>2. R \subseteq W /\ \A b \in R : tokens[b] = RowTokens(b)
    BY <1>1, <2>1, RegularCharged
  <2>3. W \in SUBSET Attempts /\ R \in SUBSET Attempts /\ IsFiniteSet(W) /\ IsFiniteSet(R)
    <3>1. W \in SUBSET Attempts
      BY DEF Charged
    <3> QED BY <3>1, RegularIn, SetsFinite
  <2>4. \A b \in Attempts : C[b] = RowTokens(b) /\ C[b] \in Nat
    <3>1. \A b \in Attempts : Charges'[b] = RowTokens(b)' /\ Charges'[b] \in Nat
      BY <1>t, ChargesNext
    <3> QED BY <1>1, <3>1
  <2>5. \A b \in Attempts : tokens[b] \in Nat
    BY <1>t DEF AttemptsTyped
  <2>6. Tokens(W) + Estimate[a] <= limit
    BY <2>1 DEF Limited, AdmittedNow
  <2>7. C[a] = Estimate[a] /\ Estimate[a] \in Nat
    <3>1. outcome[a] = "none"
      BY <1>1 DEF GroqInv, AttemptSound
    <3> QED BY <2>4, <3>1, GroqAssumption DEF RowTokens
  <2>q. Q \subseteq R \cup {a} /\ a \in Q /\ a \notin R /\ a \in Attempts
    BY <1>2, <1>4
  <2> HIDE DEF R, Q, C, W
  <2>8. SumFunctionOnSet(C, R) <= SumFunctionOnSet(tokens, W)
    <3>1. R \in SUBSET W /\ \A b \in R : C[b] \in Int /\ C[b] <= tokens[b]
      BY <2>2, <2>3, <2>4
    <3>2. \A b \in W : tokens[b] \in Int /\ (b \notin R => 0 <= tokens[b])
      BY <2>3, <2>5
    <3> QED BY <2>3, <3>1, <3>2, SumMonotone
  <2>9. SumFunctionOnSet(C, R \cup {a}) = C[a] + SumFunctionOnSet(C, R)
    <3>1. \A b \in R \cup {a} : C[b] \in Int
      BY <2>3, <2>4
    <3> QED BY <2>3, <2>q, <3>1, SumWith
  <2>10. SumFunctionOnSet(C, Q) <= SumFunctionOnSet(C, R \cup {a})
    <3>1. R \cup {a} \in SUBSET Attempts /\ IsFiniteSet(R \cup {a}) /\ Q \in SUBSET (R \cup {a})
      BY <2>3, <2>q, SetsFinite
    <3>2. \A b \in Attempts : C[b] \in Int /\ C[b] <= C[b] /\ 0 <= C[b]
      BY <2>4
    <3> QED BY <3>1, <3>2, SumMonotone
  <2>11. /\ SumFunctionOnSet(C, Q) \in Int /\ SumFunctionOnSet(C, R) \in Int
         /\ SumFunctionOnSet(tokens, W) \in Int
    <3>1. IsFiniteSet(Q) /\ Q \in SUBSET Attempts
      BY <2>3, <2>q, SetsFinite
    <3> QED BY <2>3, <2>4, <2>5, <3>1, SumIsInt
  <2>12. SumFunctionOnSet(C, Q) <= limit
    BY <2>6, <2>7, <2>8, <2>9, <2>10, <2>11 DEF Tokens
  <2> QED BY <2>12 DEF C, Q
<1> QED BY <1>3, <1>4

\* The other steps admit nobody, and raise no charge but that of a request that
\* uses more than its estimate.
LEMMA NobodyAdmitted ==
    ASSUME GroqInv, GroqInv', [NextGroq]_groqVars, NEW b \in Attempts, ~ \E a \in Attempts : AdmittedNow(a)
    PROVE  /\ asked'[b] = asked[b] /\ forgotten \subseteq forgotten'
           /\ b \in Started' => b \in Started
           /\ RowTokens(b)' <= Estimate[b] => RowTokens(b)' <= RowTokens(b) /\ RowTokens(b) <= Estimate[b]
<1> DEFINE Goal == /\ asked'[b] = asked[b] /\ forgotten \subseteq forgotten'
                   /\ b \in Started' => b \in Started
                   /\ RowTokens(b)' <= Estimate[b] => RowTokens(b)' <= RowTokens(b) /\ RowTokens(b) <= Estimate[b]
<1>t. AttemptsTyped /\ ClockTyped /\ AttemptSound(b) /\ Estimate[b] \in Nat
  BY GroqAssumption DEF GroqInv
<1>n. RowTokens(b) \in Nat /\ RowTokens(b)' \in Nat
  <2>1. RowTokens(b) \in Nat
    BY <1>t, RowTokensTyped
  <2>2. AttemptsTyped'
    BY DEF GroqInv
  <2>3. RowTokens(b)' \in Nat
    BY <2>2, GroqAssumption DEF AttemptsTyped, RowTokens, Outcomes
  <2> QED BY <2>1, <2>3
<1>1. ASSUME NEW a \in Attempts, Reserve(a) PROVE Goal
  <2>1. RefusedNow(a)
    BY <1>t, <1>1, ReserveIs
  <2>2. UNCHANGED <<asked, outcome, used, forgotten>> /\ (b \in Started' => b \in Started)
    BY <1>t, <2>1 DEF RefusedNow, Started, AttemptsTyped
  <2> QED BY <1>n, <2>2 DEF RowTokens
<1>2. ASSUME NEW a \in Attempts, SettleLease(a) PROVE Goal
  <2>1. /\ UNCHANGED <<asked, forgotten>> /\ stage[a] = "sent" /\ stage' = [stage EXCEPT ![a] = "over"]
    BY <1>2 DEF SettleLease, Move
  <2>2. b \in Started' => b \in Started
    BY <1>t, <2>1 DEF Started, AttemptsTyped
  <2>3. CASE a = b
    <3>1. outcome[b] = "none"
      BY <1>t, <2>1, <2>3 DEF AttemptSound
    <3>2. RowTokens(b) = Estimate[b]
      BY <3>1 DEF RowTokens
    <3> QED BY <1>n, <1>t, <2>1, <2>2, <3>2
  <2>4. CASE a # b
    <3>1. outcome'[b] = outcome[b] /\ used'[b] = used[b]
      BY <1>2, <1>t, <2>4 DEF SettleLease, AttemptsTyped
    <3> QED BY <1>n, <2>1, <2>2, <3>1 DEF RowTokens
  <2> QED BY <2>3, <2>4
<1>3. CASE LoadHistory
  BY <1>3, <1>n DEF LoadHistory, RowTokens, Started
<1>4. CASE RestartGroq
  <2>1. /\ UNCHANGED <<asked, outcome>> /\ forgotten \subseteq forgotten'
        /\ stage'[b] = (IF stage[b] \in {"new", "refused"} THEN stage[b] ELSE "over")
        /\ used'[b] = (IF stage[b] = "sent" THEN Estimate[b] ELSE used[b])
    BY <1>4 DEF RestartGroq
  <2>2. b \in Started' => b \in Started
    BY <1>t, <2>1 DEF Started, AttemptsTyped, Stages
  <2>3. stage[b] = "sent" => outcome[b] = "none"
    BY <1>t DEF AttemptSound
  <2>4. RowTokens(b)' = RowTokens(b)
    BY <2>1, <2>3 DEF RowTokens
  <2> QED BY <1>n, <2>1, <2>2, <2>4
<1>5. CASE TickGroq
  BY <1>5, <1>n DEF TickGroq, window, RowTokens, Started
<1>6. CASE UNCHANGED groqVars
  BY <1>6, <1>n DEF groqVars, window, RowTokens, Started
<1>7. Goal
  BY <1>1, <1>2, <1>3, <1>4, <1>5, <1>6 DEF NextGroq
<1> QED BY <1>7

\* What a group's reservations are held to bounds every day of the group.
LEMMA WithinGroupStep ==
    ASSUME GroqInv, GroqInv', [NextGroq]_groqVars, NEW group, NEW limit \in Nat,
           Limited(group, limit), WithinGroup(group, limit)
    PROVE  WithinGroup(group, limit)'
<1>1. CASE \E a \in Attempts : AdmittedNow(a)
  BY <1>1, WithinAdmitted
<1>2. CASE ~ \E a \in Attempts : AdmittedNow(a)
  <2> SUFFICES ASSUME NEW t \in 0..LastTime
               PROVE  SumFunctionOnSet(Charges, Regular(t, group))' <= limit
    BY DEF WithinGroup
  <2>1. AttemptsTyped /\ AttemptsTyped'
    BY DEF GroqInv
  <2>2. ASSUME NEW b \in Regular(t, group)'
        PROVE  b \in Regular(t, group) /\ RowTokens(b)' <= RowTokens(b)
    <3>1. /\ b \in Attempts /\ b \in Started' /\ b \in group /\ b \notin forgotten' /\ RowTokens(b)' <= Estimate[b]
          /\ t - Day < asked'[b] /\ asked'[b] <= t
      BY <2>2 DEF Regular, Started
    <3>2. /\ asked'[b] = asked[b] /\ forgotten \subseteq forgotten' /\ b \in Started
          /\ RowTokens(b)' <= RowTokens(b) /\ RowTokens(b) <= Estimate[b]
      BY <1>2, <3>1, NobodyAdmitted
    <3> QED BY <3>1, <3>2 DEF Regular
  <2>3. SumFunctionOnSet(Charges, Regular(t, group)) <= limit
    BY DEF WithinGroup
  <2> QED BY <2>1, <2>2, <2>3, WithinKept
<1> QED BY <1>1, <1>2

\* The groups the guard holds to a limit: all requests to the plan's tokens, the
\* analyses of a symbol to its share, and the other requests to what is left.
GroupOf(owner) == {a \in Attempts : Owner[a] = owner}

LEMMA UnreservedIs ==
    /\ DailyTokens \in Nat /\ SymbolShare \in Nat /\ Cardinality(Symbols) \in Nat
    /\ Unreserved \in Nat /\ Unreserved = DailyTokens - Cardinality(Symbols) * SymbolShare
<1>1. Cardinality(Symbols) \in Nat
  BY GroqAssumption, FS_CardinalityType
<1>2. Cardinality(Symbols) * SymbolShare \in Nat
  BY <1>1, GroqAssumption
<1> QED BY <1>1, <1>2, GroqAssumption DEF Unreserved

LEMMA TokensTyped ==
    AttemptsTyped => \A S \in SUBSET Attempts : IsFiniteSet(S) /\ Tokens(S) \in Int
<1> SUFFICES ASSUME AttemptsTyped, NEW S \in SUBSET Attempts PROVE IsFiniteSet(S) /\ Tokens(S) \in Int
  OBVIOUS
<1>1. \A b \in S : tokens[b] \in Int
  BY DEF AttemptsTyped
<1> QED BY <1>1, SetsFinite, SumIsInt DEF Tokens

LEMMA GroupsLimited ==
    ASSUME AttemptsTyped
    PROVE  /\ Limited(Attempts, DailyTokens)
           /\ Limited(GroupOf(Other), Unreserved)
           /\ \A s \in Symbols : Limited(GroupOf(s), SymbolShare)
<1>2. ASSUME NEW a \in Attempts, Refusal(a) = "none"
      PROVE  /\ ~ (Tokens(Charged(clock, Day)) + Estimate[a] > DailyTokens)
             /\ ~ ReserveExhausted(a, Charged(clock, Day))
             /\ ~ (/\ Owner[a] \in Symbols
                   /\ Tokens(OwnedBy(Owner[a], Charged(clock, Day))) + Estimate[a] > SymbolShare)
  BY <1>2 DEF Refusal
<1>3. \A o : OwnedBy(o, Charged(clock, Day)) = Charged(clock, Day) \cap GroupOf(o)
  BY DEF OwnedBy, Charged, GroupOf
<1>4. Charged(clock, Day) \cap Attempts = Charged(clock, Day)
  BY DEF Charged
<1>5. \A S \in SUBSET Attempts : Tokens(S) \in Int
  BY TokensTyped
<1>6. Charged(clock, Day) \in SUBSET Attempts /\ \A o : OwnedBy(o, Charged(clock, Day)) \in SUBSET Attempts
  BY DEF Charged, OwnedBy
<1>7. \A a \in Attempts : Estimate[a] \in Nat
  BY GroqAssumption
<1>8. Limited(Attempts, DailyTokens)
  <2>1. ASSUME NEW a \in Attempts, Refusal(a) = "none"
        PROVE  Tokens(Charged(clock, Day)) + Estimate[a] <= DailyTokens
    BY <1>2, <1>5, <1>6, <1>7, <2>1, UnreservedIs
  <2> QED BY <1>4, <2>1 DEF Limited
<1>9. Limited(GroupOf(Other), Unreserved)
  <2>1. ASSUME NEW a \in GroupOf(Other), Refusal(a) = "none"
        PROVE  Tokens(OwnedBy(Other, Charged(clock, Day))) + Estimate[a] <= Unreserved
    <3>1. a \in Attempts /\ Owner[a] = Other
      BY DEF GroupOf
    <3>2. ~ (Tokens(OwnedBy(Other, Charged(clock, Day))) + Estimate[a] > Unreserved)
      BY <1>2, <2>1, <3>1 DEF ReserveExhausted
    <3> QED BY <1>5, <1>6, <1>7, <3>1, <3>2, UnreservedIs
  <2> QED BY <1>3, <2>1 DEF Limited
<1>10. ASSUME NEW s \in Symbols PROVE Limited(GroupOf(s), SymbolShare)
  <2>1. ASSUME NEW a \in GroupOf(s), Refusal(a) = "none"
        PROVE  Tokens(OwnedBy(s, Charged(clock, Day))) + Estimate[a] <= SymbolShare
    <3>1. a \in Attempts /\ Owner[a] = s
      BY DEF GroupOf
    <3>2. ~ (Tokens(OwnedBy(s, Charged(clock, Day))) + Estimate[a] > SymbolShare)
      BY <1>2, <2>1, <3>1
    <3> QED BY <1>5, <1>6, <1>7, <3>1, <3>2, UnreservedIs
  <2> QED BY <1>3, <2>1 DEF Limited
<1> QED BY <1>8, <1>9, <1>10

\* No day of any group has more charges than the group is held to.
DaysWithin ==
    /\ WithinGroup(Attempts, DailyTokens)
    /\ WithinGroup(GroupOf(Other), Unreserved)
    /\ \A s \in Symbols : WithinGroup(GroupOf(s), SymbolShare)

LEMMA SpecDaysWithin == SpecGroq => [](GroqInv /\ DaysWithin)
<1>1. InitGroq => DaysWithin
  <2> SUFFICES ASSUME InitGroq PROVE DaysWithin
    OBVIOUS
  <2>1. \A t, group : Regular(t, group) = {}
    BY DEF InitGroq, Regular, Started
  <2>2. \A t, group : SumFunctionOnSet(Charges, Regular(t, group)) = 0
    BY <2>1, SumOfNone
  <2> QED BY <2>2, UnreservedIs DEF DaysWithin, WithinGroup
<1>2. GroqInv /\ GroqInv' /\ DaysWithin /\ [NextGroq]_groqVars => DaysWithin'
  <2> SUFFICES ASSUME GroqInv, GroqInv', DaysWithin, [NextGroq]_groqVars PROVE DaysWithin'
    OBVIOUS
  <2>0. AttemptsTyped
    BY DEF GroqInv
  <2>1. WithinGroup(Attempts, DailyTokens)'
    BY <2>0, GroupsLimited, UnreservedIs, WithinGroupStep DEF DaysWithin
  <2>2. WithinGroup(GroupOf(Other), Unreserved)'
    <3> DEFINE G == GroupOf(Other)
               L == Unreserved
    <3>1. L \in Nat /\ Limited(G, L) /\ WithinGroup(G, L)
      BY <2>0, GroupsLimited, UnreservedIs DEF DaysWithin
    <3> HIDE DEF G, L
    <3>2. WithinGroup(G, L)'
      BY <3>1, WithinGroupStep
    <3> QED BY <3>2 DEF G, L, GroupOf, Unreserved
  <2>3. ASSUME NEW s \in Symbols PROVE WithinGroup(GroupOf(s), SymbolShare)'
    BY <2>0, GroupsLimited, UnreservedIs, WithinGroupStep DEF DaysWithin
  <2> QED BY <2>1, <2>2, <2>3 DEF DaysWithin
<1> QED BY <1>1, <1>2, SpecGroqInv, PTL DEF SpecGroq

LEMMA DayBounded == GroqInv /\ DaysWithin => DayWithinLimit
<1> SUFFICES ASSUME GroqInv, DaysWithin, NEW t \in 0..LastTime PROVE
      LET day == {a \in Started : t - Day < asked[a] /\ asked[a] <= t}
      IN (\A a \in day : used[a] <= Estimate[a] /\ a \notin forgotten)
           => SumFunctionOnSet(used, day) <= DailyTokens
  BY DEF DayWithinLimit
<1> DEFINE day == {a \in Started : t - Day < asked[a] /\ asked[a] <= t}
<1> SUFFICES ASSUME \A a \in day : used[a] <= Estimate[a] /\ a \notin forgotten
             PROVE  SumFunctionOnSet(used, day) <= DailyTokens
  OBVIOUS
<1>t. AttemptsTyped
  BY DEF GroqInv
<1>1. ASSUME NEW a \in day
      PROVE  /\ a \in Regular(t, Attempts) /\ used[a] \in Int /\ used[a] <= Charges[a]
  <2>1. a \in Attempts /\ a \in Started /\ AttemptSound(a) /\ used[a] <= Estimate[a] /\ a \notin forgotten
    BY DEF Started, GroqInv
  <2>2. used[a] \in Nat /\ Estimate[a] \in Nat
    BY <1>t, <2>1, GroqAssumption DEF AttemptsTyped
  <2>3. RowTokens(a) <= Estimate[a] /\ used[a] <= RowTokens(a)
    BY <2>1, <2>2 DEF RowTokens, AttemptSound
  <2> QED BY <1>1, <1>t, <2>1, <2>2, <2>3, ChargesAre DEF Regular
<1> DEFINE R == Regular(t, Attempts)
<1>2. R \in SUBSET Attempts /\ IsFiniteSet(R) /\ day \in SUBSET R /\ IsFiniteSet(day)
  BY <1>1, RegularIn, FS_Subset
<1>3. \A a \in R : Charges[a] \in Int /\ 0 <= Charges[a]
  BY <1>t, <1>2, ChargesAre
<1>4. SumFunctionOnSet(Charges, R) <= DailyTokens
  BY DEF DaysWithin, WithinGroup
<1> HIDE DEF R, day
<1>5. SumFunctionOnSet(used, day) <= SumFunctionOnSet(Charges, R)
  BY <1>1, <1>2, <1>3, SumMonotone DEF R
<1>6. SumFunctionOnSet(used, day) \in Int /\ SumFunctionOnSet(Charges, R) \in Int
  BY <1>1, <1>2, <1>3, SumIsInt
<1> QED BY <1>4, <1>5, <1>6, UnreservedIs DEF R

\* A day whose requests kept to their estimates and are known of does not use
\* more than the plan's tokens: a request uses no more than the log has of it.
THEOREM FreePlanRespected == SpecGroq => []DayWithinLimit
BY SpecDaysWithin, DayBounded, PTL

\* When the charges of the window are regular, each group's keep to its limit.
LEMMA RegularWindow ==
    ASSUME GroqInv, DaysWithin,
           \A b \in Charged(clock, Day) :
              /\ tokens[b] <= Estimate[b] /\ b \notin forgotten /\ counted[b] = asked[b]
    PROVE  /\ Tokens(OwnedBy(Other, Charged(clock, Day))) <= Unreserved
           /\ \A s \in Symbols : Tokens(OwnedBy(s, Charged(clock, Day))) <= SymbolShare
<1>t. AttemptsTyped /\ clock \in 0..LastTime /\ clock \in Nat /\ Day \in Nat
  BY TimesKinds DEF GroqInv, ClockTyped
<1>1. ASSUME NEW b \in Charged(clock, Day)
      PROVE  /\ b \in Attempts /\ Charges[b] = tokens[b]
             /\ \A group : b \in group => b \in Regular(clock, group)
  <2>1. b \in Attempts /\ counted[b] # NoTime /\ AttemptSound(b) /\ counted[b] > clock - Day
    BY DEF Charged, GroqInv
  <2>2. b \in Started
    BY <1>t, <2>1 DEF AttemptSound, AttemptsTyped, Stages, Started
  <2>3. tokens[b] = RowTokens(b) /\ asked[b] \in Nat /\ asked[b] <= clock /\ asked[b] > clock - Day
    BY <2>1 DEF AttemptSound
  <2>4. clock - Day < asked[b]
    BY <1>t, <2>3
  <2>5. RowTokens(b) <= Estimate[b] /\ b \notin forgotten
    BY <1>1, <2>3
  <2> QED BY <1>t, <2>1, <2>2, <2>3, <2>4, <2>5, ChargesAre DEF Regular
<1>2. ASSUME NEW o, NEW limit \in Nat, WithinGroup(GroupOf(o), limit)
      PROVE  Tokens(OwnedBy(o, Charged(clock, Day))) <= limit
  <2> DEFINE W == OwnedBy(o, Charged(clock, Day))
             R == Regular(clock, GroupOf(o))
  <2>1. ASSUME NEW b \in W PROVE b \in Charged(clock, Day) /\ b \in GroupOf(o)
    BY <1>1 DEF OwnedBy, GroupOf
  <2>2. W \in SUBSET R /\ R \in SUBSET Attempts /\ IsFiniteSet(R)
    BY <1>1, <2>1, RegularIn
  <2>3. \A b \in W : tokens[b] \in Int /\ tokens[b] <= Charges[b]
    <3>1. \A b \in Attempts : tokens[b] \in Nat
      BY <1>t DEF AttemptsTyped
    <3> QED BY <1>1, <2>1, <3>1
  <2>4. \A b \in R : Charges[b] \in Int /\ 0 <= Charges[b]
    BY <1>t, <2>2, ChargesAre
  <2>5. SumFunctionOnSet(Charges, R) <= limit
    BY <1>2, <1>t DEF WithinGroup
  <2> HIDE DEF W, R
  <2>6. SumFunctionOnSet(tokens, W) <= SumFunctionOnSet(Charges, R)
    BY <2>2, <2>3, <2>4, SumMonotone
  <2>7. SumFunctionOnSet(tokens, W) \in Int /\ SumFunctionOnSet(Charges, R) \in Int
    <3>1. IsFiniteSet(W)
      BY <2>2, FS_Subset
    <3> QED BY <2>2, <2>3, <2>4, <3>1, SumIsInt
  <2> QED BY <2>5, <2>6, <2>7 DEF Tokens, W
<1> QED BY <1>2, UnreservedIs DEF DaysWithin

\* The day's charges are those of the other requests, those of the symbol and
\* those of the other symbols.
LEMMA ShareOfDay ==
    ASSUME AttemptsTyped, NEW s \in Symbols, NEW day \in SUBSET Attempts,
           Tokens(OwnedBy(Other, day)) <= Unreserved,
           \A o \in Symbols : Tokens(OwnedBy(o, day)) <= SymbolShare
    PROVE  Tokens(day) <= DailyTokens - SymbolShare + Tokens(OwnedBy(s, day))
<1> DEFINE Rest == {b \in day : Owner[b] \in Symbols \ {s}}
           Own == OwnedBy(s, day)
           Others == OwnedBy(Other, day)
<1>1. Rest \in SUBSET Attempts /\ Own \in SUBSET Attempts /\ Others \in SUBSET Attempts
  BY DEF OwnedBy
<1>2. \A S \in SUBSET Attempts : IsFiniteSet(S) /\ Tokens(S) \in Int /\ \A b \in S : tokens[b] \in Int
  BY TokensTyped DEF AttemptsTyped
<1>3. day = (Own \cup Rest) \cup Others /\ Own \cap Rest = {} /\ (Own \cup Rest) \cap Others = {}
  BY GroqAssumption DEF OwnedBy
<1>4. Tokens(Rest) <= Cardinality(Symbols \ {s}) * SymbolShare
  <2> DEFINE P == Symbols \ {s}
  <2>1. IsFiniteSet(P)
    BY GroqAssumption, FS_Subset
  <2>2. \A b \in Rest : tokens[b] \in Int /\ Owner[b] \in P
    BY <1>1, <1>2
  <2>3. ASSUME NEW p \in P PROVE SumFunctionOnSet(tokens, {b \in Rest : Owner[b] = p}) <= SymbolShare
    <3>1. {b \in Rest : Owner[b] = p} = OwnedBy(p, day)
      BY DEF OwnedBy
    <3> QED BY <3>1 DEF Tokens
  <2> HIDE DEF P, Rest
  <2>4. SumFunctionOnSet(tokens, Rest) <= Cardinality(P) * SymbolShare
    BY <1>1, <1>2, <2>1, <2>2, <2>3, UnreservedIs, SumOfShares
  <2> QED BY <2>4 DEF P, Tokens
<1>5. Cardinality(Symbols) * SymbolShare = Cardinality(Symbols \ {s}) * SymbolShare + SymbolShare
  <2>1. Cardinality(Symbols \ {s}) = Cardinality(Symbols) - 1 /\ IsFiniteSet(Symbols \ {s})
    BY GroqAssumption, FS_RemoveElement
  <2>2. Cardinality(Symbols \ {s}) \in Nat
    BY <2>1, FS_CardinalityType
  <2>3. Cardinality(Symbols) = Cardinality(Symbols \ {s}) + 1
    BY <2>1, <2>2, UnreservedIs
  <2> QED BY <2>2, <2>3, OneMore, UnreservedIs
<1>6. Cardinality(Symbols \ {s}) * SymbolShare \in Int
  <2>1. IsFiniteSet(Symbols \ {s})
    BY GroqAssumption, FS_RemoveElement
  <2>2. Cardinality(Symbols \ {s}) \in Nat
    BY <2>1, FS_CardinalityType
  <2> QED BY <2>2, UnreservedIs
<1> HIDE DEF Rest, Own, Others
<1>7. Tokens(Own \cup Rest) = Tokens(Own) + Tokens(Rest)
  <2>1. \A b \in Own \cup Rest : tokens[b] \in Int
    BY <1>1, <1>2
  <2> QED BY <1>1, <1>2, <1>3, <2>1, SumDisjoint DEF Tokens
<1>8. Tokens(day) = Tokens(Own \cup Rest) + Tokens(Others)
  <2>1. IsFiniteSet(Own \cup Rest) /\ \A b \in (Own \cup Rest) \cup Others : tokens[b] \in Int
    BY <1>1, <1>2
  <2> QED BY <1>1, <1>2, <1>3, <2>1, SumDisjoint DEF Tokens
<1>9. Tokens(Others) <= DailyTokens - (Cardinality(Symbols \ {s}) * SymbolShare + SymbolShare)
  BY <1>5, UnreservedIs DEF Others
<1>10. Tokens(Own) \in Int /\ Tokens(Rest) \in Int /\ Tokens(Others) \in Int
  BY <1>1, <1>2
<1>11. Tokens(day) <= DailyTokens - SymbolShare + Tokens(Own)
  BY <1>4, <1>6, <1>7, <1>8, <1>9, <1>10, UnreservedIs
<1> QED BY <1>11 DEF Own

\* An analysis within its symbol's share finds room in the day, unless a charge
\* of the window is not what its request reserved, or not of its time.
THEOREM SharesAreKept == SpecGroq => ShareKept
<1>1. ASSUME GroqInv, DaysWithin, NEW a \in Attempts, Owner[a] \in Symbols, Refusal(a) = "local_tpd",
             Tokens(OwnedBy(Owner[a], Charged(clock, Day))) + Estimate[a] <= SymbolShare
      PROVE  \E b \in Charged(clock, Day) : \/ tokens[b] > Estimate[b]
                                            \/ b \in forgotten
                                            \/ counted[b] # asked[b]
  <2> DEFINE day == Charged(clock, Day)
  <2> SUFFICES ASSUME \A b \in day : ~ (tokens[b] > Estimate[b]) /\ b \notin forgotten /\ counted[b] = asked[b]
               PROVE  FALSE
    OBVIOUS
  <2>t. AttemptsTyped /\ day \in SUBSET Attempts /\ Estimate[a] \in Nat
    <3>1. AttemptsTyped /\ Estimate[a] \in Nat
      BY <1>1, GroqAssumption DEF GroqInv
    <3>2. day \in SUBSET Attempts
      BY DEF Charged
    <3> QED BY <3>1, <3>2
  <2>1. \A b \in day : tokens[b] <= Estimate[b] /\ b \notin forgotten /\ counted[b] = asked[b]
    BY <2>t, GroqAssumption DEF AttemptsTyped
  <2>2. /\ Tokens(OwnedBy(Other, day)) <= Unreserved
        /\ \A s \in Symbols : Tokens(OwnedBy(s, day)) <= SymbolShare
    BY <1>1, <2>1, RegularWindow
  <2>3. Tokens(day) + Estimate[a] > DailyTokens
    BY <1>1 DEF Refusal
  <2>4. Tokens(OwnedBy(Owner[a], day)) + Estimate[a] <= SymbolShare
    BY <1>1
  <2>5. Tokens(day) \in Int /\ Tokens(OwnedBy(Owner[a], day)) \in Int
    BY <2>t, TokensTyped DEF OwnedBy
  <2> HIDE DEF day
  <2>6. Tokens(day) <= DailyTokens - SymbolShare + Tokens(OwnedBy(Owner[a], day))
    BY <1>1, <2>t, <2>2, ShareOfDay
  <2> QED BY <2>t, <2>3, <2>4, <2>5, <2>6, UnreservedIs
<1>2. GroqInv /\ DaysWithin /\ [NextGroq]_groqVars =>
        [\A a \in Attempts :
         LET day == Charged(clock, Day)
         IN /\ Owner[a] \in Symbols
            /\ stage[a] = "new" /\ stage'[a] = "refused" /\ Refusal(a) = "local_tpd"
            /\ Tokens(OwnedBy(Owner[a], day)) + Estimate[a] <= SymbolShare
            => \E b \in day : \/ tokens[b] > Estimate[b]
                             \/ b \in forgotten
                             \/ counted[b] # asked[b]]_groqVars
  BY <1>1
<1> QED BY <1>2, SpecDaysWithin, PTL DEF SpecGroq, ShareKept


-----------------------------------------------------------------------------
(***************************************************************************)
(* The composition: each behaviour of it is one of every module.           *)
(***************************************************************************)

LEMMA LlmInterleave ==
    SpecLlm => Spec /\ SpecRouter /\ SpecBudget /\ SpecGroq /\ SpecNews
<1>1. InitLlm => Init /\ InitRouter /\ InitBudget /\ InitGroq /\ InitNews
  BY DEF InitLlm
<1>2. [NextLlm]_allVars =>
         /\ [Next]_vars /\ [NextRouter]_routerVars /\ [NextBudget]_budgetVars
         /\ [NextGroq]_groqVars /\ [NextNews]_newsVars
  BY DEF NextLlm, allVars
<1> QED BY <1>1, <1>2, PTL DEF SpecLlm, Spec, SpecRouter, SpecBudget, SpecGroq, SpecNews

FocusKnown == focus \in {"breaker", "router", "openai", "groq", "news"}

\* Every variable of the module that is exercised has its type.
THEOREM LlmTypeCorrect == SpecLlm => []LlmTyped
<1>1. /\ TypeOK /\ TypeOKRouter /\ TypeOKBudget /\ TypeOKGroq /\ TypeOKNews /\ FocusKnown
      => LlmTyped
  BY DEF LlmTyped, FocusKnown
<1>2. InitLlm => FocusKnown
  BY DEF InitLlm, FocusKnown
<1>3. FocusKnown /\ [NextLlm]_allVars => FocusKnown'
  BY DEF FocusKnown, NextLlm, allVars
<1>4. SpecLlm => []FocusKnown
  BY <1>2, <1>3, PTL DEF SpecLlm
<1> QED BY <1>1, <1>4, LlmInterleave, BreakerTypeCorrect, RouterTypeCorrect, TypeCorrect, GroqTypeCorrect,
           NewsTypeCorrect, PTL

=============================================================================
