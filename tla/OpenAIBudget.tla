---------------------------- MODULE OpenAIBudget ----------------------------
(***************************************************************************)
(* The monthly cap on paid OpenAI calls                                    *)
(* (bot/services/llm/openai_budget.py, and the call of it in               *)
(* bot/services/llm/base_provider.py).  Each call reserves its worst-case  *)
(* cost in a ledger before the request and settles it afterwards.  Calls   *)
(* of several processes are admitted one at a time by a process lock and a *)
(* PostgreSQL advisory lock; calls fail, are cancelled and lose their      *)
(* process at any point, and the UTC month turns over meanwhile.           *)
(***************************************************************************)
EXTENDS Integers, FiniteSets, Functions

CONSTANTS
    PaidCalls,      \* paid requests, one admission each
    Processes,
    ProcessOf,      \* ProcessOf[c]: the bot process of call c
    NoCall,
    Worst,          \* Worst[c]: full context plus max_tokens at the pinned rates
    Costs,          \* what a request may really cost
    Cap,            \* OPENAI_MONTHLY_BUDGET_USD
    LastMonth       \* bound on the calendar

ASSUME BudgetAssumption ==
    /\ ProcessOf \in [PaidCalls -> Processes] /\ NoCall \notin PaidCalls
    /\ Worst \in [PaidCalls -> Nat] /\ Costs \subseteq Nat /\ Costs # {}
    /\ Cap \in Nat /\ LastMonth \in Nat /\ IsFiniteSet(PaidCalls)

VARIABLES
    month,          \* the UTC month
    advisory,       \* the call that holds the advisory lock, or NoCall
    pc,             \* pc[c]: where call c is
    bucket,         \* bucket[c]: month_start, read once admission is serialized
    status,         \* status[c]: of c's ledger row, "none" without one
    charge,         \* charge[c]: coalesce(actual_usd, reserved_usd), 0 without a row
    spent,          \* spent[c]: what OpenAI charges for the request
    reported        \* reported[c]: the response carries usable token counts

ledger == <<bucket, status, charge>>
budgetVars == <<month, advisory, pc, ledger, spent, reported>>

\* Program points past the advisory lock, of reserve and of settle.
Serialized == {"clock", "sum", "insert", "settle"}
InProcessLock == Serialized \cup {"advisory", "settle_advisory"}
Points == InProcessLock \cup {"idle", "process", "http", "settle_process", "done"}
Statuses == {"none", "reserved", "settled", "conservative", "cap_breach"}

InitBudget ==
    /\ month = 0
    /\ advisory = NoCall
    /\ pc = [c \in PaidCalls |-> "idle"]
    /\ bucket = [c \in PaidCalls |-> 0]
    /\ status = [c \in PaidCalls |-> "none"]
    /\ charge = [c \in PaidCalls |-> 0]
    /\ spent = [c \in PaidCalls |-> 0]
    /\ reported = [c \in PaidCalls |-> FALSE]

Goto(c, point) == pc' = [pc EXCEPT ![c] = point]
Rows(m) == {c \in PaidCalls : status[c] # "none" /\ bucket[c] = m}

Breached(m) == \E c \in Rows(m) : status[c] = "cap_breach"

BeginRequest(c) ==
    /\ pc[c] = "idle"
    /\ Goto(c, "process")
    /\ UNCHANGED <<month, advisory, ledger, spent, reported>>

LockProcess(c) ==
    /\ pc[c] \in {"process", "settle_process"}
    /\ \A d \in PaidCalls : ProcessOf[d] = ProcessOf[c] => pc[d] \notin InProcessLock
    /\ Goto(c, IF pc[c] = "process" THEN "advisory" ELSE "settle_advisory")
    /\ UNCHANGED <<month, advisory, ledger, spent, reported>>

\* Bug: settlement is not ordered with the admissions of other processes.
LockDatabaseToAdmitOnly(c) ==
    /\ pc[c] \in {"advisory", "settle_advisory"}
    /\ \/ /\ advisory = NoCall
          /\ advisory' = c
          /\ Goto(c, IF pc[c] = "advisory" THEN "clock" ELSE "settle")
       \/ /\ pc[c] = "settle_advisory"
          /\ Goto(c, "settle")
          /\ UNCHANGED advisory
    /\ UNCHANGED <<month, ledger, spent, reported>>

LockDatabase(c) ==
    /\ pc[c] \in {"advisory", "settle_advisory"}
    /\ advisory = NoCall
    /\ advisory' = c
    /\ Goto(c, IF pc[c] = "advisory" THEN "clock" ELSE "settle")
    /\ UNCHANGED <<month, ledger, spent, reported>>

\* The month is read after the locks, not when the request began to wait.
ReadClock(c) ==
    /\ pc[c] = "clock"
    /\ bucket' = [bucket EXCEPT ![c] = month]
    /\ Goto(c, "sum")
    /\ UNCHANGED <<month, advisory, status, charge, spent, reported>>

\* Bug: a reservation counts only once its cost is known.
FitsSettled(c) ==
    SumFunctionOnSet(charge, {d \in Rows(bucket[c]) : status[d] # "reserved"}) + Worst[c] <= Cap

Fits(c) == SumFunctionOnSet(charge, Rows(bucket[c])) + Worst[c] <= Cap

\* A breach in the month, or too little left, refuses the call before HTTP.
AdmitRequest(c) ==
    /\ pc[c] = "sum"
    /\ IF ~Breached(bucket[c]) /\ Fits(c)
       THEN Goto(c, "insert") /\ UNCHANGED advisory
       ELSE Goto(c, "done") /\ advisory' = NoCall
    /\ UNCHANGED <<month, ledger, spent, reported>>

AddRow(c) ==
    /\ status' = [status EXCEPT ![c] = "reserved"]
    /\ charge' = [charge EXCEPT ![c] = Worst[c]]

\* Bug: the transaction of the reservation stays open during the request.
InsertKeepingLock(c) ==
    /\ pc[c] = "insert"
    /\ AddRow(c)
    /\ Goto(c, "http")
    /\ UNCHANGED <<month, advisory, bucket, spent, reported>>

\* The commit of the reservation, which frees the advisory lock.
Insert(c) ==
    /\ pc[c] = "insert"
    /\ AddRow(c)
    /\ advisory' = NoCall
    /\ Goto(c, "http")
    /\ UNCHANGED <<month, bucket, spent, reported>>

\* A response, or an error after which the cost is not known.
Respond(c) ==
    /\ pc[c] = "http"
    /\ \E cost \in Costs : spent' = [spent EXCEPT ![c] = cost]
    /\ \E known \in BOOLEAN : reported' = [reported EXCEPT ![c] = known]
    /\ Goto(c, "settle_process")
    /\ UNCHANGED <<month, advisory, ledger>>

\* Bug: unknown usage settles at no cost.
SettleUnknownFree(c) ==
    /\ pc[c] = "settle"
    /\ status' = [status EXCEPT ![c] =
         IF ~reported[c] THEN "conservative"
         ELSE IF spent[c] <= Worst[c] THEN "settled" ELSE "cap_breach"]
    /\ charge' = [charge EXCEPT ![c] = IF reported[c] THEN spent[c] ELSE 0]
    /\ advisory' = NoCall
    /\ Goto(c, "done")
    /\ UNCHANGED <<month, bucket, spent, reported>>

Settle(c) ==
    /\ pc[c] = "settle"
    /\ status' = [status EXCEPT ![c] =
         IF ~reported[c] THEN "conservative"
         ELSE IF spent[c] <= Worst[c] THEN "settled" ELSE "cap_breach"]
    /\ charge' = [charge EXCEPT ![c] = IF reported[c] THEN spent[c] ELSE @]
    /\ advisory' = NoCall
    /\ Goto(c, "done")
    /\ UNCHANGED <<month, bucket, spent, reported>>

\* A database error, a cancellation, or the death of the process: the locks
\* are freed, a commit on its way may have been made, and a request on its way
\* may have cost anything.
Stop(c) ==
    /\ pc[c] \notin {"idle", "done"}
    /\ \/ UNCHANGED <<status, charge>>
       \/ pc[c] = "insert" /\ AddRow(c)
    /\ \/ UNCHANGED spent
       \/ pc[c] = "http" /\ \E cost \in Costs : spent' = [spent EXCEPT ![c] = cost]
    /\ advisory' = IF advisory = c THEN NoCall ELSE advisory
    /\ Goto(c, "done")
    /\ UNCHANGED <<month, bucket, reported>>

NextMonth ==
    /\ month < LastMonth
    /\ month' = month + 1
    /\ UNCHANGED <<advisory, pc, ledger, spent, reported>>

RequestStep(c) ==
    \/ LockProcess(c) \/ LockDatabase(c)
    \/ ReadClock(c) \/ AdmitRequest(c) \/ Insert(c) \/ Respond(c) \/ Settle(c)

NextBudget ==
    \/ \E c \in PaidCalls : BeginRequest(c) \/ RequestStep(c) \/ Stop(c)
    \/ NextMonth

SpecBudget == InitBudget /\ [][NextBudget]_budgetVars

-----------------------------------------------------------------------------
\* Every variable has its type, and the advisory lock is only held by a call
\* that is reading or writing the ledger, never across a request.
TypeOKBudget ==
    /\ month \in 0..LastMonth
    /\ advisory \in PaidCalls \cup {NoCall}
    /\ pc \in [PaidCalls -> Points]
    /\ bucket \in [PaidCalls -> 0..LastMonth]
    /\ status \in [PaidCalls -> Statuses]
    /\ charge \in [PaidCalls -> Nat]
    /\ spent \in [PaidCalls -> Nat]
    /\ reported \in [PaidCalls -> BOOLEAN]
    /\ \A c \in PaidCalls : advisory = c => pc[c] \in Serialized

\* While requests cost no more than their verified worst case, those admitted
\* in a month cost no more than the cap together, whatever was settled, lost or
\* cancelled.
MonthWithinCap ==
    \A m \in 0..LastMonth :
        (\A c \in Rows(m) : spent[c] <= Worst[c]) => SumFunctionOnSet(spent, Rows(m)) <= Cap

\* The ledger charges every call at least what it cost, from before the request
\* on, unless it cost more than the worst case and nobody reported it.
NeverUnderstated ==
    \A c \in PaidCalls :
        spent[c] > charge[c] =>
            spent[c] > Worst[c] /\ status[c] \in {"reserved", "conservative"}

\* Once a request has cost more than its worst case, its month admits no other,
\* although an admission may have begun before the settlement.
BreachStopsAdmission ==
    [][\A c \in PaidCalls : status[c] = "none" /\ status'[c] # "none" => ~Breached(bucket[c])]_budgetVars

=============================================================================
