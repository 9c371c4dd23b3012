------------------------------ MODULE Premium ------------------------------
(***************************************************************************)
(* One user's paid access and free trial in PostgreSQL: payments of        *)
(* Telegram Stars, the start of the trial, grants and revocations of the   *)
(* administrator, and the job that records that a trial is over            *)
(* (bot/db/premium.py).  Each is a transaction of several statements.      *)
(*                                                                         *)
(* A process handles one update after the other, so the asyncio lock of    *)
(* payments adds nothing here; transactions of different processes, and    *)
(* of a process's job, interleave.  PostgreSQL reads committed rows, so    *)
(* writes appear at the commit.  An INSERT of a row that refers to the     *)
(* user takes a shared lock of the user's row (the foreign keys of         *)
(* bot/db/database.py), which FOR UPDATE excludes.                         *)
(***************************************************************************)
EXTENDS Integers

CONSTANTS
    Handlers,       \* the processes, each with its handler of updates
    Jobs,           \* their expiry jobs
    Payments,       \* charge ids
    NoPayment,
    Period,         \* PREMIUM_PAYMENT_PERIOD_DAYS
    TrialPeriod,    \* PREMIUM_TRIAL_DAYS
    Days,           \* the days of a grant
    Commands,       \* bound of the number of grants and revocations
    End             \* bound of the clock

Workers == Handlers \cup Jobs

ASSUME PremiumAssumption ==
    /\ Handlers \cap Jobs = {}
    /\ {Period, TrialPeriod, Days} \subseteq Nat \ {0}
    /\ {Commands, End} \subseteq Nat

NoRow == -1

VARIABLES
    now,
    commands,   \* how many grants and revocations have begun
    recorded,   \* the rows of payments
    paid,       \* active_until of the subscription row, or NoRow
    trial,      \* active_until of the trial row, or NoRow
    expired,    \* the trial's expired_at is set
    pc,         \* pc[w]: the statement worker w is about to execute
    op,         \* op[w]: what w does
    payment,    \* payment[w]: the payment w activates
    at,         \* at[w]: "now" of the transaction
    base,       \* base[w]: active_until as w read it, or NoRow
    seen        \* seen[w]: w, a revocation, found a running trial

rows == <<recorded, paid, trial, expired>>
locals == <<op, payment, at, base, seen>>
vars == <<now, commands, rows, pc, locals>>

Operations == {"none", "pay", "trial", "grant", "revoke", "expire"}
Points == {"idle", "check", "user", "insert", "paid", "rows", "read", "write", "trial", "event",
           "commit"}

Init ==
    /\ now = 0 /\ commands = 0
    /\ recorded = {}
    /\ paid = NoRow /\ trial = NoRow /\ expired = FALSE
    /\ pc = [w \in Workers |-> "idle"]
    /\ op = [w \in Workers |-> "none"]
    /\ payment = [w \in Workers |-> NoPayment]
    /\ at = [w \in Workers |-> 0]
    /\ base = [w \in Workers |-> NoRow]
    /\ seen = [w \in Workers |-> FALSE]

Later(x, y) == IF x < y THEN y ELSE x
Goto(w, point) == pc' = [pc EXCEPT ![w] = point]

Admins == {"grant", "revoke"}

-----------------------------------------------------------------------------
\* Locks, held to the end of the transaction.

\* FOR UPDATE of the user's row.
HoldsUser(w) == op[w] \in {"pay", "trial"} /\ pc[w] \in {"insert", "paid", "rows", "commit"}

\* The shared lock of the user's row that foreign keys take.
SharesUser(w) ==
    \/ op[w] \in Admins /\ base[w] = NoRow /\ pc[w] \in {"trial", "event", "commit"}
    \/ op[w] = "revoke" /\ seen[w] /\ pc[w] = "commit"
    \/ op[w] = "expire" /\ pc[w] = "commit"

HoldsPaid(w) ==
    \/ op[w] = "pay" /\ base[w] # NoRow /\ pc[w] = "commit"
    \/ op[w] \in Admins /\ pc[w] \in {"trial", "event", "commit"}

HoldsTrial(w) ==
    \/ op[w] = "revoke" /\ seen[w] /\ pc[w] \in {"event", "commit"}
    \/ op[w] = "expire" /\ pc[w] \in {"event", "commit"}

\* Whom w's next statement has to wait for.
Blockers(w) ==
    {v \in Workers \ {w} :
        \/ pc[w] = "user" /\ (HoldsUser(v) \/ SharesUser(v))
        \/ pc[w] = "paid" /\ paid # NoRow /\ HoldsPaid(v)
        \/ pc[w] = "write" /\ (HoldsPaid(v) \/ (base[w] = NoRow /\ HoldsUser(v)))
        \/ pc[w] = "trial" /\ HoldsTrial(v)
        \/ pc[w] = "event" /\ HoldsUser(v)}

Free(w) == Blockers(w) = {}

-----------------------------------------------------------------------------
\* The end of a transaction, and of its locals.
Finish(w) ==
    /\ Goto(w, "idle")
    /\ op' = [op EXCEPT ![w] = "none"]
    /\ payment' = [payment EXCEPT ![w] = NoPayment]
    /\ base' = [base EXCEPT ![w] = NoRow]
    /\ seen' = [seen EXCEPT ![w] = FALSE]
    /\ at' = [at EXCEPT ![w] = 0]

Start(w, operation, point) ==
    /\ pc[w] = "idle"
    /\ op' = [op EXCEPT ![w] = operation]
    /\ at' = [at EXCEPT ![w] = now]
    /\ Goto(w, point)
    /\ UNCHANGED <<now, rows, base, seen>>

\* An update; Telegram may deliver the one of a payment again.
Handle(w) ==
    \/ /\ \E p \in Payments :
             /\ Start(w, "pay", "check")
             /\ payment' = [payment EXCEPT ![w] = p]
       /\ UNCHANGED commands
    \/ Start(w, "trial", "user") /\ UNCHANGED <<commands, payment>>
    \/ /\ commands < Commands
       /\ commands' = commands + 1
       /\ \E command \in Admins : Start(w, command, "read")
       /\ UNCHANGED payment

RunJob(w) == Start(w, "expire", "trial") /\ UNCHANGED <<commands, payment>>

CheckPayment(w) ==
    /\ pc[w] = "check"
    /\ IF payment[w] \in recorded
       THEN Finish(w)
       ELSE Goto(w, "user") /\ UNCHANGED locals
    /\ UNCHANGED <<now, commands, rows>>

\* Bug: the user's row is read without FOR UPDATE.
LockUserNot(w) ==
    /\ pc[w] = "user"
    /\ at' = [at EXCEPT ![w] = IF op[w] = "pay" THEN now ELSE @]
    /\ Goto(w, IF op[w] = "pay" THEN "insert" ELSE "rows")
    /\ UNCHANGED <<now, commands, rows, op, payment, base, seen>>

\* A payment reads the clock only now, a trial did so before it waited.
LockUser(w) ==
    /\ pc[w] = "user"
    /\ Free(w)
    /\ at' = [at EXCEPT ![w] = IF op[w] = "pay" THEN now ELSE @]
    /\ Goto(w, IF op[w] = "pay" THEN "insert" ELSE "rows")
    /\ UNCHANGED <<now, commands, rows, op, payment, base, seen>>

\* The unique charge id: an IntegrityError is a duplicate.
InsertPayment(w) ==
    /\ pc[w] = "insert"
    /\ IF payment[w] \in recorded
       THEN Finish(w)
       ELSE Goto(w, "paid") /\ UNCHANGED locals
    /\ UNCHANGED <<now, commands, rows>>

\* Bug: the subscription is read without FOR UPDATE.
ReadPaidUnlocked(w) ==
    /\ pc[w] = "paid"
    /\ base' = [base EXCEPT ![w] = paid]
    /\ Goto(w, "commit")
    /\ UNCHANGED <<now, commands, rows, op, payment, at, seen>>

LockPaid(w) ==
    /\ pc[w] = "paid"
    /\ Free(w)
    /\ base' = [base EXCEPT ![w] = paid]
    /\ Goto(w, "commit")
    /\ UNCHANGED <<now, commands, rows, op, payment, at, seen>>

\* A new row needs that there still is none.
CommitPayment(w) ==
    /\ op[w] = "pay" /\ pc[w] = "commit"
    /\ base[w] = NoRow => paid = NoRow
    /\ recorded' = recorded \cup {payment[w]}
    /\ paid' = Later(at[w], base[w]) + Period
    /\ Finish(w)
    /\ UNCHANGED <<now, commands, trial, expired>>

\* No trial after any subscription, active or not, nor after a trial.
CheckTrial(w) ==
    /\ pc[w] = "rows"
    /\ IF paid = NoRow /\ trial = NoRow
       THEN Goto(w, "commit") /\ UNCHANGED locals
       ELSE Finish(w)
    /\ UNCHANGED <<now, commands, rows>>

CommitTrial(w) ==
    /\ op[w] = "trial" /\ pc[w] = "commit"
    /\ trial = NoRow
    /\ trial' = at[w] + TrialPeriod
    /\ Finish(w)
    /\ UNCHANGED <<now, commands, recorded, paid, expired>>

\* The administrator's commands lock nothing when they read.
ReadPlan(w) ==
    /\ pc[w] = "read"
    /\ base' = [base EXCEPT ![w] = paid]
    /\ seen' = [seen EXCEPT ![w] = op[w] = "revoke" /\ trial > at[w]]
    /\ Goto(w, "write")
    /\ UNCHANGED <<now, commands, rows, op, payment, at>>

AfterWrite(w) == IF seen[w] THEN "trial" ELSE "commit"

\* Bug: the retry inserts again instead of reading the row that is there now.
WritePaidRepeatedly(w) ==
    /\ pc[w] = "write"
    /\ Free(w)
    /\ Goto(w, IF base[w] = NoRow /\ paid # NoRow THEN "write" ELSE AfterWrite(w))
    /\ UNCHANGED <<now, commands, rows, locals>>

\* UPDATE, or INSERT when there was no row: an IntegrityError starts over, but
\* not where the event of a trial flushes the row.
WritePaid(w) ==
    /\ pc[w] = "write"
    /\ Free(w)
    /\ IF base[w] = NoRow /\ paid # NoRow
       THEN IF seen[w] THEN Finish(w) ELSE Goto(w, "read") /\ UNCHANGED locals
       ELSE Goto(w, AfterWrite(w)) /\ UNCHANGED locals
    /\ UNCHANGED <<now, commands, rows>>

CommitGrant(w) ==
    /\ op[w] = "grant" /\ pc[w] = "commit"
    /\ paid' = Later(at[w], base[w]) + Days
    /\ Finish(w)
    /\ UNCHANGED <<now, commands, recorded, trial, expired>>

Due(w) == trial # NoRow /\ trial <= at[w] /\ ~expired

\* A revocation updates the trial it saw, the job locks the one that is due.
LockTrial(w) ==
    /\ pc[w] = "trial"
    /\ IF op[w] = "expire" /\ ~Due(w)
       THEN Finish(w)
       ELSE Free(w) /\ Goto(w, "event") /\ UNCHANGED locals
    /\ UNCHANGED <<now, commands, rows>>

\* record_product_event inserts a row that refers to the user.
InsertEvent(w) ==
    /\ pc[w] = "event"
    /\ Free(w)
    /\ Goto(w, "commit")
    /\ UNCHANGED <<now, commands, rows, locals>>

\* Bug: the trial is marked as over and goes on.
CommitRevokeMarkOnly(w) ==
    /\ op[w] = "revoke" /\ pc[w] = "commit"
    /\ paid' = at[w]
    /\ expired' = (expired \/ seen[w])
    /\ Finish(w)
    /\ UNCHANGED <<now, commands, recorded, trial>>

CommitRevoke(w) ==
    /\ op[w] = "revoke" /\ pc[w] = "commit"
    /\ paid' = at[w]
    /\ trial' = IF seen[w] THEN at[w] ELSE trial
    /\ expired' = (expired \/ seen[w])
    /\ Finish(w)
    /\ UNCHANGED <<now, commands, recorded>>

CommitExpire(w) ==
    /\ op[w] = "expire" /\ pc[w] = "commit"
    /\ expired' = TRUE
    /\ Finish(w)
    /\ UNCHANGED <<now, commands, recorded, paid, trial>>

\* A database error or the death of the process: PostgreSQL rolls back.
Abort(w) ==
    /\ pc[w] # "idle"
    /\ Finish(w)
    /\ UNCHANGED <<now, commands, rows>>

Waiting(S) == S # {} /\ \A w \in S : Blockers(w) \cap S # {}

\* PostgreSQL finds a cycle of waiting transactions and aborts one of them.
BreakDeadlock ==
    \E S \in SUBSET Workers :
        /\ Waiting(S) /\ \A T \in SUBSET S : Waiting(T) => T = S
        /\ \E w \in S : Abort(w)

Tick ==
    /\ now < End
    /\ now' = now + 1
    /\ UNCHANGED <<commands, rows, pc, locals>>

Step(w) ==
    \/ CheckPayment(w) \/ LockUser(w) \/ InsertPayment(w) \/ LockPaid(w) \/ CommitPayment(w)
    \/ CheckTrial(w) \/ CommitTrial(w)
    \/ ReadPlan(w) \/ WritePaid(w) \/ CommitGrant(w) \/ CommitRevoke(w)
    \/ LockTrial(w) \/ InsertEvent(w) \/ CommitExpire(w)

Next ==
    \/ \E w \in Handlers : Handle(w)
    \/ \E w \in Jobs : RunJob(w)
    \/ \E w \in Workers : Step(w) \/ Abort(w)
    \/ BreakDeadlock \/ Tick

Spec == Init /\ [][Next]_vars

\* PostgreSQL queues those who wait for a lock, and breaks deadlocks.
Fairness == WF_vars(BreakDeadlock) /\ \A w \in Workers : SF_vars(Step(w))

FairSpec == Spec /\ Fairness

-----------------------------------------------------------------------------
\* Every variable has its type, and no two workers hold conflicting locks.
TypeOK ==
    /\ now \in 0..End
    /\ commands \in 0..Commands
    /\ recorded \subseteq Payments
    /\ {paid, trial} \subseteq Nat \cup {NoRow}
    /\ expired \in BOOLEAN
    /\ pc \in [Workers -> Points]
    /\ op \in [Workers -> Operations]
    /\ payment \in [Workers -> Payments \cup {NoPayment}]
    /\ at \in [Workers -> 0..End]
    /\ base \in [Workers -> Nat \cup {NoRow}]
    /\ seen \in [Workers -> BOOLEAN]
    /\ \A v, w \in Workers : v # w =>
          /\ HoldsUser(v) => ~HoldsUser(w) /\ ~SharesUser(w)
          /\ HoldsPaid(v) => ~HoldsPaid(w)
          /\ HoldsTrial(v) => ~HoldsTrial(w)

Credits(w) == op[w] = "pay" /\ pc[w] = "commit" /\ pc'[w] = "idle" /\ paid' # paid

\* However often and by however many processes the update of a payment is
\* handled, the payment extends access once: whoever extends records it first.
CreditedOnce ==
    [][\A w \in Workers : Credits(w) => payment[w] \in recorded' \ recorded]_vars

\* A payment is added to all that was paid and granted by the time it commits:
\* README.md, "a new payment extends access from the current paid access date".
CreditAddsUp == [][\A w \in Workers : Credits(w) => paid' >= Later(at[w], paid) + Period]_vars

\* start_user_premium_trial's docstring: "paid users never consume a trial".
TrialOnlyUnpaid == [][trial = NoRow /\ trial' # NoRow => paid = NoRow]_vars

\* A trial whose expiry is recorded gives no access any more.
ExpiryIsFinal == expired => trial # NoRow /\ trial <= now

\* Every update is handled and every job ends, whoever waits for whom.
EveryoneEnds == \A w \in Workers : pc[w] # "idle" ~> pc[w] = "idle"

\* Every payment is credited exactly once, on top of everything before it.
PaymentsCredited == CreditedOnce /\ CreditAddsUp

=============================================================================
