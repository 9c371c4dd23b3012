------------------------------ MODULE Delivery ------------------------------
(***************************************************************************)
(* Automatic delivery of Event Alerts and Market Heartbeats for one coin   *)
(* (bot/alerts.py, bot/db/alerts.py).  Several workers, in one or several  *)
(* bot processes that share a PostgreSQL database, fan the same messages   *)
(* out to the same users.  For each user a worker takes the per-user+coin  *)
(* lock (a process lock, then a PostgreSQL advisory lock), rechecks the    *)
(* cooldown or the heartbeat silence, reserves the delivery row, sends     *)
(* through Telegram with fallbacks and retries, and records the outcome.   *)
(* Processes crash, database calls raise, database sessions drop, and      *)
(* Telegram may accept a message without the worker learning of it.        *)
(***************************************************************************)
EXTENDS Integers, FiniteSets

CONSTANTS
    Users,          \* recipients of the coin: one user row, one chat each
    Fickle,         \* the users whose watchlist or entitlement may change
    Events,         \* market events
    Heartbeats,     \* completed cached heartbeats
    Rich,           \* the messages built with a rich_html variant
    EventKey,       \* EventKey[e]: the canonical event key
    Family,         \* Family[e]: the semantic family, or NoFamily
    NoFamily,
    Born,           \* Born[h]: generation time of heartbeat h
    Processes,
    Workers,        \* concurrent fan-outs
    ProcessOf,      \* ProcessOf[w]: the bot process worker w runs in
    NoWorker,
    Cooldown,       \* EVENT_ALERT_SEMANTIC_COOLDOWN_SECONDS, in ticks
    Silence,        \* HEARTBEAT_SILENCE_SECONDS, in ticks
    MaxAge,         \* freshness of a cached heartbeat, in ticks
    MaxAttempts,    \* TELEGRAM_DELIVERY_MAX_ATTEMPTS
    SessionMayDrop, \* may the session that holds the advisory lock be lost?
    MaxTime         \* bound on the clock

Messages == Events \cup Heartbeats

ASSUME DeliveryAssumption ==
    /\ Users # {} /\ Messages # {} /\ Fickle \subseteq Users
    /\ Events \cap Heartbeats = {}
    /\ Rich \subseteq Messages
    /\ Born \in [Heartbeats -> Int]
    /\ ProcessOf \in [Workers -> Processes]
    /\ NoWorker \notin Workers
    /\ Cooldown \in Nat /\ Silence \in Nat /\ MaxAge \in Nat /\ MaxTime \in Nat
    /\ MaxAttempts \in Nat \ {0}
    /\ SessionMayDrop \in BOOLEAN

VARIABLES
    now,            \* the clock
    reachable,      \* reachable[u]: the user row is active (the bot not blocked)
    enabled,        \* enabled[u]: the coin is enabled and unlocked for u
    activated,      \* activated[u]: the heartbeat activation baseline
    status,         \* status[<<u, m>>]: alerts.status, "none" without a row
    finalFailed,    \* finalFailed[<<u, m>>]: alerts.final_failed_at is set
    sentAt,         \* sentAt[<<u, m>>]: alerts.sent_at, once status is "sent"
    advisory,       \* advisory[u]: the holder of the PostgreSQL advisory lock
    pc,             \* pc[w]: where worker w is in the fan-out
    msg,            \* msg[w]: the message worker w delivers
    todo,           \* todo[w]: recipients not visited yet
    target,         \* target[w]: the current recipient
    attempt,        \* attempt[w]: the current send attempt
    result,         \* result[w]: what _send_alert_to_recipient_with_retry returned
    accepted,       \* accepted[<<u, m>>]: messages Telegram put in the chat
    unacked         \* unacked[<<u, m>>]: an HTML or plain send went unacknowledged

rowVars    == <<status, finalFailed, sentAt>>
userVars   == <<reachable, enabled, activated>>
workVars   == <<msg, todo, target, attempt, result>>
chatVars   == <<accepted, unacked>>
vars == <<now, userVars, rowVars, advisory, pc, workVars, chatVars>>

Deliveries == Users \X Messages

Statuses == {"none", "pending", "retry_pending", "sent", "failed"}
Results  == {"none", "sent", "failed", "blocked"}

\* Program points at which a Telegram call may still be made for the row.
Sending  == {"rich", "html", "plain", "backoff"}
\* Program points at which the worker owns a reservation it must settle.
Reserved == Sending \cup {"record"}
\* Program points inside automatic_delivery_lock, past the advisory lock.
Locked   == Reserved \cup {"recheck", "reserve", "disable", "release"}
\* Program points at which the process lock is held.
InProcessLock == Locked \cup {"advisory"}
Points == InProcessLock \cup {"idle", "fanout", "process"}

-----------------------------------------------------------------------------
(***************************************************************************)
(* Eligibility, cooldown and silence.                                      *)
(***************************************************************************)

Eligible(u) == reachable[u] /\ enabled[u]

\* The identity match of the strict four-hour cooldown: same canonical key,
\* or the same known semantic family.
Similar(e, f) ==
    \/ EventKey[e] = EventKey[f]
    \/ Family[e] # NoFamily /\ Family[e] = Family[f]

SentTo(u) == {m \in Messages : status[<<u, m>>] = "sent"}

CooldownAllows(u, e) ==
    \A f \in SentTo(u) \cap Events :
        Similar(e, f) => now - sentAt[<<u, f>>] >= Cooldown

SilenceReached(u) ==
    IF SentTo(u) = {}
    THEN now - activated[u] >= Silence
    ELSE \A m \in SentTo(u) : now - sentAt[<<u, m>>] >= Silence

HeartbeatFresh(h) == Born[h] <= now /\ now - Born[h] <= MaxAge

LatestHeartbeat(h) ==
    /\ Born[h] <= now
    /\ \A g \in Heartbeats : Born[g] <= now => Born[g] <= Born[h]

\* What a worker asks before the fan-out (bulk filter) and again in the lock.
BulkAllows(u, m) ==
    IF m \in Events THEN Eligible(u) /\ CooldownAllows(u, m)
                    ELSE Eligible(u) /\ SilenceReached(u)

\* Bug: the cooldown of events is only checked before the lock.
LockedAllowsWithoutEvents(u, m) ==
    m \in Heartbeats => Eligible(u) /\ SilenceReached(u) /\ HeartbeatFresh(m)

\* Bug: the heartbeat silence is only checked before the lock.
LockedAllowsWithoutSilence(u, m) ==
    IF m \in Events THEN CooldownAllows(u, m)
                    ELSE Eligible(u) /\ HeartbeatFresh(m)

LockedAllows(u, m) ==
    IF m \in Events THEN CooldownAllows(u, m)
                    ELSE Eligible(u) /\ SilenceReached(u) /\ HeartbeatFresh(m)

\* Bug: a row another worker left unsettled is taken over.
MayReserveUnsettled(d) == status[d] # "sent" /\ ~finalFailed[d]

\* reserve_alert_delivery and reserve_market_heartbeat_delivery: a new row, or
\* a failed row without final_failed_at, may be sent.
MayReserve(d) == status[d] = "none" \/ (status[d] = "failed" /\ ~finalFailed[d])

-----------------------------------------------------------------------------
\* The message of an idle worker, which nothing reads.
AnyMessage == CHOOSE m \in Messages : TRUE

Init ==
    /\ now = 0
    /\ reachable \in [Users -> BOOLEAN]
    /\ enabled \in [Users -> BOOLEAN]
    /\ activated = [u \in Users |-> 0]
    /\ status = [d \in Deliveries |-> "none"]
    /\ finalFailed = [d \in Deliveries |-> FALSE]
    /\ sentAt = [d \in Deliveries |-> 0]
    /\ advisory = [u \in Users |-> NoWorker]
    /\ pc = [w \in Workers |-> "idle"]
    /\ msg = [w \in Workers |-> AnyMessage]
    /\ todo = [w \in Workers |-> {}]
    /\ target = [w \in Workers |-> CHOOSE u \in Users : TRUE]
    /\ attempt = [w \in Workers |-> 1]
    /\ result = [w \in Workers |-> "none"]
    /\ accepted = [d \in Deliveries |-> 0]
    /\ unacked = [d \in Deliveries |-> FALSE]

Row(w) == <<target[w], msg[w]>>
Goto(w, point) == pc' = [pc EXCEPT ![w] = point]
\* The first transport of an attempt: rich when the payload has it.
FirstTransport(w) == IF msg[w] \in Rich THEN "rich" ELSE "html"

(***************************************************************************)
(* The fan-out and the lock.                                               *)
(***************************************************************************)

\* A scheduled check decides to deliver message m: the recipient list is
\* computed once, before any lock is taken.
StartFanOut(w, m) ==
    /\ pc[w] = "idle"
    /\ m \in Heartbeats => LatestHeartbeat(m) /\ HeartbeatFresh(m)
    /\ \E u \in Users : BulkAllows(u, m)
    /\ msg' = [msg EXCEPT ![w] = m]
    /\ todo' = [todo EXCEPT ![w] = {u \in Users : BulkAllows(u, m)}]
    /\ Goto(w, "fanout")
    /\ UNCHANGED <<now, userVars, rowVars, advisory, target, attempt, result, chatVars>>

NextRecipient(w) ==
    /\ pc[w] = "fanout"
    /\ \E u \in todo[w] :
        /\ target' = [target EXCEPT ![w] = u]
        /\ todo' = [todo EXCEPT ![w] = @ \ {u}]
    /\ Goto(w, "process")
    /\ UNCHANGED <<now, userVars, rowVars, advisory, msg, attempt, result, chatVars>>

EndFanOut(w) ==
    /\ pc[w] = "fanout"
    /\ todo[w] = {}
    /\ msg' = [msg EXCEPT ![w] = AnyMessage]
    /\ Goto(w, "idle")
    /\ UNCHANGED <<now, userVars, rowVars, advisory, todo, target, attempt, result, chatVars>>

\* async with lock: the asyncio lock of the process for this user and coin.
AcquireProcessLock(w) ==
    /\ pc[w] = "process"
    /\ \A v \in Workers :
        ProcessOf[v] = ProcessOf[w] /\ target[v] = target[w] => pc[v] \notin InProcessLock
    /\ Goto(w, "advisory")
    /\ UNCHANGED <<now, userVars, rowVars, advisory, workVars, chatVars>>

\* pg_advisory_xact_lock in the dedicated session.
AcquireAdvisoryLock(w) ==
    /\ pc[w] = "advisory"
    /\ advisory[target[w]] = NoWorker
    /\ advisory' = [advisory EXCEPT ![target[w]] = w]
    /\ Goto(w, "recheck")
    /\ UNCHANGED <<now, userVars, rowVars, workVars, chatVars>>

\* Bug: the advisory lock is never freed.
ReleaseProcessLockOnly(w) ==
    /\ pc[w] = "release"
    /\ attempt' = [attempt EXCEPT ![w] = 1]
    /\ result' = [result EXCEPT ![w] = "none"]
    /\ Goto(w, "fanout")
    /\ UNCHANGED <<now, userVars, rowVars, advisory, msg, todo, target, chatVars>>

\* The session closes, which frees the advisory lock, then the process lock.
\* A session lost meanwhile makes its commit raise: the fan-out is abandoned.
Release(w) ==
    /\ pc[w] = "release"
    /\ IF advisory[target[w]] = w
       THEN advisory' = [advisory EXCEPT ![target[w]] = NoWorker] /\ UNCHANGED todo
       ELSE todo' = [todo EXCEPT ![w] = {}] /\ UNCHANGED advisory
    /\ attempt' = [attempt EXCEPT ![w] = 1]
    /\ result' = [result EXCEPT ![w] = "none"]
    /\ Goto(w, "fanout")
    /\ UNCHANGED <<now, userVars, rowVars, msg, target, chatVars>>

\* The in-lock recheck: the cooldown of an event, or everything that made a
\* heartbeat due, against a fresh clock.
Recheck(w) ==
    /\ pc[w] = "recheck"
    /\ Goto(w, IF LockedAllows(target[w], msg[w]) THEN "reserve" ELSE "release")
    /\ UNCHANGED <<now, userVars, rowVars, advisory, workVars, chatVars>>

Reserve(w) ==
    /\ pc[w] = "reserve"
    /\ IF MayReserve(Row(w))
       THEN /\ status' = [status EXCEPT ![Row(w)] = "pending"]
            /\ finalFailed' = [finalFailed EXCEPT ![Row(w)] = FALSE]
            /\ Goto(w, FirstTransport(w))
       ELSE /\ Goto(w, "release")
            /\ UNCHANGED <<status, finalFailed>>
    /\ UNCHANGED <<now, userVars, sentAt, advisory, workVars, chatVars>>

-----------------------------------------------------------------------------
(***************************************************************************)
(* Sending.  Telegram answers one call with an acknowledgement, a          *)
(* definitive rejection ("bad" request, bot "blocked", rate "limited") or  *)
(* not at all ("unknown": the message may or may not be in the chat).      *)
(***************************************************************************)

Deliver(w) == accepted' = [accepted EXCEPT ![Row(w)] = @ + 1]
\* An unanswered call may or may not have put the message in the chat.
MaybeDeliver(w) == Deliver(w) \/ UNCHANGED accepted

Return(w, outcome) ==
    /\ result' = [result EXCEPT ![w] = outcome]
    /\ Goto(w, "record")

\* A transient error: another attempt after a backoff, unless it was the last.
RetryOrFail(w) ==
    IF attempt[w] >= MaxAttempts
    THEN Return(w, "failed")
    ELSE Goto(w, "backoff") /\ UNCHANGED result

\* Bug: an unanswered rich call falls back to HTML like a rejected one.
SendRichFallsBack(w) ==
    /\ pc[w] = "rich"
    /\ \/ Deliver(w) /\ Return(w, "sent")
       \/ MaybeDeliver(w) /\ Goto(w, "html") /\ UNCHANGED result
       \/ Return(w, "blocked") /\ UNCHANGED accepted
       \/ RetryOrFail(w) /\ UNCHANGED accepted
    /\ UNCHANGED <<now, userVars, rowVars, advisory, msg, todo, target, attempt, unacked>>

\* send_rich_event_alert: only an explicit rejection falls back to HTML, and
\* only a rate limit is retried.
SendRich(w) ==
    /\ pc[w] = "rich"
    /\ \/ Deliver(w) /\ Return(w, "sent")
       \/ Goto(w, "html") /\ UNCHANGED <<result, accepted>>          \* bad
       \/ Return(w, "blocked") /\ UNCHANGED accepted
       \/ RetryOrFail(w) /\ UNCHANGED accepted                       \* limited
       \/ MaybeDeliver(w) /\ Return(w, "failed")                     \* unknown
    /\ UNCHANGED <<now, userVars, rowVars, advisory, msg, todo, target, attempt, unacked>>

\* The HTML fallback: a rich payload gives up to the retry loop on anything but
\* a bad request, a legacy payload goes on to plain text on anything but a block.
SendHtml(w) ==
    /\ pc[w] = "html"
    /\ \/ Deliver(w) /\ Return(w, "sent") /\ UNCHANGED unacked
       \/ Goto(w, "plain") /\ UNCHANGED <<result, chatVars>>         \* bad
       \/ Return(w, "blocked") /\ UNCHANGED chatVars
       \/ Return(w, "failed") /\ UNCHANGED chatVars                  \* forbidden, too long
       \/ /\ IF msg[w] \in Rich THEN RetryOrFail(w)
                                 ELSE Goto(w, "plain") /\ UNCHANGED result
          /\ \/ UNCHANGED chatVars                                   \* limited
             \/ MaybeDeliver(w) /\ unacked' = [unacked EXCEPT ![Row(w)] = TRUE]
    /\ UNCHANGED <<now, userVars, rowVars, advisory, msg, todo, target, attempt>>

SendPlain(w) ==
    /\ pc[w] = "plain"
    /\ \/ Deliver(w) /\ Return(w, "sent") /\ UNCHANGED unacked
       \/ Return(w, "failed") /\ UNCHANGED chatVars                  \* bad
       \/ Return(w, "blocked") /\ UNCHANGED chatVars
       \/ /\ RetryOrFail(w)
          /\ \/ UNCHANGED chatVars                                   \* limited
             \/ MaybeDeliver(w) /\ unacked' = [unacked EXCEPT ![Row(w)] = TRUE]
    /\ UNCHANGED <<now, userVars, rowVars, advisory, msg, todo, target, attempt>>

\* The row says retry_pending while the worker sleeps, the lock still held.
Backoff(w) ==
    /\ pc[w] = "backoff"
    /\ status' = [status EXCEPT ![Row(w)] = "retry_pending"]
    /\ attempt' = [attempt EXCEPT ![w] = @ + 1]
    /\ Goto(w, FirstTransport(w))
    /\ UNCHANGED <<now, userVars, finalFailed, sentAt, advisory,
                   msg, todo, target, result, chatVars>>

\* update_alert_delivery_status with the final result.
Record(w) ==
    /\ pc[w] = "record"
    /\ IF result[w] = "sent"
       THEN /\ status' = [status EXCEPT ![Row(w)] = "sent"]
            /\ sentAt' = [sentAt EXCEPT ![Row(w)] = now]
            /\ finalFailed' = [finalFailed EXCEPT ![Row(w)] = FALSE]
       ELSE /\ status' = [status EXCEPT ![Row(w)] = "failed"]
            /\ finalFailed' = [finalFailed EXCEPT ![Row(w)] = TRUE]
            /\ UNCHANGED sentAt
    /\ Goto(w, IF result[w] = "blocked" THEN "disable" ELSE "release")
    /\ UNCHANGED <<now, userVars, advisory, workVars, chatVars>>

\* _disable_recipient_if_bot_blocked: the user is never a recipient again.
Disable(w) ==
    /\ pc[w] = "disable"
    /\ reachable' = [reachable EXCEPT ![target[w]] = FALSE]
    /\ Goto(w, "release")
    /\ UNCHANGED <<now, enabled, activated, rowVars, advisory, workVars, chatVars>>

-----------------------------------------------------------------------------
(***************************************************************************)
(* Failures and the environment.                                           *)
(***************************************************************************)

\* A database call of the locked section raises: the context managers free
\* both locks and the exception ends the fan-out.
Abort(w) ==
    /\ pc[w] \in {"recheck", "reserve", "backoff", "record", "disable", "release"}
    /\ advisory' = [u \in Users |-> IF advisory[u] = w THEN NoWorker ELSE advisory[u]]
    /\ todo' = [todo EXCEPT ![w] = {}]
    /\ msg' = [msg EXCEPT ![w] = AnyMessage]
    /\ attempt' = [attempt EXCEPT ![w] = 1]
    /\ result' = [result EXCEPT ![w] = "none"]
    /\ Goto(w, "idle")
    /\ UNCHANGED <<now, userVars, rowVars, target, chatVars>>

\* A process dies: its workers and locks are gone, the rows stay.
Crash(p) ==
    /\ \E w \in Workers : ProcessOf[w] = p /\ pc[w] # "idle"
    /\ pc' = [w \in Workers |-> IF ProcessOf[w] = p THEN "idle" ELSE pc[w]]
    /\ todo' = [w \in Workers |-> IF ProcessOf[w] = p THEN {} ELSE todo[w]]
    /\ msg' = [w \in Workers |-> IF ProcessOf[w] = p THEN AnyMessage ELSE msg[w]]
    /\ attempt' = [w \in Workers |-> IF ProcessOf[w] = p THEN 1 ELSE attempt[w]]
    /\ result' = [w \in Workers |-> IF ProcessOf[w] = p THEN "none" ELSE result[w]]
    /\ advisory' = [u \in Users |->
                      IF \E w \in Workers : advisory[u] = w /\ ProcessOf[w] = p
                      THEN NoWorker ELSE advisory[u]]
    /\ UNCHANGED <<now, userVars, rowVars, target, chatVars>>

\* PostgreSQL loses the session that holds the advisory lock: the lock is free
\* for others while the worker, whose other sessions still work, goes on.
DropSession(u) ==
    /\ SessionMayDrop
    /\ advisory[u] # NoWorker
    /\ advisory' = [advisory EXCEPT ![u] = NoWorker]
    /\ UNCHANGED <<now, userVars, rowVars, pc, workVars, chatVars>>

\* The watchlist or the entitlement of a user changes; enabling (re)starts the
\* activation baseline.
SetEnabled(u) ==
    /\ u \in Fickle
    /\ enabled' = [enabled EXCEPT ![u] = ~@]
    /\ activated' = IF enabled[u] THEN activated ELSE [activated EXCEPT ![u] = now]
    /\ UNCHANGED <<now, reachable, rowVars, advisory, pc, workVars, chatVars>>

\* A delivery of another coin to the same user finds the bot blocked.  Nothing
\* in the code makes a blocked user reachable again.
BlockedElsewhere(u) ==
    /\ reachable[u]
    /\ reachable' = [reachable EXCEPT ![u] = FALSE]
    /\ UNCHANGED <<now, enabled, activated, rowVars, advisory, pc, workVars, chatVars>>

Tick ==
    /\ now < MaxTime
    /\ now' = now + 1
    /\ UNCHANGED <<userVars, rowVars, advisory, pc, workVars, chatVars>>

-----------------------------------------------------------------------------
WorkerStep(w) ==
    \/ NextRecipient(w) \/ EndFanOut(w)
    \/ AcquireProcessLock(w) \/ AcquireAdvisoryLock(w) \/ Release(w)
    \/ Recheck(w) \/ Reserve(w)
    \/ SendRich(w) \/ SendHtml(w) \/ SendPlain(w) \/ Backoff(w)
    \/ Record(w) \/ Disable(w)

Next ==
    \/ \E w \in Workers : WorkerStep(w) \/ Abort(w)
    \/ \E w \in Workers, m \in Messages : StartFanOut(w, m)
    \/ \E p \in Processes : Crash(p)
    \/ \E u \in Users : DropSession(u) \/ SetEnabled(u) \/ BlockedElsewhere(u)
    \/ Tick

Spec == Init /\ [][Next]_vars

\* A worker that can move does (the event loop runs ready tasks; Telegram calls
\* and database calls have timeouts), and both locks queue their waiters, so a
\* waiter cannot be passed over forever.
Fairness ==
    \A w \in Workers :
        /\ WF_vars(WorkerStep(w))
        /\ SF_vars(AcquireProcessLock(w))
        /\ SF_vars(AcquireAdvisoryLock(w))

FairSpec == Spec /\ Fairness

-----------------------------------------------------------------------------
(***************************************************************************)
(* Properties.                                                             *)
(***************************************************************************)

\* Every variable has its type, and a worker that backs off has attempts left.
TypeOK ==
    /\ now \in Nat
    /\ reachable \in [Users -> BOOLEAN]
    /\ enabled \in [Users -> BOOLEAN]
    /\ activated \in [Users -> Nat]
    /\ status \in [Deliveries -> Statuses]
    /\ finalFailed \in [Deliveries -> BOOLEAN]
    /\ sentAt \in [Deliveries -> Nat]
    /\ advisory \in [Users -> Workers \cup {NoWorker}]
    /\ pc \in [Workers -> Points]
    /\ msg \in [Workers -> Messages]
    /\ todo \in [Workers -> SUBSET Users]
    /\ target \in [Workers -> Users]
    /\ attempt \in [Workers -> 1..MaxAttempts]
    /\ result \in [Workers -> Results]
    /\ accepted \in [Deliveries -> Nat]
    /\ unacked \in [Deliveries -> BOOLEAN]
    /\ \A w \in Workers : pc[w] = "backoff" => attempt[w] < MaxAttempts

\* Whatever workers overlap, crash or lose their lock session, a user gets the
\* same message twice only if Telegram left an HTML or plain send unanswered:
\* the reservation row, not the lock, makes delivery idempotent, and an
\* unanswered rich send is never followed by another send.
NoDuplicateUnlessUnacked ==
    \A d \in Deliveries : accepted[d] > 1 => unacked[d]

\* A row never claims a delivery that did not happen.
SentWasAccepted ==
    \A d \in Deliveries : status[d] = "sent" => accepted[d] > 0

\* Two recorded deliveries of similar events to one user are Cooldown apart,
\* although several workers checked the cooldown before either was sent.
CooldownSpacing ==
    \A u \in Users : \A e, f \in SentTo(u) \cap Events :
        e # f /\ Similar(e, f) /\ sentAt[<<u, e>>] <= sentAt[<<u, f>>]
            => sentAt[<<u, f>>] - sentAt[<<u, e>>] >= Cooldown

\* A recorded heartbeat follows every earlier recorded message to the user,
\* event or heartbeat, and the user's first moments, after at least Silence.
HeartbeatSilence ==
    \A u \in Users : \A h \in SentTo(u) \cap Heartbeats :
        /\ sentAt[<<u, h>>] >= Silence
        /\ \A m \in SentTo(u) :
            sentAt[<<u, m>>] < sentAt[<<u, h>>]
                => sentAt[<<u, h>>] - sentAt[<<u, m>>] >= Silence

\* A settled row is never sent again or rewritten, by the worker that settled
\* it, by another one, or after a restart.
SettledRowsFrozen ==
    [][\A d \in Deliveries :
        status[d] \in {"sent", "failed"} =>
            /\ status'[d] = status[d] /\ sentAt'[d] = sentAt[d]
            /\ accepted'[d] = accepted[d]]_vars

\* The row of a delivery as the contract sees it.
ContractRow ==
    [d \in Deliveries |->
        IF status[d] \in {"pending", "retry_pending"} THEN "claimed"
        ELSE IF status[d] = "sent" \/ (status[d] = "failed" /\ finalFailed[d])
             THEN status[d]
        ELSE "open"]

Promised == INSTANCE DeliveryContract
                WITH row <- ContractRow, copies <- accepted, doubt <- unacked

\* The overlapping, crashing and retrying workers implement the contract of a
\* single delivery: every step claims, posts or settles one, or shows nothing.
ImplementsContract == Promised!Contract

\* docs/alert_logic.md:228 of automatic alerts: "Unknown transport acceptance
\* must not trigger a second send".  A user never has one message twice.
NoDuplicate == \A d \in Deliveries : accepted[d] <= 1

\* Every fan-out ends: no worker waits forever for a lock another one keeps.
FanOutEnds ==
    \A w \in Workers : pc[w] # "idle" ~> pc[w] = "idle"

=============================================================================
