----------------------------- MODULE MarketCheck -----------------------------
(***************************************************************************)
(* The automatic check of one coin (automatic_price_check, bot/alerts.py)  *)
(* with the tables it decides from (bot/db/alerts.py).  Several checks of  *)
(* the coin overlap: one per bot process, and in one process the check of  *)
(* a job that was replaced while it ran.  A check looks for an analysis    *)
(* attached to an event that was made on exactly its context, then for a   *)
(* recent decision on it not to send, and otherwise asks the model whether *)
(* the move matters (stage 1) and for the text (stage 2).  A positive      *)
(* analysis creates or finds its market event, is attached to it or gives  *)
(* way to the one attached before, and is sent to the recipients.          *)
(*                                                                         *)
(* The events of this model share one semantic family.  One recipient is   *)
(* served in one step: Delivery refines it.  Market prices and news only   *)
(* show through the context that a check happens to see.                   *)
(***************************************************************************)
EXTENDS Integers, FiniteSets

CONSTANTS
    Workers,        \* concurrent checks of the coin
    Contexts,       \* context fingerprints
    Keys,           \* event instance keys
    Users,
    Analyses,       \* analysis ids; as many significance calls at most
    Events,         \* market event ids
    NoEvent, NoAnalysis, NoKey,
    Cooldown,       \* EVENT_ALERT_SEMANTIC_COOLDOWN_SECONDS, in ticks
    MaxTime         \* bound on the clock

ASSUME MarketCheckAssumption ==
    /\ NoEvent \notin Events /\ NoAnalysis \notin Analyses /\ NoKey \notin Keys
    /\ Contexts # {} /\ Cooldown \in Nat \ {0} /\ MaxTime \in Nat

Never == -1 - Cooldown      \* a time no cooldown remembers

VARIABLES
    now,        \* the clock
    status,     \* status[a]: event_ai_analyses.status; "free" before the call,
                \* "asked" while the id has no row yet
    about,      \* about[a]: the context the analysis was made on
    attached,   \* attached[a]: event_ai_analyses.market_event_id
    eventKey,   \* eventKey[e]: market_events.event_instance_key, NoKey without a row
    noSendAt,   \* noSendAt[c]: the latest outcome row on c that stops a check
    withheld,   \* contexts on which the model declined or a cooldown held an alert back
    lastSent,   \* lastSent[u]: when u last received an Event Alert
    alert,      \* alert[<<u, e>>]: the alerts row: the analysis it names and the
                \* one whose text was sent
    lastAlert,  \* price_state.last_alert_at
    pc, started, seen, ctx, made, key, event, named, todo, sent
                \* of each check: its program point, its `now', the last_alert_at
                \* it read, its context, its analysis, the instance key decided,
                \* its event, the analysis it names, the recipients left, and
                \* whether one received the alert

tableVars == <<status, about, attached, eventKey, alert>>
clockVars == <<noSendAt, withheld, lastSent, lastAlert>>
localVars == <<started, seen, ctx, made, key, event, named, todo, sent>>
vars == <<now, tableVars, clockVars, pc, localVars>>

NoAlert == [names |-> NoAnalysis, tells |-> NoAnalysis]
Statuses == {"free", "asked", "failed", "no_alert", "success"}
\* Points at which the analysis made by the check is its own.
Deciding == {"stage1", "render", "event", "insert", "analysis", "attach"}
\* Points past the decision which analysis the alert names.
Named    == {"recipients", "fanout"}
Points   == Deciding \cup Named \cup {"idle", "lookup", "outcome", "declined", "save"}

Goto(w, point) == pc' = [pc EXCEPT ![w] = point]

\* get_latest_success_event_ai_analysis: the analyses attached to event e.
AttachedTo(e) == {a \in Analyses : attached[a] = e /\ status[a] = "success"}

Rows(k) == {e \in Events : eventKey[e] = k}

\* The context of a check or an analysis that is yet to see one.
AnyContext == CHOOSE c \in Contexts : TRUE

Init ==
    /\ now = 0
    /\ status = [a \in Analyses |-> "free"]
    /\ about = [a \in Analyses |-> AnyContext]
    /\ attached = [a \in Analyses |-> NoEvent]
    /\ eventKey = [e \in Events |-> NoKey]
    /\ noSendAt = [c \in Contexts |-> Never]
    /\ withheld = {}
    /\ lastSent = [u \in Users |-> Never]
    /\ alert = [d \in Users \X Events |-> NoAlert]
    /\ lastAlert = Never
    /\ pc = [w \in Workers |-> "idle"]
    /\ started = [w \in Workers |-> 0]
    /\ seen = [w \in Workers |-> Never]
    /\ ctx = [w \in Workers |-> AnyContext]
    /\ made = [w \in Workers |-> NoAnalysis]
    /\ key = [w \in Workers |-> NoKey]
    /\ event = [w \in Workers |-> NoEvent]
    /\ named = [w \in Workers |-> NoAnalysis]
    /\ todo = [w \in Workers |-> {}]
    /\ sent = [w \in Workers |-> FALSE]

-----------------------------------------------------------------------------
(***************************************************************************)
(* What a check reuses before it calls a model.                            *)
(***************************************************************************)

\* A job starts: its clock, the price state, the context it observes.
Start(w, c) ==
    /\ pc[w] = "idle"
    /\ started' = [started EXCEPT ![w] = now]
    /\ seen' = [seen EXCEPT ![w] = lastAlert]
    /\ ctx' = [ctx EXCEPT ![w] = c]
    /\ Goto(w, "lookup")
    /\ UNCHANGED <<now, tableVars, clockVars, made, key, event, named, todo, sent>>

\* get_reusable_event_analysis_candidates: attached, on exactly this context.
Reusable(w) ==
    {a \in Analyses : status[a] = "success" /\ attached[a] # NoEvent /\ about[a] = ctx[w]}

\* The text, the event and the analysis of a candidate that is still valid.
ReuseAnalysis(w) ==
    /\ pc[w] = "lookup"
    /\ \E a \in Reusable(w) :
        /\ made' = [made EXCEPT ![w] = a]
        /\ named' = [named EXCEPT ![w] = a]
        /\ event' = [event EXCEPT ![w] = attached[a]]
    /\ Goto(w, "recipients")
    /\ UNCHANGED <<now, tableVars, clockVars, started, seen, ctx, key, todo, sent>>

\* No candidate, or none that passes today's validation.
NothingToReuse(w) ==
    /\ pc[w] = "lookup"
    /\ Goto(w, "outcome")
    /\ UNCHANGED <<now, tableVars, clockVars, localVars>>

\* A decision not to send on this context, young enough for this check.
RecentNoSend(w) == noSendAt[ctx[w]] >= started[w] - Cooldown

\* _record_exact_context_reuse: the new row is itself one that stops a check.
SkipContext(w) ==
    /\ pc[w] = "outcome"
    /\ RecentNoSend(w)
    /\ noSendAt' = [noSendAt EXCEPT ![ctx[w]] = now]
    /\ Goto(w, "save")
    /\ UNCHANGED <<now, tableVars, withheld, lastSent, lastAlert, localVars>>

-----------------------------------------------------------------------------
(***************************************************************************)
(* _create_event_analysis_decision.                                        *)
(***************************************************************************)

\* The significance call leaves under a fresh analysis id.
AskSignificance(w) ==
    /\ pc[w] = "outcome"
    /\ ~RecentNoSend(w)
    /\ \E a \in Analyses :
        /\ status[a] = "free"
        /\ status' = [status EXCEPT ![a] = "asked"]
        /\ about' = [about EXCEPT ![a] = ctx[w]]
        /\ made' = [made EXCEPT ![w] = a]
    /\ Goto(w, "stage1")
    /\ UNCHANGED <<now, attached, eventKey, alert, clockVars, started, seen, ctx, key,
                   event, named, todo, sent>>

\* Stage 1 accepts the move: the render call leaves.
Significant(w) ==
    /\ pc[w] = "stage1"
    /\ Goto(w, "render")
    /\ UNCHANGED <<now, tableVars, clockVars, localVars>>

\* Bug: the outcome row of a failed call carries the reason of a verdict.
CallFailsAsVerdict(w) ==
    /\ pc[w] \in {"stage1", "render"}
    /\ status' = [status EXCEPT ![made[w]] = "failed"]
    /\ noSendAt' = [noSendAt EXCEPT ![ctx[w]] = now]
    /\ Goto(w, "save")
    /\ UNCHANGED <<now, about, attached, eventKey, alert, withheld, lastSent, lastAlert,
                   localVars>>

\* Bug: after a failed render the check goes on with an unchecked text.
CallFailsOpen(w) ==
    /\ pc[w] \in {"stage1", "render"}
    /\ status' = [status EXCEPT ![made[w]] = "failed"]
    /\ \E k \in Keys : key' = [key EXCEPT ![w] = k]
    /\ Goto(w, "event")
    /\ UNCHANGED <<now, about, attached, eventKey, alert, clockVars, started, seen, ctx, made,
                   event, named, todo, sent>>

\* Either call fails or answers something invalid: a failed attempt and an
\* outcome row that stops nobody.
CallFails(w) ==
    /\ pc[w] \in {"stage1", "render"}
    /\ status' = [status EXCEPT ![made[w]] = "failed"]
    /\ Goto(w, "save")
    /\ UNCHANGED <<now, about, attached, eventKey, alert, clockVars, localVars>>

\* Stage 1 declines, or the rendered alert rests on news only.
Decline(w) ==
    /\ pc[w] \in {"stage1", "render"}
    /\ status' = [status EXCEPT ![made[w]] = "no_alert"]
    /\ Goto(w, "declined")
    /\ UNCHANGED <<now, about, attached, eventKey, alert, clockVars, localVars>>

\* ... and only then, in a transaction of its own, the outcome row.
RecordDecline(w) ==
    /\ pc[w] = "declined"
    /\ noSendAt' = [noSendAt EXCEPT ![ctx[w]] = now]
    /\ withheld' = withheld \cup {ctx[w]}
    /\ Goto(w, "save")
    /\ UNCHANGED <<now, tableVars, lastSent, lastAlert, localVars>>

\* Stage 2 answers with a valid text: the analysis and its instance key.
Rendered(w, k) ==
    /\ pc[w] = "render"
    /\ status' = [status EXCEPT ![made[w]] = "success"]
    /\ key' = [key EXCEPT ![w] = k]
    /\ Goto(w, "event")
    /\ UNCHANGED <<now, about, attached, eventKey, alert, clockVars, started, seen, ctx,
                   made, event, named, todo, sent>>

-----------------------------------------------------------------------------
(***************************************************************************)
(* One event per instance key, one analysis per event.                     *)
(***************************************************************************)

\* get_market_event_by_instance_key.
FindEvent(w) ==
    /\ pc[w] = "event"
    /\ IF Rows(key[w]) = {}
       THEN Goto(w, "insert") /\ UNCHANGED event
       ELSE /\ \E e \in Rows(key[w]) : event' = [event EXCEPT ![w] = e]
            /\ Goto(w, "analysis")
    /\ UNCHANGED <<now, tableVars, clockVars, started, seen, ctx, made, key, named, todo, sent>>

\* Bug: no unique key, a lost race inserts a second row.
InsertEventTwice(w) ==
    /\ pc[w] = "insert"
    /\ \E e \in Rows(NoKey) :
        /\ eventKey' = [eventKey EXCEPT ![e] = key[w]]
        /\ event' = [event EXCEPT ![w] = e]
    /\ Goto(w, "analysis")
    /\ UNCHANGED <<now, status, about, attached, alert, clockVars, started, seen, ctx, made,
                   key, named, todo, sent>>

\* get_or_create_market_event: the unique key turns a lost race into a read.
InsertEvent(w) ==
    /\ pc[w] = "insert"
    /\ IF Rows(key[w]) = {}
       THEN \E e \in Rows(NoKey) :
               /\ eventKey' = [eventKey EXCEPT ![e] = key[w]]
               /\ event' = [event EXCEPT ![w] = e]
       ELSE /\ \E e \in Rows(key[w]) : event' = [event EXCEPT ![w] = e]
            /\ UNCHANGED eventKey
    /\ Goto(w, "analysis")
    /\ UNCHANGED <<now, status, about, attached, alert, clockVars, started, seen, ctx, made,
                   key, named, todo, sent>>

\* Bug: the alert will name the id of the event.
FindAnalysisWrongId(w) ==
    /\ pc[w] = "analysis"
    /\ IF AttachedTo(event[w]) = {}
       THEN Goto(w, "attach") /\ UNCHANGED named
       ELSE /\ named' = [named EXCEPT ![w] = event[w]]
            /\ Goto(w, "recipients")
    /\ UNCHANGED <<now, tableVars, clockVars, started, seen, ctx, made, key, event, todo, sent>>

\* get_latest_success_event_ai_analysis, read once by the check and once more
\* by attach_analysis_to_market_event before anything is written.
FindAnalysis(w) ==
    /\ pc[w] = "analysis"
    /\ IF AttachedTo(event[w]) = {}
       THEN Goto(w, "attach") /\ UNCHANGED named
       ELSE /\ \E a \in AttachedTo(event[w]) : named' = [named EXCEPT ![w] = a]
            /\ Goto(w, "recipients")
    /\ UNCHANGED <<now, tableVars, clockVars, started, seen, ctx, made, key, event, todo, sent>>

\* Bug: the loser of a race attaches its analysis as well.
AttachBoth(w) ==
    /\ pc[w] = "attach"
    /\ attached' = [attached EXCEPT ![made[w]] = event[w]]
    /\ named' = [named EXCEPT ![w] = made[w]]
    /\ Goto(w, "recipients")
    /\ UNCHANGED <<now, status, about, eventKey, alert, clockVars, started, seen, ctx, made,
                   key, event, todo, sent>>

\* The commit of attach_analysis_to_market_event: the partial unique index
\* makes the loser of a race name the analysis that won.
Attach(w) ==
    /\ pc[w] = "attach"
    /\ IF AttachedTo(event[w]) = {}
       THEN /\ attached' = [attached EXCEPT ![made[w]] = event[w]]
            /\ named' = [named EXCEPT ![w] = made[w]]
       ELSE /\ \E a \in AttachedTo(event[w]) : named' = [named EXCEPT ![w] = a]
            /\ UNCHANGED attached
    /\ Goto(w, "recipients")
    /\ UNCHANGED <<now, status, about, eventKey, alert, clockVars, started, seen, ctx, made,
                   key, event, todo, sent>>

-----------------------------------------------------------------------------
(***************************************************************************)
(* Recipients, fan-out and the price state.                                *)
(***************************************************************************)

CoolingAt(u, t) == t - lastSent[u] < Cooldown

\* A recipient held back by the semantic cooldown leaves an outcome row with
\* the context; so does the event when nobody is left.
HoldBack(w) ==
    /\ noSendAt' = [noSendAt EXCEPT ![ctx[w]] = now]
    /\ withheld' = withheld \cup {ctx[w]}

\* Eligible users, then the bulk filter on the clock of the start.
Resolve(w) ==
    /\ pc[w] = "recipients"
    /\ \E eligible \in SUBSET Users :
        LET cooling == {u \in eligible : CoolingAt(u, started[w])}
        IN  /\ todo' = [todo EXCEPT ![w] = eligible \ cooling]
            /\ IF cooling = {} THEN UNCHANGED <<noSendAt, withheld>> ELSE HoldBack(w)
            /\ Goto(w, IF eligible = cooling THEN "save" ELSE "fanout")
    /\ UNCHANGED <<now, tableVars, lastSent, lastAlert, started, seen, ctx, made, key, event,
                   named, sent>>

Row(w, u) == <<u, event[w]>>

\* One recipient under the delivery lock: recheck, reserve, send, record.  A row
\* that is there stops the send: pending, sent and failed for good are all it is.
Deliver(w, u) ==
    /\ pc[w] = "fanout"
    /\ u \in todo[w]
    /\ todo' = [todo EXCEPT ![w] = @ \ {u}]
    /\ \/ /\ CoolingAt(u, now)
          /\ HoldBack(w)
          /\ UNCHANGED <<alert, lastSent, sent>>
       \/ /\ ~CoolingAt(u, now)
          /\ alert[Row(w, u)] # NoAlert
          /\ UNCHANGED <<noSendAt, withheld, alert, lastSent, sent>>
       \/ /\ ~CoolingAt(u, now)
          /\ alert[Row(w, u)] = NoAlert
          /\ alert' = [alert EXCEPT ![Row(w, u)] = [names |-> named[w], tells |-> made[w]]]
          /\ \E arrives \in BOOLEAN :
              /\ sent' = [sent EXCEPT ![w] = @ \/ arrives]
              /\ lastSent' = [lastSent EXCEPT ![u] = IF arrives THEN now ELSE @]
          /\ UNCHANGED <<noSendAt, withheld>>
    /\ UNCHANGED <<now, status, about, attached, eventKey, lastAlert, pc, started, seen, ctx,
                   made, key, event, named>>

\* The local variables of a check are gone when it returns.
Return(w) ==
    /\ Goto(w, "idle")
    /\ started' = [started EXCEPT ![w] = 0]
    /\ seen' = [seen EXCEPT ![w] = Never]
    /\ ctx' = [ctx EXCEPT ![w] = AnyContext]
    /\ made' = [made EXCEPT ![w] = NoAnalysis]
    /\ key' = [key EXCEPT ![w] = NoKey]
    /\ event' = [event EXCEPT ![w] = NoEvent]
    /\ named' = [named EXCEPT ![w] = NoAnalysis]
    /\ todo' = [todo EXCEPT ![w] = {}]
    /\ sent' = [sent EXCEPT ![w] = FALSE]

\* After a fan-out the price state gets the time of the alert, or the value
\* the check read when it began; a value that was not there is not written.
SaveAfterFanOut(w) ==
    /\ pc[w] = "fanout"
    /\ todo[w] = {}
    /\ lastAlert' = IF sent[w] THEN now ELSE IF seen[w] # Never THEN seen[w] ELSE lastAlert
    /\ Return(w)
    /\ UNCHANGED <<now, tableVars, noSendAt, withheld, lastSent>>

\* Every other path saves the prices only.
Save(w) ==
    /\ pc[w] = "save"
    /\ Return(w)
    /\ UNCHANGED <<now, tableVars, clockVars>>

\* An exception ends the cycle of the coin, a crash the process.
Abort(w) ==
    /\ pc[w] # "idle"
    /\ Return(w)
    /\ UNCHANGED <<now, tableVars, clockVars>>

Tick ==
    /\ now < MaxTime
    /\ now' = now + 1
    /\ UNCHANGED <<tableVars, clockVars, pc, localVars>>

Check(w) ==
    \/ \E c \in Contexts : Start(w, c)
    \/ ReuseAnalysis(w) \/ NothingToReuse(w) \/ SkipContext(w)
    \/ AskSignificance(w) \/ Significant(w) \/ CallFails(w) \/ Decline(w) \/ RecordDecline(w)
    \/ \E k \in Keys : Rendered(w, k)
    \/ FindEvent(w) \/ InsertEvent(w) \/ FindAnalysis(w) \/ Attach(w)
    \/ Resolve(w)
    \/ \E u \in Users : Deliver(w, u)
    \/ SaveAfterFanOut(w) \/ Save(w) \/ Abort(w)

Next == Tick \/ \E w \in Workers : Check(w)

Spec == Init /\ [][Next]_vars

-----------------------------------------------------------------------------
(***************************************************************************)
(* Properties.                                                             *)
(***************************************************************************)

\* Every variable has its type.
TypeOK ==
    /\ now \in Nat
    /\ status \in [Analyses -> Statuses]
    /\ about \in [Analyses -> Contexts]
    /\ attached \in [Analyses -> Events \cup {NoEvent}]
    /\ eventKey \in [Events -> Keys \cup {NoKey}]
    /\ noSendAt \in [Contexts -> Int]
    /\ withheld \in SUBSET Contexts
    /\ lastSent \in [Users -> Int]
    /\ alert \in [Users \X Events -> [names : Analyses \cup {NoAnalysis},
                                      tells : Analyses \cup {NoAnalysis}]]
    /\ lastAlert \in Int
    /\ pc \in [Workers -> Points]
    /\ started \in [Workers -> Nat]
    /\ seen \in [Workers -> Int]
    /\ ctx \in [Workers -> Contexts]
    /\ made \in [Workers -> Analyses \cup {NoAnalysis}]
    /\ key \in [Workers -> Keys \cup {NoKey}]
    /\ event \in [Workers -> Events \cup {NoEvent}]
    /\ named \in [Workers -> Analyses \cup {NoAnalysis}]
    /\ todo \in [Workers -> SUBSET Users]
    /\ sent \in [Workers -> BOOLEAN]

\* A user never holds alerts of two events with one instance key, however the
\* checks that detect the event race (uq_market_events_event_instance_key and
\* the read after the IntegrityError in get_or_create_market_event).
OneAlertPerKey ==
    \A u \in Users, e, f \in Events :
        /\ alert[<<u, e>>] # NoAlert /\ alert[<<u, f>>] # NoAlert
        /\ eventKey[e] = eventKey[f]
        => e = f

\* "1 coin market event = 1 AI analysis = many deliveries" for what the rows
\* name: every alert of an event names the one analysis attached to it, also
\* when two checks attach at once or a check reuses an older analysis.
OneAnalysisManyAlerts ==
    \A u \in Users, e \in Events :
        LET row == alert[<<u, e>>]
        IN  row # NoAlert => /\ row.names \in AttachedTo(e)
                             /\ \A a \in AttachedTo(e) : a = row.names

\* No fabricated text: what a user reads was rendered and validated in stage 2
\* of a significance decision that was positive, on whatever path it was reused.
AlertWasRendered ==
    \A u \in Users, e \in Events :
        LET row == alert[<<u, e>>]
        IN  row # NoAlert => row.tells \in Analyses /\ status[row.tells] = "success"

\* A context is passed over before the model is asked only after the model
\* declined it or a cooldown held one of its alerts back: a failed call or a
\* reuse of a reuse never silences a context nobody has judged.
SilenceIsEarned ==
    \A c \in Contexts : noSendAt[c] # Never => c \in withheld

=============================================================================
