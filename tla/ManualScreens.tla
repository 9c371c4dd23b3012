--------------------------- MODULE ManualScreens ---------------------------
(***************************************************************************)
(* The private chat of one user: commands, the screens that answer them,   *)
(* and their buttons (bot/handlers/transient.py, callbacks.py,             *)
(* bot/onboarding.py, bot/watchlist.py).  The process handles one update   *)
(* at a time; meanwhile the user goes on tapping, so an update may find    *)
(* the chat changed, and alerts of the jobs arrive in the same chat.       *)
(* Telegram's calls fail or lose their answer, and the process restarts.   *)
(***************************************************************************)
EXTENDS Integers, Sequences, FiniteSets

CONSTANTS
    ScreenCoins,    \* SUPPORTED_SYMBOLS
    FreeCoin,       \* "btc"
    NoUpdate,
    MaxMessages,    \* bound on the messages of the bot
    MaxUpdates      \* bound on the updates of the user

ASSUME ScreenAssumption ==
    FreeCoin \in ScreenCoins /\ MaxMessages \in Nat /\ MaxUpdates \in Nat

Messages == 1..MaxMessages
NoMessage == 0

VARIABLES
    screen,         \* screen[m]: what message m shows
    offers,         \* offers[m]: the coins that were chosen when it was made
    session,        \* sessions._sessions: the messages of the current one
    retired,        \* sessions._retired
    inbox,          \* updates not handled yet
    handling,       \* the update that is handled, or NoUpdate
    handlerAt,          \* where its handler is
    tracking,       \* _active: whether its messages join the session
    doomed,         \* messages the handler has yet to delete
    draft,          \* the screen it is about to show
    chosen,         \* coins with is_enabled
    trial, paid,    \* the premium rows: none, active or over
    completed,      \* onboarding_completed_at is set
    events,         \* names of the recorded product events
    taps,           \* updates so far
    seen,           \* what Telegram has shown of the brief (history)
    replaced,       \* messages of earlier commands of this process (history)
    loose           \* messages whose deletion failed, whose answer was lost, or
                    \* whose process is gone (history)

chatVars == <<screen, offers>>
sessionVars == <<session, retired, replaced>>
handlerVars == <<handling, handlerAt, tracking, doomed, draft>>
userVars == <<chosen, trial, paid, completed, events>>
screenVars == <<chatVars, sessionVars, inbox, handlerVars, userVars, taps, seen, loose>>

HandlerPlaces == {"idle", "delete", "act", "send", "edit", "sorry", "record"}

\* The buttons of the keyboards, those for a coin apart.
PlainButtons ==
    [first_brief |-> {"customize"}, returning |-> {"brief", "open"},
     selector |-> {"confirm"}, trial_offer |-> {"trial", "brief", "price"},
     paywall |-> {"price", "brief"}, overview |-> {"brief"}, watchlist |-> {}, text |-> {}]

Screens == DOMAIN PlainButtons
IsScreen(m) == screen[m] \in Screens

Plain(button, m) == [button |-> button, on |-> m, coin |-> FreeCoin, enable |-> FALSE]
Commands == {Plain("/start", NoMessage), Plain("/watchlist", NoMessage)}

Buttons == {"customize", "brief", "open", "confirm", "trial", "price", "close", "toggle", "set"}
Taps == [button : Buttons, on : Messages, coin : ScreenCoins, enable : BOOLEAN]
Updates == Commands \cup Taps

ASSUME UpdateAssumption == NoUpdate \notin Updates

ToggledOn(m) ==
    CASE screen[m] = "overview" -> ScreenCoins
      [] screen[m] = "selector" -> ScreenCoins \ {FreeCoin}
      [] OTHER -> {}

TapsOn(m) ==
    {Plain(b, m) : b \in PlainButtons[screen[m]] \cup {"close"}}
    \cup {[button |-> "toggle", on |-> m, coin |-> c, enable |-> FALSE] : c \in ToggledOn(m)}
    \cup {[button |-> "set", on |-> m, coin |-> c, enable |-> c \notin offers[m]] :
            c \in IF screen[m] = "watchlist" THEN ScreenCoins ELSE {}}

Entitled == trial = "active" \/ paid = "active"
PremiumIntent == chosen \ {FreeCoin} # {}

InitScreens ==
    /\ screen = [m \in Messages |-> "unsent"] /\ offers = [m \in Messages |-> {}]
    /\ session = {} /\ retired = {} /\ replaced = {} /\ inbox = <<>> /\ taps = 0
    /\ handling = NoUpdate /\ handlerAt = "idle" /\ tracking = FALSE /\ doomed = {}
    /\ draft = "text"
    /\ chosen \in SUBSET ScreenCoins /\ trial = "none" /\ paid \in {"none", "over"}
    /\ completed \in BOOLEAN /\ events = {} /\ seen = {} /\ loose = {}

Tap ==
    /\ taps < MaxUpdates
    /\ taps' = taps + 1
    /\ \E update \in Commands \cup UNION {TapsOn(m) : m \in {n \in Messages : IsScreen(n)}} :
         inbox' = Append(inbox, update)
    /\ UNCHANGED <<chatVars, sessionVars, handlerVars, userVars, seen, loose>>

GoOn(next) == handlerAt' = next /\ UNCHANGED <<handling, tracking>>

EndUpdate ==
    /\ handling' = NoUpdate /\ handlerAt' = "idle" /\ tracking' = FALSE
    /\ doomed' = {} /\ draft' = "text"

\* Bug: only what was deleted is retired.
RetireDeleted(ms) == UNCHANGED retired

\* _retire, for the messages of a session that is over
Retire(ms) == retired' = retired \cup ms

\* TransientSessions.begin, up to the deletions
EnterCommand ==
    /\ handlerAt = "idle" /\ inbox # <<>> /\ Head(inbox) \in Commands
    /\ handling' = Head(inbox) /\ inbox' = Tail(inbox)
    /\ doomed' = session /\ session' = {}
    /\ Retire(session) /\ replaced' = replaced \cup session
    /\ handlerAt' = "delete" /\ tracking' = TRUE /\ UNCHANGED draft
    /\ UNCHANGED <<chatVars, userVars, taps, seen, loose>>

\* button_router, up to the buttons.  One on a retired message is refused, and
\* Close closes the session of its message.
EnterCallback ==
    /\ handlerAt = "idle" /\ inbox # <<>> /\ Head(inbox) \notin Commands
    /\ inbox' = Tail(inbox)
    /\ LET tap == Head(inbox)
       IN \/ /\ tap.button = "close" /\ tap.on \in session
             /\ handling' = tap /\ doomed' = session /\ session' = {}
             /\ Retire(session) /\ replaced' = replaced \cup session
             /\ handlerAt' = "delete" /\ tracking' = TRUE /\ UNCHANGED draft
          \/ /\ \/ tap.button = "close" /\ tap.on \notin session
                \/ tap.button # "close" /\ tap.on \in retired
             /\ UNCHANGED <<sessionVars, handlerVars>>
          \/ /\ tap.button # "close" /\ tap.on \notin retired
             /\ handling' = tap /\ handlerAt' = "act" /\ tracking' = (tap.on \in session)
             /\ UNCHANGED <<sessionVars, doomed, draft>>
    /\ UNCHANGED <<chatVars, userVars, taps, seen, loose>>

DeleteMessage ==
    /\ handlerAt = "delete"
    /\ \/ /\ doomed = {}
          /\ IF handling \in Commands THEN GoOn("act") /\ UNCHANGED <<doomed, draft>>
                                      ELSE EndUpdate
          /\ UNCHANGED <<chatVars, loose>>
       \/ \E m \in doomed :
            /\ doomed' = doomed \ {m}
            /\ \/ screen' = [screen EXCEPT ![m] = "gone"] /\ UNCHANGED loose
               \/ loose' = loose \cup {m} /\ UNCHANGED screen
            /\ UNCHANGED <<offers, handling, handlerAt, tracking, draft>>
    /\ UNCHANGED <<sessionVars, inbox, userVars, taps, seen>>

\* The handler at work on a button or command, which goes on to show a screen.
Acts(button) == handlerAt = "act" /\ handling.button = button

ShowNext(kind, next) ==
    /\ draft' = kind /\ GoOn(next)
    /\ UNCHANGED <<chatVars, sessionVars, inbox, doomed, taps, seen, loose>>

AnswerOnly ==
    /\ EndUpdate
    /\ UNCHANGED <<chatVars, sessionVars, inbox, userVars, taps, seen, loose>>

\* send_start_experience
Start ==
    /\ Acts("/start")
    /\ ShowNext(IF completed THEN "returning" ELSE "first_brief", "send")
    /\ events' = IF completed THEN events ELSE events \cup {"onboarding_started"}
    /\ UNCHANGED <<chosen, trial, paid, completed>>

Watchlist ==
    /\ \/ Acts("/watchlist") /\ ShowNext("watchlist", "send")
       \/ Acts("open") /\ ShowNext("watchlist", "edit")
    /\ UNCHANGED userVars

\* The price of Premium is a message of its own.
Price == Acts("price") /\ ShowNext("text", "send") /\ UNCHANGED userVars

Brief == Acts("brief") /\ ShowNext("overview", "edit") /\ UNCHANGED userVars

Customize ==
    /\ Acts("customize")
    /\ chosen' = chosen \cup {FreeCoin}
    /\ events' = events \cup {"onboarding_customize_opened"}
    /\ ShowNext("selector", "edit")
    /\ UNCHANGED <<trial, paid, completed>>

Toggle ==
    /\ Acts("toggle")
    /\ \/ handling.coin = FreeCoin /\ AnswerOnly
       \/ /\ handling.coin # FreeCoin
          /\ chosen' = IF handling.coin \in chosen THEN chosen \ {handling.coin}
                                                  ELSE chosen \cup {handling.coin}
          /\ ShowNext("selector", "edit")
          /\ UNCHANGED <<trial, paid, completed, events>>

\* What Premium choices of a user without access lead to.
TrialOffered == ~Entitled /\ trial = "none"
Offer(otherwise) ==
    IF TrialOffered THEN "trial_offer" ELSE IF ~Entitled THEN "paywall" ELSE otherwise

Confirm ==
    /\ Acts("confirm")
    /\ ShowNext(IF PremiumIntent THEN Offer("overview") ELSE "overview", "edit")
    /\ UNCHANGED userVars

\* watchlist:set gives the coin the value of the button.
Set ==
    /\ Acts("set")
    /\ chosen' = IF handling.enable THEN chosen \cup {handling.coin}
                                    ELSE chosen \ {handling.coin}
    /\ ShowNext(IF handling.enable /\ handling.coin # FreeCoin
                THEN Offer("watchlist") ELSE "watchlist", "edit")
    /\ UNCHANGED <<trial, paid, completed, events>>

\* start_user_premium_trial: never for a user who has paid, nor twice.
StartTrial ==
    /\ Acts("trial")
    /\ \/ ~PremiumIntent /\ AnswerOnly
       \/ /\ PremiumIntent
          /\ trial' = IF paid = "none" /\ trial = "none" THEN "active" ELSE trial
          /\ events' = IF trial' = trial THEN events ELSE events \cup {"trial_started"}
          /\ ShowNext(IF trial' = "active" \/ paid = "active" THEN "overview" ELSE "paywall",
                      "edit")
          /\ UNCHANGED <<chosen, paid, completed>>

\* _tracking: only the task that handles the command sends its messages.
Tracked(manual) == manual /\ tracking

Appear(m, kind, manual) ==
    /\ screen[m] = "unsent" /\ \A n \in 1..(m - 1) : screen[n] # "unsent"
    /\ screen' = [screen EXCEPT ![m] = kind]
    /\ offers' = [offers EXCEPT ![m] = chosen]

Join(m, manual) == session' = IF Tracked(manual) THEN session \cup {m} ELSE session

Briefs == {"first_brief", "trial_offer", "paywall", "overview"}

\* What a screen shows of the brief (not in the watchlist), and of the value of an active trial.
Seeing(kind) ==
    seen' = seen \cup (IF kind \in Briefs /\ handling.button # "set" THEN {"brief"} ELSE {})
                 \cup (IF kind = "overview" /\ trial = "active" THEN {"premium"} ELSE {})

\* A message of the command.  Without Telegram's answer its handler ends.
SendMessage ==
    /\ handlerAt \in {"send", "sorry"}
    /\ \/ \E m \in Messages :
            /\ Appear(m, draft, TRUE) /\ Seeing(draft)
            /\ \/ /\ Join(m, TRUE)
                  /\ loose' = IF tracking THEN loose ELSE loose \cup {m}
                  /\ IF handlerAt = "send" /\ draft = "first_brief"
                     THEN GoOn("record") /\ UNCHANGED <<doomed, draft>>
                     ELSE EndUpdate
               \/ loose' = loose \cup {m} /\ EndUpdate /\ UNCHANGED session
       \/ EndUpdate /\ UNCHANGED <<chatVars, session, loose, seen>>
    /\ UNCHANGED <<retired, replaced, inbox, userVars, taps>>

OfWatchlist == handling.button \in {"set", "open"}

Recorded ==
    IF handling.button = "trial" THEN {"premium_value_delivered"}
    ELSE {"onboarding_completed", "instant_brief_viewed"}

Records == handling.button = "confirm" \/ (handling.button = "trial" /\ trial = "active")

\* The watchlist suppresses the errors of an edit.  On others the update ends
\* with an apology.
AfterFailedEdit ==
    IF OfWatchlist THEN EndUpdate
    ELSE GoOn("sorry") /\ draft' = "text" /\ UNCHANGED doomed

EditMessage ==
    /\ handlerAt = "edit"
    /\ LET m == handling.on
       IN \/ /\ IsScreen(m)
             /\ screen' = [screen EXCEPT ![m] = draft]
             /\ offers' = [offers EXCEPT ![m] = chosen]
             /\ Seeing(draft)
             /\ IF Records THEN GoOn("record") /\ UNCHANGED <<doomed, draft>> ELSE EndUpdate
          \/ AfterFailedEdit /\ UNCHANGED <<chatVars, seen>>
    /\ UNCHANGED <<sessionVars, inbox, userVars, taps, loose>>

\* The transaction after delivery, which may fail.
Record ==
    /\ handlerAt = "record"
    /\ \/ /\ events' = events \cup Recorded
          /\ completed' = (completed \/ handling.button # "trial")
          /\ EndUpdate
          /\ UNCHANGED <<chosen, trial, paid>>
       \/ /\ IF handling \in Commands THEN EndUpdate
             ELSE GoOn("sorry") /\ draft' = "text" /\ UNCHANGED doomed
          /\ UNCHANGED userVars
    /\ UNCHANGED <<chatVars, sessionVars, inbox, taps, seen, loose>>

\* An alert, heartbeat or payment notice: a message of another task.
Notify ==
    /\ \E m \in Messages : Appear(m, "automatic", FALSE) /\ Join(m, FALSE)
    /\ UNCHANGED <<retired, replaced, inbox, handlerVars, userVars, taps, seen, loose>>

\* Access ends, or the user pays.
EntitlementChanges ==
    /\ \/ trial = "active" /\ trial' = "over" /\ UNCHANGED paid
       \/ paid # "active" /\ paid' = "active" /\ UNCHANGED trial
       \/ paid = "active" /\ paid' = "over" /\ UNCHANGED trial
    /\ UNCHANGED <<chatVars, sessionVars, inbox, handlerVars, chosen, completed, events,
                   taps, seen, loose>>

\* Updates that were fetched are lost; those Telegram holds come again, perhaps
\* with the one that was being handled.
RestartBot ==
    /\ session' = {} /\ retired' = {} /\ replaced' = {}
    /\ EndUpdate
    /\ inbox' \in {<<>>, inbox} \cup (IF handling = NoUpdate THEN {} ELSE {<<handling>> \o inbox})
    /\ loose' = Messages \ {m \in Messages : screen[m] = "unsent"}
    /\ UNCHANGED <<chatVars, userVars, taps, seen>>

NextScreens ==
    \/ Tap \/ EnterCommand \/ EnterCallback \/ DeleteMessage
    \/ Start \/ Watchlist \/ Price \/ Brief \/ Customize \/ Toggle \/ Confirm \/ Set
    \/ StartTrial \/ SendMessage \/ EditMessage \/ Record
    \/ Notify \/ EntitlementChanges \/ RestartBot

SpecScreens == InitScreens /\ [][NextScreens]_screenVars

-----------------------------------------------------------------------------
\* Every variable has its type, and a handler is under way exactly when the
\* process has an update.
TypeOKScreens ==
    /\ screen \in [Messages -> Screens \cup {"unsent", "gone", "automatic"}]
    /\ offers \in [Messages -> SUBSET ScreenCoins]
    /\ session \cup retired \cup replaced \cup doomed \cup loose \subseteq Messages
    /\ session \cap retired = {}
    /\ handlerAt \in HandlerPlaces /\ draft \in Screens
    /\ {tracking, completed} \subseteq BOOLEAN /\ taps \in 0..MaxUpdates
    /\ chosen \subseteq ScreenCoins /\ {trial, paid} \subseteq {"none", "active", "over"}
    /\ handling \in Updates \cup {NoUpdate} /\ inbox \in Seq(Updates)
    /\ handlerAt = "idle" <=> handling = NoUpdate
    /\ handlerAt \in {"edit", "sorry"} => handling \in Taps

\* The cleanup of a command never takes a message of a job, although alerts
\* arrive while a command's handler is sending its own.
AutomaticKept ==
    [][\A m \in Messages : screen[m] = "automatic" => screen'[m] = "automatic"]_screenVars

\* Between updates every screen in the chat is one of the current command, but
\* for those Telegram or a restart took out of the bot's hands.
NothingLeftBehind ==
    handlerAt = "idle" => \A m \in Messages : IsScreen(m) => m \in session \cup loose

\* A tap on a screen of an earlier command, made before that was deleted or
\* where the deletion failed, changes nothing of the user's.
OldScreensInert ==
    [][handlerAt # "idle" /\ handling.on \in replaced
         => UNCHANGED <<chosen, completed, events>> /\ trial' \in {trial, "over"}]_screenVars

\* Onboarding counts as completed, and a brief or Premium as seen, only after
\* Telegram has shown it: docs/product_analytics.md:135.
SeenBeforeRecorded ==
    /\ events \cap {"instant_brief_viewed", "onboarding_completed"} # {} => "brief" \in seen
    /\ "premium_value_delivered" \in events => "premium" \in seen

\* A chat has the screens of one command, which alone act, and its alerts.
ScreensKept ==
    [][NothingLeftBehind' /\ SeenBeforeRecorded']_screenVars /\ AutomaticKept /\ OldScreensInert

=============================================================================
