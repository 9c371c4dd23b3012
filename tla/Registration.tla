---------------------------- MODULE Registration ----------------------------
(***************************************************************************)
(* What the database learns of one user: the user's row, the rows of the   *)
(* watchlist and the link that brought the user (bot/db/users.py,          *)
(* bot/db/premium.py, bot/db/analytics.py, bot/handlers/user.py).  Every   *)
(* update registers its sender first; /start then records the start, and   *)
(* a tap sets a coin.  Each transaction reads, then inserts what it found  *)
(* missing; a unique constraint refuses the second of two inserts.  A new  *)
(* process handles updates while the old one ends its last.                *)
(***************************************************************************)
EXTENDS Integers, FiniteSets

CONSTANTS
    LastVisit,      \* bound on the updates of the user
    WatchCoins,     \* SUPPORTED_SYMBOLS
    FreeCoins,      \* those that are enabled by default
    Links,          \* acquisition links
    NoLink,
    Overlap         \* updates handled at once, one per process

ASSUME RegistrationAssumption ==
    FreeCoins \subseteq WatchCoins /\ NoLink \notin Links /\ {LastVisit, Overlap} \subseteq Nat

\* The updates, in the order in which Telegram hands them out.
Visits == 1..LastVisit

VARIABLES
    userRow,        \* the user has a row
    coinRows,       \* coinRows[c]: is_enabled of the row of coin c, or NoRowYet
    touch,          \* the link of the attribution row, or NoLink
    starts,         \* bot_started events
    visitAt,        \* visitAt[v]: where the handler of v is
    request,        \* request[v]: what v asks for
    sawUser,        \* sawUser[v]: it found the user's row
    sawRows,        \* sawRows[v]: the rows it read
    resume,         \* resume[v]: where it goes once the rows are ensured
    uncommitted,    \* uncommitted[v]: the attribution it has inserted
    choice,         \* choice[c]: what the last tap on c asked for (history)
    overtaken,      \* taps about to be set whose coin another has set since
                    \* they read the rows (history)
    contested       \* coins whose last tap was overtaken (history)

rowVars == <<userRow, coinRows, touch, starts>>
visitVars == <<visitAt, request, sawUser, sawRows, resume, uncommitted>>
tapVars == <<choice, overtaken, contested>>
registrationVars == <<rowVars, visitVars, tapVars>>

NoRowYet == "none"
RowValues == {NoRowYet, "on", "off"}
Values == {"on", "off"}

\* /start, or a tap on the watchlist.  Other commands only register the user:
\* a handler that ends early stands for them.
Requests ==
    [kind : {"start"}, link : Links \cup {NoLink}] \cup [kind : {"set"}, coin : WatchCoins, value : Values]

Nothing == [kind |-> "nothing"]
Finished == {"shown", "gone"}
Analytics == {"touch", "capture", "event"}
Places == {"waiting", "user", "create", "rows", "insert", "set", "show"} \cup Analytics \cup Finished

UnderWay == {v \in Visits : visitAt[v] \notin {"waiting"} \cup Finished}

NoRows == [c \in WatchCoins |-> NoRowYet]

InitRegistration ==
    /\ userRow = FALSE /\ coinRows = NoRows
    /\ touch = NoLink /\ starts = 0
    /\ visitAt = [v \in Visits |-> "waiting"]
    /\ request = [v \in Visits |-> Nothing]
    /\ sawUser = [v \in Visits |-> FALSE]
    /\ sawRows = [v \in Visits |-> NoRows]
    /\ resume = [v \in Visits |-> "show"]
    /\ uncommitted = [v \in Visits |-> NoLink]
    /\ choice = NoRows /\ overtaken = {} /\ contested = {}

-----------------------------------------------------------------------------
MoveVisit(v, to) == visitAt' = [visitAt EXCEPT ![v] = to]

\* Ensure the rows, then go to `next`.
Ensure(v, next) == MoveVisit(v, "rows") /\ resume' = [resume EXCEPT ![v] = next]

\* Bug: a tap sets its coin without ensuring the rows.
BodyUnensured(v) ==
    MoveVisit(v, IF request[v].kind = "start" THEN "touch" ELSE "set") /\ UNCHANGED resume

\* What the handler does once its sender is registered.
Body(v) ==
    IF request[v].kind = "start" THEN MoveVisit(v, "touch") /\ UNCHANGED resume ELSE Ensure(v, "set")

Arrive(v) ==
    /\ visitAt[v] = "waiting" /\ Cardinality(UnderWay) < Overlap
    /\ \A w \in 1..(v - 1) : visitAt[w] # "waiting"
    /\ \E wanted \in Requests : request' = [request EXCEPT ![v] = wanted]
    /\ MoveVisit(v, "user")
    /\ UNCHANGED <<rowVars, sawUser, sawRows, resume, uncommitted, tapVars>>

ReadUser(v) ==
    /\ visitAt[v] = "user" /\ MoveVisit(v, "create")
    /\ sawUser' = [sawUser EXCEPT ![v] = userRow]
    /\ UNCHANGED <<rowVars, request, sawRows, resume, uncommitted, tapVars>>

\* get_or_create_user: whoever found no row ensures the coins, also when its
\* insert came second and was refused.
CreateUser(v) ==
    /\ visitAt[v] = "create"
    /\ userRow' = TRUE
    /\ IF sawUser[v] THEN Body(v) ELSE Ensure(v, "body")
    /\ sawUser' = [sawUser EXCEPT ![v] = FALSE]
    /\ UNCHANGED <<coinRows, touch, starts, request, sawRows, uncommitted, tapVars>>

Resume(v) == IF resume[v] = "body" THEN Body(v) ELSE MoveVisit(v, resume[v]) /\ UNCHANGED resume

\* ensure_default_coin_subscriptions
ReadRows(v) ==
    /\ visitAt[v] = "rows"
    /\ sawRows' = [sawRows EXCEPT ![v] = coinRows]
    /\ IF \E c \in WatchCoins : coinRows[c] = NoRowYet
       THEN MoveVisit(v, "insert") /\ UNCHANGED resume
       ELSE Resume(v)
    /\ UNCHANGED <<rowVars, request, sawUser, uncommitted, tapVars>>

Default(c) == IF c \in FreeCoins THEN "on" ELSE "off"
Lacked(v) == {c \in WatchCoins : sawRows[v][c] = NoRowYet}

\* All the rows that were missing, or none if one of them exists by now.
AddRows(v) ==
    coinRows' = [c \in WatchCoins |-> IF c \in Lacked(v) /\ \A d \in Lacked(v) : coinRows[d] = NoRowYet
                                 THEN Default(c) ELSE coinRows[c]]

\* It reads the rows again, as its own or another's insert left them.
InsertRows(v) ==
    /\ visitAt[v] = "insert" /\ AddRows(v)
    /\ sawRows' = [sawRows EXCEPT ![v] = coinRows']
    /\ Resume(v)
    /\ UNCHANGED <<userRow, touch, starts, request, sawUser, uncommitted, tapVars>>

\* set_user_coin_subscription.  The row is in the session since the rows were
\* ensured: a value read then that is the wanted one is not written.
SetCoin(v) ==
    LET c == request[v].coin
        value == request[v].value
    IN  /\ visitAt[v] = "set"
        /\ coinRows' = [coinRows EXCEPT ![c] = IF sawRows[v][c] = value THEN @ ELSE value]
        /\ choice' = [choice EXCEPT ![c] = value]
        /\ overtaken' = (overtaken \cup {w \in Visits : visitAt[w] = "set" /\ request[w].coin = c}) \ {v}
        /\ contested' = IF v \in overtaken THEN contested \cup {c} ELSE contested \ {c}
        /\ Ensure(v, "show")
        /\ UNCHANGED <<userRow, touch, starts, request, sawUser, sawRows, uncommitted>>

-----------------------------------------------------------------------------
\* _record_start_analytics.  An inactive, expired or unknown link counts for
\* none; an attribution that exists is left alone.
ReadTouch(v) ==
    /\ visitAt[v] = "touch"
    /\ \E found \in {request[v].link, NoLink} :
         MoveVisit(v, IF found # NoLink /\ touch = NoLink THEN "capture" ELSE "event")
    /\ UNCHANGED <<rowVars, request, sawUser, sawRows, resume, uncommitted, tapVars>>

\* The insert waits for that of another; once it is committed, this is refused.
Capture(v) ==
    /\ visitAt[v] = "capture"
    /\ \A w \in Visits : uncommitted[w] = NoLink
    /\ uncommitted' = [uncommitted EXCEPT ![v] = IF touch = NoLink THEN request[v].link ELSE @]
    /\ MoveVisit(v, "event")
    /\ UNCHANGED <<rowVars, request, sawUser, sawRows, resume, tapVars>>

\* The start and its attribution; then the screen, for which rows are ensured.
CommitStart(v) ==
    /\ visitAt[v] = "event"
    /\ starts' = starts + 1
    /\ touch' = IF uncommitted[v] # NoLink THEN uncommitted[v] ELSE touch
    /\ uncommitted' = [uncommitted EXCEPT ![v] = NoLink]
    /\ Ensure(v, "show")
    /\ UNCHANGED <<userRow, coinRows, request, sawUser, sawRows, tapVars>>

\* A failure of the analytics is logged, and the screen shown all the same.
AnalyticsFails(v) ==
    /\ visitAt[v] \in Analytics
    /\ uncommitted' = [uncommitted EXCEPT ![v] = NoLink]
    /\ Ensure(v, "show")
    /\ UNCHANGED <<rowVars, request, sawUser, sawRows, tapVars>>

EndVisit(v, to) ==
    /\ MoveVisit(v, to)
    /\ request' = [request EXCEPT ![v] = Nothing]
    /\ sawUser' = [sawUser EXCEPT ![v] = FALSE]
    /\ sawRows' = [sawRows EXCEPT ![v] = NoRows]
    /\ resume' = [resume EXCEPT ![v] = "show"]
    /\ uncommitted' = [uncommitted EXCEPT ![v] = NoLink]
    /\ overtaken' = overtaken \ {v}
    /\ UNCHANGED <<rowVars, choice, contested>>

\* The answer to /start or to a tap lists the coins.
Show(v) == visitAt[v] = "show" /\ EndVisit(v, "shown")

\* A database error elsewhere ends the handler, or its process dies.
Vanish(v) == v \in UnderWay /\ EndVisit(v, "gone")

Visit(v) ==
    \/ Arrive(v) \/ ReadUser(v) \/ CreateUser(v) \/ ReadRows(v) \/ InsertRows(v) \/ SetCoin(v)
    \/ ReadTouch(v) \/ Capture(v) \/ CommitStart(v) \/ AnalyticsFails(v)
    \/ Show(v) \/ Vanish(v)

NextRegistration == \E v \in Visits : Visit(v)

SpecRegistration == InitRegistration /\ [][NextRegistration]_registrationVars

-----------------------------------------------------------------------------
(***************************************************************************)
(* Properties.                                                             *)
(***************************************************************************)

TypeOKRegistration ==
    /\ userRow \in BOOLEAN
    /\ coinRows \in [WatchCoins -> RowValues] /\ choice \in [WatchCoins -> RowValues]
    /\ touch \in Links \cup {NoLink}
    /\ starts \in Nat
    /\ visitAt \in [Visits -> Places]
    /\ request \in [Visits -> Requests \cup {Nothing}]
    /\ sawUser \in [Visits -> BOOLEAN]
    /\ sawRows \in [Visits -> [WatchCoins -> RowValues]]
    /\ resume \in [Visits -> {"body", "set", "show"}]
    /\ uncommitted \in [Visits -> Links \cup {NoLink}]
    /\ overtaken \subseteq Visits /\ contested \subseteq WatchCoins

\* "The first valid attribution is immutable" (docs/product_analytics.md:11),
\* also when two updates find no attribution and both insert theirs.
FirstTouchKept == [][touch # NoLink => touch' = touch]_registrationVars

\* A user is attributed to a link only with a start that is recorded, wherever
\* the handler of the start fails ("Atomically", analytics.py:325).
AttributedStart == touch # NoLink => starts > 0

\* A screen that lists the coins finds a row of each, although an insert of rows
\* that meets another's is given up as a whole.
ShownComplete ==
    (\E v \in Visits : visitAt[v] = "shown") => \A c \in WatchCoins : coinRows[c] # NoRowYet

\* A row holds what the last tap on its coin asked for, whatever defaults are
\* inserted late and although a value that was read as the wanted one is not
\* written; unless that tap read the rows before another tap on the coin was set,
\* and was set after it.
ChoiceKept ==
    \A c \in WatchCoins \ contested : choice[c] # NoRowYet => coinRows[c] = choice[c]

\* What overlapping updates of a new user must not lose, after every step.
RegistrationKept ==
    [][AttributedStart' /\ ShownComplete' /\ ChoiceKept']_registrationVars /\ FirstTouchKept

=============================================================================
