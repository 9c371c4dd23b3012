------------------------ MODULE HeartbeatGeneration ------------------------
(***************************************************************************)
(* The hourly job that has the model write Market Heartbeats               *)
(* (generate_market_heartbeats in bot/alerts.py), in several processes.    *)
(* It picks the coins with a recipient to serve and no heartbeat of the    *)
(* last hour, fetches their prices, and goes through them one lock at a    *)
(* time.  It may wait for each while the job of another process works on   *)
(* the coin.  Model calls fail, jobs die, and lock sessions are lost.      *)
(***************************************************************************)
EXTENDS Integers, FiniteSets

CONSTANTS
    Generators,     \* the processes, whose job runs once at a time
    NoGenerator,
    Coins,          \* SUPPORTED_SYMBOLS
    CoinOrder,      \* CoinOrder[c]: the place of c among them
    FreshFor,       \* 3600 seconds
    NeverMade,      \* no time
    Drops,          \* bound on the coins that lose a lock session, once each
    LastMoment      \* bound on the time

ASSUME GenerationAssumption ==
    /\ NoGenerator \notin Generators
    /\ FreshFor \in Nat /\ LastMoment \in Nat /\ Drops \in Nat
    /\ NeverMade \notin Int
    /\ CoinOrder \in [Coins -> Nat]
    /\ \A c, d \in Coins : CoinOrder[c] = CoinOrder[d] => c = d

VARIABLES
    moment,
    silent,         \* coins with a recipient whose silence is long enough
    latest,         \* latest[c]: generated_at of c's last completed heartbeat
    began,          \* began[g]: `now` of the job
    stepOf,         \* stepOf[g]: where the job is
    todo,           \* todo[g]: the coins it is not done with
    lockedBy,       \* lockedBy[c]: who has the advisory lock of c
    drops           \* coins whose lock session was lost (history variable)

generationVars == <<moment, silent, latest, began, stepOf, todo, lockedBy, drops>>

GenerationSteps == {"idle", "fetch", "next", "check", "ask"}

InitGeneration ==
    /\ moment = 0 /\ silent = {} /\ drops = {}
    /\ latest = [c \in Coins |-> NeverMade]
    /\ began = [g \in Generators |-> 0]
    /\ stepOf = [g \in Generators |-> "idle"]
    /\ todo = [g \in Generators |-> {}]
    /\ lockedBy = [c \in Coins |-> NoGenerator]

\* _is_fresh_heartbeat, for a job that began at a time.  One made since the job
\* began is of a negative age, and fresh.
RecentAt(time, c) == latest[c] # NeverMade /\ time - latest[c] <= FreshFor

\* The coin the job works on or takes up next.
AtCoin(g, c) == c \in todo[g] /\ \A d \in todo[g] \ {c} : CoinOrder[c] < CoinOrder[d]

GoTo(g, step) == stepOf' = [stepOf EXCEPT ![g] = step]

\* The job after it is done with a coin.  To end a lost session is an error,
\* which ends the job.
Proceed(g, c) ==
    LET rest == IF lockedBy[c] = g THEN todo[g] \ {c} ELSE {}
    IN /\ todo' = [todo EXCEPT ![g] = rest]
       /\ GoTo(g, IF rest = {} THEN "idle" ELSE "next")

\* What g holds is released, by the code or by the end of its session.
Unlock(g) == lockedBy' = [c \in Coins |-> IF lockedBy[c] = g THEN NoGenerator ELSE lockedBy[c]]

SelectCoins(g) ==
    LET needed == {c \in silent : ~RecentAt(moment, c)}
    IN /\ stepOf[g] = "idle"
       /\ needed # {}
       /\ began' = [began EXCEPT ![g] = moment]
       /\ todo' = [todo EXCEPT ![g] = needed]
       /\ GoTo(g, "fetch")
       /\ UNCHANGED <<moment, silent, latest, lockedBy, drops>>

FetchPrices(g) ==
    /\ stepOf[g] = "fetch"
    /\ GoTo(g, "next")
    /\ UNCHANGED <<moment, silent, latest, began, todo, lockedBy, drops>>

LockCoin(g, c) ==
    /\ stepOf[g] = "next" /\ AtCoin(g, c)
    /\ lockedBy[c] = NoGenerator
    /\ lockedBy' = [lockedBy EXCEPT ![c] = g]
    /\ GoTo(g, "check")
    /\ UNCHANGED <<moment, silent, latest, began, todo, drops>>

\* Bug: under the lock only the recipients are looked at again.
StillNeededBySomebody(g, c) == c \in silent

StillNeeded(g, c) == c \in silent /\ ~RecentAt(began[g], c)

\* The second look, under the lock.  The coin is given up when nobody needs it
\* any more, when a heartbeat has come, or when its price was not fetched.
CheckAgain(g, c) ==
    /\ stepOf[g] = "check" /\ AtCoin(g, c)
    /\ \/ /\ StillNeeded(g, c)
          /\ GoTo(g, "ask")
          /\ UNCHANGED <<todo, lockedBy>>
       \/ Proceed(g, c) /\ Unlock(g)
    /\ UNCHANGED <<moment, silent, latest, began, drops>>

\* A completed heartbeat is dated by the time it is saved.  A failed or skipped
\* one is a row of another status, which nobody looks at.
SaveHeartbeat(g, c) ==
    /\ stepOf[g] = "ask" /\ AtCoin(g, c)
    /\ latest' \in {latest, [latest EXCEPT ![c] = moment]}
    /\ Proceed(g, c)
    /\ Unlock(g)
    /\ UNCHANGED <<moment, silent, began, drops>>

\* An error or the end of the process: the job is over, its lock is free.
AbortGeneration(g) ==
    /\ stepOf[g] # "idle"
    /\ todo' = [todo EXCEPT ![g] = {}]
    /\ GoTo(g, "idle")
    /\ Unlock(g)
    /\ UNCHANGED <<moment, silent, latest, began, drops>>

\* PostgreSQL ends the session that holds the lock; its job goes on.
LoseLock(c) ==
    /\ lockedBy[c] # NoGenerator
    /\ c \notin drops /\ Cardinality(drops) < Drops
    /\ lockedBy' = [lockedBy EXCEPT ![c] = NoGenerator]
    /\ drops' = drops \cup {c}
    /\ UNCHANGED <<moment, silent, latest, began, stepOf, todo>>

\* Silence grows, alerts and heartbeats are delivered, users pause.
ChangeRecipients ==
    /\ \E c \in Coins : silent' \in {silent \cup {c}, silent \ {c}}
    /\ UNCHANGED <<moment, latest, began, stepOf, todo, lockedBy, drops>>

PassTime ==
    /\ moment < LastMoment
    /\ moment' = moment + 1
    /\ UNCHANGED <<silent, latest, began, stepOf, todo, lockedBy, drops>>

NextGeneration ==
    \/ \E g \in Generators :
        \/ SelectCoins(g) \/ FetchPrices(g) \/ AbortGeneration(g)
        \/ \E c \in Coins : LockCoin(g, c) \/ CheckAgain(g, c) \/ SaveHeartbeat(g, c)
    \/ \E c \in Coins : LoseLock(c)
    \/ ChangeRecipients
    \/ PassTime

SpecGeneration == InitGeneration /\ [][NextGeneration]_generationVars

-----------------------------------------------------------------------------
\* Every variable has its type, a job at work has a coin to work on, and what
\* happens to a coin under its lock happens in one job, unless a lock was lost.
TypeOKGeneration ==
    /\ moment \in 0..LastMoment
    /\ silent \subseteq Coins
    /\ latest \in [Coins -> 0..LastMoment \cup {NeverMade}]
    /\ began \in [Generators -> 0..LastMoment]
    /\ stepOf \in [Generators -> GenerationSteps]
    /\ todo \in [Generators -> SUBSET Coins]
    /\ lockedBy \in [Coins -> Generators \cup {NoGenerator}]
    /\ drops \subseteq Coins
    /\ \A g \in Generators : stepOf[g] = "idle" <=> todo[g] = {}
    /\ \A g \in Generators, c \in Coins :
         stepOf[g] \in {"check", "ask"} /\ AtCoin(g, c) => lockedBy[c] = g \/ c \in drops

\* The completed heartbeats of a coin are more than an hour apart, whichever
\* processes make them, although each decides by a time from before its waits,
\* as long as no lock of the coin was lost.
HourApart ==
    [][\A c \in Coins \ drops :
         latest'[c] # latest[c] /\ latest[c] # NeverMade
             => latest'[c] - latest[c] > FreshFor]_generationVars

=============================================================================
