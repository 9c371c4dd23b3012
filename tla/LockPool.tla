------------------------------ MODULE LockPool ------------------------------
(***************************************************************************)
(* The connections behind automatic_delivery_lock (bot/db/alerts.py).      *)
(* Whoever delivers to a user and coin keeps one connection of its process *)
(* for the advisory lock and takes a second one each time it persists      *)
(* something.  At most half of the pool may be kept for locks.             *)
(***************************************************************************)
EXTENDS Integers, FiniteSets

CONSTANTS
    Lockers,        \* deliveries and heartbeat generations, one lock each
    Processes,
    ProcessOf,      \* ProcessOf[w]: the bot process of w
    Keys,           \* a user and a coin
    KeyOf,          \* KeyOf[w]: what w locks
    Capacity,       \* pool size plus overflow of a process
    Writes          \* bound on the sessions a worker opens under its lock

ASSUME PoolAssumption ==
    /\ IsFiniteSet(Lockers)
    /\ ProcessOf \in [Lockers -> Processes] /\ KeyOf \in [Lockers -> Keys]
    /\ Capacity \in Nat \ {0, 1}        \* else the lock raises ValueError
    /\ Writes \in Nat

VARIABLES
    place,          \* place[w]: what w waits for or does
    left,           \* left[w]: the sessions w may still open
    short           \* short[p]: connections that other sessions of p use

poolVars == <<place, left, short>>

Persisting == {"persist", "write"}
HasAdvisory == {"inside"} \cup Persisting
HasConnection == HasAdvisory \cup {"advisory"}
HasSlot == HasConnection \cup {"connect"}
HasKey == HasSlot \cup {"slot"}
PoolPoints == HasKey \cup {"idle", "key"}

At(p, points) == {w \in Lockers : ProcessOf[w] = p /\ place[w] \in points}

Used(p) == Cardinality(At(p, HasConnection)) + Cardinality(At(p, {"write"})) + short[p]

\* Bug: every connection may be kept for a lock.
SlotsAll == Capacity

Slots == Capacity \div 2

MoveTo(w, point) == place' = [place EXCEPT ![w] = point]

InitPool ==
    /\ place = [w \in Lockers |-> "idle"]
    /\ left = [w \in Lockers |-> 0]
    /\ short = [p \in Processes |-> 0]

Begin(w) ==
    /\ place[w] = "idle"
    /\ MoveTo(w, "key")
    /\ left' = [left EXCEPT ![w] = Writes]
    /\ UNCHANGED short

\* The asyncio lock of the user and coin.
TakeKey(w) ==
    /\ place[w] = "key"
    /\ \A v \in At(ProcessOf[w], HasKey) : KeyOf[v] # KeyOf[w]
    /\ MoveTo(w, "slot")
    /\ UNCHANGED <<left, short>>

TakeSlot(w) ==
    /\ place[w] = "slot"
    /\ Cardinality(At(ProcessOf[w], HasSlot)) < Slots
    /\ MoveTo(w, "connect")
    /\ UNCHANGED <<left, short>>

Connect(w) ==
    /\ place[w] = "connect"
    /\ Used(ProcessOf[w]) < Capacity
    /\ MoveTo(w, "advisory")
    /\ UNCHANGED <<left, short>>

\* pg_advisory_xact_lock, against the workers of every process.
LockAdvisory(w) ==
    /\ place[w] = "advisory"
    /\ \A v \in Lockers : KeyOf[v] = KeyOf[w] => place[v] \notin HasAdvisory
    /\ MoveTo(w, "inside")
    /\ UNCHANGED <<left, short>>

\* Reserve, settle, disable: each in a session of its own.
Persist(w) ==
    /\ place[w] = "inside" /\ left[w] > 0
    /\ left' = [left EXCEPT ![w] = @ - 1]
    /\ MoveTo(w, "persist")
    /\ UNCHANGED short

\* Bug: the pool grows without limit for sessions under the lock.
ConnectBeyondPool(w) ==
    /\ place[w] = "persist"
    /\ MoveTo(w, "write")
    /\ UNCHANGED <<left, short>>

ConnectAgain(w) ==
    /\ place[w] = "persist"
    /\ Used(ProcessOf[w]) < Capacity
    /\ MoveTo(w, "write")
    /\ UNCHANGED <<left, short>>

Commit(w) ==
    /\ place[w] = "write"
    /\ MoveTo(w, "inside")
    /\ UNCHANGED <<left, short>>

Leave(w) ==
    /\ place[w] = "inside"
    /\ MoveTo(w, "idle")
    /\ UNCHANGED <<left, short>>

\* An error, a pool timeout or a cancellation: every context manager is left.
AbortLocker(w) ==
    /\ place[w] # "idle"
    /\ MoveTo(w, "idle")
    /\ UNCHANGED <<left, short>>

\* Sessions of handlers and jobs, which need one connection and no lock.
OpenShort(p) ==
    /\ Used(p) < Capacity
    /\ short' = [short EXCEPT ![p] = @ + 1]
    /\ UNCHANGED <<place, left>>

CloseShort(p) ==
    /\ short[p] > 0
    /\ short' = [short EXCEPT ![p] = @ - 1]
    /\ UNCHANGED <<place, left>>

\* The steps a worker waits for, one at a time.
Wait(w) == TakeKey(w) \/ TakeSlot(w) \/ Connect(w) \/ LockAdvisory(w) \/ ConnectAgain(w)
Work(w) == Persist(w) \/ Commit(w) \/ Leave(w)

NextPool ==
    \/ \E w \in Lockers : Begin(w) \/ Wait(w) \/ Work(w) \/ AbortLocker(w)
    \/ \E p \in Processes : OpenShort(p) \/ CloseShort(p)

SpecPool == InitPool /\ [][NextPool]_poolVars

-----------------------------------------------------------------------------
\* Every variable has its type, and no pool lends more than it has.
TypeOKPool ==
    /\ place \in [Lockers -> PoolPoints]
    /\ left \in [Lockers -> 0..Writes]
    /\ short \in [Processes -> 0..Capacity]
    /\ \A p \in Processes : Used(p) <= Capacity

\* Nobody waits for a second connection in a pool whose connections all belong
\* to workers that wait for a second one: some connection is free or is held by
\* somebody who needs no other.
RoomToPersist ==
    \A p \in Processes :
        \/ Used(p) < Capacity
        \/ short[p] > 0
        \/ At(p, {"write"}) # {}

=============================================================================
