---------------------------- MODULE PremiumProofs ----------------------------
(***************************************************************************)
(* Proofs about Premium, for any processes, payments and periods.          *)
(***************************************************************************)
EXTENDS Premium, TLAPS

Types ==
    /\ now \in 0..End
    /\ commands \in 0..Commands
    /\ recorded \subseteq Payments
    /\ {paid, trial} \subseteq Nat \cup {NoRow}
    /\ expired \in BOOLEAN
    /\ pc \in [Workers -> Points]
    /\ op \in [Workers -> Operations]
    /\ payment \in [Workers -> Payments \cup {NoPayment}]
    /\ at \in [Workers -> 0..End]
    /\ base \in [Workers -> Nat \cup {NoRow}]
    /\ seen \in [Workers -> BOOLEAN]

\* No two workers hold conflicting locks.
Compatible(v, w) ==
    /\ HoldsUser(v) => ~HoldsUser(w) /\ ~SharesUser(w)
    /\ HoldsPaid(v) => ~HoldsPaid(w)
    /\ HoldsTrial(v) => ~HoldsTrial(w)

Exclusive == \A v, w \in Workers : v # w => Compatible(v, w)

\* Which operation has which statements.
InPlace(w) ==
    /\ pc[w] = "idle" => op[w] = "none"
    /\ pc[w] \in {"check", "insert", "paid"} => op[w] = "pay"
    /\ pc[w] = "user" => op[w] \in {"pay", "trial"}
    /\ pc[w] = "rows" => op[w] = "trial"
    /\ pc[w] \in {"read", "write"} => op[w] \in Admins
    /\ pc[w] \in {"trial", "event"} => op[w] = "expire" \/ (op[w] = "revoke" /\ seen[w])
    /\ seen[w] => op[w] = "revoke"
    /\ op[w] = "pay" => payment[w] \in Payments

\* What a worker has read and still relies on.
Reliable(w) ==
    /\ at[w] <= now
    /\ base[w] # NoRow => paid # NoRow
    /\ seen[w] => trial # NoRow
    /\ op[w] = "pay" /\ pc[w] \in {"paid", "commit"} => payment[w] \notin recorded
    /\ op[w] = "pay" /\ pc[w] = "commit" => base[w] = paid
    /\ op[w] = "trial" /\ pc[w] = "commit" => paid = NoRow /\ trial = NoRow
    /\ op[w] = "expire" /\ pc[w] \in {"event", "commit"} => trial # NoRow /\ trial <= now

IInv ==
    /\ Types
    /\ Exclusive
    /\ \A w \in Workers : InPlace(w)
    /\ \A w \in Workers : Reliable(w)
    /\ ExpiryIsFinal

-----------------------------------------------------------------------------
\* The row types, apart.
LEMMA RowTypes == Types <=>
    /\ now \in 0..End
    /\ commands \in 0..Commands
    /\ recorded \subseteq Payments
    /\ paid \in Nat \cup {NoRow}
    /\ trial \in Nat \cup {NoRow}
    /\ expired \in BOOLEAN
    /\ pc \in [Workers -> Points]
    /\ op \in [Workers -> Operations]
    /\ payment \in [Workers -> Payments \cup {NoPayment}]
    /\ at \in [Workers -> 0..End]
    /\ base \in [Workers -> Nat \cup {NoRow}]
    /\ seen \in [Workers -> BOOLEAN]
    BY DEF Types

\* The bounds of what is committed.
LEMMA Numbers ==
    ASSUME Types, NEW w \in Workers
    PROVE  /\ Later(at[w], base[w]) + Period \in Nat
           /\ Later(at[w], base[w]) + Days \in Nat
           /\ at[w] + TrialPeriod \in Nat
           /\ at[w] \in Nat
<1>1. at[w] \in 0..End /\ base[w] \in Nat \cup {-1} BY DEF Types, NoRow
<1>2. Period \in Nat /\ Days \in Nat /\ TrialPeriod \in Nat /\ End \in Nat BY PremiumAssumption
<1>3. QED BY <1>1, <1>2 DEF Later

\* Whatever w executes, the other workers stay where they are.
OthersStay(w) ==
    \A v \in Workers \ {w} :
        /\ pc'[v] = pc[v] /\ op'[v] = op[v] /\ payment'[v] = payment[v]
        /\ at'[v] = at[v] /\ base'[v] = base[v] /\ seen'[v] = seen[v]

Move(w) == Handle(w) \/ RunJob(w) \/ Step(w) \/ Abort(w)

LEMMA MoveTypes ==
    ASSUME Types, NEW w \in Workers, InPlace(w), Move(w)
    PROVE  Types' /\ OthersStay(w)
<1>1. Finish(w) => /\ pc' \in [Workers -> Points] /\ op' \in [Workers -> Operations]
                   /\ payment' \in [Workers -> Payments \cup {NoPayment}]
                   /\ at' \in [Workers -> 0..End]
                   /\ base' \in [Workers -> Nat \cup {NoRow}]
                   /\ seen' \in [Workers -> BOOLEAN]
                   /\ OthersStay(w)
  <2>1. 0 \in 0..End BY PremiumAssumption
  <2>2. QED BY <2>1 DEF Finish, Goto, Types, OthersStay, Points, Operations
<1>2. ASSUME NEW point \in Points, Goto(w, point)
      PROVE  pc' \in [Workers -> Points] /\ \A v \in Workers \ {w} : pc'[v] = pc[v]
  BY <1>2 DEF Goto, Types
<1>3. CASE Handle(w) \/ RunJob(w)
  <2>1. PICK o \in Operations, p \in Points : Start(w, o, p) /\ commands' \in 0..Commands
    <3>1. commands \in 0..Commands /\ Commands \in Nat BY PremiumAssumption DEF Types
    <3>2. QED BY <1>3, <3>1 DEF Handle, RunJob, Admins, Points, Operations
  <2>2. payment' \in [Workers -> Payments \cup {NoPayment}]
        /\ \A v \in Workers \ {w} : payment'[v] = payment[v]
    BY <1>3 DEF Handle, RunJob, Types
  <2>3. QED BY <2>1, <2>2, <1>2 DEF Start, Types, OthersStay, rows
<1>4. CASE CheckPayment(w) \/ InsertPayment(w) \/ CheckTrial(w) \/ LockTrial(w) \/ WritePaid(w)
  <2>1. UNCHANGED <<now, commands, rows>>
    BY <1>4 DEF CheckPayment, InsertPayment, CheckTrial, LockTrial, WritePaid
  <2>2. Finish(w) \/ \E p \in Points : Goto(w, p) /\ UNCHANGED locals
    BY <1>4 DEF CheckPayment, InsertPayment, CheckTrial, LockTrial, WritePaid, AfterWrite, Points
  <2>3. QED BY <2>1, <2>2, <1>1, <1>2 DEF Types, OthersStay, rows, locals
<1>5. CASE LockUser(w)
  <2>1. \E p \in Points : Goto(w, p) BY <1>5 DEF LockUser, Points
  <2>2. at' \in [Workers -> 0..End] /\ \A v \in Workers \ {w} : at'[v] = at[v]
    BY <1>5 DEF LockUser, Types
  <2>3. QED BY <1>5, <2>1, <2>2, <1>2 DEF LockUser, Types, OthersStay, rows
<1>6. CASE LockPaid(w)
  BY <1>6, <1>2 DEF LockPaid, Types, OthersStay, rows, Points
<1>7. CASE ReadPlan(w)
  <2>1. seen' \in [Workers -> BOOLEAN] /\ \A v \in Workers \ {w} : seen'[v] = seen[v]
    <3>1. (op[w] = "revoke" /\ trial > at[w]) \in BOOLEAN OBVIOUS
    <3>2. QED BY <1>7, <3>1, Zenon DEF ReadPlan, Types
  <2>2. Goto(w, "write") /\ "write" \in Points BY <1>7 DEF ReadPlan, Points
  <2>3. base' \in [Workers -> Nat \cup {NoRow}] /\ \A v \in Workers \ {w} : base'[v] = base[v]
    BY <1>7 DEF ReadPlan, Types
  <2>4. QED BY <1>7, <2>1, <2>2, <2>3, <1>2 DEF ReadPlan, Types, OthersStay, rows
<1>8. CASE InsertEvent(w)
  BY <1>8, <1>2 DEF InsertEvent, Types, OthersStay, rows, locals, Points
<1>9. CASE Abort(w)
  BY <1>9, <1>1 DEF Abort, Types, rows
<1>10. CASE CommitPayment(w)
  <2>1. recorded' \subseteq Payments
    BY <1>10 DEF CommitPayment, Types, InPlace
  <2>2. QED BY <1>10, <1>1, <2>1, Numbers, RowTypes DEF CommitPayment, Types
<1>11. CASE CommitTrial(w)
  BY <1>11, <1>1, Numbers DEF CommitTrial, Types
<1>12. CASE CommitGrant(w)
  BY <1>12, <1>1, Numbers DEF CommitGrant, Types
<1>13. CASE CommitRevoke(w)
  <2>1. trial' \in Nat \cup {NoRow} /\ paid' \in Nat \cup {NoRow}
    BY <1>13, Numbers DEF CommitRevoke, Types
  <2>2. expired' \in BOOLEAN
    BY <1>13, Zenon DEF CommitRevoke, Types
  <2>3. QED BY <1>13, <1>1, <2>1, <2>2 DEF CommitRevoke, Types
<1>14. CASE CommitExpire(w)
  BY <1>14, <1>1 DEF CommitExpire, Types
<1>15. QED
  BY <1>3, <1>4, <1>5, <1>6, <1>7, <1>8, <1>9, <1>10, <1>11, <1>12, <1>13, <1>14
  DEF Move, Step

\* What the locals of w are after w's move.
LEMMA MovePlaces ==
    ASSUME Types, NEW w \in Workers, InPlace(w), Move(w)
    PROVE  InPlace(w)'
<1>1. ASSUME Finish(w) PROVE InPlace(w)'
  BY <1>1 DEF Finish, Goto, Types, InPlace
<1>2. CASE Handle(w) \/ RunJob(w)
  <2>1. ~seen[w]' BY <1>2 DEF Handle, RunJob, Start, Types, InPlace
  <2>2. QED BY <1>2, <2>1 DEF Handle, RunJob, Start, Goto, Types, InPlace, Admins
<1>3. CASE CheckPayment(w) \/ InsertPayment(w) \/ CheckTrial(w) \/ LockTrial(w)
  BY <1>1, <1>3
  DEF CheckPayment, InsertPayment, CheckTrial, LockTrial, Goto, locals, Types, InPlace
<1>4. CASE LockUser(w)
  BY <1>4 DEF LockUser, Goto, Types, InPlace
<1>5. CASE LockPaid(w)
  BY <1>5 DEF LockPaid, Goto, Types, InPlace
<1>6. CASE ReadPlan(w)
  <2>1. seen'[w] => op[w] = "revoke" BY <1>6, Zenon DEF ReadPlan, Types
  <2>2. QED BY <1>6, <2>1 DEF ReadPlan, Goto, Types, InPlace
<1>7. CASE WritePaid(w)
  BY <1>1, <1>7 DEF WritePaid, AfterWrite, Goto, locals, Types, InPlace, Admins
<1>8. CASE InsertEvent(w)
  BY <1>8 DEF InsertEvent, Goto, locals, Types, InPlace
<1>9. CASE CommitPayment(w) \/ CommitTrial(w) \/ CommitGrant(w) \/ CommitRevoke(w)
           \/ CommitExpire(w) \/ Abort(w)
  BY <1>1, <1>9 DEF CommitPayment, CommitTrial, CommitGrant, CommitRevoke, CommitExpire, Abort
<1>10. QED
  BY <1>2, <1>3, <1>4, <1>5, <1>6, <1>7, <1>8, <1>9 DEF Move, Step

\* A lock that w gains is held by nobody else.
Gains(w) ==
    /\ HoldsUser(w)' => HoldsUser(w) \/ \A v \in Workers \ {w} : ~HoldsUser(v) /\ ~SharesUser(v)
    /\ SharesUser(w)' => SharesUser(w) \/ \A v \in Workers \ {w} : ~HoldsUser(v)
    /\ HoldsPaid(w)' => HoldsPaid(w) \/ \A v \in Workers \ {w} : ~HoldsPaid(v)
    /\ HoldsTrial(w)' => HoldsTrial(w) \/ \A v \in Workers \ {w} : ~HoldsTrial(v)

\* What a worker that need not wait knows about the others.
LEMMA FreeMeans ==
    ASSUME NEW w \in Workers, Free(w), NEW v \in Workers \ {w}
    PROVE  /\ pc[w] = "user" => ~HoldsUser(v) /\ ~SharesUser(v)
           /\ pc[w] = "paid" /\ paid # NoRow => ~HoldsPaid(v)
           /\ pc[w] = "write" => ~HoldsPaid(v)
           /\ pc[w] = "write" /\ base[w] = NoRow => ~HoldsUser(v)
           /\ pc[w] = "trial" => ~HoldsTrial(v)
           /\ pc[w] = "event" => ~HoldsUser(v)
<1>1. v \notin Blockers(w) BY DEF Free
<1>2. QED BY <1>1 DEF Blockers

LEMMA MoveGains ==
    ASSUME Types, NEW w \in Workers, InPlace(w), Move(w)
    PROVE  Gains(w)
<1>1. ASSUME pc'[w] = "idle" PROVE Gains(w)
  BY <1>1 DEF Gains, HoldsUser, SharesUser, HoldsPaid, HoldsTrial
<1>2. CASE Handle(w) \/ RunJob(w)
  BY <1>2
  DEF Handle, RunJob, Start, Goto, Types, Gains, HoldsUser, SharesUser, HoldsPaid, HoldsTrial, Admins
<1>3. ASSUME Finish(w) PROVE Gains(w)
  BY <1>1, <1>3 DEF Finish, Goto, Types
<1>4. CASE CheckPayment(w) \/ InsertPayment(w) \/ CheckTrial(w)
  BY <1>3, <1>4
  DEF CheckPayment, InsertPayment, CheckTrial, Goto, locals, Types, InPlace,
      Gains, HoldsUser, SharesUser, HoldsPaid, HoldsTrial, Admins
<1>5. CASE LockUser(w)
  <2>1. ~SharesUser(w)' /\ ~HoldsPaid(w)' /\ ~HoldsTrial(w)'
    BY <1>5 DEF LockUser, Goto, Types, InPlace, SharesUser, HoldsPaid, HoldsTrial, Admins
  <2>2. pc[w] = "user" /\ Free(w) BY <1>5 DEF LockUser
  <2>3. QED BY <2>1, <2>2, FreeMeans DEF Gains
<1>6. CASE LockPaid(w)
  <2>1. /\ HoldsUser(w) /\ ~SharesUser(w)' /\ ~HoldsTrial(w)'
        /\ HoldsPaid(w)' => paid # NoRow
    BY <1>6 DEF LockPaid, Goto, Types, InPlace, HoldsUser, SharesUser, HoldsPaid, HoldsTrial, Admins
  <2>2. pc[w] = "paid" /\ Free(w) BY <1>6 DEF LockPaid
  <2>3. QED BY <2>1, <2>2, FreeMeans DEF Gains
<1>7. CASE ReadPlan(w)
  BY <1>7
  DEF ReadPlan, Goto, Types, InPlace, Admins, Gains, HoldsUser, SharesUser, HoldsPaid, HoldsTrial
<1>8. CASE WritePaid(w)
  <2>1. CASE Finish(w)
    BY <1>3, <2>1
  <2>2. CASE ~Finish(w)
    <3>1. /\ ~HoldsUser(w)' /\ ~HoldsTrial(w)'
          /\ SharesUser(w)' => base[w] = NoRow
      BY <1>8, <2>2 DEF WritePaid, AfterWrite, Goto, locals, Types, InPlace, HoldsUser, HoldsTrial,
                        SharesUser, Admins
    <3>2. pc[w] = "write" /\ Free(w) BY <1>8 DEF WritePaid
    <3>3. QED BY <3>1, <3>2, FreeMeans DEF Gains
  <2>3. QED BY <2>1, <2>2
<1>9. CASE LockTrial(w)
  <2>1. CASE Finish(w)
    BY <1>3, <2>1
  <2>2. CASE ~Finish(w)
    <3>1. /\ ~HoldsUser(w)'
          /\ SharesUser(w)' => SharesUser(w)
          /\ HoldsPaid(w)' => HoldsPaid(w)
      BY <1>9, <2>2 DEF LockTrial, Goto, locals, Types, InPlace, HoldsUser, HoldsPaid, SharesUser, Admins
    <3>2. pc[w] = "trial" /\ Free(w) BY <1>9, <2>2 DEF LockTrial
    <3>3. QED BY <3>1, <3>2, FreeMeans DEF Gains
  <2>3. QED BY <2>1, <2>2
<1>10. CASE InsertEvent(w)
  <2>1. /\ ~HoldsUser(w)'
        /\ HoldsPaid(w)' => HoldsPaid(w)
        /\ HoldsTrial(w)' => HoldsTrial(w)
    BY <1>10 DEF InsertEvent, Goto, locals, Types, InPlace, HoldsUser, HoldsPaid, HoldsTrial, Admins
  <2>2. pc[w] = "event" /\ Free(w) BY <1>10 DEF InsertEvent
  <2>3. QED BY <2>1, <2>2, FreeMeans DEF Gains
<1>11. CASE CommitPayment(w) \/ CommitTrial(w) \/ CommitGrant(w) \/ CommitRevoke(w)
            \/ CommitExpire(w) \/ Abort(w)
  BY <1>3, <1>11
  DEF CommitPayment, CommitTrial, CommitGrant, CommitRevoke, CommitExpire, Abort
<1>12. QED
  BY <1>2, <1>4, <1>5, <1>6, <1>7, <1>8, <1>9, <1>10, <1>11 DEF Move, Step

\* Locks stay compatible, whoever moves.
LEMMA MoveExclusive ==
    ASSUME Types, Exclusive, NEW w \in Workers, InPlace(w), Move(w)
    PROVE  Exclusive'
<1>1. OthersStay(w) /\ Gains(w) BY MoveTypes, MoveGains
<1>2. \A v \in Workers \ {w} : /\ HoldsUser(v)' = HoldsUser(v)
                             /\ SharesUser(v)' = SharesUser(v)
                             /\ HoldsPaid(v)' = HoldsPaid(v)
                             /\ HoldsTrial(v)' = HoldsTrial(v)
  BY <1>1 DEF OthersStay, HoldsUser, SharesUser, HoldsPaid, HoldsTrial
<1>3. SUFFICES ASSUME NEW u \in Workers, NEW v \in Workers, u # v
               PROVE  Compatible(u, v)'
  BY DEF Exclusive
<1>4. Compatible(u, v) /\ Compatible(v, u) BY <1>3 DEF Exclusive
<1>5. CASE u = w
  BY <1>1, <1>2, <1>3, <1>4, <1>5 DEF Gains, Compatible
<1>6. CASE v = w
  BY <1>1, <1>2, <1>3, <1>4, <1>6 DEF Gains, Compatible
<1>7. CASE u # w /\ v # w
  BY <1>2, <1>4, <1>7 DEF Compatible
<1>8. QED BY <1>5, <1>6, <1>7

\* While an administrator's command is about to commit, no payment nor trial is:
\* they would hold the same row, or the user's row that an INSERT shares.
LEMMA AdminExcludes ==
    ASSUME Exclusive, NEW w \in Workers, Reliable(w), op[w] \in Admins, pc[w] = "commit",
           NEW v \in Workers \ {w}, Reliable(v), op[v] \in {"pay", "trial"}
    PROVE  pc[v] # "commit"
<1>1. SUFFICES ASSUME pc[v] = "commit" PROVE FALSE
  OBVIOUS
<1>2. HoldsUser(v) BY <1>1 DEF HoldsUser
<1>3. ~SharesUser(w) BY <1>2 DEF Exclusive, Compatible
<1>4. base[w] # NoRow BY <1>3 DEF SharesUser
<1>5. paid # NoRow BY <1>4 DEF Reliable
<1>6. op[v] = "pay" /\ base[v] = paid BY <1>1, <1>5 DEF Reliable
<1>7. HoldsPaid(v) /\ HoldsPaid(w) BY <1>1, <1>5, <1>6 DEF HoldsPaid
<1>8. QED BY <1>7 DEF Exclusive, Compatible

\* What the worker that moves relies on.
LEMMA MoverReliable ==
    ASSUME Types, NEW w \in Workers, InPlace(w), Reliable(w), Move(w)
    PROVE  Reliable(w)'
<1> USE DEF NoRow
<1>1. ASSUME Finish(w), UNCHANGED now PROVE Reliable(w)'
  <2>1. at'[w] = 0 /\ base'[w] = -1 /\ ~seen'[w] /\ op'[w] = "none"
    BY <1>1 DEF Finish, Types
  <2>2. 0 <= now BY PremiumAssumption DEF Types
  <2>3. QED BY <1>1, <2>1, <2>2 DEF Reliable
<1>2. CASE Handle(w) \/ RunJob(w)
  <2>1. /\ pc'[w] \in {"check", "user", "read", "trial"} /\ at'[w] = now
        /\ UNCHANGED <<now, recorded, paid, trial, expired, base, seen>>
        /\ pc[w] = "idle"
    BY <1>2 DEF Handle, RunJob, Start, Goto, Types, rows
  <2>2. now <= now BY PremiumAssumption DEF Types
  <2>3. QED BY <2>1, <2>2 DEF Reliable, InPlace
<1>3. CASE CheckPayment(w) \/ InsertPayment(w) \/ CheckTrial(w) \/ WritePaid(w) \/ InsertEvent(w)
  BY <1>1, <1>3
  DEF CheckPayment, InsertPayment, CheckTrial, WritePaid, AfterWrite, InsertEvent, Goto, Types, InPlace,
      Reliable, rows, locals, Admins
<1>4. CASE LockUser(w)
  <2>1. at'[w] <= now
    BY <1>4, PremiumAssumption DEF LockUser, Types, Reliable
  <2>2. QED BY <1>4, <2>1 DEF LockUser, Goto, Types, InPlace, Reliable, rows
<1>5. CASE LockPaid(w)
  BY <1>5 DEF LockPaid, Goto, Types, InPlace, Reliable, rows
<1>6. CASE ReadPlan(w)
  <2>1. seen'[w] => trial > at[w]
    BY <1>6, Zenon DEF ReadPlan, Types
  <2>2. seen'[w] => trial # NoRow
    BY <2>1, Numbers DEF Types
  <2>3. QED BY <1>6, <2>2 DEF ReadPlan, Goto, Types, InPlace, Reliable, rows, Admins
<1>7. CASE LockTrial(w)
  <2>1. CASE Finish(w)
    BY <1>1, <1>7, <2>1 DEF LockTrial
  <2>2. CASE ~Finish(w)
    <3>1. op[w] = "expire" => trial # NoRow /\ trial <= at[w]
      BY <1>7, <2>2 DEF LockTrial, Due
    <3>2. op[w] = "expire" => trial <= now
      BY <3>1, PremiumAssumption DEF Types, Reliable
    <3>3. QED
      BY <1>7, <2>2, <3>1, <3>2 DEF LockTrial, Goto, locals, rows, Types, InPlace, Reliable
  <2>3. QED BY <2>1, <2>2
<1>8. CASE CommitPayment(w) \/ CommitTrial(w) \/ CommitGrant(w) \/ CommitRevoke(w)
           \/ CommitExpire(w) \/ Abort(w)
  BY <1>1, <1>8
  DEF CommitPayment, CommitTrial, CommitGrant, CommitRevoke, CommitExpire, Abort
<1>9. QED
  BY <1>2, <1>3, <1>4, <1>5, <1>6, <1>7, <1>8 DEF Move, Step

\* What the others rely on, whoever moves.
LEMMA OthersReliable ==
    ASSUME Types, Exclusive, NEW w \in Workers, InPlace(w), Reliable(w), Move(w),
           NEW v \in Workers \ {w}, Reliable(v)
    PROVE  Reliable(v)'
<1> USE DEF NoRow
<1>1. /\ pc'[v] = pc[v] /\ op'[v] = op[v] /\ payment'[v] = payment[v]
      /\ at'[v] = at[v] /\ base'[v] = base[v] /\ seen'[v] = seen[v]
  BY MoveTypes DEF OthersStay
<1>2. CASE CommitPayment(w)
  <2>1. /\ UNCHANGED <<now, trial>> /\ paid' \in Nat
    BY <1>2, Numbers DEF CommitPayment
  <2>2. HoldsUser(w) BY <1>2 DEF CommitPayment, HoldsUser
  <2>3. ~HoldsUser(v) BY <2>2 DEF Exclusive, Compatible
  <2>4. ~(op[v] = "pay" /\ pc[v] \in {"paid", "commit"}) /\ ~(op[v] = "trial" /\ pc[v] = "commit")
    BY <2>3 DEF HoldsUser
  <2>5. QED BY <1>1, <2>1, <2>4 DEF Reliable
<1>3. CASE CommitTrial(w)
  <2>1. /\ UNCHANGED <<now, recorded, paid>> /\ trial' \in Nat /\ trial = NoRow
    BY <1>3, Numbers DEF CommitTrial
  <2>2. HoldsUser(w) BY <1>3 DEF CommitTrial, HoldsUser
  <2>3. ~HoldsUser(v) BY <2>2 DEF Exclusive, Compatible
  <2>4. ~(op[v] = "trial" /\ pc[v] = "commit") BY <2>3 DEF HoldsUser
  <2>5. QED BY <1>1, <2>1, <2>4 DEF Reliable
<1>4. CASE CommitGrant(w) \/ CommitRevoke(w)
  <2>1. op[w] \in Admins /\ pc[w] = "commit"
    BY <1>4 DEF CommitGrant, CommitRevoke, Admins
  <2>2. op[v] \in {"pay", "trial"} => pc[v] # "commit"
    BY <2>1, AdminExcludes
  <2>3. UNCHANGED <<now, recorded>> /\ paid' \in Nat
    BY <1>4, Numbers DEF CommitGrant, CommitRevoke
  <2>4. trial' = trial \/ (trial' = at[w] /\ at[w] \in Nat /\ at[w] <= now)
    BY <1>4, Numbers DEF CommitGrant, CommitRevoke, Reliable
  <2>5. QED BY <1>1, <2>2, <2>3, <2>4 DEF Reliable
<1>5. CASE ~CommitPayment(w) /\ ~CommitTrial(w) /\ ~CommitGrant(w) /\ ~CommitRevoke(w)
  <2>1. UNCHANGED <<now, recorded, paid, trial>>
    BY <1>5 DEF Move, Step, Handle, RunJob, Start, Abort, CheckPayment, LockUser, InsertPayment,
                LockPaid, CheckTrial, ReadPlan, WritePaid, LockTrial, InsertEvent, CommitExpire, rows
  <2>2. QED BY <1>1, <2>1 DEF Reliable
<1>6. QED BY <1>2, <1>3, <1>4, <1>5

LEMMA MoveFinal ==
    ASSUME Types, ExpiryIsFinal, NEW w \in Workers, InPlace(w), Reliable(w), Move(w)
    PROVE  ExpiryIsFinal'
<1> USE DEF NoRow
<1>1. CASE CommitTrial(w)
  BY <1>1 DEF CommitTrial, ExpiryIsFinal
<1>2. CASE CommitRevoke(w)
  <2>1. CASE seen[w]
    BY <1>2, <2>1, Numbers DEF CommitRevoke, ExpiryIsFinal, Reliable
  <2>2. CASE ~seen[w]
    BY <1>2, <2>2 DEF CommitRevoke, ExpiryIsFinal
  <2>3. QED BY <2>1, <2>2
<1>3. CASE CommitExpire(w)
  BY <1>3 DEF CommitExpire, ExpiryIsFinal, Reliable
<1>4. CASE ~CommitTrial(w) /\ ~CommitRevoke(w) /\ ~CommitExpire(w)
  <2>1. UNCHANGED <<now, trial, expired>>
    BY <1>4 DEF Move, Step, Handle, RunJob, Start, Abort, CheckPayment, LockUser, InsertPayment,
                LockPaid, CommitPayment, CheckTrial, ReadPlan, WritePaid, CommitGrant, LockTrial,
                InsertEvent, rows
  <2>2. QED BY <2>1 DEF ExpiryIsFinal
<1>5. QED BY <1>1, <1>2, <1>3, <1>4

-----------------------------------------------------------------------------
LEMMA InitIInv == Init => IInv
<1>1. SUFFICES ASSUME Init PROVE IInv
  OBVIOUS
<1>2. 0 \in 0..End /\ 0 \in 0..Commands
  BY PremiumAssumption
<1>3. Types
  BY <1>1, <1>2 DEF Init, Types, Points, Operations
<1>4. Exclusive
  BY <1>1 DEF Init, Exclusive, Compatible, HoldsUser, HoldsPaid, HoldsTrial
<1>5. ASSUME NEW w \in Workers PROVE InPlace(w) /\ Reliable(w)
  BY <1>1 DEF Init, InPlace, Reliable
<1>6. QED BY <1>1, <1>3, <1>4, <1>5 DEF IInv, Init, ExpiryIsFinal

\* Every step is the move of a worker, or of the clock.
LEMMA NextMoves == Next => Tick \/ \E w \in Workers : Move(w)
  BY DEF Next, BreakDeadlock, Move, Workers

LEMMA NextIInv == IInv /\ [Next]_vars => IInv'
<1>1. SUFFICES ASSUME IInv, [Next]_vars PROVE IInv'
  OBVIOUS
<1>2. CASE Tick
  <2>1. now' = now + 1 /\ now \in 0..End /\ now < End /\ End \in Nat
    BY <1>1, <1>2, PremiumAssumption DEF Tick, IInv, Types
  <2>2. UNCHANGED <<commands, recorded, paid, trial, expired, pc, op, payment, at, base, seen>>
    BY <1>2 DEF Tick, rows, locals
  <2>3. Types'
    BY <1>1, <2>1, <2>2 DEF IInv, Types
  <2>4. ASSUME NEW w \in Workers PROVE Reliable(w)'
    <3>1. at[w] \in 0..End /\ at[w] <= now /\ (trial # NoRow => trial \in Nat)
      BY <1>1 DEF IInv, Types, Reliable
    <3>2. QED BY <1>1, <2>1, <2>2, <3>1 DEF IInv, Reliable
  <2>5. ExpiryIsFinal'
    <3>1. trial # NoRow => trial \in Nat
      BY <1>1 DEF IInv, Types
    <3>2. QED BY <1>1, <2>1, <2>2, <3>1 DEF IInv, ExpiryIsFinal
  <2>6. Exclusive' /\ \A w \in Workers : InPlace(w)'
    BY <1>1, <2>2 DEF IInv, Exclusive, Compatible, HoldsUser, SharesUser, HoldsPaid, HoldsTrial, InPlace
  <2>7. QED BY <2>3, <2>4, <2>5, <2>6 DEF IInv
<1>3. CASE \E w \in Workers : Move(w)
  <2>1. PICK w \in Workers : Move(w)
    BY <1>3
  <2>2. /\ Types /\ Exclusive /\ ExpiryIsFinal
        /\ \A v \in Workers : InPlace(v) /\ Reliable(v)
    BY <1>1 DEF IInv
  <2>3. Types' /\ OthersStay(w)
    BY <2>1, <2>2, MoveTypes
  <2>4. Exclusive'
    BY <2>1, <2>2, MoveExclusive
  <2>5. ASSUME NEW v \in Workers PROVE InPlace(v)' /\ Reliable(v)'
    <3>1. CASE v = w
      BY <2>1, <2>2, <3>1, MovePlaces, MoverReliable
    <3>2. CASE v # w
      <4>1. InPlace(v)' BY <2>2, <2>3, <3>2 DEF OthersStay, InPlace
      <4>2. Reliable(v)' BY <2>1, <2>2, <3>2, OthersReliable
      <4>3. QED BY <4>1, <4>2
    <3>3. QED BY <3>1, <3>2
  <2>6. ExpiryIsFinal'
    BY <2>1, <2>2, MoveFinal
  <2>7. QED BY <2>3, <2>4, <2>5, <2>6 DEF IInv
<1>4. CASE UNCHANGED vars
  BY <1>1, <1>4
  DEF vars, rows, locals, IInv, Types, Exclusive, Compatible, HoldsUser, SharesUser, HoldsPaid,
      HoldsTrial, InPlace, Reliable, ExpiryIsFinal
<1>5. QED BY <1>1, <1>2, <1>3, <1>4, NextMoves

\* Every behaviour satisfies the inductive invariant.
LEMMA Inductive == Spec => []IInv
  BY InitIInv, NextIInv, PTL DEF Spec

\* Every variable keeps its type, and no two transactions hold conflicting
\* locks of the user, the subscription or the trial.
THEOREM TypeCorrect == Spec => []TypeOK
<1>1. IInv => TypeOK
  BY DEF IInv, Types, TypeOK, Exclusive, Compatible
<1>2. QED BY <1>1, Inductive, PTL

\* A recorded expiry is final, although a revocation and the job overlap.
THEOREM ExpiredTrialIsOver == Spec => []ExpiryIsFinal
<1>1. IInv => ExpiryIsFinal
  BY DEF IInv
<1>2. QED BY <1>1, Inductive, PTL

\* A worker that credits a payment commits it.
LEMMA CreditsCommits ==
    ASSUME IInv, [Next]_vars, NEW w \in Workers, Credits(w)
    PROVE  CommitPayment(w)
<1>1. pc[w] = "commit" /\ op[w] = "pay" /\ pc'[w] = "idle" /\ paid' # paid
  BY DEF Credits
<1>2. ~UNCHANGED vars /\ ~Tick
  BY <1>1 DEF vars, Tick
<1>3. PICK v \in Workers : Move(v)
  BY <1>2, NextMoves
<1>4. v = w
  <2>1. OthersStay(v) BY <1>3, MoveTypes DEF IInv
  <2>2. QED BY <1>1, <2>1 DEF OthersStay
<1>5. QED
  BY <1>1, <1>3, <1>4
  DEF Move, Step, Handle, RunJob, Start, Abort, CheckPayment, LockUser, InsertPayment, LockPaid,
      CheckTrial, CommitTrial, ReadPlan, WritePaid, CommitGrant, CommitRevoke, LockTrial,
      InsertEvent, CommitExpire, rows

\* However often and wherever the update of a payment is handled, access is
\* extended for it once.
THEOREM PaidOnce == Spec => CreditedOnce
<1>1. ASSUME IInv, [Next]_vars, NEW w \in Workers, Credits(w)
      PROVE  payment[w] \in recorded' \ recorded
  <2>1. CommitPayment(w) BY <1>1, CreditsCommits
  <2>2. payment[w] \notin recorded BY <1>1, <2>1 DEF IInv, Reliable, CommitPayment
  <2>3. QED BY <2>1, <2>2 DEF CommitPayment
<1>2. IInv /\ [Next]_vars => [\A w \in Workers : Credits(w) => payment[w] \in recorded' \ recorded]_vars
  BY <1>1
<1>3. QED BY <1>2, Inductive, PTL DEF CreditedOnce, Spec

\* No payment overwrites what was paid or granted while it was recorded.
THEOREM NothingPaidIsLost == Spec => CreditAddsUp
<1>1. ASSUME IInv, [Next]_vars, NEW w \in Workers, Credits(w)
      PROVE  paid' >= Later(at[w], paid) + Period
  <2>1. CommitPayment(w) BY <1>1, CreditsCommits
  <2>2. paid' = Later(at[w], paid) + Period
    BY <1>1, <2>1 DEF IInv, Reliable, CommitPayment
  <2>3. Later(at[w], base[w]) + Period \in Nat /\ base[w] = paid
    BY <1>1, <2>1, Numbers DEF IInv, Reliable, CommitPayment
  <2>4. QED BY <2>2, <2>3
<1>2. IInv /\ [Next]_vars =>
        [\A w \in Workers : Credits(w) => paid' >= Later(at[w], paid) + Period]_vars
  BY <1>1
<1>3. QED BY <1>2, Inductive, PTL DEF CreditAddsUp, Spec

\* A user who paid, or was given access, never uses up the trial.
THEOREM TrialKept == Spec => TrialOnlyUnpaid
<1>1. ASSUME IInv, [Next]_vars, trial = NoRow, trial' # NoRow
      PROVE  paid = NoRow
  <2>1. ~UNCHANGED vars /\ ~Tick
    BY <1>1 DEF vars, Tick, rows
  <2>2. PICK w \in Workers : Move(w)
    BY <1>1, <2>1, NextMoves
  <2>3. CommitTrial(w) \/ (CommitRevoke(w) /\ seen[w])
    BY <1>1, <2>2
    DEF Move, Step, Handle, RunJob, Start, Abort, CheckPayment, LockUser, InsertPayment, LockPaid,
        CommitPayment, CheckTrial, ReadPlan, WritePaid, CommitGrant, CommitRevoke, LockTrial,
        InsertEvent, CommitExpire, rows
  <2>4. ~seen[w]
    BY <1>1 DEF IInv, Reliable
  <2>5. QED BY <1>1, <2>3, <2>4 DEF IInv, Reliable, CommitTrial
<1>2. QED BY <1>1, Inductive, PTL DEF TrialOnlyUnpaid, Spec

\* Whoever handles it, and however often, a payment extends access once and from
\* the end of what it had (activate_user_premium_with_payment_values).
THEOREM PaymentsAreCredited == Spec => PaymentsCredited
BY PaidOnce, NothingPaidIsLost, PTL DEF PaymentsCredited

=============================================================================
