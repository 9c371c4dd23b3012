--------------------------- MODULE DeliveryProofs ---------------------------
(***************************************************************************)
(* What Delivery guarantees for every number of users, messages, workers   *)
(* and processes.  RowInv carries idempotence and needs no lock; LockInv   *)
(* carries the spacing of messages and needs the advisory lock to be held  *)
(* for as long as its session lives.                                       *)
(***************************************************************************)
EXTENDS Delivery, TLAPS

(***************************************************************************)
(* Type correctness.                                                       *)
(***************************************************************************)

LEMMA TypeInit == Init => TypeOK
<1> SUFFICES ASSUME Init PROVE TypeOK
  OBVIOUS
<1>1. AnyMessage \in Messages /\ (CHOOSE u \in Users : TRUE) \in Users
  BY DeliveryAssumption DEF AnyMessage
<1>2. msg \in [Workers -> Messages] /\ target \in [Workers -> Users]
  BY <1>1 DEF Init
<1>3. attempt \in [Workers -> 1..MaxAttempts]
  BY DeliveryAssumption DEF Init
<1> QED
  BY <1>2, <1>3 DEF Init, TypeOK, Statuses, Results, Points, InProcessLock

LEMMA RowType == TypeOK => \A w \in Workers : Row(w) \in Deliveries
BY DEF TypeOK, Row, Deliveries

\* What the two helpers of the send actions do to the types.
LEMMA RetryOrFailType ==
  ASSUME NEW w \in Workers, TypeOK, RetryOrFail(w)
  PROVE  /\ pc' \in [Workers -> Points] /\ result' \in [Workers -> Results]
         /\ \A v \in Workers : pc'[v] = "backoff" => attempt[v] < MaxAttempts
BY DeliveryAssumption DEF TypeOK, RetryOrFail, Return, Goto, Points, InProcessLock, Locked, Reserved,
       Sending, Results

LEMMA MaybeDeliverType ==
  ASSUME NEW w \in Workers, TypeOK, MaybeDeliver(w)
  PROVE  accepted' \in [Deliveries -> Nat]
BY RowType DEF TypeOK, MaybeDeliver, Deliver

LEMMA TypeStep == TypeOK /\ [Next]_vars => TypeOK'
<1> SUFFICES ASSUME TypeOK, [Next]_vars PROVE TypeOK'
  OBVIOUS
<1> USE DeliveryAssumption
<1>0. AnyMessage \in Messages
  BY DEF AnyMessage
<1>r. \A w \in Workers : Row(w) \in Deliveries
  BY RowType
<1>1. ASSUME NEW w \in Workers, NEW m \in Messages, StartFanOut(w, m) PROVE TypeOK'
  BY <1>1 DEF TypeOK, StartFanOut, Goto, Points, InProcessLock, userVars, rowVars, chatVars
<1>2. ASSUME NEW w \in Workers, NextRecipient(w) PROVE TypeOK'
  BY <1>2 DEF TypeOK, NextRecipient, Goto, Points, userVars, rowVars, chatVars
<1>3. ASSUME NEW w \in Workers, EndFanOut(w) PROVE TypeOK'
  BY <1>0, <1>3 DEF TypeOK, EndFanOut, Goto, Points, userVars, rowVars, chatVars
<1>4. ASSUME NEW w \in Workers, AcquireProcessLock(w) PROVE TypeOK'
  BY <1>4 DEF TypeOK, AcquireProcessLock, Goto, Points, InProcessLock,
              userVars, rowVars, workVars, chatVars
<1>5. ASSUME NEW w \in Workers, AcquireAdvisoryLock(w) PROVE TypeOK'
  BY <1>5 DEF TypeOK, AcquireAdvisoryLock, Goto, Points, InProcessLock, Locked,
              userVars, rowVars, workVars, chatVars
<1>6. ASSUME NEW w \in Workers, Release(w) PROVE TypeOK'
  <2>1. attempt' \in [Workers -> 1..MaxAttempts]
    BY <1>6 DEF TypeOK, Release
  <2>2. \A v \in Workers : pc'[v] = "backoff" => attempt'[v] < MaxAttempts
    BY <1>6 DEF TypeOK, Release, Goto
  <2>3. advisory' \in [Users -> Workers \cup {NoWorker}] /\ todo' \in [Workers -> SUBSET Users]
    BY <1>6 DEF TypeOK, Release
  <2> QED
    BY <1>6, <2>1, <2>2, <2>3 DEF TypeOK, Release, Goto, Points, Results,
       userVars, rowVars, chatVars
<1>7. ASSUME NEW w \in Workers, Recheck(w) PROVE TypeOK'
  BY <1>7 DEF TypeOK, Recheck, Goto, Points, InProcessLock, Locked,
              userVars, rowVars, workVars, chatVars
<1>8. ASSUME NEW w \in Workers, Reserve(w) PROVE TypeOK'
  BY <1>8, <1>r DEF TypeOK, Reserve, Goto, FirstTransport, Statuses, Points, InProcessLock,
              Locked, Reserved, Sending, userVars, workVars, chatVars
<1>9. ASSUME NEW w \in Workers, SendRich(w) PROVE TypeOK'
  <2>1. /\ pc' \in [Workers -> Points] /\ result' \in [Workers -> Results]
        /\ \A v \in Workers : pc'[v] = "backoff" => attempt[v] < MaxAttempts
    BY <1>9, RetryOrFailType DEF SendRich, TypeOK, Return, Goto, Points, InProcessLock,
       Locked, Reserved, Sending, Results
  <2>2. accepted' \in [Deliveries -> Nat]
    BY <1>9, MaybeDeliverType, <1>r DEF SendRich, TypeOK, Deliver
  <2> QED BY <1>9, <2>1, <2>2 DEF SendRich, TypeOK, userVars, rowVars
<1>10. ASSUME NEW w \in Workers, SendHtml(w) PROVE TypeOK'
  <2>1. /\ pc' \in [Workers -> Points] /\ result' \in [Workers -> Results]
        /\ \A v \in Workers : pc'[v] = "backoff" => attempt[v] < MaxAttempts
    BY <1>10, RetryOrFailType DEF SendHtml, TypeOK, Return, Goto, Points, InProcessLock,
       Locked, Reserved, Sending, Results
  <2>2. accepted' \in [Deliveries -> Nat]
    <3>1. MaybeDeliver(w)
      BY <1>10 DEF SendHtml, MaybeDeliver, chatVars
    <3> QED BY <3>1, MaybeDeliverType
  <2>3. unacked' \in [Deliveries -> BOOLEAN]
    BY <1>10 DEF SendHtml, TypeOK, chatVars
  <2> QED BY <1>10, <2>1, <2>2, <2>3 DEF SendHtml, TypeOK, userVars, rowVars
<1>11. ASSUME NEW w \in Workers, SendPlain(w) PROVE TypeOK'
  <2>1. /\ pc' \in [Workers -> Points] /\ result' \in [Workers -> Results]
        /\ \A v \in Workers : pc'[v] = "backoff" => attempt[v] < MaxAttempts
    BY <1>11, RetryOrFailType DEF SendPlain, TypeOK, Return, Goto, Points, InProcessLock,
       Locked, Reserved, Sending, Results
  <2>2. accepted' \in [Deliveries -> Nat]
    <3>1. MaybeDeliver(w)
      BY <1>11 DEF SendPlain, MaybeDeliver, chatVars
    <3> QED BY <3>1, MaybeDeliverType
  <2>3. unacked' \in [Deliveries -> BOOLEAN]
    BY <1>11 DEF SendPlain, TypeOK, chatVars
  <2> QED BY <1>11, <2>1, <2>2, <2>3 DEF SendPlain, TypeOK, userVars, rowVars
<1>12. ASSUME NEW w \in Workers, Backoff(w) PROVE TypeOK'
  <2>1. attempt' \in [Workers -> 1..MaxAttempts]
    BY <1>12 DEF Backoff, TypeOK
  <2> QED
    BY <1>12, <2>1, <1>r DEF TypeOK, Backoff, Goto, FirstTransport, Statuses, Points,
                InProcessLock, Locked, Reserved, Sending, userVars, chatVars
<1>13. ASSUME NEW w \in Workers, Record(w) PROVE TypeOK'
  <2>1. status' \in [Deliveries -> Statuses] /\ sentAt' \in [Deliveries -> Nat]
    <3>1. {"sent", "failed"} \subseteq Statuses
      BY DEF Statuses
    <3>2. /\ sentAt' = sentAt \/ sentAt' = [sentAt EXCEPT ![Row(w)] = now]
          /\ \E s \in {"sent", "failed"} : status' = [status EXCEPT ![Row(w)] = s]
      BY <1>13 DEF Record
    <3> QED BY <1>r, <3>1, <3>2 DEF TypeOK
  <2>2. finalFailed' \in [Deliveries -> BOOLEAN]
    BY <1>13, <1>r, Zenon DEF TypeOK, Record
  <2> QED
    BY <1>13, <2>1, <2>2 DEF TypeOK, Record, Goto, Points, InProcessLock, Locked,
       userVars, workVars, chatVars
<1>14. ASSUME NEW w \in Workers, Disable(w) PROVE TypeOK'
  BY <1>14 DEF TypeOK, Disable, Goto, Points, InProcessLock, Locked,
               rowVars, workVars, chatVars
<1>15. ASSUME NEW w \in Workers, Abort(w) PROVE TypeOK'
  <2>1. attempt' \in [Workers -> 1..MaxAttempts]
    BY <1>15 DEF TypeOK, Abort
  <2>2. \A v \in Workers : pc'[v] = "backoff" => attempt'[v] < MaxAttempts
    BY <1>15 DEF TypeOK, Abort, Goto
  <2>3. advisory' \in [Users -> Workers \cup {NoWorker}]
    BY <1>15 DEF TypeOK, Abort
  <2>4. /\ todo' \in [Workers -> SUBSET Users] /\ msg' \in [Workers -> Messages]
        /\ result' \in [Workers -> Results] /\ pc' \in [Workers -> Points]
    BY <1>0, <1>15 DEF TypeOK, Abort, Goto, Points, Results
  <2> QED
    BY <1>15, <2>1, <2>2, <2>3, <2>4 DEF TypeOK, Abort, Goto,
       userVars, rowVars, chatVars
<1>16. ASSUME NEW p \in Processes, Crash(p) PROVE TypeOK'
  BY <1>0, <1>16 DEF TypeOK, Crash, Points, Results, userVars, rowVars, chatVars
<1>17. ASSUME NEW u \in Users, DropSession(u) PROVE TypeOK'
  BY <1>17 DEF TypeOK, DropSession, userVars, rowVars, workVars, chatVars
<1>18. ASSUME NEW u \in Users, SetEnabled(u) \/ BlockedElsewhere(u) PROVE TypeOK'
  <2>1. enabled' \in [Users -> BOOLEAN]
    BY <1>18, Zenon DEF TypeOK, SetEnabled, BlockedElsewhere
  <2>2. reachable' \in [Users -> BOOLEAN]
    BY <1>18, Zenon DEF TypeOK, SetEnabled, BlockedElsewhere
  <2>3. activated' \in [Users -> Nat]
    BY <1>18 DEF TypeOK, SetEnabled, BlockedElsewhere
  <2> QED
    BY <1>18, <2>1, <2>2, <2>3 DEF TypeOK, SetEnabled, BlockedElsewhere, rowVars, workVars, chatVars
<1>19. CASE Tick
  BY <1>19 DEF TypeOK, Tick, userVars, rowVars, workVars, chatVars
<1>20. CASE UNCHANGED vars
  BY <1>20 DEF TypeOK, vars, userVars, rowVars, workVars, chatVars
<1> QED
  BY <1>1, <1>2, <1>3, <1>4, <1>5, <1>6, <1>7, <1>8, <1>9, <1>10, <1>11, <1>12, <1>13,
     <1>14, <1>15, <1>16, <1>17, <1>18, <1>19, <1>20 DEF Next, WorkerStep

\* Every behaviour is well typed: no step leaves a row, a lock or a worker in
\* a state the code has no name for, and no send attempt exceeds the limit.
THEOREM TypeCorrect == Spec => []TypeOK
BY TypeInit, TypeStep, PTL DEF Spec

-----------------------------------------------------------------------------
(***************************************************************************)
(* Idempotence.  A reservation has one owner; before the owner is done     *)
(* sending nothing was accepted, or something went unanswered.             *)
(***************************************************************************)

OwnsRow == \A w \in Workers :
    pc[w] \in Reserved => status[Row(w)] \in {"pending", "retry_pending"}

OneOwner == \A v, w \in Workers :
    v # w /\ pc[v] \in Reserved /\ pc[w] \in Reserved => Row(v) # Row(w)

NothingAcceptedYet == \A w \in Workers :
    pc[w] \in Sending => accepted[Row(w)] = 0 \/ unacked[Row(w)]

AcknowledgedWasAccepted == \A w \in Workers :
    pc[w] = "record" /\ result[w] = "sent" => accepted[Row(w)] > 0

UnreservedNotAccepted == \A d \in Deliveries : status[d] = "none" => accepted[d] = 0

FailedIsFinal == \A d \in Deliveries : status[d] = "failed" => finalFailed[d]

RowInv ==
    /\ OwnsRow /\ OneOwner
    /\ NothingAcceptedYet /\ AcknowledgedWasAccepted
    /\ UnreservedNotAccepted /\ FailedIsFinal
    /\ NoDuplicateUnlessUnacked /\ SentWasAccepted

LEMMA RowInit == Init => RowInv
<1> SUFFICES ASSUME Init PROVE RowInv
  OBVIOUS
<1>1. /\ \A w \in Workers : pc[w] = "idle"
      /\ \A d \in Deliveries : status[d] = "none" /\ accepted[d] = 0
  BY DEF Init
<1> QED
  BY <1>1 DEF RowInv, OwnsRow, OneOwner, NothingAcceptedYet, AcknowledgedWasAccepted,
     UnreservedNotAccepted, FailedIsFinal, NoDuplicateUnlessUnacked, SentWasAccepted,
     Reserved, Sending

\* A step that leaves rows and chats alone, and gives no worker a reservation.
LEMMA RowKept ==
  ASSUME TypeOK, RowInv,
         UNCHANGED <<status, finalFailed, accepted, unacked>>,
         \A w \in Workers : pc'[w] \in Reserved =>
            pc'[w] = pc[w] /\ Row(w)' = Row(w) /\ result'[w] = result[w]
  PROVE  RowInv'
<1>1. OwnsRow' BY DEF RowInv, OwnsRow
<1>2. OneOwner' BY DEF RowInv, OneOwner
<1>3. NothingAcceptedYet' BY DEF RowInv, NothingAcceptedYet, Reserved
<1>4. AcknowledgedWasAccepted' BY DEF RowInv, AcknowledgedWasAccepted, Reserved
<1>5. (UnreservedNotAccepted /\ FailedIsFinal /\ NoDuplicateUnlessUnacked /\ SentWasAccepted)'
  BY DEF RowInv, UnreservedNotAccepted, FailedIsFinal, NoDuplicateUnlessUnacked, SentWasAccepted
<1> QED BY <1>1, <1>2, <1>3, <1>4, <1>5 DEF RowInv

\* A send: the worker keeps its reservation, and Telegram accepts at most one
\* message, which it acknowledges or leaves unanswered.
LEMMA RowSend ==
  ASSUME TypeOK, RowInv, NEW w \in Workers, pc[w] \in Sending,
         UNCHANGED <<status, finalFailed, msg, target>>,
         NEW point \in Reserved, pc' = [pc EXCEPT ![w] = point],
         \A v \in Workers : v # w => result'[v] = result[v],
         \/ /\ accepted' = accepted
            /\ unacked' = unacked \/ unacked' = [unacked EXCEPT ![Row(w)] = TRUE]
            /\ point = "record" => result'[w] # "sent"
         \/ /\ accepted' = [accepted EXCEPT ![Row(w)] = @ + 1]
            /\ unacked' = [unacked EXCEPT ![Row(w)] = TRUE]
         \/ /\ accepted' = [accepted EXCEPT ![Row(w)] = @ + 1]
            /\ unacked' = unacked
            /\ point = "record"
  PROVE  RowInv'
<1>1. \A v \in Workers : Row(v) \in Deliveries /\ Row(v)' = Row(v)
  BY RowType DEF Row
<1>2. \A v \in Workers : v # w => pc'[v] = pc[v]
  BY DEF TypeOK
<1>3. pc'[w] = point /\ pc[w] \in Reserved
  BY DEF TypeOK, Reserved
<1>4. \A v \in Workers : v # w /\ pc[v] \in Reserved => Row(v) # Row(w)
  BY <1>3 DEF RowInv, OneOwner
<1>5. \A d \in Deliveries : d # Row(w) => accepted'[d] = accepted[d] /\ unacked'[d] = unacked[d]
  BY DEF TypeOK
<1>6. accepted[Row(w)] = 0 \/ unacked[Row(w)]
  BY DEF RowInv, NothingAcceptedYet
<1>7. \/ accepted'[Row(w)] = accepted[Row(w)] /\ (point = "record" => result'[w] # "sent")
      \/ accepted'[Row(w)] = accepted[Row(w)] + 1 /\ (point = "record" \/ unacked'[Row(w)])
  BY <1>1 DEF TypeOK
<1>8. unacked[Row(w)] => unacked'[Row(w)]
  BY <1>1 DEF TypeOK
<1>9. \A d \in Deliveries :
        accepted[d] \in Nat /\ accepted'[d] \in Nat /\ accepted'[d] >= accepted[d]
  BY <1>1, <1>5, <1>7 DEF TypeOK
<1>10. OwnsRow'
  BY <1>1, <1>2, <1>3 DEF RowInv, OwnsRow
<1>11. OneOwner'
  BY <1>1, <1>2, <1>3 DEF RowInv, OneOwner
<1>12. NothingAcceptedYet'
  <2>1. pc'[w] \in Sending => accepted'[Row(w)] = 0 \/ unacked'[Row(w)]
    BY <1>1, <1>3, <1>6, <1>7, <1>8 DEF Sending
  <2>2. ASSUME NEW v \in Workers, v # w, pc'[v] \in Sending
        PROVE  accepted'[Row(v)] = 0 \/ unacked'[Row(v)]
    BY <2>2, <1>1, <1>2, <1>4, <1>5 DEF RowInv, NothingAcceptedYet, Reserved
  <2> QED BY <2>1, <2>2, <1>1 DEF NothingAcceptedYet
<1>13. AcknowledgedWasAccepted'
  <2>1. pc'[w] = "record" /\ result'[w] = "sent" => accepted'[Row(w)] > 0
    BY <1>1, <1>3, <1>7, <1>9
  <2>2. ASSUME NEW v \in Workers, v # w, pc'[v] = "record", result'[v] = "sent"
        PROVE  accepted'[Row(v)] > 0
    BY <2>2, <1>1, <1>2, <1>4, <1>5 DEF RowInv, AcknowledgedWasAccepted, Reserved
  <2> QED BY <2>1, <2>2, <1>1 DEF AcknowledgedWasAccepted
<1>14. UnreservedNotAccepted'
  <2>1. status[Row(w)] # "none"
    BY <1>3 DEF RowInv, OwnsRow
  <2> QED BY <2>1, <1>5 DEF RowInv, UnreservedNotAccepted
<1>15. NoDuplicateUnlessUnacked'
  <2>1. accepted'[Row(w)] > 1 => unacked'[Row(w)]
    BY <1>1, <1>6, <1>7, <1>8, <1>9
  <2> QED BY <2>1, <1>5 DEF RowInv, NoDuplicateUnlessUnacked
<1>16. SentWasAccepted' /\ FailedIsFinal'
  BY <1>9 DEF RowInv, SentWasAccepted, FailedIsFinal
<1> QED BY <1>10, <1>11, <1>12, <1>13, <1>14, <1>15, <1>16 DEF RowInv

LEMMA RowStep == TypeOK /\ RowInv /\ [Next]_vars => RowInv'
<1> SUFFICES ASSUME TypeOK, RowInv, [Next]_vars PROVE RowInv'
  OBVIOUS
<1>r. \A w \in Workers : Row(w) \in Deliveries
  BY RowType
<1>1. ASSUME NEW w \in Workers, NEW m \in Messages, StartFanOut(w, m) PROVE RowInv'
  BY <1>1, RowKept DEF TypeOK, StartFanOut, Goto, Row, Reserved, Sending, rowVars, chatVars
<1>2. ASSUME NEW w \in Workers, NextRecipient(w) PROVE RowInv'
  BY <1>2, RowKept DEF TypeOK, NextRecipient, Goto, Row, Reserved, Sending, rowVars, chatVars
<1>3. ASSUME NEW w \in Workers, EndFanOut(w) PROVE RowInv'
  BY <1>3, RowKept DEF TypeOK, EndFanOut, Goto, Row, Reserved, Sending, rowVars, chatVars
<1>4. ASSUME NEW w \in Workers, AcquireProcessLock(w) \/ AcquireAdvisoryLock(w) PROVE RowInv'
  BY <1>4, RowKept DEF TypeOK, AcquireProcessLock, AcquireAdvisoryLock, Goto, Row, Reserved,
     Sending, rowVars, workVars, chatVars
<1>5. ASSUME NEW w \in Workers, Release(w) PROVE RowInv'
  BY <1>5, RowKept DEF TypeOK, Release, Goto, Row, Reserved, Sending, rowVars, chatVars
<1>6. ASSUME NEW w \in Workers, Recheck(w) \/ Disable(w) PROVE RowInv'
  BY <1>6, RowKept DEF TypeOK, Recheck, Disable, Goto, Row, Reserved, Sending,
     rowVars, workVars, chatVars
<1>7. ASSUME NEW w \in Workers, Reserve(w) PROVE RowInv'
  <2>1. CASE MayReserve(Row(w))
    <3>1. status[Row(w)] = "none"
      BY <2>1, <1>r DEF MayReserve, RowInv, FailedIsFinal
    <3>2. /\ status' = [status EXCEPT ![Row(w)] = "pending"]
          /\ finalFailed' = [finalFailed EXCEPT ![Row(w)] = FALSE]
          /\ UNCHANGED <<msg, target, result, accepted, unacked>>
          /\ pc' = [pc EXCEPT ![w] = FirstTransport(w)]
      BY <1>7, <2>1 DEF Reserve, Goto, workVars, chatVars
    <3>3. \A v \in Workers : Row(v)' = Row(v)
      BY <3>2 DEF Row
    <3>4. \A v \in Workers : v # w => pc'[v] = pc[v]
      BY <3>2 DEF TypeOK
    <3>5. \A v \in Workers : v # w /\ pc[v] \in Reserved => Row(v) # Row(w)
      BY <3>1, <1>r DEF RowInv, OwnsRow
    <3>6. pc'[w] \in {"rich", "html"}
      BY <3>2 DEF TypeOK, FirstTransport
    <3>7. \A d \in Deliveries : d # Row(w) => status'[d] = status[d] /\ finalFailed'[d] = finalFailed[d]
      BY <3>2 DEF TypeOK
    <3>8. status'[Row(w)] = "pending"
      BY <3>2, <1>r DEF TypeOK
    <3>9. OwnsRow'
      BY <3>3, <3>4, <3>5, <3>7, <3>8, <1>r DEF RowInv, OwnsRow
    <3>10. OneOwner'
      BY <3>3, <3>4, <3>5 DEF RowInv, OneOwner
    <3>11. NothingAcceptedYet'
      BY <3>1, <3>2, <3>3, <3>4, <1>r DEF RowInv, NothingAcceptedYet, UnreservedNotAccepted
    <3>12. AcknowledgedWasAccepted'
      BY <3>2, <3>3, <3>4, <3>6 DEF RowInv, AcknowledgedWasAccepted
    <3>13. (UnreservedNotAccepted /\ FailedIsFinal /\ NoDuplicateUnlessUnacked
            /\ SentWasAccepted)'
      BY <3>2, <3>7, <3>8 DEF RowInv, UnreservedNotAccepted, FailedIsFinal,
         NoDuplicateUnlessUnacked, SentWasAccepted
    <3> QED BY <3>9, <3>10, <3>11, <3>12, <3>13 DEF RowInv
  <2>2. CASE ~MayReserve(Row(w))
    BY <1>7, <2>2, RowKept DEF TypeOK, Reserve, Goto, Row, Reserved, Sending,
       rowVars, workVars, chatVars
  <2> QED BY <2>1, <2>2
<1>8. ASSUME NEW w \in Workers, SendRich(w) PROVE RowInv'
  <2>1. \A v \in Workers : v # w => result'[v] = result[v]
    BY <1>8 DEF SendRich, RetryOrFail, Return, TypeOK
  <2>2. \E point \in Reserved :
          /\ pc' = [pc EXCEPT ![w] = point]
          /\ \/ accepted' = accepted /\ (point = "record" => result'[w] # "sent")
             \/ accepted' = [accepted EXCEPT ![Row(w)] = @ + 1] /\ point = "record"
    BY <1>8 DEF SendRich, RetryOrFail, Return, Goto, Deliver, MaybeDeliver, TypeOK,
       Reserved, Sending
  <2> QED
    BY <1>8, <2>1, <2>2, RowSend DEF SendRich, rowVars, Sending
<1>9. ASSUME NEW w \in Workers, SendHtml(w) PROVE RowInv'
  <2>1. \A v \in Workers : v # w => result'[v] = result[v]
    BY <1>9 DEF SendHtml, RetryOrFail, Return, TypeOK
  <2>2. \E point \in Reserved :
          /\ pc' = [pc EXCEPT ![w] = point]
          /\ \/ /\ accepted' = accepted
                /\ unacked' = unacked \/ unacked' = [unacked EXCEPT ![Row(w)] = TRUE]
                /\ point = "record" => result'[w] # "sent"
             \/ /\ accepted' = [accepted EXCEPT ![Row(w)] = @ + 1]
                /\ unacked' = [unacked EXCEPT ![Row(w)] = TRUE]
             \/ /\ accepted' = [accepted EXCEPT ![Row(w)] = @ + 1]
                /\ unacked' = unacked
                /\ point = "record"
    BY <1>9 DEF SendHtml, RetryOrFail, Return, Goto, Deliver, MaybeDeliver, TypeOK,
       Reserved, Sending, chatVars
  <2> QED
    BY <1>9, <2>1, <2>2, RowSend DEF SendHtml, rowVars, Sending
<1>10. ASSUME NEW w \in Workers, SendPlain(w) PROVE RowInv'
  <2>1. \A v \in Workers : v # w => result'[v] = result[v]
    BY <1>10 DEF SendPlain, RetryOrFail, Return, TypeOK
  <2>2. \E point \in Reserved :
          /\ pc' = [pc EXCEPT ![w] = point]
          /\ \/ /\ accepted' = accepted
                /\ unacked' = unacked \/ unacked' = [unacked EXCEPT ![Row(w)] = TRUE]
                /\ point = "record" => result'[w] # "sent"
             \/ /\ accepted' = [accepted EXCEPT ![Row(w)] = @ + 1]
                /\ unacked' = [unacked EXCEPT ![Row(w)] = TRUE]
             \/ /\ accepted' = [accepted EXCEPT ![Row(w)] = @ + 1]
                /\ unacked' = unacked
                /\ point = "record"
    BY <1>10 DEF SendPlain, RetryOrFail, Return, Goto, Deliver, MaybeDeliver, TypeOK,
       Reserved, Sending, chatVars
  <2> QED
    BY <1>10, <2>1, <2>2, RowSend DEF SendPlain, rowVars, Sending
<1>11. ASSUME NEW w \in Workers, Backoff(w) PROVE RowInv'
  <2>1. \A v \in Workers : Row(v)' = Row(v)
    BY <1>11 DEF Backoff, Row
  <2>2. \A v \in Workers : v # w => pc'[v] = pc[v]
    BY <1>11 DEF Backoff, Goto, TypeOK
  <2>3. pc[w] = "backoff" /\ pc'[w] \in {"rich", "html"}
    BY <1>11 DEF Backoff, Goto, TypeOK, FirstTransport
  <2>4. status'[Row(w)] = "retry_pending"
    BY <1>11, <1>r DEF Backoff, TypeOK
  <2>5. \A d \in Deliveries : d # Row(w) => status'[d] = status[d]
    BY <1>11 DEF Backoff, TypeOK
  <2>6. UNCHANGED <<finalFailed, result, accepted, unacked>>
    BY <1>11 DEF Backoff, chatVars
  <2>7. OwnsRow'
    BY <1>r, <2>1, <2>2, <2>3, <2>4, <2>5 DEF RowInv, OwnsRow
  <2>8. OneOwner'
    BY <2>1, <2>2, <2>3 DEF RowInv, OneOwner, Reserved, Sending
  <2>9. NothingAcceptedYet' /\ AcknowledgedWasAccepted'
    BY <2>1, <2>2, <2>3, <2>6 DEF RowInv, NothingAcceptedYet, AcknowledgedWasAccepted, Sending
  <2>10. (UnreservedNotAccepted /\ FailedIsFinal /\ NoDuplicateUnlessUnacked
          /\ SentWasAccepted)'
    BY <2>4, <2>5, <2>6 DEF RowInv, UnreservedNotAccepted, FailedIsFinal,
       NoDuplicateUnlessUnacked, SentWasAccepted
  <2> QED BY <2>7, <2>8, <2>9, <2>10 DEF RowInv
<1>12. ASSUME NEW w \in Workers, Record(w) PROVE RowInv'
  <2>1. \A v \in Workers : Row(v)' = Row(v)
    BY <1>12 DEF Record, Row, workVars
  <2>2. \A v \in Workers : v # w => pc'[v] = pc[v]
    BY <1>12 DEF Record, Goto, TypeOK
  <2>3. pc[w] = "record" /\ pc'[w] \notin Reserved
    BY <1>12 DEF Record, Goto, TypeOK, Reserved, Sending
  <2>4. \A v \in Workers : v # w /\ pc[v] \in Reserved => Row(v) # Row(w)
    BY <2>3 DEF RowInv, OneOwner, Reserved
  <2>5. \A d \in Deliveries : d # Row(w) => status'[d] = status[d] /\ finalFailed'[d] = finalFailed[d]
    BY <1>12 DEF Record, TypeOK
  <2>6. \/ status'[Row(w)] = "sent" /\ accepted[Row(w)] > 0
        \/ status'[Row(w)] = "failed" /\ finalFailed'[Row(w)]
    BY <1>12, <1>r, <2>3 DEF Record, TypeOK, RowInv, AcknowledgedWasAccepted
  <2>7. UNCHANGED <<result, accepted, unacked>>
    BY <1>12 DEF Record, workVars, chatVars
  <2>8. OwnsRow' /\ OneOwner'
    BY <1>r, <2>1, <2>2, <2>3, <2>4, <2>5 DEF RowInv, OwnsRow, OneOwner
  <2>9. NothingAcceptedYet' /\ AcknowledgedWasAccepted'
    BY <2>1, <2>2, <2>3, <2>7 DEF RowInv, NothingAcceptedYet, AcknowledgedWasAccepted, Reserved
  <2>10. (UnreservedNotAccepted /\ FailedIsFinal /\ NoDuplicateUnlessUnacked
          /\ SentWasAccepted)'
    BY <2>5, <2>6, <2>7 DEF RowInv, UnreservedNotAccepted, FailedIsFinal,
       NoDuplicateUnlessUnacked, SentWasAccepted
  <2> QED BY <2>8, <2>9, <2>10 DEF RowInv
<1>13. ASSUME NEW w \in Workers, Abort(w) PROVE RowInv'
  BY <1>13, RowKept DEF TypeOK, Abort, Goto, Row, Reserved, Sending, rowVars, chatVars
<1>14. ASSUME NEW p \in Processes, Crash(p) PROVE RowInv'
  BY <1>14, RowKept DEF TypeOK, Crash, Row, Reserved, Sending, rowVars, chatVars
<1>15. CASE Tick \/ UNCHANGED vars \/ \E u \in Users : DropSession(u) \/ SetEnabled(u) \/ BlockedElsewhere(u)
  <2>1. UNCHANGED <<status, finalFailed, accepted, unacked, pc, msg, target, result>>
    BY <1>15 DEF Tick, vars, DropSession, SetEnabled, BlockedElsewhere, rowVars, workVars, chatVars
  <2> QED BY <2>1, RowKept DEF Row
<1> QED
  BY <1>1, <1>2, <1>3, <1>4, <1>5, <1>6, <1>7, <1>8, <1>9, <1>10, <1>11, <1>12, <1>13,
     <1>14, <1>15 DEF Next, WorkerStep

LEMMA RowCorrect == Spec => [](TypeOK /\ RowInv)
BY TypeInit, TypeStep, RowInit, RowStep, PTL DEF Spec

\* No overlap of workers, crash, abort or lost lock session makes the bot send
\* one message to one user twice: only an HTML or plain call that Telegram left
\* unanswered can put a second copy in the chat.
THEOREM Idempotent == Spec => []NoDuplicateUnlessUnacked
<1>1. RowInv => NoDuplicateUnlessUnacked
  BY DEF RowInv
<1> QED BY <1>1, RowCorrect, PTL

\* A row that says sent stands for a message in the chat.
THEOREM SentIsTrue == Spec => []SentWasAccepted
<1>1. RowInv => SentWasAccepted
  BY DEF RowInv
<1> QED BY <1>1, RowCorrect, PTL

\* A settled row is settled: no later fan-out, retry or restarted process
\* rewrites it or sends its message again.
Frozen == \A d \in Deliveries :
    status[d] \in {"sent", "failed"} =>
        /\ status'[d] = status[d] /\ sentAt'[d] = sentAt[d]
        /\ accepted'[d] = accepted[d]

LEMMA FrozenStep == TypeOK /\ RowInv /\ [Next]_vars => Frozen
<1> SUFFICES ASSUME TypeOK, RowInv, [Next]_vars PROVE Frozen
  OBVIOUS
<1>1. ASSUME NEW w \in Workers, Reserve(w) PROVE Frozen
  <2>1. CASE MayReserve(Row(w))
    <3>1. status[Row(w)] = "none"
      BY <2>1, RowType DEF MayReserve, RowInv, FailedIsFinal
    <3> QED BY <3>1, <1>1, <2>1 DEF Frozen, Reserve, TypeOK, chatVars
  <2>2. CASE ~MayReserve(Row(w))
    BY <1>1, <2>2 DEF Frozen, Reserve, chatVars
  <2> QED BY <2>1, <2>2
<1>2. ASSUME NEW w \in Workers, SendRich(w) \/ SendHtml(w) \/ SendPlain(w) PROVE Frozen
  <2>1. status[Row(w)] \notin {"sent", "failed"}
    BY <1>2 DEF RowInv, OwnsRow, Reserved, Sending, SendRich, SendHtml, SendPlain
  <2>2. UNCHANGED <<status, sentAt>>
    BY <1>2 DEF SendRich, SendHtml, SendPlain, rowVars
  <2>3. accepted' = accepted \/ accepted' = [accepted EXCEPT ![Row(w)] = @ + 1]
    BY <1>2 DEF SendRich, SendHtml, SendPlain, Deliver, MaybeDeliver, chatVars
  <2> QED BY <2>1, <2>2, <2>3 DEF Frozen, TypeOK
<1>3. ASSUME NEW w \in Workers, Backoff(w) \/ Record(w) PROVE Frozen
  <2>1. status[Row(w)] \notin {"sent", "failed"}
    BY <1>3 DEF RowInv, OwnsRow, Reserved, Sending, Backoff, Record
  <2>2. \A d \in Deliveries :
            d # Row(w) => status'[d] = status[d] /\ sentAt'[d] = sentAt[d]
    BY <1>3 DEF Backoff, Record, TypeOK
  <2>3. UNCHANGED accepted
    BY <1>3 DEF Backoff, Record, chatVars
  <2> QED BY <2>1, <2>2, <2>3 DEF Frozen
<1>4. UNCHANGED <<rowVars, chatVars>> => Frozen
  BY DEF Frozen, rowVars, chatVars
<1> QED
  BY <1>1, <1>2, <1>3, <1>4 DEF Next, WorkerStep, StartFanOut, NextRecipient, EndFanOut,
     AcquireProcessLock, AcquireAdvisoryLock, Release, Recheck, Disable, Abort, Crash,
     DropSession, SetEnabled, BlockedElsewhere, Tick, vars

THEOREM SettledStaysSettled == Spec => SettledRowsFrozen
<1>1. TypeOK /\ RowInv /\ [Next]_vars => [Frozen]_vars
  BY FrozenStep
<1>2. SettledRowsFrozen <=> [][Frozen]_vars
  BY PTL DEF SettledRowsFrozen, Frozen
<1> QED BY <1>1, <1>2, RowCorrect, PTL DEF Spec

-----------------------------------------------------------------------------
(***************************************************************************)
(* The contract of one delivery.  Each step claims, posts or settles the   *)
(* row that the worker owns, or leaves rows and chats alone.               *)
(***************************************************************************)

LEMMA ContractInit == Init => Promised!InitContract
BY DEF Init, Promised!InitContract, ContractRow

LEMMA ContractUnchanged ==
  ASSUME UNCHANGED <<status, finalFailed, accepted, unacked>>
  PROVE  UNCHANGED Promised!contractVars
BY DEF Promised!contractVars, ContractRow

\* One send: the worker owns the row, and has not posted or is in doubt.
LEMMA ContractSend ==
  ASSUME TypeOK, RowInv, NEW w \in Workers, pc[w] \in Sending,
         UNCHANGED <<status, finalFailed>>,
         \/ accepted' = accepted /\ unacked' = unacked
         \/ Deliver(w) /\ unacked' = unacked
         \/ MaybeDeliver(w) /\ unacked' = [unacked EXCEPT ![Row(w)] = TRUE]
  PROVE  [Promised!NextContract]_(Promised!contractVars)
<1>1. Row(w) \in Deliveries
  BY RowType
<1>2. ContractRow[Row(w)] = "claimed"
  BY <1>1 DEF RowInv, OwnsRow, Reserved, ContractRow
<1>3. Promised!MayPost(Row(w))
  BY <1>2 DEF RowInv, NothingAcceptedYet, Promised!MayPost
<1>4. ContractRow' = ContractRow
  BY DEF ContractRow
<1>5. CASE accepted' = accepted /\ unacked' = unacked
  BY <1>4, <1>5 DEF Promised!contractVars
<1>6. CASE Deliver(w) /\ unacked' = unacked
  BY <1>1, <1>3, <1>4, <1>6 DEF Deliver, Promised!Post, Promised!NextContract
<1>7. CASE MaybeDeliver(w) /\ unacked' = [unacked EXCEPT ![Row(w)] = TRUE]
  BY <1>1, <1>3, <1>4, <1>7 DEF Deliver, MaybeDeliver, Promised!PostInDoubt,
     Promised!NextContract
<1> QED BY <1>5, <1>6, <1>7

LEMMA ContractStep ==
  TypeOK /\ RowInv /\ [Next]_vars => [Promised!NextContract]_(Promised!contractVars)
<1> SUFFICES ASSUME TypeOK, RowInv, [Next]_vars
             PROVE  [Promised!NextContract]_(Promised!contractVars)
  OBVIOUS
<1>1. ASSUME NEW w \in Workers, Reserve(w)
      PROVE  [Promised!NextContract]_(Promised!contractVars)
  <2>1. CASE MayReserve(Row(w))
    <3>1. Row(w) \in Deliveries /\ status[Row(w)] = "none"
      BY <2>1, RowType DEF MayReserve, RowInv, FailedIsFinal
    <3>2. UNCHANGED <<accepted, unacked>>
      BY <1>1 DEF Reserve, chatVars
    <3>3. ContractRow[Row(w)] = "open"
      BY <3>1 DEF ContractRow
    <3>4. ContractRow' = [ContractRow EXCEPT ![Row(w)] = "claimed"]
      BY <1>1, <2>1, <3>1 DEF Reserve, ContractRow, TypeOK
    <3> QED BY <3>1, <3>2, <3>3, <3>4 DEF Promised!Claim, Promised!NextContract
  <2>2. CASE ~MayReserve(Row(w))
    BY <1>1, <2>2, ContractUnchanged DEF Reserve, chatVars
  <2> QED BY <2>1, <2>2
<1>2. ASSUME NEW w \in Workers, SendRich(w) \/ SendHtml(w) \/ SendPlain(w)
      PROVE  [Promised!NextContract]_(Promised!contractVars)
  <2>1. pc[w] \in Sending
    BY <1>2 DEF SendRich, SendHtml, SendPlain, Sending
  <2>2. UNCHANGED <<status, finalFailed>>
    BY <1>2 DEF SendRich, SendHtml, SendPlain, rowVars
  <2>3. \/ accepted' = accepted /\ unacked' = unacked
        \/ Deliver(w) /\ unacked' = unacked
        \/ MaybeDeliver(w) /\ unacked' = [unacked EXCEPT ![Row(w)] = TRUE]
    BY <1>2 DEF SendRich, SendHtml, SendPlain, MaybeDeliver, chatVars
  <2> QED BY <2>1, <2>2, <2>3, ContractSend
<1>3. ASSUME NEW w \in Workers, Backoff(w)
      PROVE  [Promised!NextContract]_(Promised!contractVars)
  <2>1. Row(w) \in Deliveries /\ status[Row(w)] \in {"pending", "retry_pending"}
    BY <1>3, RowType DEF Backoff, RowInv, OwnsRow, Reserved, Sending
  <2>2. UNCHANGED <<finalFailed, accepted, unacked>>
    BY <1>3 DEF Backoff, chatVars
  <2>3. status' = [status EXCEPT ![Row(w)] = "retry_pending"]
    BY <1>3 DEF Backoff
  <2>4. ContractRow' = ContractRow
    BY <2>1, <2>2, <2>3 DEF ContractRow, TypeOK
  <2> QED BY <2>2, <2>4 DEF Promised!contractVars
<1>4. ASSUME NEW w \in Workers, Record(w)
      PROVE  [Promised!NextContract]_(Promised!contractVars)
  <2>1. Row(w) \in Deliveries /\ ContractRow[Row(w)] = "claimed"
    BY <1>4, RowType DEF Record, RowInv, OwnsRow, Reserved, Sending, ContractRow
  <2>2. UNCHANGED <<accepted, unacked>>
    BY <1>4 DEF Record, chatVars
  <2>3. CASE result[w] = "sent"
    <3>1. accepted[Row(w)] > 0
      BY <1>4, <2>3 DEF Record, RowInv, AcknowledgedWasAccepted
    <3>2. ContractRow' = [ContractRow EXCEPT ![Row(w)] = "sent"]
      BY <1>4, <2>1, <2>3 DEF Record, ContractRow, TypeOK
    <3>3. Promised!Settle(Row(w), "sent")
      BY <2>1, <2>2, <3>1, <3>2 DEF Promised!Settle
    <3> QED BY <2>1, <3>3 DEF Promised!NextContract
  <2>4. CASE result[w] # "sent"
    <3>1. ContractRow' = [ContractRow EXCEPT ![Row(w)] = "failed"]
      BY <1>4, <2>1, <2>4 DEF Record, ContractRow, TypeOK
    <3>2. Promised!Settle(Row(w), "failed")
      BY <2>1, <2>2, <3>1 DEF Promised!Settle
    <3> QED BY <2>1, <3>2 DEF Promised!NextContract
  <2> QED BY <2>3, <2>4
<1>5. UNCHANGED <<rowVars, chatVars>> => [Promised!NextContract]_(Promised!contractVars)
  BY ContractUnchanged DEF rowVars, chatVars
<1> QED
  BY <1>1, <1>2, <1>3, <1>4, <1>5 DEF Next, WorkerStep, StartFanOut, NextRecipient, EndFanOut,
     AcquireProcessLock, AcquireAdvisoryLock, Release, Recheck, Disable, Abort, Crash,
     DropSession, SetEnabled, BlockedElsewhere, Tick, vars

\* Whatever the workers, transports, locks and failures do, each delivery goes
\* the way the contract of a single delivery allows.
THEOREM Implementation == Spec => ImplementsContract
<1>1. Init => Promised!InitContract
  BY ContractInit
<1>2. TypeOK /\ RowInv /\ [Next]_vars => [Promised!NextContract]_(Promised!contractVars)
  BY ContractStep
<1> QED BY <1>1, <1>2, RowCorrect, PTL DEF Spec, ImplementsContract, Promised!Contract

-----------------------------------------------------------------------------
(***************************************************************************)
(* Spacing.  While the lock session lives, a worker in the locked section  *)
(* of a user holds the advisory lock, so what it checked about the user's  *)
(* sent rows is still true when it records its own.                        *)
(***************************************************************************)

HoldsLock == \A w \in Workers : pc[w] \in Locked => advisory[target[w]] = w

\* From the recheck to the record.
Checked == Reserved \cup {"reserve"}

CheckHolds == \A w \in Workers : pc[w] \in Checked =>
    IF msg[w] \in Events
    THEN CooldownAllows(target[w], msg[w])
    ELSE /\ now >= Silence
         /\ \A m \in SentTo(target[w]) : now - sentAt[<<target[w], m>>] >= Silence

SentInPast == \A d \in Deliveries : status[d] = "sent" => sentAt[d] <= now

LockInv == HoldsLock /\ CheckHolds /\ SentInPast /\ CooldownSpacing /\ HeartbeatSilence

LEMMA LockInit == Init => LockInv
BY DEF Init, LockInv, HoldsLock, CheckHolds, SentInPast, CooldownSpacing, HeartbeatSilence,
       SentTo, Locked, Checked, Reserved, Sending, Deliveries

\* At most one worker is in the locked section of a user.
LEMMA OneHolder ==
  ASSUME HoldsLock, NEW v \in Workers, NEW w \in Workers,
         pc[v] \in Locked, pc[w] \in Locked, target[v] = target[w]
  PROVE  v = w
BY DEF HoldsLock

LEMMA HoldsLockStep ==
  ASSUME TypeOK, HoldsLock, SessionMayDrop = FALSE, [Next]_vars
  PROVE  HoldsLock'
<1> USE DEF HoldsLock
<1>1. ASSUME NEW w \in Workers, NEW m \in Messages, StartFanOut(w, m) PROVE HoldsLock'
  BY <1>1 DEF TypeOK, StartFanOut, Goto, Locked, Reserved, Sending
<1>2. ASSUME NEW w \in Workers, NextRecipient(w) \/ EndFanOut(w) PROVE HoldsLock'
  BY <1>2 DEF TypeOK, NextRecipient, EndFanOut, Goto, Locked, Reserved, Sending
<1>3. ASSUME NEW w \in Workers, AcquireProcessLock(w) PROVE HoldsLock'
  BY <1>3 DEF TypeOK, AcquireProcessLock, Goto, Locked, Reserved, Sending, workVars
<1>4. ASSUME NEW w \in Workers, AcquireAdvisoryLock(w) PROVE HoldsLock'
  BY <1>4, DeliveryAssumption DEF TypeOK, AcquireAdvisoryLock, Goto, workVars
<1>5. ASSUME NEW w \in Workers, Release(w) PROVE HoldsLock'
  <2>1. advisory[target[w]] = w /\ pc'[w] \notin Locked
    BY <1>5 DEF TypeOK, Release, Goto, Locked, Reserved, Sending
  <2>2. UNCHANGED target /\ \A v \in Workers : v # w => pc'[v] = pc[v]
    BY <1>5 DEF TypeOK, Release, Goto
  <2>3. advisory' = [advisory EXCEPT ![target[w]] = NoWorker]
    BY <1>5, <2>1 DEF Release
  <2> QED BY <2>1, <2>2, <2>3 DEF TypeOK
<1>6. ASSUME NEW w \in Workers,
             \/ Recheck(w) \/ Reserve(w) \/ SendRich(w) \/ SendHtml(w) \/ SendPlain(w)
             \/ Backoff(w) \/ Record(w) \/ Disable(w)
      PROVE  HoldsLock'
  <2>1. pc[w] \in Locked /\ UNCHANGED <<advisory, target>>
    BY <1>6 DEF Recheck, Reserve, SendRich, SendHtml, SendPlain, Backoff, Record, Disable,
       Locked, Reserved, Sending, workVars
  <2>2. \A v \in Workers : v # w => pc'[v] = pc[v]
    BY <1>6 DEF TypeOK, Recheck, Reserve, SendRich, SendHtml, SendPlain, Backoff, Record,
       Disable, RetryOrFail, Return, Goto
  <2> QED BY <2>1, <2>2
<1>7. ASSUME NEW w \in Workers, Abort(w) PROVE HoldsLock'
  BY <1>7 DEF TypeOK, Abort, Goto, Locked, Reserved, Sending
<1>8. ASSUME NEW p \in Processes, Crash(p) PROVE HoldsLock'
  <2>1. "idle" \notin Locked
    BY DEF Locked, Reserved, Sending
  <2>2. UNCHANGED target
    BY <1>8 DEF Crash
  <2>3. ASSUME NEW w \in Workers, pc'[w] \in Locked PROVE advisory'[target[w]] = w
    <3>1. pc[w] \in Locked /\ ProcessOf[w] # p
      BY <1>8, <2>1, <2>3 DEF Crash, TypeOK
    <3>2. advisory[target[w]] = w
      BY <3>1
    <3> QED BY <1>8, <3>1, <3>2 DEF Crash, TypeOK
  <2> QED BY <2>2, <2>3
<1>9. ASSUME \/ Tick \/ UNCHANGED vars
             \/ \E u \in Users : DropSession(u) \/ SetEnabled(u) \/ BlockedElsewhere(u)
      PROVE  HoldsLock'
  BY <1>9 DEF Tick, vars, DropSession, SetEnabled, BlockedElsewhere, workVars
<1> QED
  BY <1>1, <1>2, <1>3, <1>4, <1>5, <1>6, <1>7, <1>8, <1>9 DEF Next, WorkerStep

\* A step that records no delivery keeps what was checked: time only adds to
\* the age of a sent row.
LEMMA NothingRecorded ==
  ASSUME TypeOK, LockInv, UNCHANGED sentAt,
         now' = now \/ now' = now + 1,
         \A d \in Deliveries : status'[d] = "sent" <=> status[d] = "sent",
         \A w \in Workers : pc'[w] \in Checked =>
            /\ \/ pc[w] \in Checked
               \/ now' = now /\ LockedAllows(target[w], msg[w])
            /\ msg'[w] = msg[w] /\ target'[w] = target[w]
  PROVE  (CheckHolds /\ SentInPast /\ CooldownSpacing /\ HeartbeatSilence)'
<1>1. \A u \in Users : SentTo(u)' = SentTo(u)
  BY DEF SentTo, Deliveries
<1>2. \A u \in Users : \A m \in SentTo(u) : sentAt[<<u, m>>] \in Nat /\ m \in Messages
  BY DEF SentTo, Deliveries, TypeOK
<1>3. CheckHolds'
  <2> SUFFICES ASSUME NEW w \in Workers, pc'[w] \in Checked
      PROVE  IF msg[w] \in Events
             THEN CooldownAllows(target[w], msg[w])'
             ELSE /\ now' >= Silence
                  /\ \A m \in SentTo(target[w]) :
                        now' - sentAt[<<target[w], m>>] >= Silence
    BY <1>1 DEF CheckHolds, TypeOK, CooldownAllows, SentTo
  <2>1. now \in Nat /\ now' \in Nat /\ now' >= now /\ target[w] \in Users /\ msg[w] \in Messages
    BY DEF TypeOK
  <2>2. CASE pc[w] \in Checked
    <3>1. CASE msg[w] \in Events
      BY <1>1, <1>2, <2>1, <2>2, <3>1, DeliveryAssumption DEF LockInv, CheckHolds, CooldownAllows
    <3>2. CASE msg[w] \notin Events
      BY <1>1, <1>2, <2>1, <2>2, <3>2, DeliveryAssumption DEF LockInv, CheckHolds
    <3> QED BY <3>1, <3>2
  <2>3. CASE now' = now /\ LockedAllows(target[w], msg[w])
    <3>1. CASE msg[w] \in Events
      BY <1>1, <2>3, <3>1, <2>1 DEF LockedAllows, CooldownAllows
    <3>2. CASE msg[w] \notin Events
      <4>1. SilenceReached(target[w])
        BY <2>3, <3>2 DEF LockedAllows
      <4>2. CASE SentTo(target[w]) = {}
        <5>1. activated[target[w]] \in Nat /\ now - activated[target[w]] >= Silence
          BY <4>1, <4>2, <2>1 DEF SilenceReached, TypeOK
        <5>2. now >= Silence
          BY <5>1, <2>1, DeliveryAssumption
        <5> QED BY <5>2, <4>2, <3>2, <2>3
      <4>3. CASE SentTo(target[w]) # {}
        <5>1. \A k \in SentTo(target[w]) : now - sentAt[<<target[w], k>>] >= Silence
          BY <4>1, <4>3 DEF SilenceReached
        <5>2. PICK k \in SentTo(target[w]) : TRUE
          BY <4>3
        <5>3. now >= Silence
          <6>1. sentAt[<<target[w], k>>] \in Nat
            BY <5>2, <2>1, <1>2
          <6>2. now - sentAt[<<target[w], k>>] >= Silence
            BY <5>1, <5>2
          <6> QED BY <6>1, <6>2, <2>1, DeliveryAssumption
        <5> QED BY <5>1, <5>3, <3>2, <2>3
      <4> QED BY <4>2, <4>3
    <3> QED BY <3>1, <3>2
  <2> QED BY <2>2, <2>3
<1>4. SentInPast'
  BY DEF LockInv, SentInPast, TypeOK
<1>5. CooldownSpacing'
  BY <1>1 DEF LockInv, CooldownSpacing
<1>6. HeartbeatSilence'
  BY <1>1 DEF LockInv, HeartbeatSilence
<1> QED BY <1>3, <1>4, <1>5, <1>6

\* Recording a delivery: the row was checked against the other sent rows, and
\* no other worker is past its check for the same user.
LEMMA Recorded ==
  ASSUME TypeOK, RowInv, LockInv, HoldsLock', NEW w \in Workers, Record(w)
  PROVE  (CheckHolds /\ SentInPast /\ CooldownSpacing /\ HeartbeatSilence)'
<1>0. PICK u \in Users, m \in Messages : u = target[w] /\ m = msg[w]
  BY DEF TypeOK
<1> DEFINE r == <<u, m>>
<1>1. /\ r = Row(w) /\ r \in Deliveries /\ u = target[w] /\ m = msg[w]
      /\ now \in Nat /\ now' = now
      /\ pc[w] = "record" /\ pc[w] \in Checked /\ pc[w] \in Locked
      /\ UNCHANGED <<msg, target>>
  BY <1>0, RowType DEF Record, Row, TypeOK, workVars, Checked, Locked, Reserved
<1> HIDE DEF r
<1>2. /\ \A v \in Workers : v # w => pc'[v] = pc[v]
      /\ pc'[w] \notin Checked
  BY DEF Record, Goto, TypeOK, Checked, Reserved, Sending
<1>3. \A d \in Deliveries : d # r => status'[d] = status[d] /\ sentAt'[d] = sentAt[d]
  BY <1>1 DEF Record, TypeOK
<1>4. status[r] # "sent" /\ (status'[r] = "sent" => sentAt'[r] = now)
  BY <1>1 DEF Record, TypeOK, RowInv, OwnsRow, Reserved
<1>5. \A x \in Users : x # u => SentTo(x)' = SentTo(x)
  BY <1>1, <1>3 DEF SentTo, Deliveries, r
<1>6. SentTo(u)' \subseteq SentTo(u) \cup {m} /\ m \notin SentTo(u) /\ SentTo(u) \subseteq SentTo(u)'
  BY <1>1, <1>3, <1>4 DEF SentTo, Deliveries, r
<1>7. \A x \in Users : \A k \in SentTo(x) :
        /\ sentAt'[<<x, k>>] = sentAt[<<x, k>>]
        /\ sentAt[<<x, k>>] \in Nat /\ sentAt[<<x, k>>] <= now
  BY <1>1, <1>3, <1>4 DEF SentTo, Deliveries, TypeOK, LockInv, SentInPast
<1>8. m \in SentTo(u)' => sentAt'[<<u, m>>] = now
  BY <1>1, <1>4 DEF SentTo, Deliveries, r
<1>9. IF m \in Events
      THEN \A f \in SentTo(u) \cap Events : Similar(m, f) => now - sentAt[<<u, f>>] >= Cooldown
      ELSE now >= Silence /\ \A k \in SentTo(u) : now - sentAt[<<u, k>>] >= Silence
  BY <1>1 DEF LockInv, CheckHolds, CooldownAllows
<1>10. CheckHolds'
  <2> SUFFICES ASSUME NEW v \in Workers, pc'[v] \in Checked
      PROVE  IF msg[v] \in Events
             THEN CooldownAllows(target[v], msg[v])'
             ELSE /\ now >= Silence
                  /\ \A k \in SentTo(target[v])' :
                        now - sentAt'[<<target[v], k>>] >= Silence
    BY <1>1 DEF CheckHolds, CooldownAllows, SentTo
  <2>0. PICK x \in Users : x = target[v]
    BY DEF TypeOK
  <2>1. v # w /\ pc[v] \in Checked /\ pc[v] \in Locked
    BY <1>2 DEF Checked, Locked
  <2>2. target[v] # u /\ target[v] \in Users
    BY <1>1, <2>1, OneHolder DEF LockInv, TypeOK
  <2>3. SentTo(x)' = SentTo(x) /\ SentTo(target[v])' = SentTo(x)
    BY <1>1, <1>5, <2>0, <2>2 DEF SentTo
  <2> QED
    BY <1>1, <1>7, <2>0, <2>1, <2>2, <2>3 DEF LockInv, CheckHolds, CooldownAllows
<1>11. SentInPast'
  BY <1>1, <1>3, <1>4 DEF LockInv, SentInPast
<1>12. CooldownSpacing'
  <2> SUFFICES ASSUME NEW x \in Users, NEW e \in SentTo(x)' \cap Events,
                      NEW f \in SentTo(x)' \cap Events, e # f, Similar(e, f),
                      sentAt'[<<x, e>>] <= sentAt'[<<x, f>>]
      PROVE  sentAt'[<<x, f>>] - sentAt'[<<x, e>>] >= Cooldown
    BY DEF CooldownSpacing, Similar
  <2>1. CASE e \in SentTo(x) /\ f \in SentTo(x)
    BY <2>1, <1>7 DEF LockInv, CooldownSpacing
  <2>2. CASE x = u /\ f = m /\ e \in SentTo(u)
    <3>1. Similar(m, e) /\ m \in Events
      BY <2>2 DEF Similar
    <3> QED BY <2>2, <3>1, <1>7, <1>8, <1>9
  <2>3. CASE x = u /\ e = m /\ f \in SentTo(u)
    <3>1. now - sentAt[<<u, f>>] >= Cooldown
      BY <2>3, <1>9
    <3>2. sentAt[<<u, f>>] = now
      BY <2>3, <1>1, <1>7, <1>8
    <3> QED BY <2>3, <3>1, <3>2, <1>1, <1>7, <1>8, DeliveryAssumption
  <2> QED BY <1>5, <1>6, <2>1, <2>2, <2>3
<1>13. HeartbeatSilence'
  <2> SUFFICES ASSUME NEW x \in Users, NEW h \in SentTo(x)' \cap Heartbeats
      PROVE  /\ sentAt'[<<x, h>>] >= Silence
             /\ \A k \in SentTo(x)' :
                    sentAt'[<<x, k>>] < sentAt'[<<x, h>>]
                        => sentAt'[<<x, h>>] - sentAt'[<<x, k>>] >= Silence
    BY DEF HeartbeatSilence
  <2>1. CASE h \in SentTo(x)
    <3>1. /\ sentAt'[<<x, h>>] >= Silence
          /\ \A k \in SentTo(x) :
                sentAt'[<<x, k>>] < sentAt'[<<x, h>>]
                    => sentAt'[<<x, h>>] - sentAt'[<<x, k>>] >= Silence
      BY <2>1, <1>7 DEF LockInv, HeartbeatSilence
    <3>2. ASSUME NEW k \in SentTo(x)', k \notin SentTo(x)
          PROVE  ~(sentAt'[<<x, k>>] < sentAt'[<<x, h>>])
      <4>1. x = u /\ k = m
        BY <3>2, <1>5, <1>6
      <4> QED BY <4>1, <2>1, <1>1, <1>7, <1>8
    <3> QED BY <3>1, <3>2
  <2>2. CASE h \notin SentTo(x)
    <3>1. x = u /\ h = m /\ m \notin Events
      BY <2>2, <1>5, <1>6, DeliveryAssumption
    <3>2. now >= Silence /\ \A k \in SentTo(u) : now - sentAt[<<u, k>>] >= Silence
      BY <3>1, <1>9
    <3> QED BY <3>1, <3>2, <1>1, <1>6, <1>7, <1>8
  <2> QED BY <2>1, <2>2
<1> QED BY <1>10, <1>11, <1>12, <1>13

LEMMA LockStep ==
  ASSUME TypeOK, RowInv, LockInv, SessionMayDrop = FALSE, [Next]_vars
  PROVE  LockInv'
<1>1. HoldsLock'
  BY HoldsLockStep DEF LockInv
<1> DEFINE Kept == (CheckHolds /\ SentInPast /\ CooldownSpacing /\ HeartbeatSilence)'
<1>2. ASSUME NEW w \in Workers, Record(w) PROVE Kept
  BY <1>1, <1>2, Recorded
\* The premises of NothingRecorded, action by action.
<1> DEFINE SameSent == \A d \in Deliveries : status'[d] = "sent" <=> status[d] = "sent"
           Entered == \A v \in Workers : pc'[v] \in Checked =>
                         /\ \/ pc[v] \in Checked
                            \/ now' = now /\ LockedAllows(target[v], msg[v])
                         /\ msg'[v] = msg[v] /\ target'[v] = target[v]
           Quiet == UNCHANGED sentAt /\ (now' = now \/ now' = now + 1) /\ SameSent /\ Entered
<1>3. ASSUME NEW w \in Workers, NEW m \in Messages, StartFanOut(w, m) PROVE Quiet
  BY <1>3 DEF StartFanOut, Goto, TypeOK, rowVars, Checked, Reserved, Sending
<1>4. ASSUME NEW w \in Workers,
             \/ NextRecipient(w) \/ EndFanOut(w)
             \/ AcquireProcessLock(w) \/ AcquireAdvisoryLock(w) \/ Release(w)
      PROVE  Quiet
  BY <1>4 DEF NextRecipient, EndFanOut, AcquireProcessLock, AcquireAdvisoryLock, Release,
     Goto, TypeOK, rowVars, workVars, Checked, Reserved, Sending
<1>5. ASSUME NEW w \in Workers, Recheck(w) PROVE Quiet
  BY <1>5 DEF Recheck, Goto, TypeOK, rowVars, workVars, Checked, Reserved, Sending
<1>6. ASSUME NEW w \in Workers, Reserve(w) PROVE Quiet
  <2>1. SameSent
    <3>1. CASE MayReserve(Row(w))
      <4>1. status[Row(w)] # "sent"
        BY <3>1 DEF MayReserve
      <4> QED BY <4>1, <3>1, <1>6 DEF Reserve, TypeOK
    <3>2. CASE ~MayReserve(Row(w))
      BY <3>2, <1>6 DEF Reserve
    <3> QED BY <3>1, <3>2
  <2>2. Entered
    BY <1>6 DEF Reserve, Goto, TypeOK, workVars, Checked, Reserved, Sending
  <2> QED BY <2>1, <2>2, <1>6 DEF Reserve
<1>7. ASSUME NEW w \in Workers, SendRich(w) \/ SendHtml(w) \/ SendPlain(w) PROVE Quiet
  BY <1>7 DEF SendRich, SendHtml, SendPlain, RetryOrFail, Return, Goto, TypeOK, rowVars,
     Checked, Reserved, Sending
<1>8. ASSUME NEW w \in Workers, Backoff(w) PROVE Quiet
  <2>1. status[Row(w)] # "sent"
    BY <1>8 DEF Backoff, RowInv, OwnsRow, Reserved, Sending
  <2>2. SameSent
    BY <2>1, <1>8 DEF Backoff, TypeOK
  <2>3. Entered
    BY <1>8 DEF Backoff, Goto, TypeOK, Checked, Reserved, Sending
  <2> QED BY <2>2, <2>3, <1>8 DEF Backoff
<1>9. ASSUME NEW w \in Workers, Disable(w) \/ Abort(w) PROVE Quiet
  BY <1>9 DEF Disable, Abort, Goto, TypeOK, rowVars, workVars, Checked, Reserved, Sending
<1>10. ASSUME NEW p \in Processes, Crash(p) PROVE Quiet
  BY <1>10 DEF Crash, TypeOK, rowVars, Checked, Reserved, Sending
<1>11. ASSUME \/ Tick \/ UNCHANGED vars
              \/ \E u \in Users : DropSession(u) \/ SetEnabled(u) \/ BlockedElsewhere(u)
       PROVE  Quiet
  BY <1>11 DEF Tick, vars, DropSession, SetEnabled, BlockedElsewhere, rowVars, workVars
<1>12. Quiet => Kept
  BY NothingRecorded
<1>13. Kept
  BY <1>2, <1>3, <1>4, <1>5, <1>6, <1>7, <1>8, <1>9, <1>10, <1>11, <1>12 DEF Next, WorkerStep
<1> QED BY <1>1, <1>13 DEF LockInv

LEMMA LockCorrect ==
  ASSUME SessionMayDrop = FALSE
  PROVE  Spec => [](TypeOK /\ RowInv /\ LockInv)
<1>1. Init => TypeOK /\ RowInv /\ LockInv
  BY TypeInit, RowInit, LockInit
<1>2. TypeOK /\ RowInv /\ LockInv /\ [Next]_vars => (TypeOK /\ RowInv /\ LockInv)'
  BY TypeStep, RowStep, LockStep
<1> QED BY <1>1, <1>2, PTL DEF Spec

\* While no lock session is lost, recorded deliveries of similar events to one
\* user are a cooldown apart, for any number of workers and processes.
THEOREM Spacing ==
  ASSUME SessionMayDrop = FALSE
  PROVE  Spec => []CooldownSpacing
<1>1. LockInv => CooldownSpacing
  BY DEF LockInv
<1> QED BY <1>1, LockCorrect, PTL

\* Under the same assumption a recorded heartbeat comes at least a silence
\* period after everything recorded for the user before it.
THEOREM Quietness ==
  ASSUME SessionMayDrop = FALSE
  PROVE  Spec => []HeartbeatSilence
<1>1. LockInv => HeartbeatSilence
  BY DEF LockInv
<1> QED BY <1>1, LockCorrect, PTL

=============================================================================
