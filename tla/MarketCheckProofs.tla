-------------------------- MODULE MarketCheckProofs --------------------------
(***************************************************************************)
(* Proofs about MarketCheck (one alert per instance key and user, one      *)
(* analysis per event, no unrendered text and no unearned silence, for any *)
(* checks, contexts, keys and users) and EventHealth (what /health says    *)
(* has its reasons, for any limits and rates).                             *)
(***************************************************************************)
EXTENDS MCMarketCheck, SumFacts, TLAPS

\* The two unique indexes, and attached analyses that are good ones of events
\* with a row.
Unique ==
    /\ \A e, f \in Events : eventKey[e] = eventKey[f] /\ eventKey[e] # NoKey => e = f
    /\ \A a, b \in Analyses : attached[a] = attached[b] /\ attached[a] # NoEvent => a = b
AttachedIsGood ==
    \A a \in Analyses : attached[a] # NoEvent =>
        status[a] = "success" /\ eventKey[attached[a]] # NoKey

\* What a check that is still deciding, and one that has decided, may rely on.
OwnsAnalysis(w) ==
    pc[w] \in Deciding =>
        /\ made[w] \in Analyses
        /\ attached[made[w]] = NoEvent
        /\ status[made[w]] = IF pc[w] \in {"stage1", "render"} THEN "asked" ELSE "success"
        /\ pc[w] \notin {"stage1", "render"} => key[w] \in Keys
KnowsEvent(w) ==
    pc[w] \in {"analysis", "attach"} \cup Named =>
        event[w] \in Events /\ eventKey[event[w]] # NoKey
NamesAttached(w) ==
    pc[w] \in Named =>
        /\ named[w] \in Analyses /\ attached[named[w]] = event[w]
        /\ made[w] \in Analyses /\ status[made[w]] = "success"

\* Two checks never decide about one analysis.
Apart ==
    \A v, w \in Workers :
        v # w /\ pc[v] \in Deciding /\ pc[w] \in Deciding => made[v] # made[w]

\* An alerts row names an analysis of its event and tells a rendered text.
RowIsSound(d) ==
    alert[d] # NoAlert =>
        /\ alert[d].names \in Analyses /\ attached[alert[d].names] = d[2]
        /\ alert[d].tells \in Analyses /\ status[alert[d].tells] = "success"

\* The inductive invariant.
IInv ==
    /\ TypeOK /\ Unique /\ AttachedIsGood /\ Apart /\ SilenceIsEarned
    /\ \A w \in Workers : OwnsAnalysis(w) /\ KnowsEvent(w) /\ NamesAttached(w)
    /\ \A d \in Users \X Events : RowIsSound(d)

LEMMA InitIInv == Init => IInv
<1> SUFFICES ASSUME Init PROVE IInv
  OBVIOUS
<1> USE MarketCheckAssumption
<1>1. \A d \in Users \X Events : alert[d] = NoAlert
  BY DEF Init
<1>2. NoAlert \in [names : Analyses \cup {NoAnalysis}, tells : Analyses \cup {NoAnalysis}]
  BY DEF NoAlert
<1>3. alert \in [Users \X Events -> [names : Analyses \cup {NoAnalysis},
                                     tells : Analyses \cup {NoAnalysis}]]
  BY <1>2 DEF Init
<1>4. Never \in Int
  BY DEF Never
<1>5. AnyContext \in Contexts
  BY MarketCheckAssumption DEF AnyContext
<1>6. TypeOK
  BY <1>3, <1>4, <1>5 DEF Init, TypeOK, Statuses, Points
<1>7. Unique /\ AttachedIsGood /\ Apart /\ SilenceIsEarned
  BY DEF Init, Unique, AttachedIsGood, Apart, SilenceIsEarned, Deciding
<1>8. \A w \in Workers : OwnsAnalysis(w) /\ KnowsEvent(w) /\ NamesAttached(w)
  BY DEF Init, OwnsAnalysis, KnowsEvent, NamesAttached, Deciding, Named
<1>9. \A d \in Users \X Events : RowIsSound(d)
  BY <1>1 DEF RowIsSound
<1> QED BY <1>6, <1>7, <1>8, <1>9 DEF IInv

-----------------------------------------------------------------------------
\* Types.

LEMMA ReturnTyped ==
    ASSUME TypeOK, NEW w \in Workers, Return(w)
    PROVE  /\ pc' \in [Workers -> Points] /\ started' \in [Workers -> Nat]
           /\ seen' \in [Workers -> Int] /\ ctx' \in [Workers -> Contexts]
           /\ made' \in [Workers -> Analyses \cup {NoAnalysis}]
           /\ key' \in [Workers -> Keys \cup {NoKey}]
           /\ event' \in [Workers -> Events \cup {NoEvent}]
           /\ named' \in [Workers -> Analyses \cup {NoAnalysis}]
           /\ todo' \in [Workers -> SUBSET Users] /\ sent' \in [Workers -> BOOLEAN]
<1>1. ctx[w] \in Contexts
  BY DEF TypeOK
<1>2. AnyContext \in Contexts
  BY <1>1 DEF AnyContext
<1>3. Never \in Int
  BY MarketCheckAssumption DEF Never
<1> QED BY <1>2, <1>3 DEF Return, TypeOK, Goto, Points

LEMMA TypeStep == TypeOK /\ [Next]_vars => TypeOK'
<1> SUFFICES ASSUME TypeOK, [Next]_vars PROVE TypeOK'
  OBVIOUS
<1> USE DEF tableVars, clockVars, localVars, Goto, Points, Deciding, Named, Statuses
<1>1. CASE Tick
  BY <1>1 DEF Tick, TypeOK
<1>2. CASE UNCHANGED vars
  BY <1>2 DEF vars, TypeOK
<1>3. ASSUME NEW w \in Workers, NEW c \in Contexts, Start(w, c) PROVE TypeOK'
  BY <1>3 DEF Start, TypeOK
<1>4. ASSUME NEW w \in Workers, ReuseAnalysis(w) PROVE TypeOK'
  BY <1>4 DEF ReuseAnalysis, Reusable, TypeOK
<1>5. ASSUME NEW w \in Workers, NothingToReuse(w) \/ Significant(w) PROVE TypeOK'
  BY <1>5 DEF NothingToReuse, Significant, TypeOK
<1>6. ASSUME NEW w \in Workers, SkipContext(w) \/ RecordDecline(w) PROVE TypeOK'
  <2>1. noSendAt' = [noSendAt EXCEPT ![ctx[w]] = now] /\ pc' \in [Workers -> Points]
    BY <1>6 DEF SkipContext, RecordDecline, TypeOK
  <2>2. noSendAt' \in [Contexts -> Int]
    BY <2>1 DEF TypeOK
  <2>3. withheld' \in SUBSET Contexts
    BY <1>6 DEF SkipContext, RecordDecline, TypeOK
  <2>4. UNCHANGED <<now, tableVars, lastSent, lastAlert, localVars>>
    BY <1>6 DEF SkipContext, RecordDecline
  <2> QED BY <2>1, <2>2, <2>3, <2>4 DEF TypeOK
<1>7. ASSUME NEW w \in Workers, AskSignificance(w) PROVE TypeOK'
  <2>1. /\ pc' \in [Workers -> Points] /\ status' \in [Analyses -> Statuses]
        /\ about' \in [Analyses -> Contexts]
        /\ made' \in [Workers -> Analyses \cup {NoAnalysis}]
    BY <1>7 DEF AskSignificance, TypeOK
  <2>2. UNCHANGED <<now, attached, eventKey, alert, clockVars, started, seen, ctx, key, event,
                    named, todo, sent>>
    BY <1>7 DEF AskSignificance
  <2> QED BY <2>1, <2>2 DEF TypeOK
<1>8. ASSUME NEW w \in Workers, CallFails(w) \/ Decline(w) PROVE TypeOK'
  <2>1. pc' \in [Workers -> Points] /\ status' \in [Analyses -> Statuses]
    BY <1>8 DEF CallFails, Decline, TypeOK
  <2>2. UNCHANGED <<now, about, attached, eventKey, alert, clockVars, localVars>>
    BY <1>8 DEF CallFails, Decline
  <2> QED BY <2>1, <2>2 DEF TypeOK
<1>9. ASSUME NEW w \in Workers, NEW k \in Keys, Rendered(w, k) PROVE TypeOK'
  <2>1. /\ pc' \in [Workers -> Points] /\ status' \in [Analyses -> Statuses]
        /\ key' \in [Workers -> Keys \cup {NoKey}]
    BY <1>9 DEF Rendered, TypeOK
  <2>2. UNCHANGED <<now, about, attached, eventKey, alert, clockVars, started, seen, ctx, made,
                    event, named, todo, sent>>
    BY <1>9 DEF Rendered
  <2> QED BY <2>1, <2>2 DEF TypeOK
<1>10. ASSUME NEW w \in Workers, FindEvent(w) PROVE TypeOK'
  <2>1. pc' \in [Workers -> Points] /\ event' \in [Workers -> Events \cup {NoEvent}]
    <3>1. pc' = [pc EXCEPT ![w] = "insert"] \/ pc' = [pc EXCEPT ![w] = "analysis"]
      BY <1>10 DEF FindEvent
    <3>2. event' = event \/ \E e \in Events : event' = [event EXCEPT ![w] = e]
      BY <1>10 DEF FindEvent, Rows
    <3>3. pc' \in [Workers -> Points]
      BY <3>1 DEF TypeOK
    <3>4. event' \in [Workers -> Events \cup {NoEvent}]
      BY <3>2 DEF TypeOK
    <3> QED BY <3>3, <3>4
  <2>2. UNCHANGED <<now, tableVars, clockVars, started, seen, ctx, made, key, named, todo, sent>>
    BY <1>10 DEF FindEvent
  <2> QED BY <2>1, <2>2 DEF TypeOK
<1>11. ASSUME NEW w \in Workers, InsertEvent(w) PROVE TypeOK'
  <2>1. /\ pc' \in [Workers -> Points] /\ event' \in [Workers -> Events \cup {NoEvent}]
        /\ eventKey' \in [Events -> Keys \cup {NoKey}]
    <3>1. pc' \in [Workers -> Points]
      BY <1>11 DEF InsertEvent, TypeOK
    <3>2. \E e \in Events : event' = [event EXCEPT ![w] = e]
      BY <1>11 DEF InsertEvent, Rows
    <3>3. \/ eventKey' = eventKey
          \/ \E e \in Events : eventKey' = [eventKey EXCEPT ![e] = key[w]]
      BY <1>11 DEF InsertEvent, Rows
    <3> QED BY <3>1, <3>2, <3>3 DEF TypeOK
  <2>2. UNCHANGED <<now, status, about, attached, alert, clockVars, started, seen, ctx, made,
                    key, named, todo, sent>>
    BY <1>11 DEF InsertEvent
  <2> QED BY <2>1, <2>2 DEF TypeOK
<1>12. ASSUME NEW w \in Workers, Attach(w) PROVE TypeOK'
  <2>1. /\ pc' \in [Workers -> Points] /\ attached' \in [Analyses -> Events \cup {NoEvent}]
        /\ named' \in [Workers -> Analyses \cup {NoAnalysis}]
    BY <1>12 DEF Attach, AttachedTo, TypeOK
  <2>2. UNCHANGED <<now, status, about, eventKey, alert, clockVars, started, seen, ctx, made,
                    key, event, todo, sent>>
    BY <1>12 DEF Attach
  <2> QED BY <2>1, <2>2 DEF TypeOK
<1>13. ASSUME NEW w \in Workers, FindAnalysis(w) PROVE TypeOK'
  <2>1. pc' \in [Workers -> Points] /\ named' \in [Workers -> Analyses \cup {NoAnalysis}]
    <3>1. pc' = [pc EXCEPT ![w] = "attach"] \/ pc' = [pc EXCEPT ![w] = "recipients"]
      BY <1>13 DEF FindAnalysis
    <3>2. named' = named \/ \E a \in Analyses : named' = [named EXCEPT ![w] = a]
      BY <1>13 DEF FindAnalysis, AttachedTo
    <3>3. pc' \in [Workers -> Points]
      BY <3>1 DEF TypeOK
    <3>4. named' \in [Workers -> Analyses \cup {NoAnalysis}]
      BY <3>2 DEF TypeOK
    <3> QED BY <3>3, <3>4
  <2>2. UNCHANGED <<now, tableVars, clockVars, started, seen, ctx, made, key, event, todo, sent>>
    BY <1>13 DEF FindAnalysis
  <2> QED BY <2>1, <2>2 DEF TypeOK
<1>14. ASSUME NEW w \in Workers, Resolve(w) PROVE TypeOK'
  <2>1. UNCHANGED <<now, tableVars, lastSent, lastAlert, started, seen, ctx, made, key, event,
                    named, sent>>
    BY <1>14 DEF Resolve
  <2>2. todo' \in [Workers -> SUBSET Users] /\ pc' \in [Workers -> Points]
    BY <1>14 DEF Resolve, TypeOK
  <2>3. noSendAt' \in [Contexts -> Int] /\ withheld' \in SUBSET Contexts
    BY <1>14 DEF Resolve, HoldBack, TypeOK
  <2> QED BY <2>1, <2>2, <2>3 DEF TypeOK
<1>15. ASSUME NEW w \in Workers, NEW u \in Users, Deliver(w, u) PROVE TypeOK'
  <2>1. UNCHANGED <<now, status, about, attached, eventKey, lastAlert, pc, started, seen, ctx,
                    made, key, event, named>>
    BY <1>15 DEF Deliver
  <2>2. /\ todo' \in [Workers -> SUBSET Users] /\ noSendAt' \in [Contexts -> Int]
        /\ withheld' \in SUBSET Contexts /\ sent' \in [Workers -> BOOLEAN]
    BY <1>15 DEF Deliver, HoldBack, TypeOK
  <2>3. lastSent' \in [Users -> Int]
    BY <1>15 DEF Deliver, HoldBack, TypeOK
  <2>4. [names |-> named[w], tells |-> made[w]]
            \in [names : Analyses \cup {NoAnalysis}, tells : Analyses \cup {NoAnalysis}]
    BY DEF TypeOK
  <2>5. \/ UNCHANGED alert
        \/ alert' = [alert EXCEPT ![Row(w, u)] = [names |-> named[w], tells |-> made[w]]]
    BY <1>15 DEF Deliver
  <2>6. alert' \in [Users \X Events -> [names : Analyses \cup {NoAnalysis},
                                        tells : Analyses \cup {NoAnalysis}]]
    BY <2>4, <2>5 DEF TypeOK
  <2> QED BY <2>1, <2>2, <2>3, <2>6 DEF TypeOK
<1>16. ASSUME NEW w \in Workers, SaveAfterFanOut(w) \/ Save(w) \/ Abort(w) PROVE TypeOK'
  <2>1. lastAlert' \in Int
    BY <1>16 DEF SaveAfterFanOut, Save, Abort, TypeOK
  <2>2. Return(w) /\ UNCHANGED <<now, tableVars, noSendAt, withheld, lastSent>>
    BY <1>16 DEF SaveAfterFanOut, Save, Abort
  <2> QED BY <2>1, <2>2, ReturnTyped DEF TypeOK
<1> QED BY <1>1, <1>2, <1>3, <1>4, <1>5, <1>6, <1>7, <1>8, <1>9, <1>10, <1>11, <1>12, <1>13,
           <1>14, <1>15, <1>16 DEF Next, Check

-----------------------------------------------------------------------------
\* The rest of the invariant.

Sound ==
    /\ Unique /\ AttachedIsGood /\ Apart
    /\ \A w \in Workers : OwnsAnalysis(w) /\ KnowsEvent(w) /\ NamesAttached(w)
    /\ \A d \in Users \X Events : RowIsSound(d)

\* Steps of a check that touch neither a table nor another check.
LEMMA LocalStep ==
    ASSUME Sound, NEW w \in Workers, UNCHANGED tableVars,
           \A v \in Workers \ {w} :
               /\ pc'[v] = pc[v] /\ made'[v] = made[v] /\ key'[v] = key[v]
               /\ event'[v] = event[v] /\ named'[v] = named[v],
           pc'[w] \in Deciding =>
               /\ pc[w] \in Deciding /\ made'[w] = made[w] /\ key'[w] = key[w]
               /\ pc'[w] \in {"stage1", "render"} <=> pc[w] \in {"stage1", "render"},
           KnowsEvent(w)', NamesAttached(w)'
    PROVE  Sound'
<1>1. (Unique /\ AttachedIsGood /\ \A d \in Users \X Events : RowIsSound(d))'
  BY DEF Sound, tableVars, Unique, AttachedIsGood, RowIsSound
<1>2. ASSUME NEW v \in Workers, v # w
      PROVE  (OwnsAnalysis(v) /\ KnowsEvent(v) /\ NamesAttached(v))'
  BY <1>2 DEF Sound, tableVars, OwnsAnalysis, KnowsEvent, NamesAttached
<1>3. OwnsAnalysis(w)'
  BY DEF Sound, tableVars, OwnsAnalysis
<1>4. Apart'
  <2> SUFFICES ASSUME NEW u \in Workers, NEW v \in Workers, u # v,
                      pc'[u] \in Deciding, pc'[v] \in Deciding
               PROVE  made'[u] # made'[v]
    BY DEF Apart
  <2> QED BY DEF Sound, Apart
<1> QED BY <1>1, <1>2, <1>3, <1>4 DEF Sound

\* The steps before an analysis is asked for, and the returns.
LEMMA ReuseSound ==
    ASSUME TypeOK, Sound, NEW w \in Workers,
           \/ \E c \in Contexts : Start(w, c)
           \/ ReuseAnalysis(w) \/ NothingToReuse(w) \/ SkipContext(w)
           \/ SaveAfterFanOut(w) \/ Save(w) \/ Abort(w)
    PROVE  Sound'
<1> USE DEF Goto, localVars, tableVars
<1>1. CASE \E c \in Contexts : Start(w, c)
  BY <1>1, LocalStep DEF Start, KnowsEvent, NamesAttached, Named, Deciding, TypeOK
<1>2. CASE ReuseAnalysis(w)
  <2>1. PICK a \in Reusable(w) :
            /\ made' = [made EXCEPT ![w] = a] /\ named' = [named EXCEPT ![w] = a]
            /\ event' = [event EXCEPT ![w] = attached[a]]
    BY <1>2 DEF ReuseAnalysis
  <2>2. /\ UNCHANGED <<status, about, attached, eventKey, alert, key>>
        /\ pc' = [pc EXCEPT ![w] = "recipients"]
    BY <1>2 DEF ReuseAnalysis
  <2>3. /\ a \in Analyses /\ attached[a] \in Events /\ status[a] = "success"
        /\ eventKey[attached[a]] # NoKey
    BY <2>1 DEF Reusable, TypeOK, Sound, AttachedIsGood
  <2>4. made'[w] = a /\ named'[w] = a /\ event'[w] = attached[a] /\ pc'[w] = "recipients"
    BY <2>1, <2>2 DEF TypeOK
  <2>5. KnowsEvent(w)' /\ NamesAttached(w)'
    BY <2>2, <2>3, <2>4 DEF KnowsEvent, NamesAttached
  <2>6. \A v \in Workers \ {w} :
               /\ pc'[v] = pc[v] /\ made'[v] = made[v] /\ key'[v] = key[v]
               /\ event'[v] = event[v] /\ named'[v] = named[v]
    BY <2>1, <2>2 DEF TypeOK
  <2> QED BY <2>2, <2>4, <2>5, <2>6, LocalStep DEF Deciding
<1>3. CASE NothingToReuse(w) \/ SkipContext(w)
  <2>1. /\ UNCHANGED <<tableVars, made, key, event, named>>
        /\ pc' = [pc EXCEPT ![w] = pc'[w]] /\ pc'[w] \in {"outcome", "save"}
    BY <1>3 DEF NothingToReuse, SkipContext, TypeOK
  <2> QED BY <2>1, LocalStep DEF KnowsEvent, NamesAttached, Named, Deciding, TypeOK
<1>4. CASE SaveAfterFanOut(w) \/ Save(w) \/ Abort(w)
  <2>1. Return(w) /\ UNCHANGED tableVars
    BY <1>4 DEF SaveAfterFanOut, Save, Abort
  <2>2. pc'[w] = "idle"
    BY <2>1 DEF Return, TypeOK
  <2>3. KnowsEvent(w)' /\ NamesAttached(w)' /\ pc'[w] \notin Deciding
    BY <2>2 DEF KnowsEvent, NamesAttached, Named, Deciding
  <2>4. \A v \in Workers \ {w} :
               /\ pc'[v] = pc[v] /\ made'[v] = made[v] /\ key'[v] = key[v]
               /\ event'[v] = event[v] /\ named'[v] = named[v]
    BY <2>1 DEF Return, TypeOK
  <2> QED BY <2>1, <2>3, <2>4, LocalStep
<1> QED BY <1>1, <1>2, <1>3, <1>4

\* Steps that give analysis a, not yet good and no other check's, a status.
LEMMA StatusStep ==
    ASSUME TypeOK, Sound, NEW w \in Workers, NEW a \in Analyses, NEW st \in Statuses,
           status' = [status EXCEPT ![a] = st], status[a] # "success",
           UNCHANGED <<attached, eventKey, alert>>,
           \A v \in Workers \ {w} :
               /\ pc'[v] = pc[v] /\ made'[v] = made[v] /\ key'[v] = key[v]
               /\ event'[v] = event[v] /\ named'[v] = named[v]
               /\ pc[v] \in Deciding => made[v] # a,
           pc'[w] \notin Named \cup {"analysis", "attach"},
           pc'[w] \in Deciding => made'[w] = a,
           pc'[w] \in Deciding =>
               st = IF pc'[w] \in {"stage1", "render"} THEN "asked" ELSE "success",
           pc'[w] \in Deciding /\ pc'[w] \notin {"stage1", "render"} => key'[w] \in Keys
    PROVE  Sound'
<1>1. status' \in [Analyses -> Statuses] /\ status'[a] = st
      /\ \A b \in Analyses : status[b] = "success" => status'[b] = "success"
  BY DEF TypeOK
<1>2. attached[a] = NoEvent
  BY DEF Sound, AttachedIsGood
<1>3. (Unique /\ AttachedIsGood /\ \A d \in Users \X Events : RowIsSound(d))'
  BY <1>1 DEF Sound, Unique, AttachedIsGood, RowIsSound
<1>4. ASSUME NEW v \in Workers, v # w
      PROVE  (OwnsAnalysis(v) /\ KnowsEvent(v) /\ NamesAttached(v))'
  <2>1. pc[v] \in Deciding => status'[made[v]] = status[made[v]]
    BY <1>4 DEF TypeOK, Sound, OwnsAnalysis
  <2>2. OwnsAnalysis(v)'
    BY <1>4, <2>1 DEF Sound, OwnsAnalysis
  <2>3. (KnowsEvent(v) /\ NamesAttached(v))'
    BY <1>1, <1>4 DEF Sound, KnowsEvent, NamesAttached
  <2> QED BY <2>2, <2>3
<1>5. (OwnsAnalysis(w) /\ KnowsEvent(w) /\ NamesAttached(w))'
  BY <1>1, <1>2 DEF OwnsAnalysis, KnowsEvent, NamesAttached
<1>6. Apart'
  <2> SUFFICES ASSUME NEW u \in Workers, NEW v \in Workers, u # v,
                      pc'[u] \in Deciding, pc'[v] \in Deciding
               PROVE  made'[u] # made'[v]
    BY DEF Apart
  <2> QED BY DEF Sound, Apart
<1> QED BY <1>3, <1>4, <1>5, <1>6 DEF Sound

\* The steps that ask the model, or take its answer.
LEMMA DecisionSound ==
    ASSUME TypeOK, Sound, NEW w \in Workers,
           \/ AskSignificance(w) \/ Significant(w) \/ CallFails(w) \/ Decline(w)
           \/ RecordDecline(w) \/ \E k \in Keys : Rendered(w, k)
    PROVE  Sound'
<1> USE DEF Goto, localVars, tableVars
<1>1. CASE AskSignificance(w)
  <2>1. PICK a \in Analyses :
            /\ status[a] = "free" /\ status' = [status EXCEPT ![a] = "asked"]
            /\ made' = [made EXCEPT ![w] = a]
    BY <1>1 DEF AskSignificance
  <2>2. UNCHANGED <<attached, eventKey, alert, key, event, named>> /\ pc' = [pc EXCEPT ![w] = "stage1"]
    BY <1>1 DEF AskSignificance
  <2>3. \A v \in Workers \ {w} : pc[v] \in Deciding => made[v] # a
    BY <2>1 DEF Sound, OwnsAnalysis
  <2>4. pc'[w] = "stage1" /\ made'[w] = a
    BY <2>1, <2>2 DEF TypeOK
  <2>5. \A v \in Workers \ {w} :
               /\ pc'[v] = pc[v] /\ made'[v] = made[v] /\ key'[v] = key[v]
               /\ event'[v] = event[v] /\ named'[v] = named[v]
               /\ pc[v] \in Deciding => made[v] # a
    BY <2>1, <2>2, <2>3 DEF TypeOK
  <2>6. pc'[w] \notin Named \cup {"analysis", "attach"}
    BY <2>4 DEF Named
  <2>7. "asked" \in Statuses /\ status[a] # "success"
    BY <2>1 DEF Statuses
  <2> HIDE DEF Goto, localVars, tableVars
  <2> QED BY <2>1, <2>2, <2>4, <2>5, <2>6, <2>7, StatusStep
<1>2. CASE Significant(w) \/ RecordDecline(w)
  <2>1. /\ UNCHANGED <<tableVars, made, key, event, named>>
        /\ \/ pc[w] = "stage1" /\ pc' = [pc EXCEPT ![w] = "render"]
           \/ pc' = [pc EXCEPT ![w] = "save"]
    BY <1>2 DEF Significant, RecordDecline
  <2>2. pc'[w] \in {"render", "save"} /\ (pc'[w] = "render" => pc[w] = "stage1")
    BY <2>1 DEF TypeOK
  <2>3. \A v \in Workers \ {w} : pc'[v] = pc[v]
    BY <2>1 DEF TypeOK
  <2>4. KnowsEvent(w)' /\ NamesAttached(w)'
    BY <2>2 DEF KnowsEvent, NamesAttached, Named
  <2> QED BY <2>1, <2>2, <2>3, <2>4, LocalStep DEF Deciding
<1>3. ASSUME NEW st \in Statuses, NEW p \in Points, pc[w] \in {"stage1", "render"},
             status' = [status EXCEPT ![made[w]] = st], pc' = [pc EXCEPT ![w] = p],
             UNCHANGED <<attached, eventKey, alert, made, event, named>>,
             \A v \in Workers \ {w} : key'[v] = key[v],
             \/ p \in {"save", "declined"}
             \/ p = "event" /\ st = "success" /\ key'[w] \in Keys
      PROVE  Sound'
  <2>1. made[w] \in Analyses /\ status[made[w]] = "asked"
    BY <1>3 DEF Sound, OwnsAnalysis, Deciding
  <2>2. \A v \in Workers \ {w} : pc[v] \in Deciding => made[v] # made[w]
    BY <1>3 DEF Sound, Apart, Deciding
  <2>3. pc'[w] = p /\ \A v \in Workers \ {w} : pc'[v] = pc[v]
    BY <1>3 DEF TypeOK
  <2>4. \A v \in Workers \ {w} :
               /\ pc'[v] = pc[v] /\ made'[v] = made[v] /\ key'[v] = key[v]
               /\ event'[v] = event[v] /\ named'[v] = named[v]
               /\ pc[v] \in Deciding => made[v] # made[w]
    BY <1>3, <2>2, <2>3
  <2>5. pc'[w] \notin Named \cup {"analysis", "attach"}
    BY <1>3, <2>3 DEF Named
  <2>6. status[made[w]] # "success" /\ made'[w] = made[w]
    BY <1>3, <2>1
  <2>7. pc'[w] \in Deciding =>
            /\ st = "success" /\ key'[w] \in Keys /\ pc'[w] \notin {"stage1", "render"}
    BY <1>3, <2>3 DEF Deciding
  <2> HIDE DEF Goto, localVars, tableVars
  <2> QED BY <1>3, <2>1, <2>4, <2>5, <2>6, <2>7, StatusStep
<1>4. CASE CallFails(w) \/ Decline(w)
  BY <1>3, <1>4 DEF CallFails, Decline, Statuses, Points
<1>5. ASSUME NEW k \in Keys, Rendered(w, k) PROVE Sound'
  <2>1. key'[w] = k /\ \A v \in Workers \ {w} : key'[v] = key[v]
    BY <1>5 DEF Rendered, TypeOK
  <2>2. /\ pc[w] \in {"stage1", "render"}
        /\ status' = [status EXCEPT ![made[w]] = "success"] /\ pc' = [pc EXCEPT ![w] = "event"]
        /\ UNCHANGED <<attached, eventKey, alert, made, event, named>>
    BY <1>5 DEF Rendered
  <2>3. "success" \in Statuses /\ "event" \in Points
    BY DEF Statuses, Points, Deciding
  <2> HIDE DEF Goto, localVars, tableVars
  <2> QED BY <1>3, <1>5, <2>1, <2>2, <2>3
<1> QED BY <1>1, <1>2, <1>4, <1>5

\* The unique key of the events and the read after a lost race.
LEMMA EventSound ==
    ASSUME TypeOK, Sound, NEW w \in Workers, FindEvent(w) \/ InsertEvent(w)
    PROVE  Sound'
<1> USE MarketCheckAssumption DEF Goto, localVars, tableVars
<1>1. /\ UNCHANGED <<status, about, attached, alert, made, key, named>>
      /\ pc[w] \in {"event", "insert"}
      /\ \A v \in Workers \ {w} : pc'[v] = pc[v] /\ event'[v] = event[v]
  BY DEF FindEvent, InsertEvent, TypeOK
<1>2. key[w] \in Keys
  BY <1>1 DEF Sound, OwnsAnalysis, Deciding
<1>3. CASE UNCHANGED eventKey
  <2>1. \/ pc'[w] = "insert"
        \/ pc'[w] = "analysis" /\ event'[w] \in Rows(key[w])
    BY <1>1, <1>3 DEF FindEvent, InsertEvent, Rows, TypeOK
  <2>2. KnowsEvent(w)' /\ NamesAttached(w)'
    BY <1>2, <1>3, <2>1 DEF KnowsEvent, NamesAttached, Named, Rows
  <2> QED BY <1>1, <1>3, <2>1, <2>2, LocalStep DEF Deciding
<1>4. CASE eventKey' # eventKey
  <2>1. PICK e \in Rows(NoKey) :
            /\ Rows(key[w]) = {} /\ eventKey' = [eventKey EXCEPT ![e] = key[w]]
            /\ event' = [event EXCEPT ![w] = e] /\ pc' = [pc EXCEPT ![w] = "analysis"]
    BY <1>4 DEF FindEvent, InsertEvent
  <2>2. /\ e \in Events /\ eventKey[e] = NoKey /\ \A f \in Events : eventKey[f] # key[w]
    BY <2>1 DEF Rows
  <2>3. /\ eventKey'[e] = key[w] /\ \A f \in Events \ {e} : eventKey'[f] = eventKey[f]
        /\ event'[w] = e /\ pc'[w] = "analysis"
    BY <2>1, <2>2 DEF TypeOK
  <2>4. \A f \in Events : eventKey[f] # NoKey => eventKey'[f] # NoKey
    BY <2>2, <2>3
  <2>5. (Unique /\ AttachedIsGood)'
    <3>1. Unique'
      BY <1>1, <2>2, <2>3 DEF Sound, Unique
    <3>2. ASSUME NEW a \in Analyses, attached[a] # NoEvent
          PROVE  status[a] = "success" /\ eventKey'[attached[a]] # NoKey
      BY <2>4, <3>2 DEF Sound, AttachedIsGood, TypeOK
    <3> QED BY <1>1, <3>1, <3>2 DEF AttachedIsGood
  <2>6. ASSUME NEW v \in Workers PROVE (OwnsAnalysis(v) /\ NamesAttached(v))'
    <3>1. CASE v = w
      BY <1>1, <1>2, <2>3, <3>1 DEF Sound, OwnsAnalysis, NamesAttached, Named, Deciding
    <3>2. CASE v # w
      BY <1>1, <3>2 DEF Sound, OwnsAnalysis, NamesAttached
    <3> QED BY <3>1, <3>2
  <2>7. ASSUME NEW v \in Workers PROVE KnowsEvent(v)'
    <3>1. CASE v = w
      BY <1>2, <2>2, <2>3, <3>1 DEF KnowsEvent
    <3>2. CASE v # w
      BY <1>1, <2>4, <3>2 DEF Sound, KnowsEvent
    <3> QED BY <3>1, <3>2
  <2>8. Apart'
    <3> SUFFICES ASSUME NEW u \in Workers, NEW v \in Workers, u # v,
                        pc'[u] \in Deciding, pc'[v] \in Deciding
                 PROVE  made'[u] # made'[v]
      BY DEF Apart
    <3>1. pc[u] \in Deciding /\ pc[v] \in Deciding
      BY <1>1 DEF Deciding
    <3> QED BY <1>1, <3>1 DEF Sound, Apart
  <2>9. (\A d \in Users \X Events : RowIsSound(d))'
    BY <1>1 DEF Sound, RowIsSound
  <2> QED BY <2>5, <2>6, <2>7, <2>8, <2>9 DEF Sound
<1> QED BY <1>3, <1>4

\* The partial unique index of the attached analyses.
LEMMA AnalysisSound ==
    ASSUME TypeOK, Sound, NEW w \in Workers, FindAnalysis(w) \/ Attach(w)
    PROVE  Sound'
<1> USE MarketCheckAssumption DEF Goto, localVars, tableVars
<1>1. /\ UNCHANGED <<status, about, eventKey, alert, made, key, event>>
      /\ pc[w] \in {"analysis", "attach"}
      /\ \A v \in Workers \ {w} : pc'[v] = pc[v] /\ named'[v] = named[v]
  BY DEF FindAnalysis, Attach, TypeOK
<1>2. /\ event[w] \in Events /\ eventKey[event[w]] # NoKey
      /\ made[w] \in Analyses /\ attached[made[w]] = NoEvent /\ status[made[w]] = "success"
      /\ key[w] \in Keys
  BY <1>1 DEF Sound, KnowsEvent, OwnsAnalysis, Deciding
<1>3. CASE UNCHANGED attached
  <2>1. \/ pc'[w] = "attach"
        \/ /\ pc'[w] = "recipients" /\ named'[w] \in AttachedTo(event[w])
    <3>1. CASE FindAnalysis(w)
      BY <3>1 DEF FindAnalysis, AttachedTo, TypeOK
    <3>2. CASE Attach(w)
      <4>1. CASE AttachedTo(event[w]) = {}
        <5>1. attached' = [attached EXCEPT ![made[w]] = event[w]]
          BY <3>2, <4>1 DEF Attach
        <5>2. attached'[made[w]] = event[w]
          BY <1>2, <5>1 DEF TypeOK
        <5> QED BY <1>2, <1>3, <5>2
      <4>2. CASE AttachedTo(event[w]) # {}
        BY <3>2, <4>2 DEF Attach, AttachedTo, TypeOK
      <4> QED BY <4>1, <4>2
    <3> QED BY <3>1, <3>2
  <2>2. KnowsEvent(w)' /\ NamesAttached(w)'
    BY <1>1, <1>2, <1>3, <2>1 DEF KnowsEvent, NamesAttached, Named, AttachedTo
  <2> QED BY <1>1, <1>3, <2>1, <2>2, LocalStep DEF Deciding
<1>4. CASE attached' # attached
  <2>1. /\ AttachedTo(event[w]) = {} /\ attached' = [attached EXCEPT ![made[w]] = event[w]]
        /\ named' = [named EXCEPT ![w] = made[w]] /\ pc' = [pc EXCEPT ![w] = "recipients"]
    BY <1>4 DEF FindAnalysis, Attach
  <2>2. /\ attached'[made[w]] = event[w]
        /\ \A a \in Analyses \ {made[w]} : attached'[a] = attached[a]
        /\ named'[w] = made[w] /\ pc'[w] = "recipients"
    BY <1>2, <2>1 DEF TypeOK
  <2>3. \A a \in Analyses : attached[a] # event[w]
    BY <1>2, <2>1 DEF AttachedTo, Sound, AttachedIsGood
  <2>4. \A a \in Analyses : attached[a] # NoEvent => attached'[a] = attached[a]
    BY <1>2, <2>2
  <2>5. Unique'
    BY <1>1, <2>2, <2>3 DEF Sound, Unique
  <2>6. AttachedIsGood'
    BY <1>1, <1>2, <2>2 DEF Sound, AttachedIsGood
  <2>7. ASSUME NEW v \in Workers
        PROVE  (OwnsAnalysis(v) /\ NamesAttached(v) /\ KnowsEvent(v))'
    <3>1. CASE v = w
      BY <1>1, <1>2, <2>2, <3>1 DEF OwnsAnalysis, NamesAttached, KnowsEvent, Named, Deciding
    <3>2. CASE v # w
      <4>1. OwnsAnalysis(v)'
        BY <1>1, <2>2, <3>2 DEF Sound, OwnsAnalysis, Apart, Deciding
      <4>2. KnowsEvent(v)'
        BY <1>1, <3>2 DEF Sound, KnowsEvent
      <4>3. NamesAttached(v)'
        BY <1>1, <2>4, <3>2 DEF Sound, NamesAttached, KnowsEvent
      <4> QED BY <4>1, <4>2, <4>3
    <3> QED BY <3>1, <3>2
  <2>8. Apart'
    <3> SUFFICES ASSUME NEW u \in Workers, NEW v \in Workers, u # v,
                        pc'[u] \in Deciding, pc'[v] \in Deciding
                 PROVE  made'[u] # made'[v]
      BY DEF Apart
    <3>1. pc[u] \in Deciding /\ pc[v] \in Deciding
      BY <1>1 DEF Deciding
    <3> QED BY <1>1, <3>1 DEF Sound, Apart
  <2>9. ASSUME NEW d \in Users \X Events PROVE RowIsSound(d)'
    <3>1. d[2] \in Events
      OBVIOUS
    <3> QED BY <1>1, <2>4, <3>1 DEF Sound, RowIsSound
  <2> QED BY <2>5, <2>6, <2>7, <2>8, <2>9 DEF Sound
<1> QED BY <1>3, <1>4

\* The steps of the fan-out.
LEMMA FanOutSound ==
    ASSUME TypeOK, Sound, NEW w \in Workers, Resolve(w) \/ \E u \in Users : Deliver(w, u)
    PROVE  Sound'
<1> USE DEF Goto, localVars, tableVars
<1>1. CASE Resolve(w)
  <2>1. /\ UNCHANGED <<tableVars, made, key, event, named>> /\ pc[w] = "recipients"
        /\ pc' = [pc EXCEPT ![w] = pc'[w]] /\ pc'[w] \in {"save", "fanout"}
    BY <1>1 DEF Resolve, TypeOK
  <2>2. KnowsEvent(w)' /\ NamesAttached(w)'
    <3>1. /\ event[w] \in Events /\ eventKey[event[w]] # NoKey
          /\ named[w] \in Analyses /\ attached[named[w]] = event[w]
          /\ made[w] \in Analyses /\ status[made[w]] = "success"
      BY <2>1 DEF Sound, KnowsEvent, NamesAttached, Named
    <3>2. UNCHANGED <<status, attached, eventKey, made, event, named>>
      BY <2>1
    <3> QED BY <3>1, <3>2 DEF KnowsEvent, NamesAttached
  <2>3. \A v \in Workers \ {w} : pc'[v] = pc[v]
    BY <2>1 DEF TypeOK
  <2>4. pc'[w] \notin Deciding
    BY <2>1 DEF Deciding
  <2> QED BY <2>1, <2>2, <2>3, <2>4, LocalStep
<1>2. ASSUME NEW u \in Users, Deliver(w, u) PROVE Sound'
  <2>1. /\ UNCHANGED <<status, attached, eventKey, pc, made, key, event, named>>
        /\ pc[w] = "fanout"
        /\ \/ UNCHANGED alert
           \/ alert' = [alert EXCEPT ![Row(w, u)] = [names |-> named[w], tells |-> made[w]]]
    BY <1>2 DEF Deliver
  <2>2. (Unique /\ AttachedIsGood /\ Apart)'
    BY <2>1 DEF Sound, Unique, AttachedIsGood, Apart
  <2>3. (\A v \in Workers : OwnsAnalysis(v) /\ KnowsEvent(v) /\ NamesAttached(v))'
    BY <2>1 DEF Sound, OwnsAnalysis, KnowsEvent, NamesAttached
  <2>4. /\ named[w] \in Analyses /\ attached[named[w]] = event[w]
        /\ made[w] \in Analyses /\ status[made[w]] = "success"
    BY <2>1 DEF Sound, NamesAttached, Named
  <2>5. ASSUME NEW d \in Users \X Events PROVE RowIsSound(d)'
    <3>1. CASE alert'[d] = alert[d]
      BY <2>1, <3>1 DEF Sound, RowIsSound
    <3>2. CASE alert'[d] # alert[d]
      <4>1. d = Row(w, u) /\ alert'[d] = [names |-> named[w], tells |-> made[w]]
        BY <2>1, <3>2 DEF TypeOK
      <4>2. d[2] = event[w]
        BY <4>1 DEF Row
      <4> QED BY <2>1, <2>4, <4>1, <4>2 DEF RowIsSound
    <3> QED BY <3>1, <3>2
  <2> QED BY <2>2, <2>3, <2>5 DEF Sound
<1> QED BY <1>1, <1>2

\* A context is passed over only for what happened to it.
LEMMA SilenceStep ==
    ASSUME TypeOK, SilenceIsEarned, [Next]_vars
    PROVE  SilenceIsEarned'
<1> USE DEF tableVars, clockVars, localVars
<1>1. ASSUME NEW w \in Workers, SkipContext(w) PROVE SilenceIsEarned'
  <2>1. /\ started[w] \in Nat /\ ctx[w] \in Contexts
        /\ noSendAt[ctx[w]] >= started[w] - Cooldown /\ noSendAt[ctx[w]] \in Int
    BY <1>1 DEF SkipContext, RecentNoSend, TypeOK
  <2>2. noSendAt[ctx[w]] # Never
    BY <2>1, MarketCheckAssumption DEF Never
  <2>3. noSendAt' = [noSendAt EXCEPT ![ctx[w]] = now] /\ withheld' = withheld
    BY <1>1 DEF SkipContext
  <2>4. \A c \in Contexts : c # ctx[w] => noSendAt'[c] = noSendAt[c]
    BY <2>3 DEF TypeOK
  <2> QED BY <2>1, <2>2, <2>3, <2>4 DEF SilenceIsEarned
<1>2. ASSUME NEW w \in Workers,
             noSendAt' = [noSendAt EXCEPT ![ctx[w]] = now], withheld' = withheld \cup {ctx[w]}
      PROVE  SilenceIsEarned'
  BY <1>2 DEF SilenceIsEarned, TypeOK
<1>3. CASE UNCHANGED <<noSendAt, withheld>>
  BY <1>3 DEF SilenceIsEarned
<1>4. ASSUME NEW w \in Workers, Check(w) PROVE SilenceIsEarned'
  <2>1. CASE RecordDecline(w) \/ Resolve(w) \/ \E u \in Users : Deliver(w, u)
    BY <1>2, <1>3, <2>1 DEF RecordDecline, Resolve, Deliver, HoldBack
  <2>2. CASE SkipContext(w)
    BY <1>1, <2>2
  <2>3. CASE \/ \E c \in Contexts : Start(w, c)
             \/ ReuseAnalysis(w) \/ NothingToReuse(w) \/ AskSignificance(w) \/ Significant(w)
             \/ CallFails(w) \/ Decline(w) \/ \E k \in Keys : Rendered(w, k)
    BY <1>3, <2>3 DEF Start, ReuseAnalysis, NothingToReuse, AskSignificance, Significant,
                      CallFails, Decline, Rendered
  <2>4. CASE \/ FindEvent(w) \/ InsertEvent(w) \/ FindAnalysis(w) \/ Attach(w)
             \/ SaveAfterFanOut(w) \/ Save(w) \/ Abort(w)
    BY <1>3, <2>4 DEF FindEvent, InsertEvent, FindAnalysis, Attach, SaveAfterFanOut, Save, Abort
  <2> QED BY <1>4, <2>1, <2>2, <2>3, <2>4 DEF Check
<1>5. CASE Tick \/ UNCHANGED vars
  BY <1>3, <1>5 DEF Tick, vars
<1> QED BY <1>4, <1>5 DEF Next

LEMMA CheckSound ==
    ASSUME TypeOK, Sound, NEW w \in Workers, Check(w)
    PROVE  Sound'
<1>1. CASE \/ \E c \in Contexts : Start(w, c)
           \/ ReuseAnalysis(w) \/ NothingToReuse(w) \/ SkipContext(w)
           \/ SaveAfterFanOut(w) \/ Save(w) \/ Abort(w)
  BY <1>1, ReuseSound
<1>2. CASE \/ AskSignificance(w) \/ Significant(w) \/ CallFails(w) \/ Decline(w)
           \/ RecordDecline(w) \/ \E k \in Keys : Rendered(w, k)
  BY <1>2, DecisionSound
<1>3. CASE FindEvent(w) \/ InsertEvent(w)
  BY <1>3, EventSound
<1>4. CASE FindAnalysis(w) \/ Attach(w)
  BY <1>4, AnalysisSound
<1>5. CASE Resolve(w) \/ \E u \in Users : Deliver(w, u)
  BY <1>5, FanOutSound
<1> QED BY <1>1, <1>2, <1>3, <1>4, <1>5 DEF Check

LEMMA OtherSound ==
    ASSUME Sound, Tick \/ UNCHANGED vars
    PROVE  Sound'
<1>1. UNCHANGED <<status, about, attached, eventKey, alert, pc, made, key, event, named>>
  BY DEF Tick, vars, tableVars, localVars
<1>2. (Unique /\ AttachedIsGood /\ Apart)'
  BY <1>1 DEF Sound, Unique, AttachedIsGood, Apart
<1>3. ASSUME NEW w \in Workers PROVE (OwnsAnalysis(w) /\ KnowsEvent(w) /\ NamesAttached(w))'
  BY <1>1 DEF Sound, OwnsAnalysis, KnowsEvent, NamesAttached
<1>4. ASSUME NEW d \in Users \X Events PROVE RowIsSound(d)'
  BY <1>1 DEF Sound, RowIsSound
<1> QED BY <1>2, <1>3, <1>4 DEF Sound

LEMMA StepIInv == IInv /\ [Next]_vars => IInv'
<1>1. IInv <=> TypeOK /\ Sound /\ SilenceIsEarned
  BY DEF IInv, Sound
<1>2. IInv' <=> TypeOK' /\ Sound' /\ SilenceIsEarned'
  BY <1>1, PTL
<1>3. TypeOK /\ Sound /\ [Next]_vars => Sound'
  BY CheckSound, OtherSound DEF Next
<1> QED BY <1>1, <1>2, <1>3, TypeStep, SilenceStep

LEMMA SpecIInv == Spec => []IInv
BY InitIInv, StepIInv, PTL DEF Spec

-----------------------------------------------------------------------------
\* Every variable keeps its type, for any checks, contexts, keys and users.
THEOREM TypeCorrect == Spec => []TypeOK
BY SpecIInv, PTL DEF IInv

\* No user gets alerts of two events with one instance key, however many
\* checks detect the event at once (get_or_create_market_event).
THEOREM KeyAlertsOnce == Spec => []OneAlertPerKey
<1>1. IInv => OneAlertPerKey
  <2> SUFFICES ASSUME IInv, NEW u \in Users, NEW e \in Events, NEW f \in Events,
                      alert[<<u, e>>] # NoAlert, alert[<<u, f>>] # NoAlert,
                      eventKey[e] = eventKey[f]
               PROVE  e = f
    BY DEF OneAlertPerKey
  <2>1. RowIsSound(<<u, e>>)
    BY DEF IInv
  <2>2. eventKey[e] # NoKey
    BY <2>1, MarketCheckAssumption DEF RowIsSound, IInv, AttachedIsGood
  <2> QED BY <2>2 DEF IInv, Unique
<1> QED BY <1>1, SpecIInv, PTL

\* All alerts of an event name the one analysis attached to it, whichever
\* check won (attach_analysis_to_market_event).
THEOREM EventHasOneAnalysis == Spec => []OneAnalysisManyAlerts
<1>1. IInv => OneAnalysisManyAlerts
  <2> SUFFICES ASSUME IInv, NEW u \in Users, NEW e \in Events, alert[<<u, e>>] # NoAlert
               PROVE  /\ alert[<<u, e>>].names \in AttachedTo(e)
                      /\ \A a \in AttachedTo(e) : a = alert[<<u, e>>].names
    BY DEF OneAnalysisManyAlerts
  <2>1. RowIsSound(<<u, e>>)
    BY DEF IInv
  <2>2. /\ alert[<<u, e>>].names \in Analyses /\ attached[alert[<<u, e>>].names] = e
    BY <2>1 DEF RowIsSound
  <2>3. e # NoEvent
    BY MarketCheckAssumption
  <2> QED BY <2>2, <2>3 DEF IInv, AttachedIsGood, Unique, AttachedTo
<1> QED BY <1>1, SpecIInv, PTL

\* Whatever path it took, the text of an alert was rendered and validated.
THEOREM TextWasRendered == Spec => []AlertWasRendered
<1>1. IInv => AlertWasRendered
  <2> SUFFICES ASSUME IInv, NEW u \in Users, NEW e \in Events, alert[<<u, e>>] # NoAlert
               PROVE  /\ alert[<<u, e>>].tells \in Analyses
                      /\ status[alert[<<u, e>>].tells] = "success"
    BY DEF AlertWasRendered
  <2>1. RowIsSound(<<u, e>>)
    BY DEF IInv
  <2> QED BY <2>1 DEF RowIsSound
<1> QED BY <1>1, SpecIInv, PTL

\* Reuse of a decision, even of one that was reused itself, starts from a
\* decision about that context.
THEOREM SilenceWasEarned == Spec => []SilenceIsEarned
BY SpecIInv, PTL DEF IInv

-----------------------------------------------------------------------------
(***************************************************************************)
(* EventHealth: what /health says of the analysis.                         *)
(***************************************************************************)

\* What a request has read is still so when it answers: successes are only
\* added, and the clock stands still, so one that the request has not seen is
\* of the present.
ReadingIs ==
    /\ reading = "rows" /\ sawSuccess # NoSuccess =>
          /\ sawSuccess \in SuccessTimes
          /\ \A t \in SuccessTimes : t <= sawSuccess \/ t = healthTime
    /\ reading = "idle" => sawStreak = 0

HealthInv == TypeOKHealth /\ ReadingIs

LEMMA InstantsFinite ==
    /\ Instants \subseteq Nat /\ IsFiniteSet(Instants)
    /\ InWindow \subseteq Instants /\ Covered24h \subseteq Instants
    /\ IsFiniteSet(InWindow) /\ IsFiniteSet(Covered24h)
<1>1. Instants \subseteq Nat /\ IsFiniteSet(Instants)
  BY HealthAssumption, FS_Interval DEF Instants
<1>2. InWindow \subseteq Instants /\ Covered24h \subseteq Instants
  BY DEF InWindow, Covered24h
<1> QED BY <1>1, <1>2, FS_Subset

\* A sum of numbers that are not negative is one, and is zero only if all are.
LEMMA SumOfNaturals ==
    ASSUME NEW f, NEW S, IsFiniteSet(S), \A x \in S : f[x] \in Nat
    PROVE  /\ SumFunctionOnSet(f, S) \in Nat
           /\ SumFunctionOnSet(f, S) = 0 => \A x \in S : f[x] = 0
<1>1. ASSUME NEW T \in SUBSET S PROVE SumFunctionOnSet(f, T) \in Nat
  <2>1. IsFiniteSet(T)
    BY FS_Subset
  <2>2. SumFunctionOnSet(f, T) \in Int
    BY <2>1, SumIsInt
  <2>3. SumFunctionOnSet(f, {}) <= SumFunctionOnSet(f, T)
    BY <2>1, SumMonotone
  <2> QED BY <2>2, <2>3, SumOfNone
<1>2. ASSUME NEW a \in S PROVE SumFunctionOnSet(f, S) = f[a] + SumFunctionOnSet(f, S \ {a})
  BY SumWithout
<1>3. ASSUME SumFunctionOnSet(f, S) = 0, NEW a \in S PROVE f[a] = 0
  <2>1. SumFunctionOnSet(f, S \ {a}) \in Nat
    BY <1>1
  <2> HIDE DEF SumFunctionOnSet
  <2> QED BY <1>2, <1>3, <2>1
<1> QED BY <1>1, <1>3

LEMMA CountsTyped ==
    ASSUME TypeOKHealth
    PROVE  /\ Successes \in Nat /\ Failures \in Nat /\ Unknowns \in Nat
           /\ Gaps \in Nat /\ (Gaps = 0 => \A t \in Covered24h : unmatched[t] = 0)
<1>1. \A k \in Kinds : Written(k, InWindow) \in Nat
  <2> SUFFICES ASSUME NEW k \in Kinds PROVE Written(k, InWindow) \in Nat
    OBVIOUS
  <2> DEFINE f == [t \in Instants |-> outcomes[t][k]]
  <2>1. \A t \in InWindow : f[t] \in Nat
    BY InstantsFinite DEF TypeOKHealth
  <2> HIDE DEF f
  <2>2. SumFunctionOnSet(f, InWindow) \in Nat
    BY <2>1, InstantsFinite, SumOfNaturals
  <2> QED BY <2>2 DEF f, Written
<1>2. \A t \in Covered24h : unmatched[t] \in Nat
  BY InstantsFinite DEF TypeOKHealth
<1>3. Gaps \in Nat /\ (Gaps = 0 => \A t \in Covered24h : unmatched[t] = 0)
  BY <1>2, InstantsFinite, SumOfNaturals DEF Gaps
<1> QED BY <1>1, <1>3 DEF Successes, Failures, Unknowns, Kinds

LEMMA HealthInit == InitHealth => HealthInv
<1> SUFFICES ASSUME InitHealth PROVE HealthInv
  OBVIOUS
<1>1. Instants \subseteq Nat /\ 0 \in Instants
  BY HealthAssumption DEF Instants
<1> QED BY <1>1 DEF InitHealth, HealthInv, TypeOKHealth, ReadingIs

LEMMA HealthTyped == HealthInv /\ [NextHealth]_healthVars => TypeOKHealth'
<1> SUFFICES ASSUME HealthInv, [NextHealth]_healthVars PROVE TypeOKHealth'
  OBVIOUS
<1>t. TypeOKHealth /\ Instants \subseteq Nat /\ Kinds = {"success", "failure", "unknown"}
  BY InstantsFinite DEF HealthInv, Kinds
<1>1. ASSUME UNCHANGED <<outcomes, unmatched>>,
             healthTime' \in Instants, running' \in {"nothing", "called", "skipped", "succeeded", "failed"},
             streak' \in Nat, sawStreak' \in Nat, reading' \in {"idle", "success", "rows"},
             sawSuccess' \in Instants \cup {NoSuccess},
             shown' \in [state : {"ok", "degraded", "failed", "unknown"}, rows : BOOLEAN]
      PROVE  TypeOKHealth'
  BY <1>1, <1>t DEF TypeOKHealth
<1>2. CASE BeginOperation
  <2>1. unmatched' \in [Instants -> Nat] /\ running' \in {"called", "skipped"}
    BY <1>2, <1>t DEF BeginOperation, TypeOKHealth
  <2> QED BY <1>2, <1>t, <2>1 DEF BeginOperation, TypeOKHealth
<1>3. ASSUME NEW kind \in Kinds, WriteOutcome(kind),
             UNCHANGED <<healthTime, streak, reading, sawStreak, sawSuccess, shown>>,
             running' \in {"nothing", "failed"},
             unmatched' = unmatched \/ (Match /\ unmatched[healthTime] > 0)
      PROVE  TypeOKHealth'
  <2>1. outcomes' \in [Instants -> [Kinds -> Nat]]
    BY <1>3, <1>t DEF WriteOutcome, TypeOKHealth
  <2>2. unmatched' \in [Instants -> Nat]
    BY <1>3, <1>t DEF Match, TypeOKHealth
  <2> QED BY <1>3, <1>t, <2>1, <2>2 DEF TypeOKHealth
<1>4. CASE WriteSuccess
  BY <1>3, <1>4, <1>t DEF WriteSuccess
<1>5. CASE WriteFailure
  BY <1>3, <1>5, <1>t DEF WriteFailure
<1>6. CASE WriteSkip
  BY <1>3, <1>6, <1>t DEF WriteSkip
<1>7. CASE Succeed \/ CountFailure \/ LoseOutcome
  BY <1>1, <1>7, <1>t DEF Succeed, CountFailure, LoseOutcome, TypeOKHealth
<1>8. CASE BeginReport
  BY <1>1, <1>8, <1>t DEF BeginReport, operationVars, TypeOKHealth
<1>9. CASE ReadSuccess
  <2>1. sawSuccess' \in Instants \cup {NoSuccess}
    BY <1>9 DEF ReadSuccess, SuccessTimes
  <2> QED BY <1>1, <1>9, <1>t, <2>1 DEF ReadSuccess, operationVars, TypeOKHealth
<1>10. ASSUME NEW state \in {"ok", "degraded", "failed", "unknown"}, NEW complete \in BOOLEAN,
              Answer(state, complete)
       PROVE  TypeOKHealth'
  <2>1. shown' \in [state : {"ok", "degraded", "failed", "unknown"}, rows : BOOLEAN]
    BY <1>10 DEF Answer
  <2> QED BY <1>1, <1>10, <1>t, <2>1 DEF Answer, operationVars, TypeOKHealth
<1>11. CASE ReadRows
  <2>1. StateFromRows \in {"ok", "degraded", "failed", "unknown"}
    BY DEF StateFromRows, CounterState
  <2> QED BY <1>10, <1>11, <2>1 DEF ReadRows
<1>12. CASE RowsUnavailable
  <2>1. StateWithoutRows \in {"ok", "degraded", "failed", "unknown"}
    BY DEF StateWithoutRows
  <2> QED BY <1>10, <1>12, <2>1 DEF RowsUnavailable
<1>13. CASE PassHealthTime
  <2>1. healthTime' \in Instants
    BY <1>13, <1>t, HealthAssumption DEF PassHealthTime, Instants, TypeOKHealth
  <2> QED BY <1>1, <1>13, <1>t, <2>1 DEF PassHealthTime, operationVars, TypeOKHealth
<1>14. CASE RestartBotProcess
  BY <1>1, <1>14, <1>t DEF RestartBotProcess, TypeOKHealth
<1>15. CASE UNCHANGED healthVars
  BY <1>1, <1>15, <1>t DEF healthVars, operationVars, TypeOKHealth
<1> QED BY <1>2, <1>4, <1>5, <1>6, <1>7, <1>8, <1>9, <1>11, <1>12, <1>13, <1>14, <1>15 DEF NextHealth

LEMMA HealthRead == HealthInv /\ [NextHealth]_healthVars => ReadingIs'
<1> SUFFICES ASSUME HealthInv, [NextHealth]_healthVars PROVE ReadingIs'
  OBVIOUS
<1>t. TypeOKHealth /\ ReadingIs /\ TypeOKHealth' /\ Instants \subseteq Nat
  BY InstantsFinite, HealthTyped DEF HealthInv
<1>1. ASSUME UNCHANGED <<outcomes, healthTime, reading, sawStreak, sawSuccess>> PROVE ReadingIs'
  BY <1>1, <1>t DEF ReadingIs, SuccessTimes
<1>2. ASSUME NEW kind \in Kinds, WriteOutcome(kind),
             UNCHANGED <<healthTime, reading, sawStreak, sawSuccess>>
      PROVE  ReadingIs'
  <2>1. \A t \in Instants : t # healthTime => outcomes'[t]["success"] = outcomes[t]["success"]
    BY <1>2, <1>t DEF WriteOutcome, TypeOKHealth
  <2>2. outcomes[healthTime]["success"] > 0 => outcomes'[healthTime]["success"] > 0
    BY <1>2, <1>t DEF WriteOutcome, TypeOKHealth, Kinds
  <2>3. \A t \in Instants : t \in SuccessTimes => t \in SuccessTimes'
    BY <2>1, <2>2 DEF SuccessTimes
  <2>4. \A t \in SuccessTimes' : t \in SuccessTimes \/ t = healthTime
    BY <2>1 DEF SuccessTimes
  <2> QED BY <1>2, <1>t, <2>3, <2>4 DEF ReadingIs, SuccessTimes
<1>3. CASE BeginOperation \/ Succeed \/ CountFailure \/ LoseOutcome
  BY <1>1, <1>3 DEF BeginOperation, Succeed, CountFailure, LoseOutcome
<1>4. CASE WriteSuccess \/ WriteFailure \/ WriteSkip
  BY <1>2, <1>4 DEF WriteSuccess, WriteFailure, WriteSkip, Kinds
<1>5. CASE BeginReport
  BY <1>5 DEF BeginReport, ReadingIs
<1>6. CASE ReadSuccess
  <2>1. /\ \/ sawSuccess' = NoSuccess
           \/ sawSuccess' \in SuccessTimes /\ \A u \in SuccessTimes : u <= sawSuccess'
        /\ SuccessTimes' = SuccessTimes /\ reading' = "rows"
    BY <1>6 DEF ReadSuccess, operationVars, SuccessTimes
  <2> QED BY <2>1 DEF ReadingIs
<1>7. CASE ReadRows \/ RowsUnavailable
  BY <1>7 DEF ReadRows, RowsUnavailable, Answer, ReadingIs
<1>8. CASE PassHealthTime
  BY <1>8, <1>t DEF PassHealthTime, ReadingIs
<1>9. CASE RestartBotProcess
  BY <1>9 DEF RestartBotProcess, ReadingIs
<1>10. CASE UNCHANGED healthVars
  BY <1>1, <1>10 DEF healthVars, operationVars
<1> QED BY <1>3, <1>4, <1>5, <1>6, <1>7, <1>8, <1>9, <1>10 DEF NextHealth

LEMMA SpecHealthInv == SpecHealth => []HealthInv
<1>1. HealthInv /\ [NextHealth]_healthVars => HealthInv'
  BY HealthTyped, HealthRead DEF HealthInv
<1> QED BY HealthInit, <1>1, PTL DEF SpecHealth

\* Every variable has its type, for any limits and rates.
THEOREM HealthTypeCorrect == SpecHealth => []TypeOKHealth
<1>1. HealthInv => TypeOKHealth
  BY DEF HealthInv
<1> QED BY SpecHealthInv, <1>1, PTL

-----------------------------------------------------------------------------
\* Nobody but a request that ends answers: a restart, which ends one too, takes
\* the streak or the analysis with it.
LEMMA AnsweredBy ==
    ASSUME HealthInv, [NextHealth]_healthVars, Answers
    PROVE  /\ reading = "rows" /\ UNCHANGED <<healthTime, outcomes, unmatched>>
           /\ \/ shown' = [state |-> StateFromRows, rows |-> TRUE]
              \/ shown' = [state |-> StateWithoutRows, rows |-> FALSE]
<1>1. UNCHANGED <<streak, running, outcomes, unmatched>> /\ reading = "rows" /\ reading' = "idle"
  BY DEF Answers, operationVars
<1>2. ~RestartBotProcess
  <2>1. streak \in Nat
    BY DEF HealthInv, TypeOKHealth
  <2> QED BY <1>1, <2>1 DEF RestartBotProcess
<1>3. ReadRows \/ RowsUnavailable
  BY <1>1, <1>2 DEF NextHealth, BeginOperation, Succeed, WriteSuccess, WriteFailure, CountFailure, WriteSkip,
     LoseOutcome, BeginReport, ReadSuccess, PassHealthTime, healthVars
<1> QED BY <1>1, <1>3 DEF ReadRows, RowsUnavailable, Answer

LEMMA CounterIs ==
    ASSUME HealthInv, reading = "rows"
    PROVE  /\ CounterState = "ok" => \E t \in SuccessTimes : healthTime - t <= MaxAge
           /\ CounterState \in {"ok", "unknown"} => sawStreak < StreakLimit
           /\ CounterState = "degraded" /\ ~(sawStreak > 0) =>
                 \A t \in SuccessTimes : t < healthTime - MaxAge \/ t = healthTime
           /\ sawStreak \in Nat /\ (sawStreak >= StreakLimit => sawStreak > 0)
<1>1. /\ healthTime \in Nat /\ MaxAge \in Nat /\ StreakLimit \in Nat \ {0} /\ sawStreak \in Nat
      /\ SuccessTimes \subseteq Nat /\ (sawSuccess # NoSuccess => sawSuccess \in SuccessTimes)
      /\ sawSuccess # NoSuccess => \A t \in SuccessTimes : t <= sawSuccess \/ t = healthTime
  BY InstantsFinite, HealthAssumption DEF HealthInv, TypeOKHealth, ReadingIs, SuccessTimes
<1>2. CounterState = "ok" => /\ sawSuccess # NoSuccess /\ ~(healthTime - sawSuccess > MaxAge)
  BY DEF CounterState
<1>3. CounterState \in {"ok", "unknown"} => ~(sawStreak >= StreakLimit)
  BY DEF CounterState
<1>4. CounterState = "degraded" /\ ~(sawStreak > 0) =>
          sawSuccess # NoSuccess /\ healthTime - sawSuccess > MaxAge
  BY <1>1 DEF CounterState
<1>5. CounterState = "ok" => \E t \in SuccessTimes : healthTime - t <= MaxAge
  <2> SUFFICES ASSUME CounterState = "ok" PROVE \E t \in SuccessTimes : healthTime - t <= MaxAge
    OBVIOUS
  <2>1. sawSuccess \in SuccessTimes /\ sawSuccess \in Nat /\ ~(healthTime - sawSuccess > MaxAge)
    BY <1>1, <1>2
  <2>2. healthTime - sawSuccess <= MaxAge
    BY <1>1, <2>1
  <2> QED BY <2>1, <2>2
<1>6. CounterState = "degraded" /\ ~(sawStreak > 0) =>
          \A t \in SuccessTimes : t < healthTime - MaxAge \/ t = healthTime
  <2> SUFFICES ASSUME CounterState = "degraded", ~(sawStreak > 0), NEW t \in SuccessTimes
               PROVE  t < healthTime - MaxAge \/ t = healthTime
    OBVIOUS
  <2>1. /\ sawSuccess \in Nat /\ healthTime - sawSuccess > MaxAge /\ t \in Nat
        /\ (t <= sawSuccess \/ t = healthTime)
    BY <1>1, <1>4
  <2> QED BY <1>1, <2>1
<1>7. /\ CounterState \in {"ok", "unknown"} => sawStreak < StreakLimit
      /\ sawStreak \in Nat /\ (sawStreak >= StreakLimit => sawStreak > 0)
  BY <1>1, <1>3
<1> QED BY <1>5, <1>6, <1>7

LEMMA LogicalIs ==
    ASSUME TypeOKHealth
    PROVE  /\ LogicalState = "ok" =>
                 /\ Successes + Failures >= MinSamples
                 /\ 100 * Successes >= DegradedRate * (Successes + Failures)
                 /\ Unknowns = 0 /\ Gaps = 0
           /\ LogicalState \in {"failed", "degraded"} => Failures > 0
           /\ Successes = 0 /\ Failures >= LowSampleFailures => LogicalState \in {"failed", "degraded"}
<1>1. /\ Successes \in Nat /\ Failures \in Nat /\ Unknowns \in Nat /\ Gaps \in Nat
      /\ MinSamples \in Nat \ {0} /\ AlertFailures \in Nat \ {0} /\ LowSampleFailures \in Nat \ {0}
      /\ FailRate \in 1..100 /\ DegradedRate \in 1..100 /\ AlertFailures <= LowSampleFailures
  BY CountsTyped, HealthAssumption
<1>2. LogicalState = "ok" =>
          /\ Successes + Failures >= MinSamples
          /\ ~RateBelow(DegradedRate) /\ ~(Unknowns + Gaps > 0)
  BY DEF LogicalState
<1>3. LogicalState \in {"failed", "degraded"} => Failures >= AlertFailures \/ Failures >= LowSampleFailures
  BY DEF LogicalState
<1>4. Successes = 0 /\ Failures >= LowSampleFailures => LogicalState \in {"failed", "degraded"}
  <2> SUFFICES ASSUME Successes = 0, Failures >= LowSampleFailures
               PROVE  LogicalState \in {"failed", "degraded"}
    OBVIOUS
  <2>1. Failures >= AlertFailures /\ Failures > 0
    BY <1>1
  <2>2. RateBelow(DegradedRate)
    <3>1. DegradedRate * (0 + Failures) > 0
      BY <1>1, <2>1
    <3> QED BY <3>1 DEF RateBelow
  <2> QED BY <2>1, <2>2 DEF LogicalState
<1>5. ~RateBelow(DegradedRate) => 100 * Successes >= DegradedRate * (Successes + Failures)
  BY <1>1 DEF RateBelow
<1> HIDE DEF Successes, Failures, Unknowns, Gaps, LogicalState
<1> QED BY <1>1, <1>2, <1>3, <1>4, <1>5

\* The counts the properties are about are those the page has made.
LEMMA CountsAre ==
    /\ Recorded("success") = Successes /\ Recorded("failure") = Failures
    /\ Recorded("unknown") = Unknowns
BY DEF Recorded, Successes, Failures, Unknowns, Written

LEMMA StatusHasReasons ==
    ASSUME HealthInv, [NextHealth]_healthVars, Answers
    PROVE  /\ shown'.state = "ok" =>
                /\ \E t \in SuccessTimes : healthTime - t <= MaxAge
                /\ Recorded("success") + Recorded("failure") >= MinSamples
                /\ 100 * Recorded("success") >= DegradedRate * (Recorded("success") + Recorded("failure"))
                /\ Recorded("unknown") = 0
                /\ \A t \in Covered24h : unmatched[t] = 0
           /\ shown'.state \in {"ok", "unknown"} =>
                /\ sawStreak < StreakLimit
                /\ shown'.rows => Recorded("success") > 0 \/ Recorded("failure") < LowSampleFailures
           /\ shown'.state \in {"degraded", "failed"} =>
                \/ sawStreak > 0 \/ Recorded("failure") > 0
                \/ /\ Recorded("success") + Recorded("unknown") > 0
                   /\ \A t \in SuccessTimes : t < healthTime - MaxAge \/ t = healthTime
<1> USE CountsAre
<1> HIDE DEF Recorded
<1>1. TypeOKHealth /\ reading = "rows"
  BY AnsweredBy DEF HealthInv
<1>2. Successes \in Nat /\ Failures \in Nat /\ Unknowns \in Nat /\ LowSampleFailures \in Nat /\ StreakLimit \in Nat \ {0}
  BY <1>1, CountsTyped, HealthAssumption
<1>3. CASE shown' = [state |-> StateFromRows, rows |-> TRUE]
  <2>1. shown'.state = StateFromRows /\ shown'.rows
    BY <1>3
  <2>2. StateFromRows = "ok" => LogicalState = "ok" /\ CounterState = "ok"
    BY DEF StateFromRows, StaleIsUnknown, LogicalState, CounterState
  <2>3. StateFromRows \in {"ok", "unknown"} =>
            LogicalState \notin {"failed", "degraded"} /\ (CounterState \in {"ok", "unknown"} \/ sawStreak = 0)
    BY DEF StateFromRows, StaleIsUnknown, CounterState
  <2>4. StateFromRows \in {"degraded", "failed"} =>
            \/ LogicalState \in {"failed", "degraded"}
            \/ CounterState = "degraded" /\ ~(sawStreak = 0 /\ Recorded24h = 0)
    BY DEF StateFromRows, StaleIsUnknown, CounterState
  <2>5. Recorded24h = Successes + Failures + Unknowns
    BY DEF Recorded24h
  <2>6. StateFromRows = "ok" =>
                /\ \E t \in SuccessTimes : healthTime - t <= MaxAge
                /\ Successes + Failures >= MinSamples
                /\ 100 * Successes >= DegradedRate * (Successes + Failures)
                /\ Unknowns = 0
                /\ \A t \in Covered24h : unmatched[t] = 0
    BY <1>1, <2>2, CounterIs, LogicalIs, CountsTyped
  <2>7. StateFromRows \in {"ok", "unknown"} =>
                sawStreak < StreakLimit /\ (Successes > 0 \/ Failures < LowSampleFailures)
    <3>1. StateFromRows \in {"ok", "unknown"} => sawStreak < StreakLimit
      BY <1>1, <1>2, <2>3, CounterIs
    <3>2. StateFromRows \in {"ok", "unknown"} => ~(Successes = 0 /\ Failures >= LowSampleFailures)
      BY <1>1, <2>3, LogicalIs
    <3> HIDE DEF Successes, Failures
    <3> QED BY <1>2, <3>1, <3>2
  <2>8. StateFromRows \in {"degraded", "failed"} =>
                \/ sawStreak > 0 \/ Failures > 0
                \/ /\ Successes + Unknowns > 0
                   /\ \A t \in SuccessTimes : t < healthTime - MaxAge \/ t = healthTime
    <3>1. LogicalState \in {"failed", "degraded"} => Failures > 0
      BY <1>1, LogicalIs
    <3>2. sawStreak \in Nat
      BY <1>1 DEF TypeOKHealth
    <3>3. CounterState = "degraded" /\ ~(sawStreak > 0) =>
             \A t \in SuccessTimes : t < healthTime - MaxAge \/ t = healthTime
      BY <1>1, CounterIs
    <3>4. ~(sawStreak = 0 /\ Recorded24h = 0) => sawStreak > 0 \/ Failures > 0 \/ Successes + Unknowns > 0
      <4> HIDE DEF Successes, Failures, Unknowns
      <4> QED BY <1>2, <2>5, <3>2
    <3> QED BY <2>4, <3>1, <3>3, <3>4
  <2> QED BY <2>1, <2>6, <2>7, <2>8
<1>4. CASE shown' = [state |-> StateWithoutRows, rows |-> FALSE]
  <2>1. shown'.state = StateWithoutRows /\ ~shown'.rows
    BY <1>4
  <2>2. StateWithoutRows # "ok" /\ (StateWithoutRows \in {"degraded", "failed"} => sawStreak > 0)
    BY DEF StateWithoutRows
  <2>3. StateWithoutRows = "unknown" => sawStreak < StreakLimit
    <3>1. StateWithoutRows = "unknown" => CounterState # "degraded" \/ ~(sawStreak > 0)
      BY DEF StateWithoutRows
    <3>2. CounterState \in {"degraded", "unknown", "ok"}
      BY DEF CounterState
    <3> QED BY <1>1, <1>2, <3>1, <3>2, CounterIs
  <2> QED BY <2>1, <2>2, <2>3
<1> QED BY <1>3, <1>4, AnsweredBy

\* "ok" is said only on evidence, an outage is shown, and nothing is called an
\* outage that is not one, for any limits and rates, whatever the reads of a
\* request miss and however often the process restarts.
THEOREM StatusIsTruthful == SpecHealth => StatusTruthful
<1>1. HealthInv /\ [NextHealth]_healthVars =>
         /\ [Answers /\ shown'.state = "ok" =>
               /\ \E t \in SuccessTimes : healthTime - t <= MaxAge
               /\ Recorded("success") + Recorded("failure") >= MinSamples
               /\ 100 * Recorded("success") >= DegradedRate * (Recorded("success") + Recorded("failure"))
               /\ Recorded("unknown") = 0
               /\ \A t \in Covered24h : unmatched[t] = 0]_healthVars
         /\ [Answers /\ shown'.state \in {"ok", "unknown"} =>
               /\ sawStreak < StreakLimit
               /\ shown'.rows => Recorded("success") > 0 \/ Recorded("failure") < LowSampleFailures]_healthVars
         /\ [Answers /\ shown'.state \in {"degraded", "failed"} =>
               \/ sawStreak > 0 \/ Recorded("failure") > 0
               \/ /\ Recorded("success") + Recorded("unknown") > 0
                  /\ \A t \in SuccessTimes : t < healthTime - MaxAge \/ t = healthTime]_healthVars
  BY StatusHasReasons
<1> QED BY SpecHealthInv, <1>1, PTL DEF SpecHealth, StatusTruthful, OkIsEarned, OutageShown, AlarmHasCause


-----------------------------------------------------------------------------
\* The composition is an interleaving: each behaviour of it is one of each of
\* the two modules, so that what was proved of them holds of it.
LEMMA ChecksInterleave == SpecChecks => Spec /\ SpecHealth
<1>1. InitChecks => Init /\ InitHealth
  BY DEF InitChecks
<1>2. [NextChecks]_<<vars, healthVars, focus>> => [Next]_vars /\ [NextHealth]_healthVars
  BY DEF NextChecks
<1> QED BY <1>1, <1>2, PTL DEF SpecChecks, Spec, SpecHealth

\* Every variable of the composition has its type.
THEOREM ChecksTypeCorrect == SpecChecks => []ChecksTyped
BY ChecksInterleave, TypeCorrect, HealthTypeCorrect, PTL DEF ChecksTyped

=============================================================================
