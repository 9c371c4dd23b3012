---------------------------- MODULE ServiceProofs ----------------------------
(***************************************************************************)
(* Proofs about the smaller modules, for any values of their constants:    *)
(* Registration, StatusPage, ReportCache, HeartbeatGeneration, OpsAgent,   *)
(* ManualScreens, LockPool and Evidence.                                   *)
(***************************************************************************)
EXTENDS MCServices, SumFacts, SequenceTheorems, FiniteSetTheorems, TLAPS

-----------------------------------------------------------------------------
(***************************************************************************)
(* Registration.                                                           *)
(***************************************************************************)

\* Where the visits are, and what they ask for while they are under way.
VisitsInv ==
    /\ visitAt \in [Visits -> Places]
    /\ request \in [Visits -> Requests \cup {Nothing}]
    /\ resume \in [Visits -> {"body", "set", "show"}]
    /\ \A v \in Visits :
         /\ visitAt[v] \notin {"waiting"} \cup Finished => request[v] \in Requests
         /\ visitAt[v] = "waiting" => resume[v] = "show"
         /\ visitAt[v] = "set" \/ resume[v] = "set" => request[v].kind = "set"
         /\ visitAt[v] \in Analytics => request[v].kind = "start"

AllRows == \A c \in WatchCoins : coinRows[c] # NoRowYet

\* The rows come together; a visit that inserts them has found none; who sets a
\* coin or shows them has found all.
RowsInv ==
    /\ coinRows \in [WatchCoins -> RowValues] /\ choice \in [WatchCoins -> RowValues]
    /\ sawRows \in [Visits -> [WatchCoins -> RowValues]]
    /\ AllRows \/ \A c \in WatchCoins : coinRows[c] = NoRowYet
    /\ \A v \in Visits :
         /\ visitAt[v] = "insert" => \A c \in WatchCoins : sawRows[v][c] = NoRowYet
         /\ visitAt[v] \in {"set", "show", "shown"} => AllRows

\* Who is about to set a coin has the row as it is, unless overtaken.
TapsInv ==
    /\ overtaken \subseteq Visits /\ contested \subseteq WatchCoins
    /\ \A v \in Visits : visitAt[v] = "set" /\ v \notin overtaken =>
         sawRows[v][request[v].coin] = coinRows[request[v].coin]
    /\ ChoiceKept

\* One attribution at most awaits its commit, and none where one is committed.
TouchInv ==
    /\ touch \in Links \cup {NoLink} /\ starts \in Nat
    /\ uncommitted \in [Visits -> Links \cup {NoLink}]
    /\ \A v \in Visits : uncommitted[v] # NoLink =>
         /\ touch = NoLink
         /\ \A w \in Visits : uncommitted[w] # NoLink => w = v
    /\ AttributedStart

RegistrationInv == VisitsInv /\ RowsInv /\ TapsInv /\ TouchInv

LEMMA RequestsAre ==
    ASSUME NEW r \in Requests
    PROVE  /\ r.kind \in {"start", "set"}
           /\ r.kind = "start" => r.link \in Links \cup {NoLink}
           /\ r.kind = "set" => r.coin \in WatchCoins /\ r.value \in {"on", "off"}
BY DEF Requests, Values

LEMMA InitIsRegistered == InitRegistration => RegistrationInv
<1> SUFFICES ASSUME InitRegistration PROVE RegistrationInv
  OBVIOUS
<1>1. VisitsInv
  BY DEF InitRegistration, VisitsInv, Places, Finished, Analytics
<1>2. RowsInv
  BY DEF InitRegistration, RowsInv, AllRows, NoRows, RowValues, NoRowYet
<1>4. TapsInv
  BY DEF InitRegistration, TapsInv, ChoiceKept, NoRows
<1>3. TouchInv
  BY DEF InitRegistration, TouchInv, AttributedStart
<1> QED BY <1>1, <1>2, <1>3, <1>4 DEF RegistrationInv

\* The moves that Body and Resume come to.
LEMMA BodyMoves ==
    ASSUME NEW v \in Visits, VisitsInv, visitAt[v] \notin {"waiting"} \cup Finished, Body(v)
    PROVE  \/ /\ request[v].kind = "start"
              /\ visitAt' = [visitAt EXCEPT ![v] = "touch"] /\ resume' = resume
           \/ /\ request[v].kind = "set"
              /\ visitAt' = [visitAt EXCEPT ![v] = "rows"]
              /\ resume' = [resume EXCEPT ![v] = "set"]
BY RequestsAre DEF VisitsInv, Body, MoveVisit, Ensure

LEMMA ResumeMoves ==
    ASSUME NEW v \in Visits, VisitsInv, visitAt[v] \notin {"waiting"} \cup Finished, Resume(v)
    PROVE  \/ /\ request[v].kind = "start"
              /\ visitAt' = [visitAt EXCEPT ![v] = "touch"] /\ resume' = resume
           \/ /\ request[v].kind = "set"
              /\ visitAt' = [visitAt EXCEPT ![v] = "rows"]
              /\ resume' = [resume EXCEPT ![v] = "set"]
           \/ /\ resume[v] \in {"set", "show"} /\ resume' = resume
              /\ visitAt' = [visitAt EXCEPT ![v] = resume[v]]
<1>1. CASE resume[v] = "body"
  BY <1>1, BodyMoves DEF Resume
<1>2. CASE resume[v] # "body"
  BY <1>2 DEF Resume, VisitsInv, MoveVisit
<1> QED BY <1>1, <1>2

LEMMA VisitsStep ==
    ASSUME VisitsInv, [NextRegistration]_registrationVars
    PROVE  VisitsInv'
<1> USE DEF Places, Finished, Analytics
<1>1. CASE UNCHANGED registrationVars
  BY <1>1 DEF VisitsInv, registrationVars, visitVars
<1>2. ASSUME NEW v \in Visits, Visit(v) PROVE VisitsInv'
  <2>1. CASE Arrive(v)
    BY <2>1 DEF VisitsInv, Arrive, MoveVisit
  <2>2. CASE ReadUser(v)
    BY <2>2 DEF VisitsInv, ReadUser, MoveVisit
  <2>3. CASE CreateUser(v)
    <3>1. CASE Body(v)
      BY <2>3, <3>1, BodyMoves DEF VisitsInv, CreateUser
    <3>2. CASE Ensure(v, "body")
      BY <2>3, <3>2 DEF VisitsInv, CreateUser, Ensure, MoveVisit
    <3> QED BY <2>3, <3>1, <3>2 DEF CreateUser
  <2>4. CASE ReadRows(v)
    <3>1. CASE Resume(v)
      BY <2>4, <3>1, ResumeMoves DEF VisitsInv, ReadRows
    <3>2. CASE MoveVisit(v, "insert") /\ UNCHANGED resume
      BY <2>4, <3>2 DEF VisitsInv, ReadRows, MoveVisit
    <3> QED BY <2>4, <3>1, <3>2 DEF ReadRows
  <2>5. CASE InsertRows(v)
    BY <2>5, ResumeMoves DEF VisitsInv, InsertRows
  <2>6. CASE SetCoin(v)
    BY <2>6 DEF VisitsInv, SetCoin, Ensure, MoveVisit
  <2>7. CASE ReadTouch(v)
    BY <2>7 DEF VisitsInv, ReadTouch, MoveVisit
  <2>8. CASE Capture(v)
    BY <2>8 DEF VisitsInv, Capture, MoveVisit
  <2>9. CASE CommitStart(v)
    BY <2>9 DEF VisitsInv, CommitStart, Ensure, MoveVisit
  <2>10. CASE AnalyticsFails(v)
    BY <2>10 DEF VisitsInv, AnalyticsFails, Ensure, MoveVisit
  <2>11. CASE Show(v)
    BY <2>11 DEF VisitsInv, Show, EndVisit, MoveVisit
  <2>12. CASE Vanish(v)
    BY <2>12 DEF VisitsInv, Vanish, EndVisit, MoveVisit
  <2> QED BY <1>2, <2>1, <2>2, <2>3, <2>4, <2>5, <2>6, <2>7, <2>8, <2>9, <2>10, <2>11, <2>12 DEF Visit
<1> QED BY <1>1, <1>2 DEF NextRegistration

\* The visit that moves ends at a place that Body or Resume reaches.
LEMMA ResumeKeepsRows ==
    ASSUME NEW v \in Visits, VisitsInv, visitAt[v] \in {"rows", "insert", "create"},
           Resume(v) \/ Body(v)
    PROVE  \A w \in Visits :
             /\ visitAt'[w] = "insert" => w # v /\ visitAt[w] = "insert"
             /\ visitAt'[w] \in {"set", "show", "shown"} =>
                  \/ w # v /\ visitAt[w] \in {"set", "show", "shown"}
                  \/ w = v /\ ~Body(v)
<1> USE DEF Places, Finished, Analytics
<1>1. CASE Body(v)
  BY <1>1, BodyMoves DEF VisitsInv
<1>2. CASE Resume(v) /\ ~Body(v)
  BY <1>2, ResumeMoves DEF VisitsInv
<1> QED BY <1>1, <1>2

LEMMA RowsStep ==
    ASSUME VisitsInv, RowsInv, [NextRegistration]_registrationVars
    PROVE  RowsInv'
<1> USE DEF Places, Finished, Analytics, NoRowYet, RowValues
<1>1. CASE UNCHANGED registrationVars
  BY <1>1 DEF RowsInv, AllRows, registrationVars, visitVars, rowVars, tapVars
<1>2. ASSUME NEW v \in Visits, Visit(v) PROVE RowsInv'
  <2>1. CASE Arrive(v) \/ ReadUser(v)
    BY <2>1 DEF VisitsInv, RowsInv, AllRows, Arrive, ReadUser, MoveVisit, rowVars, tapVars
  <2>2. CASE CreateUser(v)
    <3>1. \A w \in Visits : visitAt'[w] \in {"insert", "set", "show", "shown"} => visitAt[w] = visitAt'[w]
      BY <2>2, BodyMoves DEF VisitsInv, CreateUser, Ensure, MoveVisit
    <3> QED BY <2>2, <3>1 DEF RowsInv, AllRows, CreateUser, tapVars
  <2>3. CASE ReadRows(v)
    <3>1. \A w \in Visits :
             /\ visitAt'[w] = "insert" => w = v \/ visitAt[w] = "insert"
             /\ visitAt'[w] \in {"set", "show", "shown"} =>
                  (w # v /\ visitAt[w] \in {"set", "show", "shown"}) \/ AllRows
      BY <2>3, ResumeKeepsRows DEF VisitsInv, ReadRows, MoveVisit, AllRows
    <3>2. visitAt'[v] = "insert" => \A c \in WatchCoins : coinRows[c] = NoRowYet
      BY <2>3, ResumeKeepsRows DEF RowsInv, ReadRows, AllRows
    <3>3. sawRows' = [sawRows EXCEPT ![v] = coinRows] /\ UNCHANGED <<coinRows, choice>>
      BY <2>3 DEF ReadRows, rowVars, tapVars
    <3> QED BY <3>1, <3>2, <3>3 DEF RowsInv, AllRows
  <2>4. CASE InsertRows(v)
    <3>1. Lacked(v) = WatchCoins
      BY <2>4 DEF RowsInv, InsertRows, Lacked
    <3>2. coinRows' \in [WatchCoins -> RowValues] /\ AllRows'
      BY <2>4, <3>1 DEF RowsInv, InsertRows, AddRows, AllRows, Default
    <3>4. choice' = choice
      BY <2>4 DEF InsertRows, tapVars
    <3>5. sawRows' = [sawRows EXCEPT ![v] = coinRows']
      BY <2>4 DEF InsertRows
    <3>6. \A w \in Visits : visitAt'[w] = "insert" => w # v /\ visitAt[w] = "insert"
      BY <2>4, ResumeKeepsRows DEF InsertRows
    <3> QED BY <3>2, <3>4, <3>5, <3>6 DEF RowsInv
  <2>5. CASE SetCoin(v)
    <3>1. AllRows
      BY <2>5 DEF RowsInv, SetCoin
    <3>2. request[v].value \in {"on", "off"}
      BY <2>5, RequestsAre DEF VisitsInv, SetCoin
    <3>3. request[v].coin \in WatchCoins
      BY <2>5, RequestsAre DEF VisitsInv, SetCoin
    <3>4. coinRows' \in [WatchCoins -> RowValues] /\ choice' \in [WatchCoins -> RowValues]
      BY <2>5, <3>2 DEF RowsInv, SetCoin
    <3>5. AllRows'
      BY <2>5, <3>1, <3>2 DEF RowsInv, AllRows, SetCoin
    <3>6. sawRows' = sawRows /\ \A w \in Visits : visitAt'[w] = "insert" => visitAt[w] = "insert"
      BY <2>5 DEF VisitsInv, SetCoin, Ensure, MoveVisit
    <3> QED BY <3>4, <3>5, <3>6 DEF RowsInv
  <2>6. CASE ReadTouch(v) \/ Capture(v) \/ CommitStart(v) \/ AnalyticsFails(v)
    <3>1. UNCHANGED <<coinRows, choice, sawRows>>
      BY <2>6 DEF ReadTouch, Capture, CommitStart, AnalyticsFails, rowVars, tapVars
    <3>2. \A w \in Visits : visitAt'[w] \in {"insert", "set", "show", "shown"} => visitAt[w] = visitAt'[w]
      BY <2>6 DEF VisitsInv, ReadTouch, Capture, CommitStart, AnalyticsFails, Ensure, MoveVisit
    <3> QED BY <3>1, <3>2 DEF RowsInv, AllRows
  <2>7. CASE Show(v) \/ Vanish(v)
    <3>1. UNCHANGED <<coinRows, choice>> /\ sawRows' = [sawRows EXCEPT ![v] = NoRows]
      BY <2>7 DEF Show, Vanish, EndVisit, rowVars
    <3>2. \A w \in Visits :
             /\ visitAt'[w] = "insert" => visitAt[w] = "insert"
             /\ visitAt'[w] \in {"set", "show", "shown"} => visitAt[w] \in {"set", "show", "shown"}
      BY <2>7 DEF VisitsInv, Show, Vanish, EndVisit, MoveVisit
    <3> QED BY <3>1, <3>2 DEF RowsInv, AllRows, NoRows
  <2> QED BY <1>2, <2>1, <2>2, <2>3, <2>4, <2>5, <2>6, <2>7 DEF Visit
<1> QED BY <1>1, <1>2 DEF NextRegistration

LEMMA TapsStep ==
    ASSUME VisitsInv, RowsInv, TapsInv, [NextRegistration]_registrationVars
    PROVE  TapsInv'
<1> USE DEF Places, Finished, Analytics, NoRowYet, RowValues
<1>1. CASE UNCHANGED registrationVars
  BY <1>1 DEF TapsInv, ChoiceKept, registrationVars, visitVars, rowVars, tapVars
<1>2. ASSUME NEW v \in Visits, Visit(v) PROVE TapsInv'
  <2>0. ASSUME UNCHANGED <<coinRows, choice, contested>>, overtaken' \in {overtaken, overtaken \ {v}},
               \A w \in Visits : visitAt'[w] = "set" =>
                 /\ request'[w] = request[w]
                 /\ \/ w = v /\ overtaken' = overtaken /\ sawRows'[w] = coinRows
                    \/ visitAt[w] = "set" /\ sawRows'[w] = sawRows[w] /\ (w = v => overtaken' = overtaken)
        PROVE  TapsInv'
    BY <2>0 DEF TapsInv, ChoiceKept
  <2>1. CASE Arrive(v) \/ ReadUser(v)
    <3>1. UNCHANGED <<coinRows, sawRows, tapVars>>
      BY <2>1 DEF Arrive, ReadUser, rowVars
    <3>2. \A w \in Visits : visitAt'[w] = "set" => visitAt[w] = "set" /\ request'[w] = request[w]
      BY <2>1 DEF VisitsInv, Arrive, ReadUser, MoveVisit
    <3> QED BY <2>0, <3>1, <3>2 DEF tapVars
  <2>2. CASE CreateUser(v)
    <3>1. UNCHANGED <<coinRows, sawRows, request, tapVars>>
      BY <2>2 DEF CreateUser
    <3>2. \A w \in Visits : visitAt'[w] = "set" => visitAt[w] = "set"
      BY <2>2, BodyMoves DEF VisitsInv, CreateUser, Ensure, MoveVisit
    <3> QED BY <2>0, <3>1, <3>2 DEF tapVars
  <2>3. CASE ReadRows(v)
    <3>1. UNCHANGED <<coinRows, request, tapVars>> /\ sawRows' = [sawRows EXCEPT ![v] = coinRows]
      BY <2>3 DEF ReadRows, rowVars
    <3>2. \A w \in Visits : visitAt'[w] = "set" => w = v \/ visitAt[w] = "set"
      BY <2>3, ResumeMoves DEF VisitsInv, ReadRows, MoveVisit
    <3>3. \A w \in Visits : sawRows'[w] = IF w = v THEN coinRows ELSE sawRows[w]
      BY <3>1 DEF RowsInv
    <3> QED BY <2>0, <3>1, <3>2, <3>3 DEF tapVars
  <2>4. CASE InsertRows(v)
    <3>1. Lacked(v) = WatchCoins
      BY <2>4 DEF RowsInv, InsertRows, Lacked
    <3>2. \A c \in WatchCoins : coinRows[c] # "none" => coinRows'[c] = coinRows[c]
      BY <2>4, <3>1 DEF InsertRows, AddRows
    <3>3. UNCHANGED <<request, tapVars>> /\ sawRows' = [sawRows EXCEPT ![v] = coinRows']
      BY <2>4 DEF InsertRows
    <3>4. ChoiceKept'
      BY <3>2, <3>3 DEF TapsInv, ChoiceKept, tapVars
    <3>5. ASSUME NEW w \in Visits, visitAt'[w] = "set", w \notin overtaken'
          PROVE  sawRows'[w][request'[w].coin] = coinRows'[request'[w].coin]
      <4>1. CASE w = v
        BY <3>3, <4>1 DEF RowsInv
      <4>2. CASE w # v
        <5>1. visitAt[w] = "set" /\ sawRows'[w] = sawRows[w]
          BY <2>4, <3>3, <3>5, <4>2, ResumeKeepsRows DEF InsertRows, VisitsInv, RowsInv, Body, Resume, Ensure, MoveVisit
        <5>2. AllRows /\ request[w].coin \in WatchCoins
          BY <5>1, RequestsAre DEF RowsInv, VisitsInv
        <5> QED BY <3>2, <3>3, <3>5, <5>1, <5>2 DEF TapsInv, tapVars, AllRows
      <4> QED BY <4>1, <4>2
    <3> QED BY <3>3, <3>4, <3>5 DEF TapsInv, tapVars
  <2>5. CASE SetCoin(v)
    <3> DEFINE c == request[v].coin
               value == request[v].value
    <3>1. c \in WatchCoins /\ value \in {"on", "off"}
      BY <2>5, RequestsAre DEF VisitsInv, SetCoin
    <3>2. \A d \in WatchCoins : d # c => coinRows'[d] = coinRows[d] /\ choice'[d] = choice[d]
      BY <2>5, <3>1 DEF SetCoin, RowsInv
    <3>3. choice'[c] = value /\ (sawRows[v][c] = coinRows[c] => coinRows'[c] = value)
      BY <2>5, <3>1 DEF SetCoin, RowsInv
    <3>4. contested' \subseteq WatchCoins /\ overtaken' \subseteq Visits
      BY <2>5, <3>1 DEF SetCoin, TapsInv
    <3>5. ChoiceKept'
      <4>1. \A d \in WatchCoins : d # c /\ d \notin contested' => d \notin contested
        BY <2>5 DEF SetCoin
      <4>2. c \notin contested' => v \notin overtaken
        BY <2>5 DEF SetCoin
      <4>3. c \notin contested' => coinRows'[c] = value
        BY <2>5, <3>3, <4>2 DEF SetCoin, TapsInv
      <4> QED BY <3>2, <3>3, <4>1, <4>3 DEF TapsInv, ChoiceKept
    <3>6. ASSUME NEW w \in Visits, visitAt'[w] = "set", w \notin overtaken'
          PROVE  sawRows'[w][request'[w].coin] = coinRows'[request'[w].coin]
      <4>1. w # v /\ visitAt[w] = "set" /\ sawRows' = sawRows /\ request' = request
        BY <2>5, <3>6 DEF SetCoin, Ensure, MoveVisit, VisitsInv
      <4>2. request[w].coin # c /\ w \notin overtaken
        BY <2>5, <3>6, <4>1 DEF SetCoin
      <4>3. request[w].coin \in WatchCoins
        BY <4>1, RequestsAre DEF VisitsInv
      <4> QED BY <3>2, <4>1, <4>2, <4>3 DEF TapsInv
    <3> QED BY <3>4, <3>5, <3>6 DEF TapsInv
  <2>6. CASE ReadTouch(v) \/ Capture(v) \/ CommitStart(v) \/ AnalyticsFails(v)
    <3>1. UNCHANGED <<coinRows, sawRows, request, tapVars>>
      BY <2>6 DEF ReadTouch, Capture, CommitStart, AnalyticsFails, rowVars
    <3>2. \A w \in Visits : visitAt'[w] = "set" => visitAt[w] = "set"
      BY <2>6 DEF VisitsInv, ReadTouch, Capture, CommitStart, AnalyticsFails, Ensure, MoveVisit
    <3> QED BY <2>0, <3>1, <3>2 DEF tapVars
  <2>7. CASE Show(v) \/ Vanish(v)
    <3>1. UNCHANGED <<coinRows, choice, contested>> /\ overtaken' = overtaken \ {v}
      BY <2>7 DEF Show, Vanish, EndVisit, rowVars
    <3>2. \A w \in Visits : visitAt'[w] = "set" =>
            w # v /\ visitAt[w] = "set" /\ sawRows'[w] = sawRows[w] /\ request'[w] = request[w]
      BY <2>7 DEF VisitsInv, RowsInv, Show, Vanish, EndVisit, MoveVisit
    <3> QED BY <2>0, <3>1, <3>2
  <2> QED BY <1>2, <2>1, <2>2, <2>3, <2>4, <2>5, <2>6, <2>7 DEF Visit
<1> QED BY <1>1, <1>2 DEF NextRegistration

\* Only a commit changes the attribution, and only from none.
LEMMA TouchStep ==
    ASSUME VisitsInv, TouchInv, [NextRegistration]_registrationVars
    PROVE  TouchInv' /\ (touch # NoLink => touch' = touch)
<1> USE DEF Places, Finished, Analytics
<1>1. CASE UNCHANGED registrationVars
  BY <1>1 DEF TouchInv, AttributedStart, registrationVars, visitVars, rowVars
<1>2. ASSUME NEW v \in Visits, Visit(v) PROVE TouchInv' /\ (touch # NoLink => touch' = touch)
  <2>1. CASE UNCHANGED <<touch, starts, uncommitted>>
    BY <2>1 DEF TouchInv, AttributedStart
  <2>2. CASE Capture(v)
    <3>1. request[v].link \in Links \cup {NoLink}
      BY <2>2, RequestsAre DEF VisitsInv, Capture
    <3> QED BY <2>2, <3>1 DEF TouchInv, AttributedStart, Capture, rowVars
  <2>3. CASE CommitStart(v)
    BY <2>3 DEF TouchInv, AttributedStart, CommitStart
  <2>4. CASE AnalyticsFails(v) \/ Show(v) \/ Vanish(v)
    <3>1. touch' = touch /\ starts' = starts /\ uncommitted' = [uncommitted EXCEPT ![v] = NoLink]
      BY <2>4 DEF AnalyticsFails, Show, Vanish, EndVisit, rowVars
    <3> QED BY <3>1 DEF TouchInv, AttributedStart
  <2> QED BY <1>2, <2>1, <2>2, <2>3, <2>4
       DEF Visit, Arrive, ReadUser, CreateUser, ReadRows, InsertRows, SetCoin, ReadTouch, rowVars
<1> QED BY <1>1, <1>2 DEF NextRegistration

LEMMA RegistrationStep ==
    RegistrationInv /\ [NextRegistration]_registrationVars => RegistrationInv'
BY VisitsStep, RowsStep, TapsStep, TouchStep DEF RegistrationInv

UserRowTyped == userRow \in BOOLEAN /\ sawUser \in [Visits -> BOOLEAN]

LEMMA UserRowStep == UserRowTyped /\ [NextRegistration]_registrationVars => UserRowTyped'
<1> SUFFICES ASSUME UserRowTyped, [NextRegistration]_registrationVars PROVE UserRowTyped'
  OBVIOUS
<1>1. ASSUME userRow' \in {userRow, TRUE},
             \/ sawUser' = sawUser
             \/ \E v \in Visits, b \in BOOLEAN : sawUser' = [sawUser EXCEPT ![v] = b]
      PROVE  UserRowTyped'
  BY <1>1 DEF UserRowTyped
<1>2. CASE UNCHANGED registrationVars
  BY <1>1, <1>2 DEF registrationVars, visitVars, rowVars
<1>3. ASSUME NEW v \in Visits, Visit(v) PROVE UserRowTyped'
  <2>1. CASE ReadUser(v)
    BY <1>1, <2>1 DEF ReadUser, rowVars, UserRowTyped
  <2>2. CASE CreateUser(v)
    BY <1>1, <2>2 DEF CreateUser
  <2>3. CASE Show(v) \/ Vanish(v)
    BY <1>1, <2>3 DEF Show, Vanish, EndVisit, rowVars
  <2> QED BY <1>1, <1>3, <2>1, <2>2, <2>3
       DEF Visit, Arrive, ReadRows, InsertRows, SetCoin, ReadTouch, Capture, CommitStart, AnalyticsFails, rowVars
<1> QED BY <1>2, <1>3 DEF NextRegistration

\* Every variable has its type, for any visits, coins and links.
THEOREM RegistrationTypeCorrect == SpecRegistration => []TypeOKRegistration
<1>1. InitRegistration => UserRowTyped
  BY DEF InitRegistration, UserRowTyped
<1>2. RegistrationInv /\ UserRowTyped => TypeOKRegistration
  BY DEF RegistrationInv, VisitsInv, RowsInv, TapsInv, TouchInv, UserRowTyped, TypeOKRegistration
<1> QED BY <1>1, <1>2, InitIsRegistered, RegistrationStep, UserRowStep, PTL DEF SpecRegistration

\* However many visits overlap, the last tap on a coin takes effect, written or
\* not, and no default undoes it, unless another tap on the coin came between its
\* reading and its setting (set_user_coin_subscription).
THEOREM RegistrationChoiceKept == SpecRegistration => []ChoiceKept
<1>1. RegistrationInv => ChoiceKept
  BY DEF RegistrationInv, TapsInv
<1> QED BY <1>1, InitIsRegistered, RegistrationStep, PTL DEF SpecRegistration

\* No screen lists the coins before a row of each exists.
THEOREM RegistrationShownComplete == SpecRegistration => []ShownComplete
<1>1. RegistrationInv => ShownComplete
  BY DEF RegistrationInv, RowsInv, ShownComplete, AllRows
<1> QED BY <1>1, InitIsRegistered, RegistrationStep, PTL DEF SpecRegistration

\* An attribution comes with a recorded start (record_bot_started).
THEOREM RegistrationAttributedStart == SpecRegistration => []AttributedStart
<1>1. RegistrationInv => AttributedStart
  BY DEF RegistrationInv, TouchInv
<1> QED BY <1>1, InitIsRegistered, RegistrationStep, PTL DEF SpecRegistration

\* The first attribution is never replaced, however many visits start at once
\* (capture_first_touch_attribution).
THEOREM RegistrationFirstTouch == SpecRegistration => FirstTouchKept
<1>1. RegistrationInv /\ [NextRegistration]_registrationVars => [touch # NoLink => touch' = touch]_registrationVars
  BY TouchStep DEF RegistrationInv
<1> QED BY <1>1, InitIsRegistered, RegistrationStep, PTL DEF SpecRegistration, FirstTouchKept

\* All that the first visits of a user must keep.
THEOREM RegistrationIsKept == SpecRegistration => RegistrationKept
BY RegistrationChoiceKept, RegistrationShownComplete, RegistrationAttributedStart,
   RegistrationFirstTouch, PTL DEF RegistrationKept

-----------------------------------------------------------------------------
(***************************************************************************)
(* The System Status page.                                                 *)
(***************************************************************************)

LEMMA StatusesAre ==
    /\ MarketStatus \in Statuses24h /\ LatestStatus \in Statuses24h
    /\ AnalysisStatus \in Statuses24h /\ NewsStatus \in Statuses24h
    /\ DeliveryStatus \in Statuses24h
BY DEF MarketStatus, LatestStatus, AnalysisStatus, NewsStatus, DeliveryStatus, Statuses24h

\* The sections of a whole page and of one that a statement ended.
SectionNames == {"Database", "Market", "AI", "News", "Telegram"}

LEMMA Rendered ==
    ASSUME Render
    PROVE  /\ DOMAIN sections' = SectionNames
           /\ sections'["Telegram"] = DeliveryStatus /\ sections'["AI"] = AnalysisStatus
           /\ \A n \in SectionNames : sections'[n] \in Statuses24h
<1>1. DOMAIN sections' = SectionNames
  BY DEF Render, SectionNames
<1>2. /\ sections'["Telegram"] = DeliveryStatus /\ sections'["AI"] = AnalysisStatus
      /\ sections'["Market"] = MarketStatus /\ sections'["News"] = NewsStatus
      /\ sections'["Database"] = "OK"
  BY DEF Render, SectionNames
<1> QED BY <1>1, <1>2, StatusesAre DEF SectionNames, Statuses24h

ReturnedType ==
    [prices : SUBSET {"missing", "never", "stale", "fresh"}, analysis : Analyses24h,
     logical : LogicalStates \cup {"gap"}, saved : {"none", "old", "recent"},
     usable : BOOLEAN, enriched : {"failed", "other"},
     counts : SUBSET {"pending", "retry_pending", "failed", "sent"},
     finalized : BOOLEAN, failures : SUBSET ({"real"} \cup Unavailable),
     unsettled : BOOLEAN]

FactsTyped ==
    /\ prices \in [StatusCoins -> {"missing", "never", "stale", "fresh"}]
    /\ analysis \in Analyses24h /\ logical \in LogicalStates /\ news \in NewsRows
    /\ delivery \in [Deliveries -> Rows24h]
    /\ failedBefore \cup standing \subseteq Deliveries /\ steady \in BOOLEAN

SectionsTyped ==
    /\ DOMAIN sections \in {{}, {"Database"}, SectionNames}
    /\ \A n \in DOMAIN sections : sections[n] \in Statuses24h

PageTyped ==
    /\ FactsTyped /\ SectionsTyped
    /\ statement \in Statements /\ aborted \in BOOLEAN
    /\ returned \in ReturnedType

LEMMA RowsAre ==
    ASSUME NEW row \in Rows24h
    PROVE  /\ row.status \in {"none", "pending", "retry_pending", "failed", "sent", "final"}
           /\ row.recent \in BOOLEAN /\ row.cause \in {"real"} \cup Unavailable
BY DEF Rows24h

LEMMA InitTyped == InitPage => PageTyped
<1> SUFFICES ASSUME InitPage PROVE PageTyped
  OBVIOUS
<1>1. Ordinary \in NewsRows /\ Delivered \in Rows24h
  BY DEF Ordinary, NewsRows, Delivered, Rows24h
<1>2. NothingReturned \in ReturnedType
  BY DEF NothingReturned, ReturnedType, Analyses24h, LogicalStates, Unavailable
<1>3. prices \in [StatusCoins -> {"missing", "never", "stale", "fresh"}]
  BY DEF InitPage
<1>4. analysis \in Analyses24h /\ logical \in LogicalStates /\ news \in NewsRows
  BY <1>1 DEF InitPage, Analyses24h, LogicalStates
<1>5. delivery \in [Deliveries -> Rows24h]
  BY <1>1 DEF InitPage
<1>6. failedBefore \cup standing \subseteq Deliveries /\ steady \in BOOLEAN
  BY DEF InitPage
<1>7. SectionsTyped
  BY DEF InitPage, SectionsTyped
<1>8. statement \in Statements /\ aborted \in BOOLEAN
  BY DEF InitPage, Statements
<1> QED BY <1>2, <1>3, <1>4, <1>5, <1>6, <1>7, <1>8 DEF PageTyped, FactsTyped, InitPage

\* What a statement returns.
LEMMA AnswersTyped ==
    ASSUME PageTyped, NextPage
    PROVE  returned' \in ReturnedType
<1> USE DEF PageTyped, FactsTyped, ReturnedType
<1>1. CASE OpenSession \/ UNCHANGED returned
  BY <1>1 DEF OpenSession, Ask
<1>2. CASE ReadPrices \/ ReadAnalysis \/ ReadLogical \/ LogicalFails
  BY <1>2 DEF ReadPrices, ReadAnalysis, ReadLogical, LogicalFails, Ask
<1>3. CASE ReadSaved \/ ReadUsable \/ ReadEnriched
  BY <1>3 DEF ReadSaved, ReadUsable, ReadEnriched, Ask, NewsRows
<1>4. CASE ReadCounts
  <2> DEFINE counted == {StatusOfRow(d) : d \in {x \in Deliveries :
                            delivery[x].recent /\ delivery[x].status # "none"}}
  <2>1. counted \subseteq {"pending", "retry_pending", "failed", "sent"}
    BY RowsAre DEF StatusOfRow
  <2>2. returned' = [returned EXCEPT !.counts = counted]
    BY <1>4 DEF ReadCounts, Ask
  <2> HIDE DEF counted
  <2> QED BY <2>1, <2>2
<1>5. CASE ReadFinalized \/ ReadUnsettled
  <2>1. ASSUME NEW b \in BOOLEAN
        PROVE  [returned EXCEPT !.finalized = b] \in ReturnedType /\ [returned EXCEPT !.unsettled = b] \in ReturnedType
    OBVIOUS
  <2>2. (Finalized # {}) \in BOOLEAN /\ NotSettled \in BOOLEAN
    BY Zenon DEF NotSettled
  <2>3. CASE ReadFinalized
    BY <2>1, <2>2, <2>3, Zenon DEF ReadFinalized, Ask
  <2>4. CASE ReadUnsettled
    BY <2>1, <2>2, <2>4, Zenon DEF ReadUnsettled, Ask
  <2> QED BY <1>5, <2>3, <2>4
<1>6. CASE ReadFailures
  <2> DEFINE causes == {delivery[d].cause : d \in Finalized}
  <2>1. causes \subseteq {"real"} \cup Unavailable
    BY RowsAre DEF Finalized
  <2>2. returned' = [returned EXCEPT !.failures = causes]
    BY <1>6 DEF ReadFailures, Ask
  <2> HIDE DEF causes
  <2> QED BY <2>1, <2>2
<1> QED
  BY <1>1, <1>2, <1>3, <1>4, <1>5, <1>6
     DEF NextPage, CheckPrice, EndAnalysis, SaveNews, Progress, StatementFails, Render

LEMMA FactsKept ==
    ASSUME PageTyped, NextPage
    PROVE  FactsTyped'
<1> USE DEF PageTyped, FactsTyped
<1>1. ASSUME NEW c \in StatusCoins, CheckPrice(c) PROVE FactsTyped'
  BY <1>1 DEF CheckPrice, historyVars
<1>2. CASE EndAnalysis
  BY <1>2 DEF EndAnalysis
<1>3. CASE SaveNews
  BY <1>3 DEF SaveNews, historyVars
<1>4. ASSUME NEW d \in Deliveries, Progress(d) PROVE FactsTyped'
  BY <1>4 DEF Progress
<1>5. CASE UNCHANGED <<factVars, historyVars>>
  BY <1>5 DEF factVars, historyVars
<1> QED
  BY <1>1, <1>2, <1>3, <1>4, <1>5
     DEF NextPage, OpenSession, ReadPrices, ReadAnalysis, ReadLogical, LogicalFails, ReadSaved,
         ReadUsable, ReadEnriched, ReadCounts, ReadFinalized, ReadFailures, ReadUnsettled,
         StatementFails, Render, Ask

LEMMA SectionsKept ==
    ASSUME PageTyped, NextPage
    PROVE  SectionsTyped'
<1>1. CASE UNCHANGED sections
  BY <1>1 DEF PageTyped, SectionsTyped
<1>2. CASE StatementFails
  BY <1>2 DEF StatementFails, SectionsTyped, Statuses24h
<1>3. CASE Render
  BY <1>3, Rendered DEF SectionsTyped
<1> QED
  BY <1>1, <1>2, <1>3
     DEF NextPage, CheckPrice, EndAnalysis, SaveNews, Progress,
         OpenSession, ReadPrices, ReadAnalysis, ReadLogical, LogicalFails, ReadSaved,
         ReadUsable, ReadEnriched, ReadCounts, ReadFinalized, ReadFailures, ReadUnsettled, Ask

LEMMA PlaceKept ==
    ASSUME PageTyped, NextPage
    PROVE  statement' \in Statements /\ aborted' \in BOOLEAN
BY DEF PageTyped, Statements, NextPage, CheckPrice, EndAnalysis, SaveNews, Progress,
       OpenSession, ReadPrices, ReadAnalysis, ReadLogical, LogicalFails, ReadSaved,
       ReadUsable, ReadEnriched, ReadCounts, ReadFinalized, ReadFailures, ReadUnsettled,
       StatementFails, Render, Ask

LEMMA PageTypedStep == PageTyped /\ [NextPage]_pageVars => PageTyped'
<1>1. CASE UNCHANGED pageVars
  BY <1>1 DEF PageTyped, FactsTyped, SectionsTyped, pageVars, factVars, historyVars
<1> QED BY <1>1, AnswersTyped, FactsKept, SectionsKept, PlaceKept DEF PageTyped

\* The places where a statement's result is held.
AskedCounts == {"finalized", "failures", "unsettled", "render"}
AskedFinalized == {"failures", "unsettled", "render"}
AskedFailures == {"unsettled", "render"}
AskedLogical == {"saved", "usable", "enriched"} \cup {"counts"} \cup AskedCounts

\* Failures are final, and what no statement saw change is what it was.
HistoryInv ==
    /\ \A d \in failedBefore : Failed(d)
    /\ \A d \in standing : Unsettled24h(d)

\* The delivery statements of the page have seen what stood all the time.
DeliveryInv ==
    /\ statement \in AskedFinalized /\ failedBefore # {} => returned.finalized
    /\ statement \in AskedFailures /\ failedBefore # {} => "real" \in returned.failures
    /\ statement \in AskedCounts => \A d \in standing : delivery[d].status \in returned.counts
    /\ statement = "render" =>
           \A d \in standing : delivery[d].status = "failed" => returned.unsettled
    /\ "real" \in returned.failures => \E d \in Deliveries : Failed(d)
    /\ returned.failures # {} => \E d \in Deliveries : delivery[d].status = "final"
    /\ "sent" \in returned.counts => \E d \in Deliveries : delivery[d].status \in {"sent", "final"}

\* So have those of the analysis section, unless the query of operations failed,
\* which leaves no page but the failure's.
AnalysisInv ==
    /\ steady /\ (statement = "logical" \/ statement \in AskedLogical) => returned.analysis = analysis
    /\ steady /\ statement \in AskedLogical => returned.logical \in {logical, "gap"}
    /\ returned.logical = "gap" => aborted
    /\ aborted => statement \in {"saved", "shown"}

PageInv == PageTyped /\ (statement # "shown" => HistoryInv /\ DeliveryInv /\ AnalysisInv) /\ PageTruthful

LEMMA InitPageInv == InitPage => PageInv
<1> SUFFICES ASSUME InitPage PROVE PageInv
  OBVIOUS
<1>1. statement = "connect" /\ returned = NothingReturned /\ aborted = FALSE
  BY DEF InitPage
<1>2. HistoryInv
  BY DEF InitPage, HistoryInv
<1>3. DeliveryInv
  BY <1>1 DEF DeliveryInv, NothingReturned, AskedFinalized, AskedFailures, AskedCounts
<1>4. AnalysisInv
  BY <1>1 DEF AnalysisInv, NothingReturned, AskedLogical, AskedCounts
<1> QED BY <1>1, <1>2, <1>3, <1>4, InitTyped DEF PageInv, PageTruthful

\* A row that was settled stays so, and one that progresses is not standing.
LEMMA ProgressKeeps ==
    ASSUME PageTyped, HistoryInv, DeliveryInv, NEW x \in Deliveries, Progress(x)
    PROVE  HistoryInv' /\ DeliveryInv'
<1> USE DEF PageTyped, FactsTyped
<1>1. PICK row \in Rows24h :
        /\ \/ delivery[x].status \in {"none", "failed"} /\ row.status = "pending"
           \/ delivery[x].status = "pending" /\ row.status = "retry_pending"
           \/ delivery[x].status \in {"pending", "retry_pending"} /\ row.status \in {"sent", "final"}
        /\ delivery' = [delivery EXCEPT ![x] = row]
  BY DEF Progress
<1>2. /\ standing' = standing \ {x} /\ failedBefore' = failedBefore
      /\ UNCHANGED <<statement, returned>>
  BY DEF Progress
<1>3. \A d \in Deliveries : d # x => delivery'[d] = delivery[d]
  BY <1>1
<1>4. delivery[x].status \notin {"sent", "final"}
  BY <1>1
<1>5. \A d \in Deliveries : delivery[d].status \in {"sent", "final"} => delivery'[d] = delivery[d]
  BY <1>3, <1>4
<1>6. HistoryInv'
  BY <1>2, <1>3, <1>5 DEF HistoryInv, Failed, Unsettled24h
<1>7. \A d \in standing' : delivery'[d] = delivery[d] /\ d \in standing
  BY <1>2, <1>3
<1>8. DeliveryInv'
  BY <1>2, <1>5, <1>7 DEF DeliveryInv, Failed
<1> QED BY <1>6, <1>8

\* A statement of the delivery section.
LEMMA DeliveryStatements ==
    ASSUME PageTyped, HistoryInv, DeliveryInv,
           ReadCounts \/ ReadFinalized \/ ReadFailures \/ ReadUnsettled
    PROVE  HistoryInv' /\ DeliveryInv'
<1> USE DEF PageTyped, FactsTyped, ReturnedType
<1>1. UNCHANGED <<delivery, failedBefore, standing>>
  BY DEF ReadCounts, ReadFinalized, ReadFailures, ReadUnsettled, Ask, factVars, historyVars
<1>2. HistoryInv'
  BY <1>1 DEF HistoryInv, Failed, Unsettled24h
<1> USE DEF AskedCounts, AskedFinalized, AskedFailures
<1>3. CASE ReadCounts
  <2> DEFINE counted == {StatusOfRow(d) : d \in {x \in Deliveries :
                            delivery[x].recent /\ delivery[x].status # "none"}}
  <2>1. returned' = [returned EXCEPT !.counts = counted] /\ statement' = "finalized"
    BY <1>3 DEF ReadCounts, Ask
  <2>2. \A d \in standing : delivery[d].status \in counted
    BY DEF HistoryInv, Unsettled24h, StatusOfRow
  <2>3. "sent" \in counted => \E d \in Deliveries : delivery[d].status \in {"sent", "final"}
    BY DEF StatusOfRow
  <2> HIDE DEF counted
  <2>4. returned'.counts = counted /\ returned'.failures = returned.failures
    BY <2>1
  <2> QED BY <1>1, <1>2, <2>1, <2>2, <2>3, <2>4 DEF DeliveryInv, Failed
<1>4. CASE ReadFinalized
  <2>1. returned' = [returned EXCEPT !.finalized = (Finalized # {})]
        /\ statement = "finalized" /\ statement' = "failures"
    BY <1>4 DEF ReadFinalized, Ask
  <2>2. returned'.counts = returned.counts /\ returned'.failures = returned.failures
    BY <2>1
  <2>3. failedBefore # {} => Finalized # {}
    BY DEF HistoryInv, Failed, Finalized
  <2>4. returned'.finalized = (Finalized # {})
    BY <2>1
  <2> QED BY <1>1, <1>2, <2>1, <2>2, <2>3, <2>4 DEF DeliveryInv, Failed
<1>5. CASE ReadFailures
  <2> DEFINE causes == {delivery[d].cause : d \in Finalized}
  <2>1. returned' = [returned EXCEPT !.failures = causes]
        /\ statement = "failures" /\ statement' = "unsettled"
    BY <1>5 DEF ReadFailures, Ask
  <2>2. failedBefore # {} => "real" \in causes
    BY DEF HistoryInv, Failed, Finalized
  <2>3. "real" \in causes => \E d \in Deliveries : Failed(d)
    BY DEF Failed, Finalized
  <2>4. causes # {} => \E d \in Deliveries : delivery[d].status = "final"
    BY DEF Finalized
  <2> HIDE DEF causes
  <2>5. /\ returned'.failures = causes /\ returned'.counts = returned.counts
        /\ returned'.finalized = returned.finalized
    BY <2>1
  <2> QED BY <1>1, <1>2, <2>1, <2>2, <2>3, <2>4, <2>5 DEF DeliveryInv, Failed
<1>6. CASE ReadUnsettled
  <2>1. returned' = [returned EXCEPT !.unsettled = NotSettled]
        /\ statement = "unsettled" /\ statement' = "render"
    BY <1>6 DEF ReadUnsettled, Ask
  <2>2. \A d \in standing : delivery[d].status = "failed" => NotSettled
    BY DEF HistoryInv, Unsettled24h, NotSettled, FailedForNow
  <2>3. /\ returned'.failures = returned.failures /\ returned'.counts = returned.counts
        /\ returned'.finalized = returned.finalized
    BY <2>1
  <2>4. returned'.unsettled = NotSettled
    BY <2>1
  <2> QED BY <1>1, <1>2, <2>1, <2>2, <2>3, <2>4 DEF DeliveryInv, Failed
<1> QED BY <1>3, <1>4, <1>5, <1>6

\* Steps that neither change a delivery nor ask for one.
LEMMA ElsewhereKeeps ==
    ASSUME PageTyped, HistoryInv, DeliveryInv, statement' \notin AskedCounts \/ UNCHANGED statement,
           UNCHANGED <<delivery, failedBefore, standing>>,
           returned'.failures = returned.failures, returned'.counts = returned.counts,
           returned'.finalized = returned.finalized, returned'.unsettled = returned.unsettled
    PROVE  HistoryInv' /\ DeliveryInv'
<1>1. HistoryInv'
  BY DEF HistoryInv, Failed, Unsettled24h
<1>2. DeliveryInv'
  BY DEF DeliveryInv, Failed, AskedCounts, AskedFinalized, AskedFailures
<1> QED BY <1>1, <1>2

LEMMA DeliverySeen ==
    ASSUME PageTyped, HistoryInv, DeliveryInv, NextPage, statement' # "shown"
    PROVE  HistoryInv' /\ DeliveryInv'
<1>1. ASSUME NEW d \in Deliveries, Progress(d) PROVE HistoryInv' /\ DeliveryInv'
  BY <1>1, ProgressKeeps
<1>2. CASE ReadCounts \/ ReadFinalized \/ ReadFailures \/ ReadUnsettled
  BY <1>2, DeliveryStatements
<1>3. CASE (\E c \in StatusCoins : CheckPrice(c)) \/ EndAnalysis \/ SaveNews
  BY <1>3, ElsewhereKeeps DEF CheckPrice, EndAnalysis, SaveNews, historyVars
<1>4. CASE OpenSession \/ ReadPrices \/ ReadAnalysis \/ ReadLogical \/ LogicalFails
           \/ ReadSaved \/ ReadUsable \/ ReadEnriched
  <2>1. statement' \notin AskedCounts /\ UNCHANGED <<delivery, failedBefore, standing>>
    BY <1>4 DEF OpenSession, ReadPrices, ReadAnalysis, ReadLogical, LogicalFails, ReadSaved,
         ReadUsable, ReadEnriched, Ask, AskedCounts, factVars, historyVars
  <2>2. /\ returned'.failures = returned.failures /\ returned'.counts = returned.counts
        /\ returned'.finalized = returned.finalized /\ returned'.unsettled = returned.unsettled
    BY <1>4 DEF OpenSession, ReadPrices, ReadAnalysis, ReadLogical, LogicalFails, ReadSaved,
         ReadUsable, ReadEnriched, Ask, PageTyped, ReturnedType
  <2> QED BY <2>1, <2>2, ElsewhereKeeps
<1> QED BY <1>1, <1>2, <1>3, <1>4 DEF NextPage, StatementFails, Render

LEMMA AnalysisSeen ==
    ASSUME PageTyped, AnalysisInv, NextPage, statement' # "shown"
    PROVE  AnalysisInv'
<1> USE DEF PageTyped, ReturnedType, AnalysisInv, AskedLogical, AskedCounts
<1>1. CASE (\E c \in StatusCoins : CheckPrice(c)) \/ SaveNews \/ (\E d \in Deliveries : Progress(d))
  BY <1>1 DEF CheckPrice, SaveNews, Progress, historyVars
<1>2. CASE EndAnalysis
  BY <1>2 DEF EndAnalysis
<1>3. CASE OpenSession \/ ReadPrices
  BY <1>3 DEF OpenSession, ReadPrices, Ask, factVars, historyVars
<1>4. CASE ReadAnalysis
  BY <1>4 DEF ReadAnalysis, Ask, factVars, historyVars
<1>5. CASE ReadLogical
  BY <1>5 DEF ReadLogical, Ask, factVars, historyVars, FactsTyped, LogicalStates
<1>6. CASE LogicalFails
  BY <1>6 DEF LogicalFails, factVars, historyVars
<1>7. CASE ReadSaved \/ ReadUsable \/ ReadEnriched
  BY <1>7 DEF ReadSaved, ReadUsable, ReadEnriched, Ask, factVars, historyVars
<1>8. CASE ReadCounts \/ ReadFinalized \/ ReadFailures \/ ReadUnsettled
  <2>1. /\ ~aborted' /\ UNCHANGED <<analysis, logical, steady, aborted>>
        /\ statement \in AskedLogical
    BY <1>8 DEF ReadCounts, ReadFinalized, ReadFailures, ReadUnsettled, Ask, factVars, historyVars
  <2>2. returned'.analysis = returned.analysis /\ returned'.logical = returned.logical
    BY <1>8 DEF ReadCounts, ReadFinalized, ReadFailures, ReadUnsettled, Ask
  <2> QED BY <2>1, <2>2
<1> QED
  BY <1>1, <1>2, <1>3, <1>4, <1>5, <1>6, <1>7, <1>8 DEF NextPage, StatementFails, Render

\* The page of statements that all succeeded.
LEMMA DeliveryShown ==
    ASSUME PageTyped, HistoryInv, DeliveryInv, statement = "render"
    PROVE  /\ failedBefore # {} => DeliveryStatus = "FAIL"
           /\ standing # {} => DeliveryStatus \in {"WARN", "FAIL"}
           /\ (\A d \in Deliveries : ~Failed(d)) => DeliveryStatus # "FAIL"
           /\ (\A d \in Deliveries : delivery[d].status \notin {"sent", "final"}) => DeliveryStatus # "OK"
<1> USE DEF AskedCounts, AskedFinalized, AskedFailures
<1>1. failedBefore # {} => returned.finalized /\ "real" \in returned.failures
  BY DEF DeliveryInv
<1>2. ASSUME standing # {} PROVE DeliveryStatus \in {"WARN", "FAIL"}
  <2>1. PICK d \in standing : Unsettled24h(d)
    BY <1>2 DEF HistoryInv
  <2>2. /\ delivery[d].status \in returned.counts
        /\ delivery[d].status \in {"pending", "retry_pending", "failed"}
        /\ delivery[d].status = "failed" => returned.unsettled
    BY <2>1 DEF Unsettled24h, DeliveryInv
  <2> QED BY <2>2 DEF DeliveryStatus
<1>3. failedBefore # {} => DeliveryStatus = "FAIL"
  BY <1>1 DEF DeliveryStatus
<1>4. (\A d \in Deliveries : ~Failed(d)) => DeliveryStatus # "FAIL"
  BY DEF DeliveryStatus, DeliveryInv
<1>5. (\A d \in Deliveries : delivery[d].status \notin {"sent", "final"}) => DeliveryStatus # "OK"
  BY DEF DeliveryStatus, DeliveryInv
<1> QED BY <1>2, <1>3, <1>4, <1>5

\* The heading is one of the statuses, and none of them is worse.
LEMMA WorstShown ==
    ASSUME DOMAIN sections # {}, \A n \in DOMAIN sections : sections[n] \in Statuses24h
    PROVE  Overall = "OK" => \A n \in DOMAIN sections : sections[n] = "OK"
<1> DEFINE shown == {sections[n] : n \in DOMAIN sections}
           Worst(s) == \A n \in DOMAIN sections : Rank(sections[n]) <= Rank(s)
<1>1. shown \subseteq Statuses24h /\ shown # {}
  OBVIOUS
<1>2. /\ Rank("OK") = 0 /\ Rank("UNKNOWN") = 1 /\ Rank("WARN") = 2 /\ Rank("FAIL") = 3
  BY DEF Rank
<1>3. \E s \in shown : Worst(s)
  <2>1. CASE "FAIL" \in shown
    BY <2>1, <1>2 DEF Statuses24h
  <2>2. CASE "FAIL" \notin shown /\ "WARN" \in shown
    BY <2>2, <1>2 DEF Statuses24h
  <2>3. CASE shown \cap {"FAIL", "WARN"} = {} /\ "UNKNOWN" \in shown
    BY <2>3, <1>2 DEF Statuses24h
  <2>4. CASE shown \cap {"FAIL", "WARN", "UNKNOWN"} = {}
    BY <2>4, <1>1, <1>2 DEF Statuses24h
  <2> QED BY <2>1, <2>2, <2>3, <2>4
<1>4. Worst(Overall)
  BY <1>3 DEF Overall
<1>5. ASSUME Overall = "OK", NEW n \in DOMAIN sections PROVE sections[n] = "OK"
  <2>1. Rank(sections[n]) <= 0
    BY <1>2, <1>4, <1>5
  <2> QED BY <1>2, <2>1 DEF Statuses24h
<1> QED BY <1>5

LEMMA RenderTruthful ==
    ASSUME PageTyped, HistoryInv, DeliveryInv, AnalysisInv, Render
    PROVE  PageTruthful'
<1>1. UNCHANGED <<analysis, logical, delivery, failedBefore, standing, steady>> /\ statement = "render"
  BY DEF Render, factVars, historyVars
<1>2. /\ DOMAIN sections' = SectionNames
      /\ sections'["Telegram"] = DeliveryStatus /\ sections'["AI"] = AnalysisStatus
      /\ \A n \in SectionNames : sections'[n] \in Statuses24h
  BY Rendered
<1>3. /\ failedBefore # {} => DeliveryStatus = "FAIL"
      /\ standing # {} => DeliveryStatus \in {"WARN", "FAIL"}
      /\ (\A d \in Deliveries : ~Failed(d)) => DeliveryStatus # "FAIL"
      /\ (\A d \in Deliveries : delivery[d].status \notin {"sent", "final"}) => DeliveryStatus # "OK"
  BY <1>1, DeliveryShown
<1>4. steady /\ analysis = "failed" => AnalysisStatus = IF logical = "degraded" THEN "WARN" ELSE "FAIL"
  <2>1. returned.logical # "gap"
    BY <1>1 DEF AnalysisInv
  <2> QED
    BY <1>1, <2>1 DEF AnalysisInv, AskedLogical, AskedCounts, AnalysisStatus, LatestStatus
<1>5. Overall' = "OK" => failedBefore \cup standing = {}
  <2>1. (DOMAIN sections # {} /\ \A n \in DOMAIN sections : sections[n] \in Statuses24h)'
    BY <1>2 DEF SectionNames
  <2>2. (Overall = "OK" => \A n \in DOMAIN sections : sections[n] = "OK")'
    BY <2>1, WorstShown, PTL
  <2> QED BY <1>2, <1>3, <2>2 DEF SectionNames
<1> QED BY <1>1, <1>2, <1>3, <1>4, <1>5, StatusesAre DEF PageTruthful, Shows, Failed

LEMMA FailureTruthful ==
    ASSUME PageTyped, StatementFails
    PROVE  PageTruthful'
<1>1. DOMAIN sections' = {"Database"} /\ sections'["Database"] = "FAIL"
  BY DEF StatementFails
<1>2. Overall' # "OK"
  BY <1>1 DEF Overall, Rank
<1> QED BY <1>1, <1>2 DEF PageTruthful, Shows

LEMMA PageInvStep == PageInv /\ [NextPage]_pageVars => PageInv'
<1> SUFFICES ASSUME PageInv, [NextPage]_pageVars PROVE PageInv'
  OBVIOUS
<1>1. CASE UNCHANGED pageVars
  BY <1>1, PageTypedStep DEF PageInv, HistoryInv, DeliveryInv, AnalysisInv, PageTruthful, Shows, Overall,
       Failed, Unsettled24h, pageVars, factVars, historyVars
<1>2. CASE NextPage
  <2>1. PageTyped' /\ statement # "shown"
    BY <1>2, PageTypedStep DEF PageInv, NextPage, CheckPrice, EndAnalysis, SaveNews, Progress,
         OpenSession, ReadPrices, ReadAnalysis, ReadLogical, LogicalFails, ReadSaved, ReadUsable,
         ReadEnriched, ReadCounts, ReadFinalized, ReadFailures, ReadUnsettled, StatementFails,
         Render, Ask, Reading
  <2>2. CASE statement' # "shown"
    <3>1. HistoryInv' /\ DeliveryInv' /\ AnalysisInv'
      BY <1>2, <2>1, <2>2, DeliverySeen, AnalysisSeen DEF PageInv
    <3> QED BY <2>1, <2>2, <3>1 DEF PageInv, PageTruthful
  <2>3. CASE Render
    BY <2>1, <2>3, RenderTruthful DEF PageInv, Render
  <2>4. CASE StatementFails
    BY <2>1, <2>4, FailureTruthful DEF PageInv, StatementFails
  <2>5. CASE statement' = "shown" /\ ~Render /\ ~StatementFails
    BY <1>2, <2>1, <2>5 DEF NextPage, CheckPrice, EndAnalysis, SaveNews, Progress,
         OpenSession, ReadPrices, ReadAnalysis, ReadLogical, LogicalFails, ReadSaved, ReadUsable,
         ReadEnriched, ReadCounts, ReadFinalized, ReadFailures, ReadUnsettled, Ask
  <2> QED BY <2>2, <2>3, <2>4, <2>5
<1> QED BY <1>1, <1>2

\* Every variable of a page keeps its type.
THEOREM PageTypeCorrect == SpecPage => []TypeOKPage
<1>1. PageInv => TypeOKPage
  BY DEF PageInv, PageTyped, FactsTyped, SectionsTyped, SectionNames, ReturnedType, TypeOKPage
<1> QED BY <1>1, InitPageInv, PageInvStep, PTL DEF SpecPage

\* The page hides no failure, and no delivery that waits, that lasted while it
\* was made, and accuses nobody (system_status.py), for any coins and
\* deliveries, whatever is committed between its statements.
THEOREM PageIsTruthful == SpecPage => []PageTruthful
<1>1. PageInv => PageTruthful
  BY DEF PageInv
<1> QED BY <1>1, InitPageInv, PageInvStep, PTL DEF SpecPage

-----------------------------------------------------------------------------
(***************************************************************************)
(* The report cache.                                                       *)
(***************************************************************************)

ReadersTyped ==
    /\ phase \in [Readers -> {"idle", "wait", "generate"}]
    /\ generating \in Readers \cup {NoReader}
    /\ answer \in [Users -> {"none", "report", "unavailable", "error"}]
    /\ \A r \in Readers : phase[r] = "generate" <=> generating = r

TimesTyped ==
    /\ checkNo \in 0..LastCheck /\ checked \in 0..checkNo
    /\ made \in MaybeTime /\ recovery \in MaybeTime /\ failedAt \in MaybeTime
    /\ madeAt \in 0..checkNo
    /\ backoffUntil \in Nat /\ upgradeUntil \in Nat
    /\ made # Missing => made <= checkNo

FlagsTyped == outdated \in BOOLEAN /\ upgrading \in BOOLEAN /\ disturbed \in BOOLEAN

ReportsTyped == ReadersTyped /\ TimesTyped /\ FlagsTyped

LEMMA ReadersStep == ReadersTyped /\ [NextReports]_reportVars => ReadersTyped'
<1> SUFFICES ASSUME ReadersTyped, [NextReports]_reportVars PROVE ReadersTyped'
  OBVIOUS
<1> USE DEF ReadersTyped
<1>1. CASE UNCHANGED <<phase, generating, answer>>
  BY <1>1
<1>2. ASSUME NEW r \in Readers, NEW text \in {"none", "report", "unavailable", "error"}, Reply(r, text)
      PROVE  answer' \in [Users -> {"none", "report", "unavailable", "error"}]
  BY <1>2 DEF Reply
<1>3. ASSUME NEW r \in Readers, BeginReading(r) PROVE ReadersTyped'
  <2>1. answer' \in [Users -> {"none", "report", "unavailable", "error"}]
    BY <1>2, <1>3 DEF BeginReading, ReplyFromCache
  <2>2. generating' = generating /\ phase[r] = "idle" /\ phase' \in {phase, [phase EXCEPT ![r] = "wait"]}
    BY <1>3 DEF BeginReading, lockVars
  <2> QED BY <2>1, <2>2
<1>4. ASSUME NEW r \in Readers, TakeReportLock(r) PROVE ReadersTyped'
  <2>1. answer' \in [Users -> {"none", "report", "unavailable", "error"}]
    BY <1>2, <1>4 DEF TakeReportLock, ReplyFromCache
  <2>2. phase[r] = "wait" /\ generating = NoReader
    BY <1>4 DEF TakeReportLock
  <2>3. \/ phase' = [phase EXCEPT ![r] = "idle"] /\ generating' = generating
        \/ phase' = [phase EXCEPT ![r] = "generate"] /\ generating' = r
    BY <1>4 DEF TakeReportLock, lockVars
  <2> QED BY <2>1, <2>2, <2>3, ReportAssumption
<1>5. ASSUME NEW r \in Readers, Complete(r) \/ Fail(r) \/ Raise(r) PROVE ReadersTyped'
  <2>1. answer' \in [Users -> {"none", "report", "unavailable", "error"}]
    BY <1>2, <1>5 DEF Complete, Fail, Raise, ReplyAfterFailure
  <2>2. phase[r] = "generate" /\ phase' = [phase EXCEPT ![r] = "idle"] /\ generating' = NoReader
    BY <1>5 DEF Complete, Fail, Raise, EndGeneration
  <2> QED BY <2>1, <2>2, ReportAssumption
<1>6. CASE RestartReports
  BY <1>6, ReportAssumption DEF RestartReports
<1> QED
  BY <1>1, <1>3, <1>4, <1>5, <1>6 DEF NextReports, NextCheck, reportVars, lockVars

LEMMA FlagsStep == FlagsTyped /\ [NextReports]_reportVars => FlagsTyped'
<1> SUFFICES ASSUME FlagsTyped, [NextReports]_reportVars PROVE FlagsTyped'
  OBVIOUS
<1> USE DEF FlagsTyped
<1>1. CASE UNCHANGED reportVars
  BY <1>1 DEF reportVars, cacheVars, lockVars
<1>2. ASSUME NEW r \in Readers, BeginReading(r) PROVE FlagsTyped'
  BY <1>2 DEF BeginReading, cacheVars, lockVars
<1>3. ASSUME NEW r \in Readers, TakeReportLock(r) PROVE FlagsTyped'
  <2>1. (FreshReport /\ outdated) \in BOOLEAN
    OBVIOUS
  <2> QED BY <1>3, <2>1, Zenon DEF TakeReportLock, lockVars, cacheVars
<1>4. ASSUME NEW r \in Readers, Complete(r) \/ Fail(r) \/ Raise(r) PROVE FlagsTyped'
  BY <1>4 DEF Complete, Fail, Raise, EndGeneration, cacheVars
<1>5. CASE RestartReports
  BY <1>5 DEF RestartReports, cacheVars
<1>6. CASE NextCheck
  <2>1. (disturbed \/ (checkNo >= FirstCheck /\ checked < checkNo)) \in BOOLEAN
    OBVIOUS
  <2> QED BY <1>6, <2>1, Zenon DEF NextCheck, cacheVars, lockVars
<1> QED BY <1>1, <1>2, <1>3, <1>4, <1>5, <1>6 DEF NextReports

\* What a step may do to the times.
LEMMA TimesStep == TimesTyped /\ [NextReports]_reportVars => TimesTyped'
<1> SUFFICES ASSUME TimesTyped, [NextReports]_reportVars PROVE TimesTyped'
  OBVIOUS
<1> USE ReportAssumption DEF TimesTyped, MaybeTime
<1>1. CASE UNCHANGED reportVars
  BY <1>1 DEF reportVars, cacheVars, memoryVars, lockVars
<1>2. ASSUME NEW r \in Readers, BeginReading(r) PROVE TimesTyped'
  <2>1. recovery' \in {Missing, recovery} /\ checked' \in {checkNo, checked}
    BY <1>2 DEF BeginReading, Done
  <2> QED BY <1>2, <2>1 DEF BeginReading, cacheVars, lockVars
<1>3. ASSUME NEW r \in Readers, TakeReportLock(r) PROVE TimesTyped'
  <2>1. madeAt' \in {checkNo, madeAt} /\ checked' \in {checkNo, checked}
    BY <1>3 DEF TakeReportLock, Done, lockVars
  <2> QED BY <1>3, <2>1 DEF TakeReportLock, cacheVars, memoryVars
<1>4. ASSUME NEW r \in Readers, Complete(r) PROVE TimesTyped'
  BY <1>4 DEF Complete, EndGeneration, Done, memoryVars
<1>5. ASSUME NEW r \in Readers, Fail(r) PROVE TimesTyped'
  <2>1. backoffUntil' \in Nat
    BY <1>5 DEF Fail
  <2>2. upgradeUntil' \in Nat
    BY <1>5 DEF Fail
  <2>3. recovery' \in MaybeTime /\ failedAt' \in MaybeTime
    BY <1>5 DEF Fail
  <2>4. UNCHANGED <<checkNo, made>> /\ madeAt' = 0 /\ checked' \in {checkNo, checked}
    BY <1>5 DEF Fail, EndGeneration, Done, cacheVars
  <2> QED BY <2>1, <2>2, <2>3, <2>4
<1>6. ASSUME NEW r \in Readers, Raise(r) PROVE TimesTyped'
  BY <1>6 DEF Raise, EndGeneration, Done, cacheVars, memoryVars
<1>7. CASE RestartReports
  BY <1>7 DEF RestartReports, cacheVars
<1>8. CASE NextCheck
  BY <1>8 DEF NextCheck, cacheVars, lockVars, memoryVars
<1> QED BY <1>1, <1>2, <1>3, <1>4, <1>5, <1>6, <1>7, <1>8 DEF NextReports

LEMMA InitReportsTyped == InitReports => ReportsTyped
<1> SUFFICES ASSUME InitReports PROVE ReportsTyped
  OBVIOUS
<1>1. ReadersTyped
  BY ReportAssumption DEF InitReports, ReadersTyped
<1>2. TimesTyped
  BY ReportAssumption DEF InitReports, TimesTyped, MaybeTime
<1>3. FlagsTyped
  <2>1. (made = 0) \in BOOLEAN
    OBVIOUS
  <2> QED BY <2>1, Zenon DEF InitReports, FlagsTyped
<1> QED BY <1>1, <1>2, <1>3 DEF ReportsTyped

\* Whoever generates found that it was time to, and nothing that it found has
\* changed since.
GenerationInv ==
    generating # NoReader =>
        /\ failedAt # Missing => madeAt >= failedAt + FailureBackoff
        /\ made # Missing => madeAt >= made
        /\ made # Missing /\ ~outdated => madeAt >= made + ValidFor - Grace
        /\ generating \in Users /\ ~upgrading => ~FreshReport

BackoffInv == failedAt # Missing => backoffUntil >= failedAt + FailureBackoff

\* As long as nothing has disturbed the checks, the one of this time has left a
\* report that lasts until the next, or has yet to be done.
PunctualInv ==
    ~disturbed =>
        /\ backoffUntil = 0
        /\ made # Missing => FreshReport
        /\ checkNo >= FirstCheck /\ checked = checkNo => made # Missing /\ Remaining > Grace
        /\ generating # NoReader => madeAt + ValidFor > checkNo
        /\ phase[RefreshJob] # "idle" => checkNo >= FirstCheck /\ checked < checkNo
        /\ generating = RefreshJob => madeAt = checkNo

ReportInv == ReportsTyped /\ GenerationInv /\ BackoffInv /\ PunctualInv

LEMMA InitReportInv == InitReports => ReportInv
<1> SUFFICES ASSUME InitReports PROVE ReportInv
  OBVIOUS
<1>1. generating = NoReader /\ failedAt = Missing /\ RefreshJob \in Readers /\ NoReader # RefreshJob
  BY ReportAssumption DEF InitReports, Readers, Scheduled
<1>2. PunctualInv
  BY <1>1, ReportAssumption DEF InitReports, PunctualInv, FreshReport
<1> QED BY <1>1, <1>2, InitReportsTyped DEF ReportInv, GenerationInv, BackoffInv

LEMMA GenerationStep ==
    ASSUME ReportInv, [NextReports]_reportVars
    PROVE  GenerationInv' /\ BackoffInv'
<1> USE ReportAssumption DEF ReportInv, ReportsTyped, TimesTyped, MaybeTime, GenerationInv, BackoffInv
<1>1. CASE UNCHANGED reportVars
  BY <1>1 DEF reportVars, cacheVars, memoryVars, lockVars, FreshReport
<1>2. ASSUME NEW r \in Readers, BeginReading(r) PROVE GenerationInv' /\ BackoffInv'
  BY <1>2 DEF BeginReading, cacheVars, lockVars, FreshReport
<1>3. ASSUME NEW r \in Readers, TakeReportLock(r) PROVE GenerationInv' /\ BackoffInv'
  <2>1. UNCHANGED <<checkNo, made, outdated, failedAt, backoffUntil>> /\ generating = NoReader
    BY <1>3 DEF TakeReportLock, cacheVars, memoryVars
  <2>2. CASE StopUnderLock(r)
    BY <2>1, <2>2, <1>3 DEF TakeReportLock, lockVars
  <2>3. CASE ~StopUnderLock(r)
    <3>1. generating' = r /\ madeAt' = checkNo
      BY <2>3, <1>3 DEF TakeReportLock
    <3>2. upgrading' = (FreshReport /\ outdated)
      BY <2>3, <1>3, Zenon DEF TakeReportLock
    <3>3. ~Usable(r) /\ backoffUntil <= checkNo
      BY <2>3 DEF StopUnderLock, Stop, BackoffActive
    <3>4. made # Missing /\ ~outdated => checkNo >= made + ValidFor - Grace
      BY <3>3 DEF Usable, LeaveAlone, FreshReport, Remaining
    <3>5. r \in Users /\ ~upgrading' => ~FreshReport
      <4>1. r \in Users => r \notin Scheduled
        OBVIOUS
      <4> QED BY <3>2, <3>3, <4>1, Zenon DEF Usable
    <3>6. FreshReport' = FreshReport
      BY <2>1 DEF FreshReport
    <3> QED BY <2>1, <3>1, <3>3, <3>4, <3>5, <3>6
  <2> QED BY <2>2, <2>3
<1>4. ASSUME NEW r \in Readers, EndGeneration(r), UNCHANGED <<failedAt, backoffUntil>>
      PROVE  GenerationInv' /\ BackoffInv'
  BY <1>4 DEF EndGeneration
<1>5. ASSUME NEW r \in Readers, Fail(r) PROVE GenerationInv' /\ BackoffInv'
  <2>1. generating = r /\ generating # NoReader /\ generating' = NoReader
    BY <1>5 DEF Fail, EndGeneration, ReadersTyped
  <2>2. CASE r \in Scheduled
    BY <2>1, <2>2, <1>5 DEF Fail
  <2>3. CASE r \notin Scheduled
    <3>1. failedAt' = failedAt /\ backoffUntil' \in {backoffUntil, checkNo + RateBackoff}
      BY <1>5, <2>3 DEF Fail
    <3> QED BY <2>1, <3>1
  <2> QED BY <2>2, <2>3
<1>6. CASE RestartReports
  BY <1>6 DEF RestartReports
<1>7. CASE NextCheck
  BY <1>7 DEF NextCheck, cacheVars, lockVars, memoryVars, FreshReport
<1> QED
  BY <1>1, <1>2, <1>3, <1>4, <1>5, <1>6, <1>7 DEF NextReports, Complete, Raise, memoryVars

LEMMA PunctualStep ==
    ASSUME ReportInv, [NextReports]_reportVars
    PROVE  PunctualInv'
<1> SUFFICES ASSUME ~disturbed' PROVE PunctualInv'
  BY DEF PunctualInv
<1> USE ReportAssumption DEF ReportInv, ReportsTyped, TimesTyped, MaybeTime, PunctualInv
<1>r. RefreshJob \in Readers /\ RefreshJob # NoReader /\ RefreshJob \in Scheduled /\ RefreshJob \notin Users
  BY DEF Readers, Scheduled
<1>1. CASE UNCHANGED reportVars
  BY <1>1 DEF reportVars, cacheVars, memoryVars, lockVars, FreshReport, Remaining
<1>2. ASSUME NEW r \in Readers, BeginReading(r) PROVE PunctualInv'
  <2>1. UNCHANGED <<checkNo, made, outdated, generating, madeAt, backoffUntil, disturbed>>
    BY <1>2 DEF BeginReading, cacheVars, lockVars
  <2>2. (FreshReport)' = FreshReport /\ Remaining' = Remaining
    BY <2>1 DEF FreshReport, Remaining
  <2>3. CASE r = RefreshJob
    <3>1. checkNo >= FirstCheck /\ checked < checkNo
      BY <2>3, <1>2, <1>r DEF BeginReading, MayBegin, Scheduled
    <3>2. CASE Stop(r) /\ Done(r) /\ UNCHANGED phase
      <4>1. LeaveAlone
        BY <2>1, <2>3, <3>2, <1>r DEF Stop, Usable, BackoffActive
      <4>2. checked' = checkNo /\ phase'[RefreshJob] = "idle"
        BY <2>3, <3>2, <1>2 DEF Done, BeginReading
      <4> QED BY <2>1, <2>2, <4>1, <4>2 DEF LeaveAlone, FreshReport
    <3>3. CASE phase' = [phase EXCEPT ![r] = "wait"] /\ UNCHANGED <<answer, checked>>
      BY <2>1, <2>2, <3>1, <3>3
    <3> QED BY <1>2, <3>2, <3>3 DEF BeginReading
  <2>4. CASE r # RefreshJob
    <3>1. checked' = checked /\ phase'[RefreshJob] = phase[RefreshJob]
      BY <2>4, <1>2, <1>r DEF BeginReading, Done, ReadersTyped
    <3> QED BY <2>1, <2>2, <3>1
  <2> QED BY <2>3, <2>4
<1>3. ASSUME NEW r \in Readers, TakeReportLock(r) PROVE PunctualInv'
  <2>1. UNCHANGED <<checkNo, made, outdated, backoffUntil, disturbed>> /\ generating = NoReader
        /\ phase[r] = "wait"
    BY <1>3 DEF TakeReportLock, cacheVars, memoryVars
  <2>2. (FreshReport)' = FreshReport /\ Remaining' = Remaining
    BY <2>1 DEF FreshReport, Remaining
  <2>3. CASE StopUnderLock(r) /\ phase' = [phase EXCEPT ![r] = "idle"] /\ Done(r) /\ UNCHANGED lockVars
    <3>1. CASE r = RefreshJob
      <4>1. LeaveAlone
        BY <2>1, <2>3, <3>1, <1>r DEF StopUnderLock, Stop, Usable, BackoffActive
      <4>2. checked' = checkNo /\ phase'[RefreshJob] = "idle" /\ generating' = NoReader
        BY <2>1, <2>3, <3>1, <1>r DEF Done, ReadersTyped, lockVars
      <4> QED BY <2>1, <2>2, <4>1, <4>2, <1>r DEF LeaveAlone, FreshReport
    <3>2. CASE r # RefreshJob
      <4>1. checked' = checked /\ phase'[RefreshJob] = phase[RefreshJob] /\ generating' = NoReader
        BY <2>1, <2>3, <3>2, <1>r DEF Done, ReadersTyped, lockVars
      <4> QED BY <2>1, <2>2, <4>1, <1>r
    <3> QED BY <3>1, <3>2
  <2>4. CASE phase' = [phase EXCEPT ![r] = "generate"] /\ generating' = r /\ madeAt' = checkNo
             /\ UNCHANGED checked
    <3>1. phase'[RefreshJob] # "idle" => phase[RefreshJob] # "idle"
      BY <2>1, <2>4, <1>r DEF ReadersTyped
    <3> QED BY <2>1, <2>2, <2>4, <3>1, <1>r
  <2> QED BY <1>3, <2>3, <2>4 DEF TakeReportLock
<1>4. ASSUME NEW r \in Readers, Complete(r) PROVE PunctualInv'
  <2>1. /\ UNCHANGED <<checkNo, backoffUntil, disturbed>> /\ made' = madeAt
        /\ generating = r /\ generating # NoReader /\ generating' = NoReader
        /\ phase' = [phase EXCEPT ![r] = "idle"]
    BY <1>4 DEF Complete, EndGeneration, memoryVars, ReadersTyped
  <2>2. FreshReport'
    BY <2>1 DEF FreshReport
  <2>3. Remaining' = madeAt + ValidFor - checkNo
    BY <2>1 DEF Remaining
  <2>4. CASE r = RefreshJob
    <3>1. phase'[RefreshJob] = "idle" /\ madeAt = checkNo
      BY <2>1, <2>4, <1>r DEF ReadersTyped
    <3> QED BY <2>1, <2>2, <2>3, <3>1, <1>r
  <2>5. CASE r # RefreshJob
    <3>1. checked' = checked /\ phase'[RefreshJob] = phase[RefreshJob]
      BY <2>1, <2>5, <1>4, <1>r DEF Complete, Done, ReadersTyped
    <3>2. made # Missing => madeAt >= made
      BY <2>1 DEF GenerationInv
    <3>3. checkNo >= FirstCheck /\ checked = checkNo => madeAt + ValidFor - checkNo > Grace
      BY <2>1, <3>2 DEF Remaining
    <3> QED BY <2>1, <2>2, <2>3, <3>1, <3>3, <1>r
  <2> QED BY <2>4, <2>5
<1>5. ASSUME NEW r \in Readers, Fail(r) \/ Raise(r) PROVE FALSE
  BY <1>5 DEF Fail, Raise
<1>6. CASE RestartReports
  BY <1>6 DEF RestartReports
<1>7. CASE NextCheck
  <2>1. /\ UNCHANGED <<made, outdated, generating, madeAt, backoffUntil, checked, phase>>
        /\ checkNo' = checkNo + 1 /\ ~disturbed
    BY <1>7 DEF NextCheck, cacheVars, lockVars, memoryVars
  <2>2. checkNo < FirstCheck \/ checked = checkNo
    <3>1. ~(checkNo >= FirstCheck /\ checked < checkNo)
      BY <1>7, Zenon DEF NextCheck
    <3> QED BY <3>1
  <2>3. phase[RefreshJob] = "idle" /\ generating # RefreshJob
    BY <2>1, <2>2, <1>r DEF ReadersTyped
  <2>4. CASE checkNo < FirstCheck
    <3>1. checkNo' < ValidFor
      BY <2>1, <2>4
    <3>2. made # Missing => FreshReport'
      BY <2>1, <3>1 DEF FreshReport
    <3> QED BY <2>1, <2>3, <2>4, <3>1, <3>2
  <2>5. CASE checkNo >= FirstCheck
    <3>1. made # Missing /\ made + ValidFor > checkNo + Grace
      BY <2>1, <2>2, <2>5 DEF Remaining
    <3>2. FreshReport'
      BY <2>1, <3>1 DEF FreshReport
    <3>3. generating # NoReader => madeAt + ValidFor > checkNo'
      BY <2>1, <3>1 DEF GenerationInv
    <3> QED BY <2>1, <2>3, <2>5, <3>1, <3>2, <3>3
  <2> QED BY <2>4, <2>5
<1> QED BY <1>1, <1>2, <1>3, <1>4, <1>5, <1>6, <1>7 DEF NextReports

LEMMA ReportInvStep == ReportInv /\ [NextReports]_reportVars => ReportInv'
BY ReadersStep, TimesStep, FlagsStep, GenerationStep, PunctualStep DEF ReportInv, ReportsTyped

LEMMA SpecReportInv == SpecReports => []ReportInv
BY InitReportInv, ReportInvStep, PTL DEF SpecReports

\* Every variable of the cache keeps its type, and the holder of the lock alone
\* generates.
THEOREM ReportsTypeCorrect == SpecReports => []TypeOKReports
<1>1. ReportInv => TypeOKReports
  <2> SUFFICES ASSUME ReportInv PROVE TypeOKReports
    OBVIOUS
  <2>1. /\ checkNo \in 0..LastCheck /\ checked \in 0..LastCheck /\ madeAt \in 0..LastCheck
        /\ {made, recovery, failedAt} \subseteq MaybeTime /\ backoffUntil \in Nat /\ upgradeUntil \in Nat
    BY ReportAssumption DEF ReportInv, ReportsTyped, TimesTyped
  <2>2. {outdated, upgrading, disturbed} \subseteq BOOLEAN
    BY Zenon DEF ReportInv, ReportsTyped, FlagsTyped
  <2> QED BY <2>1, <2>2, Zenon DEF ReportInv, ReportsTyped, ReadersTyped, TypeOKReports
<1> QED BY <1>1, SpecReportInv, PTL

\* A report is replaced only when it has the grace left at most: get_or_generate
\* looks again under the lock.
LEMMA Replaced ==
    ASSUME ReportInv, [NextReports]_reportVars
    PROVE  made' # made /\ made # Missing /\ ~outdated => made' >= made + ValidFor - Grace
<1>1. ASSUME NEW r \in Readers, Complete(r)
      PROVE  made # Missing /\ ~outdated => made' >= made + ValidFor - Grace
  <2>1. made' = madeAt /\ generating # NoReader
    BY <1>1, ReportAssumption DEF Complete, EndGeneration, ReportInv, ReportsTyped, ReadersTyped
  <2> QED BY <2>1 DEF ReportInv, GenerationInv
<1>2. CASE UNCHANGED made
  BY <1>2
<1> QED
  BY <1>1, <1>2 DEF NextReports, BeginReading, TakeReportLock, Fail, Raise, RestartReports, NextCheck,
     reportVars, cacheVars

\* Nobody is told that there is no report while a valid one is stored.
LEMMA ToldTruthfully ==
    ASSUME ReportInv, [NextReports]_reportVars, NEW u \in Users,
           answer[u] = "none", answer'[u] = "unavailable"
    PROVE  ~FreshReport
<1>t. answer \in [Users -> {"none", "report", "unavailable", "error"}]
  BY DEF ReportInv, ReportsTyped, ReadersTyped
<1>1. ASSUME NEW r \in Readers, NEW text \in {"report", "unavailable", "error"}, Reply(r, text)
      PROVE  r = u /\ text = "unavailable"
  BY <1>1, <1>t DEF Reply
<1>2. ASSUME NEW r \in Readers, ReplyFromCache(r) PROVE ~FreshReport
  BY <1>1, <1>2 DEF ReplyFromCache
<1>3. ASSUME NEW r \in Readers, Fail(r) PROVE ~FreshReport
  <2>1. ~upgrading /\ r = u
    BY <1>1, <1>3 DEF Fail, ReplyAfterFailure
  <2>2. generating = r /\ generating # NoReader
    BY <1>3, ReportAssumption DEF Fail, EndGeneration, ReportInv, ReportsTyped, ReadersTyped
  <2> QED BY <2>1, <2>2 DEF ReportInv, GenerationInv
<1>4. ASSUME NEW r \in Readers, Complete(r) \/ Raise(r) PROVE FALSE
  BY <1>1, <1>4 DEF Complete, Raise
<1>5. CASE UNCHANGED answer
  BY <1>5
<1> QED
  BY <1>2, <1>3, <1>4, <1>5 DEF NextReports, BeginReading, TakeReportLock, RestartReports, NextCheck, reportVars

\* Reports are neither missing while the checks are punctual, nor made twice, nor
\* insisted on after a failure, for any users, back-offs and grace that outlasts
\* the time between two checks.
THEOREM ReportsAreRefreshed == SpecReports => ReportsRefreshed
<1>1. ReportInv => NoGap
  BY DEF ReportInv, PunctualInv, NoGap
<1>2. ReportInv => FailureHeldBack
  BY DEF ReportInv, GenerationInv, FailureHeldBack
<1>3. ReportInv /\ [NextReports]_reportVars =>
          (made' # made /\ made # Missing /\ ~outdated => made' >= made + ValidFor - Grace)
  BY Replaced
<1>4. ReportInv /\ [NextReports]_reportVars =>
          \A u \in Users : answer[u] = "none" /\ answer'[u] = "unavailable" => ~FreshReport
  BY ToldTruthfully
<1> QED
  BY <1>1, <1>2, <1>3, <1>4, SpecReportInv, PTL
     DEF SpecReports, ReportsRefreshed, ReportsApart, ReportShownWhileValid

-----------------------------------------------------------------------------
(***************************************************************************)
(* The generation of heartbeats.                                           *)
(***************************************************************************)

GenerationTyped ==
    /\ moment \in 0..LastMoment
    /\ silent \subseteq Coins
    /\ latest \in [Coins -> 0..LastMoment \cup {NeverMade}]
    /\ began \in [Generators -> 0..LastMoment]
    /\ stepOf \in [Generators -> GenerationSteps]
    /\ todo \in [Generators -> SUBSET Coins]
    /\ lockedBy \in [Coins -> Generators \cup {NoGenerator}]
    /\ drops \subseteq Coins
    /\ \A g \in Generators : stepOf[g] = "idle" <=> todo[g] = {}

\* A job holds the lock of the coin it works on, unless that lock was lost.
LockInv ==
    \A g \in Generators, c \in Coins :
        stepOf[g] \in {"check", "ask"} /\ AtCoin(g, c) => lockedBy[c] = g \/ c \in drops

\* No job began later than now, and a coin that is asked for has no heartbeat
\* of the last hour as long as its lock is held.
AskedInv ==
    /\ \A g \in Generators : began[g] <= moment
    /\ \A g \in Generators, c \in Coins \ drops :
          stepOf[g] = "ask" /\ AtCoin(g, c) /\ latest[c] # NeverMade => moment - latest[c] > FreshFor

HeartbeatInv == GenerationTyped /\ LockInv /\ AskedInv

LEMMA InitHeartbeatInv == InitGeneration => HeartbeatInv
BY GenerationAssumption
   DEF InitGeneration, HeartbeatInv, GenerationTyped, LockInv, AskedInv, GenerationSteps

\* A job is at one coin at a time.
LEMMA OneCoin ==
    ASSUME NEW g \in Generators, NEW c \in Coins, NEW d \in Coins, AtCoin(g, c), AtCoin(g, d)
    PROVE  c = d
BY GenerationAssumption DEF AtCoin

LEMMA ProceedTyped ==
    ASSUME GenerationTyped, NEW g \in Generators, NEW c \in Coins, Proceed(g, c)
    PROVE  /\ todo' \in [Generators -> SUBSET Coins] /\ stepOf' \in [Generators -> GenerationSteps]
           /\ stepOf'[g] \in {"idle", "next"}
           /\ stepOf'[g] = "idle" <=> todo'[g] = {}
           /\ \A h \in Generators \ {g} : stepOf'[h] = stepOf[h] /\ todo'[h] = todo[h]
<1> DEFINE rest == IF lockedBy[c] = g THEN todo[g] \ {c} ELSE {}
<1>1. todo' = [todo EXCEPT ![g] = rest] /\ stepOf' = [stepOf EXCEPT ![g] = IF rest = {} THEN "idle" ELSE "next"]
  BY DEF Proceed, GoTo
<1>2. rest \in SUBSET Coins
  BY DEF GenerationTyped
<1> HIDE DEF rest
<1> QED BY <1>1, <1>2 DEF GenerationTyped, GenerationSteps

LEMMA UnlockTyped ==
    ASSUME GenerationTyped, NEW g \in Generators, Unlock(g)
    PROVE  /\ lockedBy' \in [Coins -> Generators \cup {NoGenerator}]
           /\ \A c \in Coins : lockedBy[c] # g => lockedBy'[c] = lockedBy[c]
BY DEF Unlock, GenerationTyped

LEMMA GenerationTypedStep == GenerationTyped /\ [NextGeneration]_generationVars => GenerationTyped'
<1> SUFFICES ASSUME GenerationTyped, [NextGeneration]_generationVars PROVE GenerationTyped'
  OBVIOUS
<1>1. CASE UNCHANGED generationVars
  BY <1>1 DEF generationVars, GenerationTyped
<1>2. ASSUME NEW g \in Generators, SelectCoins(g) PROVE GenerationTyped'
  <2> DEFINE needed == {c \in silent : ~RecentAt(moment, c)}
  <2>1. /\ needed # {} /\ began' = [began EXCEPT ![g] = moment] /\ todo' = [todo EXCEPT ![g] = needed]
        /\ stepOf' = [stepOf EXCEPT ![g] = "fetch"]
        /\ UNCHANGED <<moment, silent, latest, lockedBy, drops>>
    BY <1>2 DEF SelectCoins, GoTo
  <2>2. needed \in SUBSET Coins
    BY DEF GenerationTyped
  <2> HIDE DEF needed
  <2> QED BY <2>1, <2>2 DEF GenerationTyped, GenerationSteps
<1>3. ASSUME NEW g \in Generators, FetchPrices(g) PROVE GenerationTyped'
  BY <1>3 DEF FetchPrices, GoTo, GenerationTyped, GenerationSteps
<1>4. ASSUME NEW g \in Generators, NEW c \in Coins, LockCoin(g, c) PROVE GenerationTyped'
  BY <1>4 DEF LockCoin, GoTo, GenerationTyped, GenerationSteps
<1>5. ASSUME NEW g \in Generators, NEW c \in Coins, CheckAgain(g, c) PROVE GenerationTyped'
  <2>1. CASE StillNeeded(g, c) /\ GoTo(g, "ask") /\ UNCHANGED <<todo, lockedBy>>
    BY <1>5, <2>1 DEF CheckAgain, GoTo, GenerationTyped, GenerationSteps
  <2>2. CASE Proceed(g, c) /\ Unlock(g)
    <3>1. UNCHANGED <<moment, silent, latest, began, drops>>
      BY <1>5 DEF CheckAgain
    <3> QED BY <2>2, <3>1, ProceedTyped, UnlockTyped DEF GenerationTyped
  <2> QED BY <1>5, <2>1, <2>2 DEF CheckAgain
<1>6. ASSUME NEW g \in Generators, NEW c \in Coins, SaveHeartbeat(g, c) PROVE GenerationTyped'
  <2>1. /\ Proceed(g, c) /\ Unlock(g) /\ UNCHANGED <<moment, silent, began, drops>>
        /\ latest' \in {latest, [latest EXCEPT ![c] = moment]}
    BY <1>6 DEF SaveHeartbeat
  <2>2. latest' \in [Coins -> 0..LastMoment \cup {NeverMade}]
    BY <2>1 DEF GenerationTyped
  <2> QED BY <2>1, <2>2, ProceedTyped, UnlockTyped DEF GenerationTyped
<1>7. ASSUME NEW g \in Generators, AbortGeneration(g) PROVE GenerationTyped'
  <2>1. lockedBy' \in [Coins -> Generators \cup {NoGenerator}]
    BY <1>7, UnlockTyped DEF AbortGeneration
  <2> QED BY <1>7, <2>1 DEF AbortGeneration, GoTo, GenerationTyped, GenerationSteps
<1>8. ASSUME NEW c \in Coins, LoseLock(c) PROVE GenerationTyped'
  BY <1>8 DEF LoseLock, GenerationTyped
<1>9. CASE ChangeRecipients
  BY <1>9 DEF ChangeRecipients, GenerationTyped
<1>10. CASE PassTime
  BY <1>10, GenerationAssumption DEF PassTime, GenerationTyped
<1> QED
  BY <1>1, <1>2, <1>3, <1>4, <1>5, <1>6, <1>7, <1>8, <1>9, <1>10 DEF NextGeneration

\* A step of one job that frees nothing of another leaves the other its lock.
LEMMA OthersKeepLocks ==
    ASSUME HeartbeatInv, NEW g \in Generators, NEW h \in Generators \ {g}, NEW c \in Coins,
           todo'[h] = todo[h], stepOf'[h] = stepOf[h], drops' = drops,
           \A d \in Coins : lockedBy[d] \notin {g, NoGenerator} => lockedBy'[d] = lockedBy[d],
           stepOf'[h] \in {"check", "ask"}, AtCoin(h, c)'
    PROVE  /\ AtCoin(h, c) /\ stepOf[h] \in {"check", "ask"}
           /\ (lockedBy'[c] = h /\ lockedBy[c] = h) \/ c \in drops'
BY GenerationAssumption DEF HeartbeatInv, LockInv, AtCoin

LEMMA LockStep ==
    ASSUME HeartbeatInv, [NextGeneration]_generationVars
    PROVE  LockInv'
<1>t. GenerationTyped /\ LockInv
  BY DEF HeartbeatInv
<1>1. CASE UNCHANGED generationVars
  BY <1>1, <1>t DEF generationVars, LockInv, AtCoin
<1>o. ASSUME NEW g \in Generators, drops' = drops,
             \A h \in Generators \ {g} : todo'[h] = todo[h] /\ stepOf'[h] = stepOf[h],
             \A d \in Coins : lockedBy[d] \notin {g, NoGenerator} => lockedBy'[d] = lockedBy[d],
             \A c \in Coins : stepOf'[g] \in {"check", "ask"} /\ AtCoin(g, c)' =>
                 lockedBy'[c] = g \/ c \in drops
      PROVE  LockInv'
  BY <1>o, OthersKeepLocks DEF LockInv
<1>2. ASSUME NEW g \in Generators, SelectCoins(g) \/ FetchPrices(g) PROVE LockInv'
  <2>1. /\ UNCHANGED <<lockedBy, drops>> /\ stepOf'[g] \in {"fetch", "next"}
        /\ \A h \in Generators \ {g} : todo'[h] = todo[h] /\ stepOf'[h] = stepOf[h]
    BY <1>2, <1>t DEF SelectCoins, FetchPrices, GoTo, GenerationTyped
  <2> QED BY <2>1, <1>o
<1>3. ASSUME NEW g \in Generators, NEW c \in Coins, LockCoin(g, c) PROVE LockInv'
  <2>1. /\ UNCHANGED <<todo, drops>> /\ AtCoin(g, c) /\ lockedBy[c] = NoGenerator
        /\ lockedBy' = [lockedBy EXCEPT ![c] = g] /\ stepOf' = [stepOf EXCEPT ![g] = "check"]
    BY <1>3 DEF LockCoin, GoTo
  <2>2. \A d \in Coins : AtCoin(g, d)' => d = c
    BY <2>1, OneCoin DEF AtCoin
  <2> QED BY <2>1, <2>2, <1>o, <1>t DEF GenerationTyped
<1>4. ASSUME NEW g \in Generators, NEW c \in Coins, CheckAgain(g, c) PROVE LockInv'
  <2>1. CASE StillNeeded(g, c) /\ GoTo(g, "ask") /\ UNCHANGED <<todo, lockedBy>>
    <3>1. UNCHANGED drops /\ stepOf[g] = "check"
      BY <1>4 DEF CheckAgain
    <3> QED BY <2>1, <3>1, <1>t, <1>o DEF GoTo, GenerationTyped, LockInv, AtCoin
  <2>2. CASE Proceed(g, c) /\ Unlock(g)
    <3>1. UNCHANGED drops
      BY <1>4 DEF CheckAgain
    <3> QED BY <2>2, <3>1, <1>o, <1>t, ProceedTyped, UnlockTyped
  <2> QED BY <1>4, <2>1, <2>2 DEF CheckAgain
<1>5. ASSUME NEW g \in Generators, NEW c \in Coins, SaveHeartbeat(g, c) PROVE LockInv'
  BY <1>5, <1>o, <1>t, ProceedTyped, UnlockTyped DEF SaveHeartbeat
<1>6. ASSUME NEW g \in Generators, AbortGeneration(g) PROVE LockInv'
  <2>1. /\ stepOf'[g] = "idle" /\ drops' = drops /\ Unlock(g)
        /\ \A h \in Generators \ {g} : todo'[h] = todo[h] /\ stepOf'[h] = stepOf[h]
    BY <1>6, <1>t DEF AbortGeneration, GoTo, GenerationTyped
  <2> QED BY <2>1, <1>o, <1>t, UnlockTyped
<1>7. ASSUME NEW c \in Coins, LoseLock(c) PROVE LockInv'
  BY <1>7, <1>t DEF LoseLock, LockInv, GenerationTyped, AtCoin
<1>8. CASE ChangeRecipients
  BY <1>8, <1>t DEF ChangeRecipients, LockInv, AtCoin
<1>9. CASE PassTime
  BY <1>9, <1>t DEF PassTime, LockInv, AtCoin
<1> QED BY <1>1, <1>2, <1>3, <1>4, <1>5, <1>6, <1>7, <1>8, <1>9 DEF NextGeneration

LEMMA AskedStep ==
    ASSUME HeartbeatInv, [NextGeneration]_generationVars
    PROVE  AskedInv'
<1>t. GenerationTyped /\ LockInv /\ AskedInv
  BY DEF HeartbeatInv
<1>1. CASE UNCHANGED generationVars
  BY <1>1, <1>t DEF generationVars, AskedInv, AtCoin
<1>o. ASSUME NEW g \in Generators, UNCHANGED <<moment, latest, drops>>,
             \A h \in Generators : began'[h] <= moment,
             \A h \in Generators \ {g} : todo'[h] = todo[h] /\ stepOf'[h] = stepOf[h],
             stepOf'[g] # "ask"
      PROVE  AskedInv'
  BY <1>o, <1>t DEF AskedInv, AtCoin
<1>2. ASSUME NEW g \in Generators, SelectCoins(g) PROVE AskedInv'
  <2>1. /\ UNCHANGED <<moment, latest, drops>> /\ stepOf'[g] = "fetch"
        /\ \A h \in Generators \ {g} : todo'[h] = todo[h] /\ stepOf'[h] = stepOf[h]
    BY <1>2, <1>t DEF SelectCoins, GoTo, GenerationTyped
  <2>2. \A h \in Generators : began'[h] <= moment
    BY <1>2, <1>t, GenerationAssumption DEF SelectCoins, GenerationTyped, AskedInv
  <2> QED BY <2>1, <2>2, <1>o
<1>3. ASSUME NEW g \in Generators, FetchPrices(g) PROVE AskedInv'
  BY <1>3, <1>t, <1>o DEF FetchPrices, GoTo, GenerationTyped, AskedInv
<1>4. ASSUME NEW g \in Generators, NEW c \in Coins, LockCoin(g, c) PROVE AskedInv'
  BY <1>4, <1>t, <1>o DEF LockCoin, GoTo, GenerationTyped, AskedInv
<1>5. ASSUME NEW g \in Generators, NEW c \in Coins, CheckAgain(g, c) PROVE AskedInv'
  <2>0. AtCoin(g, c) /\ UNCHANGED <<moment, silent, latest, began, drops>>
    BY <1>5 DEF CheckAgain
  <2>1. CASE StillNeeded(g, c) /\ GoTo(g, "ask") /\ UNCHANGED <<todo, lockedBy>>
    <3>1. latest[c] # NeverMade => moment - latest[c] > FreshFor
      <4>1. /\ moment \in Nat /\ began[g] \in Nat /\ began[g] <= moment
            /\ latest[c] \in 0..LastMoment \cup {NeverMade} /\ FreshFor \in Nat
        BY <1>t, GenerationAssumption DEF GenerationTyped, AskedInv
      <4> QED BY <2>1, <4>1 DEF StillNeeded, RecentAt
    <3>2. ASSUME NEW h \in Generators, NEW d \in Coins \ drops, stepOf'[h] = "ask", AtCoin(h, d)',
                 latest[d] # NeverMade
          PROVE  moment - latest[d] > FreshFor
      <4>1. AtCoin(h, d)
        BY <2>1, <3>2 DEF AtCoin
      <4>2. CASE h = g
        BY <2>0, <3>1, <3>2, <4>1, <4>2, OneCoin
      <4>3. CASE h # g
        <5>1. stepOf[h] = "ask"
          BY <2>1, <3>2, <4>3, <1>t DEF GoTo, GenerationTyped
        <5> QED BY <1>t, <3>2, <4>1, <5>1 DEF AskedInv
      <4> QED BY <4>2, <4>3
    <3> QED BY <2>0, <3>2, <1>t DEF AskedInv
  <2>2. CASE Proceed(g, c) /\ Unlock(g)
    <3>1. stepOf'[g] # "ask" /\ \A h \in Generators \ {g} : todo'[h] = todo[h] /\ stepOf'[h] = stepOf[h]
      BY <2>2, <1>t, ProceedTyped
    <3> QED BY <2>0, <3>1, <1>t, <1>o DEF AskedInv
  <2> QED BY <1>5, <2>1, <2>2 DEF CheckAgain
<1>6. ASSUME NEW g \in Generators, NEW c \in Coins, SaveHeartbeat(g, c) PROVE AskedInv'
  <2>1. /\ AtCoin(g, c) /\ UNCHANGED <<moment, began, drops>> /\ stepOf[g] = "ask"
        /\ latest' \in {latest, [latest EXCEPT ![c] = moment]} /\ stepOf'[g] # "ask"
        /\ \A h \in Generators \ {g} : todo'[h] = todo[h] /\ stepOf'[h] = stepOf[h]
    BY <1>6, <1>t, ProceedTyped DEF SaveHeartbeat
  <2>2. ASSUME NEW h \in Generators, NEW d \in Coins \ drops, stepOf'[h] = "ask", AtCoin(h, d)',
               latest'[d] # NeverMade
        PROVE  moment - latest'[d] > FreshFor
    <3>1. h # g /\ stepOf[h] = "ask" /\ AtCoin(h, d)
      BY <2>1, <2>2 DEF AtCoin
    <3>2. d # c
      BY <2>1, <2>2, <3>1, <1>t DEF LockInv
    <3>3. latest'[d] = latest[d]
      BY <2>1, <3>2, <1>t DEF GenerationTyped
    <3> QED BY <2>2, <3>1, <3>3, <1>t DEF AskedInv
  <2> QED BY <2>1, <2>2, <1>t DEF AskedInv
<1>7. ASSUME NEW g \in Generators, AbortGeneration(g) PROVE AskedInv'
  BY <1>7, <1>t, <1>o DEF AbortGeneration, GoTo, GenerationTyped, AskedInv
<1>8. ASSUME NEW c \in Coins, LoseLock(c) PROVE AskedInv'
  BY <1>8, <1>t DEF LoseLock, AskedInv, AtCoin
<1>9. CASE ChangeRecipients
  BY <1>9, <1>t DEF ChangeRecipients, AskedInv, AtCoin
<1>10. CASE PassTime
  <2>1. moment' = moment + 1 /\ UNCHANGED <<latest, began, stepOf, todo, drops>>
    BY <1>10 DEF PassTime
  <2>2. \A g \in Generators : began'[g] <= moment'
    BY <2>1, <1>t, GenerationAssumption DEF AskedInv, GenerationTyped
  <2>3. ASSUME NEW g \in Generators, NEW c \in Coins \ drops,
               stepOf[g] = "ask", AtCoin(g, c), latest[c] # NeverMade
        PROVE  moment' - latest[c] > FreshFor
    <3>1. moment - latest[c] > FreshFor
      BY <1>t, <2>3 DEF AskedInv
    <3>2. moment \in Nat /\ latest[c] \in Nat /\ FreshFor \in Nat
      BY <1>t, <2>3, GenerationAssumption DEF GenerationTyped
    <3> QED BY <2>1, <3>1, <3>2
  <2> QED BY <2>1, <2>2, <2>3 DEF AskedInv, AtCoin
<1> QED
  BY <1>1, <1>2, <1>3, <1>4, <1>5, <1>6, <1>7, <1>8, <1>9, <1>10 DEF NextGeneration

LEMMA SpecHeartbeatInv == SpecGeneration => []HeartbeatInv
<1>1. HeartbeatInv /\ [NextGeneration]_generationVars => HeartbeatInv'
  BY GenerationTypedStep, LockStep, AskedStep DEF HeartbeatInv
<1> QED BY InitHeartbeatInv, <1>1, PTL DEF SpecGeneration

\* Every variable of the generation has its type, and what happens to a coin
\* under its lock happens in one job, unless the lock was lost.
THEOREM GenerationTypeCorrect == SpecGeneration => []TypeOKGeneration
<1>1. HeartbeatInv => TypeOKGeneration
  BY DEF HeartbeatInv, GenerationTyped, LockInv, TypeOKGeneration
<1> QED BY <1>1, SpecHeartbeatInv, PTL

\* The heartbeats of a coin are more than an hour apart, for any processes, coins
\* and order of them, as long as no lock of the coin was lost.
THEOREM HeartbeatsHourApart == SpecGeneration => HourApart
<1>1. ASSUME HeartbeatInv, [NextGeneration]_generationVars, NEW c \in Coins \ drops,
             latest'[c] # latest[c], latest[c] # NeverMade
      PROVE  latest'[c] - latest[c] > FreshFor
  <2>1. PICK g \in Generators, d \in Coins : SaveHeartbeat(g, d)
    BY <1>1 DEF NextGeneration, SelectCoins, FetchPrices, LockCoin, CheckAgain, AbortGeneration,
       LoseLock, ChangeRecipients, PassTime, generationVars
  <2>2. d = c /\ latest'[c] = moment /\ stepOf[g] = "ask" /\ AtCoin(g, c)
    BY <1>1, <2>1 DEF SaveHeartbeat, HeartbeatInv, GenerationTyped
  <2> QED BY <1>1, <2>2 DEF HeartbeatInv, AskedInv
<1>2. HeartbeatInv /\ [NextGeneration]_generationVars =>
          \A c \in Coins \ drops :
              latest'[c] # latest[c] /\ latest[c] # NeverMade => latest'[c] - latest[c] > FreshFor
  BY <1>1
<1> QED BY <1>2, SpecHeartbeatInv, PTL DEF SpecGeneration, HourApart

-----------------------------------------------------------------------------
(***************************************************************************)
(* The operations agent.                                                   *)
(***************************************************************************)

OpsSteps == {"idle", "build", "publish", "record", "retain", "remove", "ended"}
Manifests == [status : {"none", "complete", "partial"}, inventory : SUBSET Files]

RunsTyped ==
    /\ opsHour \in 0..LastHourOfOps
    /\ runStep \in [Bundles -> OpsSteps]
    /\ period \in [Bundles -> Periods] /\ toRemove \in [Bundles -> SUBSET Bundles]

DirectoriesTyped ==
    /\ home \in [Bundles -> {"nowhere", "staging", "bundles", "gone"}]
    /\ parts \in [Bundles -> SUBSET Files] /\ manifest \in [Bundles -> Manifests]
    /\ changedAt \in [Bundles -> 0..LastHourOfOps] /\ touched \subseteq Bundles

\* What a state file remembers: published bundles, and a report that was certified.
StateSound(state, where, reported) ==
    /\ state \in StateFiles /\ Len(state.recent) <= RecentRuns
    /\ \A i \in DOMAIN state.recent : where[state.recent[i]] \in {"bundles", "gone"}
    /\ state.success \in reported \cup {NoBundle}

StatesInv ==
    /\ StateSound(opsState, home, certified)
    /\ \A b \in Bundles : StateSound(seenState[b], home, certified)
    /\ seenState \in [Bundles -> StateFiles]
    /\ StateSound(certifierSaw, home, certified)

\* Where a bundle is and what is in it, by what its run has done.
BundleSound(b) ==
    /\ runStep[b] = "idle" => home[b] = "nowhere"
    /\ runStep[b] \in {"build", "publish"} => home[b] = "staging"
    /\ runStep[b] \in {"record", "retain", "remove"} => home[b] \in {"bundles", "gone"}
    /\ runStep[b] = "publish" =>
          /\ manifest[b].inventory = parts[b] /\ Mandatory \subseteq parts[b]
          /\ manifest[b].status = "complete" => parts[b] = Files
          /\ manifest[b].status # "none"
    /\ b \in touched => home[b] \in {"bundles", "gone"} /\ "redaction_report" \notin parts[b]
    /\ home[b] = "bundles" /\ b \notin touched =>
          /\ manifest[b].inventory = parts[b] /\ Mandatory \subseteq parts[b]
          /\ manifest[b].status = "complete" => parts[b] = Files
          /\ manifest[b].status # "none"

CertifiedTyped ==
    certified \subseteq Bundles /\ certifying \in Bundles \cup {NoBundle}

\* The history, and the state file but for what overlapping writers undo.
KeptInv ==
    /\ lastReport \in Bundles \cup {NoBundle}
    /\ noted \in Seq(Bundles) /\ Len(noted) <= RecentRuns
    /\ undone \in BOOLEAN /\ overwritten \in BOOLEAN
    /\ StateKept

OpsInv ==
    /\ RunsTyped /\ DirectoriesTyped /\ StatesInv /\ CertifiedTyped /\ KeptInv
    /\ \A b \in Bundles : BundleSound(b)

LEMMA NoStateSound == NoState \in StateFiles /\ StateSound(NoState, home, certified)
BY OpsAssumption DEF NoState, StateFiles, StateSound

LEMMA InitOpsInv == InitOps => OpsInv
<1> SUFFICES ASSUME InitOps PROVE OpsInv
  OBVIOUS
<1>1. RunsTyped
  <2>1. NoPeriod \in Periods
    BY OpsAssumption DEF NoPeriod, Periods
  <2> QED BY <2>1, OpsAssumption DEF InitOps, RunsTyped, OpsSteps
<1>2. DirectoriesTyped
  BY OpsAssumption DEF InitOps, DirectoriesTyped, Manifests, NoManifest
<1>3. StatesInv
  BY NoStateSound DEF InitOps, StatesInv
<1>4. CertifiedTyped /\ KeptInv
  <2>1. <<>> \in Seq(Bundles) /\ Len(<<>>) <= RecentRuns
    BY OpsAssumption
  <2> QED BY <2>1 DEF InitOps, CertifiedTyped, KeptInv, StateKept, NoState
<1>5. \A b \in Bundles : BundleSound(b)
  BY DEF InitOps, BundleSound
<1> QED BY <1>1, <1>2, <1>3, <1>4, <1>5 DEF OpsInv

-----------------------------------------------------------------------------
\* A run in front of those that a state file remembers.
LEMMA FrontSound ==
    ASSUME NEW b \in Bundles, NEW runs \in Seq(Bundles), Len(runs) <= RecentRuns
    PROVE  /\ InFront(b, runs) \in Seq(Bundles) /\ Len(InFront(b, runs)) <= RecentRuns
           /\ \A i \in DOMAIN InFront(b, runs) :
                 InFront(b, runs)[i] = b \/ \E j \in DOMAIN runs : InFront(b, runs)[i] = runs[j]
<1> DEFINE all == <<b>> \o runs
           n == IF Len(runs) < RecentRuns THEN Len(runs) + 1 ELSE RecentRuns
<1>1. <<b>> \in Seq(Bundles) /\ Len(<<b>>) = 1 /\ <<b>>[1] = b
  OBVIOUS
<1>2. /\ all \in Seq(Bundles) /\ Len(all) = Len(runs) + 1
      /\ \A i \in 1..Len(runs) + 1 : all[i] = IF i <= 1 THEN b ELSE runs[i - 1]
  BY <1>1, ConcatProperties
<1>3. n \in Nat /\ 1 <= n /\ n <= Len(runs) + 1 /\ n <= RecentRuns /\ Len(runs) \in Nat
  BY OpsAssumption
<1> HIDE DEF all, n
<1>4. \A i \in 1..n : all[i] \in Bundles
  BY <1>2, <1>3
<1>5. /\ SubSeq(all, 1, n) \in Seq(Bundles) /\ Len(SubSeq(all, 1, n)) = n
      /\ \A i \in 1..n : SubSeq(all, 1, n)[i] = all[i]
  BY <1>3, <1>4, SubSeqProperties
<1>6. InFront(b, runs) = SubSeq(all, 1, n)
  BY DEF InFront, all, n
<1>7. ASSUME NEW i \in 1..n PROVE all[i] = b \/ \E j \in DOMAIN runs : all[i] = runs[j]
  <2>1. CASE i <= 1
    BY <1>2, <1>3, <2>1
  <2>2. CASE i > 1
    <3>1. i - 1 \in DOMAIN runs /\ all[i] = runs[i - 1]
      BY <1>2, <1>3, <2>2
    <3> QED BY <3>1
  <2> QED BY <2>1, <2>2
<1> QED BY <1>3, <1>5, <1>6, <1>7

\* A state file stays sound while bundles move on and reports are certified.
LEMMA SoundKept ==
    ASSUME NEW state, NEW where, NEW reported, StateSound(state, where, reported),
           NEW later, NEW more, reported \subseteq more,
           \A b \in Bundles : where[b] \in {"bundles", "gone"} => later[b] \in {"bundles", "gone"}
    PROVE  StateSound(state, later, more)
<1>1. ASSUME NEW i \in DOMAIN state.recent PROVE later[state.recent[i]] \in {"bundles", "gone"}
  <2>1. state.recent \in Seq(Bundles) /\ state.recent[i] \in Bundles
    BY DEF StateSound, StateFiles
  <2> QED BY <2>1 DEF StateSound
<1> QED BY <1>1 DEF StateSound

LEMMA BundleKept ==
    ASSUME NEW d \in Bundles, BundleSound(d), runStep'[d] = runStep[d], home'[d] = home[d],
           parts'[d] = parts[d], manifest'[d] = manifest[d],
           d \in touched' <=> d \in touched
    PROVE  BundleSound(d)'
BY DEF BundleSound

\* A step of one run that touches the directory of no other.
LEMMA OthersSound ==
    ASSUME OpsInv, NEW b \in Bundles, touched' = touched,
           \A d \in Bundles \ {b} :
               /\ runStep'[d] = runStep[d] /\ home'[d] = home[d] /\ parts'[d] = parts[d]
               /\ manifest'[d] = manifest[d],
           BundleSound(b)'
    PROVE  \A d \in Bundles : BundleSound(d)'
BY BundleKept DEF OpsInv

\* The states are as they were, but for those a run or certifier forgets or copies.
LEMMA StatesKept ==
    ASSUME OpsInv, certified \subseteq certified',
           \A b \in Bundles : home[b] \in {"bundles", "gone"} => home'[b] \in {"bundles", "gone"},
           opsState' = opsState,
           certifierSaw' \in {certifierSaw, opsState, NoState},
           seenState' \in [Bundles -> StateFiles],
           \A b \in Bundles : seenState'[b] \in {seenState[b], opsState, NoState}
    PROVE  StatesInv'
<1>1. ASSUME NEW state, StateSound(state, home, certified) PROVE StateSound(state, home', certified')
  BY <1>1, SoundKept
<1>2. StatesInv
  BY DEF OpsInv
<1>3. StateSound(opsState', home', certified') /\ StateSound(certifierSaw', home', certified')
  BY <1>1, <1>2, NoStateSound DEF StatesInv
<1>4. ASSUME NEW b \in Bundles PROVE StateSound(seenState'[b], home', certified')
  BY <1>1, <1>2, NoStateSound DEF StatesInv
<1> QED BY <1>3, <1>4 DEF StatesInv

LEMMA ForgetTyped ==
    ASSUME OpsInv, NEW b \in Bundles, Forget(b)
    PROVE  /\ seenState' \in [Bundles -> StateFiles]
           /\ \A d \in Bundles : seenState'[d] \in {seenState[d], opsState, NoState}
BY NoStateSound DEF Forget, OpsInv, StatesInv


-----------------------------------------------------------------------------
\* The runs' own variables.
LEMMA RunsStep == OpsInv /\ [NextOps]_opsVars => RunsTyped'
<1> SUFFICES ASSUME OpsInv, [NextOps]_opsVars PROVE RunsTyped'
  OBVIOUS
<1> USE DEF RunsTyped, OpsSteps
<1>t. RunsTyped
  BY DEF OpsInv
<1>1. CASE UNCHANGED <<opsHour, runStep, period, toRemove>>
  BY <1>1, <1>t
<1>2. ASSUME NEW b \in Bundles, StartCollection(b) PROVE RunsTyped'
  <2>1. PICK p \in Explicit \cup {AutoPeriod} : period' = [period EXCEPT ![b] = p]
    BY <1>2 DEF StartCollection
  <2>2. p \in Periods
    <3>1. opsHour \in 0..LastHourOfOps /\ LastHourOfOps \in Nat /\ FirstPeriod \in Nat
      BY <1>t, OpsAssumption
    <3>2. CASE p \in Explicit
      <4>1. p \in [start : Int, end : Nat, auto : {FALSE}] /\ p.end <= opsHour
        BY <3>2, OpsAssumption DEF Explicit
      <4>2. p.start \in Int /\ p.end \in Nat /\ p.auto = FALSE
        BY <4>1
      <4>3. p = [start |-> p.start, end |-> p.end, auto |-> p.auto]
        BY <4>1
      <4>4. p.end \in 0..LastHourOfOps
        BY <3>1, <4>1, <4>2
      <4>5. p.auto \in BOOLEAN
        BY <4>2
      <4> QED BY <4>2, <4>3, <4>4, <4>5 DEF Periods
    <3>3. CASE p = AutoPeriod
      <4>1. opsState.success = NoBundle \/ period[opsState.success].end \in Int
        <5>1. opsState.success \in Bundles \cup {NoBundle}
          BY DEF OpsInv, StatesInv, StateSound, StateFiles
        <5>2. \A d \in Bundles : period[d].end \in Int
          BY <1>t DEF Periods
        <5> QED BY <5>1, <5>2
      <4> QED BY <3>1, <3>3, <4>1 DEF AutoPeriod, AutoPeriodSince, Periods
    <3> QED BY <2>1, <3>2, <3>3
  <2> QED BY <1>2, <1>t, <2>1, <2>2 DEF StartCollection, OpsStep
<1>3. ASSUME NEW b \in Bundles, Build(b) \/ Publish(b) PROVE RunsTyped'
  BY <1>3, <1>t DEF Build, Publish, OpsStep
<1>4. ASSUME NEW b \in Bundles, RecordCollection(b) \/ SkipRecord(b) PROVE RunsTyped'
  BY <1>4, <1>t DEF RecordCollection, SkipRecord, OpsStep
<1>5. ASSUME NEW b \in Bundles, StartRetention(b) PROVE RunsTyped'
  <2>1. PICK order \in Orders : toRemove' = [toRemove EXCEPT ![b] = Published \ Kept(order)]
    BY <1>5 DEF StartRetention
  <2>2. Published \ Kept(order) \in SUBSET Bundles
    BY DEF Published
  <2>3. runStep' \in [Bundles -> OpsSteps]
    BY <1>5, <1>t DEF StartRetention
  <2> QED BY <1>5, <1>t, <2>1, <2>2, <2>3 DEF StartRetention
<1>6. ASSUME NEW b \in Bundles, RemoveFile(b) PROVE RunsTyped'
  <2>1. PICK d \in toRemove[b] :
           toRemove' = [r \in Bundles |-> IF home'[d] = "gone" THEN toRemove[r] \ {d} ELSE toRemove[r]]
    BY <1>6 DEF RemoveFile
  <2>2. toRemove' \in [Bundles -> SUBSET Bundles]
    BY <1>t, <2>1
  <2>3. runStep' \in [Bundles -> OpsSteps]
    BY <1>6, <1>t DEF RemoveFile
  <2> QED BY <1>6, <1>t, <2>2, <2>3 DEF RemoveFile
<1>7. ASSUME NEW b \in Bundles, EndRun(b) \/ FailInStaging(b) PROVE RunsTyped'
  <2>1. NoPeriod \in Periods
    BY OpsAssumption DEF NoPeriod, Periods
  <2> QED BY <1>7, <1>t, <2>1 DEF EndRun, FailInStaging
<1>8. ASSUME NEW b \in Bundles, StartCertification(b) PROVE RunsTyped'
  BY <1>8, <1>1 DEF StartCertification, runVars
<1>9. CASE Certify \/ AbandonCertification
  BY <1>9, <1>1 DEF Certify, AbandonCertification, runVars
<1>10. CASE PassHour
  BY <1>10, <1>t, OpsAssumption DEF PassHour, runVars
<1> QED
  BY <1>1, <1>2, <1>3, <1>4, <1>5, <1>6, <1>7, <1>8, <1>9, <1>10 DEF NextOps, opsVars, runVars

\* The directories.
LEMMA DirectoriesStep == OpsInv /\ [NextOps]_opsVars => DirectoriesTyped'
<1> SUFFICES ASSUME OpsInv, [NextOps]_opsVars PROVE DirectoriesTyped'
  OBVIOUS
<1> USE DEF DirectoriesTyped, Manifests, NoManifest
<1>t. DirectoriesTyped /\ RunsTyped
  BY DEF OpsInv
<1>1. CASE UNCHANGED directoryVars
  BY <1>1, <1>t DEF directoryVars
<1>2. ASSUME NEW b \in Bundles, StartCollection(b) PROVE DirectoriesTyped'
  BY <1>2, <1>t DEF StartCollection
<1>3. ASSUME NEW b \in Bundles, Build(b) PROVE DirectoriesTyped'
  <2>1. PICK dropped \in SUBSET Droppable :
           /\ parts' = [parts EXCEPT ![b] = Files \ dropped]
           /\ manifest' = [manifest EXCEPT ![b] = ManifestOf(Files \ dropped)]
    BY <1>3 DEF Build
  <2>2. ManifestOf(Files \ dropped) \in Manifests
    BY DEF ManifestOf, FinalStatus
  <2>3. manifest' \in [Bundles -> Manifests] /\ parts' \in [Bundles -> SUBSET Files]
    BY <1>t, <2>1, <2>2
  <2>4. changedAt' \in [Bundles -> 0..LastHourOfOps]
    BY <1>3, <1>t DEF Build, RunsTyped
  <2> QED BY <1>3, <1>t, <2>3, <2>4 DEF Build
<1>5. ASSUME NEW b \in Bundles, Publish(b) PROVE DirectoriesTyped'
  BY <1>5, <1>t DEF Publish
<1>6. ASSUME NEW b \in Bundles, RemoveFile(b) PROVE DirectoriesTyped'
  <2>1. PICK d \in Bundles : RemoveNext(d)
    BY <1>6, <1>t DEF RemoveFile, RunsTyped
  <2>2. changedAt' \in [Bundles -> 0..LastHourOfOps] /\ touched' \subseteq Bundles
    BY <1>t, <2>1, OpsAssumption DEF RemoveNext, RunsTyped
  <2>3. parts' \in [Bundles -> SUBSET Files]
    BY <1>t, <2>1 DEF RemoveNext
  <2>4. manifest' \in [Bundles -> Manifests]
    BY <1>t, <2>1 DEF RemoveNext
  <2>5. home' \in [Bundles -> {"nowhere", "staging", "bundles", "gone"}]
    BY <1>t, <2>1 DEF RemoveNext
  <2> QED BY <2>2, <2>3, <2>4, <2>5
<1>7. ASSUME NEW b \in Bundles, FailInStaging(b) PROVE DirectoriesTyped'
  BY <1>7, <1>t, OpsAssumption DEF FailInStaging
<1> QED
  BY <1>1, <1>2, <1>3, <1>5, <1>6, <1>7
     DEF NextOps, opsVars, RecordCollection, SkipRecord, StartRetention, EndRun,
         StartCertification, Certify, AbandonCertification, PassHour, runVars

\* What the directories hold.
LEMMA BundlesStep ==
    ASSUME OpsInv, [NextOps]_opsVars
    PROVE  \A d \in Bundles : BundleSound(d)'
<1>t. DirectoriesTyped /\ RunsTyped /\ \A d \in Bundles : BundleSound(d)
  BY DEF OpsInv
<1> USE DEF DirectoriesTyped, RunsTyped
<1>1. CASE UNCHANGED <<runStep, directoryVars>>
  BY <1>1, <1>t DEF BundleSound, directoryVars
<1>2. ASSUME NEW b \in Bundles, StartCollection(b) PROVE \A d \in Bundles : BundleSound(d)'
  <2>1. BundleSound(b)'
    BY <1>2, <1>t DEF StartCollection, OpsStep, BundleSound
  <2> QED BY <1>2, <1>t, <2>1, OthersSound DEF StartCollection, OpsStep
<1>3. ASSUME NEW b \in Bundles, Build(b) PROVE \A d \in Bundles : BundleSound(d)'
  <2>1. PICK dropped \in SUBSET Droppable :
           /\ parts' = [parts EXCEPT ![b] = Files \ dropped]
           /\ manifest' = [manifest EXCEPT ![b] = ManifestOf(Files \ dropped)]
    BY <1>3 DEF Build
  <2>2. /\ parts'[b] = Files \ dropped /\ manifest'[b].inventory = Files \ dropped
        /\ manifest'[b].status = FinalStatus(Files \ dropped)
    BY <1>t, <2>1 DEF ManifestOf
  <2>3. BundleSound(b)'
    BY <1>3, <1>t, <2>2 DEF Build, OpsStep, BundleSound, Droppable, Mandatory, FinalStatus
  <2> QED BY <1>3, <1>t, <2>3, OthersSound DEF Build, OpsStep
<1>5. ASSUME NEW b \in Bundles, Publish(b) PROVE \A d \in Bundles : BundleSound(d)'
  <2>1. BundleSound(b)'
    BY <1>5, <1>t DEF Publish, OpsStep, BundleSound
  <2> QED BY <1>5, <1>t, <2>1, OthersSound DEF Publish, OpsStep
<1>6. ASSUME NEW b \in Bundles,
             RecordCollection(b) \/ SkipRecord(b) \/ StartRetention(b) \/ EndRun(b)
      PROVE  \A d \in Bundles : BundleSound(d)'
  <2>1. UNCHANGED directoryVars /\ runStep' \in [Bundles -> OpsSteps]
        /\ runStep[b] \in {"record", "retain", "remove"}
        /\ runStep'[b] \in {"retain", "remove", "ended"} /\ \A d \in Bundles \ {b} : runStep'[d] = runStep[d]
    BY <1>6, <1>t DEF RecordCollection, SkipRecord, StartRetention, EndRun, OpsStep, OpsSteps
  <2>2. BundleSound(b)'
    BY <1>t, <2>1 DEF BundleSound, directoryVars
  <2> QED BY <2>1, <2>2, OthersSound DEF directoryVars
<1>7. ASSUME NEW b \in Bundles, RemoveFile(b) PROVE \A d \in Bundles : BundleSound(d)'
  <2>1. PICK e \in Bundles : RemoveNext(e) /\ home[e] = "bundles"
    BY <1>7, <1>t DEF RemoveFile
  <2>2. touched' = touched \cup {e}
    BY <1>7, <2>1 DEF RemoveNext
  <2>3. /\ home'[e] \in {"bundles", "gone"} /\ "redaction_report" \notin parts'[e]
        /\ \A d \in Bundles \ {e} :
              home'[d] = home[d] /\ parts'[d] = parts[d] /\ manifest'[d] = manifest[d]
    BY <1>t, <2>1 DEF RemoveNext
  <2>4. \A d \in Bundles : runStep'[d] = runStep[d] \/ (runStep[d] = "remove" /\ runStep'[d] = "ended")
    BY <1>7, <1>t DEF RemoveFile
  <2>5. ASSUME NEW d \in Bundles PROVE BundleSound(d)'
    <3>1. CASE d = e
      BY <1>t, <2>1, <2>2, <2>3, <2>4, <3>1 DEF BundleSound
    <3>2. CASE d # e
      BY <1>t, <2>2, <2>3, <2>4, <3>2 DEF BundleSound
    <3> QED BY <3>1, <3>2
  <2> QED BY <2>5
<1>8. ASSUME NEW b \in Bundles, FailInStaging(b) PROVE \A d \in Bundles : BundleSound(d)'
  <2>1. BundleSound(b)'
    BY <1>8, <1>t DEF FailInStaging, BundleSound
  <2> QED BY <1>8, <1>t, <2>1, OthersSound DEF FailInStaging
<1> QED
  BY <1>1, <1>2, <1>3, <1>5, <1>6, <1>7, <1>8
     DEF NextOps, opsVars, StartCertification, Certify, AbandonCertification, PassHour, runVars

\* Nothing published is unpublished.
LEMMA Onwards ==
    ASSUME OpsInv, [NextOps]_opsVars, NEW b \in Bundles
    PROVE  home[b] \in {"bundles", "gone"} => home'[b] \in {"bundles", "gone"}
<1>t. DirectoriesTyped /\ RunsTyped /\ BundleSound(b)
  BY DEF OpsInv
<1> USE DEF DirectoriesTyped, RunsTyped
<1>1. ASSUME NEW c \in Bundles, StartCollection(c) \/ Publish(c)
      PROVE  home[b] \in {"bundles", "gone"} => home'[b] \in {"bundles", "gone"}
  BY <1>1, <1>t DEF StartCollection, Publish, OpsStep, BundleSound
<1>2. ASSUME NEW c \in Bundles, RemoveFile(c)
      PROVE  home[b] \in {"bundles", "gone"} => home'[b] \in {"bundles", "gone"}
  BY <1>2, <1>t DEF RemoveFile, RemoveNext
<1>3. CASE UNCHANGED home
  BY <1>3
<1> QED
  BY <1>1, <1>2, <1>3 DEF NextOps, opsVars, Build, RecordCollection, SkipRecord, StartRetention, EndRun,
     FailInStaging, StartCertification, Certify, AbandonCertification, PassHour, directoryVars

\* What the state file and those that have read it remember.
LEMMA StatesStep ==
    ASSUME OpsInv, [NextOps]_opsVars
    PROVE  StatesInv'
<1>t. DirectoriesTyped /\ RunsTyped /\ StatesInv /\ CertifiedTyped
  BY DEF OpsInv
<1>h. \A b \in Bundles : home[b] \in {"bundles", "gone"} => home'[b] \in {"bundles", "gone"}
  BY Onwards
<1>1. CASE UNCHANGED <<opsState, seenState, certifierSaw, certified>>
  BY <1>1, <1>h, <1>t, StatesKept DEF StatesInv
<1>2. ASSUME NEW b \in Bundles, StartCollection(b) PROVE StatesInv'
  <2>1. /\ UNCHANGED <<opsState, certifierSaw, certified>>
        /\ seenState' = [seenState EXCEPT ![b] = opsState]
    BY <1>2 DEF StartCollection, certifierVars
  <2>2. opsState \in StateFiles
    BY <1>t DEF StatesInv, StateSound
  <2> QED BY <1>h, <1>t, <2>1, <2>2, StatesKept DEF StatesInv
<1>3. ASSUME NEW b \in Bundles, SkipRecord(b) \/ EndRun(b) \/ FailInStaging(b) PROVE StatesInv'
  BY <1>3, <1>h, ForgetTyped, StatesKept DEF SkipRecord, EndRun, FailInStaging, certifierVars
<1>4. ASSUME NEW b \in Bundles, RecordCollection(b) PROVE StatesInv'
  <2> DEFINE runs == seenState[b].recent
  <2>1. /\ UNCHANGED <<home, certifierSaw, certified>> /\ Forget(b)
        /\ opsState' = [seenState[b] EXCEPT !.recent = InFront(b, runs)]
        /\ runStep[b] = "record"
    BY <1>4 DEF RecordCollection, OpsStep, directoryVars
  <2>2. /\ seenState[b] \in StateFiles /\ Len(runs) <= RecentRuns /\ runs \in Seq(Bundles)
        /\ \A i \in DOMAIN runs : home[runs[i]] \in {"bundles", "gone"}
        /\ seenState[b].success \in certified \cup {NoBundle}
    BY <1>t DEF StatesInv, StateSound, StateFiles
  <2>3. home[b] \in {"bundles", "gone"}
    BY <2>1 DEF OpsInv, BundleSound
  <2>4. opsState'.recent = InFront(b, runs) /\ opsState'.success = seenState[b].success
        /\ opsState' \in StateFiles
    <3>1. InFront(b, runs) \in Seq(Bundles)
      BY <2>2, FrontSound
    <3> HIDE DEF runs
    <3> QED BY <2>1, <2>2, <3>1 DEF StateFiles
  <2>5. \A i \in DOMAIN InFront(b, runs) : home[InFront(b, runs)[i]] \in {"bundles", "gone"}
    BY <2>2, <2>3, FrontSound
  <2>6. StateSound(opsState', home', certified')
    BY <2>1, <2>2, <2>4, <2>5, FrontSound DEF StateSound
  <2>7. StateSound(certifierSaw', home', certified')
    BY <1>t, <2>1 DEF StatesInv
  <2>8. seenState' \in [Bundles -> StateFiles] /\ \A d \in Bundles : seenState'[d] \in {seenState[d], NoState}
    BY <1>t, <2>1, NoStateSound DEF StatesInv, Forget
  <2>9. \A d \in Bundles : StateSound(seenState'[d], home', certified')
    BY <1>t, <2>1, <2>8, NoStateSound DEF StatesInv
  <2> QED BY <2>6, <2>7, <2>8, <2>9 DEF StatesInv
<1>5. ASSUME NEW b \in Bundles, StartCertification(b) PROVE StatesInv'
  BY <1>5, <1>h, <1>t, StatesKept DEF StartCertification, StatesInv, runVars
<1>6. CASE Certify
  <2>1. /\ UNCHANGED <<home, seenState>> /\ certified' = certified \cup {certifying}
        /\ opsState' = [certifierSaw EXCEPT !.success = certifying] /\ certifierSaw' = NoState
        /\ certifying \in Bundles
    BY <1>6, <1>t DEF Certify, runVars, directoryVars, CertifiedTyped
  <2>2. /\ opsState' \in StateFiles /\ opsState'.success = certifying
        /\ opsState'.recent = certifierSaw.recent
    BY <1>t, <2>1 DEF StatesInv, StateSound, StateFiles
  <2>3. StateSound(opsState', home', certified')
    BY <1>t, <2>1, <2>2 DEF StatesInv, StateSound
  <2>4. StateSound(certifierSaw', home', certified')
    BY <2>1, NoStateSound, SoundKept
  <2>5. \A d \in Bundles : StateSound(seenState'[d], home', certified')
    BY <1>t, <2>1, SoundKept DEF StatesInv
  <2> QED BY <1>t, <2>1, <2>3, <2>4, <2>5 DEF StatesInv
<1>7. CASE AbandonCertification
  BY <1>7, <1>h, <1>t, StatesKept DEF AbandonCertification, StatesInv, runVars
<1> QED
  BY <1>1, <1>2, <1>3, <1>4, <1>5, <1>6, <1>7
     DEF NextOps, opsVars, Build, Publish, StartRetention, RemoveFile, PassHour,
         runVars, certifierVars

\* What is certified, or about to be.
LEMMA ReportsStep ==
    ASSUME OpsInv, [NextOps]_opsVars
    PROVE  CertifiedTyped'
<1>t. CertifiedTyped
  BY DEF OpsInv
<1> USE DEF CertifiedTyped
<1>1. CASE UNCHANGED <<certified, certifying>>
  BY <1>1, <1>t
<1>2. ASSUME NEW b \in Bundles, StartCertification(b) PROVE CertifiedTyped'
  BY <1>2, <1>t DEF StartCertification
<1>3. CASE Certify \/ AbandonCertification
  BY <1>3, <1>t DEF Certify, AbandonCertification
<1> QED
  BY <1>1, <1>2, <1>3
     DEF NextOps, opsVars, StartCollection, Build, Publish, RecordCollection, SkipRecord,
         StartRetention, RemoveFile, EndRun, FailInStaging, PassHour, certifierVars

\* A writer that read the state file before another wrote it is the only one
\* that takes a report or a run from it.
LEMMA KeptStep ==
    ASSUME OpsInv, [NextOps]_opsVars
    PROVE  KeptInv'
<1>t. KeptInv /\ StatesInv /\ CertifiedTyped
  BY DEF OpsInv
<1>1. CASE UNCHANGED <<opsState, keptVars>>
  BY <1>1, <1>t DEF KeptInv, StateKept, keptVars
<1>2. ASSUME NEW b \in Bundles, RecordCollection(b) PROVE KeptInv'
  <2> DEFINE saw == seenState[b]
  <2>1. /\ opsState' = [saw EXCEPT !.recent = InFront(b, saw.recent)] /\ saw \in StateFiles
        /\ noted' = InFront(b, noted) /\ lastReport' = lastReport
        /\ undone' = (undone \/ saw.success # opsState.success)
        /\ overwritten' = (overwritten \/ saw.recent # opsState.recent)
    BY <1>2, <1>t DEF RecordCollection, StatesInv
  <2> HIDE DEF saw
  <2>2. noted' \in Seq(Bundles) /\ Len(noted') <= RecentRuns
    BY <1>t, <2>1, FrontSound DEF KeptInv
  <2>3. opsState'.success = saw.success /\ opsState'.recent = InFront(b, saw.recent)
    BY <2>1 DEF StateFiles
  <2>4. undone' \in BOOLEAN /\ (~undone' => ~undone /\ saw.success = opsState.success)
    BY <2>1
  <2>5. overwritten' \in BOOLEAN /\ (~overwritten' => ~overwritten /\ saw.recent = opsState.recent)
    BY <2>1
  <2>6. StateKept'
    BY <1>t, <2>1, <2>3, <2>4, <2>5 DEF KeptInv, StateKept
  <2> QED BY <1>t, <2>1, <2>2, <2>4, <2>5, <2>6 DEF KeptInv
<1>3. CASE Certify
  <2>1. /\ opsState' = [certifierSaw EXCEPT !.success = certifying] /\ certifierSaw \in StateFiles
        /\ certifying \in Bundles /\ lastReport' = certifying /\ noted' = noted /\ undone' = FALSE
        /\ overwritten' = (overwritten \/ certifierSaw.recent # opsState.recent)
    BY <1>3, <1>t DEF Certify, CertifiedTyped, StatesInv, StateSound
  <2>2. opsState'.success = certifying /\ opsState'.recent = certifierSaw.recent
    BY <2>1 DEF StateFiles
  <2>3. overwritten' \in BOOLEAN /\ (~overwritten' => ~overwritten /\ certifierSaw.recent = opsState.recent)
    BY <2>1
  <2>4. StateKept'
    BY <1>t, <2>1, <2>2, <2>3 DEF KeptInv, StateKept
  <2> QED BY <1>t, <2>1, <2>3, <2>4 DEF KeptInv
<1> QED
  BY <1>1, <1>2, <1>3
     DEF NextOps, opsVars, StartCollection, Build, Publish, SkipRecord, StartRetention, RemoveFile,
         EndRun, FailInStaging, StartCertification, AbandonCertification, PassHour, certifierVars

LEMMA SpecOpsInv == SpecOps => []OpsInv
<1>1. OpsInv /\ [NextOps]_opsVars => OpsInv'
  BY RunsStep, DirectoriesStep, BundlesStep, StatesStep, ReportsStep, KeptStep DEF OpsInv
<1> QED BY InitOpsInv, <1>1, PTL DEF SpecOps

\* Every variable of the agent has its type.
THEOREM OpsTypeCorrect == SpecOps => []TypeOKOps
<1>1. OpsInv => TypeOKOps
  BY DEF OpsInv, RunsTyped, OpsSteps, DirectoriesTyped, Manifests, StatesInv, StateSound, CertifiedTyped,
     KeptInv, TypeOKOps
<1> QED BY <1>1, SpecOpsInv, PTL

\* What is certified has not begun to be removed.
LEMMA CertifiedWhole ==
    ASSUME OpsInv, [NextOps]_opsVars, NEW b \in Bundles, certifying # b, certifying' = b
    PROVE  b \notin touched
<1>1. StartCertification(b)
  BY OpsAssumption
     DEF NextOps, opsVars, StartCollection, Build, Publish, RecordCollection, SkipRecord,
         StartRetention, RemoveFile, EndRun, FailInStaging, StartCertification, Certify,
         AbandonCertification, PassHour, certifierVars
<1>2. "redaction_report" \in parts[b]
  BY <1>1 DEF StartCertification, Valid, Mandatory, Files
<1> QED BY <1>2 DEF OpsInv, BundleSound

\* An automatic period takes up where the report in the state file has ended.
LEMMA PeriodFollows ==
    ASSUME OpsInv, [NextOps]_opsVars, NEW b \in Bundles,
           runStep[b] = "idle", runStep'[b] = "build", period'[b].auto
    PROVE  period'[b] = AutoPeriodSince(lastReport) \/ undone
<1>t. RunsTyped /\ KeptInv
  BY DEF OpsInv
<1>1. StartCollection(b)
  BY <1>t DEF RunsTyped, NextOps, opsVars, runVars, StartCollection, Build, Publish, RecordCollection,
     SkipRecord, StartRetention, RemoveFile, EndRun, FailInStaging, StartCertification, Certify,
     AbandonCertification, PassHour, OpsStep
<1>2. PICK p \in Explicit \cup {AutoPeriod} : period' = [period EXCEPT ![b] = p]
  BY <1>1 DEF StartCollection
<1>3. period'[b] = p
  BY <1>2, <1>t DEF RunsTyped
<1>4. p \in Explicit => ~p.auto
  BY OpsAssumption DEF Explicit
<1>5. p = AutoPeriodSince(opsState.success)
  BY <1>3, <1>4 DEF AutoPeriod
<1> QED BY <1>t, <1>3, <1>5 DEF KeptInv, StateKept

\* For any bundles, periods and limits, wherever runs overlap or end: a published
\* bundle tells the truth; the state file names published bundles only, and loses
\* a report or a run to none but a writer that read it before; an automatic
\* period takes up where the last report ended unless it was undone so; and no
\* broken bundle is certified.
THEOREM BundlesAreHonest == SpecOps => BundlesHonest
<1>1. OpsInv => PublishedTruthful
  BY DEF OpsInv, BundleSound, PublishedTruthful, Published
<1>2. OpsInv => RecordedPublished
  BY DEF OpsInv, StatesInv, StateSound, RecordedPublished
<1>3. OpsInv => StateKept
  BY DEF OpsInv, KeptInv
<1>4. OpsInv /\ [NextOps]_opsVars =>
          \A b \in Bundles : certifying # b /\ certifying' = b => b \notin touched
  BY CertifiedWhole
<1>5. OpsInv /\ [NextOps]_opsVars =>
          \A b \in Bundles :
              runStep[b] = "idle" /\ runStep'[b] = "build" /\ period'[b].auto =>
                  \/ period'[b] = AutoPeriodSince(lastReport)
                  \/ undone
  BY PeriodFollows
<1> QED BY <1>1, <1>2, <1>3, <1>4, <1>5, SpecOpsInv, PTL DEF SpecOps, BundlesHonest, ReportsChain, BrokenNotCertified

-----------------------------------------------------------------------------
(***************************************************************************)
(* The private chat.                                                       *)
(***************************************************************************)

UserTyped ==
    /\ chosen \subseteq ScreenCoins /\ completed \in BOOLEAN
    /\ trial \in {"none", "active", "over"} /\ paid \in {"none", "active", "over"}

ChatTyped ==
    /\ screen \in [Messages -> Screens \cup {"unsent", "gone", "automatic"}]
    /\ offers \in [Messages -> SUBSET ScreenCoins]

HandlerTyped ==
    /\ handling \in Updates \cup {NoUpdate} /\ inbox \in Seq(Updates)
    /\ handlerAt \in HandlerPlaces /\ (handlerAt = "idle" <=> handling = NoUpdate)
    /\ draft \in Screens /\ tracking \in BOOLEAN /\ taps \in 0..MaxUpdates

\* Which messages the sets of messages hold.  A message joins the session when
\* it is sent by a command; a screen is always in the session, about to be
\* deleted, or out of the bot's hands.
SessionInv ==
    /\ session \subseteq Messages /\ retired \subseteq Messages /\ doomed \subseteq Messages
    /\ loose \subseteq Messages /\ replaced \subseteq retired /\ session \cap retired = {}
    /\ handlerAt # "delete" => doomed = {}
    /\ \A m \in session \cup doomed : screen[m] \notin {"unsent", "automatic"}
    /\ \A m \in retired \cup loose : screen[m] # "unsent"
    /\ \A m \in Messages : IsScreen(m) => m \in session \cup loose \cup doomed

\* What a handler that has come so far knows.
HandlerInv ==
    /\ handlerAt \notin {"idle", "delete"} => handling.on \notin replaced
    /\ handlerAt \in {"edit", "sorry"} => handling \in Taps
    /\ handlerAt = "edit" /\ handling.button = "confirm" => draft \in Briefs
    /\ handlerAt = "edit" /\ handling.button = "trial" /\ trial = "active" => draft = "overview"
    /\ handlerAt = "send" /\ draft = "first_brief" => handling.button = "/start"
    /\ handlerAt = "record" /\ handling.button = "trial" => "premium" \in seen
    /\ handlerAt = "record" /\ handling.button # "trial" => "brief" \in seen

ScreensInv ==
    UserTyped /\ ChatTyped /\ HandlerTyped /\ SessionInv /\ HandlerInv /\ SeenBeforeRecorded

\* The two kinds of updates differ by their buttons.
LEMMA UpdateKinds ==
    /\ NoUpdate \notin Updates /\ 0 \notin Messages
    /\ \A u \in Commands : u.on = 0 /\ u.button \in {"/start", "/watchlist"} /\ u \in Updates
    /\ \A u \in Updates : u \notin Commands => u \in Taps
    /\ \A u \in Taps : /\ u \in Updates /\ u \notin Commands /\ u.on \in Messages
                       /\ u.button \in Buttons /\ u.coin \in ScreenCoins
<1>1. \A u \in Commands : u.on = 0 /\ u.button \in {"/start", "/watchlist"}
  BY DEF Commands, Plain, NoMessage
<1>2. \A u \in Taps : u.button \in Buttons /\ u.on \in Messages /\ u.coin \in ScreenCoins
  BY DEF Taps
<1>3. \A u \in Taps : u \notin Commands
  BY <1>1, <1>2 DEF Buttons
<1>4. 0 \notin Messages /\ Messages \subseteq Nat
  BY ScreenAssumption DEF Messages
<1> QED BY <1>1, <1>2, <1>3, <1>4, UpdateAssumption DEF Updates

\* The buttons on a screen make updates of the second kind.
LEMMA TapsTyped ==
    ASSUME ChatTyped, NEW m \in Messages, IsScreen(m)
    PROVE  TapsOn(m) \subseteq Taps
<1>1. PlainButtons[screen[m]] \subseteq Buttons
  BY DEF IsScreen, Screens, PlainButtons, Buttons
<1>2. \A b \in Buttons : Plain(b, m) \in Taps
  BY ScreenAssumption DEF Plain, Taps
<1>3. ToggledOn(m) \subseteq ScreenCoins
  BY DEF ToggledOn
<1>4. \A c \in ScreenCoins : /\ [button |-> "toggle", on |-> m, coin |-> c, enable |-> FALSE] \in Taps
                             /\ [button |-> "set", on |-> m, coin |-> c, enable |-> c \notin offers[m]] \in Taps
  BY DEF Taps, Buttons
<1>5. "close" \in Buttons
  BY DEF Buttons
<1> QED BY <1>1, <1>2, <1>3, <1>4, <1>5 DEF TapsOn

LEMMA InitScreensInv == InitScreens => ScreensInv
<1> SUFFICES ASSUME InitScreens PROVE ScreensInv
  OBVIOUS
<1>1. UserTyped
  <2>1. chosen \subseteq ScreenCoins /\ completed \in BOOLEAN
    BY DEF InitScreens
  <2> QED BY <2>1 DEF InitScreens, UserTyped
<1>2. ChatTyped /\ HandlerTyped
  <2>1. "text" \in Screens
    BY DEF Screens, PlainButtons
  <2>2. <<>> \in Seq(Updates)
    BY EmptySeq
  <2>3. handling \in Updates \cup {NoUpdate} /\ inbox \in Seq(Updates) /\ taps \in 0..MaxUpdates
    BY <2>2, ScreenAssumption DEF InitScreens
  <2>4. tracking \in BOOLEAN
    BY Zenon DEF InitScreens
  <2>5. (handlerAt = "idle" <=> handling = NoUpdate) /\ handlerAt \in HandlerPlaces
    BY DEF InitScreens, HandlerPlaces
  <2> QED BY <2>1, <2>3, <2>4, <2>5 DEF InitScreens, ChatTyped, HandlerTyped
<1>3. SessionInv
  <2>1. "unsent" \notin Screens
    BY DEF Screens, PlainButtons
  <2> QED BY <2>1 DEF InitScreens, SessionInv, IsScreen
<1>4. HandlerInv /\ SeenBeforeRecorded
  BY DEF InitScreens, HandlerInv, SeenBeforeRecorded
<1> QED BY <1>1, <1>2, <1>3, <1>4 DEF ScreensInv

-----------------------------------------------------------------------------
\* The user's rows.
LEMMA UserStep == ScreensInv /\ [NextScreens]_screenVars => UserTyped'
<1> SUFFICES ASSUME ScreensInv, [NextScreens]_screenVars PROVE UserTyped'
  OBVIOUS
<1>t. UserTyped /\ HandlerTyped
  BY DEF ScreensInv
<1>1. CASE UNCHANGED userVars
  BY <1>1, <1>t DEF UserTyped, userVars
<1>2. CASE Start \/ Customize
  BY <1>2, <1>t, ScreenAssumption DEF Start, Customize, UserTyped
<1>3. ASSUME handlerAt = "act", handling.button \in {"toggle", "set"} PROVE handling.coin \in ScreenCoins
  <2>1. handling \in Updates
    BY <1>3, <1>t DEF HandlerTyped
  <2>2. handling \notin Commands
    BY <1>3, UpdateKinds
  <2> QED BY <2>1, <2>2, UpdateKinds
<1>4. CASE Toggle
  BY <1>1, <1>3, <1>4, <1>t DEF Toggle, Acts, AnswerOnly, UserTyped
<1>5. CASE Set
  BY <1>3, <1>5, <1>t DEF Set, Acts, UserTyped
<1>6. CASE StartTrial
  BY <1>1, <1>6, <1>t DEF StartTrial, AnswerOnly, UserTyped
<1>7. CASE Record
  <2>1. CASE UNCHANGED userVars
    BY <1>1, <2>1
  <2>2. CASE completed' = (completed \/ handling.button # "trial") /\ UNCHANGED <<chosen, trial, paid>>
    <3>1. completed' \in BOOLEAN
      BY <2>2, Zenon
    <3> QED BY <2>2, <3>1, <1>t DEF UserTyped
  <2> QED BY <1>7, <2>1, <2>2 DEF Record
<1>8. CASE EntitlementChanges
  BY <1>8, <1>t DEF EntitlementChanges, UserTyped
<1>9. CASE \/ Tap \/ EnterCommand \/ EnterCallback \/ DeleteMessage \/ Watchlist \/ Price \/ Brief
           \/ Confirm \/ SendMessage \/ EditMessage \/ Notify \/ RestartBot \/ UNCHANGED screenVars
  BY <1>1, <1>9 DEF Tap, EnterCommand, EnterCallback, DeleteMessage, Watchlist, Price, Brief, Confirm,
     SendMessage, EditMessage, Notify, RestartBot, screenVars
<1> QED BY <1>2, <1>4, <1>5, <1>6, <1>7, <1>8, <1>9 DEF NextScreens

\* The kinds of screens; what a handler shows is one.
LEMMA ScreenKinds ==
    /\ {"first_brief", "returning", "selector", "trial_offer", "paywall", "overview",
        "watchlist", "text"} \subseteq Screens
    /\ "unsent" \notin Screens /\ "gone" \notin Screens /\ "automatic" \notin Screens
BY DEF Screens, PlainButtons

\* A screen that may carry the next message is one not sent yet.
LEMMA ChatStep == ScreensInv /\ [NextScreens]_screenVars => ChatTyped'
<1> SUFFICES ASSUME ScreensInv, [NextScreens]_screenVars PROVE ChatTyped'
  OBVIOUS
<1>t. ChatTyped /\ draft \in Screens /\ chosen \subseteq ScreenCoins
  BY DEF ScreensInv, HandlerTyped, UserTyped
<1>1. CASE UNCHANGED chatVars
  BY <1>1, <1>t DEF ChatTyped, chatVars
<1>2. ASSUME NEW m \in Messages, NEW kind \in Screens \cup {"gone", "automatic"},
             \/ UNCHANGED offers
             \/ offers' = [offers EXCEPT ![m] = chosen],
             screen' = [screen EXCEPT ![m] = kind]
      PROVE  ChatTyped'
  BY <1>2, <1>t DEF ChatTyped
<1>3. CASE DeleteMessage
  BY <1>1, <1>2, <1>3, <1>t DEF DeleteMessage, ScreensInv, SessionInv, chatVars
<1>4. CASE SendMessage
  BY <1>1, <1>2, <1>4, <1>t DEF SendMessage, Appear
<1>5. CASE EditMessage
  <2>1. CASE UNCHANGED chatVars
    BY <1>1, <2>1
  <2>2. CASE UNCHANGED chatVars => FALSE
    <3>1. handling.on \in Messages
      BY <1>5, UpdateKinds DEF EditMessage, ScreensInv, HandlerInv
    <3> QED BY <1>2, <1>5, <1>t, <2>2, <3>1 DEF EditMessage
  <2> QED BY <2>1, <2>2
<1>6. CASE Notify
  BY <1>2, <1>6, <1>t DEF Notify, Appear
<1>7. CASE \/ Tap \/ EnterCommand \/ EnterCallback \/ Start \/ Watchlist \/ Price \/ Brief \/ Customize
           \/ Toggle \/ Confirm \/ Set \/ StartTrial \/ Record \/ EntitlementChanges \/ RestartBot
           \/ UNCHANGED screenVars
  BY <1>1, <1>7 DEF Tap, EnterCommand, EnterCallback, Start, Watchlist, Price, Brief, Customize, Toggle,
     Confirm, Set, StartTrial, Record, EntitlementChanges, RestartBot, ShowNext, AnswerOnly, screenVars
<1> QED BY <1>3, <1>4, <1>5, <1>6, <1>7 DEF NextScreens

\* The update that is handled, its handler, and the updates to come.
LEMMA EndTyped == EndUpdate => /\ handling' = NoUpdate /\ handlerAt' = "idle" /\ handlerAt' \in HandlerPlaces
                               /\ tracking' \in BOOLEAN /\ draft' \in Screens /\ doomed' = {}
BY ScreenKinds, Zenon DEF EndUpdate, HandlerPlaces

LEMMA HandlerStep == ScreensInv /\ [NextScreens]_screenVars => HandlerTyped'
<1> SUFFICES ASSUME ScreensInv, [NextScreens]_screenVars PROVE HandlerTyped'
  OBVIOUS
<1>t. HandlerTyped
  BY DEF ScreensInv
<1>1. CASE UNCHANGED <<handlerVars, inbox, taps>>
  BY <1>1, <1>t DEF HandlerTyped, handlerVars
<1>2. CASE EndUpdate /\ UNCHANGED <<inbox, taps>>
  BY <1>2, <1>t, EndTyped DEF HandlerTyped
<1>3. ASSUME NEW next \in HandlerPlaces, next # "idle", handlerAt # "idle", GoOn(next),
             draft' \in Screens, UNCHANGED <<inbox, taps>>
      PROVE  HandlerTyped'
  BY <1>3, <1>t DEF HandlerTyped, GoOn
<1>4. CASE Tap
  <2>1. PICK u \in Commands \cup UNION {TapsOn(m) : m \in {n \in Messages : IsScreen(n)}} :
          inbox' = Append(inbox, u)
    BY <1>4 DEF Tap
  <2>2. u \in Updates
    BY <2>1, TapsTyped, UpdateKinds DEF ScreensInv
  <2>3. inbox' \in Seq(Updates) /\ taps' \in 0..MaxUpdates
    BY <1>4, <1>t, <2>1, <2>2, ScreenAssumption, AppendProperties DEF HandlerTyped, Tap
  <2> QED BY <1>4, <1>t, <2>3 DEF HandlerTyped, Tap, handlerVars
<1>5. ASSUME inbox # <<>> PROVE Head(inbox) \in Updates /\ Tail(inbox) \in Seq(Updates)
  BY <1>5, <1>t, HeadTailProperties DEF HandlerTyped
<1>6. CASE EnterCommand
  <2>1. handling' \in Updates /\ handling' # NoUpdate /\ inbox' \in Seq(Updates)
    BY <1>5, <1>6, UpdateKinds DEF EnterCommand
  <2>2. tracking' \in BOOLEAN
    BY <1>6, Zenon DEF EnterCommand
  <2> QED BY <1>6, <1>t, <2>1, <2>2 DEF EnterCommand, HandlerTyped, HandlerPlaces
<1>7. CASE EnterCallback
  <2>1. inbox' \in Seq(Updates) /\ Head(inbox) \in Updates /\ Head(inbox) # NoUpdate /\ UNCHANGED <<taps, draft>>
    BY <1>5, <1>7, UpdateKinds DEF EnterCallback, handlerVars
  <2>2. CASE UNCHANGED handlerVars
    BY <1>t, <2>1, <2>2 DEF HandlerTyped, handlerVars
  <2>3. CASE handling' = Head(inbox) /\ handlerAt' \in {"delete", "act"}
    <3>1. tracking' = TRUE \/ tracking' = (Head(inbox).on \in session) \/ UNCHANGED tracking
      BY <1>7 DEF EnterCallback, handlerVars
    <3>2. tracking' \in BOOLEAN
      <4>1. tracking \in BOOLEAN
        BY <1>t DEF HandlerTyped
      <4>2. CASE tracking' = (Head(inbox).on \in session)
        <5>1. \A m : (m \in session) \in BOOLEAN
          OBVIOUS
        <5> QED BY <4>2, <5>1
      <4>3. CASE tracking' = TRUE \/ UNCHANGED tracking
        BY <4>1, <4>3
      <4> QED BY <3>1, <4>2, <4>3, Zenon
    <3>3. handlerAt' # "idle" /\ handlerAt' \in HandlerPlaces
      BY <2>3 DEF HandlerPlaces
    <3> QED BY <1>t, <2>1, <2>3, <3>2, <3>3 DEF HandlerTyped
  <2> QED BY <1>7, <2>2, <2>3 DEF EnterCallback
<1>8. CASE DeleteMessage
  <2>1. CASE GoOn("act") /\ UNCHANGED draft
    BY <1>3, <1>8, <1>t, <2>1 DEF DeleteMessage, HandlerPlaces, HandlerTyped
  <2>2. CASE EndUpdate
    BY <1>2, <1>8, <2>2 DEF DeleteMessage
  <2>3. CASE UNCHANGED <<handling, handlerAt, tracking, draft>>
    BY <1>8, <1>t, <2>3 DEF DeleteMessage, HandlerTyped
  <2> QED BY <1>8, <2>1, <2>2, <2>3 DEF DeleteMessage
<1>9. ASSUME NEW kind \in Screens, NEW next \in {"send", "edit"}, handlerAt = "act", ShowNext(kind, next)
      PROVE  HandlerTyped'
  BY <1>3, <1>9 DEF ShowNext, HandlerPlaces
<1>10. CASE Start \/ Watchlist \/ Price \/ Brief \/ Customize
  BY <1>9, <1>10, ScreenKinds DEF Start, Watchlist, Price, Brief, Customize, Acts
<1>11. CASE Toggle \/ Confirm \/ Set \/ StartTrial
  <2>1. \A kind \in Screens : Offer(kind) \in Screens
    BY ScreenKinds DEF Offer
  <2> QED BY <1>2, <1>9, <1>11, <2>1, ScreenKinds DEF Toggle, Confirm, Set, StartTrial, Acts, AnswerOnly
<1>12. CASE SendMessage
  <2>1. CASE GoOn("record") /\ UNCHANGED draft
    BY <1>3, <1>12, <1>t, <2>1 DEF SendMessage, HandlerPlaces, HandlerTyped
  <2> QED BY <1>2, <1>12, <2>1 DEF SendMessage
<1>13. CASE EditMessage
  <2>1. CASE GoOn("record") /\ UNCHANGED draft
    BY <1>3, <1>13, <1>t, <2>1 DEF EditMessage, HandlerPlaces, HandlerTyped
  <2>2. CASE GoOn("sorry") /\ draft' = "text"
    BY <1>3, <1>13, <2>2, ScreenKinds DEF EditMessage, HandlerPlaces
  <2> QED BY <1>2, <1>13, <2>1, <2>2 DEF EditMessage, AfterFailedEdit
<1>14. CASE Record
  <2>1. CASE GoOn("sorry") /\ draft' = "text"
    BY <1>3, <1>14, <2>1, ScreenKinds DEF Record, HandlerPlaces
  <2> QED BY <1>2, <1>14, <2>1 DEF Record
<1>15. CASE RestartBot
  <2>1. inbox' \in Seq(Updates)
    <3>1. CASE handling \in Updates
      <4>1. <<handling>> \in Seq(Updates)
        BY <3>1
      <4>2. <<handling>> \o inbox \in Seq(Updates)
        BY <1>t, <4>1, ConcatProperties DEF HandlerTyped
      <4> QED BY <1>15, <1>t, <4>2, EmptySeq DEF RestartBot, HandlerTyped
    <3>2. CASE handling = NoUpdate
      BY <1>15, <1>t, <3>2, EmptySeq DEF RestartBot, HandlerTyped
    <3> QED BY <1>t, <3>1, <3>2 DEF HandlerTyped
  <2> QED BY <1>15, <1>t, <2>1, EndTyped DEF RestartBot, HandlerTyped
<1>16. CASE Notify \/ EntitlementChanges \/ UNCHANGED screenVars
  BY <1>1, <1>16 DEF Notify, EntitlementChanges, screenVars
<1> QED BY <1>4, <1>6, <1>7, <1>8, <1>10, <1>11, <1>12, <1>13, <1>14, <1>15, <1>16 DEF NextScreens

\* The messages of the session, those about to be deleted, and the others.
LEMMA SessionStep == ScreensInv /\ [NextScreens]_screenVars => SessionInv'
<1> SUFFICES ASSUME ScreensInv, [NextScreens]_screenVars PROVE SessionInv'
  OBVIOUS
<1>t. ChatTyped /\ HandlerTyped /\ SessionInv
  BY DEF ScreensInv
<1>2. ASSUME UNCHANGED <<screen, session, retired, replaced, loose>>, handlerAt # "delete",
             UNCHANGED doomed \/ doomed' = {}
      PROVE  SessionInv'
  BY <1>2, <1>t DEF SessionInv, IsScreen
<1>3. CASE UNCHANGED <<screen, session, retired, replaced, loose, doomed, handlerAt>>
  BY <1>3, <1>t DEF SessionInv, IsScreen
<1>4. CASE Tap \/ EntitlementChanges \/ UNCHANGED screenVars
  BY <1>3, <1>4 DEF Tap, EntitlementChanges, screenVars, chatVars, sessionVars, handlerVars
<1>5. CASE EnterCommand
  <2>1. /\ UNCHANGED <<screen, loose>> /\ doomed' = session /\ session' = {} /\ handlerAt' = "delete"
        /\ retired' = retired \cup session /\ replaced' = replaced \cup session /\ handlerAt = "idle"
    BY <1>5 DEF EnterCommand, Retire, chatVars
  <2> QED BY <1>t, <2>1 DEF SessionInv, IsScreen
<1>6. CASE EnterCallback
  <2>1. UNCHANGED <<screen, loose>> /\ handlerAt = "idle"
    BY <1>6 DEF EnterCallback, chatVars
  <2>2. CASE /\ doomed' = session /\ session' = {} /\ handlerAt' = "delete"
             /\ retired' = retired \cup session /\ replaced' = replaced \cup session
    BY <1>t, <2>1, <2>2 DEF SessionInv, IsScreen
  <2>3. CASE UNCHANGED <<sessionVars, doomed>>
    BY <1>2, <2>1, <2>3 DEF sessionVars
  <2> QED BY <1>6, <2>2, <2>3 DEF EnterCallback, Retire, handlerVars
<1>7. CASE DeleteMessage
  <2>1. UNCHANGED <<session, retired, replaced>> /\ handlerAt = "delete"
    BY <1>7 DEF DeleteMessage, sessionVars
  <2>2. CASE doomed = {} /\ UNCHANGED <<screen, loose>> /\ (UNCHANGED doomed \/ doomed' = {})
    BY <1>t, <2>1, <2>2 DEF SessionInv, IsScreen
  <2>3. ASSUME NEW m \in doomed, doomed' = doomed \ {m}, UNCHANGED handlerAt,
               \/ screen' = [screen EXCEPT ![m] = "gone"] /\ UNCHANGED loose
               \/ loose' = loose \cup {m} /\ UNCHANGED screen
        PROVE  SessionInv'
    BY <1>t, <2>1, <2>3, ScreenKinds DEF SessionInv, IsScreen, ChatTyped
  <2> QED BY <1>7, <2>2, <2>3 DEF DeleteMessage, chatVars, EndUpdate
<1>8. CASE Start \/ Watchlist \/ Price \/ Brief \/ Customize \/ Toggle \/ Confirm \/ Set \/ StartTrial
  <2>1. /\ UNCHANGED <<screen, session, retired, replaced, loose>> /\ handlerAt = "act"
        /\ UNCHANGED doomed \/ doomed' = {}
    BY <1>8 DEF Start, Watchlist, Price, Brief, Customize, Toggle, Confirm, Set, StartTrial, ShowNext,
       AnswerOnly, EndUpdate, Acts, chatVars, sessionVars
  <2> QED BY <1>2, <2>1
<1>9. CASE SendMessage
  <2>1. /\ UNCHANGED <<retired, replaced>> /\ handlerAt \in {"send", "sorry"}
        /\ UNCHANGED doomed \/ doomed' = {}
    BY <1>9 DEF SendMessage, EndUpdate
  <2>2. CASE UNCHANGED <<chatVars, session, loose>>
    BY <1>2, <2>1, <2>2 DEF chatVars
  <2>3. ASSUME NEW m \in Messages, screen[m] = "unsent", screen' = [screen EXCEPT ![m] = draft],
               \/ session' = session \cup {m} /\ UNCHANGED loose
               \/ loose' = loose \cup {m} /\ UNCHANGED session
        PROVE  SessionInv'
    <3>1. draft \in Screens /\ doomed = {} /\ doomed' = {}
      BY <1>t, <2>1 DEF SessionInv, HandlerTyped
    <3> QED BY <1>t, <2>1, <2>3, <3>1, ScreenKinds DEF SessionInv, IsScreen, ChatTyped
  <2>4. CASE \E m \in Messages :
               /\ screen[m] = "unsent" /\ screen' = [screen EXCEPT ![m] = draft]
               /\ \/ /\ session' = IF tracking THEN session \cup {m} ELSE session
                     /\ loose' = IF tracking THEN loose ELSE loose \cup {m}
                  \/ loose' = loose \cup {m} /\ UNCHANGED session
    BY <2>3, <2>4
  <2> QED BY <1>9, <2>2, <2>4 DEF SendMessage, Appear, Join, Tracked
<1>10. CASE EditMessage
  <2>1. /\ UNCHANGED <<session, retired, replaced, loose>> /\ handlerAt = "edit"
        /\ UNCHANGED doomed \/ doomed' = {}
    BY <1>10 DEF EditMessage, AfterFailedEdit, EndUpdate, sessionVars
  <2>2. CASE UNCHANGED chatVars
    BY <1>2, <2>1, <2>2 DEF chatVars
  <2>3. CASE IsScreen(handling.on) /\ screen' = [screen EXCEPT ![handling.on] = draft]
    <3>1. handling.on \in Messages
      BY <2>1, UpdateKinds DEF ScreensInv, HandlerInv
    <3>2. draft \in Screens /\ doomed = {} /\ doomed' = {}
      BY <1>t, <2>1 DEF SessionInv, HandlerTyped
    <3> QED BY <1>t, <2>1, <2>3, <3>1, <3>2, ScreenKinds DEF SessionInv, IsScreen, ChatTyped
  <2> QED BY <1>10, <2>2, <2>3 DEF EditMessage
<1>11. CASE Record
  <2>1. /\ UNCHANGED <<screen, session, retired, replaced, loose>> /\ handlerAt = "record"
        /\ UNCHANGED doomed \/ doomed' = {}
    BY <1>11 DEF Record, EndUpdate, chatVars, sessionVars
  <2> QED BY <1>2, <2>1
<1>12. CASE Notify
  <2>1. PICK m \in Messages : screen[m] = "unsent" /\ screen' = [screen EXCEPT ![m] = "automatic"]
    BY <1>12 DEF Notify, Appear
  <2>2. UNCHANGED <<session, retired, replaced, loose, doomed, handlerAt>>
    BY <1>12 DEF Notify, Join, Tracked, handlerVars
  <2> QED BY <1>t, <2>1, <2>2, ScreenKinds DEF SessionInv, IsScreen, ChatTyped
<1>13. CASE RestartBot
  <2>1. /\ session' = {} /\ retired' = {} /\ replaced' = {} /\ doomed' = {} /\ UNCHANGED screen
        /\ loose' = Messages \ {m \in Messages : screen[m] = "unsent"}
    BY <1>13 DEF RestartBot, EndUpdate, chatVars
  <2> QED BY <2>1, ScreenKinds DEF SessionInv, IsScreen
<1> QED BY <1>4, <1>5, <1>6, <1>7, <1>8, <1>9, <1>10, <1>11, <1>12, <1>13 DEF NextScreens

\* What a handler knows it has learnt in the steps before.
LEMMA KnowledgeStep == ScreensInv /\ [NextScreens]_screenVars => HandlerInv' /\ SeenBeforeRecorded'
<1> SUFFICES ASSUME ScreensInv, [NextScreens]_screenVars PROVE HandlerInv' /\ SeenBeforeRecorded'
  OBVIOUS
<1>t. HandlerTyped /\ HandlerInv /\ SessionInv /\ SeenBeforeRecorded
  BY DEF ScreensInv
<1>1. CASE UNCHANGED <<handling, handlerAt, draft, seen, trial, replaced, events>>
  BY <1>1, <1>t DEF HandlerInv, SeenBeforeRecorded
<1>2. ASSUME EndUpdate, seen \subseteq seen', UNCHANGED events
      PROVE  HandlerInv' /\ SeenBeforeRecorded'
  BY <1>2, <1>t DEF HandlerInv, SeenBeforeRecorded, EndUpdate
<1>3. ASSUME handlerAt = "act" => handling \in Updates /\ handling.on \notin replaced
      PROVE  handlerAt = "act" /\ handling.button \notin {"/start", "/watchlist"} => handling \in Taps
  BY <1>3, UpdateKinds
<1>4. ASSUME NEW kind, NEW next \in {"send", "edit"}, handlerAt = "act", ShowNext(kind, next)
      PROVE  /\ UNCHANGED <<handling, seen, replaced>> /\ draft' = kind /\ handlerAt' = next
             /\ handling.on \notin replaced /\ handling \in Updates
             /\ handling.button \notin {"/start", "/watchlist"} => handling \in Taps
  BY <1>4, <1>t, UpdateKinds DEF ShowNext, GoOn, HandlerInv, HandlerTyped, sessionVars
<1>5. CASE Tap
  BY <1>1, <1>5 DEF Tap, handlerVars, userVars, sessionVars
<1>6. CASE EnterCommand
  BY <1>6, <1>t DEF EnterCommand, HandlerInv, SeenBeforeRecorded, userVars
<1>7. CASE EnterCallback
  <2>1. UNCHANGED <<seen, events, trial>>
    BY <1>7 DEF EnterCallback, userVars
  <2>2. CASE handlerAt' = "delete"
    BY <1>t, <2>1, <2>2 DEF HandlerInv, SeenBeforeRecorded
  <2>3. CASE UNCHANGED <<sessionVars, handlerVars>>
    BY <1>1, <2>1, <2>3 DEF sessionVars, handlerVars
  <2>4. CASE Head(inbox).on \notin retired /\ handling' = Head(inbox) /\ handlerAt' = "act" /\ UNCHANGED sessionVars
    BY <1>t, <2>1, <2>4 DEF HandlerInv, SessionInv, SeenBeforeRecorded, sessionVars
  <2> QED BY <1>7, <2>2, <2>3, <2>4 DEF EnterCallback
<1>8. CASE DeleteMessage
  <2>1. UNCHANGED <<replaced, seen, events, trial>> /\ handlerAt = "delete"
    BY <1>8 DEF DeleteMessage, sessionVars, userVars
  <2>2. CASE handling \in Commands /\ GoOn("act")
    <3>1. handling.on \notin replaced
      BY <1>t, <2>2, UpdateKinds DEF SessionInv
    <3> QED BY <1>t, <2>1, <2>2, <3>1 DEF GoOn, HandlerInv, SeenBeforeRecorded
  <2>3. CASE EndUpdate
    BY <1>2, <2>1, <2>3
  <2>4. CASE UNCHANGED <<handling, handlerAt, draft>>
    BY <1>1, <2>1, <2>4
  <2> QED BY <1>8, <2>2, <2>3, <2>4 DEF DeleteMessage
<1>9. CASE Start
  <2>1. ShowNext(IF completed THEN "returning" ELSE "first_brief", "send") /\ UNCHANGED trial
    BY <1>9 DEF Start
  <2>2. UNCHANGED <<handling, seen, replaced>> /\ handlerAt' = "send" /\ handling.on \notin replaced
    BY <1>4, <1>9, <2>1 DEF Acts, Start
  <2>3. handling.button = "/start"
    BY <1>9 DEF Start, Acts
  <2>4. SeenBeforeRecorded'
    BY <1>9, <1>t, <2>2 DEF Start, SeenBeforeRecorded
  <2> QED BY <2>2, <2>3, <2>4 DEF HandlerInv
<1>10. CASE Watchlist \/ Price \/ Brief
  <2>1. UNCHANGED <<trial, events>> /\ handlerAt = "act"
    BY <1>10 DEF Watchlist, Price, Brief, userVars, Acts
  <2>2. CASE (handling.button = "/watchlist" \/ handling.button = "price") /\ \E kind \in {"watchlist", "text"} : ShowNext(kind, "send")
    BY <1>4, <1>t, <2>1, <2>2 DEF HandlerInv, SeenBeforeRecorded
  <2>3. CASE handling.button \in {"open", "brief"} /\ \E kind \in {"watchlist", "overview"} : ShowNext(kind, "edit")
    BY <1>4, <1>t, <2>1, <2>3 DEF HandlerInv, SeenBeforeRecorded
  <2> QED BY <1>10, <2>2, <2>3 DEF Watchlist, Price, Brief, Acts
<1>11. CASE Customize
  <2>1. ShowNext("selector", "edit") /\ handlerAt = "act" /\ handling.button = "customize" /\ UNCHANGED trial
        /\ events' = events \cup {"onboarding_customize_opened"}
    BY <1>11 DEF Customize, Acts
  <2> QED BY <1>4, <1>t, <2>1 DEF HandlerInv, SeenBeforeRecorded
<1>12. CASE Toggle \/ Set
  <2>1. handlerAt = "act" /\ handling.button \in {"toggle", "set"}
    BY <1>12 DEF Toggle, Set, Acts
  <2>2. CASE AnswerOnly
    BY <1>2, <2>2 DEF AnswerOnly, userVars
  <2>3. ASSUME NEW kind, ShowNext(kind, "edit"), UNCHANGED <<trial, events>> PROVE HandlerInv' /\ SeenBeforeRecorded'
    BY <1>4, <1>t, <2>1, <2>3 DEF HandlerInv, SeenBeforeRecorded
  <2> QED BY <1>12, <2>2, <2>3 DEF Toggle, Set
<1>13. CASE Confirm
  <2>1. handlerAt = "act" /\ handling.button = "confirm" /\ UNCHANGED <<trial, events>>
    BY <1>13 DEF Confirm, Acts, userVars
  <2>2. PICK kind \in Briefs : ShowNext(kind, "edit")
    BY <1>13 DEF Confirm, Offer, Briefs
  <2> QED BY <1>4, <1>t, <2>1, <2>2 DEF HandlerInv, SeenBeforeRecorded
<1>14. CASE StartTrial
  <2>1. handlerAt = "act" /\ handling.button = "trial"
    BY <1>14 DEF StartTrial, Acts
  <2>2. CASE AnswerOnly
    BY <1>2, <2>2 DEF AnswerOnly, userVars
  <2>3. CASE /\ events' = IF trial' = trial THEN events ELSE events \cup {"trial_started"}
             /\ ShowNext(IF trial' = "active" \/ paid = "active" THEN "overview" ELSE "paywall", "edit")
    <3>1. /\ UNCHANGED <<handling, seen, replaced>> /\ handlerAt' = "edit"
          /\ draft' = IF trial' = "active" \/ paid = "active" THEN "overview" ELSE "paywall"
          /\ handling.on \notin replaced /\ handling \in Taps
      BY <1>4, <2>1, <2>3
    <3>2. HandlerInv'
      BY <2>1, <3>1 DEF HandlerInv
    <3> QED BY <1>t, <2>3, <3>1, <3>2 DEF SeenBeforeRecorded
  <2> QED BY <1>14, <2>2, <2>3 DEF StartTrial
<1>15. CASE SendMessage
  <2>1. UNCHANGED <<replaced, events, trial>> /\ handlerAt \in {"send", "sorry"} /\ seen \subseteq seen'
    BY <1>15 DEF SendMessage, Seeing, userVars
  <2>2. CASE EndUpdate
    BY <1>2, <2>1, <2>2
  <2>3. CASE handlerAt = "send" /\ draft = "first_brief" /\ GoOn("record") /\ Seeing(draft)
    <3>1. handling.button = "/start"
      BY <1>t, <2>3 DEF HandlerInv
    <3>2. "brief" \in seen'
      BY <2>3, <3>1 DEF Seeing, Briefs
    <3> QED BY <1>t, <2>1, <2>3, <3>1, <3>2 DEF GoOn, HandlerInv, SeenBeforeRecorded
  <2> QED BY <1>15, <2>2, <2>3 DEF SendMessage
<1>16. CASE EditMessage
  <2>1. UNCHANGED <<replaced, events, trial>> /\ handlerAt = "edit" /\ seen \subseteq seen'
    BY <1>16 DEF EditMessage, AfterFailedEdit, Seeing, sessionVars, userVars
  <2>2. CASE EndUpdate
    BY <1>2, <2>1, <2>2
  <2>3. CASE GoOn("sorry") /\ draft' = "text"
    BY <1>t, <2>1, <2>3 DEF GoOn, HandlerInv, SeenBeforeRecorded
  <2>4. CASE Records /\ GoOn("record") /\ Seeing(draft)
    <3>1. handling.button = "confirm" => "brief" \in seen'
      BY <1>t, <2>1, <2>4 DEF HandlerInv, Seeing
    <3>2. handling.button # "confirm" => handling.button = "trial" /\ "premium" \in seen'
      BY <1>t, <2>1, <2>4 DEF HandlerInv, Seeing, Records
    <3> QED BY <1>t, <2>1, <2>4, <3>1, <3>2 DEF GoOn, HandlerInv, SeenBeforeRecorded
  <2> QED BY <1>16, <2>2, <2>3, <2>4 DEF EditMessage, AfterFailedEdit
<1>17. CASE Record
  <2>1. UNCHANGED <<replaced, seen>> /\ handlerAt = "record"
    BY <1>17 DEF Record, sessionVars
  <2>2. CASE events' = events \cup Recorded /\ EndUpdate
    <3>1. SeenBeforeRecorded'
      BY <1>t, <2>1, <2>2 DEF HandlerInv, SeenBeforeRecorded, Recorded
    <3> QED BY <2>2, <3>1 DEF EndUpdate, HandlerInv
  <2>3. CASE EndUpdate /\ UNCHANGED userVars
    BY <1>2, <2>1, <2>3 DEF userVars
  <2>4. CASE handling \notin Commands /\ GoOn("sorry") /\ UNCHANGED userVars
    <3>1. handling \in Taps
      BY <1>t, <2>1, <2>4, UpdateKinds DEF HandlerTyped
    <3> QED BY <1>t, <2>1, <2>4, <3>1 DEF GoOn, HandlerInv, SeenBeforeRecorded, userVars
  <2> QED BY <1>17, <2>2, <2>3, <2>4 DEF Record
<1>18. CASE Notify \/ UNCHANGED screenVars
  BY <1>1, <1>18 DEF Notify, screenVars, sessionVars, handlerVars, userVars
<1>19. CASE EntitlementChanges
  <2>1. UNCHANGED <<handling, handlerAt, draft, seen, replaced, events>>
        /\ (trial' = "active" => trial = "active")
    BY <1>19 DEF EntitlementChanges, handlerVars, sessionVars
  <2> QED BY <1>t, <2>1 DEF HandlerInv, SeenBeforeRecorded
<1>20. CASE RestartBot
  BY <1>2, <1>20 DEF RestartBot, userVars
<1> QED BY <1>5, <1>6, <1>7, <1>8, <1>9, <1>10, <1>11, <1>12, <1>13, <1>14, <1>15, <1>16, <1>17,
        <1>18, <1>19, <1>20 DEF NextScreens

LEMMA SpecScreensInv == SpecScreens => []ScreensInv
<1>1. ScreensInv /\ [NextScreens]_screenVars => ScreensInv'
  BY UserStep, ChatStep, HandlerStep, SessionStep, KnowledgeStep DEF ScreensInv
<1> QED BY InitScreensInv, <1>1, PTL DEF SpecScreens

\* Every variable of the private chat has its type.
THEOREM ScreensTypeCorrect == SpecScreens => []TypeOKScreens
<1>1. ScreensInv => TypeOKScreens
  <2> SUFFICES ASSUME ScreensInv PROVE TypeOKScreens
    OBVIOUS
  <2>1. {tracking, completed} \subseteq BOOLEAN
    BY Zenon DEF ScreensInv, HandlerTyped, UserTyped
  <2>2. taps \in 0..MaxUpdates /\ chosen \subseteq ScreenCoins /\ {trial, paid} \subseteq {"none", "active", "over"}
    BY DEF ScreensInv, HandlerTyped, UserTyped
  <2>3. session \cup retired \cup replaced \cup doomed \cup loose \subseteq Messages /\ session \cap retired = {}
    BY DEF ScreensInv, SessionInv
  <2>4. /\ handlerAt \in HandlerPlaces /\ draft \in Screens
        /\ handling \in Updates \cup {NoUpdate} /\ inbox \in Seq(Updates)
        /\ (handlerAt = "idle" <=> handling = NoUpdate)
        /\ handlerAt \in {"edit", "sorry"} => handling \in Taps
    BY DEF ScreensInv, HandlerTyped, HandlerInv
  <2> QED BY <2>1, <2>2, <2>3, <2>4 DEF TypeOKScreens, ScreensInv, ChatTyped
<1> QED BY SpecScreensInv, <1>1, PTL

-----------------------------------------------------------------------------
\* No step takes a message of a job away: what a command deletes it has sent.
LEMMA AutomaticStep ==
    ScreensInv /\ [NextScreens]_screenVars =>
        \A m \in Messages : screen[m] = "automatic" => screen'[m] = "automatic"
<1> SUFFICES ASSUME ScreensInv, [NextScreens]_screenVars, NEW m \in Messages, screen[m] = "automatic"
             PROVE  screen'[m] = "automatic"
  OBVIOUS
<1>t. ChatTyped /\ SessionInv
  BY DEF ScreensInv
<1>1. ASSUME NEW n, NEW kind, screen' = [screen EXCEPT ![n] = kind], n # m PROVE screen'[m] = "automatic"
  BY <1>1, <1>t DEF ChatTyped
<1>2. CASE DeleteMessage
  BY <1>1, <1>2, <1>t DEF DeleteMessage, SessionInv, chatVars
<1>3. CASE SendMessage
  BY <1>1, <1>3 DEF SendMessage, Appear, chatVars
<1>4. CASE EditMessage
  BY <1>1, <1>4, ScreenKinds DEF EditMessage, IsScreen, chatVars
<1>5. CASE Notify
  BY <1>1, <1>5 DEF Notify, Appear
<1>6. CASE \/ Tap \/ EnterCommand \/ EnterCallback \/ Start \/ Watchlist \/ Price \/ Brief \/ Customize
           \/ Toggle \/ Confirm \/ Set \/ StartTrial \/ Record \/ EntitlementChanges \/ RestartBot
           \/ UNCHANGED screenVars
  BY <1>6 DEF Tap, EnterCommand, EnterCallback, Start, Watchlist, Price, Brief, Customize, Toggle,
     Confirm, Set, StartTrial, Record, EntitlementChanges, RestartBot, ShowNext, AnswerOnly, chatVars, screenVars
<1> QED BY <1>2, <1>3, <1>4, <1>5, <1>6 DEF NextScreens

\* Only a handler that acts changes what is the user's, and none acts on a
\* message of an earlier command.
LEMMA InertStep ==
    ScreensInv /\ [NextScreens]_screenVars =>
        (handlerAt # "idle" /\ handling.on \in replaced
           => UNCHANGED <<chosen, completed, events>> /\ trial' \in {trial, "over"})
<1> SUFFICES ASSUME ScreensInv, [NextScreens]_screenVars, handlerAt # "idle", handling.on \in replaced
             PROVE  UNCHANGED <<chosen, completed, events>> /\ trial' \in {trial, "over"}
  OBVIOUS
<1>1. handlerAt = "delete"
  BY DEF ScreensInv, HandlerInv
<1>2. CASE \/ Start \/ Watchlist \/ Price \/ Brief \/ Customize \/ Toggle \/ Confirm \/ Set \/ StartTrial
           \/ Record
  BY <1>1, <1>2 DEF Start, Watchlist, Price, Brief, Customize, Toggle, Confirm, Set, StartTrial, Record, Acts
<1>3. CASE EntitlementChanges
  BY <1>3 DEF EntitlementChanges
<1>4. CASE \/ Tap \/ EnterCommand \/ EnterCallback \/ DeleteMessage \/ SendMessage \/ EditMessage
           \/ Notify \/ RestartBot \/ UNCHANGED screenVars
  BY <1>4 DEF Tap, EnterCommand, EnterCallback, DeleteMessage, SendMessage, EditMessage, Notify, RestartBot,
     userVars, screenVars
<1> QED BY <1>2, <1>3, <1>4 DEF NextScreens

\* A chat has the screens of one command, which alone act, and its alerts,
\* whatever Telegram and restarts do between its updates.
THEOREM ScreensAreKept == SpecScreens => ScreensKept
<1>1. ScreensInv => NothingLeftBehind /\ SeenBeforeRecorded
  BY DEF ScreensInv, SessionInv, NothingLeftBehind
<1> QED BY SpecScreensInv, <1>1, AutomaticStep, InertStep, PTL
        DEF SpecScreens, ScreensKept, AutomaticKept, OldScreensInert

-----------------------------------------------------------------------------
(***************************************************************************)
(* The pool under the advisory locks: half of it for the locks leaves room *)
(* for the sessions under them, for any capacity and number of workers.    *)
(***************************************************************************)

\* The inductive invariant: slots bound the workers that may keep a connection.
SlotsBound == \A p \in Processes : Cardinality(At(p, HasSlot)) <= Slots

PoolInv == TypeOKPool /\ SlotsBound

LEMMA SlotsBelowCapacity == Slots \in Nat /\ Slots < Capacity
BY PoolAssumption DEF Slots

LEMMA AtFinite ==
    ASSUME NEW p \in Processes, NEW S
    PROVE  IsFiniteSet(At(p, S)) /\ Cardinality(At(p, S)) \in Nat
<1>1. At(p, S) \subseteq Lockers
  BY DEF At
<1> QED BY <1>1, PoolAssumption, FS_Subset, FS_CardinalityType

LEMMA AtSubset ==
    ASSUME NEW p \in Processes, NEW S, NEW T, S \subseteq T
    PROVE  Cardinality(At(p, S)) <= Cardinality(At(p, T))
<1>1. At(p, S) \subseteq At(p, T)
  BY DEF At
<1> QED BY <1>1, AtFinite, FS_Subset

\* What one worker's move does to the number of workers at some points.
LEMMA WorkerMoves ==
    ASSUME NEW p \in Processes, NEW S, NEW w \in Lockers, NEW point,
           place \in [Lockers -> PoolPoints], place' = [place EXCEPT ![w] = point]
    PROVE  /\ Cardinality(At(p, S)) \in Nat /\ Cardinality(At(p, S)') \in Nat
           /\ Cardinality(At(p, S)') =
                IF ProcessOf[w] # p \/ (place[w] \in S <=> point \in S)
                THEN Cardinality(At(p, S))
                ELSE IF point \in S THEN Cardinality(At(p, S)) + 1
                ELSE Cardinality(At(p, S)) - 1
<1>1. IsFiniteSet(At(p, S)) /\ Cardinality(At(p, S)) \in Nat
  BY AtFinite
<1>2. \A v \in Lockers : place'[v] = IF v = w THEN point ELSE place[v]
  OBVIOUS
<1>3. CASE ProcessOf[w] # p \/ (place[w] \in S <=> point \in S)
  <2>1. At(p, S)' = At(p, S)
    BY <1>2, <1>3 DEF At
  <2> QED BY <1>1, <1>3, <2>1
<1>4. CASE ProcessOf[w] = p /\ place[w] \notin S /\ point \in S
  <2>1. At(p, S)' = At(p, S) \cup {w} /\ w \notin At(p, S)
    BY <1>2, <1>4 DEF At
  <2>2. Cardinality(At(p, S)') = Cardinality(At(p, S)) + 1
    BY <1>1, <2>1, FS_AddElement
  <2> QED BY <1>1, <1>4, <2>2
<1>5. CASE ProcessOf[w] = p /\ place[w] \in S /\ point \notin S
  <2>1. At(p, S)' = At(p, S) \ {w} /\ w \in At(p, S)
    BY <1>2, <1>5 DEF At
  <2>2. Cardinality(At(p, S)') = Cardinality(At(p, S)) - 1
    BY <1>1, <2>1, FS_RemoveElement
  <2>3. Cardinality(At(p, S)') \in Nat
    <3>1. IsFiniteSet(At(p, S) \ {w})
      BY <1>1, FS_RemoveElement
    <3> QED BY <2>1, <3>1, FS_CardinalityType
  <2> QED BY <1>1, <1>5, <2>2, <2>3
<1> QED BY <1>3, <1>4, <1>5

LEMMA InitPoolInv == InitPool => PoolInv
<1> SUFFICES ASSUME InitPool PROVE PoolInv
  OBVIOUS
<1>1. ASSUME NEW p \in Processes, NEW S, "idle" \notin S
      PROVE  At(p, S) = {} /\ Cardinality(At(p, S)) = 0
  <2>1. At(p, S) = {}
    BY <1>1 DEF InitPool, At
  <2> QED BY <2>1, FS_EmptySet
<1>2. ASSUME NEW p \in Processes PROVE Used(p) = 0 /\ Cardinality(At(p, HasSlot)) = 0
  <2>1. "idle" \notin HasSlot /\ "idle" \notin HasConnection /\ "idle" \notin {"write"}
    BY DEF HasSlot, HasConnection, HasAdvisory, Persisting
  <2> QED BY <1>1, <2>1 DEF Used, InitPool
<1>3. place \in [Lockers -> PoolPoints] /\ left \in [Lockers -> 0..Writes]
      /\ short \in [Processes -> 0..Capacity]
  BY PoolAssumption DEF InitPool, PoolPoints
<1> QED BY <1>2, <1>3, SlotsBelowCapacity, PoolAssumption DEF PoolInv, TypeOKPool, SlotsBound

\* The steps in which a worker moves, and what they need of the pool.
LEMMA WorkerPreserves ==
    ASSUME PoolInv, NEW w \in Lockers, NEW point \in PoolPoints,
           place' = [place EXCEPT ![w] = point], short' = short, left' \in [Lockers -> 0..Writes],
           point \in HasSlot /\ place[w] \notin HasSlot =>
               Cardinality(At(ProcessOf[w], HasSlot)) < Slots,
           point \in HasConnection /\ place[w] \notin HasConnection =>
               point # "write" /\ Used(ProcessOf[w]) < Capacity,
           point = "write" =>
               place[w] \in HasConnection /\ (place[w] # "write" => Used(ProcessOf[w]) < Capacity)
    PROVE  PoolInv'
<1>1. place \in [Lockers -> PoolPoints] /\ place' \in [Lockers -> PoolPoints]
  BY DEF PoolInv, TypeOKPool
<1>2. ASSUME NEW p \in Processes PROVE Used(p)' <= Capacity /\ Cardinality(At(p, HasSlot)') <= Slots
  <2> DEFINE C == Cardinality(At(p, HasConnection))
             D == Cardinality(At(p, {"write"}))
             E == Cardinality(At(p, HasSlot))
  <2>1. /\ C \in Nat /\ C' \in Nat
        /\ C' = IF ProcessOf[w] # p \/ (place[w] \in HasConnection <=> point \in HasConnection)
                THEN C ELSE IF point \in HasConnection THEN C + 1 ELSE C - 1
    BY <1>1, WorkerMoves
  <2>2. /\ D \in Nat /\ D' \in Nat
        /\ D' = IF ProcessOf[w] # p \/ (place[w] \in {"write"} <=> point \in {"write"})
                THEN D ELSE IF point \in {"write"} THEN D + 1 ELSE D - 1
    BY <1>1, WorkerMoves
  <2>3. /\ E \in Nat /\ E' \in Nat
        /\ E' = IF ProcessOf[w] # p \/ (place[w] \in HasSlot <=> point \in HasSlot)
                THEN E ELSE IF point \in HasSlot THEN E + 1 ELSE E - 1
    BY <1>1, WorkerMoves
  <2>4. /\ short[p] \in Nat /\ C + D + short[p] <= Capacity /\ E <= Slots
        /\ Used(p) = C + D + short[p] /\ Used(p)' = C' + D' + short[p]
    BY PoolAssumption DEF PoolInv, TypeOKPool, SlotsBound, Used
  <2>5. E' <= Slots
    BY <2>3, <2>4, SlotsBelowCapacity
  <2>6. "write" \in HasConnection
    BY DEF HasConnection, HasAdvisory, Persisting
  <2>7. CASE ProcessOf[w] # p
    BY <2>1, <2>2, <2>4, <2>5, <2>7
  <2>8. CASE ProcessOf[w] = p /\ point \in HasConnection /\ place[w] \notin HasConnection
    <3>1. C' = C + 1 /\ D' = D /\ Used(p) < Capacity
      BY <2>1, <2>2, <2>6, <2>8
    <3> QED BY <3>1, <2>1, <2>2, <2>4, <2>5, PoolAssumption
  <2>9. CASE ProcessOf[w] = p /\ point = "write" /\ place[w] # "write"
    <3>1. C' = C /\ D' = D + 1 /\ Used(p) < Capacity
      BY <2>1, <2>2, <2>6, <2>9
    <3> QED BY <3>1, <2>1, <2>2, <2>4, <2>5, PoolAssumption
  <2>10. CASE /\ ProcessOf[w] = p /\ ~(point \in HasConnection /\ place[w] \notin HasConnection)
              /\ ~(point = "write" /\ place[w] # "write")
    <3>1. C' <= C
      BY <2>1, <2>10
    <3>2. D' <= D
      BY <2>2, <2>10
    <3> QED BY <3>1, <3>2, <2>1, <2>2, <2>4, <2>5, PoolAssumption
  <2> QED BY <2>7, <2>8, <2>9, <2>10
<1> QED BY <1>1, <1>2 DEF PoolInv, TypeOKPool, SlotsBound

LEMMA NextPoolInv == PoolInv /\ [NextPool]_poolVars => PoolInv'
<1> SUFFICES ASSUME PoolInv, [NextPool]_poolVars PROVE PoolInv'
  OBVIOUS
<1> USE DEF HasSlot, HasConnection, HasAdvisory, Persisting
<1>0. place \in [Lockers -> PoolPoints] /\ left \in [Lockers -> 0..Writes]
  BY DEF PoolInv, TypeOKPool
<1>1. ASSUME NEW w \in Lockers, Begin(w) \/ TakeKey(w) PROVE PoolInv'
  <2>1. PICK point \in {"key", "slot"} :
            place' = [place EXCEPT ![w] = point] /\ short' = short
    BY <1>1 DEF Begin, TakeKey, MoveTo
  <2>2. left' \in [Lockers -> 0..Writes]
    BY <1>0, <1>1, PoolAssumption DEF Begin, TakeKey
  <2> QED BY <2>1, <2>2, WorkerPreserves DEF PoolPoints, HasKey
<1>2. ASSUME NEW w \in Lockers, TakeSlot(w) PROVE PoolInv'
  <2>1. "connect" \in PoolPoints
    BY DEF PoolPoints, HasKey
  <2> QED BY <1>0, <1>2, <2>1, WorkerPreserves DEF TakeSlot, MoveTo
<1>3. ASSUME NEW w \in Lockers, Connect(w) PROVE PoolInv'
  <2>1. "advisory" \in PoolPoints
    BY DEF PoolPoints, HasKey
  <2> QED BY <1>0, <1>3, <2>1, WorkerPreserves DEF Connect, MoveTo
<1>4. ASSUME NEW w \in Lockers, LockAdvisory(w) \/ Persist(w) \/ Commit(w) PROVE PoolInv'
  <2>1. PICK point \in {"inside", "persist"} :
            place' = [place EXCEPT ![w] = point] /\ short' = short
    BY <1>4 DEF LockAdvisory, Persist, Commit, MoveTo
  <2>2. place[w] \in HasConnection /\ place[w] \in HasSlot
    BY <1>4 DEF LockAdvisory, Persist, Commit
  <2>3. left' \in [Lockers -> 0..Writes]
    <3>1. Persist(w) => left[w] - 1 \in 0..Writes
      BY <1>0, PoolAssumption DEF Persist
    <3> QED BY <1>0, <1>4, <3>1 DEF LockAdvisory, Persist, Commit
  <2>4. point \in PoolPoints
    BY DEF PoolPoints, HasKey
  <2> QED BY <2>1, <2>2, <2>3, <2>4, WorkerPreserves
<1>5. ASSUME NEW w \in Lockers, ConnectAgain(w) PROVE PoolInv'
  <2>1. "write" \in PoolPoints
    BY DEF PoolPoints, HasKey
  <2> QED BY <1>0, <1>5, <2>1, WorkerPreserves DEF ConnectAgain, MoveTo
<1>6. ASSUME NEW w \in Lockers, Leave(w) \/ AbortLocker(w) PROVE PoolInv'
  <2>1. place' = [place EXCEPT ![w] = "idle"] /\ short' = short /\ left' = left
    BY <1>6 DEF Leave, AbortLocker, MoveTo
  <2>2. "idle" \in PoolPoints
    BY DEF PoolPoints
  <2> QED BY <1>0, <2>1, <2>2, WorkerPreserves
<1>7. ASSUME NEW p \in Processes, OpenShort(p) \/ CloseShort(p) PROVE PoolInv'
  <2>1. place' = place /\ left' = left
    BY <1>7 DEF OpenShort, CloseShort
  <2>2. ASSUME NEW q \in Processes
        PROVE  short'[q] \in 0..Capacity /\ Used(q)' <= Capacity
    <3> DEFINE C == Cardinality(At(q, HasConnection))
               D == Cardinality(At(q, {"write"}))
    <3>1. C \in Nat /\ D \in Nat /\ C' = C /\ D' = D
      BY <2>1, AtFinite DEF At
    <3>2. short[q] \in Nat /\ C + D + short[q] <= Capacity
      BY PoolAssumption DEF PoolInv, TypeOKPool, Used
    <3>3. \/ short'[q] = short[q]
          \/ short'[q] = short[q] + 1 /\ C + D + short[q] < Capacity
          \/ short'[q] = short[q] - 1 /\ short[q] > 0
      BY <1>7 DEF OpenShort, CloseShort, Used, PoolInv, TypeOKPool
    <3>4. short'[q] \in Nat /\ C + D + short'[q] <= Capacity
      BY <3>1, <3>2, <3>3, PoolAssumption
    <3> QED BY <3>1, <3>4, PoolAssumption DEF Used
  <2>3. short' \in [Processes -> 0..Capacity]
    BY <1>7, <2>2 DEF OpenShort, CloseShort, PoolInv, TypeOKPool
  <2>4. SlotsBound'
    BY <2>1 DEF PoolInv, SlotsBound, At
  <2> QED BY <2>1, <2>2, <2>3, <2>4 DEF PoolInv, TypeOKPool
<1>8. CASE UNCHANGED poolVars
  BY <1>8 DEF poolVars, PoolInv, TypeOKPool, SlotsBound, Used, At
<1> QED BY <1>1, <1>2, <1>3, <1>4, <1>5, <1>6, <1>7, <1>8 DEF NextPool, Wait, Work

LEMMA SpecPoolInv == SpecPool => []PoolInv
BY InitPoolInv, NextPoolInv, PTL DEF SpecPool

\* No pool lends more connections than it has, for any capacity.
THEOREM PoolTypeCorrect == SpecPool => []TypeOKPool
BY SpecPoolInv, PTL DEF PoolInv

\* With half the pool for locks, a full pool always has a connection whose
\* holder needs no other: _lock_connection_slot's promise that lock holders
\* cannot deadlock on their own sessions, for any capacity from two on and any
\* number of workers and processes.
THEOREM NoSelfDeadlock == SpecPool => []RoomToPersist
<1>1. PoolInv => RoomToPersist
  <2> SUFFICES ASSUME PoolInv, NEW p \in Processes, short[p] <= 0, At(p, {"write"}) = {}
               PROVE  Used(p) < Capacity
    BY PoolAssumption DEF PoolInv, TypeOKPool, RoomToPersist
  <2>1. Cardinality(At(p, {"write"})) = 0
    BY FS_EmptySet
  <2>2. Cardinality(At(p, HasConnection)) <= Cardinality(At(p, HasSlot))
    <3>1. HasConnection \subseteq HasSlot
      BY DEF HasSlot
    <3> QED BY <3>1, AtSubset
  <2>3. Cardinality(At(p, HasSlot)) <= Slots
    BY DEF PoolInv, SlotsBound
  <2>4. short[p] = 0
    BY PoolAssumption DEF PoolInv, TypeOKPool
  <2>5. Cardinality(At(p, HasConnection)) \in Nat /\ Cardinality(At(p, HasSlot)) \in Nat
    BY AtFinite
  <2> QED BY <2>1, <2>2, <2>3, <2>4, <2>5, SlotsBelowCapacity, PoolAssumption DEF Used
<1> QED BY <1>1, SpecPoolInv, PTL

-----------------------------------------------------------------------------
(***************************************************************************)
(* Evidence: what "clear" and "healthy" stand for.                         *)
(***************************************************************************)

EvidenceSteps ==
    {"role", "queries", "buckets", "health", "logs", "rest", "detect", "context", "done"}

\* The world a behaviour is about.
WorldIs ==
    /\ watched \in Detectors
    /\ rows \in [NeedsOf(watched) -> {"none", "quiet", "trouble", "doubt"}]
    /\ \A q \in NeedsOf(watched) : rows[q] \in Answers(q)
    /\ IsFiniteSet(alerts) /\ \A a \in alerts : a.made \in Nat
    /\ watched # "exception_patterns_in_logs" => errors = {}
    /\ endpoint \in {"unset", "down", "unwell", "ok"}
    /\ watched # "health_endpoint_unavailable" => endpoint = "ok"
    /\ rowCap \in Nat \ {0}

\* What was collected, and what is known when something is missing.
CollectedIs ==
    /\ found \subseteq NeedsOf(watched)
    /\ file \in {"absent", "partial", "whole"} /\ evidence \subseteq alerts
    /\ file = "whole" => evidence = alerts
    /\ health \in {"none", "unknown", "failed", "ok"} /\ (health = "ok" => endpoint = "ok")
    /\ scanned \cup rotated \subseteq errors /\ lapsed \in BOOLEAN
    /\ step \in {"rest", "detect", "context", "done"} =>
          lapsed \/ errors \subseteq scanned \cup rotated

\* What was said of it.
SaidIs ==
    /\ verdict \in {"none", "triggered", "unknown", "clear"}
    /\ verdict = "clear" => Sound /\ scanned = {} /\ step \in {"context", "done"}
    /\ step \in {"context", "done"} /\ verdict = "none" => lapsed
    /\ step \notin {"context", "done"} => verdict = "none"
    /\ step # "done" => heading = "none"
    /\ heading \in {"none", "healthy", "other"}
    /\ heading = "healthy" => step = "done" /\ ~lapsed /\ verdict = "clear"

EvidenceInv == step \in EvidenceSteps /\ WorldIs /\ CollectedIs /\ SaidIs

\* Among the analyses that are left out a newest one has only read ones ahead of
\* it, and more of them than there is room for.
LEMMA AllRead ==
    ASSUME IsFiniteSet(alerts), \A a \in alerts : a.made \in Nat, rowCap \in Nat,
           ~ (Cardinality(RowsRead({})) >= rowCap)
    PROVE  RowsRead({}) = alerts
<1> DEFINE ahead(a) == {b \in alerts : b.made > a.made}
           unseen == {a \in alerts : ~ (Cardinality(ahead(a)) < rowCap)}
           sizes == {Cardinality(ahead(a)) : a \in unseen}
<1>1. RowsRead({}) = alerts \ unseen
  BY DEF RowsRead
<1> SUFFICES ASSUME unseen # {} PROVE FALSE
  BY <1>1
<1>2. \A a : IsFiniteSet(ahead(a)) /\ Cardinality(ahead(a)) \in Nat
  BY FS_Subset, FS_CardinalityType
<1>3. PICK n \in sizes : \A m \in sizes : n <= m
  <2>1. sizes \in SUBSET Nat /\ sizes # {}
    BY <1>2
  <2> QED BY <2>1, LeastNatural
<1>4. PICK a \in unseen : Cardinality(ahead(a)) = n
  OBVIOUS
<1>5. ASSUME NEW b \in ahead(a) PROVE b \notin unseen
  <2>1. ahead(b) \subseteq ahead(a) /\ b \in ahead(a) /\ b \notin ahead(b)
    OBVIOUS
  <2>2. Cardinality(ahead(b)) < Cardinality(ahead(a))
    <3>1. ahead(b) # ahead(a)
      BY <2>1
    <3> HIDE DEF ahead
    <3> QED BY <1>2, <2>1, <3>1, FS_Subset
  <2>3. b \in unseen => Cardinality(ahead(a)) <= Cardinality(ahead(b))
    <3>1. b \in unseen => Cardinality(ahead(b)) \in sizes
      OBVIOUS
    <3> HIDE DEF sizes, unseen, ahead
    <3> QED BY <1>3, <1>4, <3>1
  <2>4. Cardinality(ahead(a)) \in Nat /\ Cardinality(ahead(b)) \in Nat
    BY <1>2
  <2> HIDE DEF ahead, unseen
  <2> QED BY <2>2, <2>3, <2>4
<1>6. ahead(a) \subseteq alerts \ unseen
  BY <1>5
<1>7. IsFiniteSet(alerts \ unseen) /\ Cardinality(alerts \ unseen) \in Nat
  BY FS_Subset, FS_CardinalityType
<1>8. Cardinality(ahead(a)) <= Cardinality(alerts \ unseen)
  BY <1>6, <1>7, FS_Subset
<1>9. ~ (Cardinality(ahead(a)) < rowCap)
  BY <1>4
<1> HIDE DEF ahead, unseen
<1> QED BY <1>1, <1>2, <1>7, <1>8, <1>9

LEMMA InitEvidenceInv == InitEvidence => EvidenceInv
<1> SUFFICES ASSUME InitEvidence PROVE EvidenceInv
  OBVIOUS
<1>1. WorldIs
  <2>1. IsFiniteSet(alerts) /\ \A a \in alerts : a.made \in Nat
    BY FS_EmptySet, EvidenceAssumption DEF InitEvidence
  <2>2. rowCap \in Nat \ {0}
    BY EvidenceAssumption DEF InitEvidence
  <2>3. /\ watched \in Detectors
        /\ rows \in [NeedsOf(watched) -> {"none", "quiet", "trouble", "doubt"}]
        /\ \A q \in NeedsOf(watched) : rows[q] \in Answers(q)
    BY Zenon DEF InitEvidence
  <2>4. /\ watched # "exception_patterns_in_logs" => errors = {}
        /\ watched # "health_endpoint_unavailable" => endpoint = "ok"
        /\ endpoint \in {"unset", "down", "unwell", "ok"}
    BY DEF InitEvidence
  <2> QED BY <2>1, <2>2, <2>3, <2>4 DEF WorldIs
<1>2. CollectedIs
  <2>1. lapsed \in BOOLEAN
    BY Zenon DEF InitEvidence
  <2> QED BY <2>1 DEF InitEvidence, CollectedIs
<1>3. SaidIs
  BY DEF InitEvidence, SaidIs
<1> QED BY <1>1, <1>2, <1>3 DEF EvidenceInv, InitEvidence, EvidenceSteps

\* Once something was missing it stays so.
LEMMA LapseIs ==
    ASSUME lapsed \in BOOLEAN, NEW failed \in BOOLEAN, Lapse(failed)
    PROVE  lapsed' \in BOOLEAN /\ (lapsed => lapsed') /\ (failed => lapsed')
BY Zenon DEF Lapse

LEMMA WorldStep == WorldIs /\ [NextEvidence]_evidenceVars => WorldIs'
<1> SUFFICES ASSUME WorldIs, [NextEvidence]_evidenceVars PROVE WorldIs'
  OBVIOUS
<1>1. UNCHANGED worldVars
  BY DEF NextEvidence, CheckRole, RunQueries, ReadBuckets, LoseDatabase, ReadHealth, ReadLogs, CollectRest, Detect,
         WriteContext, evidenceVars
<1> QED BY <1>1 DEF worldVars, WorldIs

LEMMA CollectedStep == EvidenceInv /\ [NextEvidence]_evidenceVars => step' \in EvidenceSteps /\ CollectedIs'
<1> SUFFICES ASSUME EvidenceInv, [NextEvidence]_evidenceVars PROVE step' \in EvidenceSteps /\ CollectedIs'
  OBVIOUS
<1>t. WorldIs /\ CollectedIs /\ lapsed \in BOOLEAN
  BY DEF EvidenceInv, CollectedIs
<1>1. CASE CheckRole
  BY <1>1, <1>t, LapseIs DEF CheckRole, worldVars, bundleVars, CollectedIs, EvidenceSteps
<1>2. CASE RunQueries
  <2>1. PICK failed \in SUBSET NeedsOf(watched) : found' = NeedsOf(watched) \ failed /\ Lapse(failed # {})
    BY <1>2 DEF RunQueries
  <2>2. lapsed' \in BOOLEAN
    BY <1>t, <2>1, LapseIs
  <2> QED BY <1>2, <1>t, <2>1, <2>2 DEF RunQueries, worldVars, CollectedIs, EvidenceSteps
<1>3. CASE ReadBuckets
  <2>1. PICK failed \in SUBSET Buckets :
          /\ evidence' = RowsRead(failed)
          /\ file' = IF failed # {} \/ Cardinality(RowsRead(failed)) >= rowCap THEN "partial" ELSE "whole"
          /\ Lapse(file' = "partial")
    BY <1>3 DEF ReadBuckets
  <2>2. lapsed' \in BOOLEAN
    BY <1>t, <2>1, LapseIs
  <2>3. evidence' \subseteq alerts
    BY <2>1 DEF RowsRead
  <2>4. file' = "whole" => evidence' = alerts
    <3>1. file' = "whole" => failed = {} /\ ~ (Cardinality(RowsRead({})) >= rowCap)
      BY <2>1
    <3> QED BY <1>t, <2>1, <3>1, AllRead DEF WorldIs
  <2> QED BY <1>3, <1>t, <2>1, <2>2, <2>3, <2>4 DEF ReadBuckets, worldVars, CollectedIs, EvidenceSteps
<1>4. CASE LoseDatabase
  BY <1>4, <1>t, LapseIs DEF LoseDatabase, worldVars, CollectedIs, EvidenceSteps
<1>5. CASE ReadHealth
  <2>1. lapsed' \in BOOLEAN
    BY <1>5, <1>t, LapseIs DEF ReadHealth
  <2>2. health' = "ok" => endpoint = "ok"
    BY <1>5, <1>t DEF ReadHealth, WorldIs
  <2> QED BY <1>5, <1>t, <2>1, <2>2 DEF ReadHealth, worldVars, CollectedIs, EvidenceSteps
<1>6. CASE ReadLogs
  <2>1. PICK unread \in SUBSET errors : \E gone \in SUBSET (errors \ unread) :
          scanned' = errors \ (unread \cup gone) /\ rotated' = gone /\ Lapse(unread # {})
    BY <1>6 DEF ReadLogs
  <2>2. lapsed' \in BOOLEAN /\ (unread # {} => lapsed')
    BY <1>t, <2>1, LapseIs
  <2>3. scanned' \cup rotated' \subseteq errors /\ (lapsed' \/ errors \subseteq scanned' \cup rotated')
    BY <2>1, <2>2
  <2> QED BY <1>6, <1>t, <2>2, <2>3 DEF ReadLogs, worldVars, CollectedIs, EvidenceSteps
<1>7. CASE CollectRest
  BY <1>7, <1>t, LapseIs DEF CollectRest, worldVars, bundleVars, CollectedIs, EvidenceSteps
<1>8. CASE Detect
  BY <1>8, <1>t, LapseIs DEF Detect, worldVars, bundleVars, CollectedIs, EvidenceSteps
<1>9. CASE WriteContext
  BY <1>9, <1>t DEF WriteContext, worldVars, bundleVars, CollectedIs, EvidenceSteps
<1>10. CASE UNCHANGED evidenceVars
  BY <1>10, <1>t DEF evidenceVars, worldVars, bundleVars, CollectedIs, EvidenceInv
<1> QED BY <1>1, <1>2, <1>3, <1>4, <1>5, <1>6, <1>7, <1>8, <1>9, <1>10 DEF NextEvidence

\* A detector is of one of four kinds.
LEMMA Kinds ==
    /\ AlertDetectors \cap QueryDetectors = {}
    /\ {"health_endpoint_unavailable", "exception_patterns_in_logs"} \cap (QueryDetectors \cup AlertDetectors) = {}
    /\ \A d : d \notin QueryDetectors => NeedsOf(d) = {}
<1>1. /\ DOMAIN DeliveryNeeds = {"failed_telegram_deliveries", "no_alert_deliveries_observed"}
      /\ DOMAIN AnalysisNeeds = {"market_events_without_alert_deliveries", "event_alert_delivery_explanation_gaps",
                                 "repeated_llm_failures_or_rate_limits"}
      /\ DOMAIN ServiceNeeds = {"failed_daily_weekly_reports", "stale_or_failed_market_heartbeats",
                                "duplicate_market_events", "duplicate_alert_deliveries", "market_event_analysis_invariant",
                                "blocked_users_still_active", "payment_premium_inconsistencies"}
      /\ DOMAIN ContextNeeds = {"news_intelligence_failures", "event_alert_render_consecutive_failures",
                                "event_alert_positive_render_loss", "event_alert_news_context_missing_with_candidates",
                                "event_alert_market_snapshot_gaps", "stale_price_snapshots"}
      /\ DOMAIN ModelNeeds = {"event_analysis_success_rate_zero", "event_analysis_model_drift"}
  BY DEF DeliveryNeeds, AnalysisNeeds, ServiceNeeds, ContextNeeds, ModelNeeds
<1>2. AlertDetectors \cap QueryDetectors = {}
  BY <1>1 DEF AlertDetectors, QueryDetectors
<1>3. {"health_endpoint_unavailable", "exception_patterns_in_logs"} \cap (QueryDetectors \cup AlertDetectors) = {}
  BY <1>1 DEF AlertDetectors, QueryDetectors
<1>4. ASSUME NEW d, d \notin QueryDetectors PROVE NeedsOf(d) = {}
  BY <1>4 DEF NeedsOf, QueryDetectors
<1> QED BY <1>2, <1>3, <1>4

\* A detector that says "clear" of whole evidence is right.
LEMMA ClearIsSound ==
    ASSUME WorldIs, CollectedIs, step = "detect", Verdict = "clear"
    PROVE  Sound /\ scanned = {}
<1>1. Sound
  <2>1. CASE watched \in QueryDetectors
    <3>1. \A q \in Telling(watched) : rows[q] \in {"none", "quiet"}
      <4>1. QueriesVerdict = "clear"
        BY <2>1 DEF Verdict
      <4> SUFFICES ASSUME NEW q \in Telling(watched) PROVE rows[q] \in {"none", "quiet"}
        OBVIOUS
      <4>2. watched # "no_alert_deliveries_observed" /\ q \in NeedsOf(watched)
        BY DEF Telling
      <4>3. rows[q] # "trouble" /\ rows[q] # "doubt"
        BY <4>1, <4>2 DEF QueriesVerdict
      <4> QED BY <4>2, <4>3 DEF WorldIs
    <3>2. watched \notin AlertDetectors /\ watched # "health_endpoint_unavailable"
      BY <2>1, Kinds
    <3> QED BY <3>1, <3>2 DEF Sound
  <2>2. CASE watched \in AlertDetectors
    <3>1. watched \notin QueryDetectors /\ watched # "health_endpoint_unavailable" /\ NeedsOf(watched) = {}
      BY <2>2, Kinds
    <3>2. FileVerdict = "clear"
      BY <2>2, <3>1 DEF Verdict
    <3>3. file = "whole" /\ ~Finding(watched, evidence) /\ ~Unverified(watched, evidence)
      BY <3>2 DEF FileVerdict, CollectedIs
    <3>4. evidence = alerts
      BY <3>3 DEF CollectedIs
    <3>5. Telling(watched) = {}
      BY <3>1 DEF Telling
    <3> QED BY <3>1, <3>3, <3>4, <3>5 DEF Sound
  <2>3. CASE watched \notin QueryDetectors /\ watched \notin AlertDetectors
    <3>1. Telling(watched) = {}
      BY <2>3, Kinds DEF Telling
    <3>2. watched = "health_endpoint_unavailable" => health = "ok"
      BY <2>3 DEF Verdict
    <3>3. watched = "health_endpoint_unavailable" => endpoint = "ok"
      BY <3>2 DEF CollectedIs
    <3> QED BY <2>3, <3>1, <3>3 DEF Sound
  <2> QED BY <2>1, <2>2, <2>3
<1>2. scanned = {}
  <2>1. CASE watched = "exception_patterns_in_logs"
    BY <2>1, Kinds DEF Verdict
  <2>2. CASE watched # "exception_patterns_in_logs"
    BY <2>2 DEF WorldIs, CollectedIs
  <2> QED BY <2>1, <2>2
<1> QED BY <1>1, <1>2

LEMMA VerdictTyped == Verdict \in {"triggered", "unknown", "clear"}
BY DEF Verdict, QueriesVerdict, FileVerdict

LEMMA SaidStep == EvidenceInv /\ [NextEvidence]_evidenceVars => SaidIs'
<1> SUFFICES ASSUME EvidenceInv, [NextEvidence]_evidenceVars PROVE SaidIs'
  OBVIOUS
<1>t. WorldIs /\ CollectedIs /\ SaidIs /\ lapsed \in BOOLEAN
  BY DEF EvidenceInv, CollectedIs
<1>1. ASSUME step \notin {"detect", "context", "done"}, step' \notin {"context", "done"},
             UNCHANGED <<verdict, heading>>
      PROVE  SaidIs'
  BY <1>1, <1>t DEF SaidIs
<1>2. CASE CheckRole \/ RunQueries \/ ReadBuckets \/ LoseDatabase \/ ReadHealth \/ ReadLogs \/ CollectRest
  BY <1>1, <1>2 DEF CheckRole, RunQueries, ReadBuckets, LoseDatabase, ReadHealth, ReadLogs, CollectRest
<1>3. CASE Detect
  <2>1. /\ step = "detect" /\ step' = "context" /\ UNCHANGED <<worldVars, bundleVars, heading>>
        /\ verdict = "none" /\ heading # "healthy" /\ heading \in {"none", "other"}
    BY <1>3, <1>t DEF Detect, SaidIs
  <2>2. Sound' = Sound /\ scanned' = scanned
    BY <2>1 DEF Sound, worldVars, bundleVars, Finding, Noisy, RepeatedContent, SimilarGroups, RepeatedDecisions,
                WeakIdentity, CooldownGap, Unverified
  <2>3. CASE verdict' = Verdict
    BY <1>t, <2>1, <2>2, <2>3, VerdictTyped, ClearIsSound DEF SaidIs
  <2>4. CASE Lapse(TRUE) /\ UNCHANGED verdict
    <3>1. lapsed'
      BY <2>4 DEF Lapse
    <3>2. verdict' = "none" /\ step' = "context"
      BY <2>1, <2>4
    <3>3. heading' = heading
      BY <2>1
    <3>4. heading' # "healthy" /\ heading' \in {"none", "healthy", "other"}
      BY <2>1, <3>3
    <3>5. heading' = "none"
      BY <1>t, <2>1, <3>3 DEF SaidIs
    <3>6. step' \in {"context", "done"} /\ verdict' = "none" => lapsed'
      BY <3>1, Zenon
    <3> QED BY <3>2, <3>4, <3>5, <3>6 DEF SaidIs
  <2> QED BY <1>3, <2>3, <2>4 DEF Detect
<1>4. CASE WriteContext
  <2>1. /\ step = "context" /\ step' = "done" /\ UNCHANGED <<worldVars, bundleVars, lapsed, verdict>>
        /\ heading' \in {"healthy", "other"}
        /\ heading' = "healthy" => ~lapsed /\ verdict \notin {"triggered", "unknown"}
    BY <1>4 DEF WriteContext
  <2>2. Sound' = Sound /\ scanned' = scanned
    BY <2>1 DEF Sound, worldVars, bundleVars, Finding, Noisy, RepeatedContent, SimilarGroups, RepeatedDecisions,
                WeakIdentity, CooldownGap, Unverified
  <2>3. UNCHANGED <<verdict, lapsed>>
    BY <2>1
  <2> QED BY <1>t, <2>1, <2>2, <2>3 DEF SaidIs
<1>5. CASE UNCHANGED evidenceVars
  <2>1. Sound' = Sound /\ UNCHANGED <<scanned, step, verdict, heading, lapsed>>
    BY <1>5 DEF Sound, evidenceVars, worldVars, bundleVars, Finding, Noisy, RepeatedContent, SimilarGroups,
                RepeatedDecisions, WeakIdentity, CooldownGap, Unverified
  <2> QED BY <1>t, <2>1 DEF SaidIs
<1> QED BY <1>2, <1>3, <1>4, <1>5 DEF NextEvidence

LEMMA SpecEvidenceInv == SpecEvidence => []EvidenceInv
<1>1. EvidenceInv /\ [NextEvidence]_evidenceVars => EvidenceInv'
  BY WorldStep, CollectedStep, SaidStep DEF EvidenceInv
<1> QED BY InitEvidenceInv, <1>1, PTL DEF SpecEvidence

\* Every variable has its type, for any detector and any period.
THEOREM EvidenceTypeCorrect == SpecEvidence => []TypeOKEvidence
<1>1. EvidenceInv => TypeOKEvidence
  BY DEF EvidenceInv, EvidenceSteps, WorldIs, CollectedIs, SaidIs, TypeOKEvidence
<1> QED BY SpecEvidenceInv, <1>1, PTL

\* A detector is clear only of what is not there, and a packet is healthy only
\* if nothing it can know of is missing, whatever failed on the way.
THEOREM ClearWasEarned == SpecEvidence => []ClearIsEarned
<1>1. EvidenceInv => ClearIsEarned
  <2> SUFFICES ASSUME EvidenceInv PROVE ClearIsEarned
    OBVIOUS
  <2>1. verdict = "clear" => Sound /\ (lapsed \/ errors \subseteq rotated)
    BY DEF EvidenceInv, CollectedIs, SaidIs
  <2>2. heading = "healthy" => verdict = "clear" /\ ~lapsed
    BY DEF EvidenceInv, SaidIs
  <2> QED BY <2>1, <2>2 DEF ClearIsEarned
<1> QED BY SpecEvidenceInv, <1>1, PTL


-----------------------------------------------------------------------------
(***************************************************************************)
(* The composition: each behaviour of it is one of every module.           *)
(***************************************************************************)

LEMMA ServicesInterleave ==
    SpecServices => /\ SpecPool /\ SpecGeneration /\ SpecReports /\ SpecScreens
                    /\ SpecOps /\ SpecRegistration /\ SpecEvidence /\ SpecPage
<1>1. InitServices => /\ InitPool /\ InitGeneration /\ InitReports /\ InitScreens
                      /\ InitOps /\ InitRegistration /\ InitEvidence /\ InitPage
  BY DEF InitServices
<1>2. [NextServices]_serviceVars =>
         /\ [NextPool]_poolVars /\ [NextGeneration]_generationVars /\ [NextReports]_reportVars
         /\ [NextScreens]_screenVars /\ [NextOps]_opsVars /\ [NextRegistration]_registrationVars
         /\ [NextEvidence]_evidenceVars /\ [NextPage]_pageVars
  BY DEF NextServices, serviceVars
<1> QED BY <1>1, <1>2, PTL DEF SpecServices, SpecPool, SpecGeneration, SpecReports, SpecScreens, SpecOps,
           SpecRegistration, SpecEvidence, SpecPage

FocusKnown ==
    focus \in {"pool", "heartbeats", "reports", "screens", "ops", "registration", "evidence", "page"}

\* Every variable of the module that is exercised has its type.
THEOREM ServicesTypeCorrect == SpecServices => []ServicesTyped
<1>1. /\ TypeOKPool /\ TypeOKGeneration /\ TypeOKReports /\ TypeOKScreens /\ TypeOKOps
      /\ TypeOKRegistration /\ TypeOKEvidence /\ TypeOKPage /\ FocusKnown
      => ServicesTyped
  BY DEF ServicesTyped, FocusKnown
<1>2. InitServices => FocusKnown
  BY DEF InitServices, FocusKnown
<1>3. FocusKnown /\ [NextServices]_serviceVars => FocusKnown'
  BY DEF FocusKnown, NextServices, serviceVars
<1>4. SpecServices => []FocusKnown
  BY <1>2, <1>3, PTL DEF SpecServices
<1> QED BY <1>1, <1>4, ServicesInterleave, PoolTypeCorrect, GenerationTypeCorrect, ReportsTypeCorrect,
           ScreensTypeCorrect, OpsTypeCorrect, RegistrationTypeCorrect, EvidenceTypeCorrect, PageTypeCorrect, PTL

=============================================================================
