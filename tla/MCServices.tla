----------------------------- MODULE MCServices -----------------------------
(***************************************************************************)
(* Instances of the smaller modules for TLC.  They share no state: a       *)
(* behaviour exercises one of them, `focus`, and the others rest in their  *)
(* initial states.                                                         *)
(***************************************************************************)
EXTENDS LockPool, HeartbeatGeneration, ReportCache, ManualScreens,
    OpsAgent, Registration, Evidence, StatusPage, TLC

CONSTANTS p1, p2, w1, w2, w3, w4, k1, k2, k3, btc, eth,
    g1, g2, u1, u2, b1, b2

VARIABLE focus

\* The only worker of p2 competes with w1 of p1.
MCProcessOf == [w \in Lockers |-> IF w = w4 THEN p2 ELSE p1]
MCKeyOf == (w1 :> k1) @@ (w2 :> k2) @@ (w3 :> k3) @@ (w4 :> k1)

\* The configured order of the coins.
MCCoinOrder == btc :> 1 @@ eth :> 2

\* One period an operator asks for, beside the automatic ones.
MCAskedPeriods == {[start |-> -1, end |-> 0, auto |-> FALSE]}

\* Up to two analyses, the first one of hour 0.
MCFirst ==
    [made : {0}, alert : {"none"}, sent : {0}, to : {u1}, key : {k1}, text : {"t1"},
     gist : {"g1"}, proof : {TRUE}]
    \cup [made : {0}, alert : {"sent"}, sent : {0, 2}, to : {u1}, key : {k1}, text : {"t1"},
          gist : {"g1"}, proof : BOOLEAN]
MCSecond ==
    {a \in [made : {1, 2}, alert : {"none", "unsent", "sent"}, sent : 0..3, to : {u1, u2},
            key : {k1, k2, "odd"}, text : {"t1", "t2"}, gist : {"g1", "g2"}, proof : {TRUE}] :
        /\ a.text = "t1" => a.gist = "g1"
        /\ a.alert = "sent" => a.sent \in {a.made, a.made + 1}
        /\ a.alert # "sent" => a.sent = 0 /\ a.to = u1
        /\ a.key = "odd" => a.text = "t2" /\ a.gist = "g2"}
MCWorlds == {{}} \cup {{a} : a \in MCFirst} \cup {{a, b} : a \in MCFirst, b \in MCSecond}

MCSymmetry == Permutations({b1, b2})

InitServices ==
    /\ focus \in {"pool", "heartbeats", "reports", "screens", "ops",
                  "registration", "evidence", "page"}
    /\ watched \in IF focus = "evidence" THEN Detectors ELSE {"exception_patterns_in_logs"}
    /\ InitEvidence /\ (focus # "evidence" => errors = {} /\ rowCap = 1)
    /\ subject \in IF focus = "page" THEN Subjects ELSE {"prices"}
    /\ InitPage /\ (focus # "page" => \A c \in StatusCoins : prices[c] = "fresh")
    /\ InitPool /\ InitGeneration /\ InitReports
    /\ InitScreens /\ InitOps /\ InitRegistration
    /\ focus # "reports" => made = Missing
    \* A user who has turned the free coin off.
    /\ chosen = {} /\ (focus # "screens" => paid = "none" /\ ~completed)

serviceVars ==
    <<poolVars, generationVars, reportVars, screenVars, opsVars,
      registrationVars, evidenceVars, pageVars, focus>>

NextServices ==
    /\ \/ focus = "pool" /\ NextPool
          /\ UNCHANGED <<generationVars, reportVars, screenVars,
                         opsVars, registrationVars, evidenceVars, pageVars>>
       \/ focus = "heartbeats" /\ NextGeneration
          /\ UNCHANGED <<poolVars, reportVars, screenVars,
                         opsVars, registrationVars, evidenceVars, pageVars>>
       \/ focus = "reports" /\ NextReports
          /\ UNCHANGED <<poolVars, generationVars, screenVars,
                         opsVars, registrationVars, evidenceVars, pageVars>>
       \/ focus = "screens" /\ NextScreens
          /\ UNCHANGED <<poolVars, generationVars, reportVars,
                         opsVars, registrationVars, evidenceVars, pageVars>>
       \/ focus = "ops" /\ NextOps
          /\ UNCHANGED <<poolVars, generationVars, reportVars,
                         screenVars, registrationVars, evidenceVars, pageVars>>
       \/ focus = "registration" /\ NextRegistration
          /\ UNCHANGED <<poolVars, generationVars, reportVars,
                         screenVars, opsVars, evidenceVars, pageVars>>
       \/ focus = "evidence" /\ NextEvidence
          /\ UNCHANGED <<poolVars, generationVars, reportVars, screenVars, opsVars,
                         registrationVars, pageVars>>
       \/ focus = "page" /\ NextPage
          /\ UNCHANGED <<poolVars, generationVars, reportVars, screenVars, opsVars,
                         registrationVars, evidenceVars>>
    /\ UNCHANGED focus

SpecServices == InitServices /\ [][NextServices]_serviceVars

\* The type invariant of the module that is exercised.
ServicesTyped ==
    CASE focus = "pool" -> TypeOKPool [] focus = "heartbeats" -> TypeOKGeneration
      [] focus = "reports" -> TypeOKReports [] focus = "screens" -> TypeOKScreens
      [] focus = "ops" -> TypeOKOps [] focus = "registration" -> TypeOKRegistration
      [] focus = "evidence" -> TypeOKEvidence [] focus = "page" -> TypeOKPage

=============================================================================
