--------------------------- MODULE MCMarketCheck ---------------------------
(***************************************************************************)
(* Instances of MarketCheck and EventHealth for TLC, with the symmetric    *)
(* constants.  They share no state: a behaviour exercises one of them.     *)
(***************************************************************************)
EXTENDS MarketCheck, EventHealth, TLC

VARIABLE focus

Symmetry == Permutations(Workers) \cup Permutations(Keys) \cup Permutations(Users)
                \cup Permutations(Analyses) \cup Permutations(Events)

InitChecks == Init /\ InitHealth /\ focus \in {"checks", "health"}

NextChecks ==
    /\ \/ focus = "checks" /\ Next /\ UNCHANGED healthVars
       \/ focus = "health" /\ NextHealth /\ UNCHANGED vars
    /\ UNCHANGED focus

SpecChecks == InitChecks /\ [][NextChecks]_<<vars, healthVars, focus>>

\* The type invariants of both modules.
ChecksTyped == TypeOK /\ TypeOKHealth

=============================================================================
