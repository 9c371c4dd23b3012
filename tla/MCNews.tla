------------------------------- MODULE MCNews -------------------------------
(* An instance of NewsIntelligence for TLC: two articles, one story. *)
EXTENDS NewsIntelligence

CONSTANTS n1, n2, s1, report

MCStoryOf == [a \in Articles |-> s1]

=============================================================================
