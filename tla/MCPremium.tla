------------------------------ MODULE MCPremium ------------------------------
(* Instances of Premium for TLC. *)
EXTENDS Premium

CONSTANTS h1, h2, j1, pay1, pay2

=============================================================================
