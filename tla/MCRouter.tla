------------------------------ MODULE MCRouter ------------------------------
(* An instance of Router for TLC: a render over two targets, the second one paid. *)
EXTENDS Router, TLC

CONSTANTS render, groq, openai

MCKind == render :> "render"
MCChain == render :> <<groq, openai>>

=============================================================================
