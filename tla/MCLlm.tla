------------------------------- MODULE MCLlm -------------------------------
(***************************************************************************)
(* Instances for TLC of the modules around calls of language models, which *)
(* share no state: a behaviour exercises one of them, `focus`, and the     *)
(* others rest in their initial states.                                    *)
(*                                                                         *)
(* Breaker: two back-off steps, one shorter and one longer than the probe  *)
(* timeout.                                                                *)
(* Router: an event analysis walks two targets, the second one paid, while *)
(* a render with a third target shares the first one with it.              *)
(* OpenAI: three requests, the last one in a process of its own, whose     *)
(* worst case is 2; the cap fits two of them only if one turns out         *)
(* cheaper, and a request may cost 3, more than its worst case.            *)
(* Groq: an analysis and two other calls, 2 tokens each, of which 4 may be *)
(* spent in a day.                                                         *)
(* News: three articles of two stories, one of them noise, and a model     *)
(* that may be asked twice an hour.                                        *)
(***************************************************************************)
EXTENDS Breaker, Router, OpenAIBudget, GroqBudget, NewsIntelligence, TLC

CONSTANTS analysis, render, groq, openai, cloudflare, last, p1, p2, r1, r2, r3, btc,
    n1, n2, n3, s1, s2, report

VARIABLE focus

allVars == <<vars, routerVars, budgetVars, groqVars, newsVars, focus>>

MCSchedule == <<2, 5>>
MCKind == (analysis :> "analysis") @@ (render :> "render")
\* The priorities of the two, and what is left of them without Cloudflare's key.
MCPriority == (analysis :> <<groq>>) @@ (render :> <<groq, openai, cloudflare>>)
MCChain == [c \in Calls |-> SelectSeq(MCPriority[c], LAMBDA t : t \in {groq, openai})]

MCProcessOf == [c \in PaidCalls |-> IF c = last THEN p2 ELSE p1]
MCWorst == [c \in PaidCalls |-> 2]

MCOwner == (r1 :> btc) @@ (r2 :> Other) @@ (r3 :> Other)
MCEstimate == [r \in Attempts |-> 2]

\* Two articles tell the same story.
MCStoryOf == (n1 :> s1) @@ (n2 :> s1) @@ (n3 :> s2)

InitLlm ==
    /\ Init /\ InitRouter /\ InitBudget /\ InitGroq /\ InitNews
    /\ focus \in {"breaker", "router", "openai", "groq", "news"}

NextLlm ==
    /\ \/ focus = "breaker" /\ Next /\ UNCHANGED <<routerVars, budgetVars, groqVars, newsVars>>
       \/ focus = "router" /\ NextRouter /\ UNCHANGED <<vars, budgetVars, groqVars, newsVars>>
       \/ focus = "openai" /\ NextBudget /\ UNCHANGED <<vars, routerVars, groqVars, newsVars>>
       \/ focus = "groq" /\ NextGroq /\ UNCHANGED <<vars, routerVars, budgetVars, newsVars>>
       \/ focus = "news" /\ NextNews /\ UNCHANGED <<vars, routerVars, budgetVars, groqVars>>
    /\ UNCHANGED focus

\* Time passes for the breaker.
FairnessLlm ==
    WF_allVars(focus = "breaker" /\ Tick
                /\ UNCHANGED <<routerVars, budgetVars, groqVars, newsVars, focus>>)

SpecLlm == InitLlm /\ [][NextLlm]_allVars /\ FairnessLlm

\* The type invariant of the module that is exercised.
LlmTyped ==
    CASE focus = "breaker" -> TypeOK [] focus = "router" -> TypeOKRouter
      [] focus = "openai" -> TypeOKBudget [] focus = "groq" -> TypeOKGroq
      [] focus = "news" -> TypeOKNews

=============================================================================
