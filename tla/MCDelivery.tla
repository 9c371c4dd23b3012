----------------------------- MODULE MCDelivery -----------------------------
(***************************************************************************)
(* Instances of Delivery for TLC: up to three events, of which e1 and e2   *)
(* share the semantic family, e1 and e3 the canonical key, and e2 and e3   *)
(* nothing; one heartbeat, fresh from time 1 on; one worker per process,   *)
(* or worker w3 in a process of its own and the others in another one.     *)
(***************************************************************************)
EXTENDS Delivery, TLC

CONSTANTS e2, e3, w3, p2

MCEventKey == [e \in Events |-> IF e = e2 THEN "k2" ELSE "k1"]
MCFamily   == [e \in Events |-> IF e = e3 THEN NoFamily ELSE "f1"]
MCBorn     == [h \in Heartbeats |-> 1]

\* Workers in processes of their own are alike.
Symmetry == Permutations(Workers)

\* No guard reads what Telegram put in the chat: states that differ in it alone
\* are one state to the properties of cooldown and silence.
WithoutChat == <<now, userVars, rowVars, advisory, pc, workVars>>

OwnProcess == [w \in Workers |-> w]
W3Apart == [w \in Workers |-> IF w = w3 THEN p2 ELSE CHOOSE p \in Processes : p # p2]

=============================================================================
