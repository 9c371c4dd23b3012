-------------------------- MODULE DeliveryContract --------------------------
(***************************************************************************)
(* What automatic delivery promises for one message and one user, without  *)
(* workers, locks, attempts or transports: a delivery is claimed once,     *)
(* posted to the chat once unless Telegram left the bot in doubt, settled  *)
(* once, and settled as sent only if it was posted.                        *)
(***************************************************************************)
EXTENDS Naturals

CONSTANT Deliveries

VARIABLES
    row,        \* row[d]: "open", "claimed", "sent" or "failed"
    copies,     \* copies[d]: messages in the chat
    doubt       \* doubt[d]: a post of unknown outcome may be repeated

contractVars == <<row, copies, doubt>>

InitContract ==
    /\ row = [d \in Deliveries |-> "open"]
    /\ copies = [d \in Deliveries |-> 0]
    /\ doubt = [d \in Deliveries |-> FALSE]

Claim(d) ==
    /\ row[d] = "open"
    /\ row' = [row EXCEPT ![d] = "claimed"]
    /\ UNCHANGED <<copies, doubt>>

MayPost(d) == row[d] = "claimed" /\ (copies[d] = 0 \/ doubt[d])

\* The post is the last one: it was acknowledged, or nothing will repeat it.
Post(d) ==
    /\ MayPost(d)
    /\ copies' = [copies EXCEPT ![d] = @ + 1]
    /\ UNCHANGED <<row, doubt>>

\* Nobody knows whether the post arrived, and it may be repeated.
PostInDoubt(d) ==
    /\ MayPost(d)
    /\ copies' = copies \/ copies' = [copies EXCEPT ![d] = @ + 1]
    /\ doubt' = [doubt EXCEPT ![d] = TRUE]
    /\ UNCHANGED row

Settle(d, outcome) ==
    /\ row[d] = "claimed"
    /\ outcome = "sent" => copies[d] > 0
    /\ row' = [row EXCEPT ![d] = outcome]
    /\ UNCHANGED <<copies, doubt>>

NextContract ==
    \E d \in Deliveries :
        \/ Claim(d) \/ Post(d) \/ PostInDoubt(d)
        \/ \E outcome \in {"sent", "failed"} : Settle(d, outcome)

Contract == InitContract /\ [][NextContract]_contractVars

=============================================================================
