------------------------------ MODULE Circuit ------------------------------
(***************************************************************************)
(* What the router relies on of the circuit breaker of one (call type,     *)
(* provider, model) triple: four states, and what each call of the breaker *)
(* and the passing of time may do to them.  Breaker is shown to behave so, *)
(* and Router is built on nothing else.                                    *)
(***************************************************************************)

\* closed: calls pass.  open: calls skip the triple until the interval has
\* elapsed.  due: the next caller becomes the probe.  half: a probe is out.
CircuitStates == {"closed", "open", "due", "half"}

Skips(s) == s \in {"open", "half"}

\* should_skip that lets the caller through.
Admits(s, t) == (s = "closed" /\ t = "closed") \/ (s = "due" /\ t = "half")

\* record_failure of a deterministic reason.
Fails(s, t) == t = "open" \/ (s = "closed" /\ t = "closed")

\* record_not_attempted.
GivesBack(s, t) == t = IF s = "half" THEN "open" ELSE s

\* The same when the probe counts as abandoned: it is given back all the same.
GivesBackLate(s, t) == s = "due" /\ t = "open"

\* record_success, or a restart.
Closes(s, t) == t = "closed"

Elapses(s, t) == t = s \/ (Skips(s) /\ t = "due")

=============================================================================
