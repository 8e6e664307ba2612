---------------------------- MODULE PaidSubmission ----------------------------
(***************************************************************************)
(* What a queue of paid jobs promises, whatever it keeps in its tables:    *)
(* the work of a key is submitted again only after its last submission is  *)
(* known to have bought nothing.  Work that is still out, that nobody      *)
(* knows the outcome of, or that succeeded, is never submitted again.      *)
(***************************************************************************)
EXTENDS Naturals

CONSTANT Keys

VARIABLES
    outcome,  \* "open", "out" (submitted), "unknown" or "won"
    sent      \* submissions so far

vars == <<outcome, sent>>

Outcomes == {"open", "out", "unknown", "won"}

Init ==
    /\ outcome = [k \in Keys |-> "open"]
    /\ sent = [k \in Keys |-> 0]

Submit(k) ==
    /\ outcome[k] = "open"
    /\ outcome'[k] = "out"
    /\ sent'[k] = sent[k] + 1

\* News of a submission: an answer, a restart that lost it, an output found
\* later, a cancellation that casts doubt on it.  What may have been bought
\* does not become open again.
Hear(k) ==
    /\ outcome'[k] = "open" => outcome[k] \in {"open", "out"}
    /\ sent'[k] = sent[k]

Next ==
    /\ outcome' \in [Keys -> Outcomes]
    /\ sent' \in [Keys -> Nat]
    /\ \A k \in Keys : Submit(k) \/ Hear(k)

Spec == Init /\ [][Next]_vars
===============================================================================
