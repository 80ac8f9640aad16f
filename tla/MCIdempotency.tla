---------------------------- MODULE MCIdempotency ----------------------------
(* Idempotency for TLC: two onboarding payloads that carry the same school   *)
(* code and one profile or module update.                                    *)
EXTENDS Idempotency, TLC

CONSTANTS onboardA, onboardB, update, code

MCCodeOf == (onboardA :> code) @@ (onboardB :> code) @@ (update :> None)

\* Requests and keys are interchangeable; so are the two onboarding payloads.
Symmetry == Permutations(Reqs) \cup Permutations(Keys) \cup Permutations({onboardA, onboardB})

=============================================================================
