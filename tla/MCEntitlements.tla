--------------------------- MODULE MCEntitlements ---------------------------
(* Entitlements for TLC: an administrator and a teacher restricted to one    *)
(* module besides core.                                                      *)
EXTENDS Entitlements, TLC

CONSTANTS admin, teacher, finance

MCAllowed == [u \in Users |-> IF u = teacher THEN {finance} ELSE None]

Symmetry == Permutations(Reqs)

=============================================================================
