------------------------------- MODULE MCFinance ------------------------------
(* Finance for TLC: two drafts of two terms; and the students and          *)
(* structures of MCFeeInvoices                                               *)
EXTENDS Finance, MCFeeInvoices

\* Drafts and request handlers are interchangeable.
Symmetry == Permutations(Drafts) \cup Permutations(Reqs)

=============================================================================
