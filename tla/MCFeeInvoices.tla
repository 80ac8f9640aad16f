---------------------------- MODULE MCFeeInvoices ----------------------------
(* FeeInvoices for TLC: two students, one boarder in P4 and one day scholar  *)
(* without a class, and two structures that charge them differently.         *)
EXTENDS FeeInvoices, TLC

CONSTANTS thisTerm, nextYear, base, trip

Fee(amount, applies, level, optional) ==
    [amount |-> amount, applies |-> applies, level |-> level, optional |-> optional]

\* Both terms are term 1, of two academic years.
MCTermNumber == [t \in Terms |-> 1]

\* A day scholar owes nothing under base.
MCFeesOf ==
    (base :> {Fee(1, "boarder", None, FALSE)}) @@
    (trip :> {Fee(1, "all", None, FALSE), Fee(1, "class_level", "P4", FALSE),
              Fee(1, "all", None, TRUE)})

MCClass == [s \in Students |-> IF s = 1 THEN "P4" ELSE None]
MCResidence == [s \in Students |-> IF s = 1 THEN "boarder" ELSE "day"]

=============================================================================
