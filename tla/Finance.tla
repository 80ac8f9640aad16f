-------------------------------- MODULE Finance -------------------------------
(***************************************************************************)
(* The money of a school: its fee structures, and the invoices made from   *)
(* the active one.  An active structure is frozen, and its replacement is  *)
(* all that invoices see of the drafting (FeeInvoices!Activate), so a      *)
(* behaviour exercises one of the two and the other stays as it begins.    *)
(***************************************************************************)
EXTENDS FeeInvoices

CONSTANTS Drafts, DraftTerms, Slots, Fees, Heads    \* of FeeStructures

ASSUME FinanceAssumption ==
    /\ None \notin Drafts \cup DraftTerms \cup Slots \cup Fees \cup Heads \cup Structs
    /\ None \notin Bills \cup Invoices
    /\ Students \subseteq Nat /\ IsFiniteSet(Students) /\ IsFiniteSet(Terms)
    /\ TermNumber \in [Terms -> Nat]
    /\ \A s \in Structs : IsFiniteSet(FeesOf[s]) /\ \A f \in FeesOf[s] : f.amount \in Nat
    /\ MaxStamp \in Nat /\ MaxReceived \in Nat

VARIABLES
    part,           \* "pricing" or "billing"
    status, term, head, content, edit, crossed    \* of FeeStructures

Pricing == INSTANCE FeeStructures
    WITH Structs <- Drafts, Terms <- DraftTerms, lines <- content, req <- edit, raced <- crossed

pricing == <<status, term, head, content, edit, crossed>>

FinanceInit == part \in {"pricing", "billing"} /\ Init /\ Pricing!Init

FinanceNext ==
    /\ UNCHANGED part
    /\ \/ part = "pricing" /\ Pricing!Next /\ UNCHANGED vars
       \/ part = "billing" /\ Next /\ UNCHANGED pricing

FinanceSpec == FinanceInit /\ [][FinanceNext]_<<part, vars, pricing>>

-----------------------------------------------------------------------------
(* Properties                                                              *)

\* Structures, invoices and their lines keep the shape their tables allow.
FinanceTypeOK == TypeOK /\ Pricing!TypeOK

\* A term has at most one active fee structure and what was activated has a line,
\* unless two requests worked on the term's structures at once.
StructuresAreSound == Pricing!OneActivePerTerm /\ Pricing!ActivatedHasLines

\* A priced term stays priced whatever overlaps (activate_structure), and an
\* activated structure never changes, unless two requests worked on the term's
\* structures at once (the "Only draft" refusals).
PricesHold == [][Pricing!PricedStays /\ Pricing!FrozenStays]_pricing

\* No two invoices of the school carry the same number, however generations overlap
\* (uq_fee_invoice_number), and within a term a generation finds free ones unless
\* another was creating the same invoices (_next_invoice_number).
NumbersHold == NumbersUnique /\ GenerationFindsNumbers

\* An invoice that no two requests worked on at once fits its lines and payments,
\* and is not overpaid (_write_invoice_lines, record_payment).
InvoicesAddUp == PaymentsAddUp /\ OverpaidOnlyByOverlap /\ LinesAddUp /\ StatusTellsBalance

=============================================================================
