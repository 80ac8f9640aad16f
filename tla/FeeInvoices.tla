----------------------------- MODULE FeeInvoices -----------------------------
(***************************************************************************)
(* Invoices and payments of a school: generate_invoices and                *)
(* record_payment of services/finance_service.py.                          *)
(*                                                                         *)
(* A generation reads the active structure, the registered students and    *)
(* the term's invoices, deletes the lines of the invoices it refreshes,    *)
(* inserts new invoices under fresh numbers and commits.  A payment reads  *)
(* its invoice, computes the new balance in Python and commits it.         *)
(* Attributes that keep their loaded value are not written.                *)
(*                                                                         *)
(* Which structure is active, and which students are registered, changes   *)
(* here as FeeStructures and term registration change it.                  *)
(***************************************************************************)
EXTENDS Naturals, FiniteSets, FiniteSetsExt

CONSTANTS
    Students,       \* numbers: the order in which the roster lists them
    Terms,
    TermNumber,     \* terms.term_number: 1..3, repeated every academic year
    Structs,
    FeesOf,         \* the lines of each structure, frozen once it is active
    Class, Residence,   \* of each student
    MaxStamp,       \* bound: generations of invoice lines that coexist
    MaxReceived,    \* bound: payments taken for an invoice
    Reqs,           \* request handlers that may be in flight at once
    None

VARIABLES
    active,     \* the term's active structure
    roster,     \* students with a completed registration, per term
    invoice,    \* fee_invoices
    lines,      \* fee_invoice_lines: a fee and the stamp of its insertion
    received,   \* sum of the fee_payments of an invoice
    clashed,    \* history: a unique constraint refused a generation none of whose
                \* invoices another request was working on
    raced,      \* history: invoices two requests have worked on at once
    req         \* what each request handler holds

vars == <<active, roster, invoice, lines, received, clashed, raced, req>>

Bills == Students \X Terms
Of(t) == {b \in Bills : b[2] = t}

\* A row of fee_invoices.
Invoices == [total : Nat, paid : Nat, status : {"unpaid", "partial", "paid"}, number : Nat \X Nat]

-----------------------------------------------------------------------------
(* Amounts                                                                 *)

\* _line_applies, and not optional.
Applies(f, s) ==
    /\ ~f.optional
    /\ \/ f.applies = "all"
       \/ f.applies = "class_level" /\ f.level = Class[s] /\ Class[s] # None
       \/ f.applies \in {"day", "boarder"} /\ Residence[s] = f.applies

Applicable(struct, s) == {f \in FeesOf[struct] : Applies(f, s)}

Amount(fees) == MapThenSumSet(LAMBDA f : f.amount, fees)

\* Faulty: a part payment makes an invoice overdue.
InvoiceStatusOverdue(total, paid) ==
    CASE paid = 0             -> "unpaid"
      [] paid > 0 /\ paid >= total -> "paid"
      [] OTHER                -> "overdue"

\* _invoice_status; no operation ever sets "waived".
InvoiceStatus(total, paid) ==
    CASE paid = 0             -> "unpaid"
      [] paid > 0 /\ paid >= total -> "paid"
      [] OTHER                -> "partial"

FreshStatus(total) == IF total > 0 THEN "unpaid" ELSE "paid"

\* What commits when an attribute is set: nothing if it keeps its loaded value.
Written(loaded, value, current) == IF value = loaded THEN current ELSE value

-----------------------------------------------------------------------------
(* Requests                                                                *)

NoSnapshot == [b \in Bills |-> None]

Idle == [at |-> "idle", term |-> None, refresh |-> FALSE, struct |-> None,
         create |-> {}, renew |-> {}, loaded |-> NoSnapshot, target |-> {}, numbers |-> {},
         bill |-> None, amount |-> 0]

\* Lines are rows: those inserted together share a stamp nobody else uses.
Stamps == 1..MaxStamp
UsedStamps == {l[2] : l \in UNION {lines[b] : b \in Bills}}
              \cup {l[3] : l \in UNION {req[r].target : r \in Reqs}}
FreeStamps == Stamps \ UsedStamps

Number(t, k) == <<TermNumber[t], k>>
NumbersInUse == {invoice[b].number : b \in {c \in Bills : invoice[c] # None}}

\* _next_invoice_number, one after another in roster order.
NumberFor(r, b) ==
    LET before == {c \in Of(req[r].term) : invoice[c] # None}
        earlier == {c \in req[r].create : c[1] <= b[1]}
    IN  Number(req[r].term, Cardinality(before) + Cardinality(earlier))

Init ==
    /\ active = [t \in Terms |-> None]
    /\ roster = [t \in Terms |-> {}]
    /\ invoice = [b \in Bills |-> None]
    /\ lines = [b \in Bills |-> {}]
    /\ received = [b \in Bills |-> 0]
    /\ clashed = FALSE /\ raced = {}
    /\ req = [r \in Reqs |-> Idle]

ledger == <<invoice, lines, received>>
setting == <<active, roster>>
history == <<clashed, raced>>

\* Request r starts to work on some invoices; others may be at work on them.
Touched(r) == req[r].create \cup req[r].renew \cup ({req[r].bill} \ {None})
Touch(r, bills) ==
    raced' = raced \cup (bills \cap UNION {Touched(q) : q \in Reqs \ {r}})

-----------------------------------------------------------------------------
(* Faulty variants: what the properties must catch.                        *)

\* The payment that completes an invoice sets the total as paid.
PayCommitRounds(r) ==
    /\ req[r].at = "paying"
    /\ LET b == req[r].bill
           old == req[r].loaded[b]
           paid == old.total
       IN  /\ invoice' = [invoice EXCEPT ![b].paid = paid,
                             ![b].status = Written(old.status, InvoiceStatus(old.total, paid), @)]
           /\ received' = [received EXCEPT ![b] = @ + req[r].amount]
    /\ req' = [req EXCEPT ![r] = Idle]
    /\ UNCHANGED <<setting, lines, history>>

\* Lines of a refreshed invoice are not deleted first.
DeleteNothing(r) ==
    /\ req[r].at = "read"
    /\ req' = [req EXCEPT ![r].at = "deleting"]
    /\ UNCHANGED <<setting, ledger, history>>

\* No unique constraint on invoice numbers.
IssueUnconstrained(r) ==
    /\ req[r].at = "deleted"
    /\ req' = [req EXCEPT ![r].at = "issued",
                          ![r].numbers = {<<b, NumberFor(r, b)>> : b \in req[r].create}]
    /\ UNCHANGED <<setting, ledger, history>>

-----------------------------------------------------------------------------
(* The setting                                                             *)

\* FeeStructures!ActivateCommit, serial.
Activate(t, s) ==
    /\ active[t] # s /\ \A u \in Terms \ {t} : active[u] # s
    /\ active' = [active EXCEPT ![t] = s]
    /\ UNCHANGED <<roster, ledger, history, req>>

Register(t, s) ==
    /\ s \notin roster[t]
    /\ roster' = [roster EXCEPT ![t] = @ \cup {s}]
    /\ UNCHANGED <<active, ledger, history, req>>

-----------------------------------------------------------------------------
(* generate_invoices                                                       *)

ReadStructure(r, t, refresh) ==
    /\ req[r].at = "idle"
    /\ active[t] # None
    /\ req' = [req EXCEPT ![r] = [Idle EXCEPT !.at = "structure", !.term = t,
                                     !.refresh = refresh, !.struct = active[t]]]
    /\ UNCHANGED <<setting, ledger, history>>

\* The registered students and the term's invoices: an invoice that is there
\* is renewed or skipped, the others are created.
ReadInvoices(r) ==
    /\ req[r].at = "structure"
    /\ LET t == req[r].term
           due == {b \in Of(t) : b[1] \in roster[t]}
           renew == {b \in due : /\ req[r].refresh /\ invoice[b] # None
                                 /\ invoice[b].paid = 0 /\ invoice[b].status = "unpaid"}
           create == {b \in due : invoice[b] = None}
       IN  /\ req' = [req EXCEPT ![r] =
                     IF due = {} THEN Idle
                     ELSE [@ EXCEPT !.at = "read", !.renew = renew, !.create = create,
                              !.loaded = [b \in Bills |-> IF b \in renew THEN invoice[b] ELSE None]]]
           /\ Touch(r, create \cup renew)
    /\ UNCHANGED <<setting, ledger, clashed>>

\* _write_invoice_lines: the DELETE sees the committed rows ...
Delete(r) ==
    /\ req[r].at = "read"
    /\ req' = [req EXCEPT ![r].at = "deleting",
                  ![r].target = UNION {{<<b, l[1], l[2]>> : l \in lines[b]} : b \in req[r].renew}]
    /\ UNCHANGED <<setting, ledger, history>>

\* ... waits for whoever is deleting one of them, then holds their locks.
DeleteLocks(r) ==
    /\ req[r].at = "deleting"
    /\ \A q \in Reqs \ {r} : req[q].at \in {"deleted", "issued"} =>
          req[q].target \cap req[r].target = {}
    /\ req' = [req EXCEPT ![r].at = "deleted"]
    /\ UNCHANGED <<setting, ledger, history>>

\* The flushed inserts wait for an open insert of the same number or invoice,
\* and fail on a committed one: the request ends with an integrity error.
Issue(r) ==
    /\ req[r].at = "deleted"
    /\ LET mine == {<<b, NumberFor(r, b)>> : b \in req[r].create}
           Clash(x, y) == x[1] = y[1] \/ x[2] = y[2]
           refused == \E x \in mine : invoice[x[1]] # None \/ x[2] \in NumbersInUse
       IN  /\ \A q \in Reqs \ {r} : req[q].at = "issued" =>
                 \A x \in mine, y \in req[q].numbers : ~Clash(x, y)
           /\ clashed' = (clashed \/ (refused /\ req[r].create \cap raced = {}))
           /\ req' = [req EXCEPT ![r] = IF refused THEN Idle
                                        ELSE [@ EXCEPT !.at = "issued", !.numbers = mine]]
    /\ UNCHANGED <<setting, ledger, raced>>

GenerateCommit(r) ==
    /\ req[r].at = "issued"
    /\ \E stamp \in FreeStamps :
       /\ \A other \in FreeStamps : stamp <= other
       /\ LET Due(b) == Applicable(req[r].struct, b[1])
              Total(b) == Amount(Due(b))
              NumberOf(b) == (CHOOSE x \in req[r].numbers : x[1] = b)[2]
              New(b) == [total |-> Total(b), paid |-> 0, status |-> FreshStatus(Total(b)),
                         number |-> NumberOf(b)]
              Renewed(b) ==
                  [invoice[b] EXCEPT
                      !.total = Written(req[r].loaded[b].total, Total(b), @),
                      !.status = Written(req[r].loaded[b].status, FreshStatus(Total(b)), @)]
              Gone(b) == {<<x[2], x[3]>> : x \in {y \in req[r].target : y[1] = b}}
          IN  /\ invoice' = [b \in Bills |-> IF b \in req[r].create THEN New(b)
                                             ELSE IF b \in req[r].renew THEN Renewed(b)
                                             ELSE invoice[b]]
              /\ lines' = [b \in Bills |->
                             IF b \in req[r].create \cup req[r].renew
                             THEN (lines[b] \ Gone(b)) \cup {<<f, stamp>> : f \in Due(b)}
                             ELSE lines[b]]
    /\ req' = [req EXCEPT ![r] = Idle]
    /\ UNCHANGED <<setting, received, history>>

-----------------------------------------------------------------------------
(* record_payment                                                          *)

PayRead(r, b, amount) ==
    /\ req[r].at = "idle"
    /\ invoice[b] # None
    /\ amount <= invoice[b].total - invoice[b].paid
    /\ received[b] + amount <= MaxReceived
    /\ req' = [req EXCEPT ![r] = [Idle EXCEPT !.at = "paying", !.bill = b, !.amount = amount,
                                     !.loaded = [NoSnapshot EXCEPT ![b] = invoice[b]]]]
    /\ Touch(r, {b})
    /\ UNCHANGED <<setting, ledger, clashed>>

\* One payment row, and the amounts computed from the loaded invoice.
PayCommit(r) ==
    /\ req[r].at = "paying"
    /\ LET b == req[r].bill
           old == req[r].loaded[b]
           paid == old.paid + req[r].amount
       IN  /\ invoice' = [invoice EXCEPT ![b].paid = paid,
                             ![b].status = Written(old.status, InvoiceStatus(old.total, paid), @)]
           /\ received' = [received EXCEPT ![b] = @ + req[r].amount]
    /\ req' = [req EXCEPT ![r] = Idle]
    /\ UNCHANGED <<setting, lines, history>>

\* An error, a lost connection or a crash before the commit.
Rollback(r) ==
    /\ req[r].at # "idle"
    /\ req' = [req EXCEPT ![r] = Idle]
    /\ UNCHANGED <<setting, ledger, history>>

-----------------------------------------------------------------------------
MaxTotal == Max({Amount(FeesOf[s]) : s \in Structs})

Next ==
    \/ \E t \in Terms : \/ \E s \in Structs : Activate(t, s)
                        \/ \E s \in Students : Register(t, s)
    \/ \E r \in Reqs :
          \/ \E t \in Terms, refresh \in BOOLEAN : ReadStructure(r, t, refresh)
          \/ ReadInvoices(r) \/ Delete(r) \/ DeleteLocks(r) \/ Issue(r) \/ GenerateCommit(r)
          \/ \E b \in Bills, amount \in 1..MaxTotal : PayRead(r, b, amount)
          \/ PayCommit(r) \/ Rollback(r)

Spec == Init /\ [][Next]_vars

-----------------------------------------------------------------------------
(* Properties                                                              *)

Issued == {b \in Bills : invoice[b] # None}

\* Invoices hold amounts, a status and a number; only invoices have lines.
TypeOK ==
    /\ active \in [Terms -> Structs \cup {None}]
    /\ roster \in [Terms -> SUBSET Students]
    /\ \A b \in Issued : /\ invoice[b].total \in Nat /\ invoice[b].paid \in Nat
                         /\ invoice[b].status \in {"unpaid", "partial", "paid"}
                         /\ invoice[b].number \in {Number(b[2], k) : k \in 1..Cardinality(Bills)}
    /\ \A b \in Bills \ Issued : lines[b] = {} /\ received[b] = 0

\* However payments and refreshes overlap, an invoice never shows more paid
\* than was received.
PaidWasReceived == \A b \in Issued : invoice[b].paid <= received[b]

\* No two invoices of the school carry the same number, within a term or
\* across academic years, however generations overlap.
NumbersUnique ==
    \A b, c \in Issued : invoice[b].number = invoice[c].number => b = c

\* The properties below hold of every invoice that no two requests have worked
\* on at once.
Alone == Issued \ raced

\* amount_paid_ugx is the sum of the recorded payments (record_payment).
PaymentsAddUp == \A b \in Alone : invoice[b].paid = received[b]

\* The lines of an invoice add up to its total (_write_invoice_lines returns
\* the total of the lines it writes).
LinesAddUp ==
    \A b \in Alone : MapThenSumSet(LAMBDA l : l[1].amount, lines[b]) = invoice[b].total

\* The status tells how much of the total is paid, across refreshes and payments.
StatusTellsBalance ==
    \A b \in Alone : LET i == invoice[b] IN
        /\ i.status = "paid" <=> i.paid >= i.total
        /\ i.status = "unpaid" => i.paid = 0
        /\ i.status = "partial" => i.paid > 0

\* Payments exceed a total only when requests on the invoice overlapped.
OverpaidOnlyByOverlap == \A b \in Alone : received[b] <= invoice[b].total

\* A generation is refused by a unique constraint only when another was
\* creating the same invoices: else it finds a free number for every student.
GenerationFindsNumbers == ~clashed

\* The payments of an invoice never exceed its total (record_payment:
\* "Payment exceeds outstanding balance").
NeverOverpaid == \A b \in Issued : received[b] <= invoice[b].total

=============================================================================
