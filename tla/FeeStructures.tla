---------------------------- MODULE FeeStructures ----------------------------
(***************************************************************************)
(* Fee structures of a school: services/finance_service.py from            *)
(* create_structure to delete_structure_line.                              *)
(*                                                                         *)
(* Each operation loads the structure with its lines, checks that it is a  *)
(* draft, and commits its writes later; no row is locked in between.  What *)
(* a line charges is one value of Fees; name, due date and notes are one   *)
(* value of Heads.                                                         *)
(***************************************************************************)
CONSTANTS
    Structs,    \* fee structures that can ever be created
    Terms,
    Slots,      \* bound: rows of fee_structure_lines per structure
    Fees,       \* contents of a line
    Heads,      \* contents of the structure's own columns
    Reqs,       \* request handlers that may be in flight at once
    None

VARIABLES
    status,     \* "none" (no row), "draft", "active", "archived"
    term, head, \* fee_structures.term_id and the edited columns
    lines,      \* fee_structure_lines of each structure
    req,        \* what each request handler holds
    raced       \* history: terms two requests have worked on at once

vars == <<status, term, head, lines, req, raced>>

-----------------------------------------------------------------------------
Idle == [op |-> "idle", s |-> None, slot |-> None, value |-> None, archives |-> None]

LineOps == {"add", "edit", "delete"}
Requests == [op : {"idle", "head", "activate"} \cup LineOps,
             s : Structs \cup {None}, slot : Slots \cup {None},
             value : Fees \cup Heads \cup {None}, archives : Structs \cup {None}]

SameTerm(s) == {x \in Structs : term[x] = term[s]}

Hold(r, request) ==
    /\ req[r] = Idle
    /\ req' = [req EXCEPT ![r] = request]
    /\ raced' = raced \cup {term[s] : s \in {req[q].s : q \in Reqs} \cap SameTerm(request.s)}
    /\ UNCHANGED <<status, term, head, lines>>

Done(r) == req' = [req EXCEPT ![r] = Idle] /\ UNCHANGED raced

HasLines(s) == \E i \in Slots : lines[s][i] # None
ActiveIn(t) == {s \in Structs : status[s] = "active" /\ term[s] = t}
OfTerm(s) == ActiveIn(term[s]) \ {s}

Init ==
    /\ status = [s \in Structs |-> "none"]
    /\ term = [s \in Structs |-> None]
    /\ head = [s \in Structs |-> None]
    /\ lines = [s \in Structs |-> [i \in Slots |-> None]]
    /\ req = [r \in Reqs |-> Idle]
    /\ raced = {}

-----------------------------------------------------------------------------
(* Faulty variants: what the properties must catch.                        *)

\* Lines of any structure may be edited.
LineReadAny(r, op, s, i, f) ==
    /\ status[s] # "none"
    /\ (op = "add") <=> lines[s][i] = None
    /\ Hold(r, [Idle EXCEPT !.op = op, !.s = s, !.slot = i, !.value = f])

\* Activation leaves the term's other structure active.
ActivateCommitKeeps(r) ==
    /\ req[r].op = "activate"
    /\ status' = [status EXCEPT ![req[r].s] = "active"]
    /\ Done(r) /\ UNCHANGED <<term, head, lines>>

-----------------------------------------------------------------------------
(* Operations                                                              *)

Create(s, t, h) ==
    /\ status[s] = "none"
    /\ status' = [status EXCEPT ![s] = "draft"]
    /\ term' = [term EXCEPT ![s] = t]
    /\ head' = [head EXCEPT ![s] = h]
    /\ UNCHANGED <<lines, req, raced>>

HeadRead(r, s, h) ==
    /\ status[s] = "draft"
    /\ Hold(r, [Idle EXCEPT !.op = "head", !.s = s, !.value = h])

HeadCommit(r) ==
    /\ req[r].op = "head"
    /\ head' = [head EXCEPT ![req[r].s] = req[r].value]
    /\ Done(r) /\ UNCHANGED <<status, term, lines>>

\* add_structure_line, update_structure_line and delete_structure_line; the row
\* an added line will get stands for its fresh primary key.
LineRead(r, op, s, i, f) ==
    /\ status[s] = "draft"
    /\ (op = "add") <=> lines[s][i] = None
    /\ op = "add" => \A q \in Reqs : req[q].op = "add" => <<req[q].s, req[q].slot>> # <<s, i>>
    /\ Hold(r, [Idle EXCEPT !.op = op, !.s = s, !.slot = i, !.value = f])

\* An UPDATE of a row that is gone raises, a DELETE of it does nothing.
LineCommit(r) ==
    /\ req[r].op \in LineOps
    /\ LET s == req[r].s
           i == req[r].slot
       IN  lines' = CASE req[r].op = "add" -> [lines EXCEPT ![s][i] = req[r].value]
                      [] req[r].op = "edit" ->
                            IF lines[s][i] = None THEN lines
                            ELSE [lines EXCEPT ![s][i] = req[r].value]
                      [] req[r].op = "delete" -> [lines EXCEPT ![s][i] = None]
    /\ Done(r) /\ UNCHANGED <<status, term, head>>

\* The draft, its lines and one other active structure of the term are read.
ActivateRead(r, s) ==
    /\ status[s] = "draft" /\ HasLines(s)
    /\ \/ OfTerm(s) = {} /\ Hold(r, [Idle EXCEPT !.op = "activate", !.s = s])
       \/ \E a \in OfTerm(s) :
             Hold(r, [Idle EXCEPT !.op = "activate", !.s = s, !.archives = a])

ActivateCommit(r) ==
    /\ req[r].op = "activate"
    /\ status' = [x \in Structs |-> CASE x = req[r].s -> "active"
                                      [] x = req[r].archives -> "archived"
                                      [] OTHER -> status[x]]
    /\ Done(r) /\ UNCHANGED <<term, head, lines>>

\* An error, a lost connection or a crash before the commit.
Rollback(r) ==
    /\ req[r] # Idle
    /\ Done(r) /\ UNCHANGED <<status, term, head, lines>>

Next ==
    \/ \E s \in Structs, t \in Terms, h \in Heads : Create(s, t, h)
    \/ \E r \in Reqs :
          \/ \E s \in Structs :
                \/ \E h \in Heads : HeadRead(r, s, h)
                \/ \E i \in Slots :
                      \/ \E op \in {"add", "edit"}, f \in Fees : LineRead(r, op, s, i, f)
                      \/ LineRead(r, "delete", s, i, None)
                \/ ActivateRead(r, s)
          \/ HeadCommit(r) \/ LineCommit(r) \/ ActivateCommit(r) \/ Rollback(r)

Spec == Init /\ [][Next]_vars

-----------------------------------------------------------------------------
(* Properties                                                              *)

\* A structure that exists has a term and columns, lines hold fees.
TypeOK ==
    /\ status \in [Structs -> {"none", "draft", "active", "archived"}]
    /\ \A s \in Structs : status[s] # "none" => term[s] \in Terms /\ head[s] \in Heads
    /\ lines \in [Structs -> [Slots -> Fees \cup {None}]]
    /\ req \in [Reqs -> Requests]

\* Once a term has an active fee structure it always has one, whatever
\* activations overlap: generate_invoices never finds the term without.
PricedStays == \A t \in Terms : ActiveIn(t) # {} => ActiveIn(t)' # {}

\* The properties below hold as long as no two requests have worked on a term's
\* structures at once.
Alone == {s \in Structs : status[s] # "none" /\ term[s] \notin raced}

\* A term has at most one active fee structure (activate_structure archives
\* the active one it finds).
OneActivePerTerm == \A t \in Terms \ raced : \A a, b \in ActiveIn(t) : a = b

\* A structure that was activated has at least one line (activate_structure:
\* "Add at least one fee line before activating.").
ActivatedHasLines == \A s \in Alone : status[s] \in {"active", "archived"} => HasLines(s)

\* Lines and columns of a structure never change once it has been activated
\* (the "Only draft" refusals of the six editing operations).
FrozenStays ==
    \A s \in Alone : status[s] \in {"active", "archived"} =>
        lines'[s] = lines[s] /\ head'[s] = head[s]

=============================================================================
