------------------------------ MODULE Admissions ------------------------------
(***************************************************************************)
(* Applications for a place: admission_service.py.  References are counted *)
(* and inserted later, one by one or for a list of which some rows fail;   *)
(* an application is read, checked and written back without a lock.        *)
(*                                                                         *)
(* References are those of one year.  Names, dates, interviews and reasons *)
(* of withdrawal are left out.                                             *)
(***************************************************************************)
EXTENDS Naturals, FiniteSets, Sequences

CONSTANTS
    References,     \* 1..n: reference numbers; the bound on applications
    Students, Reqs, None

VARIABLES
    book,           \* admission_applications: status and student, by reference
    handler,        \* what each request handler holds
    history         \* what the properties except

admissions == <<book, handler, history>>

-----------------------------------------------------------------------------
NoRequest == [op |-> "none", refs |-> {}, bad |-> FALSE, late |-> FALSE,
              ref |-> None, was |-> None, now |-> None]

\* The rows of admission_applications.
Rows == [status : {"application", "interview", "accepted", "enrolled", "withdrawn"},
         student : Students \cup {None}]

Transitions(status) ==
    CASE status = "application" -> {"interview", "withdrawn"}
      [] status = "interview" -> {"accepted", "withdrawn", "application"}
      [] status = "accepted" -> {"enrolled", "withdrawn", "interview"}
      [] status = "enrolled" -> {}
      [] status = "withdrawn" -> {"application"}

Applications == {r \in References : book[r] # None}

Count == Cardinality(Applications)

Fresh == [status |-> "application", student |-> None]

Init ==
    /\ book = [r \in References |-> None]
    /\ handler = [d \in Reqs |-> NoRequest]
    /\ history = [gap |-> FALSE, crossed |-> {}]

Close(d) == handler' = [handler EXCEPT ![d] = NoRequest]

-----------------------------------------------------------------------------
(* Registering                                                             *)

\* What was counted when each handler began; a row that fails keeps its number
\* from being used.
RegisterRead(d, rows) ==
    LET good == {i \in DOMAIN rows : rows[i]}
    IN  /\ handler[d] = NoRequest
        /\ Count + Len(rows) \in References
        /\ handler' = [handler EXCEPT ![d] =
               [NoRequest EXCEPT !.op = "register",
                                 !.refs = {Count + i : i \in good},
                                 !.bad = \E i \in DOMAIN rows \ good : \E j \in good : i < j]]
        /\ UNCHANGED <<book, history>>

\* A reference that is taken ends the transaction of the whole list.
RegisterCommit(d) ==
    LET h == handler[d]
    IN  /\ h.op = "register" /\ h.refs \cap Applications = {}
        /\ book' = [r \in References |-> IF r \in h.refs THEN Fresh ELSE book[r]]
        /\ handler' = [x \in Reqs |-> IF x = d THEN NoRequest
                                      ELSE [handler[x] EXCEPT !.late = @ \/ handler[x].op = "register"]]
        /\ history' = [history EXCEPT !.gap = @ \/ h.bad]

-----------------------------------------------------------------------------
(* Changing an application                                                 *)

Change(d, r, now) ==
    /\ handler[d] = NoRequest
    /\ handler' = [handler EXCEPT ![d] =
           [NoRequest EXCEPT !.op = "change", !.ref = r, !.was = book[r], !.now = now]]
    /\ history' = [history EXCEPT !.crossed = IF \E x \in Reqs : handler[x].ref = r
                                              THEN @ \cup {r} ELSE @]
    /\ UNCHANGED book

\* Only who has a student record is marked as enrolled.
UpdateRead(d, r, to) ==
    /\ to \in Transitions(book[r].status)
    /\ to = "enrolled" => book[r].student # None
    /\ Change(d, r, [book[r] EXCEPT !.status = to])

\* Any student may be linked, and another one later.
LinkRead(d, r, s) ==
    /\ book[r].status \in {"accepted", "enrolled"}
    /\ Change(d, r, [status |-> "enrolled", student |-> s])

\* The columns that differ from those read are written.
ChangeCommit(d) ==
    LET h == handler[d]
    IN  /\ h.op = "change"
        /\ book' = [book EXCEPT ![h.ref] =
               [k \in DOMAIN @ |-> IF h.now[k] = h.was[k] THEN @[k] ELSE h.now[k]]]
        /\ Close(d) /\ UNCHANGED history

\* A refusal, an error, a lost connection or a crash before the commit.
Abandon(d) == handler[d] # NoRequest /\ Close(d) /\ UNCHANGED <<book, history>>

Lists == {<<TRUE>>, <<TRUE, TRUE>>, <<FALSE, TRUE>>, <<TRUE, FALSE>>}
Next ==
    \E d \in Reqs :
        \/ \E rows \in Lists : RegisterRead(d, rows)
        \/ \E r \in Applications :
              \/ \E to \in Transitions(book[r].status) : UpdateRead(d, r, to)
              \/ \E s \in Students : LinkRead(d, r, s)
        \/ RegisterCommit(d) \/ ChangeCommit(d) \/ Abandon(d)

-----------------------------------------------------------------------------
(* Properties                                                              *)

TypeOK ==
    /\ \A r \in Applications : book[r] \in Rows
    /\ history.crossed \subseteq Applications

\* A registration finds its references free, unless another was committed since
\* it counted, or a row of a list that was imported earlier had failed.
ReferencesAreFree ==
    \A d \in Reqs : handler[d].refs \cap Applications # {} => handler[d].late \/ history.gap

\* Who is enrolled has a student record, and who has one is enrolled, unless two
\* changes of the application overlapped.
EnrolledHasStudent ==
    \A r \in Applications :
        /\ book[r].status = "enrolled" => book[r].student # None
        /\ book[r].student # None => book[r].status = "enrolled" \/ r \in history.crossed

\* Nobody who is enrolled is put back, unless two changes overlapped.
EnrolledStays ==
    \A r \in Applications \ history'.crossed :
        book[r].status = "enrolled" => book'[r].status = "enrolled"

=============================================================================
