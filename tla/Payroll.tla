------------------------------- MODULE Payroll -------------------------------
(***************************************************************************)
(* The pay of one month, and asking for leave: hr_payroll_service.py.  A   *)
(* run is computed, any number of times, from the salaries of the moment,  *)
(* and finalized.  Computing deletes its lines at once, reads the          *)
(* salaries, and inserts the new lines with its commit.                    *)
(*                                                                         *)
(* A line is known by the salary it was computed from, and the totals by   *)
(* the gross: taxes and net pay are functions of them.  Leave requests are *)
(* never reviewed here: none can come to exist (LeaveIsGranted).           *)
(***************************************************************************)
EXTENDS Naturals, FiniteSets

CONSTANTS
    Staff, Salaries,    \* salaries; 0: no active profile
    MaxSeeds,           \* bound on the times leave types are seeded
    Reqs, None

VARIABLES
    book,           \* salaries, the run and its lines, leave_types
    handler,        \* what each request handler holds
    history         \* what the properties except, and what clients were told

payroll == <<book, handler, history>>

-----------------------------------------------------------------------------
Nobody == [e \in Staff |-> 0]
NoRun == [status |-> "none", total |-> 0, count |-> 0]
NoRequest == [op |-> "none", was |-> NoRun, cleared |-> {}, pay |-> Nobody]

Paid(lines) == {e \in Staff : lines[e] > 0}
Sum(lines) ==
    LET sum[E \in SUBSET Staff] ==
            IF E = {} THEN 0 ELSE LET e == CHOOSE e \in E : TRUE IN lines[e] + sum[E \ {e}]
    IN  sum[Staff]

Init ==
    /\ book = [salary |-> Nobody, run |-> NoRun, lines |-> Nobody, types |-> None]
    /\ handler = [d \in Reqs |-> NoRequest]
    /\ history = [crossed |-> FALSE, seeds |-> 0, listed |-> None, refused |-> FALSE]

Close(d) == handler' = [handler EXCEPT ![d] = NoRequest]

-----------------------------------------------------------------------------
(* Faulty variants: what the properties must catch.                        *)

\* The lines of who is no longer paid are kept.
LinesAfterKept(h) == [e \in Staff |-> IF h.pay[e] > 0 THEN h.pay[e] ELSE book.lines[e]]

-----------------------------------------------------------------------------
(* Salaries and the run                                                    *)

SetSalary(e, s) ==
    /\ book.salary[e] # s
    /\ book' = [book EXCEPT !.salary[e] = s]
    /\ UNCHANGED <<handler, history>>

Begin(d, op) ==
    /\ handler[d] = NoRequest
    /\ handler' = [handler EXCEPT ![d] = [NoRequest EXCEPT !.op = op, !.was = book.run]]
    /\ history' = [history EXCEPT !.crossed = @ \/ \E x \in Reqs : handler[x] # NoRequest]
    /\ UNCHANGED book

\* A run is created by its first computation.
ComputeRead(d) == book.run.status # "finalized" /\ Begin(d, "clear")

\* The DELETE sees the lines of its moment.
Clear(d) ==
    /\ handler[d].op = "clear"
    /\ handler' = [handler EXCEPT ![d].op = "count",
                                  ![d].cleared = IF handler[d].was = NoRun THEN {} ELSE Paid(book.lines)]
    /\ UNCHANGED <<book, history>>

\* It waits for whoever else has deleted one of them.
ReadSalaries(d) ==
    /\ handler[d].op = "count"
    /\ \A x \in Reqs : handler[x].op = "compute" => handler[x].cleared \cap handler[d].cleared = {}
    /\ handler' = [handler EXCEPT ![d].op = "compute", ![d].pay = book.salary]
    /\ UNCHANGED <<book, history>>

LinesAfter(h) ==
    [e \in Staff |-> IF h.pay[e] > 0 THEN h.pay[e]
                     ELSE IF e \in h.cleared THEN 0 ELSE book.lines[e]]

\* A run is one per month, and its lines one per member of staff; totals are
\* written where they differ from those read.
ComputeCommit(d) ==
    LET h == handler[d]
        total == Sum(h.pay)
        count == Cardinality(Paid(h.pay))
    IN  /\ h.op = "compute"
        /\ h.was = NoRun => book.run = NoRun
        /\ Paid(h.pay) \cap Paid(book.lines) \subseteq h.cleared
        /\ book' = [book EXCEPT
               !.lines = LinesAfter(h),
               !.run.status = IF @ = "none" THEN "draft" ELSE @,
               !.run.total = IF total = h.was.total THEN @ ELSE total,
               !.run.count = IF count = h.was.count THEN @ ELSE count]
        /\ handler' = [x \in Reqs |-> IF x = d THEN NoRequest
                                      ELSE [handler[x] EXCEPT !.cleared = @ \ h.cleared]]
        /\ UNCHANGED history

FinalizeRead(d) == book.run.status = "draft" /\ book.run.count > 0 /\ Begin(d, "finalize")

FinalizeCommit(d) ==
    /\ handler[d].op = "finalize"
    /\ book' = [book EXCEPT !.run.status = "finalized"]
    /\ Close(d) /\ UNCHANGED history

\* A refusal, an error, a lost connection or a crash before the commit.
Abandon(d) == handler[d] # NoRequest /\ Close(d) /\ UNCHANGED <<book, history>>

-----------------------------------------------------------------------------
(* Leave                                                                   *)

\* ensure_leave_types: the types in the table, or new ones for this transaction.
EnsuredTypes == IF book.types = None THEN history.seeds + 1 ELSE book.types
Seeding == book.types = None => history.seeds < MaxSeeds

\* Nobody commits what a listing has seeded.
ListLeaveTypes ==
    /\ Seeding
    /\ history' = [history EXCEPT !.seeds = IF book.types = None THEN @ + 1 ELSE @,
                                  !.listed = EnsuredTypes]
    /\ UNCHANGED <<book, handler>>

\* A request names a type that was listed; an unknown one is refused, and what was
\* seeded before it was looked up goes with the refusal.
AskForLeave ==
    /\ Seeding /\ history.listed # None
    /\ LET known == history.listed = EnsuredTypes
       IN  /\ book' = IF known THEN [book EXCEPT !.types = EnsuredTypes] ELSE book
           /\ history' = [history EXCEPT !.seeds = IF book.types = None THEN @ + 1 ELSE @,
                                         !.refused = @ \/ ~known]
    /\ UNCHANGED handler

Next ==
    \/ \E e \in Staff, s \in Salaries : SetSalary(e, s)
    \/ \E d \in Reqs :
          \/ ComputeRead(d) \/ Clear(d) \/ ReadSalaries(d) \/ ComputeCommit(d)
          \/ FinalizeRead(d) \/ FinalizeCommit(d) \/ Abandon(d)
    \/ ListLeaveTypes \/ AskForLeave

Spec == Init /\ [][Next]_payroll

-----------------------------------------------------------------------------
(* Properties                                                              *)

TypeOK ==
    /\ book.salary \in [Staff -> Salaries] /\ book.lines \in [Staff -> Salaries]
    /\ book.run.status \in {"none", "draft", "finalized"}
    /\ book.run.status = "none" => book.run = NoRun /\ Paid(book.lines) = {}

\* The totals of a run are those of its lines, unless two requests worked on it
\* at once; salaries may change at any time.
RunAddsUp ==
    ~history.crossed =>
        /\ book.run.total = Sum(book.lines)
        /\ book.run.count = Cardinality(Paid(book.lines))

\* A finalized run and its lines stay as they are, unless two requests worked on
\* it at once ("Finalized payroll cannot be recomputed").
FinalizedStays ==
    book.run.status = "finalized" /\ ~history.crossed =>
        book'.run = book.run /\ book'.lines = book.lines

\* Leave of a type that was listed can be asked for (test_hr_payroll.py,
\* test_leave_request_flow).
LeaveIsGranted == ~history.refused

=============================================================================
