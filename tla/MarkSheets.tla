------------------------------ MODULE MarkSheets -----------------------------
(***************************************************************************)
(* The marks of one subject in an assessment set: assessment_service.py.   *)
(* Teachers save or import marks while the set is open, which is looked up *)
(* before the marks are read, and administrators open, close, resize and   *)
(* delete it.                                                              *)
(*                                                                         *)
(* Which teacher may enter, and for whom, only refuses; competence levels, *)
(* averages and grades are left out.                                       *)
(***************************************************************************)
EXTENDS Naturals

CONSTANTS
    Students, Marks,    \* marks, and what a set is marked out of
    Reqs, None

VARIABLES
    book,           \* assessment_sets, student_assessment_marks
    handler,        \* what each request handler holds
    history         \* what the properties except

sheets == <<book, handler, history>>

-----------------------------------------------------------------------------
NoRequest == [op |-> "none", was |-> None, now |-> None]
Unmarked == [s \in Students |-> None]
Set == [status |-> "draft", max |-> 1, live |-> TRUE]

Init ==
    /\ book = [set |-> Set, marks |-> Unmarked]
    /\ handler = [d \in Reqs |-> NoRequest]
    /\ history = [crossed |-> FALSE, lowered |-> FALSE]

Close(d) == handler' = [handler EXCEPT ![d] = NoRequest]

Hold(d, op, was, now) ==
    /\ handler[d] = NoRequest
    /\ handler' = [handler EXCEPT ![d] = [op |-> op, was |-> was, now |-> now]]
    /\ history' = [history EXCEPT !.crossed = @ \/ \E x \in Reqs : handler[x] # NoRequest]
    /\ UNCHANGED book

-----------------------------------------------------------------------------
(* A faulty variant, what the properties must catch: marks are taken into   *)
(* any set that is not a draft.                                            *)
TakesMarksLate == book.set.live /\ book.set.status # "draft"

-----------------------------------------------------------------------------
(* Requests                                                                *)

TakesMarks == book.set.live /\ book.set.status = "open"
Fits(mark) == mark <= book.set.max

\* now: marks for some learners; a list is refused for one that does not fit, an
\* import leaves out its row.
SaveRead(d, now) ==
    /\ TakesMarks /\ \A s \in DOMAIN now : Fits(now[s])
    /\ Hold(d, "save", book.marks, now)

\* One mark per learner; a score that differs from the one read is written.
SaveCommit(d) ==
    LET h == handler[d]
    IN  /\ h.op = "save"
        /\ \A s \in DOMAIN h.now : h.was[s] = None => book.marks[s] = None
        /\ book' = [book EXCEPT !.marks =
               [s \in Students |-> IF s \in DOMAIN h.now /\ h.now[s] # h.was[s] THEN h.now[s] ELSE @[s]]]
        /\ Close(d) /\ UNCHANGED history

\* Opened, closed, put back to draft or marked out of something else.
EditRead(d, now) == book.set.live /\ Hold(d, "edit", book.set, now)

EditCommit(d) ==
    LET h == handler[d]
        set == [k \in DOMAIN h.now |-> IF h.now[k] = h.was[k] THEN book.set[k] ELSE h.now[k]]
    IN  /\ h.op = "edit"
        /\ book' = [book EXCEPT !.set = set]
        /\ history' = [history EXCEPT !.lowered = @ \/ set.max < book.set.max]
        /\ Close(d)

\* A refusal, an error, a lost connection or a crash before the commit.
Abandon(d) == handler[d] # NoRequest /\ Close(d) /\ UNCHANGED <<book, history>>

Statuses == {"draft", "open", "closed"}
Next ==
    \E d \in Reqs :
        \/ \E S \in SUBSET Students \ {{}} : \E now \in [S -> Marks] : SaveRead(d, now)
        \/ \E to \in Statuses, max \in Marks \ {0} :
              EditRead(d, [book.set EXCEPT !.status = to, !.max = max])
        \/ EditRead(d, [book.set EXCEPT !.live = FALSE])
        \/ SaveCommit(d) \/ EditCommit(d) \/ Abandon(d)

-----------------------------------------------------------------------------
(* Properties                                                              *)

TypeOK ==
    /\ book.set \in [status : Statuses, max : Marks \ {0}, live : BOOLEAN]
    /\ book.marks \in [Students -> Marks \cup {None}]

\* No mark is higher than what the set is marked out of, unless that was lowered
\* or two requests overlapped.
MarksFit ==
    \A s \in Students : book.marks[s] # None =>
        book.marks[s] <= book.set.max \/ history.lowered \/ history.crossed

\* The marks of a set that is closed or still a draft stay, unless two requests
\* overlapped ("This assessment set is not open for mark entry.").
ClosedStays ==
    book.set.status # "open" /\ ~history.crossed => book'.marks = book.marks

=============================================================================
