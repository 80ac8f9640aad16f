------------------------------ MODULE SchoolRow -------------------------------
(***************************************************************************)
(* The row of a school: its profile, edited by the school and the platform *)
(* against a version (routers/tenant/school.py, routers/platform/          *)
(* schools.py), and the running number of its learners, allocated under a  *)
(* lock of the row (student_number_service.py) by enrolments and imports.  *)
(*                                                                         *)
(* The profile is known by a stamp, new with every change.  The prefix is  *)
(* apart from it: the first enrolment assigns one without a new version.   *)
(***************************************************************************)
EXTENDS Naturals, FiniteSets

CONSTANTS
    Prefixes,       \* prefixes of student numbers
    MaxNumber,      \* bound on the running number
    MaxStamp,       \* bound on the changes of the profile
    Reqs, None

VARIABLES
    book,           \* the row, and the numbers of its learners
    handler,        \* what each request handler holds
    history         \* pages shown to editors, numbers given, what is excepted

school == <<book, handler, history>>

-----------------------------------------------------------------------------
NoRequest == [op |-> "none", version |-> 0, prefix |-> None, next |-> 0, numbers |-> {}]
Edits == {"school", "platform", "badge"}

\* Faulty variants, what the properties must catch: a new badge leaves the version
\* as it is, and the row is read without FOR UPDATE.
BumpButBadge(op) == CASE op = "badge" -> 0 [] op = "school" -> 2 [] op = "platform" -> 1
UnlockedAlways(d) == TRUE

\* The school's own route counts twice.
Bump(op) == IF op = "school" THEN 2 ELSE 1

Shown == [version |-> book.version, stamp |-> book.stamp]

\* Numbers were entered by hand before they were generated.
Init ==
    /\ \E byHand \in SUBSET [prefix : Prefixes, seq : {1}] :
          book = [version |-> 1, stamp |-> 0, prefix |-> None, next |-> 1, taken |-> byHand]
    /\ handler = [d \in Reqs |-> NoRequest]
    /\ history = [page |-> [d \in Reqs |-> Shown], given |-> {}, crossed |-> FALSE]

Close(d) == handler' = [handler EXCEPT ![d] = NoRequest]

\* The row is locked from the first number to the commit.
Unlocked(d) == \A x \in Reqs \ {d} : handler[x].op # "enrol"

-----------------------------------------------------------------------------
(* Numbers                                                                 *)

\* The running number goes on over numbers that are taken.
Generate(d, row) ==
    \E prefix \in IF row.prefix = None THEN Prefixes ELSE {row.prefix}, seq \in row.next..MaxNumber :
        /\ [prefix |-> prefix, seq |-> seq] \notin book.taken \cup row.numbers
        /\ \A s \in row.next..(seq - 1) : [prefix |-> prefix, seq |-> s] \in book.taken \cup row.numbers
        /\ handler' = [handler EXCEPT ![d] =
               [NoRequest EXCEPT !.op = "enrol", !.prefix = prefix, !.next = seq + 1,
                                 !.numbers = row.numbers \cup {[prefix |-> prefix, seq |-> seq]}]]
        /\ UNCHANGED <<book, history>>

Enrol(d) ==
    /\ handler[d] = NoRequest /\ Unlocked(d)
    /\ Generate(d, [prefix |-> book.prefix, next |-> book.next, numbers |-> {}])

\* An import enrols one after another in one transaction.
EnrolAnother(d) == handler[d].op = "enrol" /\ Generate(d, handler[d])

EnrolCommit(d) ==
    LET h == handler[d]
    IN  /\ h.op = "enrol" /\ h.numbers \cap book.taken = {}
        /\ book' = [book EXCEPT !.prefix = h.prefix, !.next = h.next, !.taken = @ \cup h.numbers]
        /\ history' = [history EXCEPT !.given = @ \cup h.numbers]
        /\ Close(d)

\* Only the numbers of learners that are not deleted are taken.
DeleteStudent(number) ==
    /\ book' = [book EXCEPT !.taken = @ \ {number}]
    /\ UNCHANGED <<handler, history>>

-----------------------------------------------------------------------------
(* The profile                                                             *)

Visit(d) ==
    /\ history.page[d] # Shown
    /\ history' = [history EXCEPT !.page[d] = Shown]
    /\ UNCHANGED <<book, handler>>

\* A version that is sent must be the row's; a badge comes without.
EditRead(d, op, checked, prefix) ==
    /\ handler[d] = NoRequest
    /\ checked => history.page[d].version = book.version
    /\ op = "badge" => ~checked /\ prefix = None
    /\ handler' = [handler EXCEPT ![d] =
           [NoRequest EXCEPT !.op = op, !.version = book.version, !.prefix = prefix]]
    /\ history' = [history EXCEPT !.crossed = @ \/ \E x \in Reqs : handler[x].op \in Edits]
    /\ UNCHANGED book

EditCommit(d) ==
    LET h == handler[d]
    IN  /\ h.op \in Edits /\ Unlocked(d) /\ book.stamp < MaxStamp
        /\ book' = [book EXCEPT !.version = h.version + Bump(h.op), !.stamp = @ + 1,
                                !.prefix = IF h.prefix = None THEN @ ELSE h.prefix]
        /\ Close(d) /\ UNCHANGED history

\* A refusal, an error, a lost connection or a crash before the commit.
Abandon(d) == handler[d] # NoRequest /\ Close(d) /\ UNCHANGED <<book, history>>

Next ==
    \/ \E number \in book.taken : DeleteStudent(number)
    \/ \E d \in Reqs :
          \/ Enrol(d) \/ EnrolAnother(d) \/ EnrolCommit(d) \/ Visit(d) \/ EditCommit(d) \/ Abandon(d)
          \/ \E op \in Edits, checked \in BOOLEAN, prefix \in Prefixes \cup {None} :
                EditRead(d, op, checked, prefix)

-----------------------------------------------------------------------------
(* Properties                                                              *)

TypeOK ==
    /\ book.prefix \in Prefixes \cup {None}
    /\ book.taken \subseteq [prefix : Prefixes, seq : 1..MaxNumber]
    /\ \A d \in Reqs : handler[d].op \in Edits \cup {"none", "enrol"}

\* A number is given to one learner, also after the one who had it has left, and
\* whatever overlaps (generate_student_number: "concurrent enrollments ... never
\* collide").
NumbersGivenOnce ==
    \A d \in Reqs :
        /\ handler[d].numbers \cap (book.taken \cup history.given) = {}
        /\ \A x \in Reqs \ {d} : handler[d].numbers \cap handler[x].numbers = {}

\* A version names one state of the profile, so that an edit that is not refused
\* replaces what its page shows, unless two edits overlapped ("This profile was
\* modified by someone else").
VersionNamesProfile ==
    \/ history.crossed
    \/ \A d \in Reqs : history.page[d].version = book.version => history.page[d].stamp = book.stamp

=============================================================================
