-------------------------------- MODULE Campus --------------------------------
(***************************************************************************)
(* The record keeping of SkulPulse that shares no rows: each part is a     *)
(* component of its own, and since none reads what another writes, every   *)
(* behaviour exercises one of them.  The variables of the others are None  *)
(* throughout; five parts keep theirs in the same three, as each has one   *)
(* book of records and handlers that work on it.                           *)
(***************************************************************************)
EXTENDS Naturals, FiniteSets

CONSTANTS
    None, Gone,
    Reqs,
    Admins,
    Years, Numbers,
    Students, Hostels, Rooms, HostelOf, Capacities, MaxWorks,
    Lessons, Plans,
    Sections, Requirements, SectionOf, Defaults, Regs, MaxChanges,
    References,
    Salaries, MaxSeeds,
    Prefixes, MaxNumber, MaxStamp,
    Uploads, Marks

ASSUME PlansAssumption ==
    \A p \in Plans : /\ DOMAIN p = {"from", "to", "class", "stream", "teacher"}
                     /\ p.from \in Nat /\ p.to \in Nat

VARIABLES
    part,           \* the component this behaviour exercises
    admin, desk, pressed,
    year, term, clerk, muddled,
    student, bed, built, capacity, works, task, crowded,
    lesson, plan, contested,
    section, requirement, changes, registration, answer, work, basis, raced, drifted,
    book, handler, history

Directory == INSTANCE PlatformAdmins
Calendar == INSTANCE AcademicCalendar
Boarding == INSTANCE Hostel
Week == INSTANCE Timetable
Registers == INSTANCE TermRegistration
Places == INSTANCE Admissions
Wages == INSTANCE Payroll WITH Staff <- Students
Profile == INSTANCE SchoolRow
Notices == INSTANCE Circulars
Sheets == INSTANCE MarkSheets

\* References, salaries and marks are numbers, and None is none of the values.
ASSUME BooksAssumption ==
    /\ IsFiniteSet(References) /\ References = 1..Cardinality(References)
    /\ IsFiniteSet(Students) /\ None \notin Students \cup Places!Rows
    /\ Salaries \subseteq Nat /\ 0 \in Salaries
    /\ Marks \subseteq Nat /\ 1 \in Marks /\ None \notin Marks
    /\ MaxNumber \in Nat \ {0}

\* Years and the terms of a year are numbered.
ASSUME CalendarAssumption ==
    /\ Years \subseteq Nat \ {0}
    /\ IsFiniteSet(Numbers) /\ Numbers = 1..Cardinality(Numbers) /\ 1 \in Numbers

\* Rooms are built in hostels, capacities are numbers.
ASSUME BoardingAssumption ==
    /\ IsFiniteSet(Rooms) /\ HostelOf \in [Rooms -> Hostels] /\ Hostels \cap Rooms = {}
    /\ Capacities \subseteq Nat /\ None \notin Hostels \cup Rooms

\* None is neither a registration nor a set of what is needed.
ASSUME RegistersAssumption == None \notin Regs /\ \A R \in SUBSET Registers!Demands : R # None

Books == {"admissions", "payroll", "school", "notices", "sheets"}
Parts == {"directory", "calendar", "boarding", "timetable", "registers"} \cup Books

directory == <<admin, desk, pressed>>
calendar == <<year, term, clerk, muddled>>
boarding == <<student, bed, built, capacity, works, task, crowded>>
timetable == <<lesson, plan, contested>>
registers == <<section, requirement, changes, registration, answer, work, basis, raced, drifted>>
books == <<book, handler, history>>
campus == <<part, directory, calendar, boarding, timetable, registers, books>>

-----------------------------------------------------------------------------
Init ==
    /\ part \in Parts
    /\ IF part = "directory" THEN Directory!Init
       ELSE admin = None /\ desk = None /\ pressed = None
    /\ IF part = "calendar" THEN Calendar!Init
       ELSE year = None /\ term = None /\ clerk = None /\ muddled = None
    /\ IF part = "boarding" THEN Boarding!Init
       ELSE /\ student = None /\ bed = None /\ built = None /\ capacity = None
            /\ works = None /\ task = None /\ crowded = None
    /\ IF part = "timetable" THEN Week!Init
       ELSE lesson = None /\ plan = None /\ contested = None
    /\ IF part = "registers" THEN Registers!Init
       ELSE /\ section = None /\ requirement = None /\ changes = None /\ registration = None
            /\ answer = None /\ work = None /\ basis = None /\ raced = None /\ drifted = None
    /\ CASE part = "admissions" -> Places!Init
         [] part = "payroll" -> Wages!Init
         [] part = "school" -> Profile!Init
         [] part = "notices" -> Notices!Init
         [] part = "sheets" -> Sheets!Init
         [] OTHER -> book = None /\ handler = None /\ history = None

BooksNext ==
    \/ part = "admissions" /\ Places!Next
    \/ part = "payroll" /\ Wages!Next
    \/ part = "school" /\ Profile!Next
    \/ part = "notices" /\ Notices!Next
    \/ part = "sheets" /\ Sheets!Next

Next ==
    /\ UNCHANGED part
    /\ \/ /\ part = "directory" /\ Directory!Next
          /\ UNCHANGED <<calendar, boarding, timetable, registers, books>>
       \/ /\ part = "calendar" /\ Calendar!Next
          /\ UNCHANGED <<directory, boarding, timetable, registers, books>>
       \/ /\ part = "boarding" /\ Boarding!Next
          /\ UNCHANGED <<directory, calendar, timetable, registers, books>>
       \/ /\ part = "timetable" /\ Week!Next
          /\ UNCHANGED <<directory, calendar, boarding, registers, books>>
       \/ /\ part = "registers" /\ Registers!Next
          /\ UNCHANGED <<directory, calendar, boarding, timetable, books>>
       \/ /\ BooksNext
          /\ UNCHANGED <<directory, calendar, boarding, timetable, registers>>

Spec == Init /\ [][Next]_campus

-----------------------------------------------------------------------------
(* Properties of the components, each about the part exercised             *)

\* Every component keeps its rows in the shape its tables allow.
TypeOK ==
    /\ part \in Parts
    /\ part = "directory" => Directory!TypeOK
    /\ part = "calendar" => Calendar!TypeOK
    /\ part = "boarding" => Boarding!TypeOK
    /\ part = "timetable" => Week!TypeOK
    /\ part = "registers" => Registers!TypeOK
    /\ part = "admissions" => Places!TypeOK
    /\ part = "payroll" => Wages!TypeOK
    /\ part = "school" => Profile!TypeOK
    /\ part = "notices" => Notices!TypeOK
    /\ part = "sheets" => Sheets!TypeOK

\* The platform always has an active administrator, unless two removals were in
\* flight at once ("Cannot delete the last active platform administrator").
SomebodyIsLeft == part = "directory" => Directory!SomebodyIsLeft

\* The school is in one year and one term of that year, as far as activations
\* decide it (activate_year, activate_term).
CalendarAgrees == part = "calendar" => Calendar!CalendarAgrees

\* Learners with a bed sleep in a room and hostel that exist and belong together,
\* unless two requests worked on one of them at once (delete_hostel, delete_room).
BedsExist == part = "boarding" => Boarding!BedsExist

\* Nobody is moved into a place that is overfull after it, unless two requests
\* worked on the hostel or on one of its learners at once (validate_allocation).
PlacingNeverOverfills == [][part = "boarding" => Boarding!PlacingFits]_boarding

\* No teacher and no class has two lessons at a time, unless one of them was
\* written while another request was open (_check_conflicts).
NobodyInTwoPlaces == part = "timetable" => Week!NobodyInTwoPlaces

\* What was needed when a registration completed stays answered, and the last
\* required answer completes it, unless two requests worked on it at once or the
\* checklist changed since (upsert_responses, complete_registration,
\* _maybe_auto_complete).
CompletedAsAnswered ==
    part = "registers" => Registers!CompletedMeansAnswered /\ Registers!AnsweredGetsCompleted

\* Rows agree with the rows they sum up or refer to: who is enrolled has a student
\* record, a payroll run has the totals of its lines, a circular names the file
\* there is, and no mark is above the highest; each except what overlapped, and
\* what failed half way (link_enrollment, compute_payroll_run,
\* remove_circular_attachment, save_marks).
RowsAddUp ==
    /\ part = "admissions" => Places!EnrolledHasStudent
    /\ part = "payroll" => Wages!RunAddsUp
    /\ part = "notices" => Notices!AttachmentIsThere
    /\ part = "sheets" => Sheets!MarksFit

\* No two learners get the same number, and a reference that was counted is free,
\* unless another was registered since or an import left a gap
\* (generate_student_number, next_reference_number).
NumbersGivenOnce ==
    /\ part = "school" => Profile!NumbersGivenOnce
    /\ part = "admissions" => Places!ReferencesAreFree

\* An edit of the school's profile with the version its page shows replaces what
\* the page shows, unless two edits overlapped (patch_school).
StaleIsRefused == part = "school" => Profile!VersionNamesProfile

\* What is enrolled, finalized, published or closed stays that way, unless two
\* requests overlapped (update_application, compute_payroll_run, update_circular,
\* save_marks).
FinalStaysFinal ==
    [][/\ part = "admissions" => Places!EnrolledStays
       /\ part = "payroll" => Wages!FinalizedStays
       /\ part = "notices" => Notices!PublishedStays
       /\ part = "sheets" => Sheets!ClosedStays]_books

=============================================================================
