------------------------------ MODULE BatchKinds ------------------------------
(***************************************************************************)
(* The screens that add several rows at once: spreadsheets, templates of   *)
(* the curriculum, the two steps of an enrolment.  How the rows are sent,  *)
(* whether they are checked first, what the API does with a row that is    *)
(* there already, and what the screen tells.                               *)
(***************************************************************************)
\* f with the fields of g that it has not, as in module TLC, written out so
\* that the provers can use it.
f @@ g == [x \in DOMAIN f \cup DOMAIN g |-> IF x \in DOMAIN f THEN f[x] ELSE g[x]]

\* In one request or in two, one after the other; a row that cannot be added is
\* reported in the answer, or refuses its request.
Sends(parts, whole) == [parts |-> parts, whole |-> whole]

\* Checked first: not at all, if the user likes, by a step that every row must
\* pass, or as soon as the list is chosen, one good row being enough.
Checks(check) == [check |-> check]

\* A row that is there already is added again or not; whether the button is out of
\* use until the last answer; and whether the screen is left when all is added.
Again(adds, busy) == [adds |-> adds, busy |-> busy]
Leaves(leaves) == [leaves |-> leaves]

\* What the answers said is told at the end, or even if a later request fails.
Tells(always) == [always |-> always]

-----------------------------------------------------------------------------
(* Faulty variants: what the properties must catch.                        *)

\* Only the last answer's rows are shown.
MergedLast(came, got) == came

-----------------------------------------------------------------------------
(* Spreadsheets                                                            *)

\* Learners, in lots of fifty: a dry run must find no fault, then they are added;
\* those with the number or the class and names of a learner are skipped.
StudentsChosen == Checks("all")
StudentsChecked == StudentsChosen
StudentsSent == Sends(2, FALSE) @@ Again(FALSE, TRUE)
StudentsShown == Leaves("never") @@ Tells(FALSE)
Students == StudentsChecked @@ StudentsSent @@ StudentsShown

\* Staff, in lots of twenty-five, those whose login is taken being skipped; the
\* answer holds the passwords made.
StaffSent == Sends(2, FALSE) @@ Again(FALSE, TRUE)
StaffShown == Leaves("never") @@ Tells(FALSE)
Staff == Checks("none") @@ StaffSent @@ StaffShown

\* Guardians' accounts, in one request, one for each learner.
GuardiansSent == Sends(1, FALSE) @@ Again(FALSE, TRUE)
GuardiansShown == Leaves("never") @@ Tells(FALSE)
Guardians == Checks("none") @@ GuardiansSent @@ GuardiansShown

\* Applicants, from a file or from a form: the list is left when all were added.
ApplicantsSent == Sends(1, FALSE) @@ Again(TRUE, TRUE)
ApplicantsShown == Leaves("clean") @@ Tells(FALSE)
Applicants == Checks("none") @@ ApplicantsSent @@ ApplicantsShown
FormSent == Sends(1, FALSE) @@ Again(TRUE, TRUE)
FormShown == Leaves("clean") @@ Tells(FALSE)
BulkForm == Checks("none") @@ FormSent @@ FormShown

\* Marks of a class in a subject; a mark that is there is replaced.
MarksSent == Sends(1, FALSE) @@ Checks("may") @@ Again(FALSE, TRUE)
MarksShown == Leaves("never") @@ Tells(FALSE)
Marks == MarksSent @@ MarksShown

\* Lessons: a file is checked as it is chosen, a lesson that clashes is reported.
LessonsSent == Sends(1, FALSE) @@ Checks("some") @@ Again(FALSE, TRUE)
LessonsShown == Leaves("always") @@ Tells(FALSE)
Lessons == LessonsSent @@ LessonsShown

-----------------------------------------------------------------------------
(* Templates, one request for each row until one is refused                *)

\* The core subjects of a level, and those ticked among the suggestions: a subject
\* that is there gets the cycle, and what was added is told in any case.
CoreSent == Sends(2, TRUE) @@ Again(FALSE, TRUE) @@ Tells(TRUE)
CoreShown == Leaves("always")
CoreSubjects == Checks("none") @@ CoreSent @@ CoreShown
SuggestedTells == Tells(TRUE)
SuggestedSent == Sends(2, TRUE) @@ Again(FALSE, TRUE) @@ SuggestedTells
SuggestedShown == Leaves("always")
Suggested == Checks("none") @@ SuggestedSent @@ SuggestedShown

\* A grading scale, then its bands; the default scale for each subject without one.
ScaleSent == Sends(2, TRUE) @@ Again(TRUE, TRUE) @@ Tells(FALSE)
ScaleShown == Leaves("clean")
Scale == Checks("none") @@ ScaleSent @@ ScaleShown
DefaultScaleSent == Sends(2, TRUE) @@ Again(FALSE, TRUE) @@ Tells(FALSE)
DefaultScale == Checks("none") @@ DefaultScaleSent @@ Leaves("never")

\* The divisions of the leaving examination, offered while the school has none.
DivisionsSent == Sends(2, TRUE) @@ Again(TRUE, TRUE) @@ Tells(FALSE)
DivisionsShown == Leaves("clean")
Divisions == Checks("none") @@ DivisionsSent @@ DivisionsShown

\* Learners ticked to sit it, in one request that takes all or none.
NomineesSent == Sends(1, TRUE) @@ Again(FALSE, TRUE) @@ Tells(FALSE)
NomineesShown == Leaves("never")
Nominees == Checks("none") @@ NomineesSent @@ NomineesShown

-----------------------------------------------------------------------------
(* Enrolment of an accepted applicant                                      *)

\* A learner is created, then the application is linked to it; the button is out
\* of use only during the first.
EnrolmentFilled == Checks("none")
EnrolmentSent == Sends(2, TRUE) @@ Again(TRUE, FALSE) @@ Tells(FALSE)
EnrolmentShown == Leaves("clean")
Enrolment == EnrolmentFilled @@ EnrolmentSent @@ EnrolmentShown

Batches ==
    [Students |-> Students, Staff |-> Staff, Guardians |-> Guardians, Applicants |-> Applicants,
     BulkForm |-> BulkForm, Marks |-> Marks, Lessons |-> Lessons, CoreSubjects |-> CoreSubjects,
     Suggested |-> Suggested, Scale |-> Scale, DefaultScale |-> DefaultScale,
     Divisions |-> Divisions, Nominees |-> Nominees, Enrolment |-> Enrolment]

\* What the answers of the requests of a list add up to.
Merged(came, got) == got \cup came

=============================================================================
