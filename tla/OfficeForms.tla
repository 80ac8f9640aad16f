------------------------------ MODULE OfficeForms -----------------------------
(***************************************************************************)
(* The forms of teaching, fees and pay.                                    *)
(***************************************************************************)
EXTENDS FormKinds

-----------------------------------------------------------------------------
(* Fees                                                                    *)

\* A line of a draft structure; cancelling takes the line as it is now.
LineDraft == Draft("each", "mount", "reset")
LineSave == Save(FALSE, "shut")
LineView == View(FALSE, TRUE)

\* A line to add, and the structure's name, date and notes.
NewLineSave == Save(TRUE, "blank")
NewLineView == View(TRUE, TRUE)
StructureDraft == Draft("page", "mount", "reset")
StructureSave == Save(FALSE, "shut")
StructureView == View(FALSE, TRUE)

\* A structure is added by name, for the term that is active.
NewStructureSave == Save(TRUE, "blank")
NewStructureView == View(TRUE, TRUE)

\* A payment, for the balance of the invoice; the amount stays when another invoice
\* is chosen.
PaymentDraft == Draft("new", "open", "reset") @@ At("kept")
PaymentSave == Save(FALSE, "shut")
PaymentView == View(FALSE, TRUE)

-----------------------------------------------------------------------------
(* Teaching                                                                *)

\* An assessment set is renamed in its row.
SetDraft == Draft("each", "mount", "reset")
SetSave == Save(FALSE, "shut")
SetView == View(FALSE, TRUE)

NewSetDraft == Draft("new", "mount", "keep")
NewSetSave == Save(TRUE, "blank")
NewSetView == View(TRUE, TRUE)

\* Which sets count follows what was saved last.
CaDraft == Draft("page", "row", "keep")
CaSave == Save(FALSE, "keep")

\* One form for the lessons there are and for one more, by class.
LessonDraft == Draft("both", "open", "reset")
LessonSave == Save(TRUE, "shut")
LessonView == View(FALSE, TRUE)

\* A teacher's assignments are edited in their rows, one at a time.
AssignmentDraft == Draft("one", "open", "reset")
AssignmentSave == Save(FALSE, "shut")
AssignmentView == View(FALSE, TRUE)

\* A class or subject has one form for its teachers and for one more.
TeacherDraft == Draft("both", "open", "reset")
TeacherSave == Save(TRUE, "shut")
TeacherView == View(FALSE, TRUE)

\* A new assignment on a page of its own.
NewAssignmentDraft == Draft("new", "open", "reset")
NewAssignmentSave == Save(TRUE, "shut")
NewAssignmentView == View(FALSE, TRUE)

\* A candidate's number is typed in the row, one at a time.
CandidateDraft == Draft("one", "open", "reset")
CandidateSave == Save(FALSE, "shut")
CandidateView == View(FALSE, TRUE)

-----------------------------------------------------------------------------
(* Pay                                                                     *)

\* An employee's profile in place of the list.
EmployeeDraft == Draft("page", "open", "reset")
EmployeeSave == Save(FALSE, "shut")
EmployeeView == View(FALSE, TRUE)

\* A pay run by its month, which is filled in.
RunDraft == Draft("new", "mount", "keep")
RunSave == Save(FALSE, "keep")
RunView == View(TRUE, TRUE)

\* A request for leave.
LeaveDraft == Draft("new", "mount", "keep")
LeaveSave == Save(TRUE, "blank")
LeaveView == View(TRUE, TRUE)

-----------------------------------------------------------------------------
OfficeTable ==
    [Line |-> LineDraft @@ LineSave @@ LineView @@ Plain,
     NewLine |-> Draft("new", "mount", "keep") @@ NewLineSave @@ NewLineView @@ Plain,
     Structure |-> StructureDraft @@ StructureSave @@ StructureView @@ Plain,
     NewStructure |-> Draft("new", "mount", "keep") @@ NewStructureSave @@ NewStructureView @@ Plain,
     Payment |-> PaymentDraft @@ PaymentSave @@ PaymentView @@ Plain,
     Set |-> SetDraft @@ SetSave @@ SetView @@ Plain,
     NewSet |-> NewSetDraft @@ NewSetSave @@ NewSetView @@ Plain,
     Ca |-> CaDraft @@ CaSave @@ View(TRUE, TRUE) @@ Plain,
     Lesson |-> LessonDraft @@ LessonSave @@ LessonView @@ Plain,
     Assignment |-> AssignmentDraft @@ AssignmentSave @@ AssignmentView @@ Plain,
     Teacher |-> TeacherDraft @@ TeacherSave @@ TeacherView @@ Unique @@ Plain,
     NewAssignment |-> NewAssignmentDraft @@ NewAssignmentSave @@ NewAssignmentView @@ Unique @@ Plain,
     Candidate |-> CandidateDraft @@ CandidateSave @@ CandidateView @@ Plain,
     Employee |-> EmployeeDraft @@ EmployeeSave @@ EmployeeView @@ Plain,
     Run |-> RunDraft @@ RunSave @@ RunView @@ Unique @@ Plain,
     Leave |-> LeaveDraft @@ LeaveSave @@ LeaveView @@ Plain]

=============================================================================
