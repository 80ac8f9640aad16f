------------------------------ MODULE SchoolForms -----------------------------
(***************************************************************************)
(* The forms of the settings and of the platform console.                  *)
(***************************************************************************)
EXTENDS FormKinds

(* Faulty variants: what the properties must catch.                        *)

\* Closing the compose form of a circular on success without emptying it.
CircularSaveKept == Save(TRUE, "keep")

-----------------------------------------------------------------------------
(* Subjects, classes, people, notices                                      *)

\* A subject's row becomes its editor, and a row again when the subject changes.
SubjectDraft == Draft("each", "shut", "reset")
SubjectSave == Save(FALSE, "shut")
SubjectView == View(FALSE, TRUE)

\* A class shows its fields at all times, as they were when it was first shown.
ClassDraft == Draft("each", "mount", "keep")
ClassSave == Save(FALSE, "keep")
ClassView == View(TRUE, TRUE)

\* The level to add stays selected after it was added.
NewClassSave == Save(TRUE, "keep")
NewClassView == View(TRUE, TRUE)

\* A stream is added by name, and renamed by leaving its field.
NewStreamSave == Save(TRUE, "blank")
StreamRename == Draft("each", "mount", "keep") @@ Save(TRUE, "keep")

\* A portal account's row, as the subjects'.
UserDraft == Draft("each", "shut", "reset")
UserSave == Save(FALSE, "shut")
UserView == View(FALSE, TRUE)

\* A new account; its number is the API's unless it is a parent's.
NewUserDraft == Draft("new", "mount", "keep")
NewUserSave == Save(TRUE, "blank")
NewUserView == View(TRUE, TRUE)

\* A circular is composed above the list.
CircularDraft == Draft("new", "mount", "keep")
CircularSave == Save(TRUE, "blank")
CircularView == View(TRUE, TRUE)

\* The school's profile: unsaved changes are those from the profile last read.
ProfileDraft == Draft("page", "row", "keep")
ProfileSave == Save(TRUE, "keep")
ProfileView == View(TRUE, TRUE)

\* The layout of report cards is a part of the same profile.
LayoutDraft == Draft("page", "row", "keep")
LayoutSave == Save(TRUE, "keep")
LayoutView == View(TRUE, TRUE)

-----------------------------------------------------------------------------
(* The calendar                                                            *)

\* A year is added by its label, which stays in the field.
NewYearSave == Save(TRUE, "keep")
NewYearView == View(TRUE, TRUE)

\* The dates of the year the calendar shows; another year brings its own.
YearDraft == Draft("page", "row", "keep") @@ At("reset")
YearSave == Save(FALSE, "keep")
YearView == View(TRUE, TRUE)

\* The dates of each of its terms, as they were when it was first shown.
TermDraft == Draft("each", "mount", "keep")
TermSave == Save(FALSE, "keep")
TermView == View(TRUE, TRUE)

\* An event's row becomes its editor, with whatever was left in it.
EventDraft == Draft("each", "mount", "keep")
EventSave == Save(FALSE, "shut")
EventView == View(FALSE, TRUE)

\* A new event is for the term that was selected, whichever year is shown.
NewEventDraft == Draft("new", "mount", "keep") @@ At("kept")
NewEventSave == Save(TRUE, "blank")
NewEventView == View(TRUE, TRUE)

-----------------------------------------------------------------------------
(* The registration checklist                                              *)

\* Sections and requirements are added by label.
NewSectionDraft == Draft("new", "mount", "keep")
NewSectionSave == Save(TRUE, "blank")
NewRequirementSave == Save(TRUE, "blank")
ChecklistView == View(TRUE, TRUE)

\* They are changed by leaving a field, which shows what it did when opened.
SectionDraft == Draft("each", "open", "keep") @@ Save(FALSE, "keep")
RequirementDraft == Draft("each", "mount", "keep") @@ Save(FALSE, "keep")
ByLeaving == View(FALSE, FALSE)

-----------------------------------------------------------------------------
(* Grading                                                                 *)

\* A band of a scale follows the band it shows.
BandDraft == Draft("each", "row", "keep")
BandSave == Save(FALSE, "keep")
BandView == View(TRUE, TRUE)

\* A scale is renamed by leaving the field or by the button.
ScaleNameDraft == Draft("page", "mount", "keep")
ScaleNameSave == Save(TRUE, "keep")

\* A band is added by its weight: only the scale as last read tells whether it has
\* one of that weight.
NewBandDraft == Draft("new", "mount", "keep")
NewBandSave == Save(TRUE, "keep")
NewBandView == View(TRUE, TRUE)

\* A new scale is named or takes the cycle's default name.
NewScaleDraft == Draft("new", "mount", "keep")
NewScaleSave == Save(TRUE, "blank")
NewScaleView == View(TRUE, TRUE)

\* The divisions of aggregates, as they were when first shown.
DivisionDraft == Draft("each", "mount", "keep")
DivisionSave == Save(FALSE, "keep")
DivisionView == View(TRUE, TRUE)
NewDivisionDraft == Draft("new", "mount", "keep")
NewDivisionSave == Save(TRUE, "blank")
NewDivisionView == View(TRUE, TRUE)

-----------------------------------------------------------------------------
(* The platform console                                                    *)

\* An administrator's row becomes its editor, with whatever was left in it.
AdminDraft == Draft("each", "mount", "keep")
AdminSave == Save(FALSE, "shut")
AdminView == View(FALSE, TRUE)

\* A new administrator; the fields are emptied once the password was read.
NewAdminDraft == Draft("new", "mount", "keep")
NewAdminSave == Save(TRUE, "blank")
NewAdminView == View(TRUE, TRUE)

\* A school's profile and its modules are two forms of one row.
SchoolDraft == Draft("page", "row", "keep")
SchoolSave == Save(FALSE, "keep")
SchoolView == View(TRUE, TRUE)

\* A new school; success leads to its page.
NewSchoolDraft == Draft("new", "mount", "keep")
NewSchoolSave == Save(TRUE, "blank")
NewSchoolView == View(TRUE, TRUE)

-----------------------------------------------------------------------------
SettingsForms ==
    [Subject |-> SubjectDraft @@ SubjectSave @@ SubjectView @@ Plain,
     Class |-> ClassDraft @@ ClassSave @@ ClassView @@ Plain,
     NewClass |-> Draft("new", "mount", "keep") @@ NewClassSave @@ NewClassView @@ Unique @@ Plain,
     NewStream |-> Draft("new", "mount", "keep") @@ NewStreamSave @@ ClassView @@ Unique @@ Plain,
     Stream |-> StreamRename @@ ClassView @@ Plain,
     User |-> UserDraft @@ UserSave @@ UserView @@ Plain,
     NewUser |-> NewUserDraft @@ NewUserSave @@ NewUserView @@ Plain,
     Circular |-> CircularDraft @@ CircularSave @@ CircularView @@ Plain,
     Profile |-> ProfileDraft @@ ProfileSave @@ ProfileView @@ Plain,
     Layout |-> LayoutDraft @@ LayoutSave @@ LayoutView @@ Plain,
     NewYear |-> Draft("new", "mount", "keep") @@ NewYearSave @@ NewYearView @@ Unique @@ Plain,
     Year |-> YearDraft @@ YearSave @@ YearView @@ Plain,
     Term |-> TermDraft @@ TermSave @@ TermView @@ Plain,
     Event |-> EventDraft @@ EventSave @@ EventView @@ Plain,
     NewEvent |-> NewEventDraft @@ NewEventSave @@ NewEventView @@ Plain,
     NewSection |-> NewSectionDraft @@ NewSectionSave @@ ChecklistView @@ Plain,
     NewRequirement |-> NewSectionDraft @@ NewRequirementSave @@ ChecklistView @@ Plain,
     Section |-> SectionDraft @@ ByLeaving @@ Plain,
     Requirement |-> RequirementDraft @@ ByLeaving @@ Plain,
     Band |-> BandDraft @@ BandSave @@ BandView @@ Plain,
     ScaleName |-> ScaleNameDraft @@ ScaleNameSave @@ View(TRUE, FALSE) @@ Plain,
     NewBand |-> NewBandDraft @@ NewBandSave @@ NewBandView @@ Plain,
     NewScale |-> NewScaleDraft @@ NewScaleSave @@ NewScaleView @@ Plain,
     Division |-> DivisionDraft @@ DivisionSave @@ DivisionView @@ Plain,
     NewDivision |-> NewDivisionDraft @@ NewDivisionSave @@ NewDivisionView @@ Plain,
     Admin |-> AdminDraft @@ AdminSave @@ AdminView @@ Plain,
     NewAdmin |-> NewAdminDraft @@ NewAdminSave @@ NewAdminView @@ Unique @@ Plain,
     School |-> SchoolDraft @@ SchoolSave @@ SchoolView @@ Plain,
     NewSchool |-> NewSchoolDraft @@ NewSchoolSave @@ NewSchoolView @@ Unique @@ Plain]

=============================================================================
