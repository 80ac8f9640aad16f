------------------------------ MODULE LearnerForms ----------------------------
(***************************************************************************)
(* The forms about learners: their particulars, hostels, admissions.       *)
(***************************************************************************)
EXTENDS FormKinds

\* Faulty variant: the medical record is taken again whenever it is read.
HealthDraftFollowing == Draft("page", "row", "reset")

-----------------------------------------------------------------------------
(* A learner                                                               *)

\* The particulars, as the page shows the learner when editing begins.
InfoDraft == Draft("page", "open", "reset")
InfoSave == Save(FALSE, "shut")
InfoView == View(FALSE, TRUE)

HealthDraft == Draft("page", "open", "reset")
HealthSave == Save(FALSE, "shut")
HealthView == View(FALSE, TRUE)

\* One form for the guardians there are and for one more.
GuardianDraft == Draft("both", "open", "reset")
GuardianSave == Save(TRUE, "shut")
GuardianView == View(FALSE, TRUE)

\* The same for discipline records.
DisciplineDraft == Draft("both", "open", "reset")
DisciplineSave == Save(TRUE, "shut")
DisciplineView == View(FALSE, TRUE)

-----------------------------------------------------------------------------
(* Hostels                                                                 *)

\* The hostel's own fields follow the hostel, and are kept when the form is closed.
HostelDraft == Draft("page", "row", "keep")
HostelSave == Save(FALSE, "shut")
HostelView == View(FALSE, TRUE)

\* A new hostel: cancelling empties the form, closing it from the header does not.
NewHostelDraft == Draft("new", "mount", "keep")
NewHostelSave == Save(TRUE, "shut")
NewHostelView == View(FALSE, TRUE)

\* Rooms are added below the hostel, and edited in their rows one at a time.
NewRoomDraft == Draft("new", "mount", "keep")
NewRoomSave == Save(TRUE, "blank")
NewRoomView == View(TRUE, TRUE)
RoomDraft == Draft("one", "open", "reset")
RoomSave == Save(TRUE, "shut")
RoomView == View(FALSE, TRUE)

-----------------------------------------------------------------------------
(* Admissions                                                              *)

\* A new application, on a page of its own.
ApplicationDraft == Draft("new", "open", "reset")
ApplicationSave == Save(TRUE, "shut")
ApplicationView == View(FALSE, TRUE)

\* Closing an application: the reason stays when another application is closed.
WithdrawalDraft == Draft("page", "open", "reset") @@ At("kept")
WithdrawalSave == Save(FALSE, "shut")
WithdrawalView == View(FALSE, TRUE)

\* A section of a term registration, all its answers at once; another section
\* starts from its own.
RegisterDraft == Draft("page", "row", "keep") @@ At("reset")
RegisterSave == Save(FALSE, "keep")
RegisterView == View(TRUE, TRUE)

-----------------------------------------------------------------------------
LearnerTable ==
    [Info |-> InfoDraft @@ InfoSave @@ InfoView @@ Plain,
     Health |-> HealthDraft @@ HealthSave @@ HealthView @@ Plain,
     Guardian |-> GuardianDraft @@ GuardianSave @@ GuardianView @@ Plain,
     Discipline |-> DisciplineDraft @@ DisciplineSave @@ DisciplineView @@ Plain,
     Hostel |-> HostelDraft @@ HostelSave @@ HostelView @@ Plain,
     NewHostel |-> NewHostelDraft @@ NewHostelSave @@ NewHostelView @@ Plain,
     NewRoom |-> NewRoomDraft @@ NewRoomSave @@ NewRoomView @@ Plain,
     Room |-> RoomDraft @@ RoomSave @@ RoomView @@ Plain,
     Application |-> ApplicationDraft @@ ApplicationSave @@ ApplicationView @@ Plain,
     Withdrawal |-> WithdrawalDraft @@ WithdrawalSave @@ WithdrawalView @@ Plain,
     Register |-> RegisterDraft @@ RegisterSave @@ RegisterView @@ Plain]

=============================================================================
