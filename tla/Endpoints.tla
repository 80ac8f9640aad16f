------------------------------- MODULE Endpoints ------------------------------
(***************************************************************************)
(* The endpoints of the API as the web client knows them,                  *)
(* store/api/skulpulseApi.ts: the tags of each query and mutation, and     *)
(* what it reads or writes at the server, taken from its handler under     *)
(* apps/api and the services that it calls.                                *)
(*                                                                         *)
(* A page is one account's: a school's screens do not see what the         *)
(* platform writes, nor a parent's what the staff write.                   *)
(***************************************************************************)
\* The tables in S, put together.
Joined(S) == [n \in UNION {DOMAIN f : f \in S} |-> (CHOOSE f \in S : n \in DOMAIN f)[n]]

\* An endpoint: the tables a query reads or a mutation writes, and the tags it
\* provides or invalidates.  A query reads the tables that its tags stand for and
\* "shows" others, of which no tag of its own tells it.

Queries(names, tables, shows, tags) ==
    [n \in names |-> [asks |-> TRUE, tables |-> tables, shows |-> shows, tags |-> tags]]
Mutations(names, tables, tags) ==
    [n \in names |-> [asks |-> FALSE, tables |-> tables, shows |-> {}, tags |-> tags]]

(* Faulty variants: what the properties must catch.                        *)

\* A learner's bed is the hostel's business: the learners are not told of it.
HostelEndpointsKeptApart == Joined({
    Queries({"listHostels", "hostelOptions", "getHostel"}, {"hostels", "beds"}, {}, {"Hostel"}),
    Mutations({"allocateHostel", "checkoutHostel"}, {"beds"}, {"Hostel"})})

-----------------------------------------------------------------------------
(* Endpoints, section by section                                           *)

\* A learner is shown in a class and stream of the year, on a term's roster
\* through a registration; a lesson is a teacher's, of a subject, in a class.
Placed == {"learners", "classes", "years"}
Roster == Placed \cup {"registrations"}
Lesson == {"subjects", "classes", "staff", "years"}

\* "signins" are when each account signed in last, and whether its password is due.
AuthEndpoints == Joined({
    Mutations({"platformLogin", "tenantLogin"}, {"signins"}, {}),
    Mutations({"logout"}, {}, {}),
    Queries({"getMe"}, {"me"}, {"staff", "admins", "signins"}, {"Me"}),
    Mutations({"changePassword", "changePlatformPassword"}, {"me", "signins"}, {"Me"})})

SchoolEndpoints == Joined({
    Queries({"listSchools"}, {"codes", "schools"}, {}, {"Schools"}),
    Queries({"suggestSchoolCode"}, {}, {"codes"}, {}),
    Mutations({"onboardSchool"}, {"codes"}, {"Schools"}),
    Queries({"getSchool"}, {"schools", "badges"}, {}, {"School"}),
    Mutations({"updateSchool", "replaceModules"}, {"schools"}, {"School", "Schools"}),
    Queries({"listSchoolUsers"}, {}, {"accounts", "signins"}, {}),
    Mutations({"resetPlatformUserPassword"}, {"signins"}, {}),
    Mutations({"resetPlatformAdminCredentials"}, {"signins"}, {"School"}),
    Mutations({"uploadPlatformSchoolBadge", "deletePlatformSchoolBadge"}, {"badges"}, {"School"})})

\* Every request is logged; of that the screens of logs do not hear.
PlatformEndpoints == Joined({
    Queries({"moduleCatalog", "districts"}, {}, {}, {}),
    Mutations({"estimate"}, {}, {}),
    Queries({"requestLogs", "errorLogs", "auditLogs", "auditLogFiles"}, {}, {"logs"}, {}),
    Queries({"listPlatformAdmins"}, {"admins"}, {"signins"}, {"PlatformAdmins"}),
    Mutations({"createPlatformAdmin", "updatePlatformAdmin", "deletePlatformAdmin"},
              {"admins"}, {"PlatformAdmins"}),
    Mutations({"resetPlatformAdminPassword"}, {"signins"}, {}),
    Mutations({"resetPlatformData"}, {"codes", "schools", "accounts", "logs"}, {"Schools"})})

CalendarEndpoints == Joined({
    Queries({"getTenantSchool"}, {"school"}, {"numbering"}, {"TenantSchool"}),
    Mutations({"updateTenantSchool", "uploadTenantSchoolBadge", "deleteTenantSchoolBadge"},
              {"school"}, {"TenantSchool"}),
    Queries({"tenantModuleCatalog"}, {}, {}, {}),
    Queries({"getTenantModules"}, {}, {}, {"TenantModules"}),
    Queries({"academicContext", "listAcademicYears"}, {"years"}, {}, {"AcademicCalendar"}),
    Mutations({"createAcademicYear", "updateAcademicYear", "activateAcademicYear",
               "updateTerm", "activateTerm"}, {"years"}, {"AcademicCalendar"}),
    Queries({"listTermCalendarEvents"}, {"events"}, {"years"}, {"TermCalendar"}),
    Mutations({"createTermCalendarEvent", "updateTermCalendarEvent", "deleteTermCalendarEvent"},
              {"events"}, {"TermCalendar"})})

\* A parent's screens read what other accounts write.
NoticeEndpoints == Joined({
    Queries({"listCirculars", "listCircularInbox", "getCircular"}, {"circulars"}, {"classes"},
            {"Circulars"}),
    Queries({"getParentOverview"}, {}, {}, {"ParentPortal"}),
    Queries({"getParentReportCardPreview"}, {}, {}, {"ParentPortal", "ReportCards"}),
    Queries({"getParentReportCardPdf"}, {}, {}, {}),
    Queries({"listParentFees", "getParentFeeInvoice"}, {}, {}, {"ParentPortal", "Finance"}),
    Mutations({"createCircular", "updateCircular", "publishCircular", "deleteCircular",
               "uploadCircularAttachment", "deleteCircularAttachment"}, {"circulars"}, {"Circulars"})})

StaffEndpoints == Joined({
    Queries({"hrPayrollSummary", "listHrEmployees", "listLeaveRequests", "listMyLeaveRequests",
             "listPayrollRuns", "getPayrollRun", "listMyPayslips"}, {"staffing"}, {"staff"},
            {"HrPayroll"}),
    Queries({"listLeaveTypes"}, {"staffing"}, {}, {"HrPayroll"}),
    Mutations({"upsertEmployeeProfile", "requestLeave", "approveLeave", "rejectLeave",
               "createPayrollRun", "computePayrollRun", "finalizePayrollRun"},
              {"staffing"}, {"HrPayroll"})})

ClassEndpoints == Joined({
    Queries({"listSubjects"}, {"subjects"}, {}, {"Subjects"}),
    Mutations({"createSubject", "updateSubject", "deleteSubject"}, {"subjects"},
              {"Subjects", "Grading"}),
    Queries({"listClasses"}, {"classes"}, {}, {"Classes"}),
    Mutations({"setupPrimaryClasses", "setupNurseryClasses", "createClass", "updateClass",
               "deleteClass", "createStream", "updateStream", "deleteStream"},
              {"classes"}, {"Classes"})})

UserEndpoints == Joined({
    Queries({"listTenantRoles"}, {}, {}, {}),
    Queries({"listTenantUsers"}, {"staff", "parents"}, {"signins"}, {"TenantUsers"}),
    Queries({"nextLoginId"}, {"staff", "parents"}, {}, {"TenantUsers"}),
    Mutations({"createTenantUser", "updateTenantUser"}, {"staff", "parents"}, {"TenantUsers"}),
    Mutations({"importTeachers"}, {"staff"}, {"TenantUsers"}),
    Mutations({"importGuardians"}, {"parents"}, {"TenantUsers"}),
    Mutations({"resetTenantUserPassword"}, {"signins"}, {})})

\* A learner is shown with class, bed, guardians and the portal account; a teacher
\* is shown those of the own classes.  A new learner may get an account, and the
\* first gives the school its prefix.
LearnerEndpoints == Joined({
    Queries({"rosterSummary"}, {"learners"}, {"classes", "years", "teaching"}, {"Students"}),
    Queries({"listStudents", "getStudent"}, {"learners", "beds", "particulars"},
            {"classes", "years", "teaching", "hostels", "parents"}, {"Students"}),
    Queries({"getStudentDetail"}, {"learners", "beds", "particulars"},
            {"classes", "years", "teaching", "hostels", "parents", "staff"}, {"Students"}),
    Mutations({"createStudent"}, {"learners", "particulars", "beds", "parents", "numbering"},
              {"Students"}),
    Mutations({"importStudents"}, {"learners", "particulars", "beds", "numbering"}, {"Students"}),
    Mutations({"updateStudent", "deleteStudent"}, {"learners", "beds"}, {"Students"}),
    Mutations({"bulkAssignStudents"}, {"learners"}, {"Students"})})

ParticularsEndpoints == Joined({
    Queries({"listGuardians"}, {"particulars"}, {"parents"}, {"Students"}),
    Queries({"getStudentHealth"}, {"particulars"}, {}, {"Students"}),
    Queries({"listDisciplineSchoolWide", "listStudentDiscipline"}, {"particulars", "learners"},
            {"staff"}, {"Students"}),
    Mutations({"addGuardian", "updateGuardian", "deleteGuardian", "upsertStudentHealth",
               "addDiscipline", "updateDiscipline", "deleteDiscipline"}, {"particulars"}, {"Students"})})

LessonEndpoints == Joined({
    Queries({"listTeacherStaff"}, {"teaching"}, {"staff", "years"}, {"Teachers"}),
    Queries({"listTeacherAssignments"}, {"teaching"}, Lesson, {"Teachers"}),
    Mutations({"createTeacherAssignment", "updateTeacherAssignment", "deleteTeacherAssignment"},
              {"teaching"}, {"Teachers"}),
    Queries({"attendanceSummary", "attendanceRoll"}, {"attendance"}, Roster, {"Attendance"}),
    Queries({"attendanceClassDay"}, {"attendance"}, {"slots", "learners"} \cup Lesson, {"Attendance"}),
    Mutations({"markAttendance"}, {"attendance"}, {"Attendance", "Timetable"})})

TimetableEndpoints == Joined({
    Queries({"listTimetableSlots"}, {"slots"}, Lesson, {"Timetable"}),
    Queries({"timetableMyDay"}, {"slots", "attendance"}, {"learners"} \cup Lesson, {"Timetable"}),
    Mutations({"createTimetableSlot", "updateTimetableSlot", "deleteTimetableSlot",
               "importTimetable"}, {"slots"}, {"Timetable"})})

RegistrationEndpoints == Joined({
    Queries({"getRegistrationConfig"}, {"checklist"}, {}, {"TermRegistration"}),
    Mutations({"createRegistrationSection", "updateRegistrationSection",
               "deleteRegistrationSection", "reorderRegistrationSections",
               "createRegistrationRequirement", "updateRegistrationRequirement",
               "deleteRegistrationRequirement"}, {"checklist"}, {"TermRegistration"}),
    Queries({"registeredRosterSummary", "registeredRoster"}, {"registrations"}, Placed,
            {"TermRegistration"}),
    Queries({"registrationSummary", "registrationQueue"}, {"registrations", "checklist"}, Placed,
            {"TermRegistration"}),
    Queries({"getRegistration"}, {"registrations", "checklist"}, {"staff"} \cup Placed,
            {"TermRegistration"}),
    Mutations({"startRegistration", "upsertRegistrationResponses", "completeRegistration"},
              {"registrations"}, {"TermRegistration"})})

AdmissionEndpoints == Joined({
    Queries({"listAdmissionApplications", "getAdmissionApplication"}, {"applications"}, {"classes"},
            {"Admissions"}),
    Mutations({"createAdmissionApplication", "batchCreateAdmissionApplications",
               "updateAdmissionApplication"}, {"applications"}, {"Admissions"}),
    Mutations({"linkAdmissionEnrollment"}, {"applications"}, {"Admissions", "Students"})})

ReportEndpoints == Joined({
    Queries({"reportCardClasses", "reportCardStudents"}, {}, Roster, {"ReportCards"}),
    Queries({"reportCardPreview"}, {"marks"},
            {"sets", "scales", "subjects", "attendance", "school", "fees"} \cup Roster,
            {"ReportCards"}),
    Queries({"pleSummary"}, {"candidates"}, Roster, {"Ple"}),
    Queries({"pleCandidates", "pleEligible"}, {"candidates"},
            {"marks", "sets", "scales", "subjects"} \cup Roster, {"Ple"}),
    Mutations({"nominatePleCandidates", "updatePleCandidate"}, {"candidates"}, {"Ple"})})

GradingEndpoints == Joined({
    Queries({"getGradingConfig"}, {"scales", "subjects"}, {}, {"Grading"}),
    Mutations({"createGradingScale", "updateGradingScale", "deleteGradingScale",
               "createScaleGradeRange", "updateScaleGradeRange", "deleteScaleGradeRange",
               "assignSubjectGradingScale", "createAggregateDivision",
               "updateAggregateDivision", "deleteAggregateDivision"}, {"scales"}, {"Grading"})})

FinanceEndpoints == Joined({
    Queries({"financeSummary"}, {"fees", "invoices"}, Roster, {"Finance"}),
    Queries({"feeStructures"}, {"fees"}, Roster, {"Finance"}),
    Queries({"feeInvoices"}, {"invoices"}, Placed, {"Finance"}),
    Queries({"feeInvoiceDetail"}, {"invoices", "fees"}, Placed, {"Finance"}),
    Mutations({"createFeeStructure", "activateFeeStructure", "updateFeeStructure",
               "updateFeeStructureLine", "addFeeStructureLine", "deleteFeeStructureLine"},
              {"fees"}, {"Finance"}),
    Mutations({"generateFeeInvoices", "recordFeePayment"}, {"invoices"}, {"Finance"})})

\* tryAssessmentMarks is importAssessmentMarks as a dry run.
MarkEndpoints == Joined({
    Queries({"assessmentSummary", "assessmentSets", "assessmentCaConfig"}, {"marks", "sets"},
            {"years"}, {"Assessment"}),
    Queries({"markEntryRoster"}, {"marks", "sets"}, {"subjects", "teaching"} \cup Roster,
            {"Assessment"}),
    Queries({"assessmentMarksGrid"}, {"marks", "sets"}, {"subjects"} \cup Roster, {"Assessment"}),
    Queries({"computedCa"}, {"marks", "sets"}, {"scales", "subjects"} \cup Roster, {"Assessment"}),
    Queries({"studentPerformance"}, {"marks", "sets"}, {"scales", "subjects"} \cup Placed,
            {"Assessment"}),
    Mutations({"createAssessmentSet", "openAssessmentSet", "closeAssessmentSet",
               "updateAssessmentSet", "deleteAssessmentSet", "updateAssessmentCaConfig"},
              {"sets"}, {"Assessment"}),
    Mutations({"saveAssessmentMarks", "importAssessmentMarks"}, {"marks"},
              {"Assessment", "ReportCards"}),
    Mutations({"tryAssessmentMarks"}, {}, {})})

HostelEndpoints == Joined({
    Queries({"listHostels"}, {"hostels", "beds"}, {"staff"}, {"Hostel"}),
    Queries({"hostelOptions"}, {"hostels", "beds"}, {}, {"Hostel"}),
    Queries({"getHostel"}, {"hostels", "beds"}, {"staff", "learners", "classes"}, {"Hostel"}),
    Mutations({"createHostel", "updateHostel", "deleteHostel", "createHostelRoom",
               "updateHostelRoom", "deleteHostelRoom"}, {"hostels"}, {"Hostel"}),
    Mutations({"allocateHostel", "checkoutHostel"}, {"beds"}, {"Hostel", "Students"})})

Endpoint == Joined({
    AuthEndpoints, SchoolEndpoints, PlatformEndpoints, CalendarEndpoints,
    NoticeEndpoints, StaffEndpoints, ClassEndpoints, UserEndpoints,
    LearnerEndpoints, ParticularsEndpoints, LessonEndpoints,
    TimetableEndpoints, RegistrationEndpoints, AdmissionEndpoints, ReportEndpoints,
    GradingEndpoints, FinanceEndpoints, MarkEndpoints, HostelEndpoints})

Asked == {n \in DOMAIN Endpoint : Endpoint[n].asks}
Writers(q) ==
    {m \in DOMAIN Endpoint : ~Endpoint[m].asks
        /\ Endpoint[m].tables \cap (Endpoint[q].tables \cup Endpoint[q].shows) # {}}
Meet(q, m) == Endpoint[q].tags \cap Endpoint[m].tags # {}

\* What the tags leave out: what a query only shows; and beds, accounts and schools
\* that change under another section's tag.
Untold(q, m) ==
    \/ Endpoint[m].tables \cap Endpoint[q].tables = {}
    \/ "Hostel" \in Endpoint[q].tags
       /\ m \in {"createStudent", "importStudents", "updateStudent", "deleteStudent"}
    \/ "TenantUsers" \in Endpoint[q].tags /\ m = "createStudent"
    \/ q = "getSchool" /\ m = "resetPlatformData"

=============================================================================
