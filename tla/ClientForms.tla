------------------------------ MODULE ClientForms -----------------------------
(***************************************************************************)
(* The forms of the web client: a draft of a row that is there or of a new *)
(* one, the request that saves it, and the answer, while other offices     *)
(* change rows and the screen reads them again.  What each form does is in *)
(* the tables of SchoolForms, LearnerForms and OfficeForms; here is what   *)
(* they have in common.  A behaviour exercises one form.                   *)
(*                                                                         *)
(* Row a is changed by others too; b stands for the other rows of a list;  *)
(* new is the row a form adds.  Values are versions of the row: 1 as first *)
(* read, 2 after one change.                                               *)
(***************************************************************************)
EXTENDS SchoolForms, LearnerForms, OfficeForms, Naturals, FiniteSets

VARIABLES
    screen,         \* the form, what it shows and the drafts
    calls,          \* the request of each draft
    rows,           \* the rows at the API
    past            \* history: what the properties are about

forms == <<screen, calls, rows, past>>

\* All forms, by name.
Forms == SettingsForms @@ LearnerTable @@ OfficeTable
Form == Forms[screen.form]

MaxAdded == 2
Rows == {"a", "b"}
Drafts == Rows \cup {"new"}
Closed == [open |-> FALSE, typed |-> FALSE, used |-> FALSE, base |-> 1, place |-> 1]

\* The drafts a form can have.
Held(form) == CASE form.draft = "page" -> {"a"}
                [] form.draft = "each" -> Rows
                [] form.draft = "one" -> Rows
                [] form.draft = "both" -> Drafts
                [] form.draft = "new" -> {"new"}

-----------------------------------------------------------------------------
Init ==
    /\ \E f \in DOMAIN Forms :
          screen = [form |-> f, place |-> 1, shown |-> 1,
                    draft |-> [d \in Drafts |->
                        [Closed EXCEPT !.open = Forms[f].always /\ d \in Held(Forms[f])]]]
    /\ calls = [d \in Drafts |-> [at |-> "none", base |-> 1, place |-> 1]]
    /\ rows = [a |-> 1, made |-> 0]
    /\ past = [lost |-> FALSE, dropped |-> FALSE, revived |-> FALSE, astray |-> FALSE, meant |-> 0]

TypeOK ==
    /\ screen.form \in DOMAIN Forms /\ screen.shown \in 1..2 /\ screen.place \in 1..2
    /\ screen.draft \in [Drafts -> [open : BOOLEAN, typed : BOOLEAN, used : BOOLEAN, base : 1..2, place : 1..2]]
    /\ calls \in [Drafts -> [at : {"none", "sent", "again", "done", "refused"},
                             base : 1..2, place : 1..2]]
    /\ rows \in [a : 1..2, made : 0..3]
    /\ past \in [lost : BOOLEAN, dropped : BOOLEAN, revived : BOOLEAN, astray : BOOLEAN, meant : 0..MaxAdded]

\* What the screen knows of a row.
Known(d) == IF d = "a" THEN screen.shown ELSE 1

-----------------------------------------------------------------------------
(* The user                                                                *)

\* Opening shows the row as it is known, or the draft as it was left; a draft for
\* all rows leaves the one it held.
Open(d) ==
    /\ d \in Held(Form) /\ ~Form.always /\ ~screen.draft[d].open
    /\ LET opened == IF Form.seed = "open" THEN [Closed EXCEPT !.base = Known(d)] ELSE screen.draft[d]
           others == IF Form.draft \in {"one", "both"} THEN [e \in Drafts |-> Closed] ELSE screen.draft
       IN  /\ screen' = [screen EXCEPT !.draft = [others EXCEPT ![d] = [opened EXCEPT !.open = TRUE]]]
           /\ past' = [past EXCEPT !.revived = @ \/ opened.typed \/ opened.base < Known(d)]
    /\ UNCHANGED <<calls, rows>>

\* What is typed goes where the screen is looking.
Type(d) ==
    /\ screen.draft[d].open /\ (~screen.draft[d].typed \/ screen.draft[d].used)
    /\ screen' = [screen EXCEPT !.draft[d].typed = TRUE, !.draft[d].used = FALSE,
                                !.draft[d].place = IF Form.place = "kept" THEN @ ELSE screen.place]
    /\ UNCHANGED <<calls, rows, past>>

Cancel(d) ==
    /\ ~Form.always /\ screen.draft[d].open
    /\ screen' = [screen EXCEPT !.draft[d] =
                     IF Form.cancel = "keep" THEN [@ EXCEPT !.open = FALSE]
                     ELSE [Closed EXCEPT !.base = Known(d)]]
    /\ UNCHANGED <<calls, rows, past>>

\* Looking at another class, term or year of the same screen.
Switch ==
    /\ Form.place # "none" /\ screen.place = 1
    /\ screen' = [screen EXCEPT !.place = 2,
                                !.draft = IF Form.place = "reset"
                                          THEN [d \in Drafts |-> [@[d] EXCEPT !.typed = FALSE, !.place = 2]]
                                          ELSE IF Form.place = "follows"
                                          THEN [d \in Drafts |-> [@[d] EXCEPT !.place = 2]] ELSE @]
    /\ UNCHANGED <<calls, rows, past>>

\* A button that is not disabled meanwhile may be pressed again.
Press(d) ==
    /\ screen.draft[d].open /\ (Form.checks => screen.draft[d].typed)
    /\ \/ /\ calls[d].at = "none"
          /\ Form.draft # "each" => \A e \in Drafts : calls[e].at = "none"
          /\ calls' = [calls EXCEPT ![d] = [at |-> "sent", base |-> screen.draft[d].base,
                                            place |-> screen.draft[d].place]]
       \/ /\ calls[d].at = "sent" /\ ~Form.busy
          /\ calls' = [calls EXCEPT ![d].at = "again"]
    /\ LET fresh == d = "new" /\ ~screen.draft[d].used
       IN  /\ fresh => past.meant < MaxAdded
           /\ past' = [past EXCEPT !.astray = @ \/ screen.draft[d].place # screen.place,
                                   !.meant = IF fresh THEN @ + 1 ELSE @]
    /\ screen' = [screen EXCEPT !.draft[d].used = TRUE]
    /\ UNCHANGED rows

-----------------------------------------------------------------------------
(* The API and other offices                                               *)

\* Names the API keeps unique are not added twice.
Apply(d) ==
    /\ calls[d].at \in {"sent", "again"}
    /\ IF d = "new" /\ Form.unique /\ rows.made > 0
       THEN calls' = [calls EXCEPT ![d].at = "refused"] /\ UNCHANGED rows
       ELSE /\ calls' = [calls EXCEPT ![d].at = IF @ = "again" THEN "sent" ELSE "done"]
            /\ rows' = [rows EXCEPT !.a = IF d = "a" THEN 2 ELSE @,
                                    !.made = IF d = "new" /\ @ < 3 THEN @ + 1 ELSE @]
    /\ UNCHANGED <<screen, past>>

Refuse(d) ==
    /\ calls[d].at = "sent" /\ calls' = [calls EXCEPT ![d].at = "refused"]
    /\ UNCHANGED <<screen, rows, past>>

Others ==
    /\ rows.a = 1 /\ rows' = [rows EXCEPT !.a = 2] /\ UNCHANGED <<screen, calls, past>>

\* The screen reads the rows again; drafts that follow their row take its values.
Read ==
    /\ screen.shown < rows.a
    /\ LET follows == Form.seed \in {"row", "shut"}
           mine == screen.draft["a"]
       IN  /\ screen' = [screen EXCEPT !.shown = 2,
                             !.draft["a"] = IF follows
                                            THEN [Closed EXCEPT !.open = mine.open /\ Form.seed = "row",
                                                                !.base = 2, !.place = mine.place]
                                            ELSE @]
           /\ past' = [past EXCEPT !.dropped = @ \/ (follows /\ mine.open /\ mine.typed /\ calls["a"].at = "none")]
    /\ UNCHANGED <<calls, rows>>

-----------------------------------------------------------------------------
(* Answers                                                                 *)

\* Saved: the draft is done with; one for all rows closes whichever is open.
Saved(d) ==
    /\ calls[d].at = "done"
    /\ LET shut(e) == Form.after = "shut" /\ (e = d \/ Form.draft \in {"one", "both"})
           left(e) == CASE shut(e) -> [Closed EXCEPT !.base = IF e = "a" THEN 2 ELSE 1, !.place = screen.place]
                        [] ~shut(e) /\ e = d /\ Form.after # "keep" ->
                               [screen.draft[e] EXCEPT !.typed = FALSE, !.used = FALSE]
                        [] OTHER -> screen.draft[e]
       IN  /\ screen' = [screen EXCEPT !.draft = [e \in Drafts |-> left(e)]]
           /\ past' = [past EXCEPT !.dropped = @ \/ \E e \in Drafts \ {d} :
                          shut(e) /\ screen.draft[e].open /\ screen.draft[e].typed]
    /\ calls' = [calls EXCEPT ![d].at = "none"]
    /\ UNCHANGED rows

\* Refused or lost, a message says so and the draft stays.
NotSaved(d) ==
    /\ calls[d].at \in {"sent", "done", "refused"}
    /\ calls' = [calls EXCEPT ![d].at = "none"]
    /\ past' = [past EXCEPT !.lost = @ \/ calls[d].at # "refused"]
    /\ UNCHANGED <<screen, rows>>

Next ==
    \/ Switch \/ Others \/ Read
    \/ \E d \in Drafts :
          \/ Open(d) \/ Type(d) \/ Cancel(d) \/ Press(d)
          \/ Apply(d) \/ Refuse(d) \/ Saved(d) \/ NotSaved(d)

Spec == Init /\ [][Next]_forms

-----------------------------------------------------------------------------
(* The forms that do otherwise, each for a reason README gives.            *)

\* Reading the row again takes back the draft, or closes the row's editor; where
\* one draft serves all rows, the answer to saving one closes the next.
DropTyping ==
    {"Profile", "Layout", "Year", "Band", "School", "Hostel", "Ca", "Subject", "User", "Register"}
    \cup {"Guardian", "Discipline", "Room", "Lesson", "Assignment", "Teacher", "Candidate"}

\* The draft is taken from the row when it is first shown, or left as it was.
ReviveDrafts ==
    {"Event", "Admin", "Requirement", "Hostel", "NewHostel", "Line", "Structure", "Set"}

\* The weight stays in the field, and the scale read last does not have the band yet.
AddAgain == {"NewBand"}

\* The term of the year shown before; the invoice or the application chosen before.
GoAstray == {"NewEvent", "Payment", "Withdrawal"}

-----------------------------------------------------------------------------
(* Properties.  The screens each one names do otherwise; README says how.  *)

\* What the user has typed goes only by saving, leaving or closing it, not because
\* the screen read the row again or another draft was saved.
TypedIsKept == past.dropped => screen.form \in DropTyping

\* A form opens with the row as the screen shows it, not with what was abandoned.
OpensAsShown == past.revived => screen.form \in ReviveDrafts

\* What is filled in once is added once, however often the button is pressed,
\* unless the answer to it was lost.
FilledOnceAddedOnce == rows.made > past.meant => past.lost \/ screen.form \in AddAgain

\* What is saved belongs to the class, term or year the screen shows.
SavedWhereShown == past.astray => screen.form \in GoAstray

=============================================================================
