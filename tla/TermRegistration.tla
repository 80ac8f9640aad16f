--------------------------- MODULE TermRegistration ---------------------------
(***************************************************************************)
(* Registering learners for a term: term_registration_service.py and the   *)
(* checklist it reads, term_registration_config_service.py.  Several       *)
(* offices answer the same checklist; whoever gives the last required      *)
(* answer completes the registration.                                      *)
(*                                                                         *)
(* An answer is ticked (waived, or marked satisfied with the value true),  *)
(* filled (marked satisfied with another value, which is enough unless a   *)
(* checkbox is asked for) or open.  Operations on the checklist write one  *)
(* row each and are one step; the others read, flush and commit separately.*)
(***************************************************************************)
EXTENDS Naturals, FiniteSets

CONSTANTS
    Sections, Requirements,
    SectionOf,      \* section a requirement belongs to
    Defaults,       \* sections of DEFAULT_SECTIONS, of which the required checkboxes are kept
    Regs,           \* one row per (student, term)
    Reqs,        \* request handlers that may be in flight at once
    MaxChanges,     \* bound: changes of the checklist
    None

VARIABLES
    section,        \* "none", "on", "off" or "deleted"
    requirement,    \* the same, whether an answer is required and whether it is a checkbox
    registration,   \* student_term_registrations.status, "none" without a row
    answer,         \* student_registration_responses of a registration
    work,           \* what each request handler holds
    changes,        \* number of changes of the checklist
    basis,          \* history: what was needed when a registration completed
    raced,          \* history: registrations two requests worked on at once
    drifted         \* history: registrations not answered since the checklist changed

registers == <<section, requirement, changes, registration, answer, work, basis, raced, drifted>>
checklist == <<section, requirement, changes>>

-----------------------------------------------------------------------------
Answers == {"ticked", "filled", "open"}
Free == [op |-> "free", g |-> None, items |-> <<>>, seen |-> <<>>, needed |-> None,
         fresh |-> FALSE]

Configured == \E s \in Sections : section[s] \in {"on", "off"}

Shown == {r \in Requirements : section[SectionOf[r]] = "on" /\ requirement[r].row = "on"}

\* What is needed: a requirement with the answers its field type accepts now.
Accepts(r) == IF requirement[r].checkbox THEN {"ticked"} ELSE {"ticked", "filled"}
Demands == Requirements \X {{"ticked"}, {"ticked", "filled"}}
Needed == {n \in Demands : n[1] \in Shown /\ requirement[n[1]].required /\ n[2] = Accepts(n[1])}
Meets(answers, n) == answers[n[1]] \in n[2]

\* Responses as a handler's session shows them: its own over the committed.
View(q) == [r \in Requirements |->
               IF r \in DOMAIN work[q].items THEN work[q].items[r]
                                             ELSE answer[work[q].g][r]]

Init ==
    /\ section = [s \in Sections |-> "none"]
    /\ requirement = [r \in Requirements |-> [row |-> "none", required |-> FALSE, checkbox |-> FALSE]]
    /\ registration = [g \in Regs |-> "none"]
    /\ answer = [g \in Regs |-> [r \in Requirements |-> "none"]]
    /\ work = [q \in Reqs |-> Free]
    /\ basis = [g \in Regs |-> {}]
    /\ raced = {}
    /\ drifted = {}
    /\ changes = 0

Take(q, w) ==
    /\ work[q] = Free
    /\ work' = [work EXCEPT ![q] = w]
    /\ raced' = raced \cup ({w.g} \cap {work[p].g : p \in Reqs})
    /\ UNCHANGED <<checklist, registration, answer, basis, drifted>>

Finish(q) == work' = [work EXCEPT ![q] = Free] /\ UNCHANGED <<checklist, raced>>

-----------------------------------------------------------------------------
(* Faulty variants: what the properties must catch.                        *)

\* A completed registration takes further responses.
ResponsesReadAny(q, g, items) ==
    /\ Configured /\ registration[g] # "none" /\ DOMAIN items \subseteq Shown
    /\ Take(q, [Free EXCEPT !.op = "read", !.g = g, !.items = items, !.seen = [r \in DOMAIN items |-> answer[g][r]]])

\* A registration without a status.
StartRegistrationBare(g) ==
    /\ Configured /\ registration[g] = "none"
    /\ registration' = [registration EXCEPT ![g] = "not_started"]
    /\ UNCHANGED <<checklist, answer, work, basis, raced, drifted>>

-----------------------------------------------------------------------------
(* The checklist.  Every handler that reads it first seeds the default     *)
(* sections of a school that has none left.  Slugs are unique over deleted *)
(* rows too, so once default sections were deleted the seeding raises, and *)
(* with it every such handler.                                             *)

ChecklistChanged ==
    /\ changes < MaxChanges /\ changes' = changes + 1
    /\ drifted' = Regs
    /\ work' = [q \in Reqs |-> [work[q] EXCEPT !.fresh = FALSE]]
    /\ UNCHANGED <<registration, answer, basis, raced>>

EnsureDefaultConfig ==
    /\ ~Configured /\ \A s \in Defaults : section[s] = "none"
    /\ section' = [s \in Sections |-> IF s \in Defaults THEN "on" ELSE section[s]]
    /\ requirement' = [r \in Requirements |->
           IF SectionOf[r] \in Defaults THEN [row |-> "on", required |-> TRUE, checkbox |-> TRUE]
                                     ELSE requirement[r]]
    /\ ChecklistChanged

CreateSection(s) ==
    /\ section[s] = "none" /\ s \notin Defaults
    /\ section' = [section EXCEPT ![s] = "on"]
    /\ UNCHANGED requirement /\ ChecklistChanged

UpdateSection(s, row) ==
    /\ section[s] \in {"on", "off"} /\ row \in {"on", "off", "deleted"}
    /\ section' = [section EXCEPT ![s] = row]
    /\ UNCHANGED requirement /\ ChecklistChanged

CreateRequirement(r, required, checkbox) ==
    /\ section[SectionOf[r]] \in {"on", "off"} /\ requirement[r].row = "none"
    /\ requirement' = [requirement EXCEPT ![r] = [row |-> "on", required |-> required, checkbox |-> checkbox]]
    /\ UNCHANGED section /\ ChecklistChanged

\* The answers stay when the field type changes, also those it does not accept.
UpdateRequirement(r, row, required, checkbox) ==
    /\ requirement[r].row \in {"on", "off"} /\ row \in {"on", "off", "deleted"}
    /\ requirement' = [requirement EXCEPT ![r] = [row |-> row, required |-> required, checkbox |-> checkbox]]
    /\ UNCHANGED section /\ ChecklistChanged

-----------------------------------------------------------------------------
(* Registrations.                                                          *)

\* Starting twice finds, or is refused by, the unique (student, term).
StartRegistration(g) ==
    /\ Configured /\ registration[g] = "none"
    /\ registration' = [registration EXCEPT ![g] = "in_progress"]
    /\ UNCHANGED <<checklist, answer, work, basis, raced, drifted>>

ResponsesRead(q, g, items) ==
    /\ Configured /\ registration[g] = "in_progress" /\ DOMAIN items \subseteq Shown
    /\ Take(q, [Free EXCEPT !.op = "read", !.g = g, !.items = items, !.seen = [r \in DOMAIN items |-> answer[g][r]]])

\* A row another handler has written waits for that handler's commit.
RowsFree(q) ==
    \A p \in Reqs \ {q} : work[p].op = "flushed" /\ work[p].g = work[q].g
        => DOMAIN work[p].items \cap DOMAIN work[q].items = {}

\* A response found missing must still be missing when it is inserted.
InsertsFit(q) ==
    \A r \in DOMAIN work[q].items :
        work[q].seen[r] = "none" => answer[work[q].g][r] = "none"

\* The last required answer completes the registration: what was required, or None.
Verdict(q) ==
    IF Needed # {} /\ \A n \in Needed : Meets(View(q), n) THEN Needed ELSE None

ResponsesFlush(q) ==
    /\ work[q].op = "read" /\ RowsFree(q) /\ InsertsFit(q) /\ Configured
    /\ work' = [work EXCEPT ![q].op = "flushed", ![q].needed = Verdict(q), ![q].fresh = TRUE]
    /\ UNCHANGED <<checklist, registration, answer, basis, raced, drifted>>

\* Values equal to the ones loaded are not written.
ResponsesCommit(q) ==
    /\ work[q].op = "flushed"
    /\ LET g == work[q].g
           written == {r \in DOMAIN work[q].items : work[q].items[r] # work[q].seen[r]}
       IN  /\ answer' = [answer EXCEPT ![g] = [r \in Requirements |->
                            IF r \in written THEN work[q].items[r] ELSE answer[g][r]]]
           /\ IF work[q].needed = None
              THEN UNCHANGED <<registration, basis>>
              ELSE /\ registration' = [registration EXCEPT ![g] = "complete"]
                   /\ basis' = [basis EXCEPT ![g] = work[q].needed]
           /\ drifted' = IF work[q].fresh THEN drifted \ {g} ELSE drifted
    /\ Finish(q)

\* complete_registration does not ask whether the registration is complete already.
CompleteRead(q, g) ==
    /\ Configured /\ registration[g] # "none"
    /\ \A n \in Needed : Meets(answer[g], n)
    /\ Take(q, [Free EXCEPT !.op = "complete", !.g = g, !.needed = Needed])

CompleteCommit(q) ==
    /\ work[q].op = "complete"
    /\ registration' = [registration EXCEPT ![work[q].g] = "complete"]
    /\ basis' = [basis EXCEPT ![work[q].g] = work[q].needed]
    /\ UNCHANGED <<answer, drifted>> /\ Finish(q)

\* An error, a lost connection or a crash before the commit.
Rollback(q) ==
    /\ work[q] # Free
    /\ Finish(q) /\ UNCHANGED <<registration, answer, basis, drifted>>

Items == UNION {[R -> Answers] : R \in SUBSET Requirements \ {{}}}

Next ==
    \/ EnsureDefaultConfig
    \/ \E s \in Sections :
          CreateSection(s) \/ \E row \in {"on", "off", "deleted"} : UpdateSection(s, row)
    \/ \E r \in Requirements, required, checkbox \in BOOLEAN :
          \/ CreateRequirement(r, required, checkbox)
          \/ \E row \in {"on", "off", "deleted"} : UpdateRequirement(r, row, required, checkbox)
    \/ \E g \in Regs :
          \/ StartRegistration(g)
          \/ \E q \in Reqs :
                CompleteRead(q, g) \/ \E items \in Items : ResponsesRead(q, g, items)
    \/ \E q \in Reqs :
          ResponsesFlush(q) \/ ResponsesCommit(q) \/ CompleteCommit(q) \/ Rollback(q)

Spec == Init /\ [][Next]_registers

-----------------------------------------------------------------------------
(* Properties                                                              *)

\* Answers belong to registrations that exist.
TypeOK ==
    /\ section \in [Sections -> {"none", "on", "off", "deleted"}]
    /\ requirement \in [Requirements -> [row : {"none", "on", "off", "deleted"},
                                          required : BOOLEAN, checkbox : BOOLEAN]]
    /\ registration \in [Regs -> {"none", "in_progress", "complete"}]
    /\ answer \in [Regs -> [Requirements -> Answers \cup {"none"}]]
    /\ \A g \in Regs : registration[g] = "none" => answer[g] = [r \in Requirements |-> "none"]
    /\ \A q \in Reqs : work[q].g \in Regs \cup {None} /\ work[q].op \in {"free", "read", "flushed", "complete"}

\* What was needed when a registration completed is still answered as it was asked
\* for then, however the checklist changes later, unless two requests worked on it
\* at once (upsert_responses refuses a completed registration).
CompletedMeansAnswered ==
    \A g \in Regs \ raced : registration[g] = "complete" =>
        \A n \in basis[g] : Meets(answer[g], n)

\* A registration with every required answer does not wait to be completed by
\* hand, unless the checklist has changed since its last response or two
\* offices answered at once (_maybe_auto_complete).
AnsweredGetsCompleted ==
    \A g \in Regs \ (raced \cup drifted) :
        registration[g] = "in_progress" /\ Needed # {} =>
            \E n \in Needed : ~Meets(answer[g], n)

=============================================================================
