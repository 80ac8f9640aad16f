------------------------------ MODULE GridScreens -----------------------------
(***************************************************************************)
(* The screens that show the rows of one place among several (a class, a   *)
(* lesson, a subject, a pay run, a page): whose rows they hold, when they  *)
(* show them and what acting on them sends.                                *)
(***************************************************************************)
\* f with the fields of g that it has not, as in module TLC, written out so
\* that the provers can use it.
f @@ g == [x \in DOMAIN f \cup DOMAIN g |-> IF x \in DOMAIN f THEN f[x] ELSE g[x]]

\* A draft of the rows, which looking elsewhere clears or leaves; or the ticks
\* of a selection; or no draft at all.
Draft(clears) == [acts |-> "draft", clears |-> clears, takes |-> TRUE]
Ticks(clears) == [acts |-> "draft", clears |-> clears, takes |-> FALSE]
Nothing == [acts |-> "none", clears |-> FALSE, takes |-> FALSE]

\* Whether the rows known are shown while those of the place looked at are on
\* their way, and when they did not come.
Shown(waiting, failed) == [waiting |-> waiting, failed |-> failed]

\* Whether only a changed draft is saved, and whether one can look at no place.
Saved(dirty) == [dirty |-> dirty]
Places(none) == [none |-> none]
ReadOnly == Saved(TRUE) @@ Places(FALSE)

-----------------------------------------------------------------------------
(* Faulty variants: what the properties must catch.                        *)

\* The roll of the lesson before stays until the next one arrives.
RollDraftKept == Draft(FALSE)

-----------------------------------------------------------------------------
(* Drafts                                                                  *)

\* Marks of a set, class and subject; the draft takes the roster that arrives.
MarkDraft == Draft(FALSE)
MarkShown == Shown(TRUE, TRUE)
MarkSaved == Saved(FALSE)
Marks == MarkDraft @@ MarkShown @@ MarkSaved @@ Places(FALSE)

\* The roll of a lesson on a day: another lesson empties it, another day of the
\* same lesson does not; the roll that arrives fills it.
RollDraft == Draft(TRUE)
DaysDraft == Draft(FALSE)
RollShown == Shown(FALSE, TRUE)
RollSaved == Saved(TRUE)
RollRows == RollShown
Roll == RollDraft @@ RollRows @@ RollSaved @@ Places(FALSE)
RollDays == DaysDraft @@ RollRows @@ RollSaved @@ Places(FALSE)

\* Learners ticked in a class to be moved or unassigned.
TicksDraft == Ticks(TRUE)
TicksShown == Shown(TRUE, TRUE)
TicksRows == TicksShown
TicksSaved == Saved(TRUE)
Learners == TicksDraft @@ TicksRows @@ TicksSaved @@ Places(FALSE)

\* A pay run: its lines, recomputed or finalised by the run that is chosen.
RunDraft == [Nothing EXCEPT !.acts = "shown"]
RunShown == Shown(FALSE, TRUE)
RunSaved == Saved(FALSE)
PayRun == RunDraft @@ RunShown @@ RunSaved @@ Places(FALSE)

-----------------------------------------------------------------------------
(* Lists to read                                                           *)

\* The period roll as administrators see it.
PeriodPlace == Nothing
PeriodShown == Shown(FALSE, FALSE)
Period == PeriodPlace @@ PeriodShown @@ ReadOnly

\* Learners of a class and how far their term check-in is.
QueuePlace == Nothing
QueueShown == Shown(TRUE, TRUE)
QueueRows == QueueShown
Queue == QueuePlace @@ QueueRows @@ ReadOnly

\* Learners of a class whose check-in is complete.
RegisteredPlace == Nothing
RegisteredShown == Shown(TRUE, TRUE)
RegisteredRows == RegisteredShown
Registered == RegisteredPlace @@ RegisteredRows @@ ReadOnly

\* Invoices of a class or a status.
InvoicesPlace == Nothing
InvoicesShown == Shown(TRUE, FALSE)
InvoicesRows == InvoicesShown
Invoices == InvoicesPlace @@ InvoicesRows @@ ReadOnly

\* A learner's report card; choosing another class leaves no learner chosen.
CardPlace == Places(TRUE)
CardShown == Shown(FALSE, TRUE)
CardExport == Nothing
Card == CardExport @@ CardShown @@ CardPlace @@ Saved(TRUE)

\* Marks or averages of a class, for administrators.
AveragesPlace == Nothing
AveragesShown == Shown(TRUE, TRUE)
AveragesRows == AveragesShown
Averages == AveragesPlace @@ AveragesRows @@ ReadOnly

\* Request, error and audit logs, page by page.
LogsPlace == Nothing
LogsShown == Shown(TRUE, TRUE)
LogsRows == LogsShown
Logs == LogsPlace @@ LogsRows @@ ReadOnly

\* Discipline incidents by status.
IncidentsPlace == Nothing
IncidentsShown == Shown(TRUE, FALSE)
Incidents == IncidentsPlace @@ IncidentsShown @@ ReadOnly

\* The roll is there twice: looking elsewhere is at two lessons, or at two days of one.
Grids == [Marks |-> Marks, Roll |-> Roll, RollDays |-> RollDays, Learners |-> Learners,
          PayRun |-> PayRun, Period |-> Period, Queue |-> Queue, Registered |-> Registered,
          Invoices |-> Invoices, Card |-> Card, Averages |-> Averages,
          Logs |-> Logs, Incidents |-> Incidents]

=============================================================================
