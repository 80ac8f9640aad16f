------------------------------ MODULE ClientPages -----------------------------
(***************************************************************************)
(* Lists that the API hands out page by page: a page is asked for by the   *)
(* cursor that ended the one before, and the cursors are kept on a stack.  *)
(* While a page is fetched the rows shown, and the cursor that ends them,  *)
(* are those fetched last.                                                 *)
(*                                                                         *)
(* A cursor is the number of the page that starts there.                   *)
(***************************************************************************)
EXTENDS Naturals, FiniteSets

VARIABLES
    screen,         \* the list, its filter, the page it is at, the rows it shows by filter
    calls,          \* pages being fetched, and pages that were
    rows,           \* the API: the last page
    past            \* the stack of cursors, where each page visited starts; history

pages == <<screen, calls, rows, past>>

Filters == {1, 2}
LastPage == 3
Ask(filter, at) == [filter |-> filter, at |-> at]

-----------------------------------------------------------------------------
\* Learners page on as soon as the first page came; the logs wait for each page.
Waits(list) == list = "Logs"

Start == [p \in 1..LastPage |-> IF p = 1 THEN 1 ELSE 0]
None == Ask(1, 0)

Init ==
    /\ \E list \in {"Learners", "Logs"} :
          screen = [list |-> list, filter |-> 1, page |-> 1, data |-> [f \in Filters |-> None]]
    /\ calls = [fetching |-> {Ask(1, 1)}, cached |-> {}]
    /\ rows \in 1..LastPage
    /\ past = [from |-> Start, failed |-> FALSE]

Fetches == [filter : Filters, at : 0..LastPage]
\* Lists, filters and pages exist; none is asked for after the last one.
TypeOK ==
    /\ screen \in [list : {"Learners", "Logs"}, filter : Filters, page : 1..LastPage, data : [Filters -> Fetches]]
    /\ calls.fetching \subseteq Fetches /\ calls.cached \subseteq Fetches
    /\ rows \in 1..LastPage
    /\ past \in [from : [1..LastPage -> 0..rows], failed : BOOLEAN]

\* Each tab of the logs has rows of its own; the learners' are those fetched last.
Showing(to, ask) ==
    [to EXCEPT !.data = [f \in Filters |-> IF f = ask.filter \/ to.list = "Learners" THEN ask ELSE @[f]]]

\* The list turns to a page of a filter: it is shown at once if it was fetched before.
Turn(to, cursor) ==
    LET ask == Ask(to.filter, cursor)
    IN  /\ screen' = IF ask \in calls.cached THEN Showing(to, ask) ELSE to
        /\ calls' = IF ask \in calls.cached THEN calls ELSE [calls EXCEPT !.fetching = @ \cup {ask}]

\* The buttons are out of use before any row, and while the list waits.
Rows == screen.data[screen.filter]
Here == Ask(screen.filter, past.from[screen.page])
Ready == Rows # None /\ (Waits(screen.list) => Here \notin calls.fetching)

\* Faulty: Next is there after the last page too.
NextPageAlways ==
    /\ Ready /\ screen.page < LastPage
    /\ LET cursor == Rows.at + 1
       IN  /\ past' = [past EXCEPT !.from[screen.page + 1] = cursor]
           /\ Turn([screen EXCEPT !.page = @ + 1], cursor)
    /\ UNCHANGED rows

\* The next page starts where the rows shown end.
NextPage ==
    /\ Ready /\ Rows.at < rows /\ screen.page < LastPage
    /\ LET cursor == Rows.at + 1
       IN  /\ past' = [past EXCEPT !.from[screen.page + 1] = cursor]
           /\ Turn([screen EXCEPT !.page = @ + 1], cursor)
    /\ UNCHANGED rows

PreviousPage ==
    /\ Ready /\ screen.page > 1
    /\ Turn([screen EXCEPT !.page = @ - 1], past.from[screen.page - 1])
    /\ UNCHANGED <<rows, past>>

\* Another filter starts again from the first page.
Refilter(filter) ==
    /\ filter # screen.filter
    /\ Turn([screen EXCEPT !.filter = filter, !.page = 1], 1)
    /\ past' = [past EXCEPT !.from = Start]
    /\ UNCHANGED rows

\* A page arrives, or does not: it is shown if it is the one the list is at.
PageArrives(ask) ==
    /\ ask \in calls.fetching
    /\ calls' = [fetching |-> calls.fetching \ {ask}, cached |-> calls.cached \cup {ask}]
    /\ screen' = IF ask = Here THEN Showing(screen, ask) ELSE screen
    /\ UNCHANGED <<rows, past>>

PageLost(ask) ==
    /\ ask \in calls.fetching /\ calls' = [calls EXCEPT !.fetching = @ \ {ask}]
    /\ past' = [past EXCEPT !.failed = TRUE]
    /\ UNCHANGED <<screen, rows>>

Next ==
    \/ NextPage \/ PreviousPage
    \/ \E filter \in Filters : Refilter(filter)
    \/ \E ask \in calls.fetching : PageArrives(ask) \/ PageLost(ask)

Spec == Init /\ [][Next]_pages

-----------------------------------------------------------------------------
(* Properties.  The screens each one names do otherwise; README says how.  *)

\* Next pressed again before the page came starts the one after at the same row.
RepeatPages == {"Learners"}

\* Paging through a list shows each of its rows once: unless a page failed, every
\* page starts where the one before ended, and when nothing is on its way the
\* rows shown are those of the page and filter the list is at.
PagesFollow ==
    ~past.failed =>
        /\ screen.list \notin RepeatPages => \A p \in 1..screen.page : past.from[p] = p
        /\ calls.fetching = {} => Rows = Here

=============================================================================
