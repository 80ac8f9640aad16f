--------------------------- MODULE AcademicCalendar ---------------------------
(***************************************************************************)
(* Academic years and terms of a school: academic_service.py.  No          *)
(* constraint of the tables makes the active year or term unique; the two  *)
(* activations do, by bulk updates around rows they loaded before.         *)
(*                                                                         *)
(* The bulk updates of a handler are one step with its commit; where two   *)
(* handlers are open at once the property makes no claim until the next    *)
(* undisturbed activation.                                                 *)
(***************************************************************************)
EXTENDS Naturals, FiniteSets

CONSTANTS
    Years,          \* 1..n, consecutive labels
    Numbers,        \* 1..m, term numbers of TERM_TEMPLATE
    Reqs,         \* request handlers that may be in flight at once
    None

VARIABLES
    year,           \* status of academic_years, "none" without a row
    term,           \* status of terms, by year and number
    clerk,          \* what each request handler holds
    muddled         \* history: whether active "years" or "terms" may be several

calendar == <<year, term, clerk, muddled>>

-----------------------------------------------------------------------------
Away == [op |-> "away", y |-> None, n |-> None, to |-> None, seen |-> None, met |-> FALSE]

Terms == Years \X Numbers
ActiveYears == {y \in Years : year[y] = "active"}
ActiveTerms == {t \in Terms : term[t] = "active"}

\* Days count the starts and ends of terms: term t runs on day 2 * Position(t).
Position(t) == (t[1] - 1) * Cardinality(Numbers) + t[2]
Days == 1..(2 * Cardinality(Terms) + 1)

\* _seed_terms
Seeded(t, today) ==
    CASE today < 2 * Position(t) -> "upcoming"
      [] today = 2 * Position(t) -> "active"
      [] today > 2 * Position(t) -> "closed"

\* Onboarding seeds the year the school starts in.
Init ==
    \E y \in Years, today \in Days :
       /\ today \in (2 * Position(<<y, 1>>) - 1)..(2 * Position(<<y, Cardinality(Numbers)>>) + 1)
       /\ year = [x \in Years |-> IF x = y THEN "active" ELSE "none"]
       /\ term = [t \in Terms |-> IF t[1] = y THEN Seeded(t, today) ELSE "none"]
       /\ clerk = [c \in Reqs |-> Away]
       /\ muddled = {}

Come(c, w) ==
    /\ clerk[c] = Away
    /\ LET busy == {x \in Reqs : clerk[x] # Away}
       IN  clerk' = [x \in Reqs |-> CASE x = c -> [w EXCEPT !.met = busy # {}]
                                        [] x \in busy -> [clerk[x] EXCEPT !.met = TRUE]
                                        [] OTHER -> clerk[x]]
    /\ UNCHANGED <<year, term, muddled>>

\* A handler that had company muddles what it writes, one that had none may
\* settle or muddle it.
Leave(c, muddles, settles) ==
    /\ clerk' = [clerk EXCEPT ![c] = Away]
    /\ muddled' = IF clerk[c].met THEN {"years", "terms"} ELSE (muddled \cup muddles) \ settles

-----------------------------------------------------------------------------
(* Faulty variants: what the properties must catch.                        *)

\* Activating a year leaves alone whatever term is active.
TermsAfterYearKept(y) == {term}

-----------------------------------------------------------------------------
(* Operations                                                              *)

\* A new year may seed a second active term: the one that today falls into.
CreateYear(y, today) ==
    /\ year[y] = "none"
    /\ year' = [year EXCEPT ![y] = "upcoming"]
    /\ term' = [t \in Terms |-> IF t[1] = y THEN Seeded(t, today) ELSE term[t]]
    /\ muddled' = muddled \cup {"terms" : t \in {t \in Terms : t[1] = y /\ term'[t] = "active"}}
    /\ UNCHANGED clerk

\* update_year and update_term accept any status.
EditYearRead(c, y, to) ==
    /\ year[y] # "none" /\ to # year[y]
    /\ Come(c, [Away EXCEPT !.op = "editYear", !.y = y, !.to = to])

EditYearCommit(c) ==
    /\ clerk[c].op = "editYear"
    /\ year' = [year EXCEPT ![clerk[c].y] = clerk[c].to]
    /\ UNCHANGED term /\ Leave(c, {"years"}, {})

EditTermRead(c, t, to) ==
    /\ term[t] \notin {"none", to}
    /\ Come(c, [Away EXCEPT !.op = "editTerm", !.y = t[1], !.n = t[2], !.to = to])

EditTermCommit(c) ==
    /\ clerk[c].op = "editTerm"
    /\ term' = [term EXCEPT ![<<clerk[c].y, clerk[c].n>>] = clerk[c].to]
    /\ UNCHANGED year /\ Leave(c, {"terms"}, {})

\* Other active years are archived; the activated year is written if it was not
\* active when it was loaded.
YearsAfter(y, seen) ==
    [x \in Years |-> CASE x = y -> IF seen = "active" THEN year[y] ELSE "active"
                       [] x # y /\ year[x] = "active" -> "archived"
                       [] OTHER -> year[x]]

TermsAfter(t) ==
    [x \in Terms |-> CASE x = t -> "active"
                       [] x # t /\ term[x] = "active" -> "closed"
                       [] OTHER -> term[x]]

\* Some active term is looked up; unless it is one of the year, the year's first
\* term becomes the active one.
TermsAfterYear(y) ==
    {IF found # None /\ found[1] = y THEN term ELSE TermsAfter(<<y, 1>>) :
        found \in IF ActiveTerms = {} THEN {None} ELSE ActiveTerms}

ActivateYearRead(c, y) ==
    /\ year[y] # "none"
    /\ Come(c, [Away EXCEPT !.op = "activateYear", !.y = y, !.seen = year[y]])

ActivateYearCommit(c) ==
    /\ clerk[c].op = "activateYear"
    /\ year' = YearsAfter(clerk[c].y, clerk[c].seen)
    /\ term' \in TermsAfterYear(clerk[c].y)
    /\ Leave(c, {}, {"years"})

ActivateTermRead(c, t) ==
    /\ term[t] # "none"
    /\ Come(c, [Away EXCEPT !.op = "activateTerm", !.y = t[1], !.n = t[2], !.seen = year[t[1]]])

\* A year that was active when it was loaded is not asked about again.
ActivateTermCommit(c) ==
    /\ clerk[c].op = "activateTerm"
    /\ term' = TermsAfter(<<clerk[c].y, clerk[c].n>>)
    /\ year' = IF clerk[c].seen = "active" THEN year ELSE YearsAfter(clerk[c].y, clerk[c].seen)
    /\ Leave(c, {}, {"terms"})

\* An error, a lost connection or a crash before the commit.
Rollback(c) ==
    /\ clerk[c] # Away
    /\ clerk' = [clerk EXCEPT ![c] = Away]
    /\ UNCHANGED <<year, term, muddled>>

Next ==
    \/ \E y \in Years, today \in Days : CreateYear(y, today)
    \/ \E c \in Reqs :
          \/ \E y \in Years :
                \/ ActivateYearRead(c, y)
                \/ \E to \in {"upcoming", "active", "archived"} : EditYearRead(c, y, to)
          \/ \E t \in Terms :
                \/ ActivateTermRead(c, t)
                \/ \E to \in {"upcoming", "active", "closed"} : EditTermRead(c, t, to)
          \/ EditYearCommit(c) \/ EditTermCommit(c)
          \/ ActivateYearCommit(c) \/ ActivateTermCommit(c) \/ Rollback(c)

Spec == Init /\ [][Next]_calendar

-----------------------------------------------------------------------------
(* Properties                                                              *)

\* Terms belong to years that exist.
TypeOK ==
    /\ year \in [Years -> {"none", "upcoming", "active", "archived"}]
    /\ term \in [Terms -> {"none", "upcoming", "active", "closed"}]
    /\ \A t \in Terms : (term[t] = "none") <=> (year[t[1]] = "none")
    /\ muddled \subseteq {"years", "terms"}

\* The school is in one year and one term, and the term is one of the year
\* (get_context takes any active row it finds).  Years set by hand stay in
\* doubt until a year is activated, terms set by hand or seeded with a new year
\* until a term is, both after overlapping requests.
CalendarAgrees ==
    /\ "years" \notin muddled => Cardinality(ActiveYears) <= 1
    /\ "terms" \notin muddled => Cardinality(ActiveTerms) <= 1
    /\ muddled = {} => \A t \in ActiveTerms : t[1] \in ActiveYears

=============================================================================
