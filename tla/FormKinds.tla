------------------------------- MODULE FormKinds ------------------------------
(***************************************************************************)
(* What tells the forms of the web client apart.  A form is described by   *)
(* the draft it holds, by what saving it does and by how it is shown.      *)
(***************************************************************************)
\* f with the fields of g that it has not, as in module TLC, written out so
\* that the provers can use it.
f @@ g == [x \in DOMAIN f \cup DOMAIN g |-> IF x \in DOMAIN f THEN f[x] ELSE g[x]]

\* Whose draft: each row's own, one for the rows in turn, both those and a new
\* row in turn, the one row of the page, or a new row.
\* Where its values come from: as first shown (mount), as opened, or from the row
\* whenever it is read, the form staying open (row) or closing (shut).
\* What cancelling does to them: they are kept, or reset.
Draft(draft, seed, cancel) == [draft |-> draft, seed |-> seed, cancel |-> cancel]

\* Whether an empty draft is refused here, and what success does to the draft:
\* shut, blank, or kept as it is.
Save(checks, after) == [checks |-> checks, after |-> after]

\* Whether the form is always there, and whether its button is out of use while
\* the request is under way.
View(always, busy) == [always |-> always, busy |-> busy]

\* A form that looks at one of several classes, terms or years: its draft goes
\* where the screen looks, is reset by looking elsewhere, or keeps its place.
At(place) == [place |-> place]

\* The API refuses a second row of the same name.
Unique == [unique |-> TRUE]

\* The rest: one place, no names to keep unique.
Plain == [place |-> "none", unique |-> FALSE]

=============================================================================
