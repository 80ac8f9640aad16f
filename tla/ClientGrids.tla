------------------------------ MODULE ClientGrids -----------------------------
(***************************************************************************)
(* The screens that show the rows of one place among several, a class, a   *)
(* lesson, a subject, a section, and act on them: marks, the roll of a     *)
(* lesson, a registration's sections and the selection of learners.        *)
(*                                                                         *)
(* Looking elsewhere asks the API for the rows of the new place; until     *)
(* they arrive the query's data is what it was, so the grid's draft may    *)
(* hold the rows of the place looked at before.                            *)
(***************************************************************************)
EXTENDS GridScreens, Naturals, FiniteSets

VARIABLES
    screen,         \* the screen, where it looks, whose rows it and its draft hold
    calls,          \* places being fetched, kept or not come; the request to save
    rows,           \* the API: versions of the rows
    past            \* history: what the properties are about

grids == <<screen, calls, rows, past>>

Here == {1, 2}
It == Grids[screen.grid]

-----------------------------------------------------------------------------
Init ==
    /\ \E g \in DOMAIN Grids :
          screen = [grid |-> g, looks |-> 1, data |-> 0, has |-> 0, touched |-> FALSE]
    /\ calls = [fetching |-> {1}, cached |-> {}, failed |-> {}, at |-> "none", to |-> 1]
    /\ rows = [p \in Here |-> [now |-> 1, read |-> 0]]
    /\ past = [astray |-> FALSE]

TypeOK ==
    /\ screen \in [grid : DOMAIN Grids, looks : 0..2, data : 0..2, has : 0..2, touched : BOOLEAN]
    /\ calls \in [fetching : SUBSET Here, cached : SUBSET Here, failed : SUBSET Here,
                  at : {"none", "sent", "done", "refused"}, to : Here]
    /\ rows \in [Here -> [now : 1..2, read : 0..2]]
    /\ past \in [astray : BOOLEAN]

\* Rows are on the screen: those of the draft, or those the query last brought.
Visible ==
    /\ screen.looks \in calls.fetching => It.waiting
    /\ screen.looks \in calls.failed => It.failed
Seen == IF ~Visible THEN 0 ELSE IF It.takes THEN screen.has ELSE screen.data

\* The query's data becomes that of a place: a draft takes its rows and what was
\* touched is gone, ticks stay.
Taken(p, s) ==
    IF Grids[s.grid].takes THEN [s EXCEPT !.data = p, !.has = p, !.touched = FALSE]
    ELSE [s EXCEPT !.data = p]

-----------------------------------------------------------------------------
(* The user                                                                *)

\* Looking elsewhere: what was read before is there at once, the rest is fetched.
Look(p) ==
    /\ screen.looks # p
    /\ LET left == IF It.clears THEN [screen EXCEPT !.has = 0, !.touched = FALSE] ELSE screen
           moved == [left EXCEPT !.looks = p]
       IN  /\ screen' = IF p \in calls.cached /\ screen.data # p THEN Taken(p, moved) ELSE moved
           /\ calls' = IF p \in calls.cached THEN calls
                       ELSE [calls EXCEPT !.fetching = @ \cup {p}, !.failed = @ \ {p}]
    /\ UNCHANGED <<rows, past>>

\* Looking at nothing: the query is skipped and keeps what it brought last.
LookAway ==
    /\ It.none /\ screen.looks # 0 /\ screen' = [screen EXCEPT !.looks = 0]
    /\ UNCHANGED <<calls, rows, past>>

\* Marks, presence or a tick.
Touch ==
    /\ It.acts = "draft" /\ ~screen.touched
    /\ IF It.takes THEN screen.has # 0 ELSE Seen # 0
    /\ screen' = [screen EXCEPT !.touched = TRUE, !.has = IF It.takes THEN @ ELSE Seen]
    /\ UNCHANGED <<calls, rows, past>>

\* The draft, or the rows on the screen, are saved where the screen looks.
SaveRows ==
    /\ calls.at = "none" /\ (It.dirty => screen.touched)
    /\ LET of == CASE It.acts = "draft" -> screen.has [] It.acts = "shown" -> Seen [] OTHER -> 0
       IN  /\ of # 0
           /\ past' = [past EXCEPT !.astray = @ \/ of # screen.looks]
    /\ calls' = [calls EXCEPT !.at = "sent", !.to = screen.looks]
    /\ UNCHANGED <<screen, rows>>

-----------------------------------------------------------------------------
(* The API and other offices                                               *)

\* Rows arrive: for the place looked at they are shown, for another they are kept.
Arrive(p) ==
    /\ p \in calls.fetching
    /\ calls' = [calls EXCEPT !.fetching = @ \ {p}, !.cached = @ \cup {p}]
    /\ rows' = [rows EXCEPT ![p].read = rows[p].now]
    /\ screen' = IF p = screen.looks /\ (screen.data # p \/ rows[p].read < rows[p].now)
                 THEN Taken(p, screen) ELSE screen
    /\ UNCHANGED past

\* They do not arrive: what was shown before stays.
ArriveNot(p) ==
    /\ p \in calls.fetching
    /\ calls' = [calls EXCEPT !.fetching = @ \ {p}, !.failed = @ \cup {p}]
    /\ UNCHANGED <<screen, rows, past>>

\* The button reads the rows again.
Refresh ==
    /\ screen.looks \notin calls.fetching \cup {0}
    /\ calls' = [calls EXCEPT !.fetching = @ \cup {screen.looks}, !.failed = @ \ {screen.looks}]
    /\ UNCHANGED <<screen, rows, past>>

Write(p) == rows' = [rows EXCEPT ![p].now = 2]

Others == \E p \in Here : rows[p].now = 1 /\ Write(p) /\ UNCHANGED <<screen, calls, past>>

Apply ==
    /\ calls.at = "sent" /\ calls' = [calls EXCEPT !.at = "done"]
    /\ Write(calls.to) /\ UNCHANGED <<screen, past>>

Refuse ==
    /\ calls.at = "sent" /\ calls' = [calls EXCEPT !.at = "refused"]
    /\ UNCHANGED <<screen, rows, past>>

-----------------------------------------------------------------------------
(* Answers                                                                 *)

\* Saved: the rows are read again; a selection is empty.
SavedRows ==
    /\ calls.at = "done"
    /\ calls' = [calls EXCEPT !.at = "none", !.fetching = @ \cup {screen.looks},
                              !.failed = @ \ {screen.looks}]
    /\ screen' = IF It.takes THEN screen ELSE [screen EXCEPT !.has = 0, !.touched = FALSE]
    /\ UNCHANGED <<rows, past>>

NotSaved ==
    /\ calls.at \in {"sent", "done", "refused"}
    /\ calls' = [calls EXCEPT !.at = "none"]
    /\ UNCHANGED <<screen, rows, past>>

Next ==
    \/ LookAway \/ Touch \/ SaveRows \/ Refresh \/ Others \/ Apply \/ Refuse \/ SavedRows \/ NotSaved
    \/ \E p \in Here : Look(p) \/ Arrive(p) \/ ArriveNot(p)

Spec == Init /\ [][Next]_grids

-----------------------------------------------------------------------------
(* Properties.  The screens each one names do otherwise; README says how.  *)

\* The subject, the class, the run or the day chosen is not the one whose rows are held.
GoAstray == {"Marks", "Learners", "PayRun", "RollDays"}

\* Attendance is shown for the lesson looked at, on whichever day, or not at all.
NeverMixed == {"Roll", "Period"}

\* What is saved is what belongs where the screen looks; rows of another place are
\* shown only until those of this place came, failed to, or no place is chosen.
SavedWhereShown ==
    /\ past.astray => screen.grid \in GoAstray
    /\ Seen \notin {0, screen.looks} =>
          /\ screen.looks \in calls.fetching \cup calls.failed \cup {0}
          /\ screen.grid \notin NeverMixed

\* Coming back to the lesson whose roll the query still holds shows no roll.
StayBlank == {"Roll"}

\* When nothing is under way and nothing failed, the screen shows the rows of the
\* place it looks at, and shows them all.
QuietIsShown ==
    calls.fetching = {} /\ calls.failed = {} /\ screen.looks # 0 =>
        /\ screen.data = screen.looks
        /\ It.takes => screen.has = screen.looks \/ screen.grid \in StayBlank

=============================================================================
