------------------------------ MODULE Timetable ------------------------------
(***************************************************************************)
(* The weekly timetable of an academic year: create_slot, import_slots,    *)
(* update_slot and delete_slot of timetable_service.py.  A lesson is       *)
(* compared with what is committed and with what its own transaction has   *)
(* entered; no constraint of the table repeats the comparison, there is    *)
(* only CHECK (ends_at > starts_at).                                       *)
(*                                                                         *)
(* from and to are times of the week; subject, room and label are left out. *)
(***************************************************************************)
EXTENDS Naturals, FiniteSets

CONSTANTS
    Lessons,        \* rows of timetable_slots that can ever exist
    Plans,          \* [from, to, class, stream, teacher] that are asked for
    Reqs,       \* request handlers that may be in flight at once
    None, Gone      \* no row; a row with deleted_at set

VARIABLES
    lesson,         \* committed rows
    plan,           \* what each request handler holds
    contested       \* history: lessons last written beside another open request

timetable == <<lesson, plan, contested>>

-----------------------------------------------------------------------------
(* Faulty variants: what the properties must catch.                        *)

\* Only a lesson that starts during the other one overlaps it.
TimesOverlapAtStart(a, b) == a.from >= b.from /\ a.from < b.to

-----------------------------------------------------------------------------
Nothing == [op |-> "none", rows |-> <<>>, seen |-> None, met |-> FALSE]

Kept == {l \in Lessons : lesson[l] \notin {None, Gone}}

TimesOverlap(a, b) == a.from < b.to /\ a.to > b.from

\* A lesson of the whole class clashes with those of all its streams.
SameClass(a, b) ==
    a.class = b.class /\ (a.stream = b.stream \/ None \in {a.stream, b.stream})

Clash(a, b) == TimesOverlap(a, b) /\ (a.teacher = b.teacher \/ SameClass(a, b))

Init ==
    /\ lesson = [l \in Lessons |-> None]
    /\ plan = [q \in Reqs |-> Nothing]
    /\ contested = {}

\* From here on, a handler knows whether it had company.
Open(q, p) ==
    /\ plan[q] = Nothing
    /\ LET busy == {x \in Reqs : plan[x] # Nothing}
       IN  plan' = [x \in Reqs |-> CASE x = q -> [p EXCEPT !.met = busy # {}]
                                         [] x \in busy -> [plan[x] EXCEPT !.met = TRUE]
                                         [] OTHER -> plan[x]]
    /\ UNCHANGED <<lesson, contested>>

Shut(q) == plan' = [plan EXCEPT ![q] = Nothing]

-----------------------------------------------------------------------------
(* Operations                                                              *)

Begin(q) == Open(q, [Nothing EXCEPT !.op = "enter"])

\* One row of an import, or the only one of create_slot; a row that clashes
\* is reported and left out.
Enter(q, l, p) ==
    /\ plan[q].op = "enter"
    /\ lesson[l] = None /\ \A x \in Reqs : l \notin DOMAIN plan[x].rows
    /\ \A o \in Kept : ~Clash(p, lesson[o])
    /\ \A o \in DOMAIN plan[q].rows : ~Clash(p, plan[q].rows[o])
    /\ plan' = [plan EXCEPT ![q].rows = [x \in DOMAIN @ \cup {l} |-> IF x = l THEN p ELSE @[x]]]
    /\ UNCHANGED <<lesson, contested>>

UpdateRead(q, l, p) ==
    /\ l \in Kept
    /\ \A o \in Kept \ {l} : ~Clash(p, lesson[o])
    /\ Open(q, [Nothing EXCEPT !.op = "update", !.rows = [x \in {l} |-> p], !.seen = lesson[l]])

\* Only columns that differ from the row as loaded are written.
Merge(now, seen, want) ==
    IF now = Gone THEN Gone
    ELSE [f \in DOMAIN now |-> IF want[f] = seen[f] THEN now[f] ELSE want[f]]

\* What the request makes of its rows.
Written(q, l) ==
    IF plan[q].op = "enter" THEN plan[q].rows[l]
    ELSE Merge(lesson[l], plan[q].seen, plan[q].rows[l])

TakesTime(row) == row # Gone => row.from < row.to

Commit(q) ==
    /\ plan[q].op \in {"enter", "update"}
    /\ LET rows == plan[q].rows
       IN  /\ \A l \in DOMAIN rows : TakesTime(Written(q, l))
           /\ lesson' = [l \in Lessons |-> IF l \in DOMAIN rows THEN Written(q, l) ELSE lesson[l]]
           /\ contested' = IF plan[q].met THEN contested \cup DOMAIN rows
                                          ELSE contested \ DOMAIN rows
    /\ Shut(q)

Delete(l) ==
    /\ l \in Kept
    /\ lesson' = [lesson EXCEPT ![l] = Gone]
    /\ UNCHANGED <<plan, contested>>

\* A refusal, an error, a lost connection or a crash before the commit.
Drop(q) == plan[q] # Nothing /\ Shut(q) /\ UNCHANGED <<lesson, contested>>

Next ==
    \/ \E q \in Reqs :
          \/ Begin(q) \/ Commit(q) \/ Drop(q)
          \/ \E l \in Lessons, p \in Plans : Enter(q, l, p) \/ UpdateRead(q, l, p)
    \/ \E l \in Lessons : Delete(l)

Spec == Init /\ [][Next]_timetable

-----------------------------------------------------------------------------
(* Properties                                                              *)

\* Merged rows need not be a plan anybody asked for, but they take time.
TypeOK ==
    /\ \A l \in Lessons :
          \/ lesson[l] \in {None, Gone}
          \/ /\ DOMAIN lesson[l] = {"from", "to", "class", "stream", "teacher"}
             /\ lesson[l].from < lesson[l].to
    /\ contested \subseteq Lessons

\* No teacher and no class has two lessons at a time, unless one of the two
\* was written while another request was open (_check_conflicts).
NobodyInTwoPlaces ==
    \A a \in Kept \ contested, b \in Kept \ contested :
        a # b => ~Clash(lesson[a], lesson[b])

=============================================================================
